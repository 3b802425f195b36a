-------------------------- MODULE KeyExchangeProofs --------------------------
(***************************************************************************)
(* Proofs about KeyExchange, for any prime, any numbers of frames and any  *)
(* faults: that the keys agree, whatever goes wrong; and that nothing goes *)
(* wrong by itself, which takes some arithmetic first.                     *)
(***************************************************************************)
EXTENDS KeyExchange, TLAPS, WellFoundedInduction

-----------------------------------------------------------------------------
(* Numbers: induction, division, primes, and powers modulo the prime.      *)

\* Induction, for a set: the rules of the library are for operators.
LEMMA SetInduction ==
    ASSUME NEW T \in SUBSET Nat, 0 \in T, \A n \in T : n + 1 \in T
    PROVE  T = Nat
<1> SUFFICES ASSUME Nat \ T # {} PROVE FALSE
  OBVIOUS
<1>1. PICK x \in Nat \ T : \A y \in Nat \ T : <<y, x>> \notin OpToRel(<, Nat)
  BY WFMin, NatLessThanWellFounded
<1>2. \A y \in Nat \ T : ~(y < x)
  BY <1>1 DEF OpToRel
<1>3. x # 0 /\ x - 1 \in Nat
  OBVIOUS
<1>4. x - 1 \in T
  BY <1>2, <1>3
<1> QED
  BY <1>3, <1>4

\* A set of numbers has a least one.
LEMMA Least ==
    ASSUME NEW S \in SUBSET Nat, S # {}
    PROVE  \E m \in S : \A x \in S : m <= x
<1>1. PICK m \in S : \A y \in S : <<y, m>> \notin OpToRel(<, Nat)
  BY WFMin, NatLessThanWellFounded
<1>2. \A y \in S : ~(y < m)
  BY <1>1 DEF OpToRel
<1> QED
  BY <1>2

LEMMA Division ==
    ASSUME NEW a \in Nat, NEW n \in Nat \ {0}
    PROVE  /\ a \div n \in Nat /\ a % n \in 0 .. (n - 1)
           /\ a = n * (a \div n) + (a % n)
OBVIOUS

LEMMA Exactly ==
    ASSUME NEW a \in Nat, NEW n \in Nat \ {0}, a % n = 0
    PROVE  \E k \in Nat : a \div n = k /\ a = n * k
BY Division

LEMMA Cancel ==
    ASSUME NEW n \in Nat \ {0}, NEW x \in Int, NEW y \in Int, n * x = n * y
    PROVE  x = y
OBVIOUS

LEMMA Remainder ==
    ASSUME NEW n \in Nat \ {0}, NEW q \in Nat, NEW r \in 0 .. (n - 1)
    PROVE  (n * q + r) % n = r
OBVIOUS

LEMMA MultipleIs ==
    ASSUME NEW n \in Nat \ {0}, NEW q \in Nat
    PROVE  (n * q) % n = 0
OBVIOUS

\* A factor may be reduced before a product is.
LEMMA FactorModulo ==
    ASSUME NEW n \in Nat \ {0}, NEW x \in Nat, NEW y \in Nat
    PROVE  ((x % n) * y) % n = (x * y) % n
<1> DEFINE q == x \div n  r == x % n  s == (r * y) \div n  t == (r * y) % n
<1>1. q \in Nat /\ r \in 0 .. (n - 1) /\ x = n * q + r
  BY Division
<1>2. r * y \in Nat
  BY <1>1
<1>3. s \in Nat /\ t \in 0 .. (n - 1) /\ r * y = n * s + t
  BY <1>2, Division
<1> HIDE DEF q, r, s, t
<1>4. x * y = n * (q * y + s) + t
  BY <1>1, <1>3
<1>5. q * y + s \in Nat
  BY <1>1, <1>3
<1>6. (x * y) % n = t
  BY <1>3, <1>4, <1>5, Remainder
<1> QED
  BY <1>6 DEF t, r

\* What two multiples of p leave of each other is one too.
LEMMA MultiplesApart ==
    ASSUME NEW p \in Nat \ {0}, NEW b \in Nat, NEW c \in Nat, NEW m \in Nat,
           NEW r \in Nat, ((c * m + r) * b) % p = 0, (m * b) % p = 0
    PROVE  (r * b) % p = 0
<1> DEFINE v == (c * m + r) * b  w == m * b
<1>1. v \in Nat /\ w \in Nat /\ v % p = 0 /\ w % p = 0
  OBVIOUS
<1>3. r * b = v - c * w
  OBVIOUS
<1> HIDE DEF v, w
<1>2. PICK k \in Nat : v = p * k
  BY <1>1, Exactly, Zenon
<1>7. PICK j \in Nat : w = p * j
  BY <1>1, Exactly, Zenon
<1>4. r * b = p * (k - c * j)
  BY <1>2, <1>7, <1>3
<1>5. r * b >= 0 /\ k - c * j \in Int
  BY <1>2, <1>7
<1>6. k - c * j \in Nat
  BY <1>4, <1>5
<1> QED
  BY <1>4, <1>6, MultipleIs

\* A prime that divides a product divides a factor: the least number whose
\* product with b it divides is 1 or the prime, and divides all such numbers.
LEMMA PrimeDivides ==
    ASSUME NEW p \in Nat, IsPrime(p), NEW a \in Nat, NEW b \in Nat,
           (a * b) % p = 0
    PROVE  a % p = 0 \/ b % p = 0
<1> DEFINE S == {x \in Nat \ {0} : (x * b) % p = 0}
<1>1. p \in Nat \ {0, 1}
  BY DEF IsPrime
<1>2. p \in S
  BY <1>1, MultipleIs
<1>3. PICK m \in S : \A x \in S : m <= x
  BY <1>2, Least
<1>4. ASSUME NEW x \in Nat, (x * b) % p = 0 PROVE x % m = 0
  <2> DEFINE c == x \div m  r == x % m
  <2>1. c \in Nat /\ r \in 0 .. (m - 1) /\ x = m * c + r
    BY Division
  <2>2. x = c * m + r
    BY <2>1
  <2> HIDE DEF c, r
  <2>3. (r * b) % p = 0
    BY <1>1, <1>4, <2>1, <2>2, MultiplesApart
  <2>4. r \notin S
    BY <1>3, <2>1
  <2> QED
    BY <2>1, <2>3, <2>4 DEF r
<1>5. p % m = 0 /\ a % m = 0
  <2>1. (p * b) % p = 0
    BY <1>1, MultipleIs
  <2> QED
    BY <1>1, <1>4, <2>1
<1>6. m = 1 \/ m = p
  <2>1. m \in Nat \ {0} /\ m <= p
    BY <1>2, <1>3
  <2> HIDE DEF S
  <2> QED
    BY <1>1, <1>5, <2>1 DEF IsPrime
<1>7. m = 1 => (1 * b) % p = 0
  BY <1>3
<1> QED
  BY <1>5, <1>6, <1>7

\* A product of two primes has no other divisors.
LEMMA TrivialDivisors ==
    ASSUME NEW q \in Nat, IsPrime(q), NEW k \in Nat, NEW e \in Nat, k * e = q
    PROVE  k = 1 \/ k = q
<1>1. q > 1 /\ k # 0 /\ e # 0
  BY DEF IsPrime
<1>2. q % k = 0
  BY <1>1, MultipleIs
<1>3. k <= q
  BY <1>1
<1> QED
  BY <1>1, <1>2, <1>3 DEF IsPrime

LEMMA DivisorIsFactor ==
    ASSUME NEW p \in Nat, NEW q \in Nat, IsPrime(p), IsPrime(q),
           NEW d \in 2 .. (p * q - 1), (p * q) % d = 0
    PROVE  d \in {p, q} /\ d * ((p * q) \div d) = p * q
<1> DEFINE n == p * q  e == n \div d
<1>1. p > 1 /\ q > 1 /\ n \in Nat /\ n > 0 /\ d \in Nat \ {0} /\ n % d = 0
  BY DEF IsPrime
<1> HIDE DEF n
<1>2. e \in Nat /\ n = d * e
  BY <1>1, Exactly
<1> HIDE DEF e
<1>6. n = p * q
  BY DEF n
<1>3. (d * e) % p = 0
  <2>1. n % p = 0
    BY <1>1, <1>6, MultipleIs
  <2> QED
    BY <1>2, <2>1
<1>4. CASE d % p = 0
  <2>5. p \in Nat \ {0} /\ d \in Nat
    BY <1>1, <1>2
  <2>1. PICK k \in Nat : d = p * k
    BY <1>4, <2>5, Exactly, Zenon
  <2>2. p * (k * e) = p * q
    BY <1>2, <1>6, <2>1
  <2>3. k * e = q
    BY <1>1, <1>2, <2>1, <2>2, Cancel
  <2>4. k = 1 \/ k = q
    BY <1>1, <1>2, <2>1, <2>3, TrivialDivisors
  <2> QED
    BY <1>1, <1>2, <1>6, <2>1, <2>4 DEF e, n
<1>5. CASE e % p = 0
  <2>5. p \in Nat \ {0} /\ e \in Nat
    BY <1>1, <1>2
  <2>1. PICK k \in Nat : e = p * k
    BY <1>5, <2>5, Exactly, Zenon
  <2>2. p * (d * k) = p * q
    BY <1>2, <1>6, <2>1
  <2>3. d * k = q
    BY <1>1, <2>1, <2>2, Cancel
  <2>4. d = 1 \/ d = q
    BY <1>1, <2>1, <2>3, TrivialDivisors
  <2> QED
    BY <1>1, <1>2, <1>6, <2>1, <2>4 DEF e, n
<1> QED
  BY <1>1, <1>2, <1>3, <1>4, <1>5, PrimeDivides

LEMMA PrimeIs == Prime \in Nat /\ IsPrime(Prime)
BY ConstantsAssumption, Zenon

LEMMA GeneratorIs == Prime \in Nat /\ Generator \in 1 .. (Prime - 1)
<1>1. Prime \in Nat /\ Generator \in 2 .. (Prime - 1)
  BY ConstantsAssumption, Zenon
<1> QED
  BY <1>1

LEMMA LimitsAre == MaxSmall \in Nat /\ MaxFrames \in Nat
BY ConstantsAssumption, Zenon

LEMMA LengthIs == KeyLength \in Nat \ {0} /\ Base \in Nat \ {0, 1}
BY ConstantsAssumption, Zenon

\* The first n steps of a recursion on the powers of b.
PowersUpTo(f, b, n) ==
    /\ f \in [0 .. n -> Nat] /\ f[0] = 1
    /\ \A i \in 0 .. (n - 1) : f[i + 1] = (f[i] * b) % Prime

\* However far, the powers exist, and are the same ones.
LEMMA PowersExist ==
    ASSUME NEW b \in Nat
    PROVE  \A n \in Nat : \E f : PowersUpTo(f, b, n)
<1> DEFINE T == {n \in Nat : \E f : PowersUpTo(f, b, n)}
<1>1. 0 \in T
  <2>1. PowersUpTo([i \in 0 .. 0 |-> 1], b, 0)
    BY DEF PowersUpTo
  <2> QED
    BY <2>1
<1>2. ASSUME NEW n \in T PROVE n + 1 \in T
  <2>1. PICK f : PowersUpTo(f, b, n)
    OBVIOUS
  <2>2. (f[n] * b) % Prime \in Nat
    BY <2>1, PrimeIs, Division DEF PowersUpTo, IsPrime
  <2> DEFINE g == [i \in 0 .. (n + 1) |-> IF i <= n THEN f[i] ELSE (f[n] * b) % Prime]
  <2>3. PowersUpTo(g, b, n + 1)
    BY <2>1, <2>2 DEF PowersUpTo
  <2> QED
    BY <2>3
<1>3. T = Nat
  <2> HIDE DEF T
  <2>1. T \in SUBSET Nat
    BY DEF T
  <2> QED
    BY <1>1, <1>2, <2>1, SetInduction
<1> QED
  BY <1>3

LEMMA PowersAgree ==
    ASSUME NEW b \in Nat, NEW m \in Nat, NEW n \in Nat,
           NEW f, NEW g, PowersUpTo(f, b, m), PowersUpTo(g, b, n)
    PROVE  \A i \in Nat : i <= m /\ i <= n => f[i] = g[i]
<1> DEFINE T == {i \in Nat : i <= m /\ i <= n => f[i] = g[i]}
<1>1. 0 \in T
  BY DEF PowersUpTo
<1>2. ASSUME NEW i \in T PROVE i + 1 \in T
  BY DEF PowersUpTo
<1>3. T = Nat
  <2> HIDE DEF T
  <2>1. T \in SUBSET Nat
    BY DEF T
  <2> QED
    BY <1>1, <1>2, <2>1, SetInduction
<1> QED
  BY <1>3

\* The recursion of Power has a solution, so its equations hold.
LEMMA PowerSteps ==
    ASSUME NEW b \in Nat
    PROVE  /\ Power(b, 0) = 1
           /\ \A e \in Nat : Power(b, e + 1) = (Power(b, e) * b) % Prime
<1> DEFINE F(n) == CHOOSE f : PowersUpTo(f, b, n)
           g == [n \in Nat |-> F(n)[n]]
<1>1. \A n \in Nat : PowersUpTo(F(n), b, n)
  BY PowersExist
<1>2. g[0] = 1
  BY <1>1 DEF PowersUpTo
<1>3. \A n \in Nat : g[n + 1] = (g[n] * b) % Prime
  <2> SUFFICES ASSUME NEW n \in Nat PROVE g[n + 1] = (g[n] * b) % Prime
    OBVIOUS
  <2> HIDE DEF F
  <2>1. F(n + 1)[n] = F(n)[n]
    BY <1>1, PowersAgree
  <2>2. F(n + 1)[n + 1] = (F(n + 1)[n] * b) % Prime
    BY <1>1 DEF PowersUpTo
  <2> QED
    BY <2>1, <2>2
<1>4. g = [i \in Nat |-> IF i = 0 THEN 1 ELSE (g[i - 1] * b) % Prime]
  <2>1. ASSUME NEW i \in Nat
        PROVE  g[i] = IF i = 0 THEN 1 ELSE (g[i - 1] * b) % Prime
    <3> HIDE DEF g
    <3>1. i # 0 => i - 1 \in Nat /\ (i - 1) + 1 = i
      OBVIOUS
    <3> QED
      BY <1>2, <1>3, <3>1
  <2>2. DOMAIN g = Nat
    OBVIOUS
  <2>3. g = [i \in Nat |-> g[i]]
    OBVIOUS
  <2> HIDE DEF g
  <2> QED
    BY <2>1, <2>3
<1> HIDE DEF g
<1> DEFINE power[i \in Nat] == IF i = 0 THEN 1 ELSE (power[i - 1] * b) % Prime
<1>5. power = [i \in Nat |-> IF i = 0 THEN 1 ELSE (power[i - 1] * b) % Prime]
  BY <1>4
<1>6. \A e : Power(b, e) = power[e]
  BY DEF Power
<1> HIDE DEF power
<1>7. power[0] = 1 /\ \A e \in Nat : power[e + 1] = (power[e] * b) % Prime
  BY <1>5
<1> QED
  BY <1>6, <1>7

\* A power of a number that is not 0 modulo the prime is not 0 either.
LEMMA PowerNat ==
    ASSUME NEW b \in 1 .. (Prime - 1)
    PROVE  \A e \in Nat : Power(b, e) \in 1 .. (Prime - 1)
<1> DEFINE T == {e \in Nat : Power(b, e) \in 1 .. (Prime - 1)}
<1>0. Prime \in Nat \ {0, 1}
  BY PrimeIs DEF IsPrime
<1>1. 0 \in T
  BY <1>0, PowerSteps
<1>2. ASSUME NEW e \in T PROVE e + 1 \in T
  <2> DEFINE x == Power(b, e)
  <2>1. x \in 1 .. (Prime - 1)
    OBVIOUS
  <2> HIDE DEF x
  <2>2. x % Prime = x /\ b % Prime = b
    BY <2>1, <1>0
  <2>3. (x * b) % Prime # 0
    <3>1. x \in Nat /\ b \in Nat /\ Prime \in Nat /\ IsPrime(Prime)
      BY <2>1, <1>0, PrimeIs
    <3>2. x % Prime # 0 /\ b % Prime # 0
      BY <2>1, <2>2
    <3> QED
      BY <3>1, <3>2, PrimeDivides, Zenon
  <2>4. (x * b) % Prime \in 0 .. (Prime - 1)
    BY <2>1, <1>0, Division
  <2>5. Power(b, e + 1) = (x * b) % Prime
    BY PowerSteps DEF x
  <2> QED
    BY <2>3, <2>4, <2>5
<1>3. T = Nat
  <2> HIDE DEF T
  <2>1. T \in SUBSET Nat
    BY DEF T
  <2> QED
    BY <1>1, <1>2, <2>1, SetInduction
<1> QED
  BY <1>3

\* A step of two recursions at once.
LEMMA ProductStep ==
    ASSUME NEW n \in Nat \ {0}, NEW u \in Nat, NEW v \in Nat, NEW x \in Nat,
           NEW y \in Nat
    PROVE  (((u * v) % n) * ((x * y) % n)) % n = (((u * x) % n) * ((v * y) % n)) % n
<1>1. \A k, l \in Nat : ((k % n) * (l % n)) % n = (k * l) % n
  <2> SUFFICES ASSUME NEW k \in Nat, NEW l \in Nat
               PROVE  ((k % n) * (l % n)) % n = (k * l) % n
    OBVIOUS
  <2>1. (k % n) \in Nat /\ (l % n) \in Nat
    BY Division
  <2>2. ((k % n) * (l % n)) % n = (k * (l % n)) % n
    BY <2>1, FactorModulo
  <2>3. ((l % n) * k) % n = (l * k) % n
    BY FactorModulo
  <2>4. (l % n) * k = k * (l % n) /\ l * k = k * l
    BY <2>1
  <2> QED
    BY <2>1, <2>2, <2>3, <2>4
<1>2. (u * v) * (x * y) = (u * x) * (v * y)
  OBVIOUS
<1>3. u * v \in Nat /\ x * y \in Nat /\ u * x \in Nat /\ v * y \in Nat
  OBVIOUS
<1> QED
  <2>1. (((u * v) % n) * ((x * y) % n)) % n = ((u * v) * (x * y)) % n
    BY <1>1, <1>3, Zenon
  <2>2. (((u * x) % n) * ((v * y) % n)) % n = ((u * x) * (v * y)) % n
    BY <1>1, <1>3, Zenon
  <2> QED
    BY <1>2, <2>1, <2>2, Zenon

LEMMA PowerOfProduct ==
    ASSUME NEW x \in 1 .. (Prime - 1), NEW y \in 1 .. (Prime - 1)
    PROVE  \A e \in Nat :
              Power((x * y) % Prime, e) = (Power(x, e) * Power(y, e)) % Prime
<1> DEFINE z == (x * y) % Prime
           T == {e \in Nat : Power(z, e) = (Power(x, e) * Power(y, e)) % Prime}
<1>0. Prime \in Nat \ {0, 1} /\ z \in Nat /\ x \in Nat /\ y \in Nat
  <2>1. Prime \in Nat \ {0, 1}
    BY PrimeIs DEF IsPrime
  <2> QED
    BY <2>1, Division
<1> HIDE DEF z
<1>1. 0 \in T
  <2>1. Power(z, 0) = 1 /\ Power(x, 0) = 1 /\ Power(y, 0) = 1
    BY <1>0, PowerSteps
  <2> QED
    BY <1>0, <2>1
<1>2. ASSUME NEW e \in T PROVE e + 1 \in T
  <2> DEFINE u == Power(x, e)  v == Power(y, e)
  <2>1. u \in Nat /\ v \in Nat
    <3>1. e \in Nat /\ \A i \in 1 .. (Prime - 1) : i \in Nat
      OBVIOUS
    <3>2. Power(x, e) \in 1 .. (Prime - 1) /\ Power(y, e) \in 1 .. (Prime - 1)
      BY <3>1, PowerNat, Zenon
    <3> QED
      BY <3>1, <3>2
  <2>2. Power(z, e + 1) = (Power(z, e) * z) % Prime
    BY <1>0, PowerSteps
  <2>3. Power(x, e + 1) = (u * x) % Prime /\ Power(y, e + 1) = (v * y) % Prime
    BY <1>0, PowerSteps
  <2>4. Power(z, e) = (u * v) % Prime
    OBVIOUS
  <2> HIDE DEF u, v
  <2>5. (((u * v) % Prime) * z) % Prime
            = (((u * x) % Prime) * ((v * y) % Prime)) % Prime
    BY <1>0, <2>1, ProductStep DEF z
  <2> QED
    BY <2>2, <2>3, <2>4, <2>5
<1>3. T = Nat
  <2> HIDE DEF T
  <2>1. T \in SUBSET Nat
    BY DEF T
  <2> QED
    BY <1>1, <1>2, <2>1, SetInduction
<1> QED
  BY <1>3 DEF z

\* Both sides of a Diffie-Hellman exchange compute one number.
LEMMA PowersCommute ==
    ASSUME NEW g \in 1 .. (Prime - 1), NEW a \in Nat
    PROVE  \A b \in Nat : Power(Power(g, a), b) = Power(Power(g, b), a)
<1> DEFINE T == {b \in Nat : Power(Power(g, a), b) = Power(Power(g, b), a)}
<1>0. Prime \in Nat \ {0, 1}
  BY PrimeIs DEF IsPrime
<1>1. 0 \in T
  <2> DEFINE S == {e \in Nat : Power(1, e) = 1}
  <2>1. 0 \in S
    BY PowerSteps
  <2>2. ASSUME NEW e \in S PROVE e + 1 \in S
    <3>1. Power(1, e + 1) = (Power(1, e) * 1) % Prime
      BY PowerSteps
    <3> QED
      BY <1>0, <3>1
  <2>3. S = Nat
    <3> HIDE DEF S
    <3>1. S \in SUBSET Nat
      BY DEF S
    <3> QED
      BY <2>1, <2>2, <3>1, SetInduction
  <2>4. Power(1, a) = 1
    BY <2>3
  <2>5. Power(g, a) \in Nat /\ g \in Nat
    BY PowerNat
  <2>6. Power(Power(g, a), 0) = 1 /\ Power(g, 0) = 1
    BY <2>5, PowerSteps
  <2> QED
    BY <2>4, <2>6
<1>2. ASSUME NEW b \in T PROVE b + 1 \in T
  <2> DEFINE x == Power(g, a)  y == Power(g, b)
  <2>1. x \in 1 .. (Prime - 1) /\ y \in 1 .. (Prime - 1) /\ x \in Nat /\ g \in Nat
    BY PowerNat
  <2>2. Power(x, b) = Power(y, a)
    OBVIOUS
  <2>3. Power(g, b + 1) = (y * g) % Prime
    BY <2>1, PowerSteps
  <2> HIDE DEF y
  <2>4. Power((y * g) % Prime, a) = (Power(y, a) * Power(g, a)) % Prime
    BY <2>1, PowerOfProduct
  <2>5. Power(x, b + 1) = (Power(x, b) * x) % Prime
    BY <2>1, PowerSteps
  <2> QED
    BY <2>2, <2>3, <2>4, <2>5
<1>3. T = Nat
  <2> HIDE DEF T
  <2>1. T \in SUBSET Nat
    BY DEF T
  <2> QED
    BY <1>1, <1>2, <2>1, SetInduction
<1> QED
  BY <1>3

-----------------------------------------------------------------------------
(* What the client computes.                                               *)

LEMMA MinIs ==
    ASSUME NEW S \in SUBSET Nat, S # {}
    PROVE  Min(S) \in S
BY Least DEF Min

LEMMA OrderedFactors ==
    ASSUME NEW p \in Nat, NEW q \in Nat, p < q, NEW r, NEW s,
           <<r, s>> \in {<<p, q>>, <<q, p>>}
    PROVE  Ordered(r, s) = <<p, q>>
BY DEF Ordered

\* A divisor and what it leaves are the two primes.
LEMMA Halves ==
    ASSUME NEW p \in Nat, NEW q \in Nat, p < q, IsPrime(p), IsPrime(q),
           NEW d \in 2 .. (p * q - 1), (p * q) % d = 0
    PROVE  <<d, (p * q) \div d>> \in {<<p, q>>, <<q, p>>}
<1>1. p > 1 /\ q > 1
  BY DEF IsPrime
<1>2. d \in {p, q} /\ d * ((p * q) \div d) = p * q
  BY DivisorIsFactor
<1>3. (p * q) \div d \in Nat
  <2>1. p * q \in Nat /\ d \in Nat \ {0}
    OBVIOUS
  <2> QED
    BY <2>1, Division
<1>4. ASSUME d = p PROVE (p * q) \div d = q
  BY <1>1, <1>2, <1>3, <1>4, Cancel
<1>5. ASSUME d = q PROVE (p * q) \div d = p
  <2>1. q * ((p * q) \div d) = q * p
    BY <1>2, <1>5
  <2> QED
    BY <1>1, <1>3, <2>1, Cancel
<1> QED
  BY <1>2, <1>4, <1>5

\* factorize_pq returns the two primes of a product, in their order.
LEMMA FactorsAreRight ==
    ASSUME NEW n \in PqNumbers
    PROVE  \E p, q \in Nat : /\ p < q /\ IsPrime(p) /\ IsPrime(q) /\ p * q = n
                             /\ Factorizations(n) = {<<p, q>>}
<1>1. PICK p \in 2 .. n, q \in 2 .. n :
         p < q /\ p * q = n /\ IsPrime(p) /\ IsPrime(q)
  BY ConstantsAssumption
<1>2. n \in Nat /\ p \in Nat /\ q \in Nat
  BY ConstantsAssumption, <1>1
<1>3. p \in 2 .. (n - 1) /\ n % p = 0
  <2>1. p * q > p
    BY <1>1, <1>2
  <2> QED
    BY <1>1, <1>2, <2>1, MultipleIs
<1>4. n > 1 /\ ~IsPrime(n)
  BY <1>2, <1>3 DEF IsPrime
<1>5. \A d \in 2 .. (n - 1) : n % d = 0 => <<d, n \div d>> \in {<<p, q>>, <<q, p>>}
  <2> SUFFICES ASSUME NEW d \in 2 .. (n - 1), n % d = 0
               PROVE  <<d, n \div d>> \in {<<p, q>>, <<q, p>>}
    OBVIOUS
  <2>1. d \in 2 .. (p * q - 1) /\ (p * q) % d = 0
    BY <1>1
  <2>2. <<d, (p * q) \div d>> \in {<<p, q>>, <<q, p>>}
    BY <1>1, <1>2, <2>1, Halves
  <2> QED
    BY <1>1, <2>2
<1> DEFINE small_ == {s \in SmallPrimes : n % s = 0}
           found == {x \in (2..n) \X Rho(n) : x[1] \in Refined(x[2])}
           pairs == UNION {{<<f[1], r>> : r \in Refined(n \div f[2])} : f \in found}
<1>6. Factorizations(n) =
         IF small_ # {} THEN {Ordered(Min(small_), n \div Min(small_))}
         ELSE {Ordered(f[1], f[2]) : f \in {g \in pairs : g[1] * g[2] = n}}
  <2>1. ~(n <= 1 \/ IsPrime(n))
    BY <1>2, <1>4
  <2> QED
    BY <2>1, Zenon DEF Factorizations
<1>7. CASE small_ # {}
  <2> DEFINE m == Min(small_)
  <2>1. small_ \in SUBSET Nat
    BY ConstantsAssumption
  <2>2. m \in small_
    BY <1>7, <2>1, MinIs
  <2> HIDE DEF m
  <2>3. m \in Nat /\ IsPrime(m) /\ n % m = 0
    BY <2>2, ConstantsAssumption
  <2>4. m \in 2 .. (n - 1)
    <3>1. m > 1 /\ m # n
      BY <2>3, <1>4 DEF IsPrime
    <3>2. m <= n
      <4>1. PICK k \in Nat : n = m * k
        BY <1>2, <2>3, <3>1, Exactly
      <4>2. k # 0
        BY <4>1, <2>3, <1>4
      <4> QED
        BY <2>3, <4>1, <4>2
    <3> QED
      BY <1>2, <2>3, <3>1, <3>2
  <2>5. Ordered(m, n \div m) = <<p, q>>
    BY <1>1, <1>2, <1>5, <2>3, <2>4, OrderedFactors
  <2> QED
    BY <1>1, <1>2, <1>6, <1>7, <2>5 DEF m
<1>8. CASE small_ = {}
  <2>1. \A d \in Rho(n) : d \in 2 .. (n - 1) /\ n % d = 0
    <3>1. n > 3
      <4>1. p > 1 /\ q > 2
        BY <1>1 DEF IsPrime
      <4> QED
        BY <1>1, <1>2, <4>1
    <3> QED
      BY <1>2, <3>1 DEF Rho
  <2>2. \E d \in 2 .. (n - 1) : d \in Rho(n)
    <3>1. Rho(n) # {}
      BY <1>3 DEF Rho
    <3> QED
      BY <2>1, <3>1
  <2>3. Refined(p) = {p} /\ Refined(q) = {q}
    BY <1>1 DEF Refined
  <2>4. \A d \in Rho(n) : /\ <<d, n \div d>> \in {<<p, q>>, <<q, p>>}
                          /\ Refined(d) = {d} /\ Refined(n \div d) = {n \div d}
    BY <1>5, <2>1, <2>3
  <2>5. found = {<<d, d>> : d \in Rho(n)}
    BY <1>2, <2>1, <2>4
  <2> HIDE DEF found
  <2>6. pairs = {<<d, n \div d>> : d \in Rho(n)}
    <3>1. \A f \in found : \E d \in Rho(n) :
             f = <<d, d>> /\ f[1] = d /\ f[2] = d /\ Refined(n \div f[2]) = {n \div d}
      BY <2>4, <2>5
    <3>2. \A d \in Rho(n) : \E f \in found :
             f[1] = d /\ f[2] = d /\ Refined(n \div f[2]) = {n \div d}
      <4> SUFFICES ASSUME NEW d \in Rho(n)
                   PROVE  \E f \in found :
                              /\ f[1] = d /\ f[2] = d
                              /\ Refined(n \div f[2]) = {n \div d}
        OBVIOUS
      <4>1. <<d, d>> \in found
        BY <2>5
      <4>2. <<d, d>>[1] = d /\ <<d, d>>[2] = d /\ Refined(n \div d) = {n \div d}
        BY <2>4
      <4> QED
        BY <4>1, <4>2
    <3>3. \A x \in pairs : \E d \in Rho(n) : x = <<d, n \div d>>
      BY <3>1
    <3>4. \A d \in Rho(n) : <<d, n \div d>> \in pairs
      BY <3>2
    <3> QED
      BY <3>3, <3>4
  <2> HIDE DEF pairs
  <2>7. pairs # {} /\ pairs \subseteq {<<p, q>>, <<q, p>>}
    BY <2>2, <2>4, <2>6
  <2>8. \A f \in pairs : f[1] * f[2] = n /\ Ordered(f[1], f[2]) = <<p, q>>
    BY <1>1, <1>2, <2>7 DEF Ordered
  <2>9. Factorizations(n) = {<<p, q>>}
    BY <1>6, <1>8, <2>7, <2>8
  <2> QED
    BY <1>1, <1>2, <2>9
<1> QED
  BY <1>7, <1>8

\* A key whose first byte is not zero has all its bytes.
LEMMA BytesAreFull ==
    ASSUME NEW n, FullBytes(n)[1] # 0
    PROVE  Bytes(n) = FullBytes(n)
<1> DEFINE lengths == {1} \cup {k \in 1..KeyLength : n \div Base^(k - 1) # 0}
<1>1. KeyLength \in Nat \ {0} /\ Base \in Nat \ {0, 1}
  BY LengthIs
<1>2. FullBytes(n)[1] = (n \div Base^(KeyLength - 1)) % Base
  BY <1>1 DEF FullBytes, BigEndian
<1>3. n \div Base^(KeyLength - 1) # 0
  BY <1>1, <1>2
<1>4. KeyLength \in lengths /\ \A k \in lengths : k \in Nat /\ k <= KeyLength
  BY <1>1, <1>3
<1>5. ByteLength(n) = Max(lengths)
  BY DEF ByteLength
<1> HIDE DEF lengths
<1>6. Max(lengths) = KeyLength
  <2>1. \A y \in lengths : KeyLength >= y
    BY <1>1, <1>4
  <2>2. \A x \in lengths : (\A y \in lengths : x >= y) => x = KeyLength
    BY <1>1, <1>4
  <2> QED
    BY <1>4, <2>1, <2>2, Zenon DEF Max
<1> QED
  BY <1>5, <1>6 DEF Bytes, FullBytes

-----------------------------------------------------------------------------
(* The keys agree.                                                         *)

\* The frames on their way are a sequence, the server's record has its fields.
ShapeOK ==
    /\ \E S : toClient \in Seq(S)
    /\ "key" \in DOMAIN server

GenOks == {i \in DOMAIN toClient : toClient[i].kind = "genOk"}

\* What a dh_gen_ok says is the key the server has stored.
HashesTell == \A i \in GenOks : toClient[i].hash = NonceHash(1, server.key)

\* The request to store a key is sent once, and the answer comes after it.
StoresOnce ==
    /\ Asked("setDh") => pc \in {"set", "failed"}
    /\ Asked("setDh") \/ pc \in {"start", "pq", "dh"} => GenOks = {}

KInv == ShapeOK /\ HashesTell /\ StoresOnce /\ KeysAgree

-----------------------------------------------------------------------------
\* A frame read is one of those on their way, and leaves the rest.
LEMMA FrameRead ==
    ASSUME ShapeOK, NEW f \in Arrived, Reads(f)
    PROVE  /\ 1 \in DOMAIN toClient /\ toClient[1] = f
           /\ ShapeOK' /\ server' = server
           /\ \A i \in DOMAIN toClient' :
                 i + 1 \in DOMAIN toClient /\ toClient'[i] = toClient[i + 1]
<1>1. PICK S : toClient \in Seq(S)
  BY DEF ShapeOK
<1>2. toClient # <<>>
  BY DEF Arrived
<1>3. toClient' = Tail(toClient) /\ f = Head(toClient) /\ server' = server
  BY DEF Reads
<1>4. toClient' \in Seq(S)
  BY <1>1, <1>2, <1>3
<1> QED
  BY <1>1, <1>2, <1>3, <1>4 DEF ShapeOK

LEMMA FrameSent ==
    ASSUME ShapeOK, NEW f, toClient' = Append(toClient, f)
    PROVE  /\ \E S : toClient' \in Seq(S)
           /\ \A i \in DOMAIN toClient' :
                 \/ i \in DOMAIN toClient /\ toClient'[i] = toClient[i]
                 \/ toClient'[i] = f
<1>1. PICK S : toClient \in Seq(S)
  BY DEF ShapeOK
<1>2. toClient \in Seq(S \cup {f}) /\ f \in S \cup {f}
  BY <1>1
<1>3. toClient' \in Seq(S \cup {f})
  BY <1>2
<1> QED
  BY <1>2, <1>3

\* Reading a frame ends no exchange but with the hash of the key.
LEMMA ReadStep ==
    ASSUME KInv, NEW f \in Arrived, Reads(f),
           \/ UNCHANGED <<pc, authKey, toServer>>
           \/ pc' = "failed" /\ UNCHANGED <<authKey, toServer>>
           \/ pc = "pq" /\ pc' = "dh" /\ ~Asked("setDh")'
           \/ pc = "dh" /\ pc' = "set"
           \/ /\ pc = "set" /\ pc' = "done" /\ UNCHANGED <<authKey, toServer>>
              /\ f.kind = "genOk" /\ f.hash = NonceHash(1, authKey)
    PROVE  KInv'
<1>1. /\ 1 \in DOMAIN toClient /\ toClient[1] = f
      /\ ShapeOK' /\ server' = server
      /\ \A i \in DOMAIN toClient' :
            i + 1 \in DOMAIN toClient /\ toClient'[i] = toClient[i + 1]
  BY FrameRead DEF KInv
<1>2. \A i \in GenOks' : i + 1 \in GenOks /\ toClient'[i] = toClient[i + 1]
  BY <1>1 DEF GenOks
<1>3. HashesTell'
  BY <1>1, <1>2 DEF KInv, HashesTell, NonceHash
<1>4. f.kind = "genOk" => /\ ~Asked("setDh") /\ pc \notin {"start", "pq", "dh"}
                          /\ f.hash = NonceHash(1, server.key)
  BY <1>1 DEF KInv, StoresOnce, HashesTell, GenOks
<1>5. pc \in Waiting
  BY DEF Reads
<1>6. StoresOnce'
  <2>1. GenOks = {} => GenOks' = {}
    BY <1>2
  <2>2. toServer' = toServer => Asked("setDh")' = Asked("setDh")
    BY DEF Asked
  <2> QED
    BY <1>4, <1>5, <2>1, <2>2 DEF KInv, StoresOnce, Waiting
<1>7. KeysAgree'
  BY <1>1, <1>4, <1>5 DEF KInv, KeysAgree, NonceHash, Waiting
<1> QED
  BY <1>1, <1>3, <1>6, <1>7 DEF KInv

LEMMA ClientStep ==
    ASSUME KInv, IgnoreSmall \/ ReadUnexpected \/ GotResPq \/ GotDhParams \/ GotGen
    PROVE  KInv'
<1>1. CASE IgnoreSmall
  BY <1>1, ReadStep DEF IgnoreSmall, Fail
<1>2. CASE ReadUnexpected
  BY <1>2, ReadStep DEF ReadUnexpected, Fail
<1>3. CASE GotResPq
  <2>1. PICK f \in Arrived :
           /\ Reads(f) /\ pc = "pq"
           /\ \/ Fail
              \/ \E inner \in InnerData(f) : \E k : Request("dh", ReqDh(inner, k))
    BY <1>3 DEF GotResPq
  <2>2. \A inner, k : Request("dh", ReqDh(inner, k)) =>
           pc' = "dh" /\ ~Asked("setDh")'
    BY DEF Request, ReqDh, Asked
  <2> QED
    BY <2>1, <2>2, ReadStep DEF Fail
<1>4. CASE GotDhParams
  <2>1. PICK f \in Arrived :
           /\ Reads(f) /\ pc = "dh"
           /\ Fail \/ pc' = "set"
    BY <1>4 DEF GotDhParams, Request
  <2> QED
    BY <2>1, ReadStep DEF Fail
<1>5. CASE GotGen
  <2>1. PICK f \in Arrived :
           /\ Reads(f) /\ pc = "set"
           /\ IF f.kind = "genOk" /\ f.hash = NonceHash(1, authKey)
              THEN pc' = "done" /\ UNCHANGED <<small, nonce, authKey, toServer>>
              ELSE Fail
    BY <1>5 DEF GotGen
  <2> QED
    BY <2>1, ReadStep DEF Fail
<1> QED
  BY <1>1, <1>2, <1>3, <1>4, <1>5

\* The client begins, or gives up.
LEMMA PlaceStep ==
    ASSUME KInv, UNCHANGED <<toClient, server, authKey>>,
           \/ pc' = "failed" /\ toServer' = toServer
           \/ pc = "start" /\ pc' = "pq" /\ ~Asked("setDh")'
    PROVE  KInv'
<1>1. toServer' = toServer => Asked("setDh")' = Asked("setDh")
  BY DEF Asked
<1>2. GenOks' = GenOks
  BY DEF GenOks
<1> QED
  BY <1>1, <1>2 DEF KInv, ShapeOK, HashesTell, StoresOnce, KeysAgree, NonceHash

\* A frame that says nothing of a stored key.
LEMMA SendStep ==
    ASSUME KInv, NEW f, f.kind # "genOk", toClient' = Append(toClient, f),
           UNCHANGED <<pc, authKey, server>>, toServer' \in {toServer, None}
    PROVE  KInv'
<1>1. /\ \E S : toClient' \in Seq(S)
      /\ \A i \in DOMAIN toClient' :
            \/ i \in DOMAIN toClient /\ toClient'[i] = toClient[i]
            \/ toClient'[i] = f
  BY FrameSent DEF KInv
<1>2. Asked("setDh")' => Asked("setDh")
  BY DEF Asked
<1>3. \A i \in GenOks' : i \in GenOks /\ toClient'[i] = toClient[i]
  BY <1>1 DEF GenOks
<1> QED
  BY <1>1, <1>2, <1>3 DEF KInv, ShapeOK, HashesTell, StoresOnce, KeysAgree, NonceHash

\* The server's answer to the request to store a key: it has had no other.
LEMMA StoreStep ==
    ASSUME KInv, NEW kind \in {"genOk", "genRetry", "genFail"}, AnswerSetDh(kind)
    PROVE  KInv'
<1> DEFINE number == CHOOSE i \in 1..3 : <<"genOk", "genRetry", "genFail">>[i] = kind
           key == FullBytes(Power(toServer.gb, server.a))
           f == [kind |-> kind, hash |-> NonceHash(number, key)]
<1>1. /\ Asked("setDh") /\ toServer' = None /\ toClient' = Append(toClient, f)
      /\ UNCHANGED <<pc, authKey>>
      /\ server' = IF kind = "genOk" THEN [server EXCEPT !.key = key] ELSE server
  BY DEF AnswerSetDh, Answer, clientVars
<1>2. GenOks = {} /\ pc \in {"set", "failed"}
  BY <1>1 DEF KInv, StoresOnce
<1>3. kind = "genOk" => number = 1
  <2>1. \A i \in 1..3 : <<"genOk", "genRetry", "genFail">>[i] = "genOk" <=> i = 1
    OBVIOUS
  <2> QED
    BY <2>1
<1>4. f.kind = kind /\ (kind = "genOk" => f.hash = NonceHash(1, key))
  BY <1>3
<1>5. /\ "key" \in DOMAIN server'
      /\ kind = "genOk" => server'.key = key
  BY <1>1 DEF KInv, ShapeOK
<1> HIDE DEF f, key, number
<1>6. /\ \E S : toClient' \in Seq(S)
      /\ \A i \in DOMAIN toClient' :
            \/ i \in DOMAIN toClient /\ toClient'[i] = toClient[i]
            \/ toClient'[i] = f
  BY <1>1, FrameSent DEF KInv
<1>7. \A i \in GenOks' : toClient'[i] = f /\ kind = "genOk"
  BY <1>2, <1>4, <1>6 DEF GenOks
<1>8. HashesTell'
  BY <1>4, <1>5, <1>7 DEF HashesTell, NonceHash
<1>9. StoresOnce' /\ KeysAgree'
  BY <1>1, <1>2 DEF StoresOnce, KeysAgree, Asked
<1> QED
  BY <1>5, <1>6, <1>8, <1>9 DEF KInv, ShapeOK

LEMMA ServerStep ==
    ASSUME KInv, ServerAnswers \/ QuickAck \/ ServerFails
    PROVE  KInv'
<1>1. ASSUME NEW n, AnswerReqPq(n) \/ AnswerReqDh(n) PROVE KInv'
  <2>1. \E f : /\ f.kind # "genOk" /\ toClient' = Append(toClient, f)
               /\ UNCHANGED <<pc, authKey, server>> /\ toServer' = None
    BY <1>1 DEF AnswerReqPq, AnswerReqDh, Answer, clientVars
  <2> QED
    BY <2>1, SendStep
<1>2. ASSUME Answer([kind |-> "dhFail"]), UNCHANGED server PROVE KInv'
  BY <1>2, SendStep DEF Answer, clientVars
<1>3. ASSUME NEW kind \in {"genOk", "genRetry", "genFail"}, AnswerSetDh(kind)
      PROVE  KInv'
  BY <1>3, StoreStep
<1>4. CASE ServerAnswers
  BY <1>1, <1>2, <1>3, <1>4 DEF ServerAnswers
<1>5. ASSUME NEW f, f.kind # "genOk", toClient' = Append(toClient, f),
             UNCHANGED <<clientVars, toServer, server>>
      PROVE  KInv'
  BY <1>5, SendStep DEF clientVars
<1>6. CASE QuickAck
  BY <1>5, <1>6 DEF QuickAck
<1>7. CASE ServerFails
  <2>1. CASE pc \in Waiting
             /\ \E f \in {[kind |-> "garbled"],
                          [kind |-> "resPQ", nonce |-> OurNonce, pq |-> server.pq,
                           offered |-> server.offered]} :
                   toClient' = Append(toClient, f)
             /\ UNCHANGED <<clientVars, toServer, server>>
    BY <1>5, <2>1
  <2> QED
    BY <1>1, <1>2, <1>3, <1>7, <2>1 DEF ServerFails
<1> QED
  BY <1>4, <1>6, <1>7

LEMMA InitKInv == Init => KInv
<1> SUFFICES ASSUME Init PROVE KInv
  OBVIOUS
<1>1. toClient = <<>> /\ toServer = None /\ pc = "start"
      /\ server \in [pq : PqNumbers, offered : SUBSET Fingerprints,
                     a : 1..(Prime - 1), key : {None}]
  BY DEF Init
<1>2. toClient \in Seq({}) /\ GenOks = {}
  BY <1>1 DEF GenOks
<1> QED
  BY <1>1, <1>2 DEF KInv, ShapeOK, HashesTell, StoresOnce, KeysAgree, Asked

LEMMA NextKInv == KInv /\ [Next]_vars => KInv'
<1> SUFFICES ASSUME KInv, [Next]_vars PROVE KInv'
  OBVIOUS
<1>1. CASE SendReqPq
  <2>1. pc = "start" /\ pc' = "pq" /\ ~Asked("setDh")'
    BY <1>1 DEF SendReqPq, Request, Asked
  <2> QED
    BY <1>1, <2>1, PlaceStep DEF SendReqPq
<1>2. CASE Timeout \/ ConnectionLost
  BY <1>2, PlaceStep DEF Timeout, ConnectionLost, Fail
<1>3. CASE UNCHANGED vars
  BY <1>3 DEF vars, clientVars, KInv, ShapeOK, HashesTell, StoresOnce, KeysAgree,
              GenOks, NonceHash, Asked
<1> QED
  BY <1>1, <1>2, <1>3, ClientStep, ServerStep DEF Next, Over

\* exchange_auth_key (handshake.py): a client that ends the exchange with a key
\* has the bytes the server has stored, whatever frames came on the way: it is
\* the hash it compares that makes it so, for the one key the server is told of.
THEOREM KeysAgreeCorrect == Spec => []KeysAgree
<1>1. Spec => []KInv
  BY InitKInv, NextKInv, PTL DEF Spec
<1> QED
  BY <1>1, PTL DEF KInv

-----------------------------------------------------------------------------
(* Nothing fails without a cause.                                          *)

DataOK ==
    /\ small \in Nat /\ quick \in [0..3 -> Nat]
    /\ {"pq", "offered", "a", "key"} \subseteq DOMAIN server
    /\ server.pq \in PqNumbers /\ server.a \in 1..(Prime - 1)

Round == IF pc = "pq" THEN 1 ELSE IF pc = "dh" THEN 2 ELSE 3

\* What both sides compute of a and b.
ClientKey(b) == Bytes(Power(Power(Generator, server.a), b))
ServerKey(b) == FullBytes(Power(Power(Generator, b), server.a))

\* The request of a round: the server will not refuse it.
RightRequest(req) ==
    /\ pc = "pq" => req.kind = "reqPq"
    /\ pc = "dh" =>
          /\ req.kind = "reqDh" /\ req.nonce = OurNonce /\ nonce = OurNonce
          /\ req.fingerprint \in server.offered
          /\ LET p == req.factors[1]  q == req.factors[2]
             IN  p < q /\ IsPrime(p) /\ IsPrime(q) /\ p * q = server.pq
    /\ pc = "set" =>
          /\ req.kind = "setDh"
          /\ \E b \in 1..(Prime - 1) :
                req.gb = Power(Generator, b) /\ authKey = ClientKey(b)

\* The answer to it: no check of the client fails but for a cause.
RightAnswer(f) ==
    /\ pc = "pq" => /\ f.kind = "resPQ" /\ f.nonce = OurNonce
                    /\ f.pq = server.pq /\ f.offered = server.offered
    /\ pc = "dh" => /\ f.kind = "dhOk" /\ f.nonce = OurNonce /\ nonce = OurNonce
                    /\ f.ga = Power(Generator, server.a)
    /\ pc = "set" => /\ f.kind = "genOk" /\ f.hash = NonceHash(1, server.key)
                     /\ \E b \in 1..(Prime - 1) :
                           authKey = ClientKey(b) /\ server.key = ServerKey(b)

\* The server has still to answer: only small frames are on their way.
Unanswered ==
    /\ answers = Round - 1 /\ RightRequest(toServer)
    /\ \A i \in DOMAIN toClient : toClient[i].kind = "small"
    /\ small + Len(toClient) <= quick[Round - 1]

\* It has answered: small frames before the answer, and after it.
Answered ==
    /\ answers = Round /\ toServer = None
    /\ \E j \in DOMAIN toClient :
          /\ RightAnswer(toClient[j])
          /\ \A i \in DOMAIN toClient \ {j} : toClient[i].kind = "small"
          /\ small + j - 1 <= quick[Round - 1]
          /\ Len(toClient) - j <= quick[Round]

\* Why an exchange without faults fails: the cause does not go away.
Caused ==
    \/ \E r \in 0..2 : quick[r] > MaxSmall \/ quick[r] >= MaxFrames
    \/ Range(Keyring) \cap server.offered = {}
    \/ Power(Generator, server.a) \in {1, Prime - 1}
    \/ answers = 3 /\ toServer = None /\ server.key[1] = 0

Honest ==
    faults = {} =>
        /\ pc = "start" => toServer = None /\ toClient = <<>> /\ answers = 0
        /\ pc \in Waiting => Unanswered \/ Answered
        /\ pc = "failed" => Caused

\* A request that waits has ignored no more small frames than it may.
FewSmall == pc \in Waiting => small <= MaxSmall

HInv == DataOK /\ FewSmall /\ Honest

LEMMA TailRead ==
    ASSUME ShapeOK, NEW f \in Arrived, Reads(f)
    PROVE  /\ Len(toClient) \in Nat \ {0} /\ f = toClient[1]
           /\ DOMAIN toClient = 1 .. Len(toClient)
           /\ Len(toClient') = Len(toClient) - 1
           /\ DOMAIN toClient' = 1 .. (Len(toClient) - 1)
           /\ \A i \in DOMAIN toClient' : toClient'[i] = toClient[i + 1]
<1>1. PICK S : toClient \in Seq(S)
  BY DEF ShapeOK
<1>2. toClient # <<>> /\ toClient' = Tail(toClient) /\ f = Head(toClient)
  BY DEF Arrived, Reads
<1> QED
  BY <1>1, <1>2

\* What is right depends on where the exchange is, on nothing else.
LEMMA RightStays ==
    ASSUME UNCHANGED <<pc, nonce, authKey, server>>
    PROVE  \A x : (RightRequest(x)' <=> RightRequest(x)) /\ (RightAnswer(x)' <=> RightAnswer(x))
BY DEF RightRequest, RightAnswer, ClientKey, ServerKey, NonceHash

LEMMA RoundIs == Round \in 1..3
BY DEF Round

\* A small frame is one of those that were sent since the last answer.
LEMMA SmallRead ==
    ASSUME ShapeOK, DataOK, Unanswered \/ Answered, NEW f \in Arrived, Reads(f),
           f.kind = "small", pc \in Waiting
    PROVE  /\ small + 1 <= quick[Round - 1]
           /\ UNCHANGED <<pc, nonce, authKey, toServer>> /\ small' = small + 1
                 => Unanswered' \/ Answered'
<1>1. /\ Len(toClient) \in Nat \ {0} /\ f = toClient[1]
      /\ DOMAIN toClient = 1 .. Len(toClient)
      /\ Len(toClient') = Len(toClient) - 1
      /\ DOMAIN toClient' = 1 .. (Len(toClient) - 1)
      /\ \A i \in DOMAIN toClient' : toClient'[i] = toClient[i + 1]
  BY TailRead
<1>2. UNCHANGED <<server, answers, quick, faults>>
  BY DEF Reads
<1>3. small \in Nat /\ Round \in 1..3 /\ \A r \in 0..3 : quick[r] \in Nat
  BY RoundIs DEF DataOK
<1>4. ASSUME UNCHANGED <<pc, nonce, authKey, toServer>>
      PROVE  /\ Round' = Round
             /\ \A x : (RightRequest(x)' <=> RightRequest(x))
                       /\ (RightAnswer(x)' <=> RightAnswer(x))
  BY <1>2, <1>4, RightStays DEF Round
<1>5. CASE Unanswered
  <2>1. small + 1 <= quick[Round - 1]
    BY <1>1, <1>3, <1>5 DEF Unanswered
  <2>2. ASSUME UNCHANGED <<pc, nonce, authKey, toServer>>, small' = small + 1
        PROVE  Unanswered'
    <3>1. answers' = Round' - 1 /\ RightRequest(toServer)'
      BY <1>2, <1>4, <1>5, <2>2 DEF Unanswered
    <3>2. \A i \in DOMAIN toClient' : toClient'[i].kind = "small"
      BY <1>1, <1>5 DEF Unanswered
    <3>3. small' + Len(toClient') <= quick'[Round' - 1]
      BY <1>1, <1>2, <1>3, <1>4, <1>5, <2>2 DEF Unanswered
    <3> QED
      BY <3>1, <3>2, <3>3 DEF Unanswered
  <2> QED
    BY <2>1, <2>2
<1>6. CASE Answered
  <2>1. PICK j \in DOMAIN toClient :
           /\ RightAnswer(toClient[j])
           /\ \A i \in DOMAIN toClient \ {j} : toClient[i].kind = "small"
           /\ small + j - 1 <= quick[Round - 1]
           /\ Len(toClient) - j <= quick[Round]
    BY <1>6 DEF Answered
  <2>2. j # 1
    BY <1>1, <2>1 DEF RightAnswer, Waiting
  <2>3. small + 1 <= quick[Round - 1]
    <3>1. quick[Round - 1] \in Nat
      BY <1>3
    <3>2. j \in Nat /\ j >= 2
      BY <1>1, <2>2
    <3> QED
      BY <1>3, <2>1, <3>1, <3>2
  <2>4. ASSUME UNCHANGED <<pc, nonce, authKey, toServer>>, small' = small + 1
        PROVE  Answered'
    <3>1. PICK k : k = j - 1 /\ k \in DOMAIN toClient' /\ toClient'[k] = toClient[j]
      BY <1>1, <2>2
    <3>2. RightAnswer(toClient[k])'
      <4>1. PICK x : x = toClient[j]
        OBVIOUS
      <4>2. RightAnswer(x)'
        BY <1>4, <2>1, <2>4, <4>1
      <4> QED
        BY <3>1, <4>1, <4>2 DEF RightAnswer
    <3>3. \A i \in DOMAIN toClient' \ {k} : toClient'[i].kind = "small"
      BY <1>1, <2>1, <3>1
    <3>4. small' + k - 1 <= quick'[Round' - 1] /\ Len(toClient') - k <= quick'[Round']
      <4>1. j \in Nat /\ small' = small + 1 /\ quick' = quick /\ Round' = Round
        BY <1>1, <1>2, <1>4, <2>4
      <4>3. /\ small \in Nat /\ Len(toClient) \in Nat /\ k = j - 1
            /\ Len(toClient') = Len(toClient) - 1
        BY <1>1, <1>3, <3>1
      <4>2. small' + k - 1 = small + j - 1 /\ Len(toClient') - k = Len(toClient) - j
        BY <4>1, <4>3
      <4> QED
        BY <2>1, <4>1, <4>2
    <3>5. answers' = Round' /\ toServer' = None
      BY <1>2, <1>4, <1>6, <2>4 DEF Answered
    <3> QED
      BY <3>1, <3>2, <3>3, <3>4, <3>5 DEF Answered
  <2> QED
    BY <2>3, <2>4
<1> QED
  BY <1>5, <1>6

\* Another frame is the answer, and leaves small frames only.
LEMMA AnswerRead ==
    ASSUME ShapeOK, DataOK, Unanswered \/ Answered, NEW f \in Arrived, Reads(f),
           f.kind # "small"
    PROVE  /\ answers = Round /\ toServer = None /\ RightAnswer(f)
           /\ \A i \in DOMAIN toClient' : toClient'[i].kind = "small"
           /\ Len(toClient') \in Nat /\ Len(toClient') <= quick[Round]
<1>1. /\ Len(toClient) \in Nat \ {0} /\ f = toClient[1]
      /\ DOMAIN toClient = 1 .. Len(toClient)
      /\ Len(toClient') = Len(toClient) - 1
      /\ DOMAIN toClient' = 1 .. (Len(toClient) - 1)
      /\ \A i \in DOMAIN toClient' : toClient'[i] = toClient[i + 1]
  BY TailRead
<1>2. Answered
  BY <1>1 DEF Unanswered
<1>3. PICK j \in DOMAIN toClient :
         /\ RightAnswer(toClient[j])
         /\ \A i \in DOMAIN toClient \ {j} : toClient[i].kind = "small"
         /\ small + j - 1 <= quick[Round - 1]
         /\ Len(toClient) - j <= quick[Round]
  BY <1>2 DEF Answered
<1>4. j = 1
  BY <1>1, <1>3
<1> QED
  BY <1>1, <1>2, <1>3, <1>4 DEF Answered

LEMMA NextData == DataOK /\ [Next]_vars => DataOK'
<1> SUFFICES ASSUME DataOK, [Next]_vars PROVE DataOK'
  OBVIOUS
<1>1. ASSUME small' \in {small, 0, small + 1}, UNCHANGED <<server, quick>>
      PROVE  DataOK'
  BY <1>1 DEF DataOK
<1>2. ASSUME UNCHANGED <<small, quick>>,
             \/ server' = server
             \/ \E key : server' = [server EXCEPT !.key = key]
      PROVE  DataOK'
  BY <1>2 DEF DataOK
<1>3. CASE SendReqPq
  BY <1>1, <1>3 DEF SendReqPq, Request
<1>4. CASE IgnoreSmall \/ ReadUnexpected
  BY <1>1, <1>4 DEF IgnoreSmall, ReadUnexpected, Reads, Fail
<1>5. CASE GotResPq \/ GotDhParams \/ GotGen
  BY <1>1, <1>5 DEF GotResPq, GotDhParams, GotGen, Reads, Fail, Request
<1>6. CASE Timeout \/ ConnectionLost
  BY <1>1, <1>6 DEF Timeout, ConnectionLost, Fail
<1>7. CASE QuickAck
  <2>1. quick' = [quick EXCEPT ![answers] = @ + 1] /\ UNCHANGED <<small, server>>
    BY <1>7 DEF QuickAck, clientVars
  <2>2. quick \in [0..3 -> Nat]
    BY DEF DataOK
  <2>3. quick' = [r \in 0..3 |-> IF r = answers THEN quick[r] + 1 ELSE quick[r]]
    BY <2>1, <2>2
  <2>4. \A r \in 0..3 : (IF r = answers THEN quick[r] + 1 ELSE quick[r]) \in Nat
    BY <2>2
  <2>5. quick' \in [0..3 -> Nat]
    BY <2>3, <2>4
  <2> QED
    BY <2>1, <2>5 DEF DataOK
<1>8. CASE ServerAnswers \/ ServerFails
  <2>1. /\ UNCHANGED <<small, quick>>
        /\ server' = server \/ \E key : server' = [server EXCEPT !.key = key]
    BY <1>8 DEF ServerAnswers, ServerFails, AnswerReqPq, AnswerReqDh, AnswerSetDh,
                Answer, clientVars
  <2> QED
    BY <1>2, <2>1
<1>9. CASE UNCHANGED vars
  BY <1>1, <1>9 DEF vars, clientVars
<1> QED
  BY <1>3, <1>4, <1>5, <1>6, <1>7, <1>8, <1>9 DEF Next, Over

LEMMA NextFewSmall == DataOK /\ FewSmall /\ [Next]_vars => FewSmall'
<1> SUFFICES ASSUME DataOK, FewSmall, [Next]_vars PROVE FewSmall'
  OBVIOUS
<1>1. small \in Nat /\ MaxSmall \in Nat /\ MaxFrames \in Nat
  BY LimitsAre DEF DataOK
<1>2. ASSUME \/ pc' = "failed" \/ pc' = "done" \/ small' = 0
             \/ UNCHANGED <<pc, small>>
      PROVE  FewSmall'
  BY <1>1, <1>2 DEF FewSmall, Waiting
<1>3. CASE SendReqPq
  BY <1>2, <1>3 DEF SendReqPq, Request
<1>4. CASE IgnoreSmall
  BY <1>1, <1>2, <1>4 DEF IgnoreSmall, Fail, FewSmall
<1>5. CASE ReadUnexpected \/ GotResPq \/ GotDhParams \/ GotGen
  BY <1>2, <1>5 DEF ReadUnexpected, GotResPq, GotDhParams, GotGen, Fail, Request
<1>6. CASE Timeout \/ ConnectionLost
  BY <1>2, <1>6 DEF Timeout, ConnectionLost, Fail
<1>7. CASE ServerAnswers \/ ServerFails \/ QuickAck
  BY <1>2, <1>7 DEF ServerAnswers, ServerFails, QuickAck, AnswerReqPq, AnswerReqDh,
                    AnswerSetDh, Answer, clientVars
<1>8. CASE UNCHANGED vars
  BY <1>2, <1>8 DEF vars, clientVars
<1> QED
  BY <1>3, <1>4, <1>5, <1>6, <1>7, <1>8 DEF Next, Over

\* The next request goes out: what has arrived since the answer counts for it.
LEMMA NextRequest ==
    ASSUME ShapeOK, DataOK, Unanswered \/ Answered, NEW f \in Arrived, Reads(f),
           f.kind # "small", Round' = Round + 1, small' = 0,
           RightRequest(toServer)'
    PROVE  Unanswered'
<1>1. /\ answers = Round /\ Len(toClient') \in Nat /\ Len(toClient') <= quick[Round]
      /\ \A i \in DOMAIN toClient' : toClient'[i].kind = "small"
  BY AnswerRead
<1>2. UNCHANGED <<answers, quick>> /\ Round \in 1..3
  BY RoundIs DEF Reads
<1>3. small' + Len(toClient') <= quick'[Round' - 1]
  BY <1>1, <1>2
<1> QED
  BY <1>1, <1>2, <1>3 DEF Unanswered

\* resPQ: the numbers can be factorized, and there is a key unless none is shared.
LEMMA ResPqRight ==
    ASSUME ShapeOK, DataOK, Unanswered \/ Answered, GotResPq
    PROVE  (pc' = "dh" /\ Unanswered') \/ (pc' = "failed" /\ Caused')
<1>1. PICK f \in Arrived :
         /\ Reads(f) /\ pc = "pq" /\ f.kind = "resPQ"
         /\ LET known == {i \in DOMAIN Keyring : Keyring[i] \in f.offered}
            IN  IF known = {} \/ InnerData(f) = {} THEN Fail
                ELSE \E inner \in InnerData(f) :
                         /\ Request("dh", ReqDh(inner, Keyring[Min(known)]))
                         /\ nonce' = inner.nonce /\ UNCHANGED authKey
  BY DEF GotResPq
<1> DEFINE known == {i \in DOMAIN Keyring : Keyring[i] \in f.offered}
<1>2. RightAnswer(f) /\ server' = server
  BY <1>1, AnswerRead DEF Reads
<1>3. f.nonce = OurNonce /\ f.pq = server.pq /\ f.offered = server.offered
  BY <1>1, <1>2 DEF RightAnswer
<1>4. server.pq \in PqNumbers
  BY DEF DataOK
<1>5. PICK p \in Nat, q \in Nat : /\ p < q /\ IsPrime(p) /\ IsPrime(q) /\ p * q = server.pq
                                  /\ Factorizations(server.pq) = {<<p, q>>}
  BY <1>4, FactorsAreRight
<1>6. known # {} => InnerData(f) = {[nonce |-> OurNonce, factors |-> <<p, q>>]}
  BY <1>3, <1>5 DEF InnerData
<1>7. CASE known = {}
  <2>1. Fail
    BY <1>1, <1>7
  <2>2. Range(Keyring) \cap server.offered = {}
    BY <1>3, <1>7 DEF Range
  <2> QED
    BY <1>2, <2>1, <2>2 DEF Fail, Caused
<1>8. CASE known # {}
  <2> DEFINE k == Keyring[Min(known)]
             inner == [nonce |-> OurNonce, factors |-> <<p, q>>]
  <2>1. k \in server.offered
    <3>1. known \in SUBSET Nat
      BY ConstantsAssumption
    <3>2. Min(known) \in known
      BY <1>8, <3>1, MinIs
    <3> QED
      BY <1>3, <3>2
  <2>2. Request("dh", ReqDh(inner, k)) /\ nonce' = inner.nonce
    BY <1>1, <1>6, <1>8
  <2> HIDE DEF known, k
  <2>3. /\ pc' = "dh" /\ small' = 0 /\ nonce' = OurNonce
        /\ toServer' = [kind |-> "reqDh", nonce |-> OurNonce, factors |-> <<p, q>>,
                        fingerprint |-> k]
    BY <2>2 DEF Request, ReqDh
  <2>4. RightRequest(toServer)'
    BY <1>2, <1>5, <2>1, <2>3 DEF RightRequest
  <2>5. Round' = Round + 1
    BY <1>1, <2>3 DEF Round
  <2> QED
    BY <1>1, <2>3, <2>4, <2>5, NextRequest
<1> QED
  BY <1>7, <1>8

\* server_DH_params_ok: g_a is usable unless it is 1 or p - 1.
LEMMA DhParamsRight ==
    ASSUME ShapeOK, DataOK, Unanswered \/ Answered, GotDhParams
    PROVE  (pc' = "set" /\ Unanswered') \/ (pc' = "failed" /\ Caused')
<1>1. PICK f \in Arrived :
         /\ Reads(f) /\ pc = "dh" /\ f.kind = "dhOk"
         /\ IF f.nonce # nonce \/ f.ga <= 1 \/ f.ga >= Prime - 1 THEN Fail
            ELSE \E b \in 1..(Prime - 1) :
                     /\ authKey' = Bytes(Power(f.ga, b))
                     /\ Request("set", [kind |-> "setDh", gb |-> Power(Generator, b)])
                     /\ UNCHANGED nonce
  BY DEF GotDhParams
<1>2. RightAnswer(f) /\ server' = server
  BY <1>1, AnswerRead DEF Reads
<1>3. f.nonce = OurNonce /\ nonce = OurNonce /\ f.ga = Power(Generator, server.a)
  BY <1>1, <1>2 DEF RightAnswer
<1>4. Power(Generator, server.a) \in 1 .. (Prime - 1) /\ Prime \in Nat
  <2>1. Generator \in 1 .. (Prime - 1) /\ server.a \in Nat /\ Prime \in Nat
    BY GeneratorIs DEF DataOK
  <2> QED
    BY <2>1, PowerNat
<1>5. CASE Fail
  <2>1. ~\E b \in 1..(Prime - 1) :
           Request("set", [kind |-> "setDh", gb |-> Power(Generator, b)])
    BY <1>5 DEF Fail, Request
  <2>2. Power(Generator, server.a) \in {1, Prime - 1}
    BY <1>1, <1>3, <1>4, <2>1
  <2> QED
    BY <1>2, <1>5, <2>2 DEF Fail, Caused
<1>6. CASE ~Fail
  <2>1. PICK b \in 1..(Prime - 1) :
           /\ authKey' = Bytes(Power(f.ga, b))
           /\ Request("set", [kind |-> "setDh", gb |-> Power(Generator, b)])
    BY <1>1, <1>6
  <2>2. pc' = "set" /\ small' = 0 /\ authKey' = Bytes(Power(Power(Generator, server.a), b))
        /\ toServer' = [kind |-> "setDh", gb |-> Power(Generator, b)]
    BY <1>3, <2>1 DEF Request
  <2>3. RightRequest(toServer)'
    BY <1>2, <2>2 DEF RightRequest, ClientKey
  <2>4. Round' = Round + 1
    BY <1>1, <2>2 DEF Round
  <2> QED
    BY <1>1, <2>2, <2>3, <2>4, NextRequest
<1> QED
  BY <1>5, <1>6

\* dh_gen_ok: both sides have the same number, and its bytes unless the first
\* of them is zero.
LEMMA GenRight ==
    ASSUME ShapeOK, DataOK, Unanswered \/ Answered, GotGen
    PROVE  pc' = "done" \/ (pc' = "failed" /\ Caused')
<1>1. PICK f \in Arrived :
         /\ Reads(f) /\ pc = "set" /\ f.kind \in Expected["set"]
         /\ IF f.kind = "genOk" /\ f.hash = NonceHash(1, authKey)
            THEN pc' = "done" /\ UNCHANGED <<small, nonce, authKey, toServer>>
            ELSE Fail
  BY DEF GotGen
<1>2. f.kind # "small"
  BY <1>1 DEF Expected
<1>3. /\ RightAnswer(f) /\ answers = 3 /\ toServer = None
      /\ UNCHANGED <<server, answers>>
  BY <1>1, <1>2, AnswerRead DEF Reads, Round
<1>4. PICK b \in 1..(Prime - 1) : authKey = ClientKey(b) /\ server.key = ServerKey(b)
  BY <1>1, <1>3 DEF RightAnswer
<1>5. f.kind = "genOk" /\ f.hash = NonceHash(1, server.key)
  BY <1>1, <1>3 DEF RightAnswer
<1>6. Power(Power(Generator, server.a), b) = Power(Power(Generator, b), server.a)
  <2>1. Generator \in 1 .. (Prime - 1) /\ server.a \in Nat /\ b \in Nat
    BY GeneratorIs DEF DataOK
  <2> QED
    BY <2>1, PowersCommute
<1>7. CASE server.key[1] # 0
  <2>1. authKey = server.key
    BY <1>4, <1>6, <1>7, BytesAreFull DEF ClientKey, ServerKey
  <2> QED
    BY <1>1, <1>5, <2>1
<1>8. CASE server.key[1] = 0
  <2>1. toServer' = toServer /\ (pc' = "done" \/ pc' = "failed")
    BY <1>1 DEF Fail
  <2> QED
    BY <1>3, <1>8, <2>1 DEF Caused
<1> QED
  BY <1>7, <1>8

\* A cause stays: counts grow, and after the last answer nothing is stored.
LEMMA CausedStays ==
    ASSUME DataOK, Caused, \A r \in 0..2 : quick'[r] \in {quick[r], quick[r] + 1},
           UNCHANGED <<server, answers, toServer>>
    PROVE  Caused'
<1>1. MaxSmall \in Nat /\ MaxFrames \in Nat /\ \A r \in 0..2 : quick[r] \in Nat
  BY LimitsAre DEF DataOK
<1>2. \A r \in 0..2 : quick'[r] >= quick[r] /\ quick'[r] \in Nat
  BY <1>1
<1> QED
  BY <1>1, <1>2 DEF Caused

LEMMA CausedOnceStored ==
    ASSUME DataOK, Caused, toServer # None, quick' = quick,
           \/ server' = server
           \/ \E key : server' = [server EXCEPT !.key = key]
    PROVE  Caused'
<1>1. server'.offered = server.offered /\ server'.a = server.a
  BY DEF DataOK
<1> QED
  BY <1>1 DEF Caused

LEMMA QuickGrows ==
    ASSUME DataOK, QuickAck
    PROVE  /\ quick' = [quick EXCEPT ![answers] = @ + 1]
           /\ \A r \in 0..3 : /\ quick[r] \in Nat
                               /\ quick'[r] \in {quick[r], quick[r] + 1}
           /\ answers \in 0..3 => quick'[answers] = quick[answers] + 1
<1>1. quick' = [quick EXCEPT ![answers] = @ + 1]
  BY DEF QuickAck
<1> QED
  BY <1>1 DEF DataOK

LEMMA Appended ==
    ASSUME ShapeOK, NEW f, toClient' = Append(toClient, f)
    PROVE  /\ Len(toClient) \in Nat /\ DOMAIN toClient = 1 .. Len(toClient)
           /\ Len(toClient') = Len(toClient) + 1
           /\ DOMAIN toClient' = 1 .. (Len(toClient) + 1)
           /\ toClient'[Len(toClient) + 1] = f
           /\ \A i \in DOMAIN toClient : toClient'[i] = toClient[i]
<1>1. PICK S : toClient \in Seq(S)
  BY DEF ShapeOK
<1>2. toClient \in Seq(S \cup {f}) /\ f \in S \cup {f}
  BY <1>1
<1> QED
  BY <1>2

\* A small frame more counts for the request after the last answer.
LEMMA QuickHonest ==
    ASSUME ShapeOK, DataOK, Unanswered \/ Answered, QuickAck
    PROVE  Unanswered' \/ Answered'
<1> DEFINE f == [kind |-> "small"]
<1>1. /\ toClient' = Append(toClient, f)
      /\ UNCHANGED <<pc, small, nonce, authKey, toServer, server, answers>>
  BY DEF QuickAck, clientVars
<1>2. /\ Len(toClient) \in Nat /\ DOMAIN toClient = 1 .. Len(toClient)
      /\ Len(toClient') = Len(toClient) + 1
      /\ DOMAIN toClient' = 1 .. (Len(toClient) + 1)
      /\ toClient'[Len(toClient) + 1] = f
      /\ \A i \in DOMAIN toClient : toClient'[i] = toClient[i]
  BY <1>1, Appended
<1>3. Round' = Round /\ Round \in 1..3 /\ small \in Nat
  BY <1>1, RoundIs DEF Round, DataOK
<1>4. /\ \A r \in 0..3 : quick[r] \in Nat /\ quick'[r] \in {quick[r], quick[r] + 1}
      /\ answers \in 0..3 => quick'[answers] = quick[answers] + 1
  BY QuickGrows
<1>5. \A x : (RightRequest(x)' <=> RightRequest(x)) /\ (RightAnswer(x)' <=> RightAnswer(x))
  BY <1>1, RightStays
<1>6. CASE Unanswered
  <2>1. answers' = Round' - 1 /\ RightRequest(toServer)'
    BY <1>1, <1>3, <1>5, <1>6 DEF Unanswered
  <2>2. \A i \in DOMAIN toClient' : toClient'[i].kind = "small"
    BY <1>2, <1>6 DEF Unanswered
  <2>3. quick'[Round - 1] = quick[Round - 1] + 1 /\ quick[Round - 1] \in Nat
    BY <1>3, <1>4, <1>6 DEF Unanswered
  <2>4. small' + Len(toClient') <= quick'[Round' - 1]
    BY <1>1, <1>2, <1>3, <1>6, <2>3 DEF Unanswered
  <2> QED
    BY <2>1, <2>2, <2>4 DEF Unanswered
<1>7. CASE Answered
  <2>1. PICK j \in DOMAIN toClient :
           /\ RightAnswer(toClient[j])
           /\ \A i \in DOMAIN toClient \ {j} : toClient[i].kind = "small"
           /\ small + j - 1 <= quick[Round - 1]
           /\ Len(toClient) - j <= quick[Round]
    BY <1>7 DEF Answered
  <2>2. PICK x : x = toClient[j]
    OBVIOUS
  <2>3. RightAnswer(x)' /\ toClient'[j] = x /\ j \in DOMAIN toClient'
    BY <1>2, <1>5, <2>1, <2>2
  <2>4. RightAnswer(toClient[j])'
    BY <2>3 DEF RightAnswer
  <2>5. \A i \in DOMAIN toClient' \ {j} : toClient'[i].kind = "small"
    BY <1>2, <2>1
  <2>6. /\ quick[Round - 1] \in Nat /\ quick'[Round - 1] \in Nat
        /\ quick'[Round - 1] >= quick[Round - 1]
        /\ quick'[Round] = quick[Round] + 1 /\ quick[Round] \in Nat
    <3>1. Round - 1 \in 0..3 /\ Round \in 0..3 /\ answers = Round
      BY <1>3, <1>7 DEF Answered
    <3>2. \A r \in 0..3 : quick'[r] \in Nat /\ quick'[r] >= quick[r]
      BY <1>4
    <3> QED
      BY <1>4, <3>1, <3>2
  <2>7. small' + j - 1 <= quick'[Round' - 1] /\ Len(toClient') - j <= quick'[Round']
    <3> DEFINE q == quick[Round - 1]  r == quick[Round]
               q1 == quick'[Round - 1]  r1 == quick'[Round]
    <3>1. /\ q \in Nat /\ q1 \in Nat /\ q1 >= q /\ r1 = r + 1 /\ r \in Nat
          /\ small + j - 1 <= q /\ Len(toClient) - j <= r
      BY <2>1, <2>6
    <3>2. j \in Nat /\ small \in Nat /\ Len(toClient) \in Nat
      BY <1>2, <1>3
    <3> HIDE DEF q, r, q1, r1
    <3>3. small + j - 1 <= q1 /\ Len(toClient) + 1 - j <= r1
      BY <3>1, <3>2
    <3> QED
      BY <1>1, <1>2, <1>3, <3>3 DEF q1, r1
  <2>8. answers' = Round' /\ toServer' = None
    BY <1>1, <1>3, <1>7 DEF Answered
  <2> QED
    BY <2>3, <2>4, <2>5, <2>7, <2>8 DEF Answered
<1> QED
  BY <1>6, <1>7

\* The answer goes out behind the small frames.
LEMMA AnswerSent ==
    ASSUME ShapeOK, DataOK, Unanswered, NEW f, Answer(f), RightAnswer(f)'
    PROVE  Answered'
<1>1. /\ toServer' = None /\ toClient' = Append(toClient, f) /\ answers' = answers + 1
      /\ UNCHANGED <<pc, small, quick>>
  BY DEF Answer, clientVars
<1>2. /\ Len(toClient) \in Nat /\ DOMAIN toClient = 1 .. Len(toClient)
      /\ Len(toClient') = Len(toClient) + 1
      /\ DOMAIN toClient' = 1 .. (Len(toClient) + 1)
      /\ toClient'[Len(toClient) + 1] = f
      /\ \A i \in DOMAIN toClient : toClient'[i] = toClient[i]
  BY <1>1, Appended
<1>3. Round' = Round /\ Round \in 1..3 /\ small \in Nat
  BY <1>1, RoundIs DEF Round, DataOK
<1>4. PICK j : j = Len(toClient) + 1
  OBVIOUS
<1>5. j \in DOMAIN toClient' /\ toClient'[j] = f
  BY <1>2, <1>4
<1>6. RightAnswer(toClient[j])'
  BY <1>5 DEF RightAnswer
<1>7. \A i \in DOMAIN toClient' \ {j} : toClient'[i].kind = "small"
  BY <1>2, <1>4 DEF Unanswered
<1>8. small' + j - 1 <= quick'[Round' - 1]
  BY <1>1, <1>2, <1>3, <1>4 DEF Unanswered
<1>9. Len(toClient') - j <= quick'[Round']
  <2>1. quick[Round] \in Nat
    BY <1>3 DEF DataOK
  <2> QED
    BY <1>1, <1>2, <1>3, <1>4, <2>1
<1>10. answers' = Round' /\ toServer' = None
  BY <1>1, <1>3 DEF Unanswered
<1> QED
  BY <1>5, <1>6, <1>7, <1>8, <1>9, <1>10 DEF Answered

\* An honest server answers what is asked, and refuses nothing.
LEMMA ServerHonest ==
    ASSUME ShapeOK, DataOK, Unanswered \/ Answered, pc \in Waiting, ServerAnswers
    PROVE  Answered'
<1>1. Unanswered /\ RightRequest(toServer) /\ toServer # None
  BY DEF ServerAnswers, AnswerReqPq, AnswerReqDh, AnswerSetDh, RightReqDh, Asked,
         Answered, Unanswered
<1>2. pc = "pq" \/ pc = "dh" \/ pc = "set"
  BY DEF Waiting
<1>3. CASE AnswerReqPq(OurNonce)
  <2> DEFINE f == [kind |-> "resPQ", nonce |-> OurNonce, pq |-> server.pq,
                   offered |-> server.offered]
  <2>1. Answer(f) /\ server' = server /\ toServer.kind = "reqPq"
    BY <1>3 DEF AnswerReqPq, Asked
  <2>2. pc = "pq" /\ pc' = pc
    BY <1>1, <1>2, <2>1 DEF RightRequest, Answer, clientVars
  <2>3. RightAnswer(f)'
    BY <2>1, <2>2 DEF RightAnswer
  <2> QED
    BY <1>1, <2>1, <2>3, AnswerSent
<1>4. CASE AnswerReqDh(OurNonce)
  <2> DEFINE f == [kind |-> "dhOk", nonce |-> OurNonce,
                   ga |-> Power(Generator, server.a)]
  <2>1. Answer(f) /\ server' = server /\ toServer.kind = "reqDh"
    BY <1>4 DEF AnswerReqDh, RightReqDh, Asked
  <2>2. pc = "dh" /\ pc' = pc /\ nonce = OurNonce /\ nonce' = nonce
    BY <1>1, <1>2, <2>1 DEF RightRequest, Answer, clientVars
  <2>3. RightAnswer(f)'
    BY <2>1, <2>2 DEF RightAnswer
  <2> QED
    BY <1>1, <2>1, <2>3, AnswerSent
<1>5. CASE AnswerSetDh("genOk")
  <2> DEFINE number == CHOOSE i \in 1..3 : <<"genOk", "genRetry", "genFail">>[i] = "genOk"
  <2>1. number = 1
    <3>1. \A i \in 1..3 : <<"genOk", "genRetry", "genFail">>[i] = "genOk" <=> i = 1
      OBVIOUS
    <3> QED
      BY <3>1
  <2>2. PICK key : key = FullBytes(Power(toServer.gb, server.a))
    OBVIOUS
  <2>3. PICK f : f = [kind |-> "genOk", hash |-> NonceHash(1, key)]
    OBVIOUS
  <2>4. Answer(f) /\ server' = [server EXCEPT !.key = key] /\ toServer.kind = "setDh"
    BY <1>5, <2>1, <2>2, <2>3 DEF AnswerSetDh, Asked
  <2>5. pc = "set" /\ pc' = pc /\ authKey' = authKey
    BY <1>1, <1>2, <2>4 DEF RightRequest, Answer, clientVars
  <2>6. PICK b \in 1..(Prime - 1) :
           toServer.gb = Power(Generator, b) /\ authKey = ClientKey(b)
    BY <1>1, <2>5 DEF RightRequest
  <2>7. key = ServerKey(b)
    BY <2>2, <2>6 DEF ServerKey
  <2>8. server'.key = key /\ server'.a = server.a
    BY <2>4 DEF DataOK
  <2>9. authKey' = ClientKey(b)' /\ server'.key = ServerKey(b)'
    BY <2>5, <2>6, <2>7, <2>8 DEF ClientKey, ServerKey
  <2>10. f.kind = "genOk" /\ f.hash = NonceHash(1, key)
    BY <2>3
  <2>11. RightAnswer(f)'
    BY <2>5, <2>8, <2>9, <2>10 DEF RightAnswer, NonceHash
  <2> QED
    BY <1>1, <2>4, <2>11, AnswerSent
<1>6. CASE Asked("reqDh") /\ ~RightReqDh
  <2>1. pc = "dh"
    BY <1>1, <1>2, <1>6 DEF RightRequest, Asked
  <2>2. RightReqDh
    BY <1>1, <1>6, <2>1 DEF RightRequest, RightReqDh
  <2> QED
    BY <1>6, <2>2
<1> QED
  BY <1>3, <1>4, <1>5, <1>6 DEF ServerAnswers

\* What the client reads in an exchange without faults.
LEMMA ClientHonest ==
    ASSUME ShapeOK, DataOK, Unanswered \/ Answered, pc \in Waiting,
           IgnoreSmall \/ ReadUnexpected \/ GotResPq \/ GotDhParams \/ GotGen
    PROVE  /\ pc' # "start"
           /\ pc' \in Waiting => Unanswered' \/ Answered'
           /\ pc' = "failed" => Caused'
<1>1. "failed" \notin Waiting /\ "done" \notin Waiting /\ "start" \notin Waiting
  BY DEF Waiting
<1>2. CASE IgnoreSmall
  <2>1. PICK f \in Arrived :
           /\ Reads(f) /\ f.kind = "small"
           /\ IF small + 1 > MaxSmall \/ small + 1 >= MaxFrames
              THEN Fail
              ELSE small' = small + 1 /\ UNCHANGED <<pc, nonce, authKey, toServer>>
    BY <1>2 DEF IgnoreSmall
  <2>2. /\ small + 1 <= quick[Round - 1]
        /\ UNCHANGED <<pc, nonce, authKey, toServer>> /\ small' = small + 1
              => Unanswered' \/ Answered'
    BY <2>1, SmallRead
  <2>3. CASE small + 1 > MaxSmall \/ small + 1 >= MaxFrames
    <3>1. /\ Round - 1 \in 0..2 /\ quick[Round - 1] \in Nat /\ quick' = quick
          /\ small \in Nat /\ MaxSmall \in Nat /\ MaxFrames \in Nat
      BY <2>1, RoundIs, LimitsAre DEF DataOK, Reads
    <3>2. quick[Round - 1] > MaxSmall \/ quick[Round - 1] >= MaxFrames
      BY <2>2, <2>3, <3>1
    <3>3. \E r \in 0..2 : quick'[r] > MaxSmall \/ quick'[r] >= MaxFrames
      BY <3>1, <3>2
    <3> QED
      BY <1>1, <2>1, <2>3, <3>3 DEF Caused, Fail
  <2> QED
    BY <1>1, <2>1, <2>2, <2>3
<1>3. CASE ReadUnexpected
  <2>1. PICK f \in Arrived :
           Reads(f) /\ f.kind # "small" /\ f.kind \notin Expected[pc]
    BY <1>3 DEF ReadUnexpected
  <2>2. RightAnswer(f)
    BY <2>1, AnswerRead
  <2> QED
    BY <2>1, <2>2 DEF RightAnswer, Expected, Waiting
<1>4. CASE GotResPq
  <2>1. pc' # "start"
    BY <1>4 DEF GotResPq, Fail, Request
  <2> QED
    BY <1>1, <1>4, <2>1, ResPqRight
<1>5. CASE GotDhParams
  <2>1. pc' # "start"
    BY <1>5 DEF GotDhParams, Fail, Request
  <2> QED
    BY <1>1, <1>5, <2>1, DhParamsRight
<1>6. CASE GotGen
  BY <1>1, <1>6, GenRight
<1> QED
  BY <1>2, <1>3, <1>4, <1>5, <1>6

LEMMA NextHonest == ShapeOK /\ DataOK /\ Honest /\ [Next]_vars => Honest'
<1> SUFFICES ASSUME ShapeOK, DataOK, Honest, [Next]_vars, faults' = {} PROVE Honest'
  BY DEF Honest
<1>1. ASSUME pc' # "start", pc' \in Waiting => Unanswered' \/ Answered',
             pc' = "failed" => Caused'
      PROVE  Honest'
  BY <1>1 DEF Honest
<1>2. ~ServerFails /\ ~Timeout /\ ~ConnectionLost
  BY DEF ServerFails, Timeout, ConnectionLost
<1>3. CASE UNCHANGED vars
  <2>1. UNCHANGED <<pc, small, nonce, authKey, toServer, toClient, server, answers,
                    quick, faults>>
    BY <1>3 DEF vars, clientVars
  <2> QED
    BY <2>1 DEF Honest, Caused, Unanswered, Answered, RightRequest, RightAnswer, Round,
                ClientKey, ServerKey, NonceHash
<1>4. CASE SendReqPq
  <2>1. /\ pc = "start" /\ pc' = "pq" /\ small' = 0 /\ toServer' = [kind |-> "reqPq"]
        /\ UNCHANGED <<toClient, answers, quick, faults>>
    BY <1>4 DEF SendReqPq, Request
  <2>2. toClient = <<>> /\ answers = 0 /\ quick[0] \in Nat
    BY <2>1 DEF Honest, DataOK
  <2>3. Unanswered'
    BY <2>1, <2>2 DEF Unanswered, Round, RightRequest
  <2> QED
    BY <1>1, <2>1, <2>3
<1>5. CASE IgnoreSmall \/ ReadUnexpected \/ GotResPq \/ GotDhParams \/ GotGen
  <2>1. pc \in Waiting /\ faults' = faults
    BY <1>5 DEF IgnoreSmall, ReadUnexpected, GotResPq, GotDhParams, GotGen, Reads
  <2> QED
    BY <1>1, <1>5, <2>1, ClientHonest DEF Honest
<1>6. CASE ServerAnswers
  <2>1. /\ toServer # None /\ UNCHANGED <<pc, quick, faults>>
        /\ \/ server' = server
           \/ \E key : server' = [server EXCEPT !.key = key]
    BY <1>6 DEF ServerAnswers, AnswerReqPq, AnswerReqDh, AnswerSetDh, RightReqDh, Asked,
                Answer, clientVars
  <2>2. pc # "start"
    BY <2>1 DEF Honest
  <2>3. pc \in Waiting => Answered'
    BY <1>6, <2>1, ServerHonest DEF Honest
  <2>4. pc = "failed" => Caused'
    BY <2>1, CausedOnceStored DEF Honest
  <2> QED
    BY <1>1, <2>1, <2>2, <2>3, <2>4
<1>7. CASE QuickAck
  <2>1. pc \in Waiting /\ UNCHANGED <<pc, faults>>
    BY <1>7 DEF QuickAck, clientVars
  <2>2. Unanswered' \/ Answered'
    BY <1>7, <2>1, QuickHonest DEF Honest
  <2> QED
    BY <1>1, <2>1, <2>2 DEF Waiting
<1> QED
  BY <1>2, <1>3, <1>4, <1>5, <1>6, <1>7 DEF Next, Over

LEMMA InitHInv == Init => HInv
<1> SUFFICES ASSUME Init PROVE HInv
  OBVIOUS
<1>1. /\ pc = "start" /\ small = 0 /\ toServer = None /\ toClient = <<>> /\ answers = 0
      /\ server \in [pq : PqNumbers, offered : SUBSET Fingerprints,
                     a : 1..(Prime - 1), key : {None}]
      /\ quick = [r \in 0..3 |-> 0]
  BY DEF Init
<1>2. DataOK
  BY <1>1 DEF DataOK
<1> QED
  BY <1>1, <1>2 DEF HInv, FewSmall, Honest, Waiting

\* exchange_auth_key, build_pq_inner_data, make_dh_result, _int_to_be_bytes: with
\* a server that does what it should, the exchange fails for too many small frames
\* in one request, for no RSA key in common, for a g_a of 1 or p - 1, or because
\* the key begins with a zero byte - and in no other way: the factors are right,
\* both sides compute one number, and no frame is taken for another's answer.
THEOREM FailuresCorrect == Spec => []FailsOnlyForCause
<1>1. KInv /\ HInv /\ [Next]_vars => HInv'
  BY NextData, NextFewSmall, NextHonest DEF KInv, HInv
<1>2. HInv => FailsOnlyForCause
  BY DEF HInv, FewSmall, Honest, Caused, FailsOnlyForCause
<1> QED
  BY <1>1, <1>2, InitKInv, NextKInv, InitHInv, PTL DEF Spec

=============================================================================
