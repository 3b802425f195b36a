--------------------------- MODULE TransportProofs --------------------------
(***************************************************************************)
(* What is proved about Transport, for any packets, chunks and bounds: it  *)
(* implements PacketPipe, nothing is held back, and decode_from_buffer     *)
(* never raises.                                                           *)
(*                                                                         *)
(* The argument: what the client has buffered, followed by what the socket *)
(* still holds, is a beginning of the frames of the packets that have been *)
(* sent and not returned, all of them as long as the stream has not ended; *)
(* and so for the server.  A frame is recognized in such bytes as soon as  *)
(* it is whole, and is then the next packet.                               *)
(***************************************************************************)
EXTENDS Transport, WellFoundedInduction, TLAPS

(* Where the frames of packets ps end in their stream.                     *)
Ends(at, f, ps) ==
    /\ at \in [0..Len(ps) -> Nat] /\ at[0] = 0
    /\ \A i \in 1..Len(ps) : at[i] = at[i - 1] + Len(Encode(f, ps[i]))
    /\ \A i, j \in 0..Len(ps) : i <= j => at[i] <= at[j]

(* b is a beginning of the frames of ps after the first g packets.         *)
Begins(b, at, f, ps, g) ==
    /\ Len(b) <= at[Len(ps)] - at[g]
    /\ \A i \in 1..Len(ps) : i > g =>
           \A k \in 1..Len(Encode(f, ps[i])) :
               LET n == at[i - 1] - at[g] + k
               IN  n <= Len(b) => b[n] = Encode(f, ps[i])[k]

Carries(b, f, ps, g, ended) ==
    \E at : /\ Ends(at, f, ps) /\ Begins(b, at, f, ps, g)
            /\ ended = FALSE => Len(b) = at[Len(ps)] - at[g]

Sendable(f, ps) ==
    ps \in Seq(Packets) /\ \A i \in DOMAIN ps : CanEncode(f, ps[i])
Received(ps, source) ==
    /\ ps \in Seq(Packets) /\ Len(ps) <= Len(source)
    /\ \A i \in DOMAIN ps : ps[i] = source[i]

(* What the server has not read, after the header of the connection.       *)
Skipped == IF heard = <<>> THEN Len(ConnectHeader(framing)) ELSE 0
Unread == SubSeq(toServer, Skipped + 1, Len(toServer))

Common ==
    /\ framing \in Framings /\ conn \in Nat
    /\ state \in {"closed", "open", "closing"}

(* The way to the client.                                                  *)
Inward ==
    /\ recv \in {"idle", "reading"} /\ eof \in BOOLEAN
    /\ rxBuf \in Seq(Byte) /\ toClient \in Seq(Byte)
    /\ Sendable(framing, sent) /\ Received(got, sent)
    /\ state = "closed" => recv = "idle" /\ rxBuf = <<>>
    /\ state # "closed" => Carries(rxBuf \o toClient, framing, sent, Len(got), eof)
    /\ recv = "reading" => ~HasFrame(framing, rxBuf)

(* The way to the server.                                                  *)
Outward ==
    /\ toServer \in Seq(Byte)
    /\ Sendable(framing, asked) /\ Received(heard, asked)
    /\ state # "closed" =>
           /\ Skipped <= Len(toServer)
           /\ Carries(Unread, framing, asked, Len(heard), FALSE)

IInv == Common /\ Inward /\ Outward

-----------------------------------------------------------------------------
(* Numbers and their digits.                                               *)

\* What is true of 0 and of the number after any that it is true of, is
\* true of all.
LEMMA SetInduction ==
    ASSUME NEW T \in SUBSET Nat, 0 \in T, \A n \in T : n + 1 \in T
    PROVE  T = Nat
<1> SUFFICES ASSUME Nat \ T # {} PROVE FALSE
  OBVIOUS
<1>1. PICK x \in Nat \ T : \A y \in Nat \ T : <<y, x>> \notin OpToRel(<, Nat)
  BY WFMin, NatLessThanWellFounded
<1>2. \A y \in Nat \ T : ~(y < x)
  BY <1>1 DEF OpToRel
<1>3. x # 0 /\ x - 1 \in Nat
  OBVIOUS
<1>4. x - 1 \in T
  BY <1>2, <1>3
<1> QED
  BY <1>3, <1>4

LEMMA Division ==
    ASSUME NEW a \in Nat, NEW n \in Nat \ {0}
    PROVE  /\ a \div n \in Nat /\ a % n \in 0 .. (n - 1)
           /\ a = n * (a \div n) + (a % n)
OBVIOUS

(* A solution of a recursion as far as n.                                  *)
Follows(h, V, a, S, n) ==
    /\ h \in [0 .. n -> V] /\ h[0] = a
    /\ \A i \in 0 .. (n - 1) : h[i + 1] = S[h[i]][i]

(* A recursion that starts with a and stays in V, and its solution.        *)
Recurs(V, a, S) == a \in V /\ S \in [V -> [Nat -> V]]
Solves(g, V, a, S) ==
    g \in [Nat -> V] /\ g[0] = a /\ \A n \in Nat : g[n + 1] = S[g[n]][n]

\* A recursion over the numbers that stays in a set has a solution.
LEMMA RecursionUpTo ==
    ASSUME NEW V, NEW a \in V, NEW S \in [V -> [Nat -> V]]
    PROVE  \A n \in Nat : \E h : Follows(h, V, a, S, n)
<1> DEFINE T == {n \in Nat : \E h : Follows(h, V, a, S, n)}
<1>1. 0 \in T
  <2>1. Follows([i \in 0 .. 0 |-> a], V, a, S, 0)
    BY DEF Follows
  <2> QED
    BY <2>1
<1>2. ASSUME NEW n \in T PROVE n + 1 \in T
  <2>1. PICK h : Follows(h, V, a, S, n)
    OBVIOUS
  <2>2. h[n] \in V
    BY <2>1 DEF Follows
  <2>3. S[h[n]][n] \in V
    BY <2>2
  <2> DEFINE g == [i \in 0 .. (n + 1) |-> IF i <= n THEN h[i] ELSE S[h[n]][n]]
  <2>4. g \in [0 .. (n + 1) -> V]
    BY <2>1, <2>3 DEF Follows
  <2>5. g[0] = a
    BY <2>1 DEF Follows
  <2>6. ASSUME NEW i \in 0 .. n PROVE g[i + 1] = S[g[i]][i]
    <3>1. g[i] = h[i]
      OBVIOUS
    <3>2. CASE i < n
      <4>1. g[i + 1] = h[i + 1]
        BY <3>2
      <4>2. h[i + 1] = S[h[i]][i]
        BY <2>1, <3>2 DEF Follows
      <4> QED
        BY <3>1, <4>1, <4>2
    <3>3. CASE i = n
      BY <3>1, <3>3
    <3> QED
      BY <3>2, <3>3
  <2>7. Follows(g, V, a, S, n + 1)
    <3> HIDE DEF g
    <3>1. (n + 1) - 1 = n
      OBVIOUS
    <3> QED
      BY <2>4, <2>5, <2>6, <3>1 DEF Follows
  <2> QED
    BY <2>7
<1>3. T = Nat
  <2> HIDE DEF T
  <2>1. T \in SUBSET Nat
    BY DEF T
  <2> QED
    BY <1>1, <1>2, <2>1, SetInduction
<1> QED
  BY <1>3

LEMMA RecursionsAgree ==
    ASSUME NEW V, NEW a, NEW S, NEW m \in Nat,
           NEW n \in Nat, NEW h, NEW g, Follows(h, V, a, S, m), Follows(g, V, a, S, n)
    PROVE  \A i \in Nat : i <= m /\ i <= n => h[i] = g[i]
<1> DEFINE T == {i \in Nat : i <= m /\ i <= n => h[i] = g[i]}
<1>1. 0 \in T
  BY DEF Follows
<1>2. ASSUME NEW i \in T PROVE i + 1 \in T
  <2> SUFFICES ASSUME i + 1 <= m, i + 1 <= n PROVE h[i + 1] = g[i + 1]
    OBVIOUS
  <2>1. i \in 0 .. (m - 1) /\ i \in 0 .. (n - 1) /\ h[i] = g[i]
    OBVIOUS
  <2>2. h[i + 1] = S[h[i]][i]
    BY <2>1 DEF Follows
  <2>3. g[i + 1] = S[g[i]][i]
    BY <2>1 DEF Follows
  <2> QED
    BY <2>1, <2>2, <2>3
<1>3. T = Nat
  <2> HIDE DEF T
  <2>1. T \in SUBSET Nat
    BY DEF T
  <2> QED
    BY <1>1, <1>2, <2>1, SetInduction
<1> QED
  BY <1>3

LEMMA Recursion ==
    ASSUME NEW V, NEW a, NEW S, Recurs(V, a, S)
    PROVE  \E g : Solves(g, V, a, S)
<1>0. a \in V /\ S \in [V -> [Nat -> V]]
  BY DEF Recurs
<1> DEFINE H(n) == CHOOSE h : Follows(h, V, a, S, n)
           g == [n \in Nat |-> H(n)[n]]
<1>1. \A n \in Nat : Follows(H(n), V, a, S, n)
  BY <1>0, RecursionUpTo
<1>2. g \in [Nat -> V]
  <2> SUFFICES ASSUME NEW n \in Nat PROVE H(n)[n] \in V
    OBVIOUS
  <2> HIDE DEF H
  <2>1. Follows(H(n), V, a, S, n)
    BY <1>1
  <2> QED
    BY <2>1 DEF Follows
<1>3. g[0] = a
  BY <1>1 DEF Follows
<1>4. ASSUME NEW n \in Nat PROVE g[n + 1] = S[g[n]][n]
  <2> HIDE DEF H
  <2>1. Follows(H(n), V, a, S, n) /\ Follows(H(n + 1), V, a, S, n + 1)
    BY <1>1
  <2>2. H(n + 1)[n] = H(n)[n]
    <3>1. n + 1 \in Nat /\ n <= n + 1 /\ n <= n
      OBVIOUS
    <3>2. \A i \in Nat : i <= n + 1 /\ i <= n => H(n + 1)[i] = H(n)[i]
      BY <2>1, <3>1, RecursionsAgree
    <3> QED
      BY <3>1, <3>2
  <2>3. H(n + 1)[n + 1] = S[H(n + 1)[n]][n]
    BY <2>1 DEF Follows
  <2> QED
    BY <2>2, <2>3
<1> HIDE DEF g
<1>5. Solves(g, V, a, S)
  BY <1>2, <1>3, <1>4 DEF Solves
<1> QED
  BY <1>5

\* The weights of the digits are the powers of the base.
LEMMA WeightSteps ==
    /\ Weight \in [Nat -> Nat \ {0}] /\ Weight[0] = 1
    /\ \A k \in Nat : Weight[k + 1] = Base * Weight[k]
<1> DEFINE V == Nat \ {0}  S == [v \in V |-> [k \in Nat |-> Base * v]]
<1>1. Base \in Nat \ {0, 1}
  BY BytesAssumption
<1>2. S \in [V -> [Nat -> V]]
  <2> SUFFICES ASSUME NEW v \in V PROVE Base * v \in V
    OBVIOUS
  <2>1. \A u, w \in V : u * w \in V
    OBVIOUS
  <2> QED
    BY <1>1, <2>1
<1>3. \A v \in V, k \in Nat : S[v][k] = Base * v
  OBVIOUS
<1>4. 1 \in V
  OBVIOUS
<1> HIDE DEF S
<1>5. PICK g : g \in [Nat -> V] /\ g[0] = 1 /\ \A n \in Nat : g[n + 1] = S[g[n]][n]
  <2>1. Recurs(V, 1, S)
    BY <1>2, <1>4 DEF Recurs
  <2> HIDE DEF V
  <2>2. PICK g : Solves(g, V, 1, S)
    BY <2>1, Recursion
  <2> QED
    BY <2>2 DEF Solves
<1>6. \A n \in Nat : g[n + 1] = Base * g[n]
  BY <1>3, <1>5
<1>7. g = [k \in Nat |-> IF k = 0 THEN 1 ELSE Base * g[k - 1]]
  <2>1. ASSUME NEW k \in Nat
        PROVE  g[k] = IF k = 0 THEN 1 ELSE Base * g[k - 1]
    <3>1. k # 0 => k - 1 \in Nat /\ (k - 1) + 1 = k
      OBVIOUS
    <3> QED
      BY <1>5, <1>6, <3>1
  <2>2. g = [k \in Nat |-> g[k]]
    BY <1>5
  <2> QED
    BY <2>1, <2>2
<1>8. Weight = [k \in Nat |-> IF k = 0 THEN 1 ELSE Base * Weight[k - 1]]
  BY <1>7 DEF Weight
<1>9. Weight[0] = 1 /\ \A k \in Nat : Weight[k + 1] = Base * Weight[k]
  <2>1. \A k \in Nat : Weight[k] = IF k = 0 THEN 1 ELSE Base * Weight[k - 1]
    BY <1>8
  <2>2. ASSUME NEW k \in Nat PROVE Weight[k + 1] = Base * Weight[k]
    <3>1. k + 1 \in Nat /\ k + 1 # 0 /\ (k + 1) - 1 = k
      OBVIOUS
    <3>2. Weight[k + 1] = Base * Weight[(k + 1) - 1]
      BY <2>1, <3>1
    <3> QED
      BY <3>1, <3>2
  <2> QED
    BY <2>1, <2>2
<1> DEFINE T == {k \in Nat : Weight[k] \in V}
<1>10. 0 \in T
  BY <1>9
<1>11. ASSUME NEW k \in T PROVE k + 1 \in T
  <2>1. \A u, v \in V : u * v \in V
    OBVIOUS
  <2> QED
    BY <1>1, <1>9, <2>1
<1>12. T = Nat
  <2> HIDE DEF T
  <2>1. T \in SUBSET Nat
    BY DEF T
  <2> QED
    BY <1>10, <1>11, <2>1, SetInduction
<1>13. Weight \in [Nat -> V]
  <2>1. Weight = [k \in Nat |-> Weight[k]]
    BY <1>8
  <2>2. \A k \in Nat : Weight[k] \in V
    BY <1>12
  <2> HIDE DEF V, T
  <2> QED
    BY <2>1, <2>2
<1> QED
  BY <1>9, <1>13

LEMMA Remainder ==
    ASSUME NEW n \in Nat \ {0}, NEW q \in Nat, NEW r \in 0 .. (n - 1)
    PROVE  (n * q + r) % n = r
OBVIOUS

\* One digit more of a number.
LEMMA OneDigit ==
    ASSUME NEW n \in Nat, NEW w \in Nat \ {0}, NEW b \in Nat \ {0}
    PROVE  n % (b * w) = (n % w) + ((n \div w) % b) * w
<1> DEFINE q == n \div w  m == n % w  h == q \div b  r == q % b
<1>1. q \in Nat /\ m \in 0 .. (w - 1) /\ n = w * q + m
  BY Division
<1>2. h \in Nat /\ r \in 0 .. (b - 1) /\ q = b * h + r
  BY <1>1, Division
<1> HIDE DEF q, m, h, r
<1>3. b * w \in Nat \ {0}
  OBVIOUS
<1>4. r * w \in Nat /\ r * w <= (b - 1) * w
  BY <1>2
<1>5. r * w + m \in 0 .. (b * w - 1)
  <2>1. (b - 1) * w = b * w - w
    OBVIOUS
  <2> QED
    BY <1>1, <1>3, <1>4, <2>1
<1>6. n = (b * w) * h + (r * w + m)
  <2>1. w * (b * h + r) = (b * w) * h + r * w
    BY <1>2
  <2> QED
    BY <1>1, <1>2, <2>1, <1>4
<1>7. n % (b * w) = r * w + m
  BY <1>2, <1>3, <1>5, <1>6, Remainder
<1>8. m = n % w /\ r = (n \div w) % b
  BY DEF m, r, q
<1> QED
  BY <1>7, <1>8, <1>1, <1>4

\* The recursion that Number computes.
LEMMA NumberSteps ==
    ASSUME NEW d \in Seq(Nat)
    PROVE  \E u : /\ u \in [Nat -> Nat] /\ u[0] = 0
                  /\ \A i \in 0 .. (Len(d) - 1) : u[i + 1] = u[i] + d[i + 1] * Weight[i]
                  /\ Number(d) = u[Len(d)]
<1> DEFINE S == [v \in Nat |-> [i \in Nat |->
                     IF i < Len(d) THEN v + d[i + 1] * Weight[i] ELSE 0]]
<1>1. S \in [Nat -> [Nat -> Nat]]
  <2> SUFFICES ASSUME NEW v \in Nat, NEW i \in Nat, i < Len(d)
               PROVE  v + d[i + 1] * Weight[i] \in Nat
    OBVIOUS
  <2>1. Weight[i] \in Nat /\ d[i + 1] \in Nat
    <3>1. Weight[i] \in Nat
      BY WeightSteps
    <3>2. i + 1 \in 1 .. Len(d)
      OBVIOUS
    <3> QED
      BY <3>1, <3>2
  <2>2. \A x, y \in Nat : x * y \in Nat
    OBVIOUS
  <2>3. d[i + 1] * Weight[i] \in Nat
    BY <2>1, <2>2
  <2> QED
    BY <2>3
<1>2. \A v \in Nat, i \in Nat : i < Len(d) => S[v][i] = v + d[i + 1] * Weight[i]
  OBVIOUS
<1> HIDE DEF S
<1>3. PICK u : Solves(u, Nat, 0, S)
  <2>1. Recurs(Nat, 0, S)
    BY <1>1 DEF Recurs
  <2> QED
    BY <2>1, Recursion
<1>4. u \in [Nat -> Nat] /\ u[0] = 0
  BY <1>3 DEF Solves
<1>5. \A i \in 0 .. (Len(d) - 1) : u[i + 1] = u[i] + d[i + 1] * Weight[i]
  <2> SUFFICES ASSUME NEW i \in 0 .. (Len(d) - 1)
               PROVE  u[i + 1] = u[i] + d[i + 1] * Weight[i]
    OBVIOUS
  <2>0. Len(d) \in Nat
    OBVIOUS
  <2>1. i \in Nat /\ i < Len(d) /\ u[i] \in Nat
    <3>1. i \in Nat /\ i < Len(d)
      BY <2>0
    <3> QED
      BY <1>4, <3>1
  <2>2. u[i + 1] = S[u[i]][i]
    BY <1>3, <2>1 DEF Solves
  <2> QED
    BY <1>2, <2>1, <2>2
<1> DEFINE w == [i \in 0 .. Len(d) |-> u[i]]
<1>6. w = [i \in 0 .. Len(d) |-> IF i = 0 THEN 0 ELSE w[i - 1] + d[i] * Weight[i - 1]]
  <2>1. ASSUME NEW i \in 0 .. Len(d)
        PROVE  w[i] = IF i = 0 THEN 0 ELSE w[i - 1] + d[i] * Weight[i - 1]
    <3>1. CASE i = 0
      BY <1>4, <3>1
    <3>2. CASE i # 0
      <4>1. i - 1 \in 0 .. (Len(d) - 1) /\ (i - 1) + 1 = i /\ i - 1 \in 0 .. Len(d)
        BY <3>2
      <4>2. u[i] = u[i - 1] + d[i] * Weight[i - 1]
        BY <1>5, <4>1
      <4>3. w[i] = u[i] /\ w[i - 1] = u[i - 1]
        BY <4>1
      <4> HIDE DEF w
      <4> QED
        BY <3>2, <4>2, <4>3
    <3> QED
      BY <3>1, <3>2
  <2>2. w = [i \in 0 .. Len(d) |-> w[i]]
    OBVIOUS
  <2> HIDE DEF w
  <2> QED
    BY <2>1, <2>2
<1>7. w[Len(d)] = u[Len(d)]
  OBVIOUS
<1> HIDE DEF w
<1> DEFINE upTo[i \in 0 .. Len(d)] ==
               IF i = 0 THEN 0 ELSE upTo[i - 1] + d[i] * Weight[i - 1]
<1>8. upTo = [i \in 0 .. Len(d) |->
                  IF i = 0 THEN 0 ELSE upTo[i - 1] + d[i] * Weight[i - 1]]
  BY <1>6
<1>9. Number(d) = upTo[Len(d)]
  BY DEF Number
<1> HIDE DEF upTo
<1>10. \A i \in 0 .. Len(d) :
           upTo[i] = IF i = 0 THEN 0 ELSE upTo[i - 1] + d[i] * Weight[i - 1]
  BY <1>8
<1> DEFINE T == {i \in Nat : i <= Len(d) => upTo[i] = u[i]}
<1>11. 0 \in T
  BY <1>4, <1>10
<1>12. ASSUME NEW i \in T PROVE i + 1 \in T
  <2> SUFFICES ASSUME i + 1 <= Len(d) PROVE upTo[i + 1] = u[i + 1]
    OBVIOUS
  <2>1. i \in 0 .. (Len(d) - 1) /\ i + 1 \in 0 .. Len(d) /\ (i + 1) - 1 = i
        /\ i + 1 # 0 /\ upTo[i] = u[i]
    OBVIOUS
  <2>2. upTo[i + 1] = upTo[(i + 1) - 1] + d[i + 1] * Weight[(i + 1) - 1]
    BY <1>10, <2>1
  <2> QED
    BY <1>5, <2>1, <2>2
<1>13. T = Nat
  <2> HIDE DEF T
  <2>1. T \in SUBSET Nat
    BY DEF T
  <2> QED
    BY <1>11, <1>12, <2>1, SetInduction
<1>14. Number(d) = u[Len(d)]
  BY <1>9, <1>13
<1> QED
  BY <1>4, <1>5, <1>14

LEMMA DigitsType ==
    ASSUME NEW n \in Nat, NEW k \in Nat
    PROVE  /\ Digits(n, k) \in Seq(Byte) /\ Digits(n, k) \in Seq(Nat)
           /\ Len(Digits(n, k)) = k
           /\ \A i \in 1 .. k : Digits(n, k)[i] = (n \div Weight[i - 1]) % Base
<1>1. Base \in Nat \ {0, 1}
  BY BytesAssumption
<1>2. ASSUME NEW i \in 1 .. k
      PROVE  (n \div Weight[i - 1]) % Base \in 0 .. (Base - 1)
  <2>1. i - 1 \in Nat
    OBVIOUS
  <2>2. Weight[i - 1] \in Nat \ {0}
    BY <2>1, WeightSteps
  <2>3. n \div Weight[i - 1] \in Nat
    BY <2>2, Division
  <2> QED
    BY <1>1, <2>3, Division
<1>3. Digits(n, k) \in [1 .. k -> Byte]
  BY <1>2 DEF Digits, Byte
<1>4. Byte \subseteq Nat
  BY <1>1 DEF Byte
<1>5. Digits(n, k) \in Seq(Byte) /\ Len(Digits(n, k)) = k
  BY <1>3
<1>6. Digits(n, k) \in Seq(Nat)
  <2>1. Digits(n, k) \in [1 .. k -> Nat]
    BY <1>3, <1>4
  <2> QED
    BY <2>1
<1>7. \A i \in 1 .. k : Digits(n, k)[i] = (n \div Weight[i - 1]) % Base
  BY DEF Digits
<1> QED
  BY <1>5, <1>6, <1>7

\* What has been written with digits enough is read back.
LEMMA NumberOfDigits ==
    ASSUME NEW n \in Nat, NEW k \in Nat, n < Weight[k]
    PROVE  Number(Digits(n, k)) = n
<1> DEFINE d == Digits(n, k)
<1>1. d \in Seq(Nat) /\ Len(d) = k
      /\ \A i \in 1 .. k : d[i] = (n \div Weight[i - 1]) % Base
  BY DigitsType
<1> HIDE DEF d
<1>2. PICK u : /\ u \in [Nat -> Nat] /\ u[0] = 0
               /\ \A i \in 0 .. (Len(d) - 1) : u[i + 1] = u[i] + d[i + 1] * Weight[i]
               /\ Number(d) = u[Len(d)]
  BY <1>1, NumberSteps
<1> DEFINE T == {i \in Nat : i <= k => u[i] = n % Weight[i]}
<1>3. 0 \in T
  <2>1. n % 1 = 0
    OBVIOUS
  <2> QED
    BY <1>2, <2>1, WeightSteps
<1>4. ASSUME NEW i \in T PROVE i + 1 \in T
  <2> SUFFICES ASSUME i + 1 <= k PROVE u[i + 1] = n % Weight[i + 1]
    OBVIOUS
  <2>1. i \in 0 .. (k - 1) /\ i + 1 \in 1 .. k /\ (i + 1) - 1 = i /\ i \in Nat
        /\ u[i] = n % Weight[i]
    OBVIOUS
  <2>2. d[i + 1] = (n \div Weight[i]) % Base
    BY <1>1, <2>1
  <2>3. u[i + 1] = (n % Weight[i]) + ((n \div Weight[i]) % Base) * Weight[i]
    BY <1>1, <1>2, <2>1, <2>2
  <2>4. Weight[i] \in Nat \ {0} /\ Weight[i + 1] = Base * Weight[i]
    BY <2>1, WeightSteps
  <2>5. Base \in Nat \ {0}
    BY BytesAssumption
  <2>6. n % (Base * Weight[i]) = (n % Weight[i]) + ((n \div Weight[i]) % Base) * Weight[i]
    BY <2>4, <2>5, OneDigit
  <2> QED
    BY <2>3, <2>4, <2>6
<1>5. T = Nat
  <2> HIDE DEF T
  <2>1. T \in SUBSET Nat
    BY DEF T
  <2> QED
    BY <1>3, <1>4, <2>1, SetInduction
<1>6. u[k] = n % Weight[k]
  BY <1>5
<1>7. n % Weight[k] = n
  <2>1. Weight[k] \in Nat \ {0}
    BY WeightSteps
  <2>2. \A w \in Nat \ {0} : n < w => n % w = n
    OBVIOUS
  <2> QED
    BY <2>1, <2>2
<1> QED
  BY <1>1, <1>2, <1>6, <1>7 DEF d

-----------------------------------------------------------------------------
(* Frames.                                                                 *)

(* b and e are equal as far as both go.                                    *)
StartsWith(b, e) == \A k \in 1 .. Len(e) : k <= Len(b) => b[k] = e[k]

LEMMA WordsType ==
    ASSUME NEW p \in Seq(Byte)
    PROVE  /\ Words(p) \in Nat
           /\ Len(p) % Align = 0 => Words(p) * Align = Len(p)
<1>1. Align \in Nat \ {0} /\ Len(p) \in Nat
  BY BytesAssumption
<1>2. Len(p) \div Align \in Nat /\ Len(p) = Align * (Len(p) \div Align) + (Len(p) % Align)
  BY <1>1, Division
<1>3. PICK w \in Nat : w = Len(p) \div Align
  BY <1>2
<1>4. Len(p) % Align = 0 => Len(p) = Align * w
  BY <1>1, <1>2, <1>3
<1>5. Align * w = w * Align
  BY <1>1
<1> QED
  BY <1>3, <1>4, <1>5 DEF Words

LEMMA WeightOfConstants ==
    /\ \A k \in Nat : Weight[k] \in Nat \ {0}
    /\ Marker \in Byte /\ MarkerBytes \in Nat \ {0} /\ HeaderBytes \in Nat \ {0}
    /\ HeaderSign \in Nat /\ HeaderSign <= Weight[HeaderBytes]
BY WeightSteps, FramingAssumption

\* A frame is a header of n bytes and the packet.
LEMMA ConcatIs ==
    ASSUME NEW S, NEW h \in Seq(S), NEW p \in Seq(S)
    PROVE  /\ h \o p \in Seq(S) /\ Len(h \o p) = Len(h) + Len(p)
           /\ \A k \in 1 .. Len(h) : (h \o p)[k] = h[k]
           /\ \A k \in 1 .. Len(p) : (h \o p)[Len(h) + k] = p[k]
OBVIOUS

\* What is read of a beginning of a short abridged frame.
LEMMA ShortHeader ==
    ASSUME NEW p \in Seq(Byte), NEW b \in Seq(Byte), Len(p) % Align = 0,
           Words(p) < Marker, StartsWith(b, AbridgedFrame(p))
    PROVE  /\ AbridgedFrame(p) = <<Words(p)>> \o p /\ <<Words(p)>> \in Seq(Byte)
           /\ AbridgedHeader(b) = IF Len(b) < 1 THEN NoHeader
                                  ELSE [header |-> 1, payload |-> Len(p)]
<1>1. Words(p) \in Nat /\ Words(p) * Align = Len(p)
  BY WordsType
<1>2. PICK w \in Nat : w = Words(p)
  BY <1>1
<1>3. w \in Byte /\ w # Marker
  <2>1. Marker \in Nat /\ Marker \in 0 .. (Base - 1) /\ Base \in Nat
    BY FramingAssumption, BytesAssumption DEF Byte
  <2>2. w \in Nat /\ w < Marker
    BY <1>2
  <2> QED
    BY <2>1, <2>2 DEF Byte
<1>4. AbridgedFrame(p) = <<w>> \o p
  BY <1>2 DEF AbridgedFrame
<1>5. CASE Len(b) < 1
  <2>1. b = <<>>
    BY <1>5
  <2> QED
    BY <1>2, <1>3, <1>4, <1>5, <2>1 DEF AbridgedHeader
<1>6. CASE Len(b) >= 1
  <2>1. b # <<>>
    BY <1>6
  <2>2. 1 \in 1 .. Len(<<w>> \o p) /\ (<<w>> \o p)[1] = w
    BY <1>3
  <2>3. b[1] = w
    BY <1>4, <1>6, <2>2 DEF StartsWith
  <2>4. AbridgedHeader(b) = [header |-> 1, payload |-> w * Align]
    BY <1>3, <2>1, <2>3 DEF AbridgedHeader
  <2> QED
    BY <1>1, <1>2, <1>3, <1>4, <1>6, <2>4
<1> QED
  BY <1>5, <1>6

\* The digits in a buffer that starts with them.
LEMMA DigitsInBuffer ==
    ASSUME NEW b \in Seq(Byte), NEW e \in Seq(Byte), NEW m \in Nat, NEW k \in Nat,
           NEW n \in Nat, n < Weight[k], m + k <= Len(e), m + k <= Len(b),
           StartsWith(b, e), \A i \in 1 .. k : e[m + i] = Digits(n, k)[i]
    PROVE  Number(SubSeq(b, m + 1, m + k)) = n
<1> DEFINE c == SubSeq(b, m + 1, m + k)
<1>1. c \in Seq(Byte) /\ Len(c) = k /\ \A i \in 1 .. k : c[i] = b[m + i]
  OBVIOUS
<1>2. ASSUME NEW i \in 1 .. k PROVE c[i] = Digits(n, k)[i]
  <2>1. m + i \in 1 .. Len(e) /\ m + i <= Len(b)
    OBVIOUS
  <2>2. b[m + i] = e[m + i]
    BY <2>1 DEF StartsWith
  <2> QED
    BY <1>1, <2>2
<1>3. Digits(n, k) \in Seq(Byte) /\ Len(Digits(n, k)) = k
  BY DigitsType
<1> HIDE DEF c
<1>4. c = Digits(n, k)
  BY <1>1, <1>2, <1>3
<1> QED
  BY <1>4, NumberOfDigits DEF c

LEMMA LongHeader ==
    ASSUME NEW p \in Seq(Byte), NEW b \in Seq(Byte), Len(p) % Align = 0,
           ~(Words(p) < Marker), Words(p) < Weight[MarkerBytes],
           StartsWith(b, AbridgedFrame(p))
    PROVE  \E h \in Seq(Byte) :
               /\ Len(h) = 1 + MarkerBytes /\ AbridgedFrame(p) = h \o p
               /\ AbridgedHeader(b) = IF Len(b) < Len(h) THEN NoHeader
                                      ELSE [header |-> Len(h), payload |-> Len(p)]
<1>1. Words(p) \in Nat /\ Words(p) * Align = Len(p)
  BY WordsType
<1>2. PICK w \in Nat : w = Words(p)
  BY <1>1
<1>3. Marker \in Byte /\ MarkerBytes \in Nat /\ MarkerBytes > 0 /\ w < Weight[MarkerBytes]
  BY <1>2, WeightOfConstants
<1>4. PICK d \in Seq(Byte) : d = Digits(w, MarkerBytes) /\ Len(d) = MarkerBytes
  BY <1>3, DigitsType
<1> DEFINE h == <<Marker>> \o d
<1>5. h \in Seq(Byte) /\ Len(h) = 1 + MarkerBytes /\ h[1] = Marker
      /\ \A i \in 1 .. MarkerBytes : h[1 + i] = d[i]
  BY <1>3, <1>4
<1>6. AbridgedFrame(p) = h \o p
  <2>1. AbridgedFrame(p) = <<Marker>> \o d \o p
    BY <1>2, <1>4 DEF AbridgedFrame
  <2> QED
    BY <2>1
<1> HIDE DEF h
<1>7. /\ h \o p \in Seq(Byte) /\ Len(h \o p) = Len(h) + Len(p)
      /\ \A i \in 1 .. Len(h) : (h \o p)[i] = h[i]
  <2>1. h \in Seq(Byte) /\ p \in Seq(Byte)
    BY <1>5
  <2> QED
    BY <2>1
<1>8. AbridgedHeader(b) = IF Len(b) < Len(h) THEN NoHeader
                          ELSE [header |-> Len(h), payload |-> Len(p)]
  <2>1. CASE b = <<>>
    <3>1. Len(b) = 0
      BY <2>1
    <3> QED
      BY <1>3, <1>5, <2>1, <3>1 DEF AbridgedHeader
  <2>2. CASE b # <<>>
    <3>1. Len(b) \in Nat /\ Len(b) >= 1
      BY <2>2
    <3>2. 1 \in 1 .. Len(h \o p) /\ (h \o p)[1] = Marker
      BY <1>3, <1>5, <1>7
    <3>3. b[1] = Marker
      BY <1>6, <3>1, <3>2 DEF StartsWith
    <3>4. CASE Len(b) < 1 + MarkerBytes
      BY <1>5, <2>2, <3>3, <3>4 DEF AbridgedHeader
    <3>5. CASE ~(Len(b) < 1 + MarkerBytes)
      <4>1. 1 + MarkerBytes <= Len(h \o p) /\ 1 + MarkerBytes <= Len(b)
        BY <1>3, <1>5, <1>7, <3>1, <3>5
      <4>2. \A i \in 1 .. MarkerBytes : (h \o p)[1 + i] = Digits(w, MarkerBytes)[i]
        <5> SUFFICES ASSUME NEW i \in 1 .. MarkerBytes
                     PROVE  (h \o p)[1 + i] = d[i]
          BY <1>4
        <5>1. 1 + i \in 1 .. Len(h)
          BY <1>3, <1>5
        <5> QED
          BY <1>5, <1>7, <5>1
      <4>3. StartsWith(b, h \o p)
        BY <1>6
      <4>4. Number(SubSeq(b, 1 + 1, 1 + MarkerBytes)) = w
        BY <1>3, <1>7, <4>1, <4>2, <4>3, DigitsInBuffer
      <4>5. 1 + 1 = 2
        OBVIOUS
      <4>6. AbridgedHeader(b) = [header |-> 1 + MarkerBytes, payload |-> w * Align]
        BY <2>2, <3>3, <3>5, <4>4, <4>5 DEF AbridgedHeader
      <4> QED
        BY <1>1, <1>2, <1>5, <3>5, <4>6
    <3> QED
      BY <3>4, <3>5
  <2> QED
    BY <2>1, <2>2
<1> QED
  BY <1>5, <1>6, <1>8

LEMMA IntermediateHeaderRead ==
    ASSUME NEW p \in Seq(Byte), NEW b \in Seq(Byte), Len(p) < HeaderSign,
           StartsWith(b, IntermediateFrame(p))
    PROVE  \E h \in Seq(Byte) :
               /\ Len(h) = HeaderBytes /\ IntermediateFrame(p) = h \o p
               /\ IntermediateHeader(b) = IF Len(b) < Len(h) THEN NoHeader
                                          ELSE [header |-> Len(h), payload |-> Len(p)]
<1>1. HeaderBytes \in Nat /\ Len(p) \in Nat /\ Len(p) < Weight[HeaderBytes]
  BY WeightOfConstants
<1>2. PICK h \in Seq(Byte) : h = Digits(Len(p), HeaderBytes) /\ Len(h) = HeaderBytes
  BY <1>1, DigitsType
<1>3. IntermediateFrame(p) = h \o p
  BY <1>2 DEF IntermediateFrame
<1>4. /\ h \o p \in Seq(Byte) /\ Len(h \o p) = Len(h) + Len(p)
      /\ \A i \in 1 .. Len(h) : (h \o p)[i] = h[i]
  <2>1. h \in Seq(Byte) /\ p \in Seq(Byte)
    BY <1>2
  <2> QED
    BY <2>1, ConcatIs, Zenon
<1>5. IntermediateHeader(b) = IF Len(b) < Len(h) THEN NoHeader
                              ELSE [header |-> Len(h), payload |-> Len(p)]
  <2>1. CASE Len(b) < HeaderBytes
    BY <1>2, <2>1 DEF IntermediateHeader
  <2>2. CASE ~(Len(b) < HeaderBytes)
    <3>1. 0 + HeaderBytes <= Len(h \o p) /\ 0 + HeaderBytes <= Len(b)
      BY <1>1, <1>2, <1>4, <2>2
    <3>2. \A i \in 1 .. HeaderBytes : (h \o p)[0 + i] = Digits(Len(p), HeaderBytes)[i]
      BY <1>1, <1>2, <1>4
    <3>3. StartsWith(b, h \o p)
      BY <1>3
    <3>4. Number(SubSeq(b, 0 + 1, 0 + HeaderBytes)) = Len(p)
      BY <1>1, <1>4, <3>1, <3>2, <3>3, DigitsInBuffer
    <3>5. 0 + 1 = 1 /\ 0 + HeaderBytes = HeaderBytes
      BY <1>1
    <3> QED
      BY <1>2, <2>2, <3>4, <3>5 DEF IntermediateHeader
  <2> QED
    BY <2>1, <2>2
<1> QED
  BY <1>2, <1>3, <1>5

\* However much of a frame a buffer starts with, its header is not there yet
\* or says how long the packet is.
LEMMA HeaderRead ==
    ASSUME NEW f \in Kinds, NEW p \in Seq(Byte), CanEncode(f, p),
           NEW b \in Seq(Byte), StartsWith(b, Encode(f, p))
    PROVE  \E h \in Seq(Byte) :
               /\ Len(h) > 0 /\ Encode(f, p) = h \o p
               /\ HeaderOf(f, b) = IF Len(b) < Len(h) THEN NoHeader
                                   ELSE [header |-> Len(h), payload |-> Len(p)]
<1>1. CASE f = "abridged"
  <2>1. Len(p) % Align = 0 /\ Words(p) < Weight[MarkerBytes]
    BY <1>1 DEF CanEncode
  <2>2. Encode(f, p) = AbridgedFrame(p) /\ HeaderOf(f, b) = AbridgedHeader(b)
    BY <1>1 DEF Encode, HeaderOf
  <2>3. StartsWith(b, AbridgedFrame(p))
    BY <2>2
  <2>4. CASE Words(p) < Marker
    <3>1. /\ AbridgedFrame(p) = <<Words(p)>> \o p /\ <<Words(p)>> \in Seq(Byte)
          /\ AbridgedHeader(b) = IF Len(b) < 1 THEN NoHeader
                                 ELSE [header |-> 1, payload |-> Len(p)]
      BY <2>1, <2>3, <2>4, ShortHeader
    <3>2. PICK h : h = <<Words(p)>>
      OBVIOUS
    <3>3. h \in Seq(Byte) /\ Len(h) = 1 /\ AbridgedFrame(p) = h \o p
      BY <3>1, <3>2
    <3>4. HeaderOf(f, b) = IF Len(b) < Len(h) THEN NoHeader
                           ELSE [header |-> Len(h), payload |-> Len(p)]
      BY <2>2, <3>1, <3>3
    <3>5. Len(h) > 0 /\ Encode(f, p) = h \o p
      BY <2>2, <3>3
    <3> QED
      BY <3>3, <3>4, <3>5, Zenon
  <2>5. CASE ~(Words(p) < Marker)
    <3>1. PICK h \in Seq(Byte) :
               /\ Len(h) = 1 + MarkerBytes /\ AbridgedFrame(p) = h \o p
               /\ AbridgedHeader(b) = IF Len(b) < Len(h) THEN NoHeader
                                      ELSE [header |-> Len(h), payload |-> Len(p)]
      BY <2>1, <2>3, <2>5, LongHeader
    <3>2. Len(h) > 0
      BY <3>1, FramingAssumption
    <3> QED
      BY <2>2, <3>1, <3>2
  <2> QED
    BY <2>4, <2>5
<1>2. CASE f = "intermediate"
  <2>1. Len(p) < HeaderSign
    BY <1>2 DEF CanEncode
  <2>2. Encode(f, p) = IntermediateFrame(p) /\ HeaderOf(f, b) = IntermediateHeader(b)
    BY <1>2 DEF Encode, HeaderOf
  <2>3. StartsWith(b, IntermediateFrame(p))
    BY <2>2
  <2>4. PICK h \in Seq(Byte) :
             /\ Len(h) = HeaderBytes /\ IntermediateFrame(p) = h \o p
             /\ IntermediateHeader(b) = IF Len(b) < Len(h) THEN NoHeader
                                        ELSE [header |-> Len(h), payload |-> Len(p)]
    BY <2>1, <2>3, IntermediateHeaderRead
  <2>5. Len(h) > 0
    BY <2>4, FramingAssumption
  <2> QED
    BY <2>2, <2>4, <2>5
<1> QED
  BY <1>1, <1>2 DEF Kinds

LEMMA EncodeType ==
    ASSUME NEW f \in Kinds, NEW p \in Seq(Byte), CanEncode(f, p)
    PROVE  Encode(f, p) \in Seq(Byte) /\ Len(Encode(f, p)) \in Nat
           /\ Len(Encode(f, p)) > 0
<1>1. <<>> \in Seq(Byte) /\ StartsWith(<<>>, Encode(f, p))
  BY DEF StartsWith
<1>2. PICK h \in Seq(Byte) : Len(h) > 0 /\ Encode(f, p) = h \o p
  BY <1>1, HeaderRead
<1>3. h \o p \in Seq(Byte) /\ Len(h \o p) = Len(h) + Len(p)
  BY <1>2, ConcatIs
<1> QED
  BY <1>2, <1>3

\* The next frame is recognized as soon as it is whole, and never taken for
\* another.
THEOREM FrameRead ==
    ASSUME NEW f \in Kinds, NEW p \in Seq(Byte), CanEncode(f, p),
           NEW b \in Seq(Byte), StartsWith(b, Encode(f, p))
    PROVE  /\ HasFrame(f, b) <=> Len(b) >= Len(Encode(f, p))
           /\ HasFrame(f, b) => /\ FirstPacket(f, b) = p
                                /\ AfterFrame(f, b)
                                      = SubSeq(b, Len(Encode(f, p)) + 1, Len(b))
           /\ ~DecodeRaises(f, b)
<1>1. PICK h \in Seq(Byte) :
           /\ Len(h) > 0 /\ Encode(f, p) = h \o p
           /\ HeaderOf(f, b) = IF Len(b) < Len(h) THEN NoHeader
                               ELSE [header |-> Len(h), payload |-> Len(p)]
  BY HeaderRead
<1>2. /\ h \o p \in Seq(Byte) /\ Len(h \o p) = Len(h) + Len(p)
      /\ \A k \in 1 .. Len(p) : (h \o p)[Len(h) + k] = p[k]
  BY <1>1, ConcatIs
<1>3. Len(h) \in Nat /\ Len(p) \in Nat /\ Len(b) \in Nat
  BY <1>1
<1>4. CASE Len(b) < Len(h)
  <2>1. HeaderOf(f, b).header = 0
    BY <1>1, <1>4 DEF NoHeader
  <2>2. ~HasFrame(f, b) /\ ~DecodeRaises(f, b)
    BY <2>1 DEF HasFrame, DecodeRaises
  <2>3. ~(Len(b) >= Len(Encode(f, p)))
    BY <1>1, <1>2, <1>3, <1>4
  <2> QED
    BY <2>2, <2>3
<1>5. CASE ~(Len(b) < Len(h))
  <2>1. HeaderOf(f, b).header = Len(h) /\ HeaderOf(f, b).payload = Len(p)
    BY <1>1, <1>5
  <2>2. HasFrame(f, b) <=> Len(b) >= Len(Encode(f, p))
    BY <1>1, <1>2, <2>1 DEF HasFrame
  <2>3. FirstPacket(f, b) = SubSeq(b, Len(h) + 1, Len(h) + Len(p))
    BY <2>1 DEF FirstPacket
  <2>4. AfterFrame(f, b) = SubSeq(b, Len(Encode(f, p)) + 1, Len(b))
    BY <1>1, <1>2, <2>1 DEF AfterFrame
  <2>5. ASSUME HasFrame(f, b) PROVE FirstPacket(f, b) = p
    <3>1. Len(b) >= Len(h) + Len(p)
      BY <1>1, <1>2, <2>2, <2>5
    <3>2. ASSUME NEW k \in 1 .. Len(p) PROVE b[Len(h) + k] = p[k]
      <4>1. Len(h) + k \in 1 .. Len(Encode(f, p)) /\ Len(h) + k <= Len(b)
        BY <1>1, <1>2, <1>3, <3>1
      <4>2. b[Len(h) + k] = Encode(f, p)[Len(h) + k]
        BY <4>1 DEF StartsWith
      <4> QED
        BY <1>1, <1>2, <4>2
    <3>3. SubSeq(b, Len(h) + 1, Len(h) + Len(p)) = p
      BY <1>3, <3>1, <3>2
    <3> QED
      BY <2>3, <3>3
  <2>6. ~DecodeRaises(f, b)
    <3>1. f = "intermediate" => Len(p) < HeaderSign /\ Len(p) % Align = 0
      BY DEF CanEncode
    <3> QED
      BY <1>3, <2>1, <3>1, FramingAssumption DEF DecodeRaises
  <2> QED
    BY <2>2, <2>4, <2>5, <2>6
<1> QED
  BY <1>4, <1>5

-----------------------------------------------------------------------------
(* Bytes that are a beginning of a stream of frames.                       *)

LEMMA Within ==
    ASSUME NEW x \in Nat, NEW y \in Nat, NEW z \in Nat, NEW l \in Nat,
           NEW k \in 1 .. l, y <= x, x + l <= z
    PROVE  x - y + k \in 1 .. (z - y)
OBVIOUS

\* The bytes after the first l.
LEMMA Drop ==
    ASSUME NEW S, NEW b \in Seq(S), NEW l \in 0 .. Len(b)
    PROVE  /\ SubSeq(b, l + 1, Len(b)) \in Seq(S)
           /\ Len(SubSeq(b, l + 1, Len(b))) = Len(b) - l
           /\ \A k \in 1 .. (Len(b) - l) : SubSeq(b, l + 1, Len(b))[k] = b[l + k]
<1>1. Len(b) \in Nat /\ l \in Nat /\ l <= Len(b)
  OBVIOUS
<1>2. SubSeq(b, l + 1, Len(b)) \in Seq(S)
  OBVIOUS
<1>3. Len(SubSeq(b, l + 1, Len(b))) = Len(b) - l
  BY <1>1
<1>4. ASSUME NEW k \in 1 .. (Len(b) - l)
      PROVE  SubSeq(b, l + 1, Len(b))[k] = b[l + k]
  <2>1. (l + 1) + k - 1 = l + k
    BY <1>1
  <2> QED
    BY <1>1, <2>1
<1> QED
  BY <1>2, <1>3, <1>4

LEMMA DropOfConcat ==
    ASSUME NEW S, NEW c \in Seq(S), NEW r \in Seq(S), NEW l \in 0 .. Len(c)
    PROVE  SubSeq(c \o r, l + 1, Len(c \o r)) = SubSeq(c, l + 1, Len(c)) \o r
<1> DEFINE b == c \o r  d == SubSeq(b, l + 1, Len(b))  e == SubSeq(c, l + 1, Len(c))
           h == e \o r
<1>1. /\ b \in Seq(S) /\ Len(b) = Len(c) + Len(r) /\ Len(c) \in Nat /\ Len(r) \in Nat
      /\ (\A k \in 1 .. Len(c) : b[k] = c[k])
      /\ (\A k \in 1 .. Len(r) : b[Len(c) + k] = r[k])
  OBVIOUS
<1> HIDE DEF b
<1>2. /\ e \in Seq(S) /\ Len(e) = Len(c) - l
      /\ \A k \in 1 .. (Len(c) - l) : e[k] = c[l + k]
  BY Drop
<1>3. l \in 0 .. Len(b)
  BY <1>1
<1>4. /\ d \in Seq(S) /\ Len(d) = Len(b) - l
      /\ \A k \in 1 .. (Len(b) - l) : d[k] = b[l + k]
  BY <1>1, <1>3, Drop
<1> HIDE DEF d, e
<1>5. /\ h \in Seq(S) /\ Len(h) = Len(e) + Len(r)
      /\ (\A k \in 1 .. Len(e) : h[k] = e[k])
      /\ (\A k \in 1 .. Len(r) : h[Len(e) + k] = r[k])
  <2>1. e \in Seq(S)
    BY <1>2
  <2> QED
    BY <2>1
<1> HIDE DEF h
<1>6. l \in Nat /\ l <= Len(c)
  BY <1>1
<1>7. Len(d) = Len(h)
  BY <1>1, <1>2, <1>4, <1>5, <1>6
<1>8. ASSUME NEW k \in 1 .. Len(d) PROVE d[k] = h[k]
  <2>0. d[k] = b[l + k] /\ k \in Nat /\ k >= 1 /\ k <= Len(c) + Len(r) - l
    BY <1>1, <1>4, <1>6
  <2>1. CASE k <= Len(c) - l
    <3>1. k \in 1 .. Len(e) /\ l + k \in 1 .. Len(c) /\ k \in 1 .. (Len(c) - l)
      BY <1>1, <1>2, <1>6, <2>0, <2>1
    <3>2. h[k] = e[k] /\ e[k] = c[l + k] /\ b[l + k] = c[l + k]
      BY <1>1, <1>2, <1>5, <3>1
    <3> QED
      BY <2>0, <3>2
  <2>2. CASE ~(k <= Len(c) - l)
    <3>1. PICK m : m = k - (Len(c) - l)
      OBVIOUS
    <3>2. m \in 1 .. Len(r) /\ Len(e) + m = k /\ Len(c) + m = l + k
      BY <1>1, <1>2, <1>6, <2>0, <2>2, <3>1
    <3>3. h[Len(e) + m] = r[m] /\ b[Len(c) + m] = r[m]
      BY <1>1, <1>5, <3>2
    <3> QED
      BY <2>0, <3>2, <3>3
  <2> QED
    BY <2>1, <2>2
<1>9. d = h
  BY <1>4, <1>5, <1>7, <1>8
<1> QED
  BY <1>9 DEF d, h, e, b

LEMMA PacketType ==
    ASSUME NEW f \in Kinds, NEW ps, Sendable(f, ps), NEW i \in 1 .. Len(ps)
    PROVE  /\ ps[i] \in Packets /\ ps[i] \in Seq(Byte) /\ CanEncode(f, ps[i])
           /\ Encode(f, ps[i]) \in Seq(Byte) /\ Len(Encode(f, ps[i])) \in Nat
           /\ Len(Encode(f, ps[i])) > 0
<1>1. ps \in Seq(Packets) /\ i \in DOMAIN ps
  BY DEF Sendable
<1>2. ps[i] \in Packets
  BY <1>1
<1>3. ps[i] \in Seq(Byte)
  BY <1>2, TransportAssumption
<1>4. CanEncode(f, ps[i])
  BY <1>1 DEF Sendable
<1> QED
  BY <1>2, <1>3, <1>4, EncodeType

LEMMA CarriesNothing ==
    ASSUME NEW f, NEW w
    PROVE  Carries(<<>>, f, <<>>, 0, w)
<1> DEFINE at == [i \in 0 .. 0 |-> 0]
<1>1. Ends(at, f, <<>>)
  BY DEF Ends
<1>2. Begins(<<>>, at, f, <<>>, 0)
  BY DEF Begins
<1>3. Len(<<>>) = at[Len(<<>>)] - at[0]
  OBVIOUS
<1> QED
  BY <1>1, <1>2, <1>3 DEF Carries

LEMMA CarriesPrefix ==
    ASSUME NEW f, NEW ps, NEW g \in Nat, NEW w, NEW b \in Seq(Byte),
           Carries(b, f, ps, g, w), NEW n \in 0 .. Len(b), ps \in Seq(Packets),
           g <= Len(ps)
    PROVE  Carries(SubSeq(b, 1, n), f, ps, g, TRUE)
<1>1. PICK at : Ends(at, f, ps) /\ Begins(b, at, f, ps, g)
  BY DEF Carries
<1> DEFINE c == SubSeq(b, 1, n)
<1>2. c \in Seq(Byte) /\ Len(c) = n /\ \A k \in 1 .. n : c[k] = b[k]
  OBVIOUS
<1>3. \A i \in 0 .. Len(ps) : at[i] \in Nat
  BY <1>1 DEF Ends
<1>4. Len(ps) \in Nat /\ Len(ps) \in 0 .. Len(ps) /\ g \in 0 .. Len(ps)
  OBVIOUS
<1>5. at[Len(ps)] \in Nat /\ at[g] \in Nat
  BY <1>3, <1>4
<1> HIDE DEF c
<1>6. Len(c) <= at[Len(ps)] - at[g]
  BY <1>1, <1>2, <1>5 DEF Begins
<1>7. ASSUME NEW i \in 1 .. Len(ps), i > g, NEW k \in 1 .. Len(Encode(f, ps[i])),
             at[i - 1] - at[g] + k <= Len(c)
      PROVE  c[at[i - 1] - at[g] + k] = Encode(f, ps[i])[k]
  <2>1. i - 1 \in 0 .. Len(ps) /\ g \in 0 .. Len(ps) /\ g <= i - 1
    BY <1>4, <1>7
  <2>2. at[g] <= at[i - 1] /\ at[g] \in Nat /\ at[i - 1] \in Nat
    BY <1>1, <1>3, <2>1 DEF Ends
  <2>3. PICK m : m = at[i - 1] - at[g] + k
    OBVIOUS
  <2>4. m \in 1 .. n /\ m <= Len(b)
    BY <1>2, <1>7, <2>2, <2>3
  <2>5. b[m] = Encode(f, ps[i])[k]
    BY <1>1, <1>7, <2>3, <2>4 DEF Begins
  <2> QED
    BY <1>2, <2>3, <2>4, <2>5
<1>8. Begins(c, at, f, ps, g)
  BY <1>6, <1>7 DEF Begins
<1> QED
  BY <1>1, <1>8 DEF Carries, c

\* A packet more is sent.
LEMMA CarriesAppend ==
    ASSUME NEW f \in Kinds, NEW ps, Sendable(f, ps), NEW g \in 0 .. Len(ps),
           NEW p \in Packets, CanEncode(f, p), NEW b \in Seq(Byte),
           Carries(b, f, ps, g, FALSE)
    PROVE  /\ Sendable(f, Append(ps, p))
           /\ Carries(b \o Encode(f, p), f, Append(ps, p), g, FALSE)
<1>1. PICK at : Ends(at, f, ps) /\ Begins(b, at, f, ps, g)
                /\ Len(b) = at[Len(ps)] - at[g]
  BY DEF Carries
<1> DEFINE n == Len(ps)  qs == Append(ps, p)  e == Encode(f, p)  c == b \o e
           to == [i \in 0 .. (n + 1) |-> IF i <= n THEN at[i] ELSE at[n] + Len(e)]
<1>2. ps \in Seq(Packets) /\ n \in Nat
  BY DEF Sendable
<1>3. qs \in Seq(Packets) /\ Len(qs) = n + 1 /\ qs[n + 1] = p
      /\ \A i \in 1 .. n : qs[i] = ps[i]
  BY <1>2
<1>4. p \in Seq(Byte)
  BY TransportAssumption
<1>5. e \in Seq(Byte) /\ Len(e) \in Nat /\ Len(e) > 0
  BY <1>4, EncodeType
<1> HIDE DEF e
<1>6. c \in Seq(Byte) /\ Len(c) = Len(b) + Len(e) /\ Len(b) \in Nat
      /\ (\A k \in 1 .. Len(b) : c[k] = b[k])
      /\ (\A k \in 1 .. Len(e) : c[Len(b) + k] = e[k])
  BY <1>5
<1>7. at \in [0 .. n -> Nat]
  BY <1>1 DEF Ends
<1>8. n \in 0 .. n /\ at[n] \in Nat /\ at[g] \in Nat /\ g \in Nat
  BY <1>2, <1>7
<1>9. (\A i \in 0 .. n : to[i] = at[i]) /\ to[n + 1] = at[n] + Len(e)
  BY <1>2
<1>10. to \in [0 .. (n + 1) -> Nat]
  BY <1>2, <1>5, <1>7, <1>8
<1> HIDE DEF to, c, qs
<1>11. Sendable(f, qs)
  <2>1. \A i \in 1 .. n : CanEncode(f, ps[i])
    BY <1>2 DEF Sendable
  <2>2. ASSUME NEW i \in 1 .. (n + 1) PROVE CanEncode(f, qs[i])
    <3>1. CASE i = n + 1
      BY <1>3, <3>1
    <3>2. CASE i # n + 1
      <4>1. i \in 1 .. n
        BY <1>2, <3>2
      <4> QED
        BY <1>3, <2>1, <4>1
    <3> QED
      BY <3>1, <3>2
  <2>3. DOMAIN qs = 1 .. (n + 1)
    BY <1>3
  <2> QED
    BY <1>3, <2>2, <2>3 DEF Sendable
<1>12. Ends(to, f, qs)
  <2>1. to[0] = 0
    BY <1>1, <1>2, <1>9 DEF Ends
  <2>2. ASSUME NEW i \in 1 .. (n + 1)
        PROVE  to[i] = to[i - 1] + Len(Encode(f, qs[i]))
    <3>1. CASE i = n + 1
      <4>1. i - 1 = n
        BY <1>2, <3>1
      <4> QED
        BY <1>3, <1>8, <1>9, <3>1, <4>1 DEF e
    <3>2. CASE i # n + 1
      <4>1. i \in 1 .. n /\ i \in 0 .. n /\ i - 1 \in 0 .. n
        BY <1>2, <3>2
      <4>2. at[i] = at[i - 1] + Len(Encode(f, ps[i]))
        BY <1>1, <4>1 DEF Ends
      <4> QED
        BY <1>3, <1>9, <4>1, <4>2
    <3> QED
      BY <3>1, <3>2
  <2>3. ASSUME NEW i \in 0 .. (n + 1), NEW j \in 0 .. (n + 1), i <= j
        PROVE  to[i] <= to[j]
    <3>1. \A k, l \in 0 .. n : k <= l => at[k] <= at[l]
      BY <1>1 DEF Ends
    <3>2. CASE j = n + 1
      <4>1. CASE i = n + 1
        BY <1>5, <1>8, <1>9, <3>2, <4>1
      <4>2. CASE i # n + 1
        <5>1. i \in 0 .. n /\ i <= n
          BY <1>2, <4>2
        <5>2. at[i] <= at[n] /\ at[i] \in Nat
          BY <1>7, <1>8, <3>1, <5>1
        <5> QED
          BY <1>5, <1>8, <1>9, <3>2, <5>1, <5>2
      <4> QED
        BY <4>1, <4>2
    <3>3. CASE j # n + 1
      <4>1. j \in 0 .. n /\ i \in 0 .. n
        BY <1>2, <2>3, <3>3
      <4> QED
        BY <1>9, <2>3, <3>1, <4>1
    <3> QED
      BY <3>2, <3>3
  <2> QED
    BY <1>3, <1>10, <2>1, <2>2, <2>3 DEF Ends
<1>13. Len(c) = to[Len(qs)] - to[g]
  BY <1>1, <1>3, <1>5, <1>6, <1>8, <1>9
<1>14. ASSUME NEW i \in 1 .. (n + 1), i > g, NEW k \in 1 .. Len(Encode(f, qs[i])),
              to[i - 1] - to[g] + k <= Len(c)
       PROVE  c[to[i - 1] - to[g] + k] = Encode(f, qs[i])[k]
  <2>1. CASE i = n + 1
    <3>1. i - 1 = n /\ qs[i] = p
      BY <1>2, <1>3, <2>1
    <3>2. to[i - 1] - to[g] = Len(b)
      BY <1>1, <1>8, <1>9, <3>1
    <3>3. k \in 1 .. Len(e)
      BY <3>1 DEF e
    <3> QED
      BY <1>6, <3>1, <3>2, <3>3 DEF e
  <2>2. CASE i # n + 1
    <3>1. i \in 1 .. n /\ i \in 0 .. n /\ i - 1 \in 0 .. n /\ g <= i - 1
      BY <1>2, <1>8, <1>14, <2>2
    <3>2. qs[i] = ps[i] /\ to[i - 1] = at[i - 1] /\ to[g] = at[g]
      BY <1>3, <1>9, <3>1
    <3>3. at[g] <= at[i - 1] /\ at[i] <= at[n] /\ at[i - 1] \in Nat /\ at[i] \in Nat
      <4>1. \A u, v \in 0 .. n : u <= v => at[u] <= at[v]
        BY <1>1 DEF Ends
      <4>2. i <= n /\ g \in 0 .. n
        BY <3>1
      <4> QED
        BY <1>7, <1>8, <3>1, <4>1, <4>2
    <3>4. at[i] = at[i - 1] + Len(Encode(f, ps[i])) /\ Len(Encode(f, ps[i])) \in Nat
      BY <1>1, <3>1, PacketType DEF Ends
    <3>5. PICK m : m = at[i - 1] - at[g] + k
      OBVIOUS
    <3>6. m \in 1 .. Len(b) /\ k \in 1 .. Len(Encode(f, ps[i]))
      <4>1. PICK l \in Nat : l = Len(Encode(f, ps[i]))
        BY <3>4
      <4>2. k \in 1 .. l /\ at[i] = at[i - 1] + l
        BY <3>2, <3>4, <4>1
      <4>3. Len(b) = at[n] - at[g] /\ Len(b) \in Nat
        BY <1>1, <1>6
      <4>4. m \in 1 .. Len(b)
        <5>1. at[i - 1] + l <= at[n]
          BY <3>3, <4>2
        <5>2. at[i - 1] - at[g] + k \in 1 .. (at[n] - at[g])
          BY <1>8, <3>3, <4>2, <5>1, Within
        <5> QED
          BY <3>5, <4>3, <5>2
      <4> QED
        BY <4>1, <4>2, <4>4
    <3>7. b[m] = Encode(f, ps[i])[k]
      BY <1>1, <1>14, <3>1, <3>5, <3>6 DEF Begins
    <3> QED
      BY <1>6, <3>2, <3>5, <3>6, <3>7
  <2> QED
    BY <2>1, <2>2
<1>15. Begins(c, to, f, qs, g)
  <2>1. Len(c) <= to[Len(qs)] - to[g]
    BY <1>6, <1>5, <1>13
  <2> QED
    BY <1>3, <1>14, <2>1 DEF Begins
<1>16. Carries(c, f, qs, g, FALSE)
  BY <1>12, <1>13, <1>15 DEF Carries
<1> QED
  BY <1>11, <1>16 DEF c, qs, e

\* When everything has been taken there are no bytes.
LEMMA CarriesNone ==
    ASSUME NEW f \in Kinds, NEW ps, NEW w, Sendable(f, ps), NEW b \in Seq(Byte),
           Carries(b, f, ps, Len(ps), w)
    PROVE  b = <<>>
<1>1. PICK at : Ends(at, f, ps) /\ Begins(b, at, f, ps, Len(ps))
  BY DEF Carries
<1>2. Len(ps) \in 0 .. Len(ps)
  BY DEF Sendable
<1>3. at[Len(ps)] \in Nat
  BY <1>1, <1>2 DEF Ends
<1>4. Len(b) <= 0
  BY <1>1, <1>3 DEF Begins
<1> QED
  BY <1>4

\* Otherwise they start with the next frame.
LEMMA CarriesFirst ==
    ASSUME NEW f \in Kinds, NEW ps, Sendable(f, ps), NEW g \in 0 .. (Len(ps) - 1),
           NEW w, NEW b \in Seq(Byte), Carries(b, f, ps, g, w)
    PROVE  /\ StartsWith(b, Encode(f, ps[g + 1]))
           /\ w = FALSE => Len(b) >= Len(Encode(f, ps[g + 1]))
<1>1. PICK at : /\ Ends(at, f, ps) /\ Begins(b, at, f, ps, g)
                /\ w = FALSE => Len(b) = at[Len(ps)] - at[g]
  BY DEF Carries
<1>2. Len(ps) \in Nat /\ g + 1 \in 1 .. Len(ps) /\ (g + 1) - 1 = g /\ g \in 0 .. Len(ps)
      /\ g + 1 \in 0 .. Len(ps) /\ g + 1 > g /\ Len(ps) \in 0 .. Len(ps)
  BY DEF Sendable
<1>3. at[g] \in Nat /\ at[g + 1] \in Nat /\ at[Len(ps)] \in Nat
  BY <1>1, <1>2 DEF Ends
<1>4. PICK l \in Nat : l = Len(Encode(f, ps[g + 1]))
  BY <1>2, PacketType
<1>5. at[g + 1] = at[g] + l
  BY <1>1, <1>2, <1>4 DEF Ends
<1>6. at[g + 1] <= at[Len(ps)]
  BY <1>1, <1>2 DEF Ends
<1>7. w = FALSE => Len(b) >= Len(Encode(f, ps[g + 1]))
  BY <1>1, <1>3, <1>4, <1>5, <1>6
<1>8. ASSUME NEW k \in 1 .. Len(Encode(f, ps[g + 1])), k <= Len(b)
      PROVE  b[k] = Encode(f, ps[g + 1])[k]
  <2>1. at[(g + 1) - 1] - at[g] + k = k
    BY <1>2, <1>3
  <2>2. at[(g + 1) - 1] - at[g] + k <= Len(b)
    BY <1>8, <2>1
  <2>3. b[at[(g + 1) - 1] - at[g] + k] = Encode(f, ps[g + 1])[k]
    BY <1>1, <1>2, <2>2 DEF Begins
  <2> QED
    BY <2>1, <2>3
<1> QED
  BY <1>7, <1>8 DEF StartsWith

\* What is left after the next frame starts with the one after it.
LEMMA CarriesNext ==
    ASSUME NEW f \in Kinds, NEW ps, Sendable(f, ps), NEW g \in 0 .. (Len(ps) - 1),
           NEW w, NEW b \in Seq(Byte), Carries(b, f, ps, g, w), NEW l \in Nat,
           l = Len(Encode(f, ps[g + 1])), l <= Len(b)
    PROVE  Carries(SubSeq(b, l + 1, Len(b)), f, ps, g + 1, w)
<1>1. PICK at : /\ Ends(at, f, ps) /\ Begins(b, at, f, ps, g)
                /\ w = FALSE => Len(b) = at[Len(ps)] - at[g]
  BY DEF Carries
<1>2. Len(ps) \in Nat /\ g + 1 \in 1 .. Len(ps) /\ (g + 1) - 1 = g /\ g \in 0 .. Len(ps)
      /\ g + 1 \in 0 .. Len(ps) /\ Len(ps) \in 0 .. Len(ps)
  BY DEF Sendable
<1>3. at[g] \in Nat /\ at[g + 1] \in Nat /\ at[Len(ps)] \in Nat
  BY <1>1, <1>2 DEF Ends
<1>4. at[g + 1] = at[g] + l
  BY <1>1, <1>2 DEF Ends
<1> DEFINE c == SubSeq(b, l + 1, Len(b))
<1>5. c \in Seq(Byte) /\ Len(c) = Len(b) - l /\ Len(b) \in Nat
      /\ \A k \in 1 .. (Len(b) - l) : c[k] = b[l + k]
  <2>1. l \in 0 .. Len(b) /\ Len(b) \in Nat
    OBVIOUS
  <2> QED
    BY <2>1, Drop
<1> HIDE DEF c
<1>6. Len(c) <= at[Len(ps)] - at[g + 1]
  <2>1. Len(b) <= at[Len(ps)] - at[g]
    BY <1>1 DEF Begins
  <2> QED
    BY <1>3, <1>4, <1>5, <2>1
<1>7. w = FALSE => Len(c) = at[Len(ps)] - at[g + 1]
  <2> SUFFICES ASSUME w = FALSE PROVE Len(c) = at[Len(ps)] - at[g + 1]
    OBVIOUS
  <2>1. Len(b) = at[Len(ps)] - at[g]
    BY <1>1
  <2> QED
    BY <1>3, <1>4, <1>5, <2>1
<1>8. ASSUME NEW i \in 1 .. Len(ps), i > g + 1, NEW k \in 1 .. Len(Encode(f, ps[i])),
             at[i - 1] - at[g + 1] + k <= Len(c)
      PROVE  c[at[i - 1] - at[g + 1] + k] = Encode(f, ps[i])[k]
  <2>1. i - 1 \in 0 .. Len(ps) /\ g + 1 <= i - 1 /\ i > g
    BY <1>2, <1>8
  <2>2. \A u, v \in 0 .. Len(ps) : u <= v => at[u] <= at[v]
    BY <1>1 DEF Ends
  <2>3. at[i - 1] \in Nat
    BY <1>1, <2>1 DEF Ends
  <2>4. at[g + 1] <= at[i - 1]
    BY <1>2, <2>1, <2>2
  <2>5. PICK m : m = at[i - 1] - at[g + 1] + k
    OBVIOUS
  <2>6. m \in 1 .. (Len(b) - l) /\ l + m = at[i - 1] - at[g] + k
    <3>1. Len(Encode(f, ps[i])) \in Nat
      BY PacketType
    <3>2. k \in Nat /\ k >= 1
      BY <3>1
    <3>3. PICK x \in Nat, y \in Nat : x = at[i - 1] /\ y = at[g]
      BY <1>3, <2>3
    <3>4. m = x - (y + l) + k /\ m <= Len(b) - l /\ y + l <= x
      BY <1>4, <1>5, <1>8, <2>4, <2>5, <3>3
    <3>5. m \in 1 .. (Len(b) - l) /\ l + m = x - y + k
      BY <1>5, <3>2, <3>4
    <3> QED
      BY <3>3, <3>5
  <2>7. at[i - 1] - at[g] + k <= Len(b)
    BY <1>5, <2>6
  <2>8. b[at[i - 1] - at[g] + k] = Encode(f, ps[i])[k]
    BY <1>1, <2>1, <2>7 DEF Begins
  <2> QED
    BY <1>5, <2>5, <2>6, <2>8
<1>9. Begins(c, at, f, ps, g + 1)
  BY <1>6, <1>8 DEF Begins
<1> QED
  BY <1>1, <1>7, <1>9 DEF Carries, c

\* What a buffer holds, when more bytes may follow it: the next packet as soon
\* as it is whole, and nothing only if everything has been taken.
LEMMA BufferRead ==
    ASSUME NEW f \in Kinds, NEW ps, Sendable(f, ps), NEW g \in 0 .. Len(ps),
           NEW w, NEW c \in Seq(Byte), NEW r \in Seq(Byte),
           Carries(c \o r, f, ps, g, w)
    PROVE  /\ HasFrame(f, c) =>
                  /\ g \in 0 .. (Len(ps) - 1) /\ FirstPacket(f, c) = ps[g + 1]
                  /\ AfterFrame(f, c) \in Seq(Byte)
                  /\ Carries(AfterFrame(f, c) \o r, f, ps, g + 1, w)
           /\ ~DecodeRaises(f, c)
           /\ (w = FALSE /\ r = <<>> /\ ~HasFrame(f, c)) => g = Len(ps)
<1> DEFINE b == c \o r
<1>1. /\ b \in Seq(Byte) /\ Len(b) = Len(c) + Len(r)
      /\ Len(c) \in Nat /\ Len(r) \in Nat /\ Len(ps) \in Nat
      /\ \A k \in 1 .. Len(c) : b[k] = c[k]
  BY DEF Sendable
<1>2. CASE g = Len(ps)
  <2>1. b = <<>>
    BY <1>1, <1>2, CarriesNone
  <2>2. c = <<>>
    <3>1. Len(b) = 0
      BY <2>1
    <3> HIDE DEF b
    <3>2. Len(c) = 0
      BY <1>1, <3>1
    <3> QED
      BY <3>2
  <2>3. HeaderOf(f, c) = NoHeader
    <3>1. Len(c) < HeaderBytes
      BY <2>2, FramingAssumption
    <3> QED
      BY <2>2, <3>1 DEF HeaderOf, AbridgedHeader, IntermediateHeader
  <2> QED
    BY <1>2, <2>3 DEF HasFrame, DecodeRaises, NoHeader
<1>3. CASE g # Len(ps)
  <2>1. g \in 0 .. (Len(ps) - 1) /\ g + 1 \in 1 .. Len(ps)
    BY <1>1, <1>3
  <2>2. /\ ps[g + 1] \in Seq(Byte) /\ CanEncode(f, ps[g + 1])
        /\ Encode(f, ps[g + 1]) \in Seq(Byte)
    BY <2>1, PacketType
  <2>3. PICK l \in Nat : l = Len(Encode(f, ps[g + 1]))
    BY <2>2
  <2>4. StartsWith(b, Encode(f, ps[g + 1])) /\ (w = FALSE => Len(b) >= l)
    BY <1>1, <2>1, <2>3, CarriesFirst
  <2> HIDE DEF b
  <2>5. StartsWith(c, Encode(f, ps[g + 1]))
    BY <1>1, <2>4 DEF StartsWith
  <2>6. /\ HasFrame(f, c) <=> Len(c) >= l
        /\ HasFrame(f, c) => /\ FirstPacket(f, c) = ps[g + 1]
                             /\ AfterFrame(f, c) = SubSeq(c, l + 1, Len(c))
        /\ ~DecodeRaises(f, c)
    BY <2>2, <2>3, <2>5, FrameRead
  <2>7. ASSUME HasFrame(f, c)
        PROVE  /\ AfterFrame(f, c) \in Seq(Byte)
               /\ Carries(AfterFrame(f, c) \o r, f, ps, g + 1, w)
    <3>1. l <= Len(c) /\ AfterFrame(f, c) = SubSeq(c, l + 1, Len(c))
      BY <1>1, <2>6, <2>7
    <3>2. SubSeq(c, l + 1, Len(c)) \in Seq(Byte)
      OBVIOUS
    <3>3. SubSeq(b, l + 1, Len(b)) = SubSeq(c, l + 1, Len(c)) \o r
      <4>1. l \in 0 .. Len(c)
        BY <1>1, <3>1
      <4> QED
        BY <4>1, DropOfConcat DEF b
    <3>4. l <= Len(b)
      BY <1>1, <3>1
    <3>5. Carries(b, f, ps, g, w)
      BY DEF b
    <3>6. Carries(SubSeq(b, l + 1, Len(b)), f, ps, g + 1, w)
      BY <1>1, <2>1, <2>3, <3>4, <3>5, CarriesNext
    <3> QED
      BY <3>1, <3>2, <3>3, <3>6
  <2>8. (w = FALSE /\ r = <<>>) => HasFrame(f, c)
    <3>1. r = <<>> => Len(r) = 0
      OBVIOUS
    <3> QED
      BY <1>1, <2>4, <2>6, <3>1
  <2> QED
    BY <2>1, <2>6, <2>7, <2>8
<1> QED
  BY <1>2, <1>3

LEMMA Rejoin ==
    ASSUME NEW a \in Seq(Byte), NEW b \in Seq(Byte), NEW n \in 0 .. Len(b)
    PROVE  /\ SubSeq(b, 1, n) \in Seq(Byte) /\ SubSeq(b, n + 1, Len(b)) \in Seq(Byte)
           /\ a \o SubSeq(b, 1, n) \in Seq(Byte)
           /\ (a \o SubSeq(b, 1, n)) \o SubSeq(b, n + 1, Len(b)) = a \o b
<1> DEFINE c == SubSeq(b, 1, n)  d == SubSeq(b, n + 1, Len(b))
<1>1. c \in Seq(Byte) /\ Len(c) = n /\ \A k \in 1 .. n : c[k] = b[k]
  OBVIOUS
<1>2. d \in Seq(Byte) /\ Len(d) = Len(b) - n
      /\ \A k \in 1 .. (Len(b) - n) : d[k] = b[n + k]
  BY Drop
<1> HIDE DEF c, d
<1>3. c \o d = b
  <2>1. c \o d \in Seq(Byte) /\ Len(c \o d) = Len(b) /\ Len(b) \in Nat
    <3>1. c \in Seq(Byte) /\ d \in Seq(Byte)
      BY <1>1, <1>2
    <3>2. c \o d \in Seq(Byte) /\ Len(c \o d) = Len(c) + Len(d)
      BY <3>1
    <3>3. Len(b) \in Nat /\ n \in Nat
      OBVIOUS
    <3> QED
      BY <1>1, <1>2, <3>2, <3>3
  <2>2. ASSUME NEW k \in 1 .. Len(b) PROVE (c \o d)[k] = b[k]
    <3>1. CASE k <= n
      BY <1>1, <1>2, <3>1
    <3>2. CASE ~(k <= n)
      <4>1. k - n \in 1 .. (Len(b) - n) /\ n + (k - n) = k /\ k \in 1 .. (n + Len(d))
        BY <1>2, <2>1, <3>2
      <4>2. (c \o d)[k] = d[k - n]
        BY <1>1, <1>2, <3>2, <4>1
      <4> QED
        BY <1>2, <4>1, <4>2
    <3> QED
      BY <3>1, <3>2
  <2> HIDE DEF c
  <2>3. PICK e \in Seq(Byte) : e = c \o d
    BY <2>1
  <2>4. Len(e) = Len(b) /\ \A k \in 1 .. Len(b) : e[k] = b[k]
    BY <2>1, <2>2, <2>3
  <2>5. e = b
    BY <2>4
  <2> QED
    BY <2>3, <2>5
<1>4. c \in Seq(Byte) /\ d \in Seq(Byte)
  BY <1>1, <1>2
<1>5. (a \o c) \o d = a \o (c \o d) /\ a \o c \in Seq(Byte)
  BY <1>4
<1>6. (a \o c) \o d = a \o b
  BY <1>3, <1>5
<1> QED
  BY <1>4, <1>5, <1>6 DEF c, d

LEMMA CutShort ==
    ASSUME NEW S, NEW a \in Seq(S), NEW b \in Seq(S), NEW n \in 0 .. Len(b)
    PROVE  a \o SubSeq(b, 1, n) = SubSeq(a \o b, 1, Len(a) + n)
           /\ Len(a) + n \in 0 .. Len(a \o b)
OBVIOUS

LEMMA Regroup ==
    ASSUME NEW S, NEW a \in Seq(S), NEW b \in Seq(S), NEW c \in Seq(S)
    PROVE  a \o (b \o c) = (a \o b) \o c
OBVIOUS

-----------------------------------------------------------------------------
(* The invariant.                                                          *)

LEMMA ReceivedMore ==
    ASSUME NEW f \in Kinds, NEW ps, NEW qs, Sendable(f, qs), Received(ps, qs),
           NEW g, g = Len(ps), g \in 0 .. (Len(qs) - 1)
    PROVE  Received(Append(ps, qs[g + 1]), qs) /\ Len(Append(ps, qs[g + 1])) = g + 1
<1>1. ps \in Seq(Packets) /\ Len(qs) \in Nat /\ g + 1 \in 1 .. Len(qs)
      /\ \A i \in 1 .. Len(ps) : ps[i] = qs[i]
  BY DEF Received, Sendable
<1>2. qs[g + 1] \in Packets
  BY <1>1, PacketType
<1>3. PICK p \in Packets : p = qs[g + 1]
  BY <1>2
<1> DEFINE rs == Append(ps, p)
<1>4. rs \in Seq(Packets) /\ Len(rs) = g + 1 /\ rs[g + 1] = p
      /\ \A i \in 1 .. g : rs[i] = ps[i]
  BY <1>1
<1> HIDE DEF rs
<1>5. ASSUME NEW i \in 1 .. (g + 1) PROVE rs[i] = qs[i]
  <2>1. CASE i = g + 1
    BY <1>3, <1>4, <2>1
  <2>2. CASE i # g + 1
    <3>1. i \in 1 .. g
      BY <2>2
    <3> QED
      BY <1>1, <1>4, <3>1
  <2> QED
    BY <2>1, <2>2
<1>6. DOMAIN rs = 1 .. (g + 1) /\ Len(rs) <= Len(qs)
  BY <1>1, <1>4
<1>7. Received(rs, qs)
  BY <1>4, <1>5, <1>6 DEF Received
<1> QED
  BY <1>3, <1>4, <1>7 DEF rs

LEMMA ReceivedOfMore ==
    ASSUME NEW f, NEW ps, NEW qs, Sendable(f, qs), Received(ps, qs), NEW p \in Packets
    PROVE  Received(ps, Append(qs, p))
<1>1. /\ qs \in Seq(Packets) /\ ps \in Seq(Packets) /\ Len(ps) <= Len(qs)
      /\ \A i \in 1 .. Len(ps) : ps[i] = qs[i]
  BY DEF Received, Sendable
<1>2. /\ Len(Append(qs, p)) = Len(qs) + 1
      /\ \A i \in 1 .. Len(qs) : Append(qs, p)[i] = qs[i]
  BY <1>1
<1>3. ASSUME NEW i \in 1 .. Len(ps) PROVE ps[i] = Append(qs, p)[i]
  <2>1. i \in 1 .. Len(qs)
    BY <1>1
  <2> QED
    BY <1>1, <1>2, <2>1
<1>4. Len(ps) <= Len(Append(qs, p)) /\ DOMAIN ps = 1 .. Len(ps)
  BY <1>1, <1>2
<1> QED
  BY <1>1, <1>3, <1>4 DEF Received

LEMMA ReceivedLen ==
    ASSUME NEW f, NEW ps, NEW qs, Sendable(f, qs), Received(ps, qs)
    PROVE  Len(ps) \in 0 .. Len(qs)
BY DEF Received, Sendable

LEMMA InitHolds == Init => IInv
<1> SUFFICES ASSUME Init PROVE IInv
  OBVIOUS
<1>1. <<>> \in Seq(Byte) /\ <<>> \in Seq(Packets)
  OBVIOUS
<1>2. Sendable(framing, <<>>) /\ Received(<<>>, <<>>)
  BY <1>1 DEF Sendable, Received
<1> QED
  BY <1>1, <1>2 DEF Init, IInv, Common, Inward, Outward

\* What recv() does with bytes c when r are still in the socket.
LEMMA TakeFrameHolds ==
    ASSUME Common, Inward, state # "closed", NEW c \in Seq(Byte), NEW r \in Seq(Byte),
           c \o r = rxBuf \o toClient, TakeFrame(c), toClient' = r,
           UNCHANGED <<connVars, state, eof, sent>>
    PROVE  /\ Inward'
           /\ \/ got' = got
              \/ Len(got) < Len(sent) /\ got' = Append(got, sent[Len(got) + 1])
<1>1. framing \in Kinds
  BY TransportAssumption DEF Common
<1>2. Sendable(framing, sent) /\ Received(got, sent) /\ Len(got) \in 0 .. Len(sent)
      /\ Len(sent) \in Nat
  <2>1. Sendable(framing, sent) /\ Received(got, sent)
    BY DEF Inward
  <2>2. Len(sent) \in Nat
    BY <2>1 DEF Sendable
  <2> QED
    BY <2>1, <2>2, ReceivedLen
<1>3. Carries(c \o r, framing, sent, Len(got), eof)
  BY DEF Inward
<1>4. HasFrame(framing, c) =>
          /\ Len(got) \in 0 .. (Len(sent) - 1)
          /\ FirstPacket(framing, c) = sent[Len(got) + 1]
          /\ AfterFrame(framing, c) \in Seq(Byte)
          /\ Carries(AfterFrame(framing, c) \o r, framing, sent, Len(got) + 1, eof)
  <2>1. PICK f, ps, g, w : f = framing /\ ps = sent /\ g = Len(got) /\ w = eof
    OBVIOUS
  <2>2. f \in Kinds /\ Sendable(f, ps) /\ g \in 0 .. Len(ps)
    BY <1>1, <1>2, <2>1
  <2>3. Carries(c \o r, f, ps, g, w)
    BY <1>3, <2>1
  <2>4. HasFrame(f, c) =>
          /\ g \in 0 .. (Len(ps) - 1) /\ FirstPacket(f, c) = ps[g + 1]
          /\ AfterFrame(f, c) \in Seq(Byte)
          /\ Carries(AfterFrame(f, c) \o r, f, ps, g + 1, w)
    BY <2>2, <2>3, BufferRead
  <2> QED
    BY <2>1, <2>4
<1>5. framing' = framing /\ sent' = sent /\ state' = state /\ eof' = eof
  BY DEF connVars
<1>6. eof \in BOOLEAN
  BY DEF Inward
<1>7. CASE HasFrame(framing, c)
  <2>1. rxBuf' = AfterFrame(framing, c) /\ recv' = "idle"
        /\ got' = Append(got, sent[Len(got) + 1])
    BY <1>4, <1>7 DEF TakeFrame
  <2>2. Received(got', sent) /\ Len(got') = Len(got) + 1
    <3>1. PICK f, ps, qs, g : f = framing /\ ps = got /\ qs = sent /\ g = Len(got)
      OBVIOUS
    <3>2. /\ f \in Kinds /\ Sendable(f, qs) /\ Received(ps, qs) /\ g = Len(ps)
          /\ g \in 0 .. (Len(qs) - 1)
      BY <1>1, <1>2, <1>4, <1>7, <3>1
    <3>3. Received(Append(ps, qs[g + 1]), qs) /\ Len(Append(ps, qs[g + 1])) = g + 1
      BY <3>2, ReceivedMore
    <3> QED
      BY <2>1, <3>1, <3>3
  <2>3. Carries(rxBuf' \o toClient', framing', sent', Len(got'), eof')
    BY <1>4, <1>5, <1>7, <2>1, <2>2
  <2>4. Len(got) < Len(sent)
    BY <1>2, <1>4, <1>7
  <2> QED
    BY <1>2, <1>4, <1>5, <1>6, <1>7, <2>1, <2>2, <2>3, <2>4 DEF Inward
<1>8. CASE ~HasFrame(framing, c)
  <2>1. rxBuf' = c /\ recv' = "reading" /\ got' = got
    BY <1>8 DEF TakeFrame
  <2>2. Carries(rxBuf' \o toClient', framing', sent', Len(got'), eof')
    BY <1>3, <1>5, <2>1
  <2> QED
    BY <1>2, <1>5, <1>6, <1>8, <2>1, <2>2 DEF Inward
<1> QED
  BY <1>7, <1>8

\* What the client does to its side leaves the invariant.
LEMMA ReadChunkReads ==
    ASSUME Common, Inward, ReadChunk
    PROVE  /\ Inward'
           /\ \/ got' = got
              \/ Len(got) < Len(sent) /\ got' = Append(got, sent[Len(got) + 1])
<1>1. state # "closed" /\ rxBuf \in Seq(Byte) /\ toClient \in Seq(Byte)
  BY DEF Inward, ReadChunk
<1>2. PICK n \in 1 .. Len(toClient) :
          /\ TakeFrame(rxBuf \o SubSeq(toClient, 1, n))
          /\ toClient' = SubSeq(toClient, n + 1, Len(toClient))
  BY DEF ReadChunk
<1>3. n \in 0 .. Len(toClient)
  BY <1>1, <1>2
<1>4. PICK a \in Seq(Byte), b \in Seq(Byte) : a = rxBuf /\ b = toClient
  BY <1>1
<1>5. PICK c, r : c = a \o SubSeq(b, 1, n) /\ r = SubSeq(b, n + 1, Len(b))
  OBVIOUS
<1>6. n \in 0 .. Len(b)
  BY <1>3, <1>4
<1>7. c \in Seq(Byte) /\ r \in Seq(Byte) /\ c \o r = a \o b
  <2>1. a \in Seq(Byte) /\ b \in Seq(Byte)
    BY <1>4
  <2>2. /\ SubSeq(b, n + 1, Len(b)) \in Seq(Byte)
        /\ a \o SubSeq(b, 1, n) \in Seq(Byte)
        /\ (a \o SubSeq(b, 1, n)) \o SubSeq(b, n + 1, Len(b)) = a \o b
    BY <1>6, <2>1, Rejoin
  <2> QED
    BY <1>5, <2>2
<1>8. /\ c \o r = rxBuf \o toClient /\ TakeFrame(c) /\ toClient' = r
      /\ UNCHANGED <<connVars, state, eof, sent>>
  BY <1>2, <1>4, <1>5, <1>7 DEF ReadChunk
<1> QED
  BY <1>1, <1>7, <1>8, TakeFrameHolds

LEMMA RecvReads ==
    ASSUME Common, Inward, Recv
    PROVE  /\ Inward'
           /\ \/ got' = got
              \/ Len(got) < Len(sent) /\ got' = Append(got, sent[Len(got) + 1])
<1>1. /\ state # "closed" /\ rxBuf \in Seq(Byte) /\ toClient \in Seq(Byte)
      /\ TakeFrame(rxBuf)
  BY DEF Inward, Recv
<1>2. toClient' = toClient /\ UNCHANGED <<connVars, state, eof, sent>>
  BY DEF Recv
<1> QED
  BY <1>1, <1>2, TakeFrameHolds

\* Some of the bytes in the socket are lost when the stream ends.
LEMMA StreamEnds ==
    ASSUME Common, Inward, state # "closed", state' # "closed", eof' = TRUE,
           \E n \in 0 .. Len(toClient) : toClient' = SubSeq(toClient, 1, n),
           UNCHANGED <<connVars, rxBuf, recv, sent, got>>
    PROVE  Inward'
<1>1. /\ framing' = framing /\ rxBuf' = rxBuf /\ recv' = recv /\ sent' = sent
      /\ got' = got
  BY DEF connVars
<1>2. framing \in Kinds
  BY TransportAssumption DEF Common
<1>3. /\ rxBuf \in Seq(Byte) /\ toClient \in Seq(Byte)
      /\ Sendable(framing, sent) /\ Received(got, sent)
      /\ Carries(rxBuf \o toClient, framing, sent, Len(got), eof)
  BY DEF Inward
<1>4. PICK n \in 0 .. Len(toClient) : toClient' = SubSeq(toClient, 1, n)
  OBVIOUS
<1>5. PICK f, ps, g, w, a, b : /\ f = framing /\ ps = sent /\ g = Len(got) /\ w = eof
                               /\ a = rxBuf /\ b = toClient
  OBVIOUS
<1>6. /\ f \in Kinds /\ Sendable(f, ps) /\ a \in Seq(Byte) /\ b \in Seq(Byte)
      /\ n \in 0 .. Len(b)
  BY <1>2, <1>3, <1>4, <1>5
<1>7. Carries(a \o b, f, ps, g, w)
  BY <1>3, <1>5
<1>8. g \in 0 .. Len(ps)
  BY <1>3, <1>5, ReceivedLen
<1>9. /\ a \o SubSeq(b, 1, n) = SubSeq(a \o b, 1, Len(a) + n)
      /\ Len(a) + n \in 0 .. Len(a \o b) /\ a \o b \in Seq(Byte)
      /\ SubSeq(b, 1, n) \in Seq(Byte)
  <2>1. a \o b \in Seq(Byte) /\ SubSeq(b, 1, n) \in Seq(Byte)
    BY <1>6
  <2> QED
    BY <1>6, <2>1, CutShort
<1>10. PICK s, m : s = a \o b /\ m = Len(a) + n
  OBVIOUS
<1>11. s \in Seq(Byte) /\ m \in 0 .. Len(s) /\ Carries(s, f, ps, g, w)
  BY <1>7, <1>9, <1>10
<1>12. Carries(SubSeq(s, 1, m), f, ps, g, TRUE)
  <2>1. ps \in Seq(Packets) /\ g \in Nat /\ g <= Len(ps)
    BY <1>6, <1>8 DEF Sendable
  <2> QED
    BY <1>11, <2>1, CarriesPrefix
<1>13. Carries(rxBuf' \o toClient', framing', sent', Len(got'), eof')
  BY <1>1, <1>4, <1>5, <1>9, <1>10, <1>12
<1>14. toClient' \in Seq(Byte)
  BY <1>4, <1>5, <1>9
<1> QED
  BY <1>1, <1>3, <1>13, <1>14 DEF Inward

LEMMA ServerSendsHolds ==
    ASSUME Common, Inward, NEW p \in Packets, ServerSends(p)
    PROVE  Inward'
<1>1. /\ framing' = framing /\ rxBuf' = rxBuf /\ recv' = recv /\ eof' = eof
      /\ got' = got /\ state' = state /\ state = "open" /\ CanEncode(framing, p)
      /\ toClient' = toClient \o Encode(framing, p) /\ sent' = Append(sent, p)
  BY DEF ServerSends, connVars
<1>2. eof = FALSE
  BY Zenon DEF ServerSends, Inward
<1>3. framing \in Kinds
  BY TransportAssumption DEF Common
<1>4. /\ rxBuf \in Seq(Byte) /\ toClient \in Seq(Byte)
      /\ Sendable(framing, sent) /\ Received(got, sent)
      /\ Carries(rxBuf \o toClient, framing, sent, Len(got), eof)
  BY <1>1 DEF Inward
<1>5. PICK f, ps, qs, a, b : /\ f = framing /\ ps = sent /\ qs = got
                             /\ a = rxBuf /\ b = toClient
  OBVIOUS
<1>6. /\ f \in Kinds /\ Sendable(f, ps) /\ Received(qs, ps) /\ CanEncode(f, p)
      /\ a \in Seq(Byte) /\ b \in Seq(Byte)
  BY <1>1, <1>3, <1>4, <1>5
<1>7. PICK g : g = Len(qs)
  OBVIOUS
<1>8. Carries(a \o b, f, ps, g, FALSE) /\ g \in 0 .. Len(ps)
  BY <1>2, <1>4, <1>5, <1>6, <1>7, ReceivedLen
<1>9. a \o b \in Seq(Byte)
  BY <1>6
<1>10. PICK s : s = a \o b
  OBVIOUS
<1>11. s \in Seq(Byte) /\ Carries(s, f, ps, g, FALSE)
  BY <1>8, <1>9, <1>10
<1>12. /\ Sendable(f, Append(ps, p))
       /\ Carries(s \o Encode(f, p), f, Append(ps, p), g, FALSE)
  BY <1>6, <1>8, <1>11, CarriesAppend
<1>13. Encode(f, p) \in Seq(Byte)
  BY <1>6, EncodeType, TransportAssumption
<1>14. a \o (b \o Encode(f, p)) = s \o Encode(f, p) /\ b \o Encode(f, p) \in Seq(Byte)
  <2>1. PICK e \in Seq(Byte) : e = Encode(f, p)
    BY <1>13
  <2>2. a \o (b \o e) = (a \o b) \o e /\ b \o e \in Seq(Byte)
    BY <1>6, Regroup
  <2> QED
    BY <1>10, <2>1, <2>2
<1>15. Received(qs, Append(ps, p))
  BY <1>6, ReceivedOfMore
<1>16. Carries(rxBuf' \o toClient', framing', sent', Len(got'), eof')
  BY <1>1, <1>2, <1>5, <1>7, <1>12, <1>14
<1>17. Sendable(framing', sent') /\ Received(got', sent') /\ toClient' \in Seq(Byte)
  BY <1>1, <1>5, <1>12, <1>14, <1>15
<1>18. eof' \in BOOLEAN
  BY <1>1, Zenon DEF Inward
<1> QED
  BY <1>1, <1>4, <1>16, <1>17, <1>18 DEF Inward

\* Every step leaves the way to the client as it has to be, and recv() returns
\* no other packet than the next.
LEMMA InwardStep ==
    ASSUME Common, Inward, [Next]_vars
    PROVE  /\ Inward'
           /\ \/ sent' = <<>> /\ got' = <<>> /\ Connect
              \/ sent' = sent /\ got' = got
              \/ sent' = sent /\ Len(got) < Len(sent)
                 /\ got' = Append(got, sent[Len(got) + 1]) /\ (Recv \/ ReadChunk)
              \/ got' = got /\ \E p \in Packets : sent' = Append(sent, p) /\ ServerSends(p)
<1>1. CASE Connect
  <2>1. /\ framing' = framing /\ state' = "open" /\ rxBuf' = rxBuf /\ recv' = recv
        /\ toClient' = <<>> /\ eof' = FALSE /\ sent' = <<>> /\ got' = <<>>
        /\ state = "closed"
    BY <1>1 DEF Connect
  <2>2. recv = "idle" /\ rxBuf = <<>> /\ <<>> \in Seq(Byte) /\ <<>> \in Seq(Packets)
    BY <2>1 DEF Inward
  <2>3. Sendable(framing, <<>>) /\ Received(<<>>, <<>>)
    BY <2>2 DEF Sendable, Received
  <2>4. Carries(<<>>, framing, <<>>, 0, FALSE)
    BY CarriesNothing
  <2>5. Carries(rxBuf' \o toClient', framing', sent', Len(got'), eof')
    <3>1. rxBuf' \o toClient' = <<>> /\ Len(got') = 0
      BY <2>1, <2>2
    <3> QED
      BY <2>1, <2>4, <3>1
  <2>6. eof' \in BOOLEAN
    BY <2>1
  <2>7. Sendable(framing', sent') /\ Received(got', sent')
    BY <2>1, <2>3
  <2>8. Inward'
    BY <2>1, <2>2, <2>5, <2>6, <2>7 DEF Inward
  <2> QED
    BY <1>1, <2>1, <2>8
<1>2. CASE \E p \in Packets : Send(p)
  <2>1. UNCHANGED <<framing, state, rxBuf, recv, toClient, eof, sent, got>>
    BY <1>2 DEF Send, connVars, inVars
  <2> QED
    BY <2>1 DEF Inward
<1>3. CASE Recv
  <2>1. sent' = sent
    BY <1>3 DEF Recv
  <2> QED
    BY <1>3, <2>1, RecvReads
<1>4. CASE ReadChunk
  <2>1. sent' = sent
    BY <1>4 DEF ReadChunk
  <2> QED
    BY <1>4, <2>1, ReadChunkReads
<1>5. CASE ReadEnds \/ CancelRecv
  <2>1. UNCHANGED <<framing, state, rxBuf, toClient, eof, sent, got>> /\ recv' = "idle"
    BY <1>5 DEF ReadEnds, CancelRecv, connVars
  <2>2. Inward'
    BY <2>1 DEF Inward
  <2> QED
    BY <2>1, <2>2
<1>6. CASE Close \/ ServerCloses
  <2>1. /\ state # "closed" /\ state' # "closed" /\ eof' = TRUE
        /\ \E n \in 0 .. Len(toClient) : toClient' = SubSeq(toClient, 1, n)
        /\ UNCHANGED <<connVars, rxBuf, recv, sent, got>>
    BY <1>6 DEF Close, ServerCloses
  <2>2. Inward'
    BY <2>1, StreamEnds
  <2> QED
    BY <2>1, <2>2
<1>7. CASE CloseEnds
  <2>1. /\ UNCHANGED <<framing, recv, toClient, eof, sent, got>>
        /\ recv = "idle" /\ state' = "closed" /\ rxBuf' = <<>>
    BY <1>7 DEF CloseEnds, connVars
  <2>2. rxBuf' \in Seq(Byte)
    BY <2>1
  <2>3. Inward'
    BY <2>1, <2>2 DEF Inward
  <2> QED
    BY <2>1, <2>3
<1>8. CASE \E p \in Packets : ServerSends(p)
  <2>1. PICK p \in Packets : ServerSends(p)
    BY <1>8
  <2>2. got' = got /\ sent' = Append(sent, p)
    BY <2>1 DEF ServerSends
  <2>3. Inward'
    BY <2>1, ServerSendsHolds
  <2> QED
    BY <2>1, <2>2, <2>3
<1>9. CASE ServerReads
  <2>1. UNCHANGED <<framing, state, rxBuf, recv, toClient, eof, sent, got>>
    BY <1>9 DEF ServerReads, connVars, inVars
  <2> QED
    BY <2>1 DEF Inward
<1>10. CASE UNCHANGED vars
  <2>1. UNCHANGED <<framing, state, rxBuf, recv, toClient, eof, sent, got>>
    BY <1>10 DEF vars, connVars, inVars
  <2> QED
    BY <2>1 DEF Inward
<1> QED
  BY <1>1, <1>2, <1>3, <1>4, <1>5, <1>6, <1>7, <1>8, <1>9, <1>10 DEF Next

LEMMA ConnectHeaderType ==
    ASSUME NEW f \in Kinds
    PROVE  ConnectHeader(f) \in Seq(Byte) /\ Len(ConnectHeader(f)) \in Nat
<1>1. Base - 1 \in Byte /\ Base - 2 \in Byte /\ HeaderBytes \in Nat
  BY BytesAssumption, FramingAssumption DEF Byte
<1>2. <<Base - 1>> \in Seq(Byte)
  BY <1>1
<1>3. [i \in 1 .. HeaderBytes |-> Base - 2] \in Seq(Byte)
  BY <1>1
<1>4. ConnectHeader(f) \in Seq(Byte)
  BY <1>2, <1>3 DEF ConnectHeader
<1> QED
  BY <1>4

\* Nothing but the header of the connection is skipped, and only once.
LEMMA SkippedType ==
    ASSUME Common
    PROVE  Skipped \in Nat /\ (heard # <<>> => Skipped = 0)
<1>1. framing \in Kinds
  BY TransportAssumption DEF Common
<1> QED
  BY <1>1, ConnectHeaderType DEF Skipped

LEMMA ConnectsOutward ==
    ASSUME Common, Connect
    PROVE  Outward'
<1>1. /\ framing' = framing /\ toServer' = ConnectHeader(framing)
      /\ asked' = <<>> /\ heard' = <<>>
  BY DEF Connect
<1>2. framing \in Kinds
  BY TransportAssumption DEF Common
<1>3. PICK h : h = ConnectHeader(framing)
  OBVIOUS
<1>4. h \in Seq(Byte) /\ Len(h) \in Nat
  BY <1>2, <1>3, ConnectHeaderType
<1>5. SubSeq(h, Len(h) + 1, Len(h)) = <<>>
  BY <1>4
<1>6. Skipped' = Len(h) /\ Unread' = <<>>
  BY <1>1, <1>3, <1>5 DEF Skipped, Unread
<1>7. <<>> \in Seq(Packets)
  OBVIOUS
<1>8. Sendable(framing', asked') /\ Received(heard', asked')
  BY <1>1, <1>7 DEF Sendable, Received
<1>9. Carries(<<>>, framing, <<>>, 0, FALSE)
  BY CarriesNothing
<1>10. Carries(Unread', framing', asked', Len(heard'), FALSE)
  BY <1>1, <1>6, <1>9
<1>11. toServer' \in Seq(Byte) /\ Skipped' <= Len(toServer')
  BY <1>1, <1>3, <1>4, <1>6
<1> QED
  BY <1>8, <1>10, <1>11 DEF Outward

LEMMA SendHolds ==
    ASSUME Common, Outward, NEW p \in Packets, Send(p), CanEncode(framing, p)
    PROVE  Outward'
<1>1. /\ framing' = framing /\ state' = state /\ state # "closed" /\ heard' = heard
      /\ toServer' = toServer \o Encode(framing, p) /\ asked' = Append(asked, p)
  BY DEF Send, connVars
<1>2. framing \in Kinds
  BY TransportAssumption DEF Common
<1>3. /\ toServer \in Seq(Byte) /\ Sendable(framing, asked) /\ Received(heard, asked)
      /\ Skipped <= Len(toServer)
      /\ Carries(Unread, framing, asked, Len(heard), FALSE)
  BY <1>1 DEF Outward
<1>4. Skipped \in Nat
  BY SkippedType
<1>5. PICK f, ps, qs, a, k : /\ f = framing /\ ps = asked /\ qs = heard
                             /\ a = toServer /\ k = Skipped
  OBVIOUS
<1>6. /\ f \in Kinds /\ Sendable(f, ps) /\ Received(qs, ps) /\ CanEncode(f, p)
      /\ a \in Seq(Byte) /\ k \in 0 .. Len(a)
  BY <1>2, <1>3, <1>4, <1>5
<1>7. PICK g, s, e : /\ g = Len(qs) /\ s = SubSeq(a, k + 1, Len(a))
                     /\ e = Encode(f, p)
  OBVIOUS
<1>8. g \in 0 .. Len(ps) /\ s \in Seq(Byte) /\ e \in Seq(Byte)
  <2>1. g \in 0 .. Len(ps)
    BY <1>6, <1>7, ReceivedLen
  <2>2. s \in Seq(Byte)
    BY <1>6, <1>7
  <2>3. p \in Seq(Byte)
    BY TransportAssumption
  <2>4. e \in Seq(Byte)
    BY <1>6, <1>7, <2>3, EncodeType
  <2> QED
    BY <2>1, <2>2, <2>4
<1>9. Carries(s, f, ps, g, FALSE)
  BY <1>3, <1>5, <1>7 DEF Unread
<1>10. /\ Sendable(f, Append(ps, p)) /\ Carries(s \o e, f, Append(ps, p), g, FALSE)
  BY <1>6, <1>7, <1>8, <1>9, CarriesAppend
<1>11. SubSeq(a \o e, k + 1, Len(a \o e)) = s \o e /\ a \o e \in Seq(Byte)
       /\ k <= Len(a \o e)
  <2>1. SubSeq(a \o e, k + 1, Len(a \o e)) = SubSeq(a, k + 1, Len(a)) \o e
    BY <1>6, <1>8, DropOfConcat
  <2>2. a \o e \in Seq(Byte) /\ Len(a \o e) = Len(a) + Len(e) /\ Len(e) \in Nat
    BY <1>6, <1>8
  <2>3. k <= Len(a \o e)
    BY <1>6, <2>2
  <2>4. SubSeq(a \o e, k + 1, Len(a \o e)) = s \o e
    BY <1>7, <2>1
  <2> QED
    BY <2>2, <2>3, <2>4
<1>12. Received(qs, Append(ps, p))
  BY <1>6, ReceivedOfMore
<1>13. Skipped' = k /\ toServer' = a \o e
  BY <1>1, <1>5, <1>7 DEF Skipped
<1>14. Unread' = s \o e
  BY <1>11, <1>13 DEF Unread
<1>15. Carries(Unread', framing', asked', Len(heard'), FALSE)
  BY <1>1, <1>5, <1>7, <1>10, <1>14
<1>16. Sendable(framing', asked') /\ Received(heard', asked')
  BY <1>1, <1>5, <1>10, <1>12
<1>17. toServer' \in Seq(Byte) /\ Skipped' <= Len(toServer')
  BY <1>11, <1>13
<1> QED
  BY <1>15, <1>16, <1>17 DEF Outward

LEMMA ServerReadsHolds ==
    ASSUME Common, Outward, ServerReads
    PROVE  /\ Outward' /\ Len(heard) < Len(asked)
           /\ heard' = Append(heard, asked[Len(heard) + 1])
<1>1. /\ framing' = framing /\ state' = state /\ state # "closed" /\ asked' = asked
      /\ HasFrame(framing, Unread) /\ heard' = Append(heard, FirstPacket(framing, Unread))
      /\ toServer' = AfterFrame(framing, Unread)
  BY DEF ServerReads, connVars, Unread, Skipped
<1>2. framing \in Kinds
  BY TransportAssumption DEF Common
<1>3. /\ toServer \in Seq(Byte) /\ Sendable(framing, asked) /\ Received(heard, asked)
      /\ Carries(Unread, framing, asked, Len(heard), FALSE)
  BY <1>1 DEF Outward
<1>4. PICK f, ps, qs, c : /\ f = framing /\ ps = asked /\ qs = heard /\ c = Unread
  OBVIOUS
<1>5. PICK g : g = Len(qs)
  OBVIOUS
<1>6. Skipped \in Nat
  BY SkippedType
<1>7. c \in Seq(Byte)
  BY <1>3, <1>4, <1>6 DEF Unread
<1>8. /\ f \in Kinds /\ Sendable(f, ps) /\ Received(qs, ps) /\ HasFrame(f, c)
      /\ Carries(c, f, ps, g, FALSE)
  BY <1>1, <1>2, <1>3, <1>4, <1>5
<1>9. g \in 0 .. Len(ps)
  BY <1>5, <1>8, ReceivedLen
<1>10. PICK r \in Seq(Byte) : r = <<>>
  <2>1. <<>> \in Seq(Byte)
    OBVIOUS
  <2> QED
    BY <2>1, Zenon
<1>11. c \o r = c
  BY <1>7, <1>10
<1>12. Carries(c \o r, f, ps, g, FALSE)
  BY <1>8, <1>11
<1>13. /\ g \in 0 .. (Len(ps) - 1) /\ FirstPacket(f, c) = ps[g + 1]
       /\ AfterFrame(f, c) \in Seq(Byte)
       /\ Carries(AfterFrame(f, c) \o r, f, ps, g + 1, FALSE)
  BY <1>7, <1>8, <1>9, <1>12, BufferRead
<1>14. AfterFrame(f, c) \o r = AfterFrame(f, c)
  BY <1>10, <1>13
<1>15. Received(Append(qs, ps[g + 1]), ps) /\ Len(Append(qs, ps[g + 1])) = g + 1
  BY <1>5, <1>8, <1>13, ReceivedMore
<1>16. heard' = Append(qs, ps[g + 1]) /\ toServer' = AfterFrame(f, c)
  BY <1>1, <1>4, <1>13
<1>17. heard' # <<>>
  BY <1>9, <1>15, <1>16
<1>18. Skipped' = 0
  BY <1>17 DEF Skipped
<1>19. toServer' \in Seq(Byte)
  BY <1>13, <1>16
<1>20. Unread' = toServer' /\ Skipped' <= Len(toServer')
  <2>1. SubSeq(toServer', 1, Len(toServer')) = toServer'
    BY <1>19
  <2> QED
    BY <1>18, <1>19, <2>1 DEF Unread
<1>21. Carries(Unread', framing', asked', Len(heard'), FALSE)
  BY <1>1, <1>4, <1>13, <1>14, <1>15, <1>16, <1>20
<1>22. Sendable(framing', asked') /\ Received(heard', asked')
  BY <1>1, <1>4, <1>8, <1>15, <1>16
<1>23. Outward'
  BY <1>19, <1>20, <1>21, <1>22 DEF Outward
<1>24. Len(heard) < Len(asked) /\ heard' = Append(heard, asked[Len(heard) + 1])
  <2>1. Len(ps) \in Nat
    BY <1>8 DEF Sendable
  <2> QED
    BY <1>4, <1>5, <1>13, <1>16, <2>1
<1> QED
  BY <1>23, <1>24

\* Every step leaves the way to the server as it has to be, and the server
\* reads no other packet than the next.
LEMMA OutwardStep ==
    ASSUME Common, Outward, [Next]_vars
    PROVE  /\ Outward'
           /\ \/ asked' = <<>> /\ heard' = <<>> /\ Connect
              \/ asked' = asked /\ heard' = heard
              \/ asked' = asked /\ Len(heard) < Len(asked)
                 /\ heard' = Append(heard, asked[Len(heard) + 1]) /\ ServerReads
              \/ heard' = heard /\ \E p \in Packets : asked' = Append(asked, p) /\ Send(p)
<1>1. CASE Connect
  <2>1. asked' = <<>> /\ heard' = <<>>
    BY <1>1 DEF Connect
  <2>2. Outward'
    BY <1>1, ConnectsOutward
  <2> QED
    BY <1>1, <2>1, <2>2
<1>2. CASE \E p \in Packets : Send(p)
  <2>1. PICK p \in Packets : Send(p)
    BY <1>2
  <2>2. CASE CanEncode(framing, p)
    <3>1. heard' = heard /\ asked' = Append(asked, p)
      BY <2>1, <2>2 DEF Send
    <3>2. Outward'
      BY <2>1, <2>2, SendHolds
    <3> QED
      BY <2>1, <3>1, <3>2
  <2>3. CASE ~CanEncode(framing, p)
    <3>1. UNCHANGED <<framing, state, toServer, asked, heard>>
      BY <2>1, <2>3 DEF Send, connVars
    <3>2. Outward'
      BY <3>1 DEF Outward, Unread, Skipped
    <3> QED
      BY <3>1, <3>2
  <2> QED
    BY <2>2, <2>3
<1>3. CASE ServerReads
  <2>1. asked' = asked
    BY <1>3 DEF ServerReads
  <2> QED
    BY <1>3, <2>1, ServerReadsHolds
<1>4. CASE \/ Recv \/ ReadChunk \/ ReadEnds \/ CancelRecv \/ Close \/ CloseEnds
           \/ (\E p \in Packets : ServerSends(p)) \/ ServerCloses \/ UNCHANGED vars
  <2>1. UNCHANGED <<framing, toServer, asked, heard>>
        /\ (state' # "closed" => state # "closed")
    BY <1>4 DEF Recv, ReadChunk, ReadEnds, CancelRecv, Close, CloseEnds, ServerSends,
                ServerCloses, vars, connVars, outVars
  <2>2. Outward'
    BY <2>1 DEF Outward, Unread, Skipped
  <2> QED
    BY <2>1, <2>2
<1> QED
  BY <1>1, <1>2, <1>3, <1>4 DEF Next

LEMMA StepHolds == IInv /\ [Next]_vars => IInv'
<1> SUFFICES ASSUME IInv, [Next]_vars PROVE IInv'
  OBVIOUS
<1>1. Common /\ Inward /\ Outward
  BY DEF IInv
<1>2. Common'
  <2>1. framing' = framing
    BY DEF Next, vars, connVars, Connect, Send, Recv, ReadChunk, ReadEnds, CancelRecv,
           Close, CloseEnds, ServerSends, ServerCloses, ServerReads
  <2>2. conn' = conn \/ conn' = conn + 1
    BY DEF Next, vars, connVars, Connect, Send, Recv, ReadChunk, ReadEnds, CancelRecv,
           Close, CloseEnds, ServerSends, ServerCloses, ServerReads
  <2>3. state' \in {state, "closed", "open", "closing"}
    BY DEF Next, vars, Connect, Send, Recv, ReadChunk, ReadEnds, CancelRecv,
           Close, CloseEnds, ServerSends, ServerCloses, ServerReads
  <2> QED
    BY <1>1, <2>1, <2>2, <2>3 DEF Common
<1>3. Inward' /\ Outward'
  BY <1>1, InwardStep, OutwardStep
<1> QED
  BY <1>2, <1>3 DEF IInv

\* The invariant: what is on its way is a beginning of the frames of what has
\* been sent and not yet returned, and all of them until the stream ends.
THEOREM TransportInvariant == Spec => []IInv
<1> QED
  BY InitHolds, StepHolds, PTL DEF Spec

-----------------------------------------------------------------------------
LEMMA NothingHeldBackHolds == IInv => NothingHeldBack
<1> SUFFICES ASSUME IInv, recv = "reading"
             PROVE  /\ ~HasFrame(framing, rxBuf)
                    /\ toClient = <<>> /\ ~eof => Len(got) = Len(sent)
  BY DEF NothingHeldBack
<1>1. /\ ~HasFrame(framing, rxBuf) /\ rxBuf \in Seq(Byte) /\ toClient \in Seq(Byte)
      /\ Sendable(framing, sent) /\ Received(got, sent)
      /\ Carries(rxBuf \o toClient, framing, sent, Len(got), eof)
  BY DEF IInv, Inward
<1>2. framing \in Kinds
  BY TransportAssumption DEF IInv, Common
<1>3. eof = FALSE \/ eof = TRUE
  BY DEF IInv, Inward
<1>4. ASSUME toClient = <<>>, eof = FALSE PROVE Len(got) = Len(sent)
  <2>1. PICK f, ps, qs, c, r, w : /\ f = framing /\ ps = sent /\ qs = got /\ c = rxBuf
                                  /\ r = toClient /\ w = eof
    OBVIOUS
  <2>2. PICK g : g = Len(qs)
    OBVIOUS
  <2>3. /\ f \in Kinds /\ Sendable(f, ps) /\ Received(qs, ps) /\ c \in Seq(Byte)
        /\ r \in Seq(Byte) /\ Carries(c \o r, f, ps, g, w)
    BY <1>1, <1>2, <2>1, <2>2
  <2>4. g \in 0 .. Len(ps)
    BY <2>2, <2>3, ReceivedLen
  <2>5. (w = FALSE /\ r = <<>> /\ ~HasFrame(f, c)) => g = Len(ps)
    BY <2>3, <2>4, BufferRead
  <2>6. w = FALSE /\ r = <<>> /\ ~HasFrame(f, c)
    BY <1>1, <1>4, <2>1
  <2> QED
    BY <2>1, <2>2, <2>5, <2>6
<1> QED
  BY <1>1, <1>3, <1>4, Zenon

(* A task waits in recv() only while the buffer has no whole frame, and    *)
(* when the socket is empty too, everything has been returned.             *)
THEOREM TransportHoldsNothingBack == Spec => []NothingHeldBack
<1> QED
  BY TransportInvariant, NothingHeldBackHolds, PTL

LEMMA DecodeNeverRaisesHolds == IInv => DecodeNeverRaises
<1> SUFFICES ASSUME IInv, state # "closed", NEW n \in 0 .. Len(toClient)
             PROVE  ~DecodeRaises(framing, rxBuf \o SubSeq(toClient, 1, n))
  BY DEF DecodeNeverRaises
<1>1. /\ rxBuf \in Seq(Byte) /\ toClient \in Seq(Byte)
      /\ Sendable(framing, sent) /\ Received(got, sent)
      /\ Carries(rxBuf \o toClient, framing, sent, Len(got), eof)
  BY DEF IInv, Inward
<1>2. framing \in Kinds
  BY TransportAssumption DEF IInv, Common
<1>3. PICK f, ps, qs, a, b, w : /\ f = framing /\ ps = sent /\ qs = got /\ a = rxBuf
                                /\ b = toClient /\ w = eof
  OBVIOUS
<1>4. PICK g : g = Len(qs)
  OBVIOUS
<1>5. /\ f \in Kinds /\ Sendable(f, ps) /\ Received(qs, ps) /\ a \in Seq(Byte)
      /\ b \in Seq(Byte) /\ Carries(a \o b, f, ps, g, w) /\ n \in 0 .. Len(b)
  BY <1>1, <1>2, <1>3, <1>4
<1>6. g \in 0 .. Len(ps)
  BY <1>4, <1>5, ReceivedLen
<1>7. PICK c, r : c = a \o SubSeq(b, 1, n) /\ r = SubSeq(b, n + 1, Len(b))
  OBVIOUS
<1>8. c \in Seq(Byte) /\ r \in Seq(Byte) /\ c \o r = a \o b
  <2>1. a \in Seq(Byte) /\ b \in Seq(Byte) /\ n \in 0 .. Len(b)
    BY <1>5
  <2>2. /\ SubSeq(b, n + 1, Len(b)) \in Seq(Byte)
        /\ a \o SubSeq(b, 1, n) \in Seq(Byte)
        /\ (a \o SubSeq(b, 1, n)) \o SubSeq(b, n + 1, Len(b)) = a \o b
    BY <2>1, Rejoin
  <2> QED
    BY <1>7, <2>2
<1>9. Carries(c \o r, f, ps, g, w)
  BY <1>5, <1>8
<1>10. ~DecodeRaises(f, c)
  BY <1>5, <1>6, <1>8, <1>9, BufferRead
<1> QED
  BY <1>3, <1>7, <1>10

(* Whatever is read next, decode_from_buffer does not raise.               *)
THEOREM TransportDecodes == Spec => []DecodeNeverRaises
<1> QED
  BY TransportInvariant, DecodeNeverRaisesHolds, PTL

-----------------------------------------------------------------------------
(* The connection implements PacketPipe.                                   *)

LEMMA PipeStep == IInv /\ [Next]_vars => [Pipe!Next]_Pipe!vars
<1> SUFFICES ASSUME IInv, [Next]_vars PROVE [Pipe!Next]_Pipe!vars
  OBVIOUS
<1>1. Common /\ Inward /\ Outward
  BY DEF IInv
<1>2. CASE Connect
  <2>1. Pipe!NewConnection
    BY <1>2 DEF Connect, Pipe!NewConnection
  <2> QED
    BY <2>1 DEF Pipe!Next
<1>3. CASE \E p \in Packets : Send(p)
  <2>1. PICK p \in Packets : Send(p)
    BY <1>3
  <2>2. UNCHANGED <<conn, sent, got, heard>>
    BY <2>1 DEF Send, connVars, inVars
  <2>3. asked' = Append(asked, p) \/ asked' = asked
    BY <2>1 DEF Send
  <2>4. Pipe!ClientPuts(p) \/ UNCHANGED Pipe!vars
    BY <2>2, <2>3 DEF Pipe!ClientPuts, Pipe!vars
  <2> QED
    BY <2>4 DEF Pipe!Next
<1>4. CASE Recv \/ ReadChunk
  <2>1. UNCHANGED <<conn, sent, asked, heard>>
    BY <1>4 DEF Recv, ReadChunk, connVars, outVars
  <2>2. \/ got' = got
        \/ Len(got) < Len(sent) /\ got' = Append(got, sent[Len(got) + 1])
    BY <1>1, <1>4, RecvReads, ReadChunkReads
  <2>3. Pipe!ClientTakes \/ UNCHANGED Pipe!vars
    BY <2>1, <2>2 DEF Pipe!ClientTakes, Pipe!vars
  <2> QED
    BY <2>3 DEF Pipe!Next
<1>5. CASE \E p \in Packets : ServerSends(p)
  <2>1. PICK p \in Packets : ServerSends(p)
    BY <1>5
  <2>2. Pipe!ServerPuts(p)
    BY <2>1 DEF ServerSends, connVars, outVars, Pipe!ServerPuts
  <2> QED
    BY <2>2 DEF Pipe!Next
<1>6. CASE ServerReads
  <2>1. UNCHANGED <<conn, sent, got, asked>>
    BY <1>6 DEF ServerReads, connVars, inVars
  <2>2. Len(heard) < Len(asked) /\ heard' = Append(heard, asked[Len(heard) + 1])
    BY <1>1, <1>6, ServerReadsHolds
  <2>3. Pipe!ServerTakes
    BY <2>1, <2>2 DEF Pipe!ServerTakes
  <2> QED
    BY <2>3 DEF Pipe!Next
<1>7. CASE ReadEnds \/ CancelRecv \/ Close \/ CloseEnds \/ ServerCloses \/ UNCHANGED vars
  <2>1. UNCHANGED <<conn, sent, got, asked, heard>>
    BY <1>7 DEF ReadEnds, CancelRecv, Close, CloseEnds, ServerCloses, vars, connVars,
                inVars, outVars
  <2> QED
    BY <2>1 DEF Pipe!vars
<1> QED
  BY <1>2, <1>3, <1>4, <1>5, <1>6, <1>7 DEF Next

(* However the stream is cut and whoever gives up waiting, packets come    *)
(* out whole, in their order and once, and none of an earlier connection.  *)
THEOREM TransportRespectsPipe == Spec => RespectsPipe
<1>1. Init => Pipe!Init
  BY DEF Init, Pipe!Init
<1> QED
  BY <1>1, TransportInvariant, PipeStep, PTL DEF Spec, RespectsPipe, Pipe!Spec

=============================================================================
