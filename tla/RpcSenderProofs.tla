--------------------------- MODULE RpcSenderProofs ---------------------------
(***************************************************************************)
(* What is proved about RpcSender, for every set of calls and every bound. *)
(* First its types and the order of message ids on the wire.  Then its     *)
(* safety: a request is executed at most once, the tables hold what the    *)
(* receiver needs and nothing that can do harm, a future is settled once.  *)
(* Then what invoke_tl promises its caller (RpcContract) and what the      *)
(* salts say: RpcSender implements the contract, a result is one the       *)
(* server has given to this call, the retry limit needs two rotations.     *)
(***************************************************************************)
EXTENDS RpcSender, SequenceTheorems, FiniteSetTheorems, TLAPS

-----------------------------------------------------------------------------
(* Queues that lose members and keep the order of the others.              *)

\* r is q without its k-th member and perhaps without others.
Thinned(q, r, k) ==
    \E f \in [DOMAIN r -> DOMAIN q \ {k}] :
        /\ \A i \in DOMAIN r : r[i] = q[f[i]]
        /\ \A i, j \in DOMAIN r : i < j => f[i] < f[j]

LEMMA WithoutThins ==
    ASSUME NEW S, NEW q \in Seq(S), NEW k \in DOMAIN q
    PROVE  /\ Without(q, k) \in Seq(S)
           /\ Thinned(q, Without(q, k), k)
<1> DEFINE r == Without(q, k)
           f == [i \in 1 .. Len(q) - 1 |-> IF i < k THEN i ELSE i + 1]
<1>1. /\ Len(q) \in Nat /\ DOMAIN q = 1 .. Len(q) /\ k \in 1 .. Len(q)
      /\ \A i \in 1 .. Len(q) : q[i] \in S
  BY LenProperties
<1>2. DOMAIN r = 1 .. Len(q) - 1 /\ \A i \in DOMAIN r : r[i] = q[f[i]]
  BY <1>1 DEF Without
<1>3. f \in [DOMAIN r -> DOMAIN q \ {k}]
  BY <1>1, <1>2
<1>4. \A i, j \in DOMAIN r : i < j => f[i] < f[j]
  BY <1>1, <1>2
<1>5. Thinned(q, r, k)
  BY <1>2, <1>3, <1>4 DEF Thinned
<1>6. r \in Seq(S)
  <2>1. \A i \in 1 .. Len(q) - 1 : r[i] \in S
    BY <1>1, <1>2, <1>3
  <2>2. r = [i \in 1 .. Len(q) - 1 |-> r[i]]
    BY <1>2 DEF Without
  <2>3. r \in [1 .. Len(q) - 1 -> S]
    BY <2>1, <2>2
  <2> QED
    BY <1>1, <2>3
<1> QED
  BY <1>5, <1>6

LEMMA TailThins ==
    ASSUME NEW S, NEW q \in Seq(S), q # <<>>
    PROVE  /\ Head(q) = q[1] /\ 1 \in DOMAIN q
           /\ Tail(q) \in Seq(S)
           /\ Thinned(q, Tail(q), 1)
<1> DEFINE f == [i \in 1 .. Len(q) - 1 |-> i + 1]
<1>1. Len(q) \in Nat \ {0} /\ DOMAIN q = 1 .. Len(q)
  BY LenProperties, EmptySeq
<1>2. Tail(q) \in Seq(S) /\ DOMAIN Tail(q) = 1 .. Len(q) - 1
  BY HeadTailProperties, LenProperties
<1>3. \A i \in DOMAIN Tail(q) : Tail(q)[i] = q[f[i]]
  BY <1>1, <1>2, HeadTailProperties
<1>4. f \in [DOMAIN Tail(q) -> DOMAIN q \ {1}]
      /\ \A i, j \in DOMAIN Tail(q) : i < j => f[i] < f[j]
  BY <1>1, <1>2
<1>5. Thinned(q, Tail(q), 1)
  BY <1>3, <1>4 DEF Thinned
<1> QED
  BY <1>1, <1>2, <1>5

LEMMA AppendAdds ==
    ASSUME NEW S, NEW q \in Seq(S), NEW x \in S
    PROVE  /\ Append(q, x) \in Seq(S)
           /\ Len(q) + 1 \notin DOMAIN q
           /\ DOMAIN Append(q, x) = DOMAIN q \cup {Len(q) + 1}
           /\ \A i \in DOMAIN q : i < Len(q) + 1 /\ Append(q, x)[i] = q[i]
           /\ Append(q, x)[Len(q) + 1] = x
<1>1. Len(q) \in Nat /\ DOMAIN q = 1 .. Len(q)
  BY LenProperties
<1>2. /\ Append(q, x) \in Seq(S) /\ Len(Append(q, x)) = Len(q) + 1
      /\ \A i \in 1 .. Len(q) : Append(q, x)[i] = q[i]
      /\ Append(q, x)[Len(q) + 1] = x
  BY <1>1, AppendProperties
<1>3. DOMAIN Append(q, x) = 1 .. Len(q) + 1
  BY <1>2, LenProperties
<1> QED
  BY <1>1, <1>2, <1>3

-----------------------------------------------------------------------------
(* The messages on their way: what is left of the current packet (in front *)
(* of all others, numbered 0), and the packets behind it.                  *)

Places(b, q) ==
    {p \in Nat \X Nat : IF p[1] = 0 THEN p[2] \in DOMAIN b
                        ELSE p[1] \in DOMAIN q /\ p[2] \in DOMAIN q[p[1]]}

MsgAt(b, q, p) == IF p[1] = 0 THEN b[p[2]] ELSE q[p[1]][p[2]]

Before(p, q) == p[1] < q[1] \/ (p[1] = q[1] /\ p[2] < q[2])

\* Messages move up, keep their order, and those at the places gone are lost.
Moved(b, q, b2, q2, gone) ==
    \E f \in [Places(b2, q2) -> Places(b, q) \ gone] :
        /\ \A p \in Places(b2, q2) : MsgAt(b2, q2, p) = MsgAt(b, q, f[p])
        /\ \A p, r \in Places(b2, q2) : Before(p, r) => Before(f[p], f[r])

LEMMA MailStays ==
    ASSUME NEW b, NEW q
    PROVE  Moved(b, q, b, q, {})
<1> DEFINE f == [p \in Places(b, q) |-> p]
<1>1. f \in [Places(b, q) -> Places(b, q) \ {}]
  OBVIOUS
<1> QED
  BY <1>1 DEF Moved

LEMMA MailDrops ==
    ASSUME NEW b, NEW q
    PROVE  Moved(b, q, <<>>, q, {})
<1> DEFINE f == [p \in Places(<<>>, q) |-> p]
<1>1. f \in [Places(<<>>, q) -> Places(b, q) \ {}]
  BY DEF Places
<1>2. \A p \in Places(<<>>, q) : MsgAt(<<>>, q, p) = MsgAt(b, q, p)
  BY DEF Places, MsgAt
<1> QED
  BY <1>1, <1>2 DEF Moved

LEMMA MailNext ==
    ASSUME NEW S, NEW b \in Seq(S), NEW q, b # <<>>
    PROVE  /\ Moved(b, q, Tail(b), q, {<<0, 1>>})
           /\ <<0, 1>> \in Places(b, q)
           /\ MsgAt(b, q, <<0, 1>>) = Head(b)
<1> DEFINE f == [p \in Places(Tail(b), q) |->
                    IF p[1] = 0 THEN <<0, p[2] + 1>> ELSE p]
<1>1. /\ Len(b) \in Nat \ {0} /\ DOMAIN b = 1 .. Len(b)
      /\ DOMAIN Tail(b) = 1 .. Len(b) - 1
      /\ \A i \in 1 .. Len(b) - 1 : Tail(b)[i] = b[i + 1]
      /\ Head(b) = b[1]
  BY LenProperties, EmptySeq, HeadTailProperties
<1>2. ASSUME NEW p \in Places(Tail(b), q)
      PROVE  /\ f[p] \in Places(b, q) \ {<<0, 1>>}
             /\ MsgAt(Tail(b), q, p) = MsgAt(b, q, f[p])
  <2>1. CASE p[1] = 0
    <3>1. p[2] \in 1 .. Len(b) - 1 /\ f[p] = <<0, p[2] + 1>>
      BY <1>1, <2>1 DEF Places
    <3>2. p[2] + 1 \in DOMAIN b /\ p[2] + 1 # 1 /\ b[p[2] + 1] = Tail(b)[p[2]]
      BY <1>1, <3>1
    <3> HIDE DEF f
    <3>3. f[p][1] = 0 /\ f[p][2] = p[2] + 1 /\ f[p] \in Nat \X Nat
      BY <1>1, <3>1
    <3>4. f[p] \in Places(b, q) \ {<<0, 1>>}
      BY <3>2, <3>3 DEF Places
    <3> QED
      BY <2>1, <3>2, <3>3, <3>4 DEF MsgAt
  <2>2. CASE p[1] # 0
    BY <2>2 DEF Places, MsgAt
  <2> QED
    BY <2>1, <2>2
<1>3. \A p, r \in Places(Tail(b), q) : Before(p, r) => Before(f[p], f[r])
  BY DEF Before, Places
<1>4. f \in [Places(Tail(b), q) -> Places(b, q) \ {<<0, 1>>}]
  BY <1>2
<1>5. Moved(b, q, Tail(b), q, {<<0, 1>>})
  BY <1>2, <1>3, <1>4 DEF Moved
<1> QED
  BY <1>1, <1>5 DEF Places, MsgAt

\* The next packet becomes the current one, or is thrown away.
LEMMA MailRead ==
    ASSUME NEW S, NEW b, NEW q \in Seq(Seq(S)), q # <<>>
    PROVE  /\ Moved(b, q, Head(q), Tail(q), {})
           /\ Moved(b, q, b, Tail(q), {})
<1>1. /\ Len(q) \in Nat \ {0} /\ DOMAIN q = 1 .. Len(q)
      /\ DOMAIN Tail(q) = 1 .. Len(q) - 1
      /\ \A i \in 1 .. Len(q) - 1 : Tail(q)[i] = q[i + 1]
      /\ Head(q) = q[1]
  <2>1. Len(q) \in Nat \ {0} /\ DOMAIN q = 1 .. Len(q)
    BY LenProperties, EmptySeq
  <2>2. Tail(q) \in Seq(Seq(S)) /\ Len(Tail(q)) = Len(q) - 1
        /\ \A i \in 1 .. Len(Tail(q)) : Tail(q)[i] = q[i + 1]
    BY HeadTailProperties
  <2>3. DOMAIN Tail(q) = 1 .. Len(q) - 1
    BY <2>2, LenProperties
  <2> QED
    BY <2>1, <2>2, <2>3
<1>2. Moved(b, q, Head(q), Tail(q), {})
  <2> DEFINE f == [p \in Places(Head(q), Tail(q)) |-> <<p[1] + 1, p[2]>>]
  <2>1. ASSUME NEW p \in Places(Head(q), Tail(q))
        PROVE  /\ f[p] \in Places(b, q)
               /\ MsgAt(Head(q), Tail(q), p) = MsgAt(b, q, f[p])
    <3>1. /\ p[1] \in Nat /\ p[2] \in Nat /\ p[1] + 1 # 0
          /\ f[p] \in Nat \X Nat /\ f[p][1] = p[1] + 1 /\ f[p][2] = p[2]
      BY DEF Places
    <3>2. CASE p[1] = 0
      <4>1. p[2] \in DOMAIN q[1] /\ f[p][1] = 1 /\ 1 \in DOMAIN q
        <5>1. p[2] \in DOMAIN Head(q)
          BY <3>2 DEF Places
        <5> QED
          BY <1>1, <3>1, <3>2, <5>1
      <4>2. f[p] \in Places(b, q)
        BY <3>1, <4>1 DEF Places
      <4> QED
        BY <1>1, <3>1, <3>2, <4>1, <4>2 DEF MsgAt
    <3>3. CASE p[1] # 0
      <4>1. p[1] \in 1 .. Len(q) - 1 /\ p[2] \in DOMAIN Tail(q)[p[1]]
        BY <1>1, <3>3 DEF Places
      <4>2. Tail(q)[p[1]] = q[p[1] + 1] /\ p[1] + 1 \in DOMAIN q
        BY <1>1, <4>1
      <4>3. f[p] \in Places(b, q)
        BY <3>1, <4>1, <4>2 DEF Places
      <4> QED
        BY <3>1, <3>3, <4>2, <4>3 DEF MsgAt
    <3> QED
      BY <3>2, <3>3
  <2>2. \A p, r \in Places(Head(q), Tail(q)) : Before(p, r) => Before(f[p], f[r])
    BY DEF Before, Places
  <2>3. f \in [Places(Head(q), Tail(q)) -> Places(b, q) \ {}]
    BY <2>1
  <2>4. \A p \in Places(Head(q), Tail(q)) : MsgAt(Head(q), Tail(q), p) = MsgAt(b, q, f[p])
    BY <2>1
  <2> HIDE DEF f
  <2> QED
    BY <2>2, <2>3, <2>4 DEF Moved
<1>3. Moved(b, q, b, Tail(q), {})
  <2> DEFINE f == [p \in Places(b, Tail(q)) |->
                      IF p[1] = 0 THEN p ELSE <<p[1] + 1, p[2]>>]
  <2>1. ASSUME NEW p \in Places(b, Tail(q))
        PROVE  /\ f[p] \in Places(b, q)
               /\ MsgAt(b, Tail(q), p) = MsgAt(b, q, f[p])
    <3>1. p[1] \in Nat /\ p[2] \in Nat /\ p[1] + 1 # 0
      BY DEF Places
    <3>2. CASE p[1] = 0
      BY <3>2 DEF Places, MsgAt
    <3>3. CASE p[1] # 0
      <4>1. p[1] \in 1 .. Len(q) - 1 /\ p[2] \in DOMAIN Tail(q)[p[1]]
        BY <1>1, <3>3 DEF Places
      <4>2. Tail(q)[p[1]] = q[p[1] + 1] /\ p[1] + 1 \in DOMAIN q
        BY <1>1, <4>1
      <4>3. f[p] \in Nat \X Nat /\ f[p][1] = p[1] + 1 /\ f[p][2] = p[2]
        BY <3>1, <3>3
      <4>4. f[p] \in Places(b, q)
        BY <3>1, <4>1, <4>2, <4>3 DEF Places
      <4> QED
        BY <3>1, <3>3, <4>2, <4>3, <4>4 DEF MsgAt
    <3> QED
      BY <3>2, <3>3
  <2>2. ASSUME NEW p \in Places(b, Tail(q)), NEW r \in Places(b, Tail(q)),
               Before(p, r)
        PROVE  Before(f[p], f[r])
    <3>1. p[1] \in Nat /\ p[2] \in Nat /\ r[1] \in Nat /\ r[2] \in Nat
      BY DEF Places
    <3>2. /\ f[p][1] = (IF p[1] = 0 THEN 0 ELSE p[1] + 1) /\ f[p][2] = p[2]
          /\ f[r][1] = (IF r[1] = 0 THEN 0 ELSE r[1] + 1) /\ f[r][2] = r[2]
      OBVIOUS
    <3> HIDE DEF f
    <3> QED
      BY <3>1, <3>2, <2>2 DEF Before
  <2>3. f \in [Places(b, Tail(q)) -> Places(b, q) \ {}]
    BY <2>1
  <2>4. \A p \in Places(b, Tail(q)) : MsgAt(b, Tail(q), p) = MsgAt(b, q, f[p])
    BY <2>1
  <2> HIDE DEF f
  <2> QED
    BY <2>2, <2>3, <2>4 DEF Moved
<1> QED
  BY <1>2, <1>3

\* One message comes in, behind all others.
Added(b, q, q2, msg) ==
    \E n \in Places(b, q2) :
        /\ n \notin Places(b, q)
        /\ Places(b, q2) = Places(b, q) \cup {n}
        /\ MsgAt(b, q2, n) = msg
        /\ \A p \in Places(b, q) :
              MsgAt(b, q2, p) = MsgAt(b, q, p) /\ Before(p, n)

LEMMA MailAdds ==
    ASSUME inbound \in Seq(Seq(Message)), NEW msg \in Message,
           SendToClient(msg)
    PROVE  /\ inbound' \in Seq(Seq(Message))
           /\ Added(batch, inbound, inbound', msg)
<1>1. CASE inbound' = Append(inbound, <<msg>>)
  <2> DEFINE n == <<Len(inbound) + 1, 1>>
  <2>1. <<msg>> \in Seq(Message) /\ DOMAIN <<msg>> = {1} /\ <<msg>>[1] = msg
    OBVIOUS
  <2>2. /\ inbound' \in Seq(Seq(Message))
        /\ Len(inbound) + 1 \notin DOMAIN inbound
        /\ DOMAIN inbound' = DOMAIN inbound \cup {Len(inbound) + 1}
        /\ \A i \in DOMAIN inbound :
              i < Len(inbound) + 1 /\ inbound'[i] = inbound[i]
        /\ inbound'[Len(inbound) + 1] = <<msg>>
    BY <1>1, <2>1, AppendAdds
  <2>3. Len(inbound) + 1 \in Nat \ {0}
    BY LenProperties
  <2>4. n \in Places(batch, inbound') /\ n \notin Places(batch, inbound)
    BY <2>1, <2>2, <2>3 DEF Places
  <2>5. Places(batch, inbound') = Places(batch, inbound) \cup {n}
    <3>1. ASSUME NEW p \in Places(batch, inbound'), p # n
          PROVE  p \in Places(batch, inbound)
      <4>1. CASE p[1] = Len(inbound) + 1
        <5>1. p[2] \in DOMAIN <<msg>> /\ p = <<p[1], p[2]>>
          BY <2>2, <2>3, <4>1 DEF Places
        <5> QED
          BY <2>1, <3>1, <4>1, <5>1
      <4>2. CASE p[1] # Len(inbound) + 1
        BY <2>2, <4>2 DEF Places
      <4> QED
        BY <4>1, <4>2
    <3>2. ASSUME NEW p \in Places(batch, inbound)
          PROVE  p \in Places(batch, inbound')
      BY <2>2 DEF Places
    <3> QED
      BY <2>4, <3>1, <3>2
  <2>6. MsgAt(batch, inbound', n) = msg
    BY <2>1, <2>2, <2>3 DEF MsgAt
  <2>7. ASSUME NEW p \in Places(batch, inbound)
        PROVE  MsgAt(batch, inbound', p) = MsgAt(batch, inbound, p) /\ Before(p, n)
    BY <2>2, <2>3 DEF Places, MsgAt, Before
  <2> QED
    BY <2>2, <2>4, <2>5, <2>6, <2>7 DEF Added
<1>2. CASE /\ inbound # <<>>
           /\ inbound' = [inbound EXCEPT ![Len(inbound)] = Append(@, msg)]
  <2> DEFINE k == Len(inbound)
             last == inbound[k]
             n == <<k, Len(last) + 1>>
  <2>1. k \in Nat \ {0} /\ DOMAIN inbound = 1 .. k /\ last \in Seq(Message)
    BY <1>2, LenProperties, EmptySeq, ElementOfSeq
  <2>2. /\ Append(last, msg) \in Seq(Message)
        /\ Len(last) + 1 \notin DOMAIN last
        /\ DOMAIN Append(last, msg) = DOMAIN last \cup {Len(last) + 1}
        /\ \A i \in DOMAIN last : i < Len(last) + 1 /\ Append(last, msg)[i] = last[i]
        /\ Append(last, msg)[Len(last) + 1] = msg
    BY <2>1, AppendAdds
  <2>3. /\ inbound' \in Seq(Seq(Message)) /\ DOMAIN inbound' = 1 .. k
        /\ inbound'[k] = Append(last, msg)
        /\ \A i \in 1 .. k : i # k => inbound'[i] = inbound[i]
    <3>1. inbound' = [inbound EXCEPT ![k] = Append(last, msg)] /\ k \in 1 .. Len(inbound)
      BY <1>2, <2>1
    <3>2. /\ inbound' \in Seq(Seq(Message)) /\ Len(inbound') = k
          /\ \A j \in 1 .. k :
                inbound'[j] = IF j = k THEN Append(last, msg) ELSE inbound[j]
      BY <2>2, <3>1, ExceptSeq
    <3>3. DOMAIN inbound' = 1 .. k
      BY <3>2, LenProperties
    <3> HIDE DEF k, last
    <3> QED
      BY <2>1, <3>2, <3>3
  <2>4. Len(last) + 1 \in Nat
    BY <2>1, LenProperties
  <2>5. n \in Places(batch, inbound') /\ n \notin Places(batch, inbound)
    <3>1. n \in Nat \X Nat /\ n[1] = k /\ n[2] = Len(last) + 1 /\ n[1] # 0
      BY <2>1, <2>4
    <3> HIDE DEF n, k
    <3>2. n[2] \in DOMAIN inbound'[n[1]] /\ n[2] \notin DOMAIN inbound[n[1]]
      BY <2>2, <2>3, <3>1
    <3>3. n[1] \in DOMAIN inbound'
      BY <2>1, <2>3, <3>1
    <3> QED
      BY <3>1, <3>2, <3>3 DEF Places
  <2>6. Places(batch, inbound') = Places(batch, inbound) \cup {n}
    <3>1. ASSUME NEW p \in Places(batch, inbound'), p # n
          PROVE  p \in Places(batch, inbound)
      <4>1. CASE p[1] = k
        <5>1. p[2] \in DOMAIN inbound'[k] /\ p = <<p[1], p[2]>>
          BY <2>1, <4>1 DEF Places
        <5>2. p[2] \in DOMAIN last
          BY <2>2, <2>3, <3>1, <4>1, <5>1
        <5> QED
          BY <2>1, <4>1, <5>2 DEF Places
      <4>2. CASE p[1] # k
        BY <2>1, <2>3, <4>2 DEF Places
      <4> QED
        BY <4>1, <4>2
    <3>2. ASSUME NEW p \in Places(batch, inbound)
          PROVE  p \in Places(batch, inbound')
      BY <2>1, <2>2, <2>3 DEF Places
    <3> QED
      BY <2>5, <3>1, <3>2
  <2>7. MsgAt(batch, inbound', n) = msg
    BY <2>1, <2>2, <2>3 DEF MsgAt
  <2>8. ASSUME NEW p \in Places(batch, inbound)
        PROVE  MsgAt(batch, inbound', p) = MsgAt(batch, inbound, p) /\ Before(p, n)
    <3>1. p[1] \in Nat /\ p[2] \in Nat /\ n[1] = k /\ n[2] = Len(last) + 1
      BY DEF Places
    <3>2. CASE p[1] = 0
      BY <2>1, <3>1, <3>2 DEF MsgAt, Before
    <3>3. CASE p[1] = k
      <4>1. p[2] \in DOMAIN last
        BY <2>1, <3>3 DEF Places
      <4>2. p[2] < Len(last) + 1 /\ inbound'[k][p[2]] = last[p[2]]
        BY <2>2, <2>3, <4>1
      <4>3. MsgAt(batch, inbound', p) = MsgAt(batch, inbound, p)
        BY <2>1, <3>3, <4>2 DEF MsgAt
      <4>4. Before(p, n)
        BY <3>1, <3>3, <4>2 DEF Before
      <4> QED
        BY <4>3, <4>4
    <3>4. CASE p[1] # 0 /\ p[1] # k
      <4>1. p[1] \in 1 .. k
        BY <2>1, <3>4 DEF Places
      <4>2. inbound'[p[1]] = inbound[p[1]]
        BY <2>3, <3>4, <4>1
      <4>3. MsgAt(batch, inbound', p) = MsgAt(batch, inbound, p)
        BY <3>4, <4>2 DEF MsgAt
      <4>4. Before(p, n)
        BY <2>1, <3>1, <3>4, <4>1 DEF Before
      <4> QED
        BY <4>3, <4>4
    <3> QED
      BY <3>2, <3>3, <3>4
  <2> QED
    BY <2>3, <2>5, <2>6, <2>7, <2>8 DEF Added
<1> QED
  BY <1>1, <1>2 DEF SendToClient

LEMMA MailTyped ==
    ASSUME NEW S, NEW b \in Seq(S), NEW q \in Seq(Seq(S)),
           NEW p \in Places(b, q)
    PROVE  MsgAt(b, q, p) \in S
<1>1. CASE p[1] = 0
  BY <1>1, LenProperties, ElementOfSeq DEF Places, MsgAt
<1>2. CASE p[1] # 0
  <2>1. q[p[1]] \in Seq(S) /\ p[2] \in DOMAIN q[p[1]]
    BY <1>2, LenProperties, ElementOfSeq DEF Places
  <2>2. q[p[1]][p[2]] \in S
    BY <2>1, LenProperties, ElementOfSeq
  <2> QED
    BY <1>2, <2>2 DEF MsgAt
<1> QED
  BY <1>1, <1>2

-----------------------------------------------------------------------------
(* The invariant: types, and what message ids say.                         *)

Mail == Places(batch, inbound)
At(p) == MsgAt(batch, inbound, p)

\* A packet under a new id; a resent message has the id it had.
IsNew(job) == job.kind # "again"

CallsOK ==
    /\ pc \in [Calls -> {"idle", "sending", "waiting", "sleeping", "done"}]
    /\ floods \in [Calls -> 0 .. MaxFlood]
    /\ fut \in [Calls -> FutState]
    /\ ids \in [Calls -> SUBSET Nat]
    /\ outcome \in [Calls -> Outcomes]
    /\ \A c \in Calls : \A m \in ids[c] : m <= written

TablesOK ==
    /\ pending \in [DOMAIN pending -> Calls] /\ DOMAIN pending \subseteq Nat
    /\ sent \in [DOMAIN sent -> Calls] /\ DOMAIN sent \subseteq Nat
    /\ \A m \in DOMAIN pending : m <= written

(* New ids wait in their order, all of them above what has been written.   *)
LockOK ==
    /\ lock \in Seq(Job) /\ lastId \in Nat /\ written \in Nat
    /\ written <= lastId
    /\ \A i \in DOMAIN lock :
          /\ (lock[i].kind = "ack") <=> (lock[i].call = NoCall)
          /\ IsNew(lock[i]) => written < lock[i].id /\ lock[i].id <= lastId
          /\ ~IsNew(lock[i]) => lock[i].id <= written
    /\ \A i, j \in DOMAIN lock :
          i < j /\ IsNew(lock[i]) /\ IsNew(lock[j]) => lock[i].id < lock[j].id

MailOK ==
    /\ batch \in Seq(Message) /\ inbound \in Seq(Seq(Message))
    /\ \A p \in Mail : At(p).req <= written

ReaderOK ==
    /\ salt \in Nat
    /\ reader \in {"off", "reading", "handling", "sending", "crashed"}
    /\ needAck \in BOOLEAN
    /\ queued \in 0 .. QueueSize
    /\ closed \in BOOLEAN

ServerOK ==
    /\ atServer \subseteq [id : Nat, call : Calls, salt : Nat]
    /\ srvSalt \in Nat /\ extra \in Nat
    /\ executed \subseteq [id : Nat, call : Calls]
    /\ \A r \in atServer : r.id <= written
    /\ \A e \in executed : e.id <= written

TInv == CallsOK /\ TablesOK /\ LockOK /\ MailOK /\ ReaderOK /\ ServerOK

LEMMA TInvTypes == TInv => TypeOK
BY DEF TInv, TypeOK, CallsOK, TablesOK, LockOK, MailOK, ReaderOK, ServerOK

LEMMA InitTInv == Init => TInv
<1> SUFFICES ASSUME Init PROVE TInv
  OBVIOUS
<1> USE DEF Init
<1>1. CallsOK
  BY BoundsAssumption DEF CallsOK, FutState, Outcomes
<1>2. TablesOK
  BY DEF TablesOK
<1>3. LockOK
  BY DEF LockOK
<1>4. MailOK
  BY DEF MailOK, Mail, Places
<1>5. ReaderOK
  <2>1. salt \in Nat /\ reader = "off" /\ queued \in 0 .. QueueSize
    BY BoundsAssumption
  <2>2. needAck \in BOOLEAN /\ closed \in BOOLEAN
    BY Zenon
  <2> QED
    BY <2>1, <2>2, Zenon DEF ReaderOK
<1>6. ServerOK
  BY BoundsAssumption DEF ServerOK
<1> QED
  BY <1>1, <1>2, <1>3, <1>4, <1>5, <1>6 DEF TInv

\* What a step leaves alone stays right while written only grows.
LEMMA Kept ==
    ASSUME TInv, written' \in Nat, written <= written'
    PROVE  /\ UNCHANGED callVars => CallsOK'
           /\ UNCHANGED tableVars => TablesOK'
           /\ UNCHANGED <<batch, inbound>> => MailOK'
           /\ UNCHANGED <<salt, reader, needAck, queued, closed>> => ReaderOK'
           /\ UNCHANGED serverVars => ServerOK'
<1> USE DEF TInv
<1>0. written \in Nat
  BY DEF LockOK
<1>1. UNCHANGED callVars => CallsOK'
  BY <1>0 DEF CallsOK, callVars
<1>2. UNCHANGED tableVars => TablesOK'
  BY <1>0 DEF TablesOK, tableVars
<1>3. UNCHANGED <<batch, inbound>> => MailOK'
  <2> SUFFICES ASSUME batch' = batch, inbound' = inbound PROVE MailOK'
    OBVIOUS
  <2>1. ASSUME NEW p \in Mail PROVE At(p).req \in Nat
    <3>1. At(p) \in Message
      BY <2>1, MailTyped DEF MailOK, Mail, At
    <3> QED
      BY <3>1 DEF Message
  <2> QED
    BY <1>0, <2>1 DEF MailOK, Mail, At
<1>4. UNCHANGED <<salt, reader, needAck, queued, closed>> => ReaderOK'
  BY DEF ReaderOK
<1>5. UNCHANGED serverVars => ServerOK'
  BY <1>0 DEF ServerOK, serverVars
<1> QED
  BY <1>1, <1>2, <1>3, <1>4, <1>5

-----------------------------------------------------------------------------
(* The mail.                                                               *)

LEMMA MailMoved ==
    ASSUME MailOK, NEW gone, Moved(batch, inbound, batch', inbound', gone),
           batch' \in Seq(Message), inbound' \in Seq(Seq(Message)),
           written \in Nat, written' \in Nat, written <= written'
    PROVE  MailOK'
<1>1. PICK f \in [Places(batch', inbound') -> Mail \ gone] :
         \A p \in Places(batch', inbound') :
            MsgAt(batch', inbound', p) = At(f[p])
  BY DEF Moved, Mail, At
<1>2. \A p \in Places(batch', inbound') : f[p] \in Mail
  BY <1>1
<1>3. ASSUME NEW p \in Mail PROVE At(p).req \in Nat /\ At(p).req <= written'
  <2>1. At(p) \in Message
    BY <1>3, MailTyped DEF MailOK, Mail, At
  <2>2. At(p).req \in Nat
    BY <2>1 DEF Message
  <2> QED
    BY <1>3, <2>2 DEF MailOK
<1> QED
  BY <1>1, <1>2, <1>3 DEF MailOK, Mail, At

LEMMA MailAdded ==
    ASSUME MailOK, NEW msg \in Message, SendToClient(msg), msg.req <= written,
           UNCHANGED <<batch, written>>
    PROVE  MailOK'
<1>1. inbound' \in Seq(Seq(Message)) /\ Added(batch, inbound, inbound', msg)
  BY MailAdds DEF MailOK
<1>2. \A p \in Mail' : At(p)' = msg \/ (p \in Mail /\ At(p)' = At(p))
  BY <1>1 DEF Added, Mail, At
<1> QED
  BY <1>1, <1>2 DEF MailOK, Mail, At

-----------------------------------------------------------------------------
(* The lock.                                                               *)

LEMMA EnterLockOK ==
    ASSUME LockOK, NEW kind \in {"call", "retry", "ack"},
           NEW c \in Calls \cup {NoCall}, (kind = "ack") <=> (c = NoCall),
           NEW version \in Nat,
           EnterLock(kind, c, version), written' = written
    PROVE  LockOK'
<1> DEFINE job == [kind |-> kind, id |-> NewId, call |-> c, salt |-> version]
           n == Len(lock) + 1
<1>1. job \in Job /\ NewId = lastId + 1 /\ NewId \in Nat /\ IsNew(job)
  BY DEF LockOK, NewId, Job, JobKinds, IsNew
<1>2. /\ lock' \in Seq(Job) /\ n \notin DOMAIN lock
      /\ DOMAIN lock' = DOMAIN lock \cup {n}
      /\ \A i \in DOMAIN lock : i < n /\ lock'[i] = lock[i]
      /\ lock'[n] = job
  BY <1>1, AppendAdds DEF LockOK, EnterLock
<1>3. lastId' = lastId + 1 /\ lastId' \in Nat /\ job.id = lastId'
      /\ job.kind = kind /\ job.call = c /\ written \in Nat /\ lastId \in Nat
  BY <1>1 DEF LockOK, EnterLock
<1>4. \A i \in DOMAIN lock : lock[i].id \in Nat
  <2>1. \A i \in DOMAIN lock : lock[i] \in Job
    BY LenProperties, ElementOfSeq DEF LockOK
  <2> QED
    BY <2>1 DEF Job
<1>5. n \in Nat /\ \A i \in DOMAIN lock : i \in Nat
  BY LenProperties DEF LockOK
<1> HIDE DEF job, n
<1>6. ASSUME NEW i \in DOMAIN lock'
      PROVE  /\ (lock'[i].kind = "ack") <=> (lock'[i].call = NoCall)
             /\ IsNew(lock'[i]) => written' < lock'[i].id /\ lock'[i].id <= lastId'
             /\ ~IsNew(lock'[i]) => lock'[i].id <= written'
  BY <1>1, <1>2, <1>3, <1>4 DEF LockOK
<1>7. ASSUME NEW i \in DOMAIN lock', NEW j \in DOMAIN lock',
             i < j, IsNew(lock'[i]), IsNew(lock'[j])
      PROVE  lock'[i].id < lock'[j].id
  <2>1. i \in DOMAIN lock
    BY <1>2, <1>5, <1>7
  <2> QED
    BY <1>2, <1>3, <1>4, <1>7, <2>1 DEF LockOK
<1> QED
  BY <1>2, <1>3, <1>6, <1>7 DEF LockOK

\* A task leaves the lock and nothing is written.
LEMMA LeaveLockOK ==
    ASSUME LockOK, NEW k \in DOMAIN lock, Thinned(lock, lock', k),
           lock' \in Seq(Job), UNCHANGED <<lastId, written>>
    PROVE  LockOK'
<1>1. PICK f \in [DOMAIN lock' -> DOMAIN lock \ {k}] :
          /\ \A i \in DOMAIN lock' : lock'[i] = lock[f[i]]
          /\ \A i, j \in DOMAIN lock' : i < j => f[i] < f[j]
  BY DEF Thinned
<1>2. \A i \in DOMAIN lock' : f[i] \in DOMAIN lock
  BY <1>1
<1> QED
  BY <1>1, <1>2 DEF LockOK

\* The holder leaves the lock and its packet has been written.
LEMMA DeliverOK ==
    ASSUME LockOK, ServerOK, lock # <<>>, Deliver(Head(lock)),
           lock' \in Seq(Job), Thinned(lock, lock', 1), lastId' = lastId,
           UNCHANGED <<srvSalt, extra, executed>>
    PROVE  /\ LockOK' /\ ServerOK'
           /\ written' \in Nat /\ written <= written'
           /\ written' # written => written < written'
           /\ Head(lock).id <= written'
<1>1. Head(lock) = lock[1] /\ 1 \in DOMAIN lock
  BY TailThins DEF LockOK
<1>2. PICK f \in [DOMAIN lock' -> DOMAIN lock \ {1}] :
          /\ \A i \in DOMAIN lock' : lock'[i] = lock[f[i]]
          /\ \A i, j \in DOMAIN lock' : i < j => f[i] < f[j]
  BY DEF Thinned
<1>3. \A i \in DOMAIN lock' : f[i] \in DOMAIN lock /\ 1 < f[i]
  BY <1>2, LenProperties DEF LockOK
<1>4. \A i \in DOMAIN lock : lock[i] \in Job
  BY LenProperties, ElementOfSeq DEF LockOK
<1>5. written \in Nat /\ lastId \in Nat /\ lock[1].id \in Nat
  BY <1>1, <1>4 DEF LockOK, Job
<1>6. /\ written' = IF IsNew(lock[1]) THEN lock[1].id ELSE written
      /\ written' \in Nat /\ written <= written'
      /\ written' # written => written < written'
      /\ lock[1].id <= written' /\ written' <= lastId
  <2>1. written' = IF IsNew(lock[1]) THEN lock[1].id ELSE written
    BY <1>1 DEF Deliver, IsNew
  <2> QED
    BY <1>1, <1>5, <2>1 DEF LockOK
<1>7. LockOK'
  <2>1. ASSUME NEW i \in DOMAIN lock'
        PROVE  /\ (lock'[i].kind = "ack") <=> (lock'[i].call = NoCall)
               /\ IsNew(lock'[i]) => written' < lock'[i].id /\ lock'[i].id <= lastId
               /\ ~IsNew(lock'[i]) => lock'[i].id <= written'
    <3>1. lock'[i] = lock[f[i]] /\ f[i] \in DOMAIN lock /\ 1 < f[i]
          /\ lock[f[i]].id \in Nat
      BY <1>2, <1>3, <1>4 DEF Job
    <3> QED
      BY <1>1, <1>5, <1>6, <3>1 DEF LockOK
  <2>2. \A i, j \in DOMAIN lock' :
           i < j /\ IsNew(lock'[i]) /\ IsNew(lock'[j]) => lock'[i].id < lock'[j].id
    BY <1>2, <1>3 DEF LockOK
  <2> QED
    BY <1>6, <2>1, <2>2 DEF LockOK
<1>8. ServerOK'
  <2>1. CASE lock[1].kind = "ack"
    BY <1>1, <1>5, <1>6, <2>1 DEF ServerOK, Deliver
  <2>2. CASE lock[1].kind # "ack"
    <3>1. lock[1].call \in Calls
      BY <1>1, <1>4, <2>2 DEF LockOK, Job
    <3>2. atServer' = atServer \cup {[id |-> lock[1].id, call |-> lock[1].call,
                                     salt |-> lock[1].salt]}
      BY <1>1, <2>2 DEF Deliver
    <3>3. [id |-> lock[1].id, call |-> lock[1].call, salt |-> lock[1].salt]
            \in [id : Nat, call : Calls, salt : Nat]
      BY <1>1, <1>4, <3>1 DEF Job
    <3>4. \A r \in atServer' : r.id <= written'
      BY <1>5, <1>6, <3>2 DEF ServerOK
    <3>5. \A e \in executed : e.id <= written'
      BY <1>5, <1>6 DEF ServerOK
    <3> QED
      BY <3>2, <3>3, <3>4, <3>5 DEF ServerOK
  <2> QED
    BY <2>1, <2>2
<1> QED
  BY <1>1, <1>6, <1>7, <1>8

LEMMA WithdrawOK ==
    ASSUME LockOK, ServerOK, NEW k \in DOMAIN lock, Withdraw(k),
           UNCHANGED <<lastId, srvSalt, extra, executed>>
    PROVE  /\ LockOK' /\ ServerOK'
           /\ written' \in Nat /\ written <= written'
           /\ written' # written => written < written'
<1>1. /\ lock # <<>> /\ Head(lock) = lock[1]
      /\ lock' \in Seq(Job) /\ Thinned(lock, lock', k)
  <2>1. lock # <<>>
    BY LenProperties, EmptySeq DEF LockOK
  <2>2. lock' = Without(lock, k)
    BY DEF Withdraw
  <2> QED
    BY <2>1, <2>2, WithoutThins, TailThins DEF LockOK
<1>2. CASE k = 1 /\ Deliver(lock[1])
  BY <1>1, <1>2, DeliverOK
<1>3. CASE UNCHANGED <<atServer, written>>
  <2>1. LockOK'
    BY <1>1, <1>3, LeaveLockOK
  <2>2. ServerOK'
    BY <1>3 DEF ServerOK
  <2> QED
    BY <1>3, <2>1, <2>2 DEF LockOK
<1> QED
  BY <1>2, <1>3 DEF Withdraw

-----------------------------------------------------------------------------
(* Every step keeps the invariant, and no step writes an older new id.     *)

Step == TInv' /\ (written' # written => written' > written)

LEMMA QuietStep ==
    ASSUME TInv, UNCHANGED written,
           CallsOK', TablesOK', LockOK', MailOK', ReaderOK', ServerOK'
    PROVE  Step
BY DEF Step, TInv

LEMMA WrittenNat == TInv => written \in Nat /\ written <= written
BY DEF TInv, LockOK

LEMMA LockKept ==
    TInv /\ UNCHANGED <<lock, lastId, written>> => LockOK'
BY DEF TInv, LockOK

LEMMA BeginRoundOK ==
    ASSUME TInv, NEW c \in Calls, BeginRound(c),
           UNCHANGED <<floods, outcome, written>>
    PROVE  CallsOK' /\ LockOK'
<1>1. salt \in Nat /\ c # NoCall
  BY CallsAssumption DEF TInv, ReaderOK
<1>2. LockOK'
  BY <1>1, EnterLockOK DEF BeginRound, TInv
<1>3. CallsOK'
  <2>1. pc' \in [Calls -> {"idle", "sending", "waiting", "sleeping", "done"}]
    BY DEF BeginRound, TInv, CallsOK
  <2>2. fut' \in [Calls -> FutState]
    BY DEF BeginRound, TInv, CallsOK, FutState
  <2>3. ids' \in [Calls -> SUBSET Nat] /\ \A d \in Calls : \A m \in ids'[d] : m <= written'
    BY DEF BeginRound, TInv, CallsOK
  <2> QED
    BY <2>1, <2>2, <2>3 DEF TInv, CallsOK
<1> QED
  BY <1>2, <1>3

LEMMA CleanupOK ==
    ASSUME TInv, NEW mids, _CleanupCall(mids), written' = written
    PROVE  TablesOK'
BY DEF _CleanupCall, Restrict, TInv, TablesOK

\* A call moves to another place; nothing else of it changes but its floods.
LEMMA MovesOK ==
    ASSUME TInv, NEW c \in Calls,
           NEW place \in {"idle", "sending", "waiting", "sleeping", "done"},
           pc' = [pc EXCEPT ![c] = place],
           floods' \in [Calls -> 0 .. MaxFlood],
           fut' \in [Calls -> FutState],
           outcome' \in [Calls -> Outcomes],
           ids' = ids, written' \in Nat, written <= written'
    PROVE  CallsOK'
<1>1. \A d \in Calls : \A m \in ids'[d] : m <= written'
  BY DEF TInv, CallsOK, LockOK
<1> QED
  BY <1>1 DEF TInv, CallsOK

LEMMA CallTInv ==
    ASSUME TInv, NEW c \in Calls, CallSteps(c)
    PROVE  Step
<1>0. TInv /\ written \in Nat /\ written <= written
  BY WrittenNat
<1>1. CASE Invoke(c)
  <2>1. /\ BeginRound(c) /\ UNCHANGED <<floods, outcome, tableVars, written, salt>>
        /\ reader' = IF reader = "off" THEN "reading" ELSE reader
        /\ UNCHANGED <<batch, needAck, queued, closed, inbound, serverVars>>
    BY <1>1 DEF Invoke
  <2>2. CallsOK' /\ LockOK'
    BY <2>1, BeginRoundOK
  <2>3. ReaderOK'
    BY <2>1, Zenon DEF TInv, ReaderOK
  <2> QED
    BY <1>0, <2>1, <2>2, <2>3, Kept, QuietStep
<1>2. CASE InvokeClosed(c)
  <2>1. CallsOK'
    <3>1. /\ pc' = [pc EXCEPT ![c] = "done"] /\ outcome' \in [Calls -> Outcomes]
          /\ UNCHANGED <<floods, fut, ids, written>>
      BY <1>2 DEF InvokeClosed, Returns, wireVars, TInv, CallsOK, Outcomes
    <3>2. floods' \in [Calls -> 0 .. MaxFlood] /\ fut' \in [Calls -> FutState]
      BY <3>1 DEF TInv, CallsOK
    <3> QED
      BY <1>0, <3>1, <3>2, MovesOK
  <2> QED
    BY <1>0, <1>2, <2>1, Kept, LockKept, QuietStep
       DEF InvokeClosed, wireVars, readerVars
<1>3. CASE Resume(c)
  <2>1. CallsOK'
    <3>1. fut[c] \in Outcomes
      BY <1>3 DEF Resume, Settled, Outcomes
    <3>2. outcome' \in [Calls -> Outcomes]
      BY <1>3, <3>1 DEF Resume, Returns, TInv, CallsOK
    <3>3. /\ pc' = [pc EXCEPT ![c] = "done"]
          /\ UNCHANGED <<floods, fut, ids, written>>
      BY <1>3 DEF Resume, Returns, wireVars
    <3>4. floods' \in [Calls -> 0 .. MaxFlood] /\ fut' \in [Calls -> FutState]
      BY <3>3 DEF TInv, CallsOK
    <3> QED
      BY <1>0, <3>2, <3>3, <3>4, MovesOK
  <2>2. TablesOK'
    BY <1>3, CleanupOK DEF Resume, wireVars
  <2> QED
    BY <1>0, <1>3, <2>1, <2>2, Kept, LockKept, QuietStep
       DEF Resume, wireVars, readerVars
<1>4. CASE SleepOnFlood(c)
  <2>1. CallsOK'
    <3>1. floods' \in [Calls -> 0 .. MaxFlood]
      BY <1>4, BoundsAssumption DEF SleepOnFlood, TInv, CallsOK
    <3> QED
      BY <1>0, <1>4, <3>1, MovesOK DEF SleepOnFlood, TInv, CallsOK, wireVars
  <2>2. TablesOK'
    BY <1>4, CleanupOK DEF SleepOnFlood, wireVars
  <2> QED
    BY <1>0, <1>4, <2>1, <2>2, Kept, LockKept, QuietStep
       DEF SleepOnFlood, wireVars, readerVars
<1>5. CASE RaiseFlood(c)
  <2>1. CallsOK'
    BY <1>0, <1>5, MovesOK DEF RaiseFlood, Returns, TInv, CallsOK, Outcomes, wireVars
  <2>2. TablesOK'
    BY <1>5, CleanupOK DEF RaiseFlood, wireVars
  <2> QED
    BY <1>0, <1>5, <2>1, <2>2, Kept, LockKept, QuietStep
       DEF RaiseFlood, wireVars, readerVars
<1>6. CASE WakeUp(c)
  <2>1. CallsOK' /\ LockOK'
    BY <1>6, BeginRoundOK DEF WakeUp
  <2> QED
    BY <1>0, <1>6, <2>1, Kept, QuietStep DEF WakeUp, readerVars
<1>7. CASE Timeout(c) \/ CancelWaiting(c)
  <2>1. /\ fut' = [fut EXCEPT ![c] = IF @ = "pending" THEN "cancelled" ELSE @]
        /\ _CleanupCall(ids[c])
        /\ Returns(c, "timeout") \/ Returns(c, "cancelled")
        /\ UNCHANGED <<floods, ids, wireVars, salt, readerVars, inbound, serverVars>>
    BY <1>7 DEF Timeout, CancelWaiting
  <2>2. CallsOK'
    <3>1. fut' \in [Calls -> FutState]
      BY <2>1 DEF TInv, CallsOK, FutState, Settled
    <3>2. outcome' \in [Calls -> Outcomes]
      BY <2>1 DEF Returns, TInv, CallsOK, Outcomes
    <3> QED
      BY <1>0, <2>1, <3>1, <3>2, MovesOK DEF Returns, TInv, CallsOK, wireVars
  <2>3. TablesOK'
    BY <2>1, CleanupOK DEF wireVars
  <2> QED
    BY <1>0, <2>1, <2>2, <2>3, Kept, LockKept, QuietStep DEF wireVars, readerVars
<1>8. CASE CancelSending(c)
  <2>1. PICK k \in DOMAIN lock : Withdraw(k)
    BY <1>8 DEF CancelSending
  <2>2. /\ LockOK' /\ ServerOK' /\ written' \in Nat /\ written <= written'
        /\ written' # written => written < written'
    BY <1>8, <2>1, WithdrawOK DEF CancelSending, TInv
  <2>3. CallsOK'
    <3>1. fut' \in [Calls -> FutState] /\ outcome' \in [Calls -> Outcomes]
      BY <1>8 DEF CancelSending, Returns, TInv, CallsOK, FutState, Settled, Outcomes
    <3> QED
      BY <1>8, <2>2, <3>1, MovesOK DEF CancelSending, Returns, TInv, CallsOK
  <2>4. TablesOK' /\ MailOK' /\ ReaderOK'
    BY <1>8, <2>2, Kept DEF CancelSending, readerVars
  <2> QED
    BY <1>0, <2>2, <2>3, <2>4 DEF Step, TInv
<1>9. CASE CancelSleeping(c)
  <2>1. CallsOK'
    BY <1>0, <1>9, MovesOK DEF CancelSleeping, Returns, TInv, CallsOK, Outcomes, wireVars
  <2> QED
    BY <1>0, <1>9, <2>1, Kept, LockKept, QuietStep
       DEF CancelSleeping, wireVars, readerVars
<1> QED
  BY <1>1, <1>2, <1>3, <1>4, <1>5, <1>6, <1>7, <1>8, <1>9 DEF CallSteps

-----------------------------------------------------------------------------
(* The ends of sends.                                                      *)

LEMMA RegisterOK ==
    ASSUME TInv, NEW c \in Calls, NEW id \in Nat, Register(c, id),
           written' \in Nat, written <= written', id <= written'
    PROVE  /\ TablesOK'
           /\ ids' \in [Calls -> SUBSET Nat]
           /\ \A d \in Calls : \A m \in ids'[d] : m <= written'
<1>0. written \in Nat
  BY WrittenNat
<1>1. TablesOK'
  <2>1. DOMAIN pending' = DOMAIN pending \cup {id} /\ DOMAIN sent' = DOMAIN sent \cup {id}
    BY DEF Register
  <2>2. pending' \in [DOMAIN pending' -> Calls] /\ sent' \in [DOMAIN sent' -> Calls]
    BY <2>1 DEF Register, TInv, TablesOK
  <2>3. \A m \in DOMAIN pending' : m \in Nat /\ m <= written'
    BY <1>0, <2>1 DEF TInv, TablesOK
  <2>4. DOMAIN sent' \subseteq Nat
    BY <2>1 DEF TInv, TablesOK
  <2> QED
    BY <2>2, <2>3, <2>4 DEF TablesOK
<1>2. ids' = [ids EXCEPT ![c] = ids[c] \cup {id}]
  BY DEF Register
<1>3. ids' \in [Calls -> SUBSET Nat]
  BY <1>2 DEF TInv, CallsOK
<1>4. ASSUME NEW d \in Calls, NEW m \in ids'[d] PROVE m <= written'
  <2>1. m \in ids[d] \/ m = id
    BY <1>2 DEF TInv, CallsOK
  <2>2. m \in ids[d] => m \in Nat /\ m <= written
    BY DEF TInv, CallsOK
  <2> QED
    BY <1>0, <2>1, <2>2
<1> QED
  BY <1>1, <1>3, <1>4

\* The tables are emptied and every call in them that waits is failed.
LEMMA FailPendingOK ==
    ASSUME TInv, FailPending, UNCHANGED <<pc, floods, ids, outcome>>,
           UNCHANGED <<inbound, salt, queued, closed>>,
           written' \in Nat, written <= written'
    PROVE  CallsOK' /\ TablesOK' /\ MailOK' /\ ReaderOK'
<1>0. written \in Nat
  BY WrittenNat
<1>1. CallsOK'
  <2>1. fut' \in [Calls -> FutState]
    BY DEF FailPending, TInv, CallsOK, FutState, Settled
  <2> QED
    BY <1>0, <2>1 DEF TInv, CallsOK
<1>2. TablesOK'
  BY DEF FailPending, Restrict, TablesOK
<1>3. MailOK'
  <2>1. batch' = <<>>
    BY DEF FailPending
  <2>2. Moved(batch, inbound, batch', inbound', {})
    BY <2>1, MailDrops
  <2> QED
    BY <1>0, <2>1, <2>2, MailMoved DEF TInv, MailOK
<1>4. ReaderOK'
  <2>1. needAck' \in BOOLEAN /\ closed' \in BOOLEAN
    BY Zenon DEF FailPending, TInv, ReaderOK
  <2>2. reader' = "crashed" /\ salt' \in Nat /\ queued' \in 0 .. QueueSize
    BY DEF FailPending, TInv, ReaderOK
  <2> QED
    BY <2>1, <2>2, Zenon DEF ReaderOK
<1> QED
  BY <1>1, <1>2, <1>3, <1>4

LEMMA SendTInv ==
    ASSUME TInv, SendEnds
    PROVE  Step
<1> DEFINE job == Head(lock)
<1>0. /\ lock # <<>> /\ lock' = Tail(lock) /\ lastId' = lastId
      /\ UNCHANGED <<inbound, salt, queued, closed, srvSalt, extra, executed>>
  BY DEF SendEnds, CallSent, CallSendFails, RetrySent, ResendSent, AckSent,
         ReaderSendFails, FailPending, readerVars
<1>1. /\ job \in Job /\ 1 \in DOMAIN lock /\ lock[1] = job
      /\ lock' \in Seq(Job) /\ Thinned(lock, lock', 1)
  BY <1>0, TailThins, LenProperties, ElementOfSeq DEF TInv, LockOK
<1>2. /\ job.kind # "ack" => job.call \in Calls
      /\ job.id \in Nat
  BY <1>1 DEF TInv, LockOK, Job
<1>3. Deliver(job) =>
         /\ LockOK' /\ ServerOK'
         /\ written' \in Nat /\ written <= written'
         /\ written' # written => written < written'
         /\ job.id <= written'
  BY <1>0, <1>1, DeliverOK DEF TInv
<1>4. written' = written => LockOK'
  BY <1>0, <1>1, LeaveLockOK DEF TInv
<1>5. MayDeliver(job) =>
         /\ LockOK' /\ ServerOK'
         /\ written' \in Nat /\ written <= written'
         /\ written' # written => written < written'
  <2>1. CASE Deliver(job)
    BY <1>3, <2>1
  <2>2. CASE UNCHANGED <<atServer, written>>
    BY <1>0, <1>4, <2>2, WrittenNat, Kept DEF serverVars
  <2> QED
    BY <2>1, <2>2 DEF MayDeliver
<1> HIDE DEF job
<1>6. CASE CallSent
  <2>1. /\ Deliver(job) /\ Register(job.call, job.id) /\ job.kind = "call"
        /\ pc' = [pc EXCEPT ![job.call] = "waiting"]
        /\ UNCHANGED <<floods, fut, outcome, batch, reader, needAck>>
    BY <1>6 DEF CallSent, job, readerVars
  <2>2. TablesOK' /\ ids' \in [Calls -> SUBSET Nat]
        /\ \A d \in Calls : \A m \in ids'[d] : m <= written'
    BY <1>2, <1>3, <2>1, RegisterOK
  <2>3. CallsOK'
    BY <1>2, <2>1, <2>2 DEF TInv, CallsOK
  <2>4. MailOK' /\ ReaderOK'
    BY <1>0, <1>3, <2>1, Kept
  <2> QED
    BY <1>3, <2>1, <2>2, <2>3, <2>4 DEF Step, TInv
<1>7. CASE CallSendFails
  <2>1. /\ pc' = [pc EXCEPT ![job.call] = "done"]
        /\ outcome' = [outcome EXCEPT ![job.call] = "sendError"]
        /\ UNCHANGED <<floods, fut, ids, tableVars, readerVars>>
        /\ job.call \in Calls /\ MayDeliver(job)
    BY <1>2, <1>7 DEF CallSendFails, Returns, job
  <2>2. CallsOK'
    BY <1>5, <2>1, WrittenNat DEF TInv, CallsOK, Outcomes
  <2>3. TablesOK' /\ MailOK' /\ ReaderOK'
    BY <1>0, <1>5, <2>1, Kept DEF readerVars
  <2> QED
    BY <1>5, <2>1, <2>2, <2>3 DEF Step, TInv
<1>8. CASE RetrySent
  <2>1. /\ Deliver(job) /\ Register(job.call, job.id) /\ job.kind = "retry"
        /\ reader' = "handling"
        /\ UNCHANGED <<pc, floods, fut, outcome, batch, needAck>>
    BY <1>8 DEF RetrySent, job
  <2>2. TablesOK' /\ ids' \in [Calls -> SUBSET Nat]
        /\ \A d \in Calls : \A m \in ids'[d] : m <= written'
    BY <1>2, <1>3, <2>1, RegisterOK
  <2>3. CallsOK'
    BY <2>1, <2>2 DEF TInv, CallsOK
  <2>4. MailOK'
    BY <1>0, <1>3, <2>1, Kept
  <2>5. ReaderOK'
    BY <1>0, <2>1, Zenon DEF TInv, ReaderOK
  <2> QED
    BY <1>3, <2>1, <2>2, <2>3, <2>4, <2>5 DEF Step, TInv
<1>9. CASE ResendSent \/ AckSent
  <2>1. /\ Deliver(job) /\ reader' \in {"handling", "reading"}
        /\ UNCHANGED <<callVars, tableVars, batch, needAck>>
    BY <1>9 DEF ResendSent, AckSent, job
  <2>2. CallsOK' /\ TablesOK' /\ MailOK'
    BY <1>0, <1>3, <2>1, Kept
  <2>3. ReaderOK'
    <3>1. reader' \in {"off", "reading", "handling", "sending", "crashed"}
      BY <2>1
    <3> QED
      BY <1>0, <2>1, <3>1, Zenon DEF TInv, ReaderOK
  <2> QED
    BY <1>3, <2>1, <2>2, <2>3 DEF Step, TInv
<1>10. CASE ReaderSendFails
  <2>1. /\ FailPending /\ MayDeliver(job)
        /\ UNCHANGED <<pc, floods, ids, outcome>>
    BY <1>10 DEF ReaderSendFails, job
  <2>2. CallsOK' /\ TablesOK' /\ MailOK' /\ ReaderOK'
    BY <1>0, <1>5, <2>1, FailPendingOK
  <2> QED
    BY <1>5, <2>1, <2>2 DEF Step, TInv
<1> QED
  BY <1>6, <1>7, <1>8, <1>9, <1>10 DEF SendEnds

-----------------------------------------------------------------------------
(* The receiver.                                                           *)

LEMMA CurrentOK ==
    ASSUME TInv, batch # <<>>
    PROVE  /\ Current \in Message /\ Current.req <= written
           /\ <<0, 1>> \in Mail /\ At(<<0, 1>>) = Current
<1>1. <<0, 1>> \in Mail /\ At(<<0, 1>>) = Current
  BY MailNext DEF TInv, MailOK, Mail, At, Current
<1>2. Current \in Message
  BY <1>1, MailTyped DEF TInv, MailOK, Mail, At
<1> QED
  BY <1>1, <1>2 DEF TInv, MailOK

LEMMA NextMessageOK ==
    ASSUME TInv, batch # <<>>, NextMessage, UNCHANGED <<inbound, written>>
    PROVE  /\ MailOK' /\ needAck' \in BOOLEAN
           /\ Moved(batch, inbound, batch', inbound', {<<0, 1>>})
<1>1. batch' = Tail(batch) /\ batch' \in Seq(Message) /\ inbound' \in Seq(Seq(Message))
  BY HeadTailProperties DEF NextMessage, TInv, MailOK
<1>2. Moved(batch, inbound, batch', inbound', {<<0, 1>>})
  BY <1>1, MailNext DEF TInv, MailOK
<1>3. needAck' \in BOOLEAN
  BY Zenon DEF NextMessage
<1> QED
  BY <1>1, <1>2, <1>3, WrittenNat, MailMoved DEF TInv

LEMMA SettleOK ==
    ASSUME TInv, NEW m, NEW result \in FutState, Settle(m, result)
    PROVE  fut' \in [Calls -> FutState]
BY DEF Settle, TInv, CallsOK

LEMMA FutOK ==
    ASSUME TInv, fut' \in [Calls -> FutState],
           UNCHANGED <<pc, floods, ids, outcome, written>>
    PROVE  CallsOK'
BY DEF TInv, CallsOK

LEMMA ReaderTyped ==
    ASSUME salt' \in Nat, needAck' \in BOOLEAN, queued' \in 0 .. QueueSize,
           reader' \in {"off", "reading", "handling", "sending", "crashed"},
           closed' \in BOOLEAN
    PROVE  ReaderOK'
BY Zenon DEF ReaderOK

\* The resend of an old message takes its place in the lock.
LEMMA AgainLockOK ==
    ASSUME TInv, NEW m \in Nat, m <= written, NEW c \in Calls,
           lock' = Append(lock, [kind |-> "again", id |-> m, call |-> c,
                                 salt |-> salt]),
           UNCHANGED <<lastId, written>>
    PROVE  LockOK'
<1> DEFINE job == [kind |-> "again", id |-> m, call |-> c, salt |-> salt]
           n == Len(lock) + 1
<1>1. /\ job \in Job /\ job.kind = "again" /\ job.call = c /\ job.id = m
      /\ ~IsNew(job) /\ c # NoCall
  BY CallsAssumption DEF TInv, ReaderOK, Job, JobKinds, IsNew
<1>2. /\ lock' \in Seq(Job) /\ n \notin DOMAIN lock
      /\ DOMAIN lock' = DOMAIN lock \cup {n}
      /\ \A i \in DOMAIN lock : i < n /\ lock'[i] = lock[i]
      /\ lock'[n] = job
  BY <1>1, AppendAdds DEF TInv, LockOK
<1> HIDE DEF job, n
<1>3. ASSUME NEW i \in DOMAIN lock'
      PROVE  /\ (lock'[i].kind = "ack") <=> (lock'[i].call = NoCall)
             /\ IsNew(lock'[i]) => written' < lock'[i].id /\ lock'[i].id <= lastId'
             /\ ~IsNew(lock'[i]) => lock'[i].id <= written'
  BY <1>1, <1>2 DEF TInv, LockOK
<1>4. ASSUME NEW i \in DOMAIN lock', NEW j \in DOMAIN lock',
             i < j, IsNew(lock'[i]), IsNew(lock'[j])
      PROVE  lock'[i].id < lock'[j].id
  BY <1>1, <1>2, <1>4 DEF TInv, LockOK
<1> QED
  BY <1>2, <1>3, <1>4 DEF TInv, LockOK

LEMMA ReceiverTInv ==
    ASSUME TInv, ReceiverSteps
    PROVE  Step
<1>0. /\ written \in Nat /\ written <= written /\ written' = written
      /\ UNCHANGED <<pc, floods, ids, outcome, serverVars, closed>>
  BY WrittenNat DEF ReceiverSteps, ReadPacket, ReadBadPacket, HandleAnswer,
     HandleNewSession, RetryOnBadSalt, HandleBadSalt, ResendMessage,
     IgnoreMessage, QueueUpdate, EndPacket, ReaderReadFails,
     callVars, readerVars, wireVars, serverVars
<1>1. ServerOK' /\ closed' \in BOOLEAN
  BY <1>0, Kept, Zenon DEF TInv, ReaderOK
<1>2. CASE ReadPacket
  <2>1. /\ inbound # <<>> /\ inbound' = Tail(inbound) /\ batch' = Head(inbound)
        /\ needAck' = FALSE /\ reader' = "handling"
        /\ UNCHANGED <<callVars, tableVars, wireVars, salt, queued>>
    BY <1>2 DEF ReadPacket
  <2>2. MailOK'
    <3>1. batch' \in Seq(Message) /\ inbound' \in Seq(Seq(Message))
      BY <2>1, HeadTailProperties DEF TInv, MailOK
    <3>2. Moved(batch, inbound, batch', inbound', {})
      BY <2>1, MailRead DEF TInv, MailOK
    <3> QED
      BY <1>0, <3>1, <3>2, MailMoved DEF TInv
  <2>3. ReaderOK'
    <3>1. needAck' \in BOOLEAN
      BY <2>1, Zenon
    <3> QED
      BY <1>1, <2>1, <3>1, ReaderTyped DEF TInv, ReaderOK
  <2> QED
    BY <1>0, <1>1, <2>1, <2>2, <2>3, Kept, LockKept, QuietStep DEF wireVars
<1>3. CASE ReadBadPacket
  <2>1. /\ inbound # <<>> /\ inbound' = Tail(inbound) /\ batch' = batch
        /\ FailDecode(Head(inbound)) /\ EnterLock("ack", NoCall, salt)
        /\ needAck' = needAck /\ reader' = "sending"
        /\ UNCHANGED <<tableVars, salt, queued>>
    BY <1>3 DEF ReadBadPacket
  <2>2. MailOK'
    <3>1. batch' \in Seq(Message) /\ inbound' \in Seq(Seq(Message))
      BY <2>1, HeadTailProperties DEF TInv, MailOK
    <3>2. Moved(batch, inbound, batch', inbound', {})
      BY <2>1, MailRead DEF TInv, MailOK
    <3> QED
      BY <1>0, <3>1, <3>2, MailMoved DEF TInv
  <2>3. ReaderOK'
    <3>1. needAck' \in BOOLEAN
      BY <2>1, Zenon DEF TInv, ReaderOK
    <3> QED
      BY <1>1, <2>1, <3>1, ReaderTyped DEF TInv, ReaderOK
  <2>4. fut' \in [Calls -> FutState]
    BY <2>1 DEF FailDecode, TInv, CallsOK, FutState, Settled
  <2>5. LockOK'
    BY <1>0, <2>1, EnterLockOK DEF TInv, ReaderOK
  <2> QED
    BY <1>0, <1>1, <2>1, <2>2, <2>3, <2>4, <2>5, FutOK, Kept, QuietStep
<1>4. CASE HandleAnswer
  <2>1. /\ batch # <<>> /\ NextMessage /\ inbound' = inbound
        /\ Current.kind \in {"ok", "error", "flood", "longFlood", "pong", "badMsg"}
        /\ Settle(Current.req, ResultOf(Current.kind))
        /\ UNCHANGED <<tableVars, wireVars, salt, reader, queued>>
    BY <1>4 DEF HandleAnswer, Handling
  <2>2. ResultOf(Current.kind) \in FutState
    BY <2>1 DEF ResultOf, FutState, Settled
  <2>3. CallsOK'
    BY <1>0, <2>1, <2>2, SettleOK, FutOK
  <2>4. MailOK' /\ needAck' \in BOOLEAN
    BY <1>0, <2>1, NextMessageOK
  <2>5. ReaderOK'
    BY <1>1, <2>1, <2>4, ReaderTyped DEF TInv, ReaderOK
  <2> QED
    BY <1>0, <1>1, <2>1, <2>3, <2>4, <2>5, Kept, LockKept, QuietStep DEF wireVars
<1>5. CASE HandleNewSession
  <2>1. /\ batch # <<>> /\ NextMessage /\ inbound' = inbound
        /\ salt' = Current.salt
        /\ UNCHANGED <<callVars, tableVars, wireVars, reader, queued>>
    BY <1>5 DEF HandleNewSession, Handling
  <2>2. MailOK' /\ needAck' \in BOOLEAN /\ salt' \in Nat
    BY <1>0, <2>1, NextMessageOK, CurrentOK DEF Message
  <2>3. ReaderOK'
    BY <1>1, <2>1, <2>2, ReaderTyped DEF TInv, ReaderOK
  <2> QED
    BY <1>0, <1>1, <2>1, <2>2, <2>3, Kept, LockKept, QuietStep DEF wireVars
<1>6. CASE RetryOnBadSalt
  <2>1. /\ batch # <<>> /\ NextMessage /\ inbound' = inbound
        /\ Awaited(Current.req) /\ salt' = Current.salt
        /\ EnterLock("retry", pending[Current.req], Current.salt)
        /\ reader' = "sending"
        /\ UNCHANGED <<callVars, tableVars, queued>>
    BY <1>6 DEF RetryOnBadSalt, Handling
  <2>2. MailOK' /\ needAck' \in BOOLEAN /\ Current.salt \in Nat
    BY <1>0, <2>1, NextMessageOK, CurrentOK DEF Message
  <2>3. ReaderOK'
    BY <1>1, <2>1, <2>2, ReaderTyped DEF TInv, ReaderOK
  <2>4. pending[Current.req] \in Calls /\ pending[Current.req] # NoCall
    BY <2>1, CallsAssumption DEF Awaited, TInv, TablesOK
  <2>5. LockOK'
    BY <1>0, <2>1, <2>2, <2>4, EnterLockOK DEF TInv
  <2> QED
    BY <1>0, <1>1, <2>1, <2>2, <2>3, <2>5, Kept, QuietStep
<1>7. CASE HandleBadSalt
  <2>1. /\ batch # <<>> /\ NextMessage /\ inbound' = inbound
        /\ salt' = Current.salt /\ Settle(Current.req, "saltLimit")
        /\ UNCHANGED <<tableVars, wireVars, reader, queued>>
    BY <1>7 DEF HandleBadSalt, Handling
  <2>2. CallsOK'
    BY <1>0, <2>1, SettleOK, FutOK DEF FutState, Settled
  <2>3. MailOK' /\ needAck' \in BOOLEAN /\ salt' \in Nat
    BY <1>0, <2>1, NextMessageOK, CurrentOK DEF Message
  <2>4. ReaderOK'
    BY <1>1, <2>1, <2>3, ReaderTyped DEF TInv, ReaderOK
  <2> QED
    BY <1>0, <1>1, <2>1, <2>2, <2>3, <2>4, Kept, LockKept, QuietStep DEF wireVars
<1>8. CASE ResendMessage
  <2>1. /\ batch # <<>> /\ NextMessage /\ inbound' = inbound
        /\ Current.req \in DOMAIN sent
        /\ lock' = Append(lock, [kind |-> "again", id |-> Current.req,
                                 call |-> sent[Current.req], salt |-> salt])
        /\ reader' = "sending"
        /\ UNCHANGED <<callVars, tableVars, lastId, salt, queued>>
    BY <1>8 DEF ResendMessage, Handling
  <2>2. MailOK' /\ needAck' \in BOOLEAN
    BY <1>0, <2>1, NextMessageOK
  <2>3. ReaderOK'
    BY <1>1, <2>1, <2>2, ReaderTyped DEF TInv, ReaderOK
  <2>4. Current.req \in Nat /\ Current.req <= written /\ sent[Current.req] \in Calls
    BY <2>1, CurrentOK DEF TInv, TablesOK, Message
  <2>5. LockOK'
    BY <1>0, <2>1, <2>4, AgainLockOK
  <2> QED
    BY <1>0, <1>1, <2>1, <2>2, <2>3, <2>5, Kept, QuietStep
<1>9. CASE IgnoreMessage \/ QueueUpdate
  <2>1. /\ batch # <<>> /\ NextMessage /\ inbound' = inbound
        /\ queued' = queued \/ queued' = IF queued < QueueSize THEN queued + 1 ELSE queued
        /\ UNCHANGED <<callVars, tableVars, wireVars, salt, reader>>
    BY <1>9 DEF IgnoreMessage, QueueUpdate, Handling
  <2>2. MailOK' /\ needAck' \in BOOLEAN
    BY <1>0, <2>1, NextMessageOK
  <2>3. queued' \in 0 .. QueueSize
    BY <2>1, BoundsAssumption DEF TInv, ReaderOK
  <2>4. ReaderOK'
    BY <1>1, <2>1, <2>2, <2>3, ReaderTyped DEF TInv, ReaderOK
  <2> QED
    BY <1>0, <1>1, <2>1, <2>2, <2>4, Kept, LockKept, QuietStep DEF wireVars
<1>10. CASE EndPacket
  <2>1. /\ IF needAck
            THEN EnterLock("ack", NoCall, salt) /\ reader' = "sending"
            ELSE reader' = "reading" /\ UNCHANGED <<lock, lastId>>
        /\ needAck' = FALSE
        /\ UNCHANGED <<callVars, tableVars, salt, batch, queued, inbound>>
    BY <1>10 DEF EndPacket
  <2>2. LockOK'
    BY <1>0, <2>1, EnterLockOK, LockKept DEF TInv, ReaderOK
  <2>3. ReaderOK'
    <3>1. needAck' \in BOOLEAN
      BY <2>1, Zenon
    <3> QED
      BY <1>1, <2>1, <3>1, ReaderTyped DEF TInv, ReaderOK
  <2> QED
    BY <1>0, <1>1, <2>1, <2>2, <2>3, Kept, QuietStep
<1>11. CASE ReaderReadFails
  <2>1. FailPending /\ UNCHANGED <<wireVars, salt, queued, inbound>>
    BY <1>11 DEF ReaderReadFails
  <2>2. CallsOK' /\ TablesOK' /\ MailOK' /\ ReaderOK'
    BY <1>0, <2>1, FailPendingOK
  <2> QED
    BY <1>0, <1>1, <2>1, <2>2, LockKept, QuietStep DEF wireVars
<1> QED
  BY <1>2, <1>3, <1>4, <1>5, <1>6, <1>7, <1>8, <1>9, <1>10, <1>11
     DEF ReceiverSteps

-----------------------------------------------------------------------------
(* The server, the consumer of updates and close().                        *)

\* What a message of the server's is, and what it answers.
LEMMA SentTyped ==
    ASSUME NEW kind \in AnswerKinds \cup UnaskedKinds, NEW id \in Nat,
           NEW version \in Nat
    PROVE  /\ Msg(kind, id, version) \in Message
           /\ Msg(kind, id, version).kind = kind
           /\ Msg(kind, id, version).req = id
           /\ Msg(kind, id, version).salt = version
BY DEF Msg, Message

LEMMA ServerTInv ==
    ASSUME TInv, ServerSteps
    PROVE  Step
<1>0. written \in Nat /\ written <= written
  BY WrittenNat
<1>1. /\ UNCHANGED <<callVars, tableVars, wireVars, salt, readerVars>>
      /\ written' = written /\ batch' = batch
  BY DEF ServerSteps, ServerExecutes, ServerRefuses, ServerRefusesSalt,
         ServerWantsResend, ServerRepeats, ServerUnasked, ServerRotatesSalt,
         wireVars, readerVars
<1>2. CallsOK' /\ TablesOK' /\ LockOK' /\ ReaderOK'
  BY <1>0, <1>1, Kept, LockKept DEF wireVars, readerVars
<1>3. ASSUME NEW r \in atServer,
             ServerExecutes(r) \/ ServerRefuses(r) \/ ServerRefusesSalt(r)
               \/ ServerWantsResend(r)
      PROVE  MailOK' /\ ServerOK'
  <2>1. /\ r \in [id : Nat, call : Calls, salt : Nat] /\ r.id <= written
        /\ srvSalt \in Nat /\ extra \in Nat
    BY DEF TInv, ServerOK
  <2>2. \E kind \in AnswerKinds : \E version \in {0, srvSalt} :
           SendToClient(Msg(kind, r.id, version))
    BY <1>3 DEF ServerExecutes, ServerRefuses, ServerRefusesSalt,
       ServerWantsResend, SuccessKind, AnswerKinds, ResultKinds
  <2>3. MailOK'
    <3>1. PICK kind \in AnswerKinds : \E version \in {0, srvSalt} :
             SendToClient(Msg(kind, r.id, version))
      BY <2>2
    <3>2. PICK version \in {0, srvSalt} : SendToClient(Msg(kind, r.id, version))
      BY <3>1
    <3>3. Msg(kind, r.id, version) \in Message /\ Msg(kind, r.id, version).req = r.id
      BY <2>1, SentTyped
    <3> QED
      BY <1>1, <2>1, <3>2, <3>3, MailAdded DEF TInv
  <2>4. /\ atServer' = atServer \ {r} /\ srvSalt' = srvSalt
        /\ executed' = executed \/ executed' = executed \cup {[id |-> r.id, call |-> r.call]}
        /\ extra' = extra \/ (extra > 0 /\ extra' = extra - 1)
    BY <1>3 DEF ServerExecutes, ServerRefuses, ServerRefusesSalt, ServerWantsResend
  <2>5. [id |-> r.id, call |-> r.call] \in [id : Nat, call : Calls]
    BY <2>1
  <2>6. ServerOK'
    BY <1>1, <2>1, <2>4, <2>5 DEF TInv, ServerOK
  <2> QED
    BY <2>3, <2>6
<1>4. ASSUME NEW e \in executed, ServerRepeats(e)
      PROVE  MailOK' /\ ServerOK'
  <2>1. e.id \in Nat /\ e.id <= written
    BY DEF TInv, ServerOK
  <2>2. /\ SendToClient(Msg(SuccessKind(e.call), e.id, 0))
        /\ SuccessKind(e.call) \in AnswerKinds
    BY <1>4 DEF ServerRepeats, SuccessKind, AnswerKinds, ResultKinds
  <2>3. MailOK'
    BY <1>1, <2>1, <2>2, SentTyped, MailAdded DEF TInv
  <2>4. ServerOK'
    BY <1>1, <1>4 DEF ServerRepeats, TInv, ServerOK
  <2> QED
    BY <2>3, <2>4
<1>5. ASSUME NEW kind \in UnaskedKinds, ServerUnasked(kind)
      PROVE  MailOK' /\ ServerOK'
  <2>1. PICK version \in {0, srvSalt} : SendToClient(Msg(kind, 0, version))
    BY <1>5 DEF ServerUnasked
  <2>2. version \in Nat
    BY DEF TInv, ServerOK
  <2>3. MailOK'
    BY <1>0, <1>1, <2>1, <2>2, SentTyped, MailAdded DEF TInv
  <2>4. ServerOK'
    BY <1>1, <1>5 DEF ServerUnasked, TInv, ServerOK
  <2> QED
    BY <2>3, <2>4
<1>6. ASSUME ServerRotatesSalt
      PROVE  MailOK' /\ ServerOK'
  <2>1. MailOK'
    BY <1>0, <1>1, <1>6, Kept DEF ServerRotatesSalt
  <2>2. ServerOK'
    BY <1>1, <1>6 DEF ServerRotatesSalt, TInv, ServerOK
  <2> QED
    BY <2>1, <2>2
<1>7. MailOK' /\ ServerOK'
  BY <1>3, <1>4, <1>5, <1>6 DEF ServerSteps
<1> QED
  BY <1>1, <1>2, <1>7, QuietStep

LEMMA TakeTInv ==
    ASSUME TInv, TakeUpdate
    PROVE  Step
<1>1. written \in Nat /\ written <= written
  BY WrittenNat
<1>2. ReaderOK'
  <2>1. queued' \in 0 .. QueueSize
    BY BoundsAssumption DEF TakeUpdate, TInv, ReaderOK
  <2> QED
    BY <2>1, ReaderTyped DEF TakeUpdate, TInv, ReaderOK
<1> QED
  BY <1>1, <1>2, Kept, LockKept, QuietStep DEF TakeUpdate, wireVars

LEMMA CloseTInv ==
    ASSUME TInv, Close
    PROVE  Step
<1>0. /\ batch' = <<>> /\ needAck' = FALSE /\ closed' = TRUE /\ reader' = "off"
      /\ UNCHANGED <<callVars, tableVars, lastId, salt, queued, inbound,
                     srvSalt, extra, executed>>
  BY DEF Close
<1>1. /\ LockOK' /\ ServerOK' /\ written' \in Nat /\ written <= written'
      /\ written' # written => written < written'
  <2>1. CASE reader = "sending"
    <3>1. PICK k \in DOMAIN lock : Withdraw(k)
      BY <2>1 DEF Close
    <3> QED
      BY <1>0, <3>1, WithdrawOK DEF TInv
  <2>2. CASE reader # "sending"
    <3>1. UNCHANGED <<lock, written, atServer>>
      BY <2>2 DEF Close
    <3> QED
      BY <1>0, <3>1, WrittenNat, LockKept, Kept DEF serverVars
  <2> QED
    BY <2>1, <2>2
<1>2. CallsOK' /\ TablesOK'
  BY <1>0, <1>1, Kept
<1>3. MailOK'
  <2>1. Moved(batch, inbound, batch', inbound', {})
    BY <1>0, MailDrops
  <2>2. PICK f \in [Places(batch', inbound') -> Mail] :
           \A p \in Places(batch', inbound') :
              MsgAt(batch', inbound', p) = At(f[p])
    BY <2>1 DEF Moved, Mail, At
  <2>3. \A p \in Mail : At(p).req \in Nat /\ At(p).req <= written
    <3>1. \A p \in Mail : At(p) \in Message
      BY MailTyped DEF TInv, MailOK, Mail, At
    <3> QED
      BY <3>1 DEF TInv, MailOK, Message
  <2>4. \A p \in Mail : At(p).req <= written'
    BY <1>1, <2>3, WrittenNat
  <2>5. \A p \in Mail' : At(p)'.req <= written'
    BY <2>2, <2>4 DEF Mail, At
  <2> QED
    BY <1>0, <2>5 DEF TInv, MailOK
<1>4. ReaderOK'
  <2>1. needAck' \in BOOLEAN /\ closed' \in BOOLEAN
    BY <1>0, Zenon
  <2> QED
    BY <1>0, <2>1, ReaderTyped DEF TInv, ReaderOK
<1> QED
  BY <1>1, <1>2, <1>3, <1>4 DEF Step, TInv, LockOK

-----------------------------------------------------------------------------
LEMMA NextStep == TInv /\ [Next]_vars => Step
<1> SUFFICES ASSUME TInv, [Next]_vars PROVE Step
  OBVIOUS
<1>1. CASE Next
  BY <1>1, CallTInv, SendTInv, ReceiverTInv, TakeTInv, CloseTInv, ServerTInv
     DEF Next
<1>2. CASE UNCHANGED vars
  <2>1. UNCHANGED <<callVars, tableVars, lock, lastId, written, salt, reader, batch,
                    needAck, queued, closed, inbound, serverVars>>
    BY <1>2 DEF vars, wireVars, readerVars
  <2> QED
    BY <2>1, WrittenNat, Kept, LockKept, QuietStep
<1> QED
  BY <1>1, <1>2

LEMMA TInvAlways == Spec => []TInv
<1>1. TInv /\ [Next]_vars => TInv'
  BY NextStep DEF Step
<1> QED
  BY <1>1, InitTInv, PTL DEF Spec

(***************************************************************************)
(* The state of the sender is well-typed in every reachable state: tables  *)
(* map ids to calls, the lock holds tasks, the server holds requests of    *)
(* calls.  (That an ack is the only packet without a call, and that no id  *)
(* anywhere is above the last one taken, is what makes this inductive.)    *)
(***************************************************************************)
THEOREM TypeCorrect == Spec => []TypeOK
<1>1. TInv => TypeOK
  BY TInvTypes
<1> QED
  BY <1>1, TInvAlways, PTL

(***************************************************************************)
(* New messages reach the wire in the order of their ids, whatever waits,  *)
(* is withdrawn from the lock or is resent: the ids in the lock's queue    *)
(* are in order and above all that were written.  (_send_inner_message     *)
(* takes the id and the place in the FIFO lock with no await in between.)  *)
(***************************************************************************)
THEOREM WireOrderCorrect == Spec => WireOrder
<1>1. TInv /\ [Next]_vars => [written' # written => written' > written]_vars
  BY NextStep DEF Step
<1> QED
  BY <1>1, TInvAlways, PTL DEF Spec, WireOrder

-----------------------------------------------------------------------------
(* The invariant.                                                          *)

AtMostOne(S) == \A x, y \in S : x = y

Refusals == {"badSalt", "flood", "resend"}

Concerns(m, c) == m \in DOMAIN pending /\ pending[m] = c

(***************************************************************************)
(* Whose turn it is with the request of a call: its own task's (it will    *)
(* send the request), a task's in the lock (it will put it on the wire),   *)
(* the server's (it will decide), the receiver's (it will read a refusal   *)
(* and send the request again), or nobody's after it has been executed.    *)
(***************************************************************************)
Own(c) == pc[c] \in {"idle", "sleeping"} \/ (pc[c] = "waiting" /\ fut[c] = "flood")
InLock(c) == {i \in DOMAIN lock : lock[i].call = c}
AtServer(c) == {r \in atServer : r.call = c}
Executed(c) == {e \in executed : e.call = c}
Refused(c) == {p \in Mail : At(p).kind \in Refusals /\ Concerns(At(p).req, c)}

OneTurn(c) ==
    /\ AtMostOne(InLock(c)) /\ AtMostOne(AtServer(c))
    /\ AtMostOne(Executed(c)) /\ AtMostOne(Refused(c))
    /\ Own(c) => InLock(c) = {} /\ AtServer(c) = {} /\ Executed(c) = {}
                 /\ Refused(c) = {}
    /\ InLock(c) # {} => AtServer(c) = {} /\ Executed(c) = {} /\ Refused(c) = {}
    /\ AtServer(c) # {} => Executed(c) = {} /\ Refused(c) = {}
    /\ Executed(c) # {} => Refused(c) = {}

Turns == \A c \in Calls : OneTurn(c)

\* A message id never leads to another call than the one it was taken for.
Owners ==
    /\ \A c \in Calls : \A m \in ids[c] : m \in DOMAIN pending => pending[m] = c
    /\ \A r \in atServer : r.id \in DOMAIN pending => pending[r.id] = r.call
    /\ \A e \in executed : e.id \in DOMAIN pending => pending[e.id] = e.call
    /\ \A i \in DOMAIN lock :
          lock[i].kind = "again" /\ lock[i].id \in DOMAIN pending =>
             pending[lock[i].id] = lock[i].call

\* A call whose answer may still come, or may no longer do harm.
Known(c) == pc[c] = "waiting" \/ (pc[c] = "done" /\ fut[c] # "pending")

Tables ==
    /\ sent = pending
    /\ \A m \in DOMAIN pending :
          Known(pending[m]) /\ (pc[pending[m]] = "waiting" => m \in ids[pending[m]])
    /\ WaitingIsRegistered
    /\ \A i \in DOMAIN lock :
          /\ lock[i].kind = "call" => pc[lock[i].call] = "sending"
          /\ lock[i].kind = "retry" => Known(lock[i].call)
    /\ \A c \in Calls : pc[c] \in {"idle", "sending"} => ids[c] = {} /\ fut[c] = "pending"

RInv == TInv /\ Turns /\ Owners /\ Tables

LEMMA InitRInv == Init => RInv
<1> SUFFICES ASSUME Init PROVE RInv
  OBVIOUS
<1>1. TInv
  BY InitTInv
<1>2. Mail = {}
  BY DEF Init, Mail, Places
<1>3. ASSUME NEW c \in Calls PROVE OneTurn(c)
  <2>1. InLock(c) = {} /\ AtServer(c) = {} /\ Executed(c) = {} /\ Refused(c) = {}
    BY <1>2 DEF Init, InLock, AtServer, Executed, Refused
  <2> QED
    BY <2>1 DEF OneTurn, AtMostOne
<1>4. Owners
  BY DEF Init, Owners
<1>5. Tables
  BY DEF Init, Tables, WaitingIsRegistered
<1> QED
  BY <1>1, <1>3, <1>4, <1>5 DEF RInv, Turns

-----------------------------------------------------------------------------
(* How a step can change the places where a turn may be.                   *)

Shrinks(S, T) == (S = {} => T = {}) /\ (AtMostOne(S) => AtMostOne(T))

\* What was in the tables under an id that is used stays or is removed.
TablesStep ==
    /\ sent' = pending'
    /\ \A m \in DOMAIN pending' :
          m <= written => m \in DOMAIN pending /\ pending'[m] = pending[m]

\* A job of the lock is one that was there.
Stayed(i, k) == \E j \in DOMAIN lock \ {k} : lock'[i] = lock[j]

LEMMA LockThins ==
    ASSUME TInv, NEW k, Thinned(lock, lock', k), lock' \in Seq(Job), NEW c
    PROVE  /\ Shrinks(InLock(c), InLock(c)')
           /\ k \in InLock(c) /\ AtMostOne(InLock(c)) => InLock(c)' = {}
           /\ \A i \in DOMAIN lock' : Stayed(i, k)
<1>1. PICK f \in [DOMAIN lock' -> DOMAIN lock \ {k}] :
          /\ \A i \in DOMAIN lock' : lock'[i] = lock[f[i]]
          /\ \A i, j \in DOMAIN lock' : i < j => f[i] < f[j]
  BY DEF Thinned
<1>2. \A i \in DOMAIN lock' : f[i] \in DOMAIN lock /\ f[i] # k
  BY <1>1
<1>3. \A i \in InLock(c)' : i \in DOMAIN lock' /\ f[i] \in InLock(c) /\ f[i] # k
  BY <1>1, <1>2 DEF InLock
<1>4. ASSUME NEW i \in DOMAIN lock', NEW j \in DOMAIN lock', f[i] = f[j]
      PROVE  i = j
  <2>1. DOMAIN lock' \subseteq Nat /\ DOMAIN lock \subseteq Nat
    BY LenProperties DEF TInv, LockOK
  <2>2. f[i] \in Nat /\ i \in Nat /\ j \in Nat
    BY <1>2, <2>1
  <2>3. ~(i < j) /\ ~(j < i)
    BY <1>1, <1>4, <2>2
  <2> QED
    BY <2>2, <2>3
<1>5. \A i \in DOMAIN lock' : Stayed(i, k)
  BY <1>1, <1>2 DEF Stayed
<1>6. Shrinks(InLock(c), InLock(c)')
  BY <1>3, <1>4 DEF Shrinks, AtMostOne
<1>7. k \in InLock(c) /\ AtMostOne(InLock(c)) => InLock(c)' = {}
  BY <1>3 DEF AtMostOne
<1> QED
  BY <1>5, <1>6, <1>7

LEMMA LockAppends ==
    ASSUME TInv, NEW job \in Job, lock' = Append(lock, job)
    PROVE  /\ \A c : c # job.call => InLock(c)' = InLock(c)
           /\ \A c : InLock(c) = {} => AtMostOne(InLock(c)')
           /\ \A i \in DOMAIN lock' : lock'[i] = job \/ Stayed(i, 0)
<1> DEFINE n == Len(lock) + 1
<1>1. /\ n \notin DOMAIN lock /\ DOMAIN lock' = DOMAIN lock \cup {n}
      /\ \A i \in DOMAIN lock : lock'[i] = lock[i]
      /\ lock'[n] = job
  BY AppendAdds DEF TInv, LockOK
<1>2. 0 \notin DOMAIN lock
  BY LenProperties DEF TInv, LockOK
<1> HIDE DEF n
<1>3. \A c : c # job.call => InLock(c)' = InLock(c)
  BY <1>1 DEF InLock
<1>4. \A c : InLock(c) = {} => AtMostOne(InLock(c)')
  BY <1>1 DEF InLock, AtMostOne
<1>5. \A i \in DOMAIN lock' : lock'[i] = job \/ Stayed(i, 0)
  BY <1>1, <1>2 DEF Stayed
<1> QED
  BY <1>3, <1>4, <1>5

LEMMA ServerGains ==
    ASSUME NEW job, Deliver(job)
    PROVE  /\ \A c : c # job.call \/ job.kind = "ack" => AtServer(c)' = AtServer(c)
           /\ \A c : AtServer(c) = {} => AtMostOne(AtServer(c)')
           /\ \A r \in atServer' : r \in atServer
                 \/ (job.kind # "ack" /\ r.id = job.id /\ r.call = job.call
                     /\ r.salt = job.salt)
<1>1. CASE job.kind = "ack"
  BY <1>1 DEF Deliver, AtServer, AtMostOne
<1>2. CASE job.kind # "ack"
  <2> DEFINE x == [id |-> job.id, call |-> job.call, salt |-> job.salt]
  <2>1. /\ atServer' = atServer \cup {x}
        /\ x.id = job.id /\ x.call = job.call /\ x.salt = job.salt
    BY <1>2 DEF Deliver
  <2> HIDE DEF x
  <2> QED
    BY <1>2, <2>1 DEF AtServer, AtMostOne
<1> QED
  BY <1>1, <1>2

LEMMA MailMoves ==
    ASSUME TInv, TablesStep, NEW gone, Moved(batch, inbound, batch', inbound', gone),
           NEW c
    PROVE  /\ Shrinks(Refused(c), Refused(c)')
           /\ AtMostOne(Refused(c)) /\ gone \cap Refused(c) # {} => Refused(c)' = {}
<1>1. PICK f \in [Mail' -> Mail \ gone] :
         /\ \A p \in Mail' : At(p)' = At(f[p])
         /\ \A p, r \in Mail' : Before(p, r) => Before(f[p], f[r])
  BY DEF Moved, Mail, At
<1>2. \A p \in Mail' : f[p] \in Mail /\ f[p] \notin gone
  BY <1>1
<1>3. \A p \in Refused(c)' : p \in Mail' /\ f[p] \in Refused(c) /\ f[p] \notin gone
  <2> SUFFICES ASSUME NEW p \in Refused(c)' PROVE f[p] \in Refused(c) /\ p \in Mail'
    BY <1>2 DEF Refused
  <2> DEFINE m == At(f[p]).req
  <2>1. p \in Mail' /\ At(p)' = At(f[p])
    BY <1>1 DEF Refused
  <2>2. At(f[p]).kind \in Refusals /\ m \in DOMAIN pending' /\ pending'[m] = c
    BY <2>1 DEF Refused, Concerns
  <2>3. m <= written /\ f[p] \in Mail
    BY <1>2, <2>1 DEF TInv, MailOK
  <2> QED
    BY <2>1, <2>2, <2>3 DEF TablesStep, Refused, Concerns
<1>4. ASSUME NEW p \in Mail', NEW r \in Mail', f[p] = f[r] PROVE p = r
  <2>1. ~Before(p, r) /\ ~Before(r, p)
    <3>1. f[p] \in Nat \X Nat /\ f[r] \in Nat \X Nat
      BY <1>2 DEF Mail, Places
    <3>2. ~Before(f[p], f[r]) /\ ~Before(f[r], f[p])
      BY <1>4, <3>1 DEF Before
    <3> QED
      BY <1>1, <3>2
  <2>2. p \in Nat \X Nat /\ r \in Nat \X Nat
    BY DEF Mail, Places
  <2> QED
    BY <2>1, <2>2 DEF Before
<1>5. Shrinks(Refused(c), Refused(c)')
  BY <1>3, <1>4 DEF Shrinks, AtMostOne, Refused
<1> QED
  BY <1>3, <1>5 DEF AtMostOne

LEMMA MailGains ==
    ASSUME TInv, NEW msg \in Message, SendToClient(msg), UNCHANGED <<batch, tableVars>>
    PROVE  /\ \A c : msg.kind \notin Refusals \/ ~Concerns(msg.req, c) =>
                     Refused(c)' = Refused(c)
           /\ \A c : Refused(c) = {} => AtMostOne(Refused(c)')
<1>1. PICK n \in Mail' :
        /\ n \notin Mail
        /\ Mail' = Mail \cup {n}
        /\ At(n)' = msg
        /\ \A p \in Mail : At(p)' = At(p) /\ Before(p, n)
  BY MailAdds DEF TInv, MailOK, Added, Mail, At
<1>2. \A m, c : Concerns(m, c)' <=> Concerns(m, c)
  BY DEF Concerns, tableVars
<1>3. \A c : \A p \in Refused(c)' : p \in Refused(c)
               \/ (p = n /\ msg.kind \in Refusals /\ Concerns(msg.req, c))
  BY <1>1, <1>2 DEF Refused
<1>4. \A c : \A p \in Refused(c) : p \in Refused(c)'
  BY <1>1, <1>2 DEF Refused
<1>5. \A c : msg.kind \notin Refusals \/ ~Concerns(msg.req, c) => Refused(c)' = Refused(c)
  BY <1>3, <1>4
<1>6. \A c : Refused(c) = {} => AtMostOne(Refused(c)')
  BY <1>3 DEF AtMostOne
<1> QED
  BY <1>5, <1>6

-----------------------------------------------------------------------------
(* The turns.                                                              *)

LEMMA TurnKept ==
    ASSUME NEW c, OneTurn(c), Own(c)' => Own(c),
           Shrinks(InLock(c), InLock(c)'), Shrinks(AtServer(c), AtServer(c)'),
           Shrinks(Executed(c), Executed(c)'), Shrinks(Refused(c), Refused(c)')
    PROVE  OneTurn(c)'
BY Zenon DEF OneTurn, Shrinks

\* Nothing but the mail and the tasks' own states changes.
LEMMA QuietTurns ==
    ASSUME RInv, TablesStep, UNCHANGED <<lock, atServer, executed>>,
           NEW gone, Moved(batch, inbound, batch', inbound', gone),
           \A c \in Calls :
              Own(c)' => Own(c) \/ gone \cap Refused(c) # {}
    PROVE  Turns'
<1> SUFFICES ASSUME NEW c \in Calls PROVE OneTurn(c)'
  BY DEF Turns
<1>1. /\ InLock(c)' = InLock(c) /\ AtServer(c)' = AtServer(c)
      /\ Executed(c)' = Executed(c)
  BY DEF InLock, AtServer, Executed
<1>2. /\ Shrinks(Refused(c), Refused(c)')
      /\ AtMostOne(Refused(c)) /\ gone \cap Refused(c) # {} => Refused(c)' = {}
  BY MailMoves DEF RInv
<1>3. OneTurn(c)
  BY DEF RInv, Turns
<1>4. CASE Own(c)' => Own(c)
  BY <1>1, <1>2, <1>3, <1>4, TurnKept DEF Shrinks
<1>5. CASE gone \cap Refused(c) # {}
  <2>1. Refused(c) # {}
    BY <1>5
  <2>2. Refused(c)' = {}
    BY <1>2, <1>3, <1>5 DEF OneTurn
  <2> QED
    BY <1>1, <1>3, <2>1, <2>2 DEF OneTurn, AtMostOne
<1> QED
  BY <1>4, <1>5

\* A task leaves the lock, with its packet on the wire or without.
LEMMA LeaveTurns ==
    ASSUME RInv, TablesStep, NEW k \in DOMAIN lock, Thinned(lock, lock', k),
           lock' \in Seq(Job), executed' = executed,
           Deliver(lock[k]) \/ UNCHANGED atServer,
           Moved(batch, inbound, batch', inbound', {}),
           \A c \in Calls : Own(c)' => Own(c)
    PROVE  Turns'
<1> SUFFICES ASSUME NEW c \in Calls PROVE OneTurn(c)'
  BY DEF Turns
<1>1. /\ Shrinks(InLock(c), InLock(c)')
      /\ k \in InLock(c) /\ AtMostOne(InLock(c)) => InLock(c)' = {}
  BY LockThins DEF RInv
<1>2. Shrinks(Refused(c), Refused(c)')
  BY MailMoves DEF RInv
<1>3. Executed(c)' = Executed(c)
  BY DEF Executed
<1>4. OneTurn(c)
  BY DEF RInv, Turns
<1>5. CASE UNCHANGED atServer \/ c # lock[k].call \/ lock[k].kind = "ack"
  <2>1. AtServer(c)' = AtServer(c)
    BY <1>5, ServerGains DEF AtServer
  <2> QED
    BY <1>1, <1>2, <1>3, <1>4, <2>1, TurnKept DEF Shrinks
<1>6. CASE Deliver(lock[k]) /\ c = lock[k].call
  <2>1. k \in InLock(c)
    BY <1>6 DEF InLock
  <2>2. ~Own(c) /\ AtServer(c) = {} /\ Executed(c) = {} /\ Refused(c) = {}
    BY <1>4, <2>1 DEF OneTurn
  <2>3. InLock(c)' = {}
    BY <1>1, <1>4, <2>1 DEF OneTurn
  <2>4. AtMostOne(AtServer(c)')
    BY <1>6, <2>2, ServerGains
  <2>5. Executed(c)' = {} /\ Refused(c)' = {} /\ ~Own(c)'
    BY <1>2, <1>3, <2>2 DEF Shrinks
  <2> QED
    BY <2>3, <2>4, <2>5 DEF OneTurn, AtMostOne
<1> QED
  BY <1>5, <1>6

\* A task takes its place in the lock: its call's, if it has one, by a turn
\* of the call's own or by a refusal that has been read.
LEMMA EnterTurns ==
    ASSUME RInv, TablesStep, NEW job \in Job, lock' = Append(lock, job),
           UNCHANGED <<atServer, executed>>,
           NEW gone, Moved(batch, inbound, batch', inbound', gone),
           \A c \in Calls : Own(c)' => Own(c),
           job.call \in Calls =>
              \/ Own(job.call) /\ ~Own(job.call)'
              \/ gone \cap Refused(job.call) # {}
    PROVE  Turns'
<1> SUFFICES ASSUME NEW c \in Calls PROVE OneTurn(c)'
  BY DEF Turns
<1>1. /\ c # job.call => InLock(c)' = InLock(c)
      /\ InLock(c) = {} => AtMostOne(InLock(c)')
  BY LockAppends DEF RInv
<1>2. /\ Shrinks(Refused(c), Refused(c)')
      /\ AtMostOne(Refused(c)) /\ gone \cap Refused(c) # {} => Refused(c)' = {}
  BY MailMoves DEF RInv
<1>3. AtServer(c)' = AtServer(c) /\ Executed(c)' = Executed(c)
  BY DEF AtServer, Executed
<1>4. OneTurn(c)
  BY DEF RInv, Turns
<1>5. CASE c # job.call
  BY <1>1, <1>2, <1>3, <1>4, <1>5, TurnKept DEF Shrinks
<1>6. CASE c = job.call
  <2>1. \/ Own(c) /\ ~Own(c)'
        \/ gone \cap Refused(c) # {} /\ Refused(c) # {}
    BY <1>6
  <2>2. /\ InLock(c) = {} /\ AtServer(c) = {} /\ Executed(c) = {}
        /\ Refused(c)' = {} /\ ~Own(c)'
    BY <1>2, <1>4, <2>1 DEF OneTurn, Shrinks
  <2> QED
    BY <1>1, <1>3, <2>2 DEF OneTurn, AtMostOne
<1> QED
  BY <1>5, <1>6

\* The server decides about a request it has.
LEMMA DecideTurns ==
    ASSUME RInv, UNCHANGED <<lock, batch, tableVars, pc, fut>>,
           NEW r \in atServer, atServer' = atServer \ {r},
           NEW msg \in Message, msg.req = r.id, SendToClient(msg),
           \/ executed' = executed
           \/ /\ executed' = executed \cup {[id |-> r.id, call |-> r.call]}
              /\ msg.kind \notin Refusals
    PROVE  Turns'
<1> SUFFICES ASSUME NEW c \in Calls PROVE OneTurn(c)'
  BY DEF Turns
<1>1. InLock(c)' = InLock(c) /\ Own(c)' = Own(c)
  BY DEF InLock, Own
<1>2. /\ msg.kind \notin Refusals \/ ~Concerns(msg.req, c) =>
            Refused(c)' = Refused(c)
      /\ Refused(c) = {} => AtMostOne(Refused(c)')
  BY MailGains DEF RInv
<1>3. Shrinks(AtServer(c), AtServer(c)')
  BY DEF AtServer, Shrinks, AtMostOne
<1>4. OneTurn(c)
  BY DEF RInv, Turns
<1>5. CASE c # r.call
  <2>1. ~Concerns(msg.req, c)
    BY <1>5 DEF Concerns, RInv, Owners
  <2>2. Executed(c)' = Executed(c)
    <3> DEFINE x == [id |-> r.id, call |-> r.call]
    <3>1. x.call = r.call
      OBVIOUS
    <3> HIDE DEF x
    <3>2. executed' = executed \/ executed' = executed \cup {x}
      BY DEF x
    <3> QED
      BY <1>5, <3>1, <3>2 DEF Executed
  <2> QED
    BY <1>1, <1>2, <1>3, <1>4, <2>1, <2>2, TurnKept DEF Shrinks
<1>6. CASE c = r.call
  <2>1. r \in AtServer(c) /\ AtMostOne(AtServer(c))
    BY <1>4, <1>6 DEF AtServer, OneTurn
  <2>2. AtServer(c)' = {}
    BY <2>1 DEF AtServer, AtMostOne
  <2>3. ~Own(c) /\ InLock(c) = {} /\ Executed(c) = {} /\ Refused(c) = {}
    BY <1>4, <2>1 DEF OneTurn
  <2>4. Executed(c)' = {} \/ Refused(c)' = {}
    BY <1>2, <2>3 DEF Executed
  <2>5. AtMostOne(Executed(c)') /\ AtMostOne(Refused(c)')
    <3> DEFINE x == [id |-> r.id, call |-> r.call]
    <3>1. executed' = executed \/ executed' = executed \cup {x}
      OBVIOUS
    <3> HIDE DEF x
    <3> QED
      BY <1>2, <2>3, <3>1 DEF Executed, AtMostOne
  <2> QED
    BY <1>1, <2>2, <2>3, <2>4, <2>5 DEF OneTurn, AtMostOne
<1> QED
  BY <1>5, <1>6

\* The server says what is no refusal.
LEMMA UnaskedTurns ==
    ASSUME RInv, UNCHANGED <<lock, batch, tableVars, pc, fut, atServer, executed>>,
           NEW msg \in Message, SendToClient(msg), msg.kind \notin Refusals
    PROVE  Turns'
<1> SUFFICES ASSUME NEW c \in Calls PROVE OneTurn(c)'
  BY DEF Turns
<1>1. /\ InLock(c)' = InLock(c) /\ Own(c)' = Own(c)
      /\ AtServer(c)' = AtServer(c) /\ Executed(c)' = Executed(c)
  BY DEF InLock, Own, AtServer, Executed
<1>2. Refused(c)' = Refused(c)
  BY MailGains DEF RInv
<1>3. OneTurn(c)
  BY DEF RInv, Turns
<1> QED
  BY <1>1, <1>2, <1>3, TurnKept DEF Shrinks

-----------------------------------------------------------------------------
(* The tables.                                                             *)

LEMMA TablesStepKept ==
    ASSUME RInv, UNCHANGED tableVars \/ FailPending \/ (\E mids : _CleanupCall(mids))
    PROVE  TablesStep
<1>1. sent = pending
  BY DEF RInv, Tables
<1>2. CASE UNCHANGED tableVars
  BY <1>1, <1>2 DEF TablesStep, tableVars
<1>3. CASE FailPending
  BY <1>1, <1>3 DEF TablesStep, FailPending, Restrict
<1>4. CASE \E mids : _CleanupCall(mids)
  BY <1>1, <1>4 DEF TablesStep, _CleanupCall, Restrict
<1> QED
  BY <1>2, <1>3, <1>4

LEMMA TablesStepRegister ==
    ASSUME RInv, NEW c, NEW id \in Nat, written < id, Register(c, id)
    PROVE  /\ TablesStep
           /\ id \notin DOMAIN pending /\ DOMAIN pending' = DOMAIN pending \cup {id}
           /\ pending'[id] = c
           /\ \A m \in DOMAIN pending : pending'[m] = pending[m]
<1>1. sent = pending /\ written \in Nat
  BY WrittenNat DEF RInv, Tables
<1>2. id \notin DOMAIN pending
  BY <1>1 DEF RInv, TInv, TablesOK
<1>3. ~(id <= written)
  BY <1>1
<1>4. /\ DOMAIN pending' = DOMAIN pending \cup {id} /\ sent' = pending'
      /\ pending'[id] = c /\ \A m \in DOMAIN pending : pending'[m] = pending[m]
  BY <1>1, <1>2 DEF Register
<1> QED
  BY <1>2, <1>3, <1>4 DEF TablesStep

LEMMA OwnersStep ==
    ASSUME RInv, TablesStep,
           \A c \in Calls : \A m \in ids'[c] :
              m \in ids[c] \/ (m \in DOMAIN pending' => pending'[m] = c),
           \A r \in atServer' :
              r \in atServer \/ (r.id \in DOMAIN pending' => pending'[r.id] = r.call),
           \A e \in executed' :
              e \in executed \/ \E r \in atServer : e.id = r.id /\ e.call = r.call,
           \A i \in DOMAIN lock' :
              \/ \E j \in DOMAIN lock : lock'[i] = lock[j]
              \/ lock'[i].kind # "again"
              \/ /\ lock'[i].id \in DOMAIN pending
                 /\ pending[lock'[i].id] = lock'[i].call
    PROVE  Owners'
<1>0. \A m \in DOMAIN pending' :
         m <= written => m \in DOMAIN pending /\ pending'[m] = pending[m]
  BY DEF TablesStep
<1>1. ASSUME NEW c \in Calls, NEW m \in ids'[c], m \in DOMAIN pending'
      PROVE  pending'[m] = c
  BY <1>0, <1>1 DEF RInv, Owners, TInv, CallsOK
<1>2. ASSUME NEW r \in atServer', r.id \in DOMAIN pending'
      PROVE  pending'[r.id] = r.call
  BY <1>0, <1>2 DEF RInv, Owners, TInv, ServerOK
<1>3. ASSUME NEW e \in executed', e.id \in DOMAIN pending'
      PROVE  pending'[e.id] = e.call
  <2>1. CASE e \in executed
    BY <1>0, <1>3, <2>1 DEF RInv, Owners, TInv, ServerOK
  <2>2. CASE e \notin executed
    <3>1. PICK r \in atServer : e.id = r.id /\ e.call = r.call
      BY <2>2
    <3> QED
      BY <1>0, <1>3, <3>1 DEF RInv, Owners, TInv, ServerOK
  <2> QED
    BY <2>1, <2>2
<1>4. ASSUME NEW i \in DOMAIN lock', lock'[i].kind = "again",
             lock'[i].id \in DOMAIN pending'
      PROVE  pending'[lock'[i].id] = lock'[i].call
  <2>1. CASE \E j \in DOMAIN lock : lock'[i] = lock[j]
    <3>1. PICK j \in DOMAIN lock : lock'[i] = lock[j]
      BY <2>1
    <3>2. lock[j].id <= written
      BY <1>4, <3>1 DEF RInv, TInv, LockOK, IsNew
    <3> QED
      BY <1>0, <1>4, <3>1, <3>2 DEF RInv, Owners
  <2>2. CASE lock'[i].id \in DOMAIN pending /\ pending[lock'[i].id] = lock'[i].call
    <3>1. lock'[i].id <= written
      BY <2>2 DEF RInv, TInv, TablesOK
    <3> QED
      BY <1>0, <1>4, <2>2, <3>1
  <2> QED
    BY <1>4, <2>1, <2>2
<1> QED
  BY <1>1, <1>2, <1>3, <1>4 DEF Owners

\* The calls stay where they are; a future in the tables may be settled.
LEMMA TablesKept ==
    ASSUME RInv, UNCHANGED <<pc, ids, tableVars>>, fut' \in [Calls -> FutState],
           \A c \in Calls : fut'[c] # fut[c] =>
              /\ fut[c] = "pending" /\ fut'[c] # "pending"
              /\ \E m \in DOMAIN pending : pending[m] = c,
           \A i \in DOMAIN lock' :
              \/ \E j \in DOMAIN lock : lock'[i] = lock[j]
              \/ lock'[i].kind \in {"ack", "again"}
              \/ /\ lock'[i].kind = "retry"
                 /\ \E m \in DOMAIN pending : pending[m] = lock'[i].call
    PROVE  Tables'
<1>1. /\ sent = pending
      /\ \A m \in DOMAIN pending :
            /\ Known(pending[m]) /\ pending[m] \in Calls
            /\ pc[pending[m]] = "waiting" => m \in ids[pending[m]]
  BY DEF RInv, Tables, TInv, TablesOK
<1>2. \A c \in Calls : Known(c) => Known(c)'
  BY DEF Known
<1>3. \A m \in DOMAIN pending' :
         /\ Known(pending[m])'
         /\ (pc[pending[m]] = "waiting")' => m \in ids'[pending'[m]]
  BY <1>1, <1>2 DEF tableVars, Known
<1>4. WaitingIsRegistered'
  BY DEF RInv, Tables, WaitingIsRegistered, tableVars
<1>5. ASSUME NEW i \in DOMAIN lock'
      PROVE  /\ lock'[i].kind = "call" => pc'[lock'[i].call] = "sending"
             /\ lock'[i].kind = "retry" => Known(lock[i].call)'
  <2>1. CASE \E j \in DOMAIN lock : lock'[i] = lock[j]
    <3>1. PICK j \in DOMAIN lock : lock'[i] = lock[j]
      BY <2>1
    <3>2. lock[j].kind = "retry" => lock[j].call \in Calls
      <4>1. lock[j] \in Job
        BY LenProperties, ElementOfSeq DEF RInv, TInv, LockOK
      <4> QED
        BY <4>1 DEF RInv, TInv, LockOK, Job
    <3>3. /\ lock[j].kind = "call" => pc[lock[j].call] = "sending"
          /\ lock[j].kind = "retry" => Known(lock[j].call)
      BY DEF RInv, Tables
    <3> QED
      BY <1>2, <3>1, <3>2, <3>3 DEF Known
  <2>2. CASE lock'[i].kind \in {"ack", "again"}
    BY <2>2
  <2>3. CASE /\ lock'[i].kind = "retry"
             /\ \E m \in DOMAIN pending : pending[m] = lock'[i].call
    <3>1. PICK m \in DOMAIN pending : pending[m] = lock'[i].call
      BY <2>3
    <3> QED
      BY <1>1, <1>2, <2>3, <3>1 DEF Known
  <2> QED
    BY <2>1, <2>2, <2>3
<1>6. \A c \in Calls : pc'[c] \in {"idle", "sending"} => ids'[c] = {} /\ fut'[c] = "pending"
  <2> SUFFICES ASSUME NEW c \in Calls, pc[c] \in {"idle", "sending"}
               PROVE  ids[c] = {} /\ fut'[c] = "pending"
    OBVIOUS
  <2>1. ids[c] = {} /\ fut[c] = "pending" /\ ~Known(c)
    BY DEF RInv, Tables, Known
  <2> QED
    BY <1>1, <2>1
<1> QED
  BY <1>1, <1>3, <1>4, <1>5, <1>6 DEF Tables, tableVars, Known

LEMMA JobCalls ==
    ASSUME TInv, NEW i \in DOMAIN lock
    PROVE  lock[i] \in Job /\ (lock[i].kind # "ack" => lock[i].call \in Calls)
<1>1. lock[i] \in Job
  BY LenProperties, ElementOfSeq DEF TInv, LockOK
<1> QED
  BY <1>1 DEF TInv, LockOK, Job

\* A call that waited ends or goes to sleep; its entries are removed.
LEMMA EndTables ==
    ASSUME RInv, NEW c \in Calls, pc[c] = "waiting", _CleanupCall(ids[c]),
           NEW place \in {"done", "sleeping"}, pc' = [pc EXCEPT ![c] = place],
           UNCHANGED <<ids, lock>>, fut'[c] # "pending",
           \A d \in Calls \ {c} : fut'[d] = fut[d],
           place = "sleeping" => InLock(c) = {}
    PROVE  Tables'
<1>0. /\ \A d \in Calls \ {c} : pc'[d] = pc[d]
      /\ pc'[c] = place
  BY DEF RInv, TInv, CallsOK
<1>1. /\ sent' = pending' /\ DOMAIN pending' = DOMAIN pending \ ids[c]
      /\ \A m \in DOMAIN pending' : pending'[m] = pending[m]
  BY DEF _CleanupCall, Restrict, RInv, Tables
<1>2. \A m \in DOMAIN pending' : m \in DOMAIN pending /\ pending[m] \in Calls \ {c}
  BY <1>1 DEF RInv, Tables, TInv, TablesOK
<1>3. \A d \in Calls \ {c} : Known(d) <=> (pc'[d] = "waiting" \/ (pc'[d] = "done" /\ fut'[d] # "pending"))
  BY <1>0 DEF Known
<1>4. ASSUME NEW m \in DOMAIN pending'
      PROVE  /\ Known(pending[m])'
             /\ (pc[pending[m]] = "waiting")' => m \in ids'[pending'[m]]
  BY <1>0, <1>1, <1>2, <1>3 DEF RInv, Tables, Known
<1>5. WaitingIsRegistered'
  <2> SUFFICES ASSUME NEW d \in Calls, pc'[d] = "waiting", fut'[d] = "pending"
               PROVE  /\ ids[d] # {}
                      /\ \A m \in ids[d] : m \in DOMAIN pending' /\ pending'[m] = d
    BY DEF WaitingIsRegistered
  <2>1. d # c /\ pc[d] = "waiting" /\ fut[d] = "pending"
    BY <1>0
  <2>2. ids[d] # {} /\ \A m \in ids[d] : m \in DOMAIN pending /\ pending[m] = d
    BY <2>1 DEF RInv, Tables, WaitingIsRegistered
  <2>3. \A m \in ids[d] : m \notin ids[c]
    BY <2>1, <2>2 DEF RInv, Owners
  <2> QED
    BY <1>1, <2>2, <2>3
<1>6. ASSUME NEW i \in DOMAIN lock'
      PROVE  /\ lock'[i].kind = "call" => pc'[lock'[i].call] = "sending"
             /\ lock'[i].kind = "retry" => Known(lock[i].call)'
  <2>1. lock'[i] = lock[i] /\ i \in DOMAIN lock
    OBVIOUS
  <2>2. /\ lock[i].kind # "ack" => lock[i].call \in Calls
        /\ lock[i].kind = "call" => pc[lock[i].call] = "sending"
        /\ lock[i].kind = "retry" => Known(lock[i].call)
    BY <2>1, JobCalls DEF RInv, Tables
  <2>3. lock[i].call = c => place = "done"
    BY <2>1 DEF InLock
  <2> QED
    BY <1>0, <1>3, <2>1, <2>2, <2>3 DEF Known
<1>7. \A d \in Calls : pc'[d] \in {"idle", "sending"} => ids'[d] = {} /\ fut'[d] = "pending"
  BY <1>0 DEF RInv, Tables
<1> QED
  BY <1>1, <1>4, <1>5, <1>6, <1>7 DEF Tables, Known

\* A call that does not wait ends; a task of its that was to send is gone.
LEMMA LeaveTables ==
    ASSUME RInv, NEW c \in Calls, pc[c] \in {"idle", "sending", "sleeping"},
           pc' = [pc EXCEPT ![c] = "done"], UNCHANGED <<ids, tableVars>>,
           \A d \in Calls \ {c} : fut'[d] = fut[d],
           \A i \in DOMAIN lock' : \E j \in DOMAIN lock :
              lock'[i] = lock[j] /\ (lock[j].kind = "call" => lock[j].call # c)
    PROVE  Tables'
<1>0. /\ \A d \in Calls \ {c} : pc'[d] = pc[d]
      /\ pc'[c] = "done" /\ ~Known(c)
  BY DEF RInv, TInv, CallsOK, Known
<1>1. /\ sent = pending
      /\ \A m \in DOMAIN pending :
            /\ Known(pending[m]) /\ pending[m] \in Calls
            /\ pc[pending[m]] = "waiting" => m \in ids[pending[m]]
  BY DEF RInv, Tables, TInv, TablesOK
<1>2. \A m \in DOMAIN pending : pending[m] # c
  BY <1>0, <1>1
<1>3. \A m \in DOMAIN pending' :
         /\ Known(pending[m])'
         /\ (pc[pending[m]] = "waiting")' => m \in ids'[pending'[m]]
  BY <1>0, <1>1, <1>2 DEF tableVars, Known
<1>4. WaitingIsRegistered'
  BY <1>0 DEF RInv, Tables, WaitingIsRegistered, tableVars
<1>5. ASSUME NEW i \in DOMAIN lock'
      PROVE  /\ lock'[i].kind = "call" => pc'[lock'[i].call] = "sending"
             /\ lock'[i].kind = "retry" => Known(lock[i].call)'
  <2>1. PICK j \in DOMAIN lock :
           lock'[i] = lock[j] /\ (lock[j].kind = "call" => lock[j].call # c)
    OBVIOUS
  <2>2. /\ lock[j].kind # "ack" => lock[j].call \in Calls
        /\ lock[j].kind = "call" => pc[lock[j].call] = "sending"
        /\ lock[j].kind = "retry" => Known(lock[j].call)
    BY JobCalls DEF RInv, Tables
  <2> QED
    BY <1>0, <2>1, <2>2 DEF Known
<1>6. \A d \in Calls : pc'[d] \in {"idle", "sending"} => ids'[d] = {} /\ fut'[d] = "pending"
  BY <1>0 DEF RInv, Tables
<1> QED
  BY <1>1, <1>3, <1>4, <1>5, <1>6 DEF Tables, tableVars, Known

LEMMA BeginTables ==
    ASSUME RInv, NEW c \in Calls, pc[c] \in {"idle", "sleeping"}, BeginRound(c),
           UNCHANGED tableVars
    PROVE  Tables'
<1> DEFINE job == [kind |-> "call", id |-> NewId, call |-> c, salt |-> salt]
<1>0. /\ \A d \in Calls \ {c} : pc'[d] = pc[d] /\ fut'[d] = fut[d] /\ ids'[d] = ids[d]
      /\ pc'[c] = "sending" /\ fut'[c] = "pending" /\ ids'[c] = {} /\ ~Known(c)
  BY DEF BeginRound, RInv, TInv, CallsOK, Known
<1>1. /\ sent = pending
      /\ \A m \in DOMAIN pending :
            /\ Known(pending[m]) /\ pending[m] \in Calls
            /\ pc[pending[m]] = "waiting" => m \in ids[pending[m]]
  BY DEF RInv, Tables, TInv, TablesOK
<1>2. \A m \in DOMAIN pending : pending[m] # c
  BY <1>0, <1>1
<1>3. \A m \in DOMAIN pending' :
         /\ Known(pending[m])'
         /\ (pc[pending[m]] = "waiting")' => m \in ids'[pending'[m]]
  BY <1>0, <1>1, <1>2 DEF tableVars, Known
<1>4. WaitingIsRegistered'
  BY <1>0 DEF RInv, Tables, WaitingIsRegistered, tableVars
<1>5. job \in Job /\ lock' = Append(lock, job) /\ job.kind = "call" /\ job.call = c
  BY DEF BeginRound, EnterLock, NewId, Job, JobKinds, RInv, TInv, LockOK, ReaderOK
<1>6. ASSUME NEW i \in DOMAIN lock'
      PROVE  /\ lock'[i].kind = "call" => pc'[lock'[i].call] = "sending"
             /\ lock'[i].kind = "retry" => Known(lock[i].call)'
  <2>1. CASE lock'[i] = job
    BY <1>0, <1>5, <2>1
  <2>2. CASE lock'[i] # job
    <3> HIDE DEF job
    <3>1. PICK j \in DOMAIN lock : lock'[i] = lock[j]
      BY <1>5, <2>2, LockAppends DEF RInv, Stayed
    <3>2. /\ lock[j].kind # "ack" => lock[j].call \in Calls
          /\ lock[j].kind = "call" => pc[lock[j].call] = "sending"
          /\ lock[j].kind = "retry" => Known(lock[j].call)
      BY JobCalls DEF RInv, Tables
    <3> QED
      BY <1>0, <3>1, <3>2 DEF Known
  <2> QED
    BY <2>1, <2>2
<1>7. \A d \in Calls : pc'[d] \in {"idle", "sending"} => ids'[d] = {} /\ fut'[d] = "pending"
  BY <1>0 DEF RInv, Tables
<1> QED
  BY <1>1, <1>3, <1>4, <1>6, <1>7 DEF Tables, tableVars, Known

\* A call's packet is out and its id registered.
LEMMA RegisterTables ==
    ASSUME RInv, NEW c \in Calls, NEW id \in Nat, written < id, Register(c, id),
           fut' = fut,
           \/ pc[c] = "sending" /\ pc' = [pc EXCEPT ![c] = "waiting"]
           \/ Known(c) /\ pc' = pc,
           \A i \in DOMAIN lock' : \E j \in DOMAIN lock :
              lock'[i] = lock[j] /\ lock[j].call # c
    PROVE  Tables'
<1>0. /\ \A d \in Calls \ {c} : pc'[d] = pc[d] /\ ids'[d] = ids[d]
      /\ ids'[c] = ids[c] \cup {id}
      /\ pc'[c] = "waiting" \/ (pc'[c] = "done" /\ fut[c] # "pending")
      /\ pc[c] = "sending" => ids[c] = {} /\ pc'[c] = "waiting"
      /\ pc[c] # "sending" => pc' = pc /\ Known(c)
  BY DEF Register, RInv, TInv, CallsOK, Known, Tables
<1>1. /\ sent' = pending'
      /\ id \notin DOMAIN pending /\ DOMAIN pending' = DOMAIN pending \cup {id}
      /\ pending'[id] = c /\ \A m \in DOMAIN pending : pending'[m] = pending[m]
  BY TablesStepRegister DEF TablesStep
<1>2. \A m \in DOMAIN pending :
            /\ Known(pending[m]) /\ pending[m] \in Calls
            /\ pc[pending[m]] = "waiting" => m \in ids[pending[m]]
  BY DEF RInv, Tables, TInv, TablesOK
<1>3. \A d \in Calls : Known(d) => Known(d)'
  BY <1>0 DEF Known
<1>4. ASSUME NEW m \in DOMAIN pending'
      PROVE  /\ Known(pending[m])'
             /\ (pc[pending[m]] = "waiting")' => m \in ids'[pending'[m]]
  <2>1. CASE m = id
    BY <1>0, <1>1, <2>1 DEF Known
  <2>2. CASE m # id
    <3>1. m \in DOMAIN pending /\ pending'[m] = pending[m]
      BY <1>1, <2>2
    <3>2. Known(pending[m])'
      BY <1>2, <1>3, <3>1 DEF Known
    <3>3. pc'[pending[m]] = "waiting" => pc[pending[m]] = "waiting"
      BY <1>0, <1>2, <3>1 DEF Known
    <3> QED
      BY <1>0, <1>2, <3>1, <3>2, <3>3
  <2> QED
    BY <2>1, <2>2
<1>5. WaitingIsRegistered'
  <2> SUFFICES ASSUME NEW d \in Calls, pc'[d] = "waiting", fut[d] = "pending"
               PROVE  /\ ids'[d] # {}
                      /\ \A m \in ids'[d] : m \in DOMAIN pending' /\ pending'[m] = d
    BY DEF WaitingIsRegistered
  <2>1. CASE pc[d] = "waiting"
    <3>1. ids[d] # {} /\ \A m \in ids[d] : m \in DOMAIN pending /\ pending[m] = d
      BY <2>1 DEF RInv, Tables, WaitingIsRegistered
    <3>2. ids'[d] = ids[d] \/ (d = c /\ ids'[d] = ids[d] \cup {id})
      BY <1>0
    <3> QED
      BY <1>1, <3>1, <3>2
  <2>2. CASE pc[d] # "waiting"
    <3>1. d = c /\ ids'[d] = {id}
      BY <1>0, <2>2 DEF Known
    <3> QED
      BY <1>1, <3>1
  <2> QED
    BY <2>1, <2>2
<1>6. ASSUME NEW i \in DOMAIN lock'
      PROVE  /\ lock'[i].kind = "call" => pc'[lock'[i].call] = "sending"
             /\ lock'[i].kind = "retry" => Known(lock[i].call)'
  <2>1. PICK j \in DOMAIN lock : lock'[i] = lock[j] /\ lock[j].call # c
    OBVIOUS
  <2>2. /\ lock[j].kind # "ack" => lock[j].call \in Calls
        /\ lock[j].kind = "call" => pc[lock[j].call] = "sending"
        /\ lock[j].kind = "retry" => Known(lock[j].call)
    BY JobCalls DEF RInv, Tables
  <2> QED
    BY <1>0, <1>3, <2>1, <2>2 DEF Known
<1>7. \A d \in Calls : pc'[d] \in {"idle", "sending"} => ids'[d] = {} /\ fut'[d] = "pending"
  BY <1>0 DEF RInv, Tables
<1> QED
  BY <1>1, <1>4, <1>5, <1>6, <1>7 DEF Tables, Known

LEMMA FailTables ==
    ASSUME RInv, FailPending, UNCHANGED <<pc, ids>>,
           \A i \in DOMAIN lock' : \E j \in DOMAIN lock : lock'[i] = lock[j]
    PROVE  Tables'
<1>1. sent' = pending' /\ DOMAIN pending' = {}
  BY DEF FailPending, Restrict, RInv, Tables
<1>2. /\ \A c \in Calls : fut'[c] = fut[c] \/ (fut[c] = "pending" /\ fut'[c] = "crash")
      /\ \A m \in DOMAIN pending : pending[m] \in Calls => fut'[pending[m]] # "pending"
      /\ \A c \in Calls : fut'[c] # fut[c] => \E m \in DOMAIN pending : pending[m] = c
  BY DEF FailPending
<1>3. WaitingIsRegistered'
  <2>1. ASSUME NEW c \in Calls, pc[c] = "waiting", fut'[c] = "pending" PROVE FALSE
    <3>1. fut[c] = "pending"
      BY <1>2, <2>1
    <3>2. PICK m \in ids[c] : m \in DOMAIN pending /\ pending[m] = c
      BY <2>1, <3>1 DEF RInv, Tables, WaitingIsRegistered
    <3> QED
      BY <1>2, <2>1, <3>2
  <2> QED
    BY <2>1 DEF WaitingIsRegistered
<1>4. ASSUME NEW i \in DOMAIN lock'
      PROVE  /\ lock'[i].kind = "call" => pc'[lock'[i].call] = "sending"
             /\ lock'[i].kind = "retry" => Known(lock[i].call)'
  <2>1. PICK j \in DOMAIN lock : lock'[i] = lock[j]
    OBVIOUS
  <2>2. /\ lock[j].kind # "ack" => lock[j].call \in Calls
        /\ lock[j].kind = "call" => pc[lock[j].call] = "sending"
        /\ lock[j].kind = "retry" => Known(lock[j].call)
    BY JobCalls DEF RInv, Tables
  <2> QED
    BY <1>2, <2>1, <2>2 DEF Known
<1>5. ASSUME NEW c \in Calls, pc[c] \in {"idle", "sending"}
      PROVE  ids[c] = {} /\ fut'[c] = "pending"
  <2>1. ids[c] = {} /\ fut[c] = "pending" /\ ~Known(c)
    BY <1>5 DEF RInv, Tables, Known
  <2>2. \A m \in DOMAIN pending : pending[m] # c
    BY <2>1 DEF RInv, Tables
  <2> QED
    BY <1>2, <2>1, <2>2
<1> QED
  BY <1>1, <1>3, <1>4, <1>5 DEF Tables

-----------------------------------------------------------------------------
(* Every step keeps the invariant.  The steps of a call first.             *)

Kept3 == Turns' /\ Owners' /\ Tables'

LEMMA BeginRInv ==
    ASSUME RInv, NEW c \in Calls, pc[c] \in {"idle", "sleeping"}, BeginRound(c),
           UNCHANGED <<tableVars, batch, inbound, atServer, executed>>
    PROVE  Kept3
<1> DEFINE job == [kind |-> "call", id |-> NewId, call |-> c, salt |-> salt]
<1>1. job \in Job /\ lock' = Append(lock, job) /\ job.kind = "call" /\ job.call = c
  BY DEF BeginRound, EnterLock, NewId, Job, JobKinds, RInv, TInv, LockOK, ReaderOK
<1> HIDE DEF job
<1>2. TablesStep
  BY TablesStepKept
<1>3. Tables'
  BY BeginTables
<1>4. /\ \A d \in Calls \ {c} : pc'[d] = pc[d] /\ fut'[d] = fut[d] /\ ids'[d] = ids[d]
      /\ pc'[c] = "sending" /\ ids'[c] = {}
  BY DEF BeginRound, RInv, TInv, CallsOK
<1>5. Turns'
  <2>1. (\A d \in Calls : Own(d)' => Own(d)) /\ Own(c) /\ ~Own(c)'
    BY <1>4 DEF Own
  <2>2. Moved(batch, inbound, batch', inbound', {})
    BY MailStays
  <2> QED
    BY <1>1, <1>2, <2>1, <2>2, EnterTurns
<1>6. Owners'
  <2>1. \A i \in DOMAIN lock' :
           (\E j \in DOMAIN lock : lock'[i] = lock[j]) \/ lock'[i].kind # "again"
    BY <1>1, LockAppends DEF RInv, Stayed
  <2>2. \A d \in Calls : \A m \in ids'[d] : m \in ids[d]
    BY <1>4
  <2> QED
    BY <1>2, <2>1, <2>2, OwnersStep
<1> QED
  BY <1>3, <1>5, <1>6 DEF Kept3

LEMMA EndRInv ==
    ASSUME RInv, NEW c \in Calls, pc[c] = "waiting", _CleanupCall(ids[c]),
           NEW place \in {"done", "sleeping"}, pc' = [pc EXCEPT ![c] = place],
           UNCHANGED <<ids, lock, batch, inbound, atServer, executed>>,
           fut'[c] # "pending", \A d \in Calls \ {c} : fut'[d] = fut[d],
           place = "sleeping" => fut[c] = "flood"
    PROVE  Kept3
<1>1. TablesStep
  BY TablesStepKept
<1>2. /\ \A d \in Calls \ {c} : pc'[d] = pc[d] /\ fut'[d] = fut[d]
      /\ pc'[c] = place
  BY DEF RInv, TInv, CallsOK
<1>3. \A d \in Calls : Own(d)' => Own(d)
  BY <1>2 DEF Own
<1>4. Turns'
  <2>1. Moved(batch, inbound, batch', inbound', {})
    BY MailStays
  <2> QED
    BY <1>1, <1>3, <2>1, QuietTurns
<1>5. Tables'
  <2>1. place = "sleeping" => InLock(c) = {}
    BY DEF RInv, Turns, OneTurn, Own
  <2> QED
    BY <2>1, EndTables
<1>6. Owners'
  BY <1>1, OwnersStep
<1> QED
  BY <1>4, <1>5, <1>6 DEF Kept3

\* A call ends that has nothing in the lock, or whose task leaves the lock.
LEMMA LeaveRInv ==
    ASSUME RInv, NEW c \in Calls, pc[c] \in {"idle", "sending", "sleeping"},
           pc' = [pc EXCEPT ![c] = "done"],
           UNCHANGED <<ids, tableVars, batch, inbound, executed>>,
           \A d \in Calls \ {c} : fut'[d] = fut[d],
           \/ pc[c] # "sending" /\ UNCHANGED <<lock, atServer>>
           \/ \E k \in DOMAIN lock :
                 /\ lock[k].call = c /\ lock[k].kind # "again" /\ lock[k].id > written
                 /\ Thinned(lock, lock', k) /\ lock' \in Seq(Job)
                 /\ Deliver(lock[k]) \/ UNCHANGED atServer
    PROVE  Kept3
<1>1. TablesStep /\ Moved(batch, inbound, batch', inbound', {})
  BY TablesStepKept, MailStays
<1>2. /\ \A d \in Calls \ {c} : pc'[d] = pc[d] /\ fut'[d] = fut[d]
      /\ pc'[c] = "done"
  BY DEF RInv, TInv, CallsOK
<1>3. \A d \in Calls : Own(d)' => Own(d)
  BY <1>2 DEF Own
<1>4. CASE pc[c] # "sending" /\ UNCHANGED <<lock, atServer>>
  <2>1. Turns'
    BY <1>1, <1>3, <1>4, QuietTurns
  <2>2. \A i \in DOMAIN lock : lock[i].kind = "call" => lock[i].call # c
    BY <1>4 DEF RInv, Tables
  <2>3. \A i \in DOMAIN lock' : \E j \in DOMAIN lock :
           lock'[i] = lock[j] /\ (lock[j].kind = "call" => lock[j].call # c)
    BY <1>4, <2>2
  <2>5. Tables'
    BY <2>3, LeaveTables
  <2>4. Owners'
    BY <1>1, <1>4, OwnersStep
  <2> QED
    BY <2>1, <2>5, <2>4 DEF Kept3
<1>5. ASSUME NEW k \in DOMAIN lock,
             lock[k].call = c, lock[k].kind # "again", lock[k].id > written,
             Thinned(lock, lock', k), lock' \in Seq(Job),
             Deliver(lock[k]) \/ UNCHANGED atServer
      PROVE  Kept3
  <2>1. Turns'
    BY <1>1, <1>3, <1>5, LeaveTurns
  <2>2. \A i \in DOMAIN lock' : \E j \in DOMAIN lock \ {k} : lock'[i] = lock[j]
    BY <1>5, LockThins DEF RInv, Stayed
  <2>3. \A j \in DOMAIN lock \ {k} : lock[j].call # c
    BY <1>5 DEF RInv, Turns, OneTurn, AtMostOne, InLock
  <2>4. Tables'
    BY <2>2, <2>3, LeaveTables
  <2>5. \A r \in atServer' : r \in atServer \/ (r.id \in DOMAIN pending' => pending'[r.id] = r.call)
    <3>1. lock[k].id \notin DOMAIN pending' /\ lock[k].id \in Nat
      <4>1. lock[k].id \in Nat /\ written \in Nat
        BY JobCalls, WrittenNat DEF RInv, Job
      <4> QED
        BY <1>5, <4>1 DEF RInv, TInv, TablesOK, tableVars
    <3> QED
      BY <1>5, <3>1, ServerGains
  <2>6. Owners'
    BY <1>1, <2>2, <2>5, OwnersStep
  <2> QED
    BY <2>1, <2>4, <2>6 DEF Kept3
<1> QED
  BY <1>4, <1>5

LEMMA NewJobs ==
    ASSUME TInv, NEW k \in DOMAIN lock, lock[k].kind # "again"
    PROVE  lock[k].id > written /\ lock[k].id \in Nat
<1>1. lock[k].id \in Nat /\ written \in Nat
  BY JobCalls, WrittenNat DEF Job
<1> QED
  BY <1>1 DEF TInv, LockOK, IsNew

LEMMA CallRInv ==
    ASSUME RInv, NEW c \in Calls, CallSteps(c)
    PROVE  Kept3
<1>1. CASE Invoke(c) \/ WakeUp(c)
  BY <1>1, BeginRInv DEF Invoke, WakeUp, readerVars, serverVars
<1>2. CASE InvokeClosed(c) \/ CancelSleeping(c)
  <2>1. /\ pc[c] \in {"idle", "sleeping"} /\ pc' = [pc EXCEPT ![c] = "done"]
        /\ UNCHANGED <<fut, ids, tableVars, lock, batch, inbound, atServer, executed>>
    BY <1>2 DEF InvokeClosed, CancelSleeping, Returns, readerVars, serverVars, wireVars
  <2> QED
    BY <2>1, LeaveRInv
<1>3. CASE Resume(c) \/ RaiseFlood(c)
  <2>1. /\ pc[c] = "waiting" /\ _CleanupCall(ids[c]) /\ pc' = [pc EXCEPT ![c] = "done"]
        /\ UNCHANGED <<fut, ids, lock, batch, inbound, atServer, executed>>
        /\ fut[c] # "pending"
    BY <1>3 DEF Resume, RaiseFlood, Returns, readerVars, serverVars, wireVars, Settled
  <2> QED
    BY <2>1, EndRInv
<1>4. CASE SleepOnFlood(c)
  <2>1. /\ pc[c] = "waiting" /\ _CleanupCall(ids[c]) /\ pc' = [pc EXCEPT ![c] = "sleeping"]
        /\ UNCHANGED <<fut, ids, lock, batch, inbound, atServer, executed>>
        /\ fut[c] = "flood"
    BY <1>4 DEF SleepOnFlood, readerVars, serverVars, wireVars
  <2> QED
    BY <2>1, EndRInv
<1>5. CASE Timeout(c) \/ CancelWaiting(c)
  <2>1. /\ pc[c] = "waiting" /\ _CleanupCall(ids[c]) /\ pc' = [pc EXCEPT ![c] = "done"]
        /\ UNCHANGED <<ids, lock, batch, inbound, atServer, executed>>
        /\ fut' = [fut EXCEPT ![c] = IF @ = "pending" THEN "cancelled" ELSE @]
    BY <1>5 DEF Timeout, CancelWaiting, Returns, readerVars, serverVars, wireVars
  <2>2. fut'[c] # "pending" /\ \A d \in Calls \ {c} : fut'[d] = fut[d]
    BY <2>1 DEF RInv, TInv, CallsOK
  <2> QED
    BY <2>1, <2>2, EndRInv
<1>6. CASE CancelSending(c)
  <2>1. PICK k \in DOMAIN lock :
           lock[k].call = c /\ lock[k].kind = "call" /\ Withdraw(k)
    BY <1>6 DEF CancelSending
  <2>2. /\ pc[c] = "sending" /\ pc' = [pc EXCEPT ![c] = "done"]
        /\ UNCHANGED <<ids, tableVars, batch, inbound, executed>>
        /\ \A d \in Calls \ {c} : fut'[d] = fut[d]
    BY <1>6 DEF CancelSending, Returns, readerVars, RInv, TInv, CallsOK
  <2>3. Thinned(lock, lock', k) /\ lock' \in Seq(Job)
    BY <2>1, WithoutThins DEF Withdraw, RInv, TInv, LockOK
  <2>4. Deliver(lock[k]) \/ UNCHANGED atServer
    BY <2>1 DEF Withdraw
  <2>5. lock[k].id > written /\ lock[k].kind # "again"
    BY <2>1, NewJobs DEF RInv
  <2> QED
    BY <2>1, <2>2, <2>3, <2>4, <2>5, LeaveRInv
<1> QED
  BY <1>1, <1>2, <1>3, <1>4, <1>5, <1>6 DEF CallSteps

-----------------------------------------------------------------------------
(* The ends of sends.                                                      *)

LEMMA RegisterRInv ==
    ASSUME RInv, NEW k \in DOMAIN lock, lock[k].kind \in {"call", "retry"},
           Thinned(lock, lock', k), lock' \in Seq(Job), Deliver(lock[k]),
           Register(lock[k].call, lock[k].id),
           IF lock[k].kind = "call" THEN pc' = [pc EXCEPT ![lock[k].call] = "waiting"]
           ELSE pc' = pc,
           UNCHANGED <<fut, batch, inbound, executed>>
    PROVE  Kept3
<1> DEFINE c == lock[k].call
           id == lock[k].id
<1>1. /\ c \in Calls /\ id \in Nat /\ written < id
  BY JobCalls, NewJobs DEF RInv
<1>2. /\ TablesStep /\ id \notin DOMAIN pending
      /\ DOMAIN pending' = DOMAIN pending \cup {id} /\ pending'[id] = c
      /\ \A m \in DOMAIN pending : pending'[m] = pending[m]
  <2>1. Register(c, id)
    OBVIOUS
  <2> HIDE DEF c, id
  <2> QED
    BY <1>1, <2>1, TablesStepRegister
<1>3. /\ lock[k].kind = "call" => pc[c] = "sending"
      /\ lock[k].kind = "retry" => Known(c)
      /\ ~Own(c) /\ \A i \in DOMAIN lock \ {k} : lock[i].call # c
  <2>1. k \in InLock(c) /\ OneTurn(c)
    BY <1>1 DEF InLock, RInv, Turns
  <2>2. ~Own(c) /\ \A i \in InLock(c) : i = k
    BY <2>1 DEF OneTurn, AtMostOne
  <2> QED
    BY <2>2 DEF RInv, Tables, InLock
<1>4. /\ ids' = [ids EXCEPT ![c] = ids[c] \cup {id}]
      /\ pc[c] = "sending" => fut[c] = "pending"
  BY <1>1 DEF Register, RInv, Tables
<1>5. \A d \in Calls : Own(d)' => Own(d)
  BY <1>1, <1>3, <1>4 DEF Own, RInv, TInv, CallsOK
<1> HIDE DEF c, id
<1>6. Turns'
  <2>1. Moved(batch, inbound, batch', inbound', {})
    BY MailStays
  <2> QED
    BY <1>2, <1>5, <2>1, LeaveTurns
<1>7. \A i \in DOMAIN lock' : \E j \in DOMAIN lock \ {k} : lock'[i] = lock[j]
  BY LockThins DEF RInv, Stayed
<1>8. Tables'
  BY <1>1, <1>3, <1>7, RegisterTables DEF c, id
<1>9. Owners'
  <2>1. \A d \in Calls : \A m \in ids'[d] : m \in ids[d] \/ (d = c /\ m = id)
    BY <1>1, <1>4 DEF RInv, TInv, CallsOK
  <2>2. \A r \in atServer' : r \in atServer \/ (r.id = id /\ r.call = c)
    BY ServerGains DEF c, id
  <2> QED
    BY <1>2, <1>7, <2>1, <2>2, OwnersStep
<1> QED
  BY <1>6, <1>8, <1>9 DEF Kept3

LEMMA SendRInv ==
    ASSUME RInv, SendEnds
    PROVE  Kept3
<1>0. /\ lock # <<>> /\ lock' = Tail(lock)
      /\ UNCHANGED <<inbound, executed>>
  BY DEF SendEnds, CallSent, CallSendFails, RetrySent, ResendSent, AckSent,
         ReaderSendFails, FailPending
<1>1. /\ 1 \in DOMAIN lock /\ Head(lock) = lock[1]
      /\ lock' \in Seq(Job) /\ Thinned(lock, lock', 1)
  BY <1>0, TailThins DEF RInv, TInv, LockOK
<1>2. CASE CallSent \/ RetrySent
  <2>1. /\ lock[1].kind \in {"call", "retry"} /\ Deliver(lock[1])
        /\ Register(lock[1].call, lock[1].id)
        /\ IF lock[1].kind = "call" THEN pc' = [pc EXCEPT ![lock[1].call] = "waiting"]
           ELSE pc' = pc
        /\ UNCHANGED <<fut, batch>>
    BY <1>1, <1>2 DEF CallSent, RetrySent, readerVars
  <2> QED
    BY <1>0, <1>1, <2>1, RegisterRInv
<1>3. CASE CallSendFails
  <2>1. /\ lock[1].kind = "call" /\ lock[1].call \in Calls
        /\ pc' = [pc EXCEPT ![lock[1].call] = "done"]
        /\ UNCHANGED <<fut, ids, tableVars, batch>>
        /\ Deliver(lock[1]) \/ UNCHANGED atServer
    BY <1>1, <1>3, JobCalls
       DEF CallSendFails, MayDeliver, Returns, readerVars, RInv
  <2>2. lock[1].id > written /\ pc[lock[1].call] = "sending"
    BY <1>1, <2>1, NewJobs DEF RInv, Tables
  <2> QED
    BY <1>0, <1>1, <2>1, <2>2, LeaveRInv
<1>4. CASE ResendSent \/ AckSent
  <2>1. /\ lock[1].kind \in {"again", "ack"} /\ Deliver(lock[1])
        /\ UNCHANGED <<pc, fut, ids, tableVars, batch>>
    BY <1>1, <1>4 DEF ResendSent, AckSent, callVars
  <2>2. TablesStep /\ Moved(batch, inbound, batch', inbound', {})
    BY <1>0, <2>1, TablesStepKept, MailStays
  <2>3. \A d \in Calls : Own(d)' => Own(d)
    BY <2>1 DEF Own
  <2>4. Turns'
    BY <1>0, <1>1, <2>1, <2>2, <2>3, LeaveTurns
  <2>5. \A i \in DOMAIN lock' : \E j \in DOMAIN lock : lock'[i] = lock[j]
    BY <1>1, LockThins DEF RInv, Stayed
  <2>6. Tables'
    BY <2>1, <2>5, TablesKept DEF RInv, TInv, CallsOK
  <2>7. \A r \in atServer' : r \in atServer \/ (r.id \in DOMAIN pending' => pending'[r.id] = r.call)
    <3>1. lock[1].kind = "again" /\ lock[1].id \in DOMAIN pending =>
             pending[lock[1].id] = lock[1].call
      BY <1>1 DEF RInv, Owners
    <3> QED
      BY <2>1, <3>1, ServerGains DEF tableVars
  <2>8. Owners'
    BY <1>0, <2>1, <2>2, <2>5, <2>7, OwnersStep
  <2> QED
    BY <2>4, <2>6, <2>8 DEF Kept3
<1>5. CASE ReaderSendFails
  <2>1. /\ FailPending /\ UNCHANGED <<pc, ids>>
        /\ Deliver(lock[1]) \/ UNCHANGED atServer
    BY <1>1, <1>5 DEF ReaderSendFails, MayDeliver
  <2>2. TablesStep /\ Moved(batch, inbound, batch', inbound', {})
    BY <1>0, <2>1, TablesStepKept, MailDrops DEF FailPending
  <2>3. \A d \in Calls : Own(d)' => Own(d)
    BY <2>1 DEF Own, FailPending
  <2>4. Turns'
    BY <1>0, <1>1, <2>1, <2>2, <2>3, LeaveTurns
  <2>5. \A i \in DOMAIN lock' : \E j \in DOMAIN lock : lock'[i] = lock[j]
    BY <1>1, LockThins DEF RInv, Stayed
  <2>6. Tables'
    BY <2>1, <2>5, FailTables
  <2>7. DOMAIN pending' = {}
    BY <2>1 DEF FailPending, Restrict
  <2>8. Owners'
    BY <1>0, <2>1, <2>2, <2>5, <2>7, OwnersStep
  <2> QED
    BY <2>4, <2>6, <2>8 DEF Kept3
<1> QED
  BY <1>2, <1>3, <1>4, <1>5 DEF SendEnds

-----------------------------------------------------------------------------
(* The receiver.                                                           *)

\* The future an answer settles is that of a call in the tables.
LEMMA SettleSteps ==
    ASSUME RInv, NEW m, NEW result \in Settled, Settle(m, result)
    PROVE  /\ fut' \in [Calls -> FutState]
           /\ \A c \in Calls : fut'[c] # fut[c] =>
                 /\ fut[c] = "pending" /\ fut'[c] = result /\ Concerns(m, c)
<1>1. CASE Awaited(m)
  <2>1. /\ fut' = [fut EXCEPT ![pending[m]] = result] /\ pending[m] \in Calls
        /\ fut[pending[m]] = "pending" /\ Concerns(m, pending[m])
    BY <1>1 DEF Settle, Awaited, Concerns, RInv, TInv, TablesOK
  <2> QED
    BY <2>1 DEF FutState, RInv, TInv, CallsOK
<1>2. CASE ~Awaited(m)
  BY <1>2 DEF Settle, RInv, TInv, CallsOK
<1> QED
  BY <1>1, <1>2

\* The receiver handles a message that makes it send nothing.
LEMMA HandleRInv ==
    ASSUME RInv, batch # <<>>, NextMessage, inbound' = inbound,
           UNCHANGED <<pc, ids, tableVars, lock, atServer, executed>>,
           fut' \in [Calls -> FutState],
           \A c \in Calls : fut'[c] # fut[c] =>
              /\ fut[c] = "pending" /\ fut'[c] # "pending"
              /\ Concerns(Current.req, c)
              /\ fut'[c] = "flood" => Current.kind \in Refusals
    PROVE  Kept3
<1>1. /\ Moved(batch, inbound, batch', inbound', {<<0, 1>>})
      /\ <<0, 1>> \in Mail /\ At(<<0, 1>>) = Current
  BY CurrentOK, MailNext DEF RInv, TInv, MailOK, NextMessage
<1>2. TablesStep
  BY TablesStepKept
<1>3. \A c \in Calls : Own(c)' => Own(c) \/ {<<0, 1>>} \cap Refused(c) # {}
  BY <1>1 DEF Own, Refused
<1>4. Turns'
  BY <1>1, <1>2, <1>3, QuietTurns
<1>5. Tables'
  <2>1. \A c \in Calls : fut'[c] # fut[c] => \E m \in DOMAIN pending : pending[m] = c
    BY DEF Concerns
  <2> QED
    BY <2>1, TablesKept
<1>6. Owners'
  BY <1>2, OwnersStep
<1> QED
  BY <1>4, <1>5, <1>6 DEF Kept3

\* The receiver reads a refusal and sends the request again.
LEMMA SendAgainRInv ==
    ASSUME RInv, batch # <<>>, NextMessage, inbound' = inbound,
           UNCHANGED <<pc, fut, ids, tableVars, atServer, executed>>,
           Current.kind \in Refusals, Current.req \in DOMAIN pending,
           NEW job \in Job, lock' = Append(lock, job),
           job.call = pending[Current.req],
           job.kind = "retry" \/ (job.kind = "again" /\ job.id = Current.req)
    PROVE  Kept3
<1>1. /\ Moved(batch, inbound, batch', inbound', {<<0, 1>>})
      /\ <<0, 1>> \in Mail /\ At(<<0, 1>>) = Current
  BY CurrentOK, MailNext DEF RInv, TInv, MailOK, NextMessage
<1>2. TablesStep
  BY TablesStepKept
<1>3. \A c \in Calls : Own(c)' => Own(c)
  BY DEF Own
<1>4. {<<0, 1>>} \cap Refused(job.call) # {}
  BY <1>1 DEF Refused, Concerns
<1>5. Turns'
  BY <1>1, <1>2, <1>3, <1>4, EnterTurns
<1>6. \A i \in DOMAIN lock' : lock'[i] = job \/ \E j \in DOMAIN lock : lock'[i] = lock[j]
  BY LockAppends DEF RInv, Stayed
<1>7. Tables'
  <2>1. \A i \in DOMAIN lock' :
           \/ \E j \in DOMAIN lock : lock'[i] = lock[j]
           \/ lock'[i].kind \in {"ack", "again"}
           \/ /\ lock'[i].kind = "retry"
              /\ \E m \in DOMAIN pending : pending[m] = lock'[i].call
    BY <1>6
  <2> QED
    BY <2>1, TablesKept DEF RInv, TInv, CallsOK
<1>8. Owners'
  <2>1. \A i \in DOMAIN lock' :
           \/ \E j \in DOMAIN lock : lock'[i] = lock[j]
           \/ lock'[i].kind # "again"
           \/ /\ lock'[i].id \in DOMAIN pending
              /\ pending[lock'[i].id] = lock'[i].call
    BY <1>6
  <2> QED
    BY <1>2, <2>1, OwnersStep
<1> QED
  BY <1>5, <1>7, <1>8 DEF Kept3

LEMMA ReadRInv ==
    ASSUME RInv, ReadPacket \/ ReadBadPacket
    PROVE  Kept3
<1>1. /\ inbound # <<>> /\ inbound' = Tail(inbound)
      /\ batch' = Head(inbound) \/ batch' = batch
      /\ UNCHANGED <<pc, ids, tableVars, atServer, executed>>
  BY DEF ReadPacket, ReadBadPacket, callVars, serverVars
<1>2. TablesStep /\ Moved(batch, inbound, batch', inbound', {})
  BY <1>1, TablesStepKept, MailRead DEF RInv, TInv, MailOK
<1>3. CASE ReadPacket
  <2>1. UNCHANGED <<fut, lock>>
    BY <1>3 DEF ReadPacket, callVars, wireVars
  <2>2. Turns'
    BY <1>1, <1>2, <2>1, QuietTurns DEF Own
  <2>3. Tables'
    BY <1>1, <2>1, TablesKept DEF RInv, TInv, CallsOK
  <2>4. Owners'
    BY <1>1, <1>2, <2>1, OwnersStep
  <2> QED
    BY <2>2, <2>3, <2>4 DEF Kept3
<1>4. CASE ReadBadPacket
  <2>1. /\ FailDecode(Head(inbound)) /\ EnterLock("ack", NoCall, salt)
    BY <1>4 DEF ReadBadPacket
  <2>2. \A c \in Calls : fut'[c] # fut[c] =>
           /\ fut[c] = "pending" /\ fut'[c] = "decode"
           /\ \E m \in DOMAIN pending : pending[m] = c
    BY <2>1 DEF FailDecode
  <2>3. fut' \in [Calls -> FutState]
    BY <2>1 DEF FailDecode, RInv, TInv, CallsOK, FutState, Settled
  <2>4. PICK job \in Job : lock' = Append(lock, job) /\ job.kind = "ack" /\ job.call = NoCall
    <3> DEFINE job == [kind |-> "ack", id |-> NewId, call |-> NoCall, salt |-> salt]
    <3>1. job \in Job /\ lock' = Append(lock, job) /\ job.kind = "ack" /\ job.call = NoCall
      BY <2>1 DEF EnterLock, NewId, Job, JobKinds, RInv, TInv, LockOK, ReaderOK
    <3> QED
      BY <3>1
  <2>5. \A i \in DOMAIN lock' : lock'[i] = job \/ \E j \in DOMAIN lock : lock'[i] = lock[j]
    BY <2>4, LockAppends DEF RInv, Stayed
  <2>6. Turns'
    <3>1. \A c \in Calls : Own(c)' => Own(c)
      BY <1>1, <2>2 DEF Own
    <3>2. job.call \notin Calls
      BY <2>4, CallsAssumption
    <3> QED
      BY <1>1, <1>2, <2>4, <3>1, <3>2, EnterTurns
  <2>7. Tables'
    <3>1. \A i \in DOMAIN lock' :
             \/ \E j \in DOMAIN lock : lock'[i] = lock[j]
             \/ lock'[i].kind \in {"ack", "again"}
      BY <2>4, <2>5
    <3>2. \A c \in Calls : fut'[c] # fut[c] =>
             /\ fut[c] = "pending" /\ fut'[c] # "pending"
             /\ \E m \in DOMAIN pending : pending[m] = c
      BY <2>2
    <3> QED
      BY <1>1, <2>3, <3>1, <3>2, TablesKept
  <2>8. Owners'
    <3>1. \A i \in DOMAIN lock' :
             (\E j \in DOMAIN lock : lock'[i] = lock[j]) \/ lock'[i].kind # "again"
      BY <2>4, <2>5
    <3> QED
      BY <1>1, <1>2, <3>1, OwnersStep
  <2> QED
    BY <2>6, <2>7, <2>8 DEF Kept3
<1> QED
  BY <1>3, <1>4

LEMMA EndPacketRInv ==
    ASSUME RInv, EndPacket
    PROVE  Kept3
<1>1. /\ UNCHANGED <<pc, fut, ids, tableVars, atServer, executed, batch, inbound>>
  BY DEF EndPacket, callVars, serverVars
<1>2. TablesStep /\ Moved(batch, inbound, batch', inbound', {})
  BY <1>1, TablesStepKept, MailStays
<1>3. \A c \in Calls : Own(c)' => Own(c)
  BY <1>1 DEF Own
<1>4. CASE lock' = lock
  BY <1>1, <1>2, <1>3, <1>4, QuietTurns, TablesKept, OwnersStep
     DEF Kept3, RInv, TInv, CallsOK
<1>5. CASE EnterLock("ack", NoCall, salt)
  <2> DEFINE job == [kind |-> "ack", id |-> NewId, call |-> NoCall, salt |-> salt]
  <2>1. job \in Job /\ lock' = Append(lock, job) /\ job.kind = "ack" /\ job.call = NoCall
    BY <1>5 DEF EnterLock, NewId, Job, JobKinds, RInv, TInv, LockOK, ReaderOK
  <2> HIDE DEF job
  <2>2. \A i \in DOMAIN lock' : lock'[i].kind = "ack" \/ \E j \in DOMAIN lock : lock'[i] = lock[j]
    BY <2>1, LockAppends DEF RInv, Stayed
  <2>3. Turns'
    BY <1>1, <1>2, <1>3, <2>1, EnterTurns, CallsAssumption
  <2>4. Tables'
    BY <1>1, <2>2, TablesKept DEF RInv, TInv, CallsOK
  <2>5. Owners'
    BY <1>1, <1>2, <2>2, OwnersStep
  <2> QED
    BY <2>3, <2>4, <2>5 DEF Kept3
<1> QED
  BY <1>4, <1>5 DEF EndPacket

LEMMA ReceiverRInv ==
    ASSUME RInv, ReceiverSteps
    PROVE  Kept3
<1>1. CASE ReadPacket \/ ReadBadPacket
  BY <1>1, ReadRInv
<1>2. CASE HandleAnswer
  <2>1. /\ batch # <<>> /\ NextMessage /\ inbound' = inbound
        /\ UNCHANGED <<pc, ids, tableVars, lock, atServer, executed>>
        /\ Current.kind \in {"ok", "error", "flood", "longFlood", "pong", "badMsg"}
        /\ Settle(Current.req, ResultOf(Current.kind))
    BY <1>2 DEF HandleAnswer, Handling, wireVars, serverVars
  <2>2. /\ ResultOf(Current.kind) \in Settled /\ ResultOf(Current.kind) # "pending"
        /\ ResultOf(Current.kind) = "flood" => Current.kind \in Refusals
    BY <2>1 DEF ResultOf, Settled, Refusals
  <2>3. /\ fut' \in [Calls -> FutState]
        /\ \A c \in Calls : fut'[c] # fut[c] =>
              /\ fut[c] = "pending" /\ fut'[c] = ResultOf(Current.kind)
              /\ Concerns(Current.req, c)
    BY <2>1, <2>2, SettleSteps
  <2> QED
    BY <2>1, <2>2, <2>3, HandleRInv
<1>3. CASE HandleBadSalt
  <2>1. /\ batch # <<>> /\ NextMessage /\ inbound' = inbound
        /\ UNCHANGED <<pc, ids, tableVars, lock, atServer, executed>>
        /\ Settle(Current.req, "saltLimit")
    BY <1>3 DEF HandleBadSalt, Handling, wireVars, serverVars
  <2>2. /\ fut' \in [Calls -> FutState]
        /\ \A c \in Calls : fut'[c] # fut[c] =>
              /\ fut[c] = "pending" /\ fut'[c] = "saltLimit"
              /\ Concerns(Current.req, c)
    BY <2>1, SettleSteps DEF Settled
  <2>3. \A c \in Calls : fut'[c] # fut[c] =>
              /\ fut[c] = "pending" /\ fut'[c] # "pending"
              /\ Concerns(Current.req, c)
              /\ fut'[c] = "flood" => Current.kind \in Refusals
    BY <2>2
  <2> QED
    BY <2>1, <2>2, <2>3, HandleRInv
<1>4. CASE HandleNewSession \/ IgnoreMessage \/ QueueUpdate
  <2>1. /\ batch # <<>> /\ NextMessage /\ inbound' = inbound
        /\ UNCHANGED <<pc, fut, ids, tableVars, lock, atServer, executed>>
    BY <1>4 DEF HandleNewSession, IgnoreMessage, QueueUpdate, Handling,
       callVars, wireVars, serverVars
  <2> QED
    BY <2>1, HandleRInv DEF RInv, TInv, CallsOK
<1>5. CASE RetryOnBadSalt
  <2> DEFINE job == [kind |-> "retry", id |-> NewId, call |-> pending[Current.req],
                     salt |-> Current.salt]
  <2>1. /\ batch # <<>> /\ NextMessage /\ inbound' = inbound
        /\ UNCHANGED <<pc, fut, ids, tableVars, atServer, executed>>
        /\ Current.kind \in Refusals /\ Current.req \in DOMAIN pending
        /\ lock' = Append(lock, job) /\ job.kind = "retry"
        /\ job.call = pending[Current.req]
    BY <1>5 DEF RetryOnBadSalt, Handling, Awaited, EnterLock, Refusals,
       callVars, serverVars
  <2>2. job \in Job
    <3>1. pending[Current.req] \in Calls /\ NewId \in Nat
      BY <2>1 DEF RInv, TInv, TablesOK, LockOK, NewId
    <3>2. Current.salt \in Nat
      BY <2>1, CurrentOK DEF RInv, Message
    <3> QED
      BY <3>1, <3>2 DEF Job, JobKinds
  <2> QED
    BY <2>1, <2>2, SendAgainRInv
<1>6. CASE ResendMessage
  <2> DEFINE job == [kind |-> "again", id |-> Current.req, call |-> sent[Current.req],
                     salt |-> salt]
  <2>1. /\ batch # <<>> /\ NextMessage /\ inbound' = inbound
        /\ UNCHANGED <<pc, fut, ids, tableVars, atServer, executed>>
        /\ Current.kind \in Refusals /\ Current.req \in DOMAIN sent
        /\ lock' = Append(lock, job) /\ job.kind = "again" /\ job.id = Current.req
        /\ job.call = sent[Current.req]
    BY <1>6 DEF ResendMessage, Handling, Refusals, callVars, serverVars
  <2>2. sent = pending
    BY DEF RInv, Tables
  <2>3. job \in Job
    <3>1. sent[Current.req] \in Calls /\ salt \in Nat
      BY <2>1 DEF RInv, TInv, TablesOK, ReaderOK
    <3>2. Current.req \in Nat
      BY <2>1, CurrentOK DEF RInv, Message
    <3> QED
      BY <3>1, <3>2 DEF Job, JobKinds
  <2> QED
    BY <2>1, <2>2, <2>3, SendAgainRInv
<1>7. CASE EndPacket
  BY <1>7, EndPacketRInv
<1>8. CASE ReaderReadFails
  <2>1. FailPending /\ UNCHANGED <<pc, ids, lock, inbound, atServer, executed>>
    BY <1>8 DEF ReaderReadFails, wireVars, serverVars
  <2>2. TablesStep /\ Moved(batch, inbound, batch', inbound', {})
    BY <2>1, TablesStepKept, MailDrops DEF FailPending
  <2>3. \A d \in Calls : Own(d)' => Own(d)
    BY <2>1 DEF Own, FailPending
  <2>4. Turns'
    BY <2>1, <2>2, <2>3, QuietTurns
  <2>5. Tables'
    BY <2>1, FailTables
  <2>6. Owners'
    BY <2>1, <2>2, OwnersStep
  <2> QED
    BY <2>4, <2>5, <2>6 DEF Kept3
<1> QED
  BY <1>1, <1>2, <1>3, <1>4, <1>5, <1>6, <1>7, <1>8 DEF ReceiverSteps

-----------------------------------------------------------------------------
(* The server, the consumer of updates and close().                        *)

LEMMA ServerRInv ==
    ASSUME RInv, ServerSteps
    PROVE  Kept3
<1>1. /\ UNCHANGED <<pc, fut, ids, tableVars, lock, batch>>
  BY DEF ServerSteps, ServerExecutes, ServerRefuses, ServerRefusesSalt,
         ServerWantsResend, ServerRepeats, ServerUnasked, ServerRotatesSalt,
         callVars, wireVars, readerVars
<1>2. TablesStep /\ Tables'
  BY <1>1, TablesStepKept, TablesKept DEF RInv, TInv, CallsOK
<1>3. ASSUME NEW r \in atServer,
             ServerExecutes(r) \/ ServerRefuses(r) \/ ServerRefusesSalt(r)
               \/ ServerWantsResend(r)
      PROVE  Turns' /\ Owners'
  <2>1. /\ r.id \in Nat /\ srvSalt \in Nat
    BY DEF RInv, TInv, ServerOK
  <2>2. atServer' = atServer \ {r}
    BY <1>3 DEF ServerExecutes, ServerRefuses, ServerRefusesSalt, ServerWantsResend
  <2>3. CASE ServerExecutes(r)
    <3>1. PICK kind \in {SuccessKind(r.call), "badResult"} :
             SendToClient(Msg(kind, r.id, 0))
      BY <2>3 DEF ServerExecutes
    <3>2. kind \in AnswerKinds /\ kind \notin Refusals
      BY DEF SuccessKind, AnswerKinds, ResultKinds, Refusals
    <3>3. executed' = executed \cup {[id |-> r.id, call |-> r.call]}
      BY <2>3 DEF ServerExecutes
    <3>4. Turns'
      BY <1>1, <2>1, <2>2, <3>1, <3>2, <3>3, SentTyped, DecideTurns
    <3>5. \A e \in executed' : e \in executed \/ (e.id = r.id /\ e.call = r.call)
      BY <3>3
    <3>6. Owners'
      BY <1>1, <1>2, <2>2, <3>5, OwnersStep
    <3> QED
      BY <3>4, <3>6
  <2>4. CASE ServerRefuses(r) \/ ServerRefusesSalt(r) \/ ServerWantsResend(r)
    <3>1. PICK kind \in AnswerKinds : \E version \in {0, srvSalt} :
             SendToClient(Msg(kind, r.id, version))
      BY <2>4 DEF ServerRefuses, ServerRefusesSalt, ServerWantsResend,
         AnswerKinds, ResultKinds
    <3>2. PICK version \in {0, srvSalt} : SendToClient(Msg(kind, r.id, version))
      BY <3>1
    <3>3. executed' = executed
      BY <2>4 DEF ServerRefuses, ServerRefusesSalt, ServerWantsResend
    <3>4. Turns'
      BY <1>1, <2>1, <2>2, <3>2, <3>3, SentTyped, DecideTurns
    <3>5. Owners'
      BY <1>1, <1>2, <2>2, <3>3, OwnersStep
    <3> QED
      BY <3>4, <3>5
  <2> QED
    BY <1>3, <2>3, <2>4
<1>4. ASSUME NEW e \in executed, ServerRepeats(e)
      PROVE  Turns' /\ Owners'
  <2>1. /\ SendToClient(Msg(SuccessKind(e.call), e.id, 0)) /\ e.id \in Nat
        /\ SuccessKind(e.call) \in AnswerKinds \ Refusals
        /\ UNCHANGED <<atServer, executed>>
    BY <1>4 DEF ServerRepeats, SuccessKind, AnswerKinds, ResultKinds, Refusals,
       RInv, TInv, ServerOK
  <2>2. Turns'
    BY <1>1, <2>1, SentTyped, UnaskedTurns
  <2> QED
    BY <1>1, <1>2, <2>1, <2>2, OwnersStep
<1>5. ASSUME NEW kind \in UnaskedKinds, ServerUnasked(kind)
      PROVE  Turns' /\ Owners'
  <2>1. PICK version \in {0, srvSalt} : SendToClient(Msg(kind, 0, version))
    BY <1>5 DEF ServerUnasked
  <2>2. /\ version \in Nat /\ kind \notin Refusals /\ UNCHANGED <<atServer, executed>>
    BY <1>5 DEF ServerUnasked, UnaskedKinds, Refusals, RInv, TInv, ServerOK
  <2>3. Turns'
    BY <1>1, <2>1, <2>2, SentTyped, UnaskedTurns
  <2> QED
    BY <1>1, <1>2, <2>2, <2>3, OwnersStep
<1>6. ASSUME ServerRotatesSalt
      PROVE  Turns' /\ Owners'
  <2>1. UNCHANGED <<inbound, atServer, executed>>
    BY <1>6 DEF ServerRotatesSalt
  <2> QED
    BY <1>1, <1>2, <2>1, MailStays, QuietTurns, OwnersStep DEF Own
<1> QED
  BY <1>2, <1>3, <1>4, <1>5, <1>6 DEF ServerSteps, Kept3

LEMMA StillRInv ==
    ASSUME RInv, UNCHANGED <<pc, fut, ids, tableVars, lock, batch, inbound,
                             atServer, executed>>
    PROVE  Kept3
<1>1. TablesStep /\ Tables'
  BY TablesStepKept, TablesKept DEF RInv, TInv, CallsOK
<1>2. Turns'
  BY <1>1, MailStays, QuietTurns DEF Own
<1> QED
  BY <1>1, <1>2, OwnersStep DEF Kept3

LEMMA CloseRInv ==
    ASSUME RInv, Close
    PROVE  Kept3
<1>1. /\ batch' = <<>>
      /\ UNCHANGED <<pc, fut, ids, tableVars, inbound, executed>>
  BY DEF Close, callVars
<1>2. TablesStep /\ Moved(batch, inbound, batch', inbound', {})
  BY <1>1, TablesStepKept, MailDrops
<1>3. \A d \in Calls : Own(d)' => Own(d)
  BY <1>1 DEF Own
<1>4. CASE UNCHANGED <<lock, atServer>>
  BY <1>1, <1>2, <1>3, <1>4, QuietTurns, TablesKept, OwnersStep
     DEF Kept3, RInv, TInv, CallsOK
<1>5. ASSUME NEW k \in DOMAIN lock, Withdraw(k)
      PROVE  Kept3
  <2>1. Thinned(lock, lock', k) /\ lock' \in Seq(Job)
    BY <1>5, WithoutThins DEF Withdraw, RInv, TInv, LockOK
  <2>2. Deliver(lock[k]) \/ UNCHANGED atServer
    BY <1>5 DEF Withdraw
  <2>3. Turns'
    BY <1>1, <1>2, <1>3, <2>1, <2>2, LeaveTurns
  <2>4. \A i \in DOMAIN lock' : \E j \in DOMAIN lock : lock'[i] = lock[j]
    BY <2>1, LockThins DEF RInv, Stayed
  <2>5. Tables'
    BY <1>1, <2>4, TablesKept DEF RInv, TInv, CallsOK
  <2>6. \A r \in atServer' : r \in atServer \/ (r.id \in DOMAIN pending' => pending'[r.id] = r.call)
    <3>1. lock[k].id \in DOMAIN pending => pending[lock[k].id] = lock[k].call
      <4>1. CASE lock[k].kind = "again"
        BY <4>1 DEF RInv, Owners
      <4>2. CASE lock[k].kind # "again"
        BY <4>2, NewJobs, WrittenNat DEF RInv, TInv, TablesOK
      <4> QED
        BY <4>1, <4>2
    <3> QED
      BY <1>1, <2>2, <3>1, ServerGains DEF tableVars
  <2>7. Owners'
    BY <1>1, <1>2, <2>4, <2>6, OwnersStep
  <2> QED
    BY <2>3, <2>5, <2>7 DEF Kept3
<1> QED
  BY <1>4, <1>5 DEF Close

LEMMA NextRInv == RInv /\ [Next]_vars => RInv'
<1> SUFFICES ASSUME RInv, [Next]_vars PROVE Kept3
  BY NextStep DEF RInv, Step, Kept3
<1>1. CASE TakeUpdate \/ UNCHANGED vars
  BY <1>1, StillRInv DEF TakeUpdate, vars, callVars, wireVars, readerVars, serverVars
<1>2. CASE Next /\ ~TakeUpdate
  BY <1>2, CallRInv, SendRInv, ReceiverRInv, CloseRInv, ServerRInv DEF Next
<1> QED
  BY <1>1, <1>2

LEMMA RInvAlways == Spec => []RInv
BY InitRInv, NextRInv, PTL DEF Spec

-----------------------------------------------------------------------------
(* Futures.                                                                *)

\* Who changes a future, and to what.
LEMMA FutChanges ==
    ASSUME RInv, [Next]_vars, NEW c \in Calls, fut'[c] # fut[c]
    PROVE  \/ fut'[c] = "pending" /\ pc[c] = "sleeping"
           \/ /\ fut[c] = "pending" /\ fut'[c] \in {"cancelled", "decode", "crash"}
              /\ pc[c] \in {"waiting", "sending"} \/ \E m : Concerns(m, c)
           \/ /\ HandleAnswer /\ fut[c] = "pending" /\ Concerns(Current.req, c)
              /\ fut'[c] = ResultOf(Current.kind)
           \/ /\ HandleBadSalt /\ fut[c] = "pending" /\ Concerns(Current.req, c)
              /\ fut'[c] = "saltLimit"
<1>0. fut \in [Calls -> FutState] /\ pending \in [DOMAIN pending -> Calls]
  BY DEF RInv, TInv, CallsOK, TablesOK
<1>1. CASE \E d \in Calls : Invoke(d) \/ WakeUp(d)
  <2>1. PICK d \in Calls : Invoke(d) \/ WakeUp(d)
    BY <1>1
  <2>2. c = d /\ fut'[c] = "pending"
    BY <1>0, <2>1 DEF Invoke, WakeUp, BeginRound
  <2>3. pc[c] # "idle"
    BY <2>2 DEF RInv, Tables
  <2> QED
    BY <2>1, <2>2, <2>3 DEF Invoke, WakeUp
<1>2. CASE \E d \in Calls : Timeout(d) \/ CancelWaiting(d) \/ CancelSending(d)
  <2>1. PICK d \in Calls : Timeout(d) \/ CancelWaiting(d) \/ CancelSending(d)
    BY <1>2
  <2>2. CASE Timeout(d) \/ CancelWaiting(d)
    <3>1. /\ fut' = [fut EXCEPT ![d] = IF @ = "pending" THEN "cancelled" ELSE @]
          /\ pc[d] = "waiting"
      BY <2>2 DEF Timeout, CancelWaiting
    <3> QED
      BY <1>0, <3>1
  <2>3. CASE CancelSending(d)
    <3>1. d = c /\ pc[d] = "sending" /\ fut'[d] = "cancelled"
      BY <1>0, <2>3 DEF CancelSending
    <3> QED
      BY <3>1 DEF RInv, Tables
  <2> QED
    BY <2>1, <2>2, <2>3
<1>3. CASE HandleAnswer
  <2>1. Settle(Current.req, ResultOf(Current.kind))
    BY <1>3 DEF HandleAnswer
  <2> QED
    BY <1>0, <1>3, <2>1 DEF Settle, Awaited, Concerns
<1>4. CASE HandleBadSalt
  <2>1. Settle(Current.req, "saltLimit")
    BY <1>4 DEF HandleBadSalt
  <2> QED
    BY <1>0, <1>4, <2>1 DEF Settle, Awaited, Concerns
<1>5. CASE ReaderReadFails \/ ReaderSendFails
  BY <1>5 DEF ReaderReadFails, ReaderSendFails, FailPending, Concerns
<1>6. CASE ReadBadPacket
  BY <1>6 DEF ReadBadPacket, FailDecode, Concerns
<1>7. CASE \/ \E d \in Calls : InvokeClosed(d) \/ Resume(d) \/ SleepOnFlood(d)
                               \/ RaiseFlood(d) \/ CancelSleeping(d)
           \/ CallSent \/ CallSendFails \/ RetrySent \/ ResendSent \/ AckSent
           \/ ReadPacket \/ HandleNewSession \/ RetryOnBadSalt \/ ResendMessage
           \/ IgnoreMessage \/ QueueUpdate \/ EndPacket
           \/ TakeUpdate \/ Close \/ UNCHANGED vars
  BY <1>7 DEF InvokeClosed, Resume, SleepOnFlood, RaiseFlood, CancelSleeping,
     CallSent, CallSendFails, RetrySent, ResendSent, AckSent, ReadPacket,
     HandleNewSession, RetryOnBadSalt, ResendMessage, IgnoreMessage, QueueUpdate,
     EndPacket, TakeUpdate, Close, vars, callVars
<1>8. CASE ServerSteps
  BY <1>8 DEF ServerSteps, ServerExecutes, ServerRefuses, ServerRefusesSalt,
     ServerWantsResend, ServerRepeats, ServerUnasked, ServerRotatesSalt, callVars
<1> QED
  BY <1>1, <1>2, <1>3, <1>4, <1>5, <1>6, <1>7, <1>8
     DEF Next, CallSteps, SendEnds, ReceiverSteps

-----------------------------------------------------------------------------
(* What follows.                                                           *)

(***************************************************************************)
(* The server executes the request of an invoke_tl at most once: at every  *)
(* moment one of its task, the lock, the server and the receiver has the   *)
(* turn to act on the request, and an execution ends the turns.  (invoke_tl *)
(* repeats after a flood error only, _handle_message after a refusal.)     *)
(***************************************************************************)
THEOREM ExecutedAtMostOnce == Spec => []AtMostOnce
<1>1. RInv => AtMostOnce
  <2> SUFFICES ASSUME RInv, NEW e \in executed, NEW f \in executed, e.call = f.call
               PROVE  e = f
    BY DEF AtMostOnce
  <2>1. e.call \in Calls
    BY DEF RInv, TInv, ServerOK
  <2>2. AtMostOne(Executed(e.call))
    BY <2>1 DEF RInv, Turns, OneTurn
  <2> QED
    BY <2>2 DEF AtMostOne, Executed
<1> QED
  BY <1>1, RInvAlways, PTL

(***************************************************************************)
(* _pending and _sent agree, and hold no call whose future could still be  *)
(* settled after its task has left wait_for (_cleanup_call, the crash      *)
(* handler, the late registration in _send_new_attempt).                   *)
(***************************************************************************)
THEOREM EntriesCorrect == Spec => []EntriesAreLiveOrDead
<1>1. RInv => EntriesAreLiveOrDead
  BY DEF RInv, Tables, Known, EntriesAreLiveOrDead
<1> QED
  BY <1>1, RInvAlways, PTL

(***************************************************************************)
(* A call that waits with its future pending is in _pending under every id *)
(* it has used: the await inside _send_new_attempt loses no answer.        *)
(***************************************************************************)
THEOREM WaitingCorrect == Spec => []WaitingIsRegistered
<1>1. RInv => WaitingIsRegistered
  BY DEF RInv, Tables
<1> QED
  BY <1>1, RInvAlways, PTL

(***************************************************************************)
(* A future is settled once per round: answers, the bad packet, the crash  *)
(* handler and wait_for's cancellation ask whether it is done, and a new   *)
(* round only begins after a flood sleep.                                  *)
(***************************************************************************)
THEOREM SettledOnceCorrect == Spec => SettledOnce
<1>1. RInv /\ [Next]_vars =>
         [\A c \in Calls :
             fut[c] # "pending" /\ fut'[c] # fut[c] => pc[c] = "sleeping"]_vars
  BY FutChanges
<1> QED
  BY <1>1, RInvAlways, PTL DEF Spec, SettledOnce


-----------------------------------------------------------------------------
(* What any step can change.                                               *)

\* How a call goes on, its place and its outcome.
GoesOn(c) ==
    \/ /\ outcome'[c] = outcome[c]
       /\ \/ pc[c] \in {"idle", "sleeping"} /\ pc'[c] = "sending"
          \/ pc[c] = "sending" /\ pc'[c] = "waiting" /\ ids[c] = {}
          \/ pc[c] = "waiting" /\ pc'[c] = "sleeping"
    \/ /\ pc'[c] = "done"
       /\ \/ pc[c] = "idle" /\ outcome'[c] = "closed" /\ fut'[c] = fut[c]
          \/ pc[c] = "waiting" /\ outcome'[c] = fut[c] /\ fut[c] \in Settled
          \/ /\ pc[c] \in {"sending", "waiting", "sleeping"}
             /\ outcome'[c] \in {"flood", "timeout", "cancelled", "sendError"}

LEMMA CallMoves ==
    ASSUME RInv, [Next]_vars
    PROVE  \/ /\ UNCHANGED <<pc, outcome>>
              /\ executed' = executed \/ \E r \in atServer : ServerExecutes(r)
           \/ \E c \in Calls :
                 /\ GoesOn(c) /\ executed' = executed
                 /\ \A d \in Calls \ {c} : pc'[d] = pc[d] /\ outcome'[d] = outcome[d]
<1>0. pc \in [Calls -> {"idle", "sending", "waiting", "sleeping", "done"}]
      /\ outcome \in [Calls -> Outcomes]
  BY DEF RInv, TInv, CallsOK
<1>1. ASSUME NEW c \in Calls, CallSteps(c)
      PROVE  /\ GoesOn(c) /\ executed' = executed
             /\ \A d \in Calls \ {c} : pc'[d] = pc[d] /\ outcome'[d] = outcome[d]
  <2>1. CASE Invoke(c) \/ WakeUp(c)
    BY <1>0, <2>1 DEF Invoke, WakeUp, BeginRound, GoesOn, serverVars
  <2>2. CASE InvokeClosed(c)
    BY <1>0, <2>2 DEF InvokeClosed, Returns, GoesOn, serverVars
  <2>3. CASE Resume(c)
    BY <1>0, <2>3 DEF Resume, Returns, GoesOn, serverVars
  <2>4. CASE SleepOnFlood(c)
    BY <1>0, <2>4 DEF SleepOnFlood, GoesOn, serverVars
  <2>5. CASE RaiseFlood(c)
    BY <1>0, <2>5 DEF RaiseFlood, Returns, GoesOn, serverVars
  <2>6. CASE Timeout(c)
    BY <1>0, <2>6 DEF Timeout, Returns, GoesOn, serverVars
  <2>7. CASE CancelWaiting(c)
    BY <1>0, <2>7 DEF CancelWaiting, Returns, GoesOn, serverVars
  <2>8. CASE CancelSending(c)
    BY <1>0, <2>8 DEF CancelSending, Returns, GoesOn
  <2>9. CASE CancelSleeping(c)
    BY <1>0, <2>9 DEF CancelSleeping, Returns, GoesOn, serverVars
  <2> QED
    BY <1>1, <2>1, <2>2, <2>3, <2>4, <2>5, <2>6, <2>7, <2>8, <2>9 DEF CallSteps
<1>2. CASE CallSent \/ CallSendFails
  <2> DEFINE c == Head(lock).call
  <2>1. /\ lock # <<>> /\ Head(lock) = lock[1] /\ 1 \in DOMAIN lock
        /\ Head(lock).kind = "call"
    BY <1>2, TailThins DEF CallSent, CallSendFails, RInv, TInv, LockOK
  <2>2. c \in Calls /\ pc[c] = "sending" /\ ids[c] = {}
    BY <2>1, JobCalls DEF RInv, Tables
  <2>3. CASE CallSent
    BY <1>0, <2>2, <2>3 DEF CallSent, GoesOn
  <2>4. CASE CallSendFails
    BY <1>0, <2>2, <2>4 DEF CallSendFails, Returns, GoesOn, serverVars
  <2> QED
    BY <1>2, <2>3, <2>4
<1>3. CASE \/ RetrySent \/ ResendSent \/ AckSent \/ ReaderSendFails
           \/ ReceiverSteps \/ TakeUpdate \/ Close \/ UNCHANGED vars
  BY <1>3 DEF RetrySent, ResendSent, AckSent, ReaderSendFails, ReceiverSteps,
     ReadPacket, ReadBadPacket, HandleAnswer, HandleNewSession, RetryOnBadSalt,
     HandleBadSalt, ResendMessage, IgnoreMessage, QueueUpdate, EndPacket,
     ReaderReadFails, TakeUpdate, Close, vars, callVars, serverVars
<1>4. CASE ServerSteps
  BY <1>4 DEF ServerSteps, ServerRefuses, ServerRefusesSalt, ServerExecutes,
     ServerWantsResend, ServerRepeats, ServerUnasked, ServerRotatesSalt, callVars
<1> QED
  BY <1>1, <1>2, <1>3, <1>4 DEF Next, SendEnds

\* Where the tasks in the lock come from.
LEMMA LockChanges ==
    ASSUME RInv, [Next]_vars, NEW i \in DOMAIN lock'
    PROVE  \/ \E j \in DOMAIN lock : lock'[i] = lock[j]
           \/ lock'[i].kind = "ack" /\ lock'[i].call = NoCall /\ lock'[i].salt = salt
           \/ /\ lock'[i].kind = "call" /\ lock'[i].call \in Calls
              /\ pc[lock'[i].call] \in {"idle", "sleeping"}
              /\ pc'[lock'[i].call] = "sending" /\ lock'[i].salt = salt
           \/ /\ RetryOnBadSalt /\ lock'[i].kind = "retry"
              /\ Concerns(Current.req, lock'[i].call) /\ lock'[i].salt = Current.salt
           \/ /\ ResendMessage /\ lock'[i].kind = "again"
              /\ Concerns(Current.req, lock'[i].call) /\ lock'[i].salt = salt
<1>1. ASSUME NEW k, Thinned(lock, lock', k), lock' \in Seq(Job)
      PROVE  \E j \in DOMAIN lock : lock'[i] = lock[j]
  BY <1>1, LockThins DEF RInv, Stayed
<1>2. CASE SendEnds
  <2>1. lock # <<>> /\ lock' = Tail(lock)
    BY <1>2 DEF SendEnds, CallSent, CallSendFails, RetrySent, ResendSent, AckSent,
       ReaderSendFails
  <2> QED
    BY <1>1, <2>1, TailThins DEF RInv, TInv, LockOK
<1>3. CASE \E k \in DOMAIN lock : Withdraw(k)
  BY <1>1, <1>3, WithoutThins DEF Withdraw, RInv, TInv, LockOK
<1>4. ASSUME NEW c \in Calls, Invoke(c) \/ WakeUp(c)
      PROVE  \/ \E j \in DOMAIN lock : lock'[i] = lock[j]
             \/ /\ lock'[i].kind = "call" /\ lock'[i].call = c
                /\ pc[c] \in {"idle", "sleeping"}
                /\ pc'[c] = "sending" /\ lock'[i].salt = salt
  <2> DEFINE job == [kind |-> "call", id |-> NewId, call |-> c, salt |-> salt]
  <2>0. lock' = Append(lock, job)
    BY <1>4 DEF Invoke, WakeUp, BeginRound, EnterLock
  <2>1. job \in Job /\ lock' = Append(lock, job)
    <3>1. NewId \in Nat /\ salt \in Nat
      BY DEF NewId, RInv, TInv, LockOK, ReaderOK
    <3> QED
      BY <2>0, <3>1 DEF Job, JobKinds
  <2>2. lock'[i] = job \/ \E j \in DOMAIN lock : lock'[i] = lock[j]
    <3> HIDE DEF job
    <3> QED
      BY <2>1, LockAppends DEF RInv, Stayed
  <2>3. pc[c] \in {"idle", "sleeping"} /\ pc'[c] = "sending"
    BY <1>4 DEF Invoke, WakeUp, BeginRound, RInv, TInv, CallsOK
  <2> QED
    BY <2>2, <2>3
<1>5. CASE (ReadBadPacket \/ EndPacket) /\ lock' # lock
  <2> DEFINE job == [kind |-> "ack", id |-> NewId, call |-> NoCall, salt |-> salt]
  <2>0. lock' = Append(lock, job)
    BY <1>5 DEF ReadBadPacket, EndPacket, EnterLock
  <2>1. job \in Job /\ lock' = Append(lock, job)
    <3>1. NewId \in Nat /\ salt \in Nat
      BY DEF NewId, RInv, TInv, LockOK, ReaderOK
    <3> QED
      BY <2>0, <3>1 DEF Job, JobKinds
  <2>2. lock'[i] = job \/ \E j \in DOMAIN lock : lock'[i] = lock[j]
    <3> HIDE DEF job
    <3> QED
      BY <2>1, LockAppends DEF RInv, Stayed
  <2> QED
    BY <2>2
<1>6. CASE RetryOnBadSalt
  <2> DEFINE job == [kind |-> "retry", id |-> NewId, call |-> pending[Current.req],
                     salt |-> Current.salt]
  <2>1. lock' = Append(lock, job) /\ Current.req \in DOMAIN pending /\ batch # <<>>
    BY <1>6 DEF RetryOnBadSalt, EnterLock, Awaited, Handling
  <2>2. pending[Current.req] \in Calls /\ NewId \in Nat
    BY <2>1 DEF RInv, TInv, TablesOK, LockOK, NewId
  <2>3. Current.salt \in Nat
    BY <2>1, CurrentOK DEF RInv, Message
  <2>4. job \in Job
    BY <2>2, <2>3 DEF Job, JobKinds
  <2>5. lock'[i] = job \/ \E j \in DOMAIN lock : lock'[i] = lock[j]
    <3> HIDE DEF job
    <3> QED
      BY <2>1, <2>4, LockAppends DEF RInv, Stayed
  <2> QED
    BY <1>6, <2>1, <2>5 DEF Concerns
<1>7. CASE ResendMessage
  <2> DEFINE job == [kind |-> "again", id |-> Current.req, call |-> sent[Current.req],
                     salt |-> salt]
  <2>1. lock' = Append(lock, job) /\ Current.req \in DOMAIN sent /\ batch # <<>>
        /\ sent = pending
    BY <1>7 DEF ResendMessage, Handling, RInv, Tables
  <2>2. sent[Current.req] \in Calls /\ salt \in Nat
    BY <2>1 DEF RInv, TInv, TablesOK, ReaderOK
  <2>3. Current.req \in Nat
    BY <2>1, CurrentOK DEF RInv, Message
  <2>4. job \in Job
    BY <2>2, <2>3 DEF Job, JobKinds
  <2>5. lock'[i] = job \/ \E j \in DOMAIN lock : lock'[i] = lock[j]
    <3> HIDE DEF job
    <3> QED
      BY <2>1, <2>4, LockAppends DEF RInv, Stayed
  <2> QED
    BY <1>7, <2>1, <2>5 DEF Concerns
<1>8. CASE lock' = lock
  BY <1>8
<1>9. \/ SendEnds \/ (\E k \in DOMAIN lock : Withdraw(k))
      \/ (\E c \in Calls : Invoke(c) \/ WakeUp(c))
      \/ ((ReadBadPacket \/ EndPacket) /\ lock' # lock)
      \/ RetryOnBadSalt \/ ResendMessage \/ lock' = lock
  <2>1. CASE \E c \in Calls : CallSteps(c)
    BY <2>1 DEF CallSteps, InvokeClosed, Resume, SleepOnFlood, RaiseFlood, Timeout,
       CancelWaiting, CancelSending, CancelSleeping, wireVars
  <2>2. CASE ReceiverSteps
    BY <2>2 DEF ReceiverSteps, ReadPacket, HandleAnswer, HandleNewSession,
       HandleBadSalt, IgnoreMessage, QueueUpdate, ReaderReadFails, wireVars
  <2>3. CASE TakeUpdate \/ Close \/ UNCHANGED vars
    BY <2>3 DEF TakeUpdate, Close, vars, wireVars
  <2>4. CASE ServerSteps
    BY <2>4 DEF ServerSteps, ServerExecutes, ServerRefuses, ServerRefusesSalt,
       ServerWantsResend, ServerRepeats, ServerUnasked, ServerRotatesSalt, wireVars
  <2> QED
    BY <2>1, <2>2, <2>3, <2>4 DEF Next
<1> QED
  BY <1>2, <1>3, <1>4, <1>5, <1>6, <1>7, <1>8, <1>9

\* The server gets its requests from the lock.
LEMMA ServerChanges ==
    ASSUME RInv, [Next]_vars, NEW r \in atServer'
    PROVE  \/ r \in atServer
           \/ \E k \in DOMAIN lock :
                 /\ r.call = lock[k].call /\ r.salt = lock[k].salt
                 /\ lock[k].kind # "ack"
<1>1. CASE SendEnds
  <2>1. lock # <<>> /\ (Deliver(Head(lock)) \/ atServer' = atServer)
    BY <1>1 DEF SendEnds, CallSent, CallSendFails, RetrySent, ResendSent, AckSent,
       ReaderSendFails, MayDeliver
  <2>2. 1 \in DOMAIN lock /\ Head(lock) = lock[1]
    BY <2>1, TailThins DEF RInv, TInv, LockOK
  <2> QED
    BY <2>1, <2>2, ServerGains
<1>2. CASE \E k \in DOMAIN lock : Withdraw(k)
  BY <1>2, ServerGains DEF Withdraw
<1>3. CASE atServer' \subseteq atServer
  BY <1>3
<1>4. SendEnds \/ (\E k \in DOMAIN lock : Withdraw(k)) \/ atServer' \subseteq atServer
  <2>1. CASE \E c \in Calls : CallSteps(c)
    BY <2>1 DEF CallSteps, Invoke, InvokeClosed, Resume, SleepOnFlood, RaiseFlood,
       WakeUp, Timeout, CancelWaiting, CancelSending, CancelSleeping, serverVars
  <2>2. CASE ReceiverSteps
    BY <2>2 DEF ReceiverSteps, ReadPacket, ReadBadPacket, HandleAnswer,
       HandleNewSession, RetryOnBadSalt, HandleBadSalt, ResendMessage,
       IgnoreMessage, QueueUpdate, EndPacket, ReaderReadFails, serverVars
  <2>3. CASE TakeUpdate \/ Close \/ UNCHANGED vars
    BY <2>3 DEF TakeUpdate, Close, vars, serverVars
  <2>4. CASE ServerSteps
    BY <2>4 DEF ServerSteps, ServerExecutes, ServerRefuses, ServerRefusesSalt,
       ServerWantsResend, ServerRepeats, ServerUnasked, ServerRotatesSalt
  <2> QED
    BY <2>1, <2>2, <2>3, <2>4 DEF Next
<1> QED
  BY <1>1, <1>2, <1>3, <1>4

\* Messages move up and are lost, unless the server sends one.
LEMMA MailSteps ==
    ASSUME TInv, [Next]_vars
    PROVE  \/ \E gone : Moved(batch, inbound, batch', inbound', gone)
           \/ ServerSteps /\ batch' = batch
<1>1. CASE NextMessage /\ batch # <<>> /\ inbound' = inbound
  BY <1>1, MailNext DEF NextMessage, TInv, MailOK
<1>2. CASE batch' = batch /\ inbound' = inbound
  BY <1>2, MailStays
<1>3. CASE batch' = <<>> /\ inbound' = inbound
  BY <1>3, MailDrops
<1>4. CASE ReadPacket \/ ReadBadPacket
  BY <1>4, MailRead DEF ReadPacket, ReadBadPacket, TInv, MailOK
<1>5. CASE ServerSteps /\ batch' = batch
  BY <1>5
<1>6. \/ NextMessage /\ batch # <<>> /\ inbound' = inbound
      \/ batch' = batch /\ inbound' = inbound
      \/ batch' = <<>> /\ inbound' = inbound
      \/ ReadPacket \/ ReadBadPacket
      \/ ServerSteps /\ batch' = batch
  <2>1. CASE \E c \in Calls : CallSteps(c)
    BY <2>1 DEF CallSteps, Invoke, InvokeClosed, Resume, SleepOnFlood, RaiseFlood,
       WakeUp, Timeout, CancelWaiting, CancelSending, CancelSleeping, readerVars
  <2>2. CASE SendEnds
    BY <2>2 DEF SendEnds, CallSent, CallSendFails, RetrySent, ResendSent, AckSent,
       ReaderSendFails, FailPending, readerVars
  <2>3. CASE ReceiverSteps
    BY <2>3 DEF ReceiverSteps, HandleAnswer, HandleNewSession, RetryOnBadSalt,
       HandleBadSalt, ResendMessage, IgnoreMessage, QueueUpdate, EndPacket,
       ReaderReadFails, FailPending, Handling
  <2>4. CASE TakeUpdate \/ Close \/ UNCHANGED vars
    BY <2>4 DEF TakeUpdate, Close, vars, readerVars
  <2>5. CASE ServerSteps
    BY <2>5 DEF ServerSteps, ServerExecutes, ServerRefuses, ServerRefusesSalt,
       ServerWantsResend, ServerRepeats, ServerUnasked, ServerRotatesSalt, readerVars
  <2> QED
    BY <2>1, <2>2, <2>3, <2>4, <2>5 DEF Next
<1> QED
  BY <1>1, <1>2, <1>3, <1>4, <1>5, <1>6

\* What was on its way, or the message the server sends now.
LEMMA MailMovesBack ==
    ASSUME NEW gone, Moved(batch, inbound, batch', inbound', gone), NEW p \in Mail'
    PROVE  \E q \in Mail \ gone : At(p)' = At(q)
BY DEF Moved, Mail, At

LEMMA MailAddsOne ==
    ASSUME TInv, NEW msg \in Message, SendToClient(msg), batch' = batch, NEW p \in Mail'
    PROVE  At(p)' = msg \/ (p \in Mail /\ At(p)' = At(p))
<1>1. Added(batch, inbound, inbound', msg)
  BY MailAdds DEF TInv, MailOK
<1> QED
  BY <1>1 DEF Added, Mail, At

-----------------------------------------------------------------------------
(* Results.                                                                *)

Results == {"ok", "pong"}

\* A result on its way, or taken, is that of an execution.
Earned ==
    /\ \A p \in Mail : At(p).kind \in Results => \E e \in executed : e.id = At(p).req
    /\ \A c \in Calls : fut[c] = "ok" \/ outcome[c] = "ok" => Executed(c) # {}

\* A call refused by a closed sender has never sent anything and never will.
Ends ==
    \A c \in Calls :
        /\ outcome[c] # "none" <=> pc[c] = "done"
        /\ outcome[c] = "closed" =>
              fut[c] = "pending" /\ InLock(c) = {} /\ AtServer(c) = {}

LEMMA ServerSays ==
    ASSUME RInv, ServerSteps
    PROVE  \/ UNCHANGED inbound
           \/ \E msg \in Message :
                 /\ SendToClient(msg)
                 /\ msg.kind \in Results => \E e \in executed' : e.id = msg.req
                 /\ msg.kind \in {"badSalt", "newSession"} => msg.salt = srvSalt
                 /\ msg.kind = "badSalt" => \E r \in atServer :
                       msg.req = r.id /\ r.salt # srvSalt
<1>0. srvSalt \in Nat
  BY DEF RInv, TInv, ServerOK
<1>1. ASSUME NEW r \in atServer, ServerExecutes(r)
      PROVE  \E msg \in Message : /\ SendToClient(msg) /\ msg.kind \notin {"badSalt", "newSession"}
                                  /\ \E e \in executed' : e.id = msg.req
  <2>1. PICK kind \in {SuccessKind(r.call), "badResult"} : SendToClient(Msg(kind, r.id, 0))
    BY <1>1 DEF ServerExecutes
  <2>2. kind \in AnswerKinds /\ kind \notin {"badSalt", "newSession"} /\ r.id \in Nat
    BY DEF SuccessKind, AnswerKinds, ResultKinds, RInv, TInv, ServerOK
  <2>3. \E e \in executed' : e.id = r.id
    <3> DEFINE e == [id |-> r.id, call |-> r.call]
    <3>1. e \in executed' /\ e.id = r.id
      BY <1>1 DEF ServerExecutes
    <3> QED
      BY <3>1
  <2> QED
    BY <2>1, <2>2, <2>3, SentTyped
<1>2. ASSUME NEW r \in atServer, ServerRefuses(r) \/ ServerWantsResend(r)
      PROVE  \E msg \in Message : SendToClient(msg)
                /\ msg.kind \notin {"badSalt", "newSession"} \cup Results
  <2>1. PICK kind \in AnswerKinds \ ({"badSalt", "newSession"} \cup Results) :
           SendToClient(Msg(kind, r.id, 0))
    BY <1>2 DEF ServerRefuses, ServerWantsResend, AnswerKinds, ResultKinds, Results
  <2>2. r.id \in Nat
    BY DEF RInv, TInv, ServerOK
  <2> QED
    BY <2>1, <2>2, SentTyped
<1>3. ASSUME NEW r \in atServer, ServerRefusesSalt(r)
      PROVE  \E msg \in Message : SendToClient(msg)
                /\ msg.kind = "badSalt" /\ msg.salt = srvSalt
                /\ msg.req = r.id /\ r.salt # srvSalt
  <2>1. SendToClient(Msg("badSalt", r.id, srvSalt)) /\ r.salt # srvSalt
        /\ "badSalt" \in AnswerKinds /\ r.id \in Nat
    BY <1>3 DEF ServerRefusesSalt, AnswerKinds, RInv, TInv, ServerOK
  <2> QED
    BY <1>0, <2>1, SentTyped
<1>4. ASSUME NEW e \in executed, ServerRepeats(e)
      PROVE  \E msg \in Message : /\ SendToClient(msg) /\ msg.kind \notin {"badSalt", "newSession"}
                                  /\ msg.req = e.id /\ e \in executed'
  <2>1. /\ SendToClient(Msg(SuccessKind(e.call), e.id, 0)) /\ e.id \in Nat
        /\ SuccessKind(e.call) \in AnswerKinds \ {"badSalt", "newSession"}
        /\ executed' = executed
    BY <1>4 DEF ServerRepeats, SuccessKind, AnswerKinds, ResultKinds, RInv, TInv, ServerOK
  <2> QED
    BY <2>1, SentTyped
<1>5. ASSUME NEW kind \in UnaskedKinds, ServerUnasked(kind)
      PROVE  \E msg \in Message :
                /\ SendToClient(msg)
                /\ msg.kind \notin {"badSalt"} \cup Results
                /\ msg.kind = "newSession" => msg.salt = srvSalt
  <2>1. PICK version \in {0, srvSalt} : /\ SendToClient(Msg(kind, 0, version))
                                        /\ kind = "newSession" => version = srvSalt
    BY <1>5 DEF ServerUnasked
  <2>2. version \in Nat /\ kind \notin {"badSalt"} \cup Results
    BY <1>0 DEF UnaskedKinds, Results
  <2> QED
    BY <2>1, <2>2, SentTyped
<1>6. ServerRotatesSalt => UNCHANGED inbound
  BY DEF ServerRotatesSalt
<1>7. \A kind : kind \in Results => kind \notin {"badSalt", "newSession"}
  BY DEF Results
<1> DEFINE Says(msg) ==
             /\ SendToClient(msg)
             /\ msg.kind \in Results => \E e \in executed' : e.id = msg.req
             /\ msg.kind \in {"badSalt", "newSession"} => msg.salt = srvSalt
             /\ msg.kind = "badSalt" => \E r \in atServer :
                   msg.req = r.id /\ r.salt # srvSalt
<1>8. ASSUME NEW r \in atServer,
             ServerExecutes(r) \/ ServerRefuses(r) \/ ServerRefusesSalt(r)
               \/ ServerWantsResend(r)
      PROVE  \E msg \in Message : Says(msg)
  <2>1. CASE ServerExecutes(r)
    BY <1>1, <2>1
  <2>2. CASE ServerRefuses(r) \/ ServerWantsResend(r)
    BY <1>2, <2>2
  <2>3. CASE ServerRefusesSalt(r)
    BY <1>3, <1>7, <2>3
  <2> QED
    BY <1>8, <2>1, <2>2, <2>3
<1>9. ASSUME NEW e \in executed, ServerRepeats(e)
      PROVE  \E msg \in Message : Says(msg)
  BY <1>4, <1>9
<1>10. ASSUME NEW kind \in UnaskedKinds, ServerUnasked(kind)
       PROVE  \E msg \in Message : Says(msg)
  <2>1. PICK msg \in Message :
                /\ SendToClient(msg)
                /\ msg.kind \notin {"badSalt"} \cup Results
                /\ msg.kind = "newSession" => msg.salt = srvSalt
    BY <1>5, <1>10
  <2>2. Says(msg)
    BY <2>1
  <2> QED
    BY <2>2
<1>11. (\E msg \in Message : Says(msg)) \/ UNCHANGED inbound
  <2> HIDE DEF Says
  <2>1. CASE \E r \in atServer : ServerExecutes(r) \/ ServerRefuses(r)
                           \/ ServerRefusesSalt(r) \/ ServerWantsResend(r)
    BY <1>8, <2>1
  <2>2. CASE \E e \in executed : ServerRepeats(e)
    BY <1>9, <2>2
  <2>3. CASE \E kind \in UnaskedKinds : ServerUnasked(kind)
    BY <1>10, <2>3
  <2> QED
    BY <1>6, <2>1, <2>2, <2>3 DEF ServerSteps
<1> QED
  BY <1>11

LEMMA ExecutedGrows ==
    ASSUME [Next]_vars, RInv
    PROVE  /\ executed \subseteq executed'
           /\ \A c \in Calls : Executed(c) # {} => Executed(c)' # {}
<1>1. executed \subseteq executed'
  <2>1. CASE \E r \in atServer : ServerExecutes(r)
    BY <2>1 DEF ServerExecutes
  <2> QED
    BY <2>1, CallMoves
<1> QED
  BY <1>1 DEF Executed

LEMMA EarnedStep ==
    ASSUME RInv, Earned, [Next]_vars
    PROVE  Earned'
<1>1. ASSUME NEW p \in Mail', At(p)'.kind \in Results
      PROVE  \E e \in executed' : e.id = At(p)'.req
  <2>1. CASE \E gone : Moved(batch, inbound, batch', inbound', gone)
    <3>1. PICK q \in Mail : At(p)' = At(q)
      BY <2>1, MailMovesBack
    <3> QED
      BY <1>1, <3>1, ExecutedGrows DEF Earned
  <2>2. CASE ServerSteps /\ batch' = batch
    <3>1. CASE inbound' = inbound
      <4>1. p \in Mail /\ At(p)' = At(p)
        BY <2>2, <3>1 DEF Mail, At
      <4> QED
        BY <1>1, <4>1, ExecutedGrows DEF Earned
    <3>2. CASE inbound' # inbound
      <4>1. PICK msg \in Message :
               /\ SendToClient(msg)
               /\ msg.kind \in Results => \E e \in executed' : e.id = msg.req
        BY <2>2, <3>2, ServerSays
      <4>2. At(p)' = msg \/ (p \in Mail /\ At(p)' = At(p))
        BY <2>2, <4>1, MailAddsOne DEF RInv
      <4> QED
        BY <1>1, <4>1, <4>2, ExecutedGrows DEF Earned
    <3> QED
      BY <3>1, <3>2
  <2> QED
    BY <2>1, <2>2, MailSteps DEF RInv
<1>2. ASSUME NEW c \in Calls, fut'[c] = "ok", fut[c] # "ok"
      PROVE  Executed(c) # {}
  <2>1. /\ HandleAnswer /\ Concerns(Current.req, c)
        /\ "ok" = ResultOf(Current.kind)
    BY <1>2, FutChanges
  <2>2. batch # <<>> /\ Current.kind \in Results
    <3>1. batch # <<>> /\ Current.kind \in {"ok", "error", "flood", "longFlood", "pong", "badMsg"}
      BY <2>1 DEF HandleAnswer, Handling
    <3> QED
      BY <2>1, <3>1 DEF ResultOf, Results
  <2>3. PICK e \in executed : e.id = Current.req
    BY <2>2, CurrentOK DEF Earned, RInv
  <2>4. e.call = c
    BY <2>1, <2>3 DEF Concerns, RInv, Owners
  <2> QED
    BY <2>4 DEF Executed
<1>3. ASSUME NEW c \in Calls, outcome'[c] = "ok", outcome[c] # "ok"
      PROVE  fut[c] = "ok"
  <2>1. GoesOn(c)
    BY <1>3, CallMoves
  <2> QED
    BY <1>3, <2>1 DEF GoesOn
<1>4. \A c \in Calls : fut'[c] = "ok" \/ outcome'[c] = "ok" => Executed(c)' # {}
  BY <1>2, <1>3, ExecutedGrows DEF Earned
<1> QED
  BY <1>1, <1>4 DEF Earned

LEMMA EndsStep ==
    ASSUME RInv, Ends, [Next]_vars
    PROVE  Ends'
<1> SUFFICES ASSUME NEW c \in Calls
             PROVE  /\ outcome'[c] # "none" <=> pc'[c] = "done"
                    /\ outcome'[c] = "closed" =>
                         fut'[c] = "pending" /\ InLock(c)' = {} /\ AtServer(c)' = {}
  BY DEF Ends
<1>1. outcome'[c] # "none" <=> pc'[c] = "done"
  BY CallMoves DEF Ends, GoesOn, Settled
<1>2. ASSUME outcome'[c] = "closed"
      PROVE  /\ pc[c] \in {"idle", "done"} /\ ~Known(c) /\ fut[c] = "pending"
             /\ InLock(c) = {} /\ AtServer(c) = {} /\ pc'[c] = "done"
  <2>1. CASE outcome[c] = "closed"
    BY <1>1, <1>2, <2>1 DEF Ends, Known
  <2>2. CASE outcome[c] # "closed"
    <3>1. GoesOn(c)
      BY <1>2, <2>2, CallMoves
    <3>2. pc[c] = "idle"
      BY <1>2, <2>2, <3>1 DEF GoesOn, Settled
    <3> QED
      BY <1>1, <1>2, <3>2 DEF RInv, Tables, Turns, OneTurn, Own, Known
  <2> QED
    BY <2>1, <2>2
<1>3. ASSUME outcome'[c] = "closed"
      PROVE  \A m : ~Concerns(m, c)
  BY <1>2, <1>3 DEF Concerns, RInv, Tables
<1>4. ASSUME outcome'[c] = "closed"
      PROVE  fut'[c] = "pending"
  BY <1>2, <1>3, <1>4, FutChanges
<1>5. ASSUME outcome'[c] = "closed"
      PROVE  InLock(c)' = {}
  <2>1. ASSUME NEW i \in DOMAIN lock', lock'[i].call = c PROVE FALSE
    <3>1. ~(\E j \in DOMAIN lock : lock'[i] = lock[j])
      BY <1>2, <1>5, <2>1 DEF InLock
    <3> QED
      BY <1>2, <1>3, <1>5, <2>1, <3>1, LockChanges, CallsAssumption
  <2> QED
    BY <2>1 DEF InLock
<1>6. ASSUME outcome'[c] = "closed"
      PROVE  AtServer(c)' = {}
  BY <1>2, <1>6, ServerChanges DEF AtServer, InLock
<1> QED
  BY <1>1, <1>4, <1>5, <1>6

LEMMA ResultsAlways == Spec => [](RInv /\ Earned /\ Ends)
<1>1. Init => Earned /\ Ends
  BY DEF Init, Earned, Ends, Mail, Places, InLock, AtServer
<1>2. RInv /\ Earned /\ Ends /\ [Next]_vars => Earned' /\ Ends'
  BY EarnedStep, EndsStep
<1> QED
  BY <1>1, <1>2, RInvAlways, PTL DEF Spec

(***************************************************************************)
(* invoke_tl returns a result only when the server has executed the        *)
(* request of that very call: an answer carries the id it answers, and an  *)
(* id never leads to another call (_handle_message on rpc_result, pong).   *)
(***************************************************************************)
THEOREM ResultsCorrect == Spec => []ResultsAreEarned
<1>1. Earned => ResultsAreEarned
  BY DEF Earned, Executed, ResultsAreEarned
<1> QED
  BY <1>1, ResultsAlways, PTL

-----------------------------------------------------------------------------
(* The contract.                                                           *)

Status == [c \in Calls |-> CallStatus(c)]
Served == {e.call : e \in executed}

LEMMA StatusMoves ==
    ASSUME NEW c \in Calls, NEW to, CallStatus(c)' = to,
           \A d \in Calls \ {c} : pc'[d] = pc[d] /\ outcome'[d] = outcome[d]
    PROVE  Status' = [Status EXCEPT ![c] = to]
<1>1. \A d \in Calls \ {c} : CallStatus(d)' = CallStatus(d)
  BY DEF CallStatus
<1>2. Status' = [d \in Calls |-> CallStatus(d)']
  BY DEF Status
<1>3. [Status EXCEPT ![c] = to] = [d \in Calls |-> IF d = c THEN to ELSE CallStatus(d)]
  BY DEF Status
<1> QED
  BY <1>1, <1>2, <1>3

LEMMA ContractStep ==
    ASSUME RInv, Earned, Ends, [Next]_vars
    PROVE  [Contract!Next]_(Contract!vars)
<1>1. CASE UNCHANGED <<pc, outcome, executed>>
  <2>1. Status' = Status /\ Served' = Served
    BY <1>1 DEF Status, Served, CallStatus
  <2> QED
    BY <2>1 DEF Contract!vars, Status, Served
<1>2. CASE UNCHANGED <<pc, outcome>> /\ \E r \in atServer : ServerExecutes(r)
  <2>1. PICK r \in atServer : ServerExecutes(r)
    BY <1>2
  <2> DEFINE c == r.call
             e == [id |-> r.id, call |-> c]
  <2>2. executed' = executed \cup {e} /\ e.call = c /\ c \in Calls
    BY <2>1 DEF ServerExecutes, RInv, TInv, ServerOK
  <2>3. AtServer(c) # {} /\ OneTurn(c)
    BY <2>2 DEF AtServer, RInv, Turns
  <2>4. Executed(c) = {} /\ ~Own(c)
    BY <2>3 DEF OneTurn
  <2>5. pc[c] # "idle" /\ outcome[c] # "closed" /\ outcome[c] # "ok"
    BY <2>2, <2>3, <2>4 DEF Own, Ends, Earned
  <2>6. Status[c] \in {"open", "exception"}
    BY <2>2, <2>5 DEF Status, CallStatus, RInv, TInv, CallsOK
  <2> HIDE DEF c, e
  <2>7. c \notin Served /\ Served' = Served \cup {c} /\ Status' = Status
    BY <1>2, <2>2, <2>4 DEF Served, Executed, Status, CallStatus
  <2>8. Contract!Serve(c)
    BY <2>6, <2>7 DEF Contract!Serve, Status, Served
  <2> QED
    BY <2>2, <2>8 DEF Contract!Next
<1>3. ASSUME NEW c \in Calls, GoesOn(c), executed' = executed,
             \A d \in Calls \ {c} : pc'[d] = pc[d] /\ outcome'[d] = outcome[d]
      PROVE  [Contract!Next]_(Contract!vars)
  <2>0. Served' = Served
    BY <1>3 DEF Served
  <2>1. CASE pc[c] = "idle" /\ pc'[c] = "sending"
    <3>1. Status[c] = "new" /\ Status' = [Status EXCEPT ![c] = "open"]
      BY <1>3, <2>1, StatusMoves DEF Status, CallStatus
    <3>2. Contract!Begin(c)
      BY <2>0, <3>1 DEF Contract!Begin, Contract!Move, Status, Served
    <3> QED
      BY <3>2 DEF Contract!Next
  <2>2. CASE /\ pc[c] \in {"sending", "waiting", "sleeping"}
             /\ pc'[c] \in {"sending", "waiting", "sleeping"}
    <3>1. Status[c] = "open" /\ CallStatus(c)' = "open"
      BY <2>2 DEF Status, CallStatus
    <3>2. Status' = [Status EXCEPT ![c] = "open"]
      BY <1>3, <3>1, StatusMoves
    <3>3. Status' = Status
      BY <3>1, <3>2 DEF Status
    <3> QED
      BY <2>0, <3>3 DEF Contract!vars, Status, Served
  <2>3. CASE pc[c] = "idle" /\ pc'[c] = "done" /\ outcome'[c] = "closed"
    <3>1. Status[c] = "new" /\ Status' = [Status EXCEPT ![c] = "refused"]
      BY <1>3, <2>3, StatusMoves DEF Status, CallStatus
    <3>2. Contract!Refuse(c)
      BY <2>0, <3>1 DEF Contract!Refuse, Contract!Move, Status, Served
    <3> QED
      BY <3>2 DEF Contract!Next
  <2>4. CASE pc[c] = "waiting" /\ pc'[c] = "done" /\ outcome'[c] = "ok" /\ fut[c] = "ok"
    <3>1. Status[c] = "open" /\ Status' = [Status EXCEPT ![c] = "result"]
      BY <1>3, <2>4, StatusMoves DEF Status, CallStatus
    <3>2. c \in Served
      BY <2>4 DEF Earned, Executed, Served
    <3>3. Contract!Succeed(c)
      BY <2>0, <3>1, <3>2 DEF Contract!Succeed, Contract!Move, Status, Served
    <3> QED
      BY <3>3 DEF Contract!Next
  <2>5. CASE /\ pc[c] \in {"sending", "waiting", "sleeping"} /\ pc'[c] = "done"
             /\ outcome'[c] \notin {"ok", "closed"}
    <3>1. Status[c] = "open" /\ Status' = [Status EXCEPT ![c] = "exception"]
      BY <1>3, <2>5, StatusMoves DEF Status, CallStatus
    <3>2. Contract!Fail(c)
      BY <2>0, <3>1 DEF Contract!Fail, Contract!Move, Status, Served
    <3> QED
      BY <3>2 DEF Contract!Next
  <2> QED
    BY <1>3, <2>1, <2>2, <2>3, <2>4, <2>5 DEF GoesOn, Settled
<1> QED
  BY <1>1, <1>2, <1>3, CallMoves

(***************************************************************************)
(* The sender implements the contract of an invocation: whatever messages, *)
(* ids, salts and retries there are, each invoke_tl is refused at once or  *)
(* ends once, its request is executed at most once and before a result,    *)
(* and never for a call that a closed sender refused.                      *)
(***************************************************************************)
THEOREM ContractCorrect == Spec => RespectsContract
<1>1. Init => Contract!Init
  <2> SUFFICES ASSUME Init PROVE Contract!Init
    OBVIOUS
  <2>1. Status = [c \in Calls |-> "new"] /\ Served = {}
    BY DEF Init, Status, CallStatus, Served
  <2> QED
    BY <2>1 DEF Contract!Init, Status, Served
<1>2. RInv /\ Earned /\ Ends /\ [Next]_vars => [Contract!Next]_(Contract!vars)
  BY ContractStep
<1> QED
  BY <1>1, <1>2, ResultsAlways, PTL DEF Spec, RespectsContract, Contract!Spec

-----------------------------------------------------------------------------
(* Salts.                                                                  *)

Salted(p) == At(p).kind \in {"badSalt", "newSession"}

\* A call that has been sent more than once in this round.
Again(c) == \E m, n \in ids[c] : m # n

\* Nobody knows a salt the server has not had.
SaltBounds ==
    /\ salt <= srvSalt
    /\ \A r \in atServer : r.salt <= srvSalt
    /\ \A i \in DOMAIN lock : lock[i].salt <= srvSalt

\* The salts on their way never go back, and a refused one is not the first.
SaltMail ==
    /\ \A p \in Mail : Salted(p) => salt <= At(p).salt /\ At(p).salt <= srvSalt
    /\ \A p, q \in Mail :
          Salted(p) /\ Salted(q) /\ Before(p, q) => At(p).salt <= At(q).salt
    /\ \A p \in Mail : At(p).kind = "badSalt" => At(p).salt >= 1

\* The second attempt is under a salt that the server has told, so that its
\* refusal tells of a third one.
SaltAgain ==
    /\ \A i \in DOMAIN lock : lock[i].kind = "retry" => lock[i].salt >= 1 /\ salt >= 1
    /\ \A c \in Calls : Again(c) /\ pc[c] = "waiting" =>
          /\ salt >= 1
          /\ \A i \in InLock(c) : lock[i].salt >= 1
          /\ \A r \in AtServer(c) : r.salt >= 1
          /\ \A p \in Refused(c) : At(p).kind = "badSalt" => At(p).salt >= 2

SaltEnds ==
    \A c \in Calls : fut[c] = "saltLimit" \/ outcome[c] = "saltLimit" => srvSalt >= 2

Salts == SaltBounds /\ SaltMail /\ SaltAgain /\ SaltEnds

\* The message the receiver is at is before all others.
LEMMA CurrentFirst ==
    ASSUME RInv, batch # <<>>
    PROVE  /\ <<0, 1>> \in Mail /\ At(<<0, 1>>) = Current /\ Current \in Message
           /\ \A p \in Mail \ {<<0, 1>>} : Before(<<0, 1>>, p)
<1>1. <<0, 1>> \in Mail /\ At(<<0, 1>>) = Current
  BY MailNext DEF RInv, TInv, MailOK, Mail, At, Current
<1>2. Current \in Message
  BY <1>1, MailTyped DEF RInv, TInv, MailOK, Mail, At
<1>3. ASSUME NEW p \in Mail \ {<<0, 1>>} PROVE Before(<<0, 1>>, p)
  <2>1. p \in Nat \X Nat /\ (p[1] = 0 => p[2] \in DOMAIN batch)
    BY DEF Mail, Places
  <2>2. DOMAIN batch = 1 .. Len(batch)
    BY LenProperties DEF RInv, TInv, MailOK
  <2>3. p = <<p[1], p[2]>>
    BY <2>1
  <2>4. CASE p[1] = 0
    BY <2>1, <2>2, <2>3, <2>4 DEF Before
  <2>5. CASE p[1] # 0
    BY <2>1, <2>5 DEF Before
  <2> QED
    BY <2>4, <2>5
<1> QED
  BY <1>1, <1>2, <1>3

LEMMA SaltChanges ==
    ASSUME RInv, [Next]_vars
    PROVE  \/ salt' = salt
           \/ /\ batch # <<>> /\ Current.kind \in {"newSession", "badSalt"}
              /\ salt' = Current.salt
              /\ Moved(batch, inbound, batch', inbound', {<<0, 1>>})
<1>1. CASE HandleNewSession \/ RetryOnBadSalt \/ HandleBadSalt
  <2>1. /\ batch # <<>> /\ Current.kind \in {"newSession", "badSalt"}
        /\ salt' = Current.salt /\ batch' = Tail(batch) /\ inbound' = inbound
    BY <1>1 DEF HandleNewSession, RetryOnBadSalt, HandleBadSalt, Handling, NextMessage
  <2> QED
    BY <2>1, MailNext DEF RInv, TInv, MailOK
<1>2. CASE \E c \in Calls : CallSteps(c)
  BY <1>2 DEF CallSteps, Invoke, InvokeClosed, Resume, SleepOnFlood, RaiseFlood,
     WakeUp, Timeout, CancelWaiting, CancelSending, CancelSleeping
<1>3. CASE SendEnds
  BY <1>3 DEF SendEnds, CallSent, CallSendFails, RetrySent, ResendSent, AckSent,
     ReaderSendFails
<1>4. CASE \/ ReadPacket \/ ReadBadPacket \/ HandleAnswer \/ ResendMessage
           \/ IgnoreMessage \/ QueueUpdate \/ EndPacket \/ ReaderReadFails
           \/ TakeUpdate \/ Close \/ UNCHANGED vars
  BY <1>4 DEF ReadPacket, ReadBadPacket, HandleAnswer, ResendMessage,
     IgnoreMessage, QueueUpdate, EndPacket, ReaderReadFails, TakeUpdate, Close, vars
<1>5. CASE ServerSteps
  BY <1>5 DEF ServerSteps, ServerExecutes, ServerRefuses, ServerRefusesSalt,
     ServerWantsResend, ServerRepeats, ServerUnasked, ServerRotatesSalt
<1> QED
  BY <1>1, <1>2, <1>3, <1>4, <1>5 DEF Next, ReceiverSteps

LEMMA ServerSaltGrows ==
    ASSUME RInv, [Next]_vars
    PROVE  srvSalt' = srvSalt \/ (srvSalt' = srvSalt + 1 /\ inbound' = inbound)
<1>1. CASE \E c \in Calls : CallSteps(c)
  BY <1>1 DEF CallSteps, Invoke, InvokeClosed, Resume, SleepOnFlood, RaiseFlood,
     WakeUp, Timeout, CancelWaiting, CancelSending, CancelSleeping, serverVars
<1>2. CASE SendEnds
  BY <1>2 DEF SendEnds, CallSent, CallSendFails, RetrySent, ResendSent, AckSent,
     ReaderSendFails, serverVars
<1>3. CASE ReceiverSteps
  BY <1>3 DEF ReceiverSteps, ReadPacket, ReadBadPacket, HandleAnswer,
     HandleNewSession, RetryOnBadSalt, HandleBadSalt, ResendMessage,
     IgnoreMessage, QueueUpdate, EndPacket, ReaderReadFails, serverVars
<1>4. CASE TakeUpdate \/ Close \/ UNCHANGED vars
  BY <1>4 DEF TakeUpdate, Close, vars, serverVars
<1>5. CASE ServerSteps
  BY <1>5 DEF ServerSteps, ServerExecutes, ServerRefuses, ServerRefusesSalt,
     ServerWantsResend, ServerRepeats, ServerUnasked, ServerRotatesSalt
<1> QED
  BY <1>1, <1>2, <1>3, <1>4, <1>5 DEF Next

\* Salts only go forward, and the client's is one the server has had.
LEMMA SaltsGrow ==
    ASSUME RInv, Salts, [Next]_vars
    PROVE  /\ salt \in Nat /\ salt' \in Nat /\ srvSalt \in Nat /\ srvSalt' \in Nat
           /\ salt <= salt' /\ salt' <= srvSalt /\ srvSalt <= srvSalt'
<1>1. salt \in Nat /\ srvSalt \in Nat
  BY DEF RInv, TInv, ReaderOK, ServerOK
<1>2. srvSalt' \in Nat /\ srvSalt <= srvSalt'
  BY <1>1, ServerSaltGrows
<1>3. CASE salt' = salt
  BY <1>1, <1>2, <1>3 DEF Salts, SaltBounds
<1>4. CASE batch # <<>> /\ Current.kind \in {"newSession", "badSalt"} /\ salt' = Current.salt
  <2>1. <<0, 1>> \in Mail /\ At(<<0, 1>>) = Current /\ Current.salt \in Nat
    BY <1>4, CurrentFirst DEF Message
  <2>2. salt <= Current.salt /\ Current.salt <= srvSalt
    BY <1>4, <2>1 DEF Salts, SaltMail, Salted
  <2> QED
    BY <1>1, <1>2, <1>4, <2>1, <2>2
<1> QED
  BY <1>3, <1>4, SaltChanges

\* Ids that are used are never given to another call.
LEMMA PendingSteps ==
    ASSUME RInv, [Next]_vars
    PROVE  TablesStep
<1>0. sent' = pending'
  BY NextRInv DEF RInv, Tables
<1>1. CASE \E c \in Calls : _CleanupCall(ids[c])
  <2>1. PICK c \in Calls : _CleanupCall(ids[c])
    BY <1>1
  <2> QED
    BY <1>0, <2>1 DEF _CleanupCall, Restrict, TablesStep
<1>2. CASE FailPending
  BY <1>0, <1>2 DEF FailPending, Restrict, TablesStep
<1>3. CASE CallSent \/ RetrySent
  <2>1. lock # <<>> /\ Head(lock).kind # "again" /\ Register(Head(lock).call, Head(lock).id)
    BY <1>3 DEF CallSent, RetrySent
  <2>2. 1 \in DOMAIN lock /\ Head(lock) = lock[1]
    BY <2>1, TailThins DEF RInv, TInv, LockOK
  <2>3. Head(lock).id > written /\ Head(lock).id \in Nat /\ written \in Nat
    BY <2>1, <2>2, NewJobs, WrittenNat DEF RInv
  <2> QED
    BY <1>0, <2>1, <2>3 DEF Register, TablesStep
<1>4. CASE UNCHANGED tableVars
  BY <1>0, <1>4 DEF tableVars, TablesStep
<1>5. \/ \E c \in Calls : _CleanupCall(ids[c])
      \/ FailPending \/ CallSent \/ RetrySent \/ UNCHANGED tableVars
  <2>1. CASE \E c \in Calls : CallSteps(c)
    BY <2>1 DEF CallSteps, Invoke, InvokeClosed, Resume, SleepOnFlood, RaiseFlood,
       WakeUp, Timeout, CancelWaiting, CancelSending, CancelSleeping
  <2>2. CASE SendEnds
    BY <2>2 DEF SendEnds, CallSendFails, ResendSent, AckSent, ReaderSendFails
  <2>3. CASE ReceiverSteps
    BY <2>3 DEF ReceiverSteps, ReadPacket, ReadBadPacket, HandleAnswer,
       HandleNewSession, RetryOnBadSalt, HandleBadSalt, ResendMessage,
       IgnoreMessage, QueueUpdate, EndPacket, ReaderReadFails
  <2>4. CASE TakeUpdate \/ Close \/ UNCHANGED vars
    BY <2>4 DEF TakeUpdate, Close, vars
  <2>5. CASE ServerSteps
    BY <2>5 DEF ServerSteps, ServerExecutes, ServerRefuses, ServerRefusesSalt,
       ServerWantsResend, ServerRepeats, ServerUnasked, ServerRotatesSalt
  <2> QED
    BY <2>1, <2>2, <2>3, <2>4, <2>5 DEF Next
<1> QED
  BY <1>1, <1>2, <1>3, <1>4, <1>5

\* A call has an id more when a packet of it has left the lock.
LEMMA IdsChanges ==
    ASSUME RInv, [Next]_vars, NEW c \in Calls
    PROVE  \/ ids'[c] = ids[c] \/ ids'[c] = {}
           \/ /\ CallSent \/ RetrySent
              /\ c = Head(lock).call /\ ids'[c] = ids[c] \cup {Head(lock).id}
<1>0. ids \in [Calls -> SUBSET Nat]
  BY DEF RInv, TInv, CallsOK
<1>1. CASE \E d \in Calls : CallSteps(d)
  BY <1>0, <1>1 DEF CallSteps, Invoke, InvokeClosed, Resume, SleepOnFlood, RaiseFlood,
     WakeUp, Timeout, CancelWaiting, CancelSending, CancelSleeping, BeginRound
<1>2. CASE CallSent \/ RetrySent
  <2>1. Register(Head(lock).call, Head(lock).id)
    BY <1>2 DEF CallSent, RetrySent
  <2> QED
    BY <1>0, <1>2, <2>1 DEF Register
<1>3. CASE CallSendFails \/ ResendSent \/ AckSent \/ ReaderSendFails
  BY <1>3 DEF CallSendFails, ResendSent, AckSent, ReaderSendFails, callVars
<1>4. CASE ReceiverSteps
  BY <1>4 DEF ReceiverSteps, ReadPacket, ReadBadPacket, HandleAnswer,
     HandleNewSession, RetryOnBadSalt, HandleBadSalt, ResendMessage,
     IgnoreMessage, QueueUpdate, EndPacket, ReaderReadFails, callVars
<1>5. CASE TakeUpdate \/ Close \/ UNCHANGED vars
  BY <1>5 DEF TakeUpdate, Close, vars, callVars
<1>6. CASE ServerSteps
  BY <1>6 DEF ServerSteps, ServerExecutes, ServerRefuses, ServerRefusesSalt,
     ServerWantsResend, ServerRepeats, ServerUnasked, ServerRotatesSalt, callVars
<1> QED
  BY <1>1, <1>2, <1>3, <1>4, <1>5, <1>6 DEF Next, SendEnds

LEMMA SaltBoundsStep ==
    ASSUME RInv, Salts, [Next]_vars
    PROVE  SaltBounds'
<1>1. /\ salt \in Nat /\ salt' \in Nat /\ srvSalt \in Nat /\ srvSalt' \in Nat
      /\ salt <= salt' /\ salt' <= srvSalt /\ srvSalt <= srvSalt'
  BY SaltsGrow
<1>2. \A i \in DOMAIN lock : lock[i].salt \in Nat /\ lock[i].salt <= srvSalt'
  <2> SUFFICES ASSUME NEW i \in DOMAIN lock
               PROVE  lock[i].salt \in Nat /\ lock[i].salt <= srvSalt'
    OBVIOUS
  <2>1. lock[i] \in Job
    BY JobCalls DEF RInv
  <2>2. lock[i].salt \in Nat /\ lock[i].salt <= srvSalt
    BY <2>1 DEF Job, Salts, SaltBounds
  <2> QED
    BY <1>1, <2>2
<1>3. \A i \in DOMAIN lock' : lock'[i].salt <= srvSalt'
  <2> SUFFICES ASSUME NEW i \in DOMAIN lock'
               PROVE  lock'[i].salt <= srvSalt'
    OBVIOUS
  <2>1. \/ \E j \in DOMAIN lock : lock'[i] = lock[j]
        \/ lock'[i].salt = salt
        \/ RetryOnBadSalt /\ lock'[i].salt = Current.salt
    BY LockChanges
  <2>2. RetryOnBadSalt => salt' = Current.salt
    BY DEF RetryOnBadSalt
  <2> QED
    BY <1>1, <1>2, <2>1, <2>2
<1>4. \A r \in atServer' : r.salt <= srvSalt'
  <2> SUFFICES ASSUME NEW r \in atServer' PROVE r.salt <= srvSalt'
    OBVIOUS
  <2>1. r \in atServer \/ \E k \in DOMAIN lock : r.salt = lock[k].salt
    BY ServerChanges
  <2>2. r \in atServer => r.salt \in Nat /\ r.salt <= srvSalt
    BY DEF RInv, TInv, ServerOK, Salts, SaltBounds
  <2> QED
    BY <1>1, <1>2, <2>1, <2>2
<1> QED
  BY <1>1, <1>3, <1>4 DEF SaltBounds

LEMMA SaltMailStep ==
    ASSUME RInv, Salts, [Next]_vars
    PROVE  SaltMail'
<1>0. /\ salt \in Nat /\ salt' \in Nat /\ srvSalt \in Nat /\ srvSalt' \in Nat
      /\ salt <= salt' /\ salt' <= srvSalt /\ srvSalt <= srvSalt'
  BY SaltsGrow
<1>1. \A p \in Mail : At(p).salt \in Nat
  <2>1. \A p \in Mail : At(p) \in Message
    BY MailTyped DEF RInv, TInv, MailOK, Mail, At
  <2> QED
    BY <2>1 DEF Message
<1>2. ASSUME NEW gone, Moved(batch, inbound, batch', inbound', gone),
             \A q \in Mail \ gone : Salted(q) => salt' <= At(q).salt
      PROVE  SaltMail'
  <2>1. PICK f \in [Mail' -> Mail \ gone] :
           /\ \A p \in Mail' : At(p)' = At(f[p])
           /\ \A p, r \in Mail' : Before(p, r) => Before(f[p], f[r])
    BY <1>2 DEF Moved, Mail, At
  <2>2. \A p \in Mail' : f[p] \in Mail /\ f[p] \notin gone /\ At(p)' = At(f[p])
    BY <2>1
  <2>3. \A p \in Mail' : Salted(p)' <=> Salted(f[p])
    BY <2>2 DEF Salted
  <2>4. ASSUME NEW p \in Mail', Salted(p)'
        PROVE  salt' <= At(p)'.salt /\ At(p)'.salt <= srvSalt'
    <3>1. f[p] \in Mail \ gone /\ Salted(f[p]) /\ At(p)' = At(f[p])
      BY <2>2, <2>3, <2>4
    <3>2. salt' <= At(f[p]).salt /\ At(f[p]).salt <= srvSalt /\ At(f[p]).salt \in Nat
      BY <1>1, <1>2, <3>1 DEF Salts, SaltMail
    <3> QED
      BY <1>0, <3>1, <3>2
  <2>5. ASSUME NEW p \in Mail', NEW q \in Mail', Salted(p)', Salted(q)', Before(p, q)
        PROVE  At(p)'.salt <= At(q)'.salt
    <3>1. f[p] \in Mail /\ f[q] \in Mail /\ Salted(f[p]) /\ Salted(f[q])
          /\ At(p)' = At(f[p]) /\ At(q)' = At(f[q])
      BY <2>2, <2>3, <2>5
    <3>2. Before(f[p], f[q])
      BY <2>1, <2>5
    <3> QED
      BY <3>1, <3>2 DEF Salts, SaltMail
  <2>6. \A p \in Mail' : At(p)'.kind = "badSalt" => At(p)'.salt >= 1
    BY <2>2 DEF Salts, SaltMail
  <2> QED
    BY <2>4, <2>5, <2>6 DEF SaltMail, Before
<1>3. CASE salt' = salt /\ \E gone : Moved(batch, inbound, batch', inbound', gone)
  BY <1>2, <1>3 DEF Salts, SaltMail
<1>4. CASE /\ batch # <<>> /\ Current.kind \in {"newSession", "badSalt"}
           /\ salt' = Current.salt
           /\ Moved(batch, inbound, batch', inbound', {<<0, 1>>})
  <2>1. /\ <<0, 1>> \in Mail /\ At(<<0, 1>>) = Current
        /\ \A p \in Mail \ {<<0, 1>>} : Before(<<0, 1>>, p)
    BY <1>4, CurrentFirst
  <2>2. Salted(<<0, 1>>)
    BY <1>4, <2>1 DEF Salted
  <2>3. \A q \in Mail \ {<<0, 1>>} : Salted(q) => salt' <= At(q).salt
    BY <1>4, <2>1, <2>2 DEF Salts, SaltMail
  <2> QED
    BY <1>2, <1>4, <2>3
<1>5. CASE ServerSteps /\ batch' = batch /\ salt' = salt
  <2>1. CASE inbound' = inbound
    <3>1. Moved(batch, inbound, batch', inbound', {})
      BY <1>5, <2>1, MailStays
    <3> QED
      BY <1>3, <1>5, <3>1
  <2>2. CASE inbound' # inbound
    <3>1. PICK msg \in Message :
             /\ SendToClient(msg)
             /\ msg.kind \in {"badSalt", "newSession"} => msg.salt = srvSalt
             /\ msg.kind = "badSalt" => \E r \in atServer : r.salt # srvSalt
      BY <1>5, <2>2, ServerSays
    <3>2. msg.kind = "badSalt" => msg.salt >= 1
      <4>1. \A r \in atServer : r.salt \in Nat /\ r.salt <= srvSalt
        BY DEF RInv, TInv, ServerOK, Salts, SaltBounds
      <4> QED
        BY <1>0, <3>1, <4>1
    <3>3. Added(batch, inbound, inbound', msg)
      BY <3>1, MailAdds DEF RInv, TInv, MailOK
    <3>4. PICK n \in Mail' :
             /\ Mail' = Mail \cup {n}
             /\ At(n)' = msg
             /\ \A p \in Mail : At(p)' = At(p) /\ Before(p, n)
      BY <1>5, <3>3 DEF Added, Mail, At
    <3>5. \A p \in Mail : (Salted(p)' <=> Salted(p)) /\ At(p)' = At(p)
      BY <3>4 DEF Salted
    <3>6. /\ Salted(n)' => At(n)'.salt = srvSalt
          /\ At(n)'.kind = "badSalt" => At(n)'.salt >= 1
      BY <3>1, <3>2, <3>4 DEF Salted
    <3>7. \A p \in Mail : ~Before(n, p)
      <4>1. n \in Nat \X Nat /\ \A p \in Mail : p \in Nat \X Nat
        BY DEF Mail, Places
      <4> QED
        BY <3>4, <4>1 DEF Before
    <3>8. ~Before(n, n)
      <4>1. n \in Nat \X Nat
        BY DEF Mail, Places
      <4> QED
        BY <4>1 DEF Before
    <3>9. \A p \in Mail' : Salted(p)' => salt' <= At(p)'.salt /\ At(p)'.salt <= srvSalt'
      <4> SUFFICES ASSUME NEW p \in Mail', Salted(p)'
                   PROVE  salt' <= At(p)'.salt /\ At(p)'.salt <= srvSalt'
        OBVIOUS
      <4>1. CASE p \in Mail
        <5>1. Salted(p) /\ At(p)' = At(p) /\ At(p).salt \in Nat
          BY <1>1, <3>5, <4>1
        <5>2. salt <= At(p).salt /\ At(p).salt <= srvSalt
          BY <4>1, <5>1 DEF Salts, SaltMail
        <5> QED
          BY <1>0, <1>5, <5>1, <5>2
      <4>2. CASE p = n
        BY <1>0, <3>6, <4>2
      <4> QED
        BY <3>4, <4>1, <4>2
    <3>10. \A p, q \in Mail' :
              Salted(p)' /\ Salted(q)' /\ Before(p, q) => At(p)'.salt <= At(q)'.salt
      <4> SUFFICES ASSUME NEW p \in Mail', NEW q \in Mail',
                          Salted(p)', Salted(q)', Before(p, q)
                   PROVE  At(p)'.salt <= At(q)'.salt
        OBVIOUS
      <4>1. p \in Mail
        BY <3>4, <3>7, <3>8
      <4>2. Salted(p) /\ At(p)' = At(p)
        BY <3>5, <4>1
      <4>3. CASE q \in Mail
        <5>1. Salted(q) /\ At(q)' = At(q)
          BY <3>5, <4>3
        <5> QED
          BY <4>1, <4>2, <4>3, <5>1 DEF Salts, SaltMail
      <4>4. CASE q = n
        <5>1. At(p).salt <= srvSalt
          BY <4>1, <4>2 DEF Salts, SaltMail
        <5> QED
          BY <3>6, <4>2, <4>4, <5>1
      <4> QED
        BY <3>4, <4>3, <4>4
    <3>11. \A p \in Mail' : At(p)'.kind = "badSalt" => At(p)'.salt >= 1
      BY <3>4, <3>5, <3>6 DEF Salts, SaltMail
    <3> QED
      BY <3>9, <3>10, <3>11 DEF SaltMail, Before
  <2> QED
    BY <2>1, <2>2
<1>6. ServerSteps => salt' = salt
  BY DEF ServerSteps, ServerExecutes, ServerRefuses, ServerRefusesSalt,
     ServerWantsResend, ServerRepeats, ServerUnasked, ServerRotatesSalt
<1> QED
  BY <1>3, <1>4, <1>5, <1>6, MailSteps, SaltChanges DEF RInv

\* A call that has gone out more than once was waiting and waits.
LEMMA AgainSteps ==
    ASSUME RInv, Salts, [Next]_vars, NEW c \in Calls,
           Again(c)', pc'[c] = "waiting"
    PROVE  \/ Again(c) /\ pc[c] = "waiting"
           \/ RetrySent /\ c = Head(lock).call
<1>1. CASE ids'[c] = ids[c]
  <2>1. Again(c)
    BY <1>1 DEF Again
  <2>2. pc'[c] = pc[c] \/ GoesOn(c)
    BY CallMoves
  <2> QED
    BY <2>1, <2>2 DEF GoesOn, Again
<1>2. CASE ids'[c] = {}
  BY <1>2 DEF Again
<1>3. CASE CallSent /\ c = Head(lock).call /\ ids'[c] = ids[c] \cup {Head(lock).id}
  <2>1. /\ lock # <<>> /\ Head(lock).kind = "call"
        /\ Head(lock) = lock[1] /\ 1 \in DOMAIN lock
    BY <1>3, TailThins DEF CallSent, RInv, TInv, LockOK
  <2>2. ids[c] = {}
    BY <1>3, <2>1 DEF RInv, Tables
  <2> QED
    BY <1>3, <2>2 DEF Again
<1> QED
  BY <1>1, <1>2, <1>3, IdsChanges

\* The retry of the receiver has put its packet on the wire.
LEMMA RetrySalts ==
    ASSUME RInv, Salts, [Next]_vars, RetrySent, NEW c \in Calls, c = Head(lock).call
    PROVE  /\ salt' >= 1
           /\ InLock(c)' = {} /\ Refused(c)' = {}
           /\ \A r \in AtServer(c)' : r.salt >= 1
<1>1. /\ lock # <<>> /\ Head(lock).kind = "retry"
      /\ Head(lock) = lock[1] /\ 1 \in DOMAIN lock
      /\ Deliver(Head(lock)) /\ salt' = salt
  BY TailThins DEF RetrySent, RInv, TInv, LockOK
<1>2. Head(lock).salt >= 1 /\ salt >= 1
  BY <1>1 DEF Salts, SaltAgain
<1>3. 1 \in InLock(c)
  BY <1>1 DEF InLock
<1>4. AtServer(c) = {}
  BY <1>3 DEF RInv, Turns, OneTurn
<1>5. \A r \in AtServer(c)' : r.salt = Head(lock).salt
  BY <1>1, <1>4, ServerGains DEF AtServer
<1>6. AtServer(c)' # {}
  <2> DEFINE x == [id |-> Head(lock).id, call |-> Head(lock).call, salt |-> Head(lock).salt]
  <2>1. x \in atServer' /\ x.call = c
    BY <1>1 DEF Deliver
  <2> QED
    BY <2>1 DEF AtServer
<1>7. OneTurn(c)'
  BY NextRInv DEF RInv, Turns
<1>8. InLock(c)' = {} /\ Refused(c)' = {}
  BY <1>6, <1>7 DEF OneTurn
<1> QED
  BY <1>1, <1>2, <1>5, <1>8

\* A refusal for a call that was sent again tells of a third salt.
LEMMA RefusedSalts ==
    ASSUME RInv, Salts, [Next]_vars, NEW c \in Calls, Again(c), pc[c] = "waiting",
           NEW p \in Refused(c)', At(p)'.kind = "badSalt"
    PROVE  At(p)'.salt >= 2
<1>0. /\ \A r \in AtServer(c) : r.salt >= 1
      /\ \A q \in Refused(c) : At(q).kind = "badSalt" => At(q).salt >= 2
  BY DEF Salts, SaltAgain
<1>1. p \in Mail' /\ Concerns(At(p).req, c)'
  BY DEF Refused
<1>2. ASSUME NEW q \in Mail, At(p)' = At(q)
      PROVE  At(p)'.salt >= 2
  <2>1. At(q).req <= written
    BY DEF RInv, TInv, MailOK
  <2>2. Concerns(At(q).req, c)
    BY <1>1, <1>2, <2>1, PendingSteps DEF TablesStep, Concerns
  <2>3. q \in Refused(c)
    BY <1>2, <2>2 DEF Refused, Refusals
  <2> QED
    BY <1>0, <1>2, <2>3
<1>3. CASE \E gone : Moved(batch, inbound, batch', inbound', gone)
  BY <1>1, <1>2, <1>3, MailMovesBack
<1>4. CASE ServerSteps /\ batch' = batch
  <2>1. CASE inbound' = inbound
    <3>1. p \in Mail /\ At(p)' = At(p)
      BY <1>1, <1>4, <2>1 DEF Mail, At
    <3> QED
      BY <1>2, <3>1
  <2>2. CASE inbound' # inbound
    <3>1. PICK msg \in Message :
             /\ SendToClient(msg)
             /\ msg.kind \in {"badSalt", "newSession"} => msg.salt = srvSalt
             /\ msg.kind = "badSalt" => \E r \in atServer :
                   msg.req = r.id /\ r.salt # srvSalt
      BY <1>4, <2>2, ServerSays
    <3>2. At(p)' = msg \/ (p \in Mail /\ At(p)' = At(p))
      BY <1>1, <1>4, <3>1, MailAddsOne DEF RInv
    <3>3. CASE At(p)' = msg
      <4>1. PICK r \in atServer : msg.req = r.id /\ r.salt # srvSalt
        BY <3>1, <3>3
      <4>2. Concerns(r.id, c)
        <5>1. r.id <= written
          BY DEF RInv, TInv, ServerOK
        <5> QED
          BY <1>1, <3>3, <4>1, <5>1, PendingSteps DEF TablesStep, Concerns
      <4>3. r \in AtServer(c)
        BY <4>2 DEF AtServer, Concerns, RInv, Owners
      <4>4. r.salt \in Nat /\ r.salt <= srvSalt /\ srvSalt \in Nat /\ r.salt >= 1
        BY <1>0, <4>3 DEF RInv, TInv, ServerOK, Salts, SaltBounds
      <4> QED
        BY <3>1, <3>3, <4>1, <4>4
    <3> QED
      BY <1>2, <3>2, <3>3
  <2> QED
    BY <2>1, <2>2
<1> QED
  BY <1>3, <1>4, MailSteps DEF RInv

LEMMA SaltAgainStep ==
    ASSUME RInv, Salts, [Next]_vars
    PROVE  SaltAgain'
<1>0. salt \in Nat /\ salt' \in Nat /\ salt <= salt'
  BY SaltsGrow
<1>1. ASSUME NEW i \in DOMAIN lock', lock'[i].kind = "retry"
      PROVE  lock'[i].salt >= 1 /\ salt' >= 1
  <2>1. \/ \E j \in DOMAIN lock : lock'[i] = lock[j]
        \/ RetryOnBadSalt /\ lock'[i].salt = Current.salt
    BY <1>1, LockChanges
  <2>2. CASE \E j \in DOMAIN lock : lock'[i] = lock[j]
    BY <1>0, <1>1, <2>2 DEF Salts, SaltAgain
  <2>3. CASE RetryOnBadSalt /\ lock'[i].salt = Current.salt
    <3>1. batch # <<>> /\ Current.kind = "badSalt" /\ salt' = Current.salt
      BY <2>3 DEF RetryOnBadSalt, Handling
    <3>2. <<0, 1>> \in Mail /\ At(<<0, 1>>) = Current
      BY <3>1, CurrentFirst
    <3>3. Current.salt >= 1
      BY <3>1, <3>2 DEF Salts, SaltMail
    <3> QED
      BY <2>3, <3>1, <3>3
  <2> QED
    BY <2>1, <2>2, <2>3
<1>2. ASSUME NEW c \in Calls, Again(c)', pc'[c] = "waiting"
      PROVE  /\ salt' >= 1
             /\ \A i \in InLock(c)' : lock'[i].salt >= 1
             /\ \A r \in AtServer(c)' : r.salt >= 1
             /\ \A p \in Refused(c)' : At(p)'.kind = "badSalt" => At(p)'.salt >= 2
  <2>1. CASE Again(c) /\ pc[c] = "waiting"
    <3>1. /\ salt >= 1
          /\ \A i \in InLock(c) : lock[i].salt >= 1
          /\ \A r \in AtServer(c) : r.salt >= 1
      BY <2>1 DEF Salts, SaltAgain
    <3>2. ASSUME NEW i \in InLock(c)' PROVE lock'[i].salt >= 1
      <4>1. i \in DOMAIN lock' /\ lock'[i].call = c
        BY DEF InLock
      <4>2. \/ \E j \in DOMAIN lock : lock'[i] = lock[j]
            \/ lock'[i].salt = salt
            \/ RetryOnBadSalt /\ lock'[i].salt = Current.salt
        BY <4>1, LockChanges
      <4>3. RetryOnBadSalt => salt' = Current.salt
        BY DEF RetryOnBadSalt
      <4>4. \A j \in DOMAIN lock : lock'[i] = lock[j] => j \in InLock(c)
        BY <4>1 DEF InLock
      <4> QED
        BY <1>0, <3>1, <4>2, <4>3, <4>4
    <3>3. ASSUME NEW r \in AtServer(c)' PROVE r.salt >= 1
      <4>1. r \in atServer' /\ r.call = c
        BY DEF AtServer
      <4>2. r \in atServer \/ \E k \in DOMAIN lock : r.call = lock[k].call /\ r.salt = lock[k].salt
        BY <4>1, ServerChanges
      <4> QED
        BY <3>1, <4>1, <4>2 DEF AtServer, InLock
    <3> QED
      BY <1>0, <2>1, <3>1, <3>2, <3>3, RefusedSalts
  <2>2. CASE RetrySent /\ c = Head(lock).call
    BY <2>2, RetrySalts
  <2> QED
    BY <1>2, <2>1, <2>2, AgainSteps
<1> QED
  BY <1>1, <1>2 DEF SaltAgain

LEMMA SaltEndsStep ==
    ASSUME RInv, Salts, [Next]_vars
    PROVE  SaltEnds'
<1>0. srvSalt \in Nat /\ srvSalt' \in Nat /\ srvSalt <= srvSalt'
  BY SaltsGrow
<1>1. ASSUME NEW c \in Calls, fut'[c] = "saltLimit" PROVE srvSalt' >= 2
  <2>1. CASE fut[c] = "saltLimit"
    BY <1>0, <2>1 DEF Salts, SaltEnds
  <2>2. CASE fut[c] # "saltLimit"
    <3>1. HandleBadSalt /\ fut[c] = "pending" /\ Concerns(Current.req, c)
      <4>1. HandleAnswer => ResultOf(Current.kind) # "saltLimit"
        <5>1. HandleAnswer => Current.kind \in {"ok", "error", "flood", "longFlood", "pong", "badMsg"}
          BY DEF HandleAnswer, Handling
        <5> QED
          BY <5>1 DEF ResultOf
      <4> QED
        BY <1>1, <2>2, <4>1, FutChanges
    <3>2. /\ batch # <<>> /\ Current.kind = "badSalt"
          /\ Cardinality(ids[c]) >= 2
      BY <3>1 DEF HandleBadSalt, Handling, Awaited, Concerns
    <3>3. Again(c)
      <4>1. ASSUME ids[c] = {} PROVE FALSE
        <5>1. Cardinality({}) = 0
          BY FS_EmptySet
        <5> QED
          BY <3>2, <4>1, <5>1
      <4>2. ASSUME NEW m, ids[c] = {m} PROVE FALSE
        <5>1. Cardinality({m}) = 1
          BY FS_Singleton
        <5> QED
          BY <3>2, <4>2, <5>1
      <4> QED
        BY <4>1, <4>2 DEF Again
    <3>4. pc[c] = "waiting"
      BY <3>1 DEF Concerns, RInv, Tables, Known
    <3>5. <<0, 1>> \in Mail /\ At(<<0, 1>>) = Current /\ Current \in Message
      BY <3>2, CurrentFirst
    <3>6. <<0, 1>> \in Refused(c)
      BY <3>1, <3>2, <3>5 DEF Refused, Refusals
    <3>7. Current.salt >= 2
      BY <3>2, <3>3, <3>4, <3>5, <3>6 DEF Salts, SaltAgain
    <3>8. Current.salt <= srvSalt
      BY <3>2, <3>5 DEF Salts, SaltMail, Salted
    <3> QED
      BY <1>0, <3>5, <3>7, <3>8 DEF Message
  <2> QED
    BY <2>1, <2>2
<1>2. ASSUME NEW c \in Calls, outcome'[c] = "saltLimit" PROVE srvSalt' >= 2
  <2>1. CASE outcome[c] = "saltLimit"
    BY <1>0, <2>1 DEF Salts, SaltEnds
  <2>2. CASE outcome[c] # "saltLimit"
    <3>1. GoesOn(c)
      BY <1>2, <2>2, CallMoves
    <3>2. fut[c] = "saltLimit"
      BY <1>2, <2>2, <3>1 DEF GoesOn
    <3> QED
      BY <1>0, <3>2 DEF Salts, SaltEnds
  <2> QED
    BY <2>1, <2>2
<1> QED
  BY <1>1, <1>2 DEF SaltEnds

(***************************************************************************)
(* "Retries once on bad_server_salt": a call fails with the retry limit    *)
(* only when the server has rotated its salt at least twice.  The salts on *)
(* their way to the client never go back, the second attempt is encrypted  *)
(* under one that the server has told (_handle_message stores the salt     *)
(* before it sends), so a second refusal tells of a third salt.            *)
(***************************************************************************)
THEOREM SaltLimitCorrect == Spec => []SaltLimitNeedsTwoRotations
<1>1. Init => Salts
  <2> SUFFICES ASSUME Init PROVE Salts
    OBVIOUS
  <2>1. Mail = {}
    BY DEF Init, Mail, Places
  <2>2. SaltBounds /\ SaltMail /\ SaltEnds
    BY <2>1 DEF Init, SaltBounds, SaltMail, SaltEnds
  <2>3. SaltAgain
    BY DEF Init, SaltAgain, Again
  <2> QED
    BY <2>2, <2>3 DEF Salts
<1>2. RInv /\ Salts /\ [Next]_vars => Salts'
  BY SaltBoundsStep, SaltMailStep, SaltAgainStep, SaltEndsStep DEF Salts
<1>3. Salts => SaltLimitNeedsTwoRotations
  BY DEF Salts, SaltEnds, SaltLimitNeedsTwoRotations
<1> QED
  BY <1>1, <1>2, <1>3, RInvAlways, PTL DEF Spec

=============================================================================
