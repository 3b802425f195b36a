---------------------------- MODULE MsgIdsProofs ----------------------------
(***************************************************************************)
(* Proofs about MsgIds, for every clock, every set of server ids and every *)
(* bound.  The inductive invariant is                                      *)
(*   IInv == TypeOK /\ LastIsBound /\ SeqIsBound /\ StampsOrdered          *)
(* LastIsBound carries the ids and SeqIsBound the sequence numbers; with   *)
(* them a new stamp lies above all earlier ones in both coordinates.       *)
(***************************************************************************)
EXTENDS MsgIds, TLAPS

\* No stamp has a number the counter has not passed.
SeqIsBound ==
    \A a \in stamps : /\ a.seqno <= 2 * seq
                      /\ a.content => a.seqno < 2 * seq

StampsOrdered == SeqNosFollowIds /\ IdsIdentifyMessages

IInv == TypeOK /\ LastIsBound /\ SeqIsBound /\ StampsOrdered

-----------------------------------------------------------------------------
\* x & ~3 is a multiple of 4 at most 3 below x (the & in MsgIdGenerator).
LEMMA FloorFacts ==
    ASSUME NEW x \in Int
    PROVE  /\ Floor4(x) \in Int
           /\ Floor4(x) % 4 = 0
           /\ Floor4(x) <= x
           /\ x < Floor4(x) + 4
           /\ x \in Nat => Floor4(x) \in Nat
BY DEF Floor4

\* What MsgIdGenerator.next returns: a multiple of 4 above the last value.
LEMMA NextIdFacts ==
    ASSUME NEW now \in Nat, NEW l \in Nat, l % 4 = 0
    PROVE  /\ NextId(now, l) \in Nat
           /\ NextId(now, l) % 4 = 0
           /\ NextId(now, l) >= l + 4
<1>1. Floor4(now) \in Nat /\ Floor4(now) % 4 = 0
  BY FloorFacts
<1>2. CASE Floor4(now) <= l
  BY <1>2, (l + 4) % 4 = 0 DEF NextId
<1>3. CASE ~(Floor4(now) <= l)
  <2>1. NextId(now, l) = Floor4(now)
    BY <1>3 DEF NextId
  <2>2. Floor4(now) >= l + 4
    BY <1>1, <1>3
  <2> QED
    BY <1>1, <2>1, <2>2
<1> QED
  BY <1>2, <1>3

\* What MsgIdGenerator.observe leaves: at least the old value and the floor.
LEMMA ObservedFacts ==
    ASSUME NEW r \in Int, NEW l \in Nat, l % 4 = 0
    PROVE  /\ Observed(r, l) \in Nat
           /\ Observed(r, l) % 4 = 0
           /\ Observed(r, l) >= l
           /\ Observed(r, l) >= Floor4(r)
<1>1. Floor4(r) \in Int /\ Floor4(r) % 4 = 0
  BY FloorFacts
<1> QED
  BY <1>1 DEF Observed

-----------------------------------------------------------------------------
LEMMA InitIInv == Init => IInv
BY DEF Init, IInv, TypeOK, LastIsBound, SeqIsBound, StampsOrdered,
       SeqNosFollowIds, IdsIdentifyMessages

\* observe() disturbs nothing but the bound.
LEMMA ObserveIInv ==
    ASSUME IInv, NEW r \in RemoteIds, Observe(r)
    PROVE  IInv'
<1>1. /\ last \in Nat /\ last % 4 = 0 /\ r \in Int
      /\ last' = Observed(r, last) /\ seen' = seen \cup {r}
      /\ UNCHANGED <<seq, stamps, issued>>
  BY RemoteIdsAssumption DEF IInv, TypeOK, LastIsBound, Observe
<1>2. /\ last' \in Nat /\ last' % 4 = 0
      /\ last' >= last /\ last' >= Floor4(r)
  BY <1>1, ObservedFacts
<1>3. TypeOK'
  BY <1>1, <1>2 DEF IInv, TypeOK
<1>4. LastIsBound'
  <2>1. \A i \in issued' : i <= last' /\ i % 4 = 0
    BY <1>1, <1>2 DEF IInv, TypeOK, LastIsBound
  <2>2. \A s \in seen' : Floor4(s) <= last'
    <3>1. \A s \in seen : Floor4(s) \in Int
      BY FloorFacts, RemoteIdsAssumption DEF IInv, TypeOK
    <3> QED
      BY <1>1, <1>2, <3>1 DEF IInv, LastIsBound
  <2> QED
    BY <1>1, <1>2, <2>1, <2>2 DEF IInv, LastIsBound
<1>5. SeqIsBound' /\ StampsOrdered'
  BY <1>1 DEF IInv, SeqIsBound, StampsOrdered, SeqNosFollowIds,
              IdsIdentifyMessages
<1> QED
  BY <1>3, <1>4, <1>5 DEF IInv

\* The id part of a step that takes an id from the generator.
LEMMA TakeId ==
    ASSUME IInv, NEW now \in Clocks, last' = NextId(now, last),
           issued' = issued \cup {NextId(now, last)}, UNCHANGED seen
    PROVE  /\ last' \in Nat /\ last' % 4 = 0 /\ last' >= last + 4
           /\ issued' \subseteq Nat
           /\ \A i \in issued' : i <= last' /\ i % 4 = 0
           /\ \A s \in seen' : Floor4(s) <= last'
           /\ \A i \in issued \cup seen : last' > i
<1>1. last \in Nat /\ last % 4 = 0 /\ now \in Nat
  BY ClocksAssumption DEF IInv, TypeOK, LastIsBound
<1>2. last' \in Nat /\ last' % 4 = 0 /\ last' >= last + 4
  BY <1>1, NextIdFacts
<1>3. /\ issued' \subseteq Nat
      /\ \A i \in issued' : i <= last' /\ i % 4 = 0
  <2>1. issued' = issued \cup {last'}
    OBVIOUS
  <2>2. \A i \in issued : i \in Nat /\ i <= last' /\ i % 4 = 0
    BY <1>1, <1>2 DEF IInv, TypeOK, LastIsBound
  <2> QED
    BY <1>2, <2>1, <2>2
<1>4. \A s \in seen : /\ s \in Int /\ Floor4(s) \in Int
                      /\ s < Floor4(s) + 4 /\ Floor4(s) <= last
  BY FloorFacts, RemoteIdsAssumption DEF IInv, TypeOK, LastIsBound
<1>5. \A s \in seen' : Floor4(s) <= last'
  BY <1>1, <1>2, <1>4
<1>6. \A i \in issued : last' > i
  BY <1>1, <1>2 DEF IInv, TypeOK, LastIsBound
<1>7. \A s \in seen : last' > s
  BY <1>1, <1>2, <1>4
<1> QED
  BY <1>2, <1>3, <1>5, <1>6, <1>7

LEMMA PlainIInv ==
    ASSUME IInv, NEW now \in Clocks, StampPlain(now)
    PROVE  IInv'
<1>1. /\ last' = NextId(now, last)
      /\ issued' = issued \cup {NextId(now, last)}
      /\ UNCHANGED <<seq, stamps, seen>>
  BY DEF StampPlain
<1>2. /\ last' \in Nat /\ last' % 4 = 0 /\ issued' \subseteq Nat
      /\ \A i \in issued' : i <= last' /\ i % 4 = 0
      /\ \A s \in seen' : Floor4(s) <= last'
  BY <1>1, TakeId
<1>3. TypeOK' /\ LastIsBound'
  BY <1>1, <1>2 DEF IInv, TypeOK, LastIsBound
<1>4. SeqIsBound' /\ StampsOrdered'
  BY <1>1 DEF IInv, SeqIsBound, StampsOrdered, SeqNosFollowIds,
              IdsIdentifyMessages
<1> QED
  BY <1>3, <1>4 DEF IInv

\* A stamped message: the new stamp is above every old one in id, and its
\* number continues the counter.
LEMMA EncryptedIInv ==
    ASSUME IInv, NEW now \in Clocks, NEW content \in BOOLEAN,
           StampEncrypted(now, content)
    PROVE  IInv'
<1> DEFINE new == [id |-> last', seqno |-> SeqNo(seq, content),
                   content |-> content]
<1>1. /\ last' = NextId(now, last)
      /\ issued' = issued \cup {last'}
      /\ stamps' = stamps \cup {new}
      /\ seq' = IF content THEN seq + 1 ELSE seq
      /\ UNCHANGED seen
  BY DEF StampEncrypted
<1>2. /\ last' \in Nat /\ last' % 4 = 0 /\ issued' \subseteq Nat
      /\ \A i \in issued' : i <= last' /\ i % 4 = 0
      /\ \A s \in seen' : Floor4(s) <= last'
      /\ \A i \in issued \cup seen : last' > i
  BY <1>1, TakeId
<1>3. /\ seq \in Nat /\ seq' \in Nat /\ SeqNo(seq, content) \in Nat
      /\ stamps \subseteq Stamp
      /\ content => SeqNo(seq, content) = 2 * seq + 1 /\ seq' = seq + 1
      /\ ~content => SeqNo(seq, content) = 2 * seq /\ seq' = seq
  BY <1>1 DEF IInv, TypeOK, SeqNo
<1>4. TypeOK'
  BY <1>1, <1>2, <1>3 DEF IInv, TypeOK, Stamp
<1>5. LastIsBound'
  BY <1>1, <1>2 DEF IInv, LastIsBound
<1>6. SeqIsBound'
  <2> SUFFICES ASSUME NEW a \in stamps'
               PROVE  /\ a.seqno <= 2 * seq'
                      /\ a.content => a.seqno < 2 * seq'
    BY DEF SeqIsBound
  <2>1. CASE a \in stamps
    BY <2>1, <1>3 DEF IInv, SeqIsBound, Stamp
  <2>2. CASE a = new
    BY <2>2, <1>3
  <2> QED
    BY <2>1, <2>2, <1>1
<1>7. \A a \in stamps : a.id < last' /\ a.id \in Nat
  BY <1>2 DEF IInv, TypeOK, LastIsBound
<1>8. \A a \in stamps : /\ a.seqno \in Nat /\ a.seqno <= SeqNo(seq, content)
                        /\ a.content => a.seqno < SeqNo(seq, content)
  BY <1>3 DEF IInv, SeqIsBound, Stamp
<1>9. SeqNosFollowIds'
  <2> SUFFICES ASSUME NEW a \in stamps', NEW b \in stamps', a.id < b.id
               PROVE  /\ a.seqno <= b.seqno
                      /\ a.content => a.seqno < b.seqno
    BY DEF SeqNosFollowIds
  <2>1. CASE a \in stamps /\ b \in stamps
    BY <2>1 DEF IInv, StampsOrdered, SeqNosFollowIds
  <2>2. CASE a \in stamps /\ b = new
    BY <2>2, <1>8
  <2>3. CASE a = new
    <3>1. b.id <= last'
      BY <1>1, <1>2, <1>7
    <3> QED
      BY <2>3, <3>1, <1>2, <1>7, <1>1
  <2> QED
    BY <2>1, <2>2, <2>3, <1>1
<1>10. IdsIdentifyMessages'
  <2> SUFFICES ASSUME NEW a \in stamps', NEW b \in stamps', a.id = b.id
               PROVE  a = b
    BY DEF IdsIdentifyMessages
  <2>1. CASE a \in stamps /\ b \in stamps
    BY <2>1 DEF IInv, StampsOrdered, IdsIdentifyMessages
  <2>2. CASE a = new \/ b = new
    BY <2>2, <1>1, <1>2, <1>7
  <2> QED
    BY <2>1, <2>2, <1>1
<1> QED
  BY <1>4, <1>5, <1>6, <1>9, <1>10 DEF IInv, StampsOrdered

LEMMA NextIInv == IInv /\ [Next]_vars => IInv'
<1> SUFFICES ASSUME IInv, [Next]_vars PROVE IInv'
  OBVIOUS
<1>1. CASE Next
  BY <1>1, ObserveIInv, PlainIInv, EncryptedIInv DEF Next
<1>2. CASE UNCHANGED vars
  BY <1>2 DEF vars, IInv, TypeOK, LastIsBound, SeqIsBound, StampsOrdered,
              SeqNosFollowIds, IdsIdentifyMessages
<1> QED
  BY <1>1, <1>2

-----------------------------------------------------------------------------
(***************************************************************************)
(* The strengthened invariant holds in every reachable state.              *)
(***************************************************************************)
THEOREM Inductive == Spec => []IInv
BY InitIInv, NextIInv, PTL DEF Spec

(***************************************************************************)
(* The state is well-typed and the generator's value bounds every id       *)
(* issued and the floor of every id seen.                                  *)
(***************************************************************************)
THEOREM TypeCorrect == Spec => [](TypeOK /\ LastIsBound)
<1>1. IInv => TypeOK /\ LastIsBound
  BY DEF IInv
<1> QED
  BY <1>1, Inductive, PTL

(***************************************************************************)
(* Sequence numbers never run against the order of the ids, and an id      *)
(* names one message (next_seq_no, _send_new_attempt, _send_ack).          *)
(***************************************************************************)
THEOREM StampsCorrect == Spec => [](SeqNosFollowIds /\ IdsIdentifyMessages)
<1>1. IInv => SeqNosFollowIds /\ IdsIdentifyMessages
  BY DEF IInv, StampsOrdered
<1> QED
  BY <1>1, Inductive, PTL

(***************************************************************************)
(* Every id taken from the generator is above every id issued before and   *)
(* every server id observed, whatever the clock reads.                     *)
(***************************************************************************)
THEOREM FreshIdsCorrect == Spec => FreshIds
<1> DEFINE Fresh == seen' = seen =>
                      /\ last' \in issued'
                      /\ \A i \in issued \cup seen : last' > i
<1>1. ASSUME IInv, [Next]_vars PROVE [Fresh]_vars
  <2>1. CASE UNCHANGED vars
    BY <2>1
  <2>2. ASSUME NEW r \in RemoteIds, Observe(r) PROVE [Fresh]_vars
    <3> SUFFICES ASSUME seen' = seen PROVE UNCHANGED vars
      OBVIOUS
    <3>1. /\ r \in seen /\ last' = Observed(r, last)
          /\ UNCHANGED <<seq, stamps, issued>>
      BY <2>2 DEF Observe
    <3>2. Floor4(r) <= last /\ Floor4(r) \in Int /\ last \in Nat
      BY <3>1, FloorFacts, RemoteIdsAssumption, <1>1
         DEF IInv, TypeOK, LastIsBound
    <3>3. last' = last
      BY <3>1, <3>2 DEF Observed
    <3> QED
      BY <3>1, <3>3 DEF vars
  <2>3. ASSUME NEW now \in Clocks, StampPlain(now) PROVE Fresh
    <3>1. /\ last' = NextId(now, last) /\ UNCHANGED seen
          /\ issued' = issued \cup {NextId(now, last)}
      BY <2>3 DEF StampPlain
    <3> QED
      BY <1>1, <3>1, TakeId
  <2>4. ASSUME NEW now \in Clocks, NEW content \in BOOLEAN,
               StampEncrypted(now, content)
        PROVE  Fresh
    <3>1. /\ last' = NextId(now, last) /\ UNCHANGED seen
          /\ issued' = issued \cup {NextId(now, last)}
      BY <2>4 DEF StampEncrypted
    <3> QED
      BY <1>1, <3>1, TakeId
  <2> QED
    BY <1>1, <2>1, <2>2, <2>3, <2>4 DEF Next
<1>2. IInv /\ [Next]_vars => [Fresh]_vars
  BY <1>1
<1> QED
  BY <1>2, Inductive, PTL DEF Spec, FreshIds

=============================================================================
