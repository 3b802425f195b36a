------------------------- MODULE CallSessionsProofs -------------------------
(***************************************************************************)
(* Proofs about CallSessions, for any sets of calls, either knowledge of   *)
(* the own user id, and any bounds.                                        *)
(***************************************************************************)
EXTENDS CallSessions, TLAPS

\* The loop awaits handlers of sessions that exist.
HandlingKnown == \A s \in handling : state[s] # "absent"

\* The session of call() is made when its request has been answered.
CallSessionLast ==
    \A k \in Outgoing : asking[k] # "done" => state[<<k, "call">>] = "absent"

\* Operations run on sessions that exist.
OpsOnExisting ==
    \A s \in Sessions :
        \/ state[s] # "absent"
        \/ /\ op[s].accept = "idle"
           /\ op[s].reject = "idle"
           /\ op[s].hangup = "idle"

TInv == TypeOK /\ HandlingKnown /\ CallSessionLast /\ OpsOnExisting

-----------------------------------------------------------------------------
(* What the helpers return.                                                *)

LEMMA SessionParts ==
    ASSUME NEW s \in Sessions
    PROVE  /\ s = <<s[1], s[2]>>
           /\ s[1] \in Calls
           /\ s[2] \in {"loop", "call"}
BY DEF Sessions, Calls

\* The session an update is for is one of the sessions.
LEMMA SessionOfType ==
    ASSUME TypeOK, NEW k \in Calls
    PROVE  /\ SessionOf(k) \in Sessions
           /\ SessionOf(k)[1] = k
           /\ SessionOf(k)[2] \in {"loop", "call"}
           /\ SessionOf(k) = <<k, SessionOf(k)[2]>>
<1>1. CASE table[k] = "none"
  BY <1>1 DEF SessionOf, Sessions
<1>2. CASE table[k] # "none"
  BY <1>2 DEF SessionOf, TypeOK, Sessions
<1> QED
  BY <1>1, <1>2

\* A transition leads to a state of the state machine.
LEMMA FoundType ==
    ASSUME TypeOK, NEW s \in Sessions
    PROVE  Found(s) \in CallStates
BY DEF TypeOK, Found, CallStates, Terminal

LEMMA AfterType ==
    ASSUME NEW from \in CallStates, NEW to \in CallStates
    PROVE  After(from, to) \in CallStates
BY DEF After

LEMMA TransitionType ==
    ASSUME TypeOK, NEW s \in Sessions, NEW to \in CallStates,
           TransitionIfAllowed(s, to)
    PROVE  /\ state' \in [Sessions -> CallStates \cup {"absent"}]
           /\ ends' \in [Sessions -> Nat]
           /\ state'[s] \in CallStates
           /\ \A t \in Sessions \ {s} : state'[t] = state[t]
<1>1. After(Found(s), to) \in CallStates
  BY FoundType, AfterType
<1>2. Told(ends[s], Found(s), to) \in Nat
  BY DEF TypeOK, Told
<1> QED
  BY <1>1, <1>2 DEF TransitionIfAllowed, TypeOK

LEMMA SetFailedType ==
    ASSUME TypeOK, NEW s \in Sessions, SetFailed(s)
    PROVE  /\ state' \in [Sessions -> CallStates \cup {"absent"}]
           /\ reason' \in [Sessions -> EndReasons \cup {"none"}]
           /\ ends' \in [Sessions -> Nat]
           /\ \A t \in Sessions : state'[t] = state[t] \/ state'[t] = "FAILED"
<1>1. CASE state[s] \in Terminal
  BY <1>1 DEF SetFailed, TypeOK
<1>2. CASE state[s] \notin Terminal
  <2>1. "FAILED" \in CallStates /\ "FAILED_INTERNAL" \in EndReasons
    BY DEF CallStates, Terminal, EndReasons
  <2>2. ends[s] + 1 \in Nat
    BY DEF TypeOK
  <2>3. /\ state' = [state EXCEPT ![s] = "FAILED"]
        /\ reason' = [reason EXCEPT ![s] = "FAILED_INTERNAL"]
        /\ ends' = [ends EXCEPT ![s] = ends[s] + 1]
    BY <1>2 DEF SetFailed
  <2>4. /\ state' \in [Sessions -> CallStates \cup {"absent"}]
        /\ \A t \in Sessions : state'[t] = state[t] \/ state'[t] = "FAILED"
    BY <2>1, <2>3 DEF TypeOK
  <2>5. reason' \in [Sessions -> EndReasons \cup {"none"}]
    BY <2>1, <2>3 DEF TypeOK
  <2>6. ends' \in [Sessions -> Nat]
    BY <2>2, <2>3 DEF TypeOK
  <2> QED
    BY <2>4, <2>5, <2>6
<1> QED
  BY <1>1, <1>2

LEMMA EmitType ==
    ASSUME TypeOK, NEW kind \in UpdateKinds, NEW k \in Calls,
           NEW why \in DiscardReasons, Emit(Upd(kind, k, why))
    PROVE  queue' \in Seq(Update) /\ lost' \subseteq Calls
<1> DEFINE u == Upd(kind, k, why)
<1>1. u \in Update /\ u.call = k
  BY DEF Upd, Update
<1>2. queue \in Seq(Update) /\ lost \subseteq Calls
  BY DEF TypeOK
<1> HIDE DEF u
<1>3. Append(queue, u) \in Seq(Update)
  BY <1>1, <1>2
<1>4. CASE running /\ Len(queue) < QueueSize
  BY <1>2, <1>3, <1>4 DEF Emit, u
<1>5. CASE ~(running /\ Len(queue) < QueueSize)
  BY <1>1, <1>2, <1>5 DEF Emit, u
<1> QED
  BY <1>4, <1>5

\* What every step of the loop does to queue, table and flags.
LEMMA TakeUpdateType ==
    ASSUME TInv, NEW kinds, TakeUpdate(kinds)
    PROVE  /\ Head(queue) \in Update /\ Head(queue).call \in Calls
           /\ SessionOf(Head(queue).call) \in Sessions
           /\ queue' \in Seq(Update)
           /\ incoming' \in [Sessions -> BOOLEAN]
           /\ table' \in [Calls -> {"none", "loop", "call"}]
           /\ table' = [table EXCEPT ![Head(queue).call]
                          = SessionOf(Head(queue).call)[2]]
<1> DEFINE u == Head(queue)
           s == SessionOf(u.call)
<1>1. queue \in Seq(Update) /\ queue # <<>>
  BY DEF TInv, TypeOK, TakeUpdate
<1>2. u \in Update /\ u.call \in Calls
  <2>1. u \in Update
    BY <1>1
  <2> QED
    BY <2>1 DEF Update
<1>3. s \in Sessions /\ s[2] \in {"loop", "call"}
  BY <1>2, SessionOfType DEF TInv
<1>4. queue' \in Seq(Update)
  BY <1>1 DEF TakeUpdate
<1>5. IsIncoming(s, u) \in BOOLEAN
  BY <1>3 DEF IsIncoming, IsIncomingCall, TInv, TypeOK
<1>6. incoming' \in [Sessions -> BOOLEAN]
  BY <1>3, <1>5 DEF TakeUpdate, TInv, TypeOK
<1>7. /\ table' = [table EXCEPT ![u.call] = s[2]]
      /\ table' \in [Calls -> {"none", "loop", "call"}]
  BY <1>2, <1>3 DEF TakeUpdate, TInv, TypeOK
<1> QED
  BY <1>2, <1>3, <1>4, <1>6, <1>7

\* A session stays as it is, or one that exists goes on existing.
Kept(t) == \/ state'[t] = state[t]
           \/ state[t] # "absent" /\ state'[t] # "absent"

-----------------------------------------------------------------------------
(* Each action preserves TInv.                                             *)

LEMMA InitTInv == Init => TInv
<1> SUFFICES ASSUME Init PROVE TInv
  OBVIOUS
<1>1. \A k \in Outgoing : <<k, "call">> \in Sessions
  BY DEF Sessions
<1>2. /\ queue \in Seq(Update)
      /\ repeats \in 0 .. MaxRepeats
      /\ stops \in 0 .. MaxStops
  BY SizesAssumption DEF Init
<1>3. op \in [Sessions -> [accept : Phases, reject : Phases, hangup : Phases]]
  BY DEF Init, Phases
<1>4. TypeOK
  BY <1>2, <1>3 DEF Init, TypeOK
<1> QED
  BY <1>1, <1>4 DEF Init, TInv, HandlingKnown, CallSessionLast, OpsOnExisting

\* An operation's record with one phase changed.
LEMMA AcceptPhase ==
    ASSUME NEW r \in [accept : Phases, reject : Phases, hangup : Phases],
           NEW v \in Phases
    PROVE  [r EXCEPT !.accept = v]
             \in [accept : Phases, reject : Phases, hangup : Phases]
OBVIOUS

LEMMA StartTInv == TInv /\ Start => TInv'
BY DEF TInv, TypeOK, HandlingKnown, CallSessionLast, OpsOnExisting, Start,
       sessionVars, histVars, SessionOf

LEMMA StopTInv == TInv /\ Stop => TInv'
<1> SUFFICES ASSUME TInv, Stop PROVE TInv'
  OBVIOUS
<1>1. \A i \in DOMAIN queue : queue[i].call \in Calls
  <2>1. \A i \in DOMAIN queue : queue[i] \in Update
    BY DEF TInv, TypeOK
  <2> QED
    BY <2>1 DEF Update
<1>2. lost' \subseteq Calls /\ queue' \in Seq(Update) /\ stops' \in 0 .. MaxStops
  BY <1>1, SizesAssumption DEF TInv, TypeOK, Stop
<1>3. op' \in [Sessions -> [accept : Phases, reject : Phases, hangup : Phases]]
  <2> DEFINE T == [accept : Phases, reject : Phases, hangup : Phases]
  <2>1. op' = [s \in Sessions |->
                 IF s \in handling /\ s[1] \in AutoAccept
                 THEN [op[s] EXCEPT !.accept = "failed"] ELSE op[s]]
    BY DEF Stop
  <2>2. \A s \in Sessions : op[s] \in T
    BY DEF TInv, TypeOK
  <2>3. \A s \in Sessions : [op[s] EXCEPT !.accept = "failed"] \in T
    <3>1. "failed" \in Phases
      BY DEF Phases
    <3> QED
      BY <2>2, <3>1, AcceptPhase
  <2> HIDE DEF T
  <2>4. op' \in [Sessions -> T]
    BY <2>1, <2>2, <2>3
  <2> QED
    BY <2>4 DEF T
<1>5. UNCHANGED <<state, reason, incoming, ends, table, asking, srv, repeats,
                  announced, ended, overtaken>>
      /\ running' = FALSE /\ handling' = {}
  BY DEF Stop, sessionVars
<1>6. TypeOK'
  BY <1>2, <1>3, <1>5 DEF TInv, TypeOK
<1>7. \A s \in Sessions :
         s \in handling /\ s[1] \in AutoAccept => state[s] # "absent"
  BY DEF TInv, HandlingKnown
<1>8. \A s \in Sessions :
         op'[s] = op[s] \/ (s \in handling /\ s[1] \in AutoAccept)
  BY DEF TInv, TypeOK, Stop
<1>9. OpsOnExisting'
  BY <1>5, <1>7, <1>8 DEF TInv, OpsOnExisting
<1> QED
  BY <1>5, <1>6, <1>9 DEF TInv, HandlingKnown, CallSessionLast

(***************************************************************************)
(* A step of the loop that keeps the types, moves only the session of the  *)
(* update it takes, and starts operations and handlers only there.         *)
(***************************************************************************)
LEMMA LoopStepTInv ==
    ASSUME TInv, NEW kinds, TakeUpdate(kinds),
           state' \in [Sessions -> CallStates \cup {"absent"}],
           reason' \in [Sessions -> EndReasons \cup {"none"}],
           ends' \in [Sessions -> Nat],
           state'[SessionOf(Head(queue).call)] # "absent",
           \A t \in Sessions \ {SessionOf(Head(queue).call)} :
              state'[t] = state[t] /\ op'[t] = op[t],
           handling' \subseteq {SessionOf(Head(queue).call)},
           op' \in [Sessions -> [accept : Phases, reject : Phases,
                                 hangup : Phases]],
           announced' \in [Calls -> Nat],
           ended' \subseteq Calls,
           overtaken' \subseteq Outgoing
    PROVE  TInv'
<1> DEFINE k == Head(queue).call
           s == SessionOf(k)
<1>1. /\ k \in Calls /\ s \in Sessions
      /\ queue' \in Seq(Update)
      /\ incoming' \in [Sessions -> BOOLEAN]
      /\ table' \in [Calls -> {"none", "loop", "call"}]
      /\ table' = [table EXCEPT ![k] = s[2]]
  BY TakeUpdateType
<1>2. s[1] = k /\ s[2] \in {"loop", "call"} /\ s = <<k, s[2]>>
  BY <1>1, SessionOfType DEF TInv
<1>3. UNCHANGED <<running, stops, asking, srv, repeats, lost>>
  BY DEF TakeUpdate
<1> HIDE DEF k, s
<1>4. table \in [Calls -> {"none", "loop", "call"}]
  BY DEF TInv, TypeOK
<1>5. ASSUME NEW j \in Calls, table'[j] # "none"
      PROVE  <<j, table'[j]>> \in Sessions /\ state'[<<j, table'[j]>>] # "absent"
  <2>1. CASE j = k
    BY <1>1, <1>2, <1>4, <2>1 DEF s, k
  <2>2. CASE j # k
    <3>1. table'[j] = table[j]
      BY <1>1, <1>4, <2>2
    <3>2. <<j, table[j]>> \in Sessions /\ state[<<j, table[j]>>] # "absent"
      BY <1>5, <3>1 DEF TInv, TypeOK
    <3>3. <<j, table[j]>> # s
      BY <1>2, <2>2
    <3> QED
      BY <3>1, <3>2, <3>3 DEF s, k
  <2> QED
    BY <2>1, <2>2
<1>6. handling' \subseteq Sessions /\ \A i, j \in handling' : i = j
  BY <1>1 DEF s, k
<1>7. TypeOK'
  BY <1>1, <1>3, <1>5, <1>6 DEF TInv, TypeOK
<1>8. HandlingKnown'
  BY <1>1, <1>2, <1>4 DEF HandlingKnown, k
<1>9. CallSessionLast'
  <2> SUFFICES ASSUME NEW j \in Outgoing, asking[j] # "done"
               PROVE  state'[<<j, "call">>] = "absent"
    BY <1>3 DEF CallSessionLast
  <2>1. j \in Calls /\ <<j, "call">> \in Sessions
    BY DEF Calls, Sessions
  <2>2. state[<<j, "call">>] = "absent"
    BY DEF TInv, CallSessionLast
  <2>3. table[j] # "call"
    BY <2>1, <2>2 DEF TInv, TypeOK
  <2>4. <<j, "call">> # s
    <3> SUFFICES ASSUME <<j, "call">> = s PROVE FALSE
      OBVIOUS
    <3>1. j = k /\ s[2] = "call"
      BY <1>2
    <3> QED
      BY <1>4, <2>1, <2>3, <3>1 DEF s, SessionOf
  <2> QED
    BY <2>1, <2>2, <2>4 DEF s, k
<1>10. OpsOnExisting'
  <2> SUFFICES ASSUME NEW t \in Sessions, state'[t] = "absent"
               PROVE  /\ op'[t].accept = "idle"
                      /\ op'[t].reject = "idle"
                      /\ op'[t].hangup = "idle"
    BY DEF OpsOnExisting
  <2>1. t # s
    BY DEF s, k
  <2>2. state'[t] = state[t] /\ op'[t] = op[t]
    BY <2>1 DEF s, k
  <2> QED
    BY <2>2 DEF TInv, OpsOnExisting
<1> QED
  BY <1>7, <1>8, <1>9, <1>10 DEF TInv

\* A step of an operation that has begun, or begins on a session there is.
LEMMA OpStepTInv ==
    ASSUME TInv, NEW s \in Sessions, NEW name \in {"accept", "reject", "hangup"},
           NEW from, NEW to \in Phases, OpStep(s, name, from, to),
           from # "idle" \/ state[s] # "absent",
           state' \in [Sessions -> CallStates \cup {"absent"}],
           reason' \in [Sessions -> EndReasons \cup {"none"}],
           ends' \in [Sessions -> Nat],
           \A t \in Sessions : Kept(t),
           queue' \in Seq(Update),
           lost' \subseteq Calls,
           handling' \subseteq handling,
           srv' \in [Calls -> {"none", "requested", "accepted", "active",
                               "discarded"}]
    PROVE  TInv'
<1>1. op \in [Sessions -> [accept : Phases, reject : Phases, hangup : Phases]]
  BY DEF TInv, TypeOK
<1>2. /\ op' \in [Sessions -> [accept : Phases, reject : Phases, hangup : Phases]]
      /\ \A t \in Sessions \ {s} : op'[t] = op[t]
  <2>1. CASE name = "accept"
    BY <1>1, <2>1 DEF OpStep
  <2>2. CASE name = "reject"
    BY <1>1, <2>2 DEF OpStep
  <2>3. CASE name = "hangup"
    BY <1>1, <2>3 DEF OpStep
  <2> QED
    BY <2>1, <2>2, <2>3
<1>3. UNCHANGED <<table, incoming, running, stops, asking, repeats, announced,
                  ended, overtaken>>
  BY DEF OpStep
<1>4. state[s] # "absent"
  <2>1. op[s][name] = from
    BY DEF OpStep
  <2> QED
    BY <2>1 DEF TInv, OpsOnExisting
<1>5. ASSUME NEW j \in Calls, table'[j] # "none"
      PROVE  <<j, table'[j]>> \in Sessions /\ state'[<<j, table'[j]>>] # "absent"
  BY <1>3, <1>5 DEF TInv, TypeOK, Kept
<1>6. TypeOK'
  BY <1>2, <1>3, <1>5 DEF TInv, TypeOK
<1>7. HandlingKnown'
  BY <1>2, <1>3 DEF TInv, TypeOK, HandlingKnown, Kept
<1>8. CallSessionLast'
  <2>1. \A j \in Outgoing : <<j, "call">> \in Sessions
    BY DEF Sessions
  <2> QED
    BY <1>3, <2>1 DEF TInv, CallSessionLast, Kept
<1>9. OpsOnExisting'
  BY <1>2, <1>4 DEF TInv, OpsOnExisting, Kept
<1> QED
  BY <1>6, <1>7, <1>8, <1>9 DEF TInv

\* The same for a step that leaves the sessions alone.
LEMMA QuietOpStepTInv ==
    ASSUME TInv, NEW s \in Sessions, NEW name \in {"accept", "reject", "hangup"},
           NEW from, NEW to \in Phases, OpStep(s, name, from, to),
           from # "idle" \/ state[s] # "absent",
           UNCHANGED <<state, reason, ends, handling>>,
           queue' \in Seq(Update),
           lost' \subseteq Calls,
           srv' \in [Calls -> {"none", "requested", "accepted", "active",
                               "discarded"}]
    PROVE  TInv'
<1>1. /\ state' \in [Sessions -> CallStates \cup {"absent"}]
      /\ reason' \in [Sessions -> EndReasons \cup {"none"}]
      /\ ends' \in [Sessions -> Nat]
      /\ handling' \subseteq handling
  BY DEF TInv, TypeOK
<1>2. \A t \in Sessions : Kept(t)
  BY DEF Kept
<1> QED
  BY <1>1, <1>2, OpStepTInv

\* A transition makes no session vanish and touches no other session.
LEMMA TransitionFrame ==
    ASSUME TInv, NEW s \in Sessions, NEW to \in CallStates,
           TransitionIfAllowed(s, to)
    PROVE  /\ state' \in [Sessions -> CallStates \cup {"absent"}]
           /\ ends' \in [Sessions -> Nat]
           /\ state'[s] # "absent"
           /\ \A t \in Sessions \ {s} : state'[t] = state[t]
BY TransitionType DEF TInv, CallStates, Terminal

LEMMA HandleRingingTInv == TInv /\ HandleRinging => TInv'
<1> SUFFICES ASSUME TInv, HandleRinging PROVE TInv'
  OBVIOUS
<1> DEFINE k == Head(queue).call
           s == SessionOf(k)
<1>1. TakeUpdate({"requested", "waiting"})
  BY DEF HandleRinging
<1>2. k \in Calls /\ s \in Sessions
  BY <1>1, TakeUpdateType
<1>3. /\ TransitionIfAllowed(s, "RINGING_IN")
      /\ announced' = [announced EXCEPT ![k] = @ + 1]
      /\ handling' = {s}
      /\ op' = IF k \in AutoAccept
               THEN [op EXCEPT ![s].accept = "receiving"] ELSE op
      /\ UNCHANGED <<reason, ended, overtaken>>
  BY <1>1 DEF HandleRinging, TakeUpdate
<1> HIDE DEF k, s
<1>4. /\ state' \in [Sessions -> CallStates \cup {"absent"}]
      /\ ends' \in [Sessions -> Nat]
      /\ state'[s] # "absent"
      /\ \A t \in Sessions \ {s} : state'[t] = state[t]
  BY <1>2, <1>3, TransitionFrame DEF CallStates
<1>5. /\ op' \in [Sessions -> [accept : Phases, reject : Phases, hangup : Phases]]
      /\ \A t \in Sessions \ {s} : op'[t] = op[t]
  <2> DEFINE T == [accept : Phases, reject : Phases, hangup : Phases]
  <2>1. op \in [Sessions -> T]
    BY DEF TInv, TypeOK
  <2>2. [op[s] EXCEPT !.accept = "receiving"] \in T
    <3>1. op[s] \in T /\ "receiving" \in Phases
      BY <1>2, <2>1 DEF Phases
    <3> QED
      BY <3>1, AcceptPhase
  <2>3. op' = IF k \in AutoAccept
              THEN [op EXCEPT ![s] = [op[s] EXCEPT !.accept = "receiving"]]
              ELSE op
    BY <1>2, <1>3, <2>1
  <2> HIDE DEF T
  <2>4. op' \in [Sessions -> T] /\ \A t \in Sessions \ {s} : op'[t] = op[t]
    BY <1>2, <2>1, <2>2, <2>3
  <2> QED
    BY <2>4 DEF T
<1>6. /\ announced' \in [Calls -> Nat]
      /\ reason' \in [Sessions -> EndReasons \cup {"none"}]
      /\ ended' \subseteq Calls /\ overtaken' \subseteq Outgoing
  BY <1>2, <1>3 DEF TInv, TypeOK
<1> QED
  BY <1>1, <1>3, <1>4, <1>5, <1>6, LoopStepTInv DEF s, k

LEMMA HandleRequestedTInv == TInv /\ HandleRequested => TInv'
<1> SUFFICES ASSUME TInv, HandleRequested PROVE TInv'
  OBVIOUS
<1> DEFINE k == Head(queue).call
           s == SessionOf(k)
<1>1. TakeUpdate({"requested", "waiting"})
  BY DEF HandleRequested
<1>2. k \in Calls /\ s \in Sessions
  BY <1>1, TakeUpdateType
<1>3. /\ \/ TransitionIfAllowed(s, "CONNECTING")
         \/ state' = [state EXCEPT ![s] = Found(s)] /\ UNCHANGED ends
      /\ UNCHANGED <<reason, handling, op, announced, ended, overtaken>>
  BY DEF HandleRequested
<1>4. handling' = {}
  BY <1>1, <1>3 DEF TakeUpdate
<1> HIDE DEF k, s
<1>5. /\ state' \in [Sessions -> CallStates \cup {"absent"}]
      /\ ends' \in [Sessions -> Nat]
      /\ state'[s] # "absent"
      /\ \A t \in Sessions \ {s} : state'[t] = state[t]
  <2>1. CASE TransitionIfAllowed(s, "CONNECTING")
    BY <1>2, <2>1, TransitionFrame DEF CallStates
  <2>2. CASE state' = [state EXCEPT ![s] = Found(s)] /\ UNCHANGED ends
    <3>1. Found(s) \in CallStates /\ Found(s) # "absent"
      BY <1>2, FoundType DEF TInv, CallStates, Terminal
    <3> QED
      BY <1>2, <2>2, <3>1 DEF TInv, TypeOK
  <2> QED
    BY <1>3, <2>1, <2>2
<1>6. /\ op' \in [Sessions -> [accept : Phases, reject : Phases, hangup : Phases]]
      /\ reason' \in [Sessions -> EndReasons \cup {"none"}]
      /\ announced' \in [Calls -> Nat]
      /\ ended' \subseteq Calls /\ overtaken' \subseteq Outgoing
  BY <1>3 DEF TInv, TypeOK
<1> QED
  BY <1>1, <1>3, <1>4, <1>5, <1>6, LoopStepTInv DEF s, k

LEMMA HandleProgressTInv == TInv /\ HandleProgress => TInv'
<1> SUFFICES ASSUME TInv, HandleProgress PROVE TInv'
  OBVIOUS
<1> DEFINE k == Head(queue).call
           s == SessionOf(k)
<1>1. TakeUpdate({"accepted", "established"})
  BY DEF HandleProgress
<1>2. k \in Calls /\ s \in Sessions
  BY <1>1, TakeUpdateType
<1>3. /\ \E to \in {"CONNECTING", "IN_CALL"} : TransitionIfAllowed(s, to)
      /\ UNCHANGED <<reason, handling, op, announced, ended, overtaken>>
  BY DEF HandleProgress
<1>4. handling' = {}
  BY <1>1, <1>3 DEF TakeUpdate
<1> HIDE DEF k, s
<1>5. /\ state' \in [Sessions -> CallStates \cup {"absent"}]
      /\ ends' \in [Sessions -> Nat]
      /\ state'[s] # "absent"
      /\ \A t \in Sessions \ {s} : state'[t] = state[t]
  BY <1>2, <1>3, TransitionFrame DEF CallStates
<1>6. /\ op' \in [Sessions -> [accept : Phases, reject : Phases, hangup : Phases]]
      /\ reason' \in [Sessions -> EndReasons \cup {"none"}]
      /\ announced' \in [Calls -> Nat]
      /\ ended' \subseteq Calls /\ overtaken' \subseteq Outgoing
  BY <1>3 DEF TInv, TypeOK
<1> QED
  BY <1>1, <1>3, <1>4, <1>5, <1>6, LoopStepTInv DEF s, k

LEMMA HandleDiscardedTInv == TInv /\ HandleDiscarded => TInv'
<1> SUFFICES ASSUME TInv, HandleDiscarded PROVE TInv'
  OBVIOUS
<1> DEFINE u == Head(queue)
           k == u.call
           s == SessionOf(k)
           why == IF u.kind = "empty" THEN "REMOTE_HANGUP" ELSE u.reason
<1>1. TakeUpdate({"discarded", "empty"})
  BY DEF HandleDiscarded
<1>2. u \in Update /\ k \in Calls /\ s \in Sessions
  BY <1>1, TakeUpdateType
<1>3. why \in EndReasons
  <2>1. u.reason \in DiscardReasons
    BY <1>2 DEF Update
  <2> QED
    BY <2>1 DEF DiscardReasons, EndReasons
<1>4. /\ reason' = [reason EXCEPT ![s] = IF @ = "none" THEN why ELSE @]
      /\ TransitionIfAllowed(s, "ENDED")
      /\ ended' = ended \cup {k}
      /\ overtaken' = IF k \in Outgoing /\ asking[k] = "asked"
                      THEN overtaken \cup {k} ELSE overtaken
      /\ UNCHANGED <<handling, op, announced>>
  BY DEF HandleDiscarded
<1>5. handling' = {}
  BY <1>1, <1>4 DEF TakeUpdate
<1> HIDE DEF why, s, k, u
<1>6. /\ state' \in [Sessions -> CallStates \cup {"absent"}]
      /\ ends' \in [Sessions -> Nat]
      /\ state'[s] # "absent"
      /\ \A t \in Sessions \ {s} : state'[t] = state[t]
  BY <1>2, <1>4, TransitionFrame DEF CallStates, Terminal
<1>7. reason' \in [Sessions -> EndReasons \cup {"none"}]
  BY <1>2, <1>3, <1>4 DEF TInv, TypeOK
<1>8. /\ op' \in [Sessions -> [accept : Phases, reject : Phases, hangup : Phases]]
      /\ announced' \in [Calls -> Nat]
      /\ ended' \subseteq Calls /\ overtaken' \subseteq Outgoing
  BY <1>2, <1>4 DEF TInv, TypeOK
<1>9. \A t \in Sessions \ {s} : op'[t] = op[t]
  BY <1>4
<1> QED
  BY <1>1, <1>5, <1>6, <1>7, <1>8, <1>9, LoopStepTInv DEF s, k, u

LEMMA HandlerReturnsTInv ==
    ASSUME TInv, NEW s \in Sessions, HandlerReturns(s)
    PROVE  TInv'
BY DEF TInv, TypeOK, HandlingKnown, CallSessionLast, OpsOnExisting,
       HandlerReturns, sessionVars, histVars

LEMMA HandlerRaisesTInv ==
    ASSUME TInv, NEW s \in Sessions, HandlerRaises(s)
    PROVE  TInv'
<1>1. s \in Sessions /\ state[s] # "absent"
  BY DEF HandlerRaises, TInv, TypeOK, HandlingKnown
<1>2. /\ SetFailed(s)
      /\ handling' = {}
      /\ UNCHANGED <<incoming, table, running, queue, stops, op, asking, srv,
                     repeats, announced, lost, ended, overtaken>>
  BY DEF HandlerRaises, histVars
<1>3. /\ state' \in [Sessions -> CallStates \cup {"absent"}]
      /\ reason' \in [Sessions -> EndReasons \cup {"none"}]
      /\ ends' \in [Sessions -> Nat]
  BY <1>1, <1>2, SetFailedType DEF TInv
<1>4. \A t \in Sessions :
         Kept(t)
  BY <1>1, <1>2 DEF SetFailed, TInv, TypeOK, Kept
<1>5. TypeOK'
  BY <1>2, <1>3, <1>4 DEF TInv, TypeOK, Kept
<1>6. CallSessionLast'
  <2>1. \A j \in Outgoing : <<j, "call">> \in Sessions
    BY DEF Sessions
  <2> QED
    BY <1>2, <1>4, <2>1 DEF TInv, CallSessionLast, Kept
<1>7. HandlingKnown'
  BY <1>2, <1>4 DEF TInv, HandlingKnown, Kept
<1>8. OpsOnExisting'
  BY <1>2, <1>4 DEF TInv, OpsOnExisting, Kept
<1> QED
  BY <1>5, <1>6, <1>7, <1>8 DEF TInv

LEMMA RequestCallTInv ==
    ASSUME TInv, NEW k \in Outgoing, RequestCall(k)
    PROVE  TInv'
BY DEF TInv, TypeOK, HandlingKnown, CallSessionLast, OpsOnExisting,
       RequestCall, sessionVars, histVars

LEMMA ServerCreatesTInv ==
    ASSUME TInv, NEW k \in Outgoing, ServerCreates(k)
    PROVE  TInv'
<1>1. /\ srv' = [srv EXCEPT ![k] = "requested"]
      /\ UNCHANGED <<sessionVars, table, loopVars, op, asking, repeats, histVars>>
  BY DEF ServerCreates
<1>2. srv' \in [Calls -> {"none", "requested", "accepted", "active", "discarded"}]
  BY <1>1 DEF TInv, TypeOK
<1>3. TypeOK'
  BY <1>1, <1>2 DEF TInv, TypeOK, sessionVars, histVars, loopVars
<1> QED
  BY <1>1, <1>3 DEF TInv, HandlingKnown, CallSessionLast, OpsOnExisting,
                    sessionVars, loopVars

LEMMA CallFailsTInv ==
    ASSUME TInv, NEW k \in Outgoing, CallFails(k)
    PROVE  TInv'
BY DEF TInv, TypeOK, HandlingKnown, CallSessionLast, OpsOnExisting,
       CallFails, sessionVars, histVars, loopVars

LEMMA CallReturnsTInv ==
    ASSUME TInv, NEW k \in Outgoing, CallReturns(k)
    PROVE  TInv'
<1> DEFINE s == <<k, "call">>
<1>1. s \in Sessions /\ k \in Calls
  BY DEF Sessions, Calls
<1>2. /\ asking' = [asking EXCEPT ![k] = "done"]
      /\ table' = [table EXCEPT ![k] = "call"]
      /\ incoming' = [incoming EXCEPT ![s] = FALSE]
      /\ state' = [state EXCEPT ![s] = After("OUTGOING_INIT", "CONNECTING")]
      /\ UNCHANGED <<reason, ends, running, queue, handling, stops, op, srv,
                     repeats, announced, lost, ended, overtaken>>
  BY DEF CallReturns, loopVars, histVars
<1>3. After("OUTGOING_INIT", "CONNECTING") = "CONNECTING"
  BY DEF After, CanTransition, AllowedTransitions
<1> HIDE DEF s
<1>4. /\ state' \in [Sessions -> CallStates \cup {"absent"}]
      /\ state'[s] = "CONNECTING"
      /\ \A t \in Sessions \ {s} : state'[t] = state[t]
  BY <1>1, <1>2, <1>3 DEF TInv, TypeOK, CallStates
<1>5. ASSUME NEW j \in Calls, table'[j] # "none"
      PROVE  <<j, table'[j]>> \in Sessions /\ state'[<<j, table'[j]>>] # "absent"
  <2>1. CASE j = k
    <3>1. table'[j] = "call"
      BY <1>1, <1>2, <2>1 DEF TInv, TypeOK
    <3> QED
      BY <1>1, <1>4, <2>1, <3>1 DEF s
  <2>2. CASE j # k
    <3>1. table'[j] = table[j]
      BY <1>2, <2>2 DEF TInv, TypeOK
    <3>2. <<j, table[j]>> \in Sessions /\ state[<<j, table[j]>>] # "absent"
      BY <1>5, <3>1 DEF TInv, TypeOK
    <3>3. <<j, table[j]>> # s
      BY <2>2 DEF s
    <3> QED
      BY <1>4, <3>1, <3>2, <3>3
  <2> QED
    BY <2>1, <2>2
<1>6. TypeOK'
  BY <1>1, <1>2, <1>4, <1>5 DEF TInv, TypeOK
<1>7. HandlingKnown'
  BY <1>2, <1>4 DEF TInv, TypeOK, HandlingKnown
<1>8. CallSessionLast'
  <2> SUFFICES ASSUME NEW j \in Outgoing, asking'[j] # "done"
               PROVE  state'[<<j, "call">>] = "absent"
    BY DEF CallSessionLast
  <2>1. j # k /\ asking[j] # "done"
    BY <1>2 DEF TInv, TypeOK
  <2>2. <<j, "call">> \in Sessions \ {s}
    BY <2>1 DEF Sessions, s
  <2> QED
    BY <1>4, <2>1, <2>2 DEF TInv, CallSessionLast
<1>9. OpsOnExisting'
  BY <1>2, <1>4 DEF TInv, OpsOnExisting
<1> QED
  BY <1>6, <1>7, <1>8, <1>9 DEF TInv

-----------------------------------------------------------------------------
(* The operations.                                                         *)

LEMMA AcceptTInv ==
    ASSUME TInv, NEW s \in Sessions, Accept(s)
    PROVE  TInv'
<1>1. OpStep(s, "accept", "idle", "receiving") /\ state[s] # "absent"
      /\ UNCHANGED <<state, reason, ends, queue, lost, handling, srv>>
  BY DEF Accept, Exists
<1>2. "receiving" \in Phases
  BY DEF Phases
<1>8. /\ queue' \in Seq(Update) /\ lost' \subseteq Calls
      /\ srv' \in [Calls -> {"none", "requested", "accepted", "active",
                             "discarded"}]
  BY <1>1, <1>2 DEF TInv, TypeOK
<1>9. "accept" \in {"accept", "reject", "hangup"}
  OBVIOUS
<1> QED
  BY <1>1, <1>2, <1>8, <1>9, QuietOpStepTInv

LEMMA CallReceivedTInv ==
    ASSUME TInv, NEW s \in Sessions, CallReceived(s)
    PROVE  TInv'
<1>1. OpStep(s, "accept", "receiving", "accepting")
      /\ UNCHANGED <<state, reason, ends, queue, lost, handling, srv>>
  BY DEF CallReceived
<1>2. "accepting" \in Phases
  BY DEF Phases
<1>8. /\ queue' \in Seq(Update) /\ lost' \subseteq Calls
      /\ srv' \in [Calls -> {"none", "requested", "accepted", "active",
                             "discarded"}]
  BY <1>1, <1>2 DEF TInv, TypeOK
<1>9. "accept" \in {"accept", "reject", "hangup"}
  OBVIOUS
<1> QED
  BY <1>1, <1>2, <1>8, <1>9, QuietOpStepTInv

LEMMA ServerAcceptsTInv ==
    ASSUME TInv, NEW s \in Sessions, ServerAccepts(s)
    PROVE  TInv'
<1>1. OpStep(s, "accept", "accepting", "accepted")
      /\ srv' = [srv EXCEPT ![s[1]] = "accepted"]
      /\ UNCHANGED <<state, reason, ends, queue, lost, handling>>
  BY DEF ServerAccepts
<1>2. "accepted" \in Phases
  BY DEF Phases
<1>8. /\ queue' \in Seq(Update) /\ lost' \subseteq Calls
      /\ srv' \in [Calls -> {"none", "requested", "accepted", "active",
                             "discarded"}]
  BY <1>1, <1>2 DEF TInv, TypeOK
<1>9. "accept" \in {"accept", "reject", "hangup"}
  OBVIOUS
<1> QED
  BY <1>1, <1>2, <1>8, <1>9, QuietOpStepTInv

LEMMA AcceptReturnsTInv ==
    ASSUME TInv, NEW s \in Sessions, AcceptReturns(s)
    PROVE  TInv'
<1>1. OpStep(s, "accept", "accepted", "done")
      /\ TransitionIfAllowed(s, "CONNECTING")
      /\ handling' \subseteq handling
      /\ UNCHANGED <<reason, queue, lost, srv>>
  BY DEF AcceptReturns
<1>2. "done" \in Phases /\ "CONNECTING" \in CallStates
  BY DEF Phases, CallStates
<1>3. state[s] # "absent"
  BY <1>1 DEF OpStep, TInv, OpsOnExisting
<1>4. /\ state' \in [Sessions -> CallStates \cup {"absent"}]
      /\ ends' \in [Sessions -> Nat]
      /\ \A t \in Sessions : Kept(t)
  BY <1>1, <1>2, <1>3, TransitionFrame DEF Kept
<1>8. /\ queue' \in Seq(Update) /\ lost' \subseteq Calls
      /\ reason' \in [Sessions -> EndReasons \cup {"none"}]
      /\ srv' \in [Calls -> {"none", "requested", "accepted", "active",
                             "discarded"}]
  BY <1>1, <1>2, <1>4 DEF TInv, TypeOK
<1>9. "accept" \in {"accept", "reject", "hangup"} /\ handling' \subseteq handling
  BY <1>1, <1>2, <1>4
<1> QED
  BY <1>1, <1>2, <1>4, <1>8, <1>9, OpStepTInv

LEMMA AcceptFailsTInv ==
    ASSUME TInv, NEW s \in Sessions, AcceptFails(s)
    PROVE  TInv'
<1>1. /\ op[s].accept \in {"receiving", "accepting", "accepted"}
      /\ OpStep(s, "accept", op[s].accept, "failed")
      /\ UNCHANGED <<queue, lost, srv>>
  BY DEF AcceptFails
<1>2. "failed" \in Phases
  BY DEF Phases
<1>3. state[s] # "absent"
  BY <1>1 DEF TInv, OpsOnExisting
<1>4. /\ handling' \subseteq handling
      /\ state' \in [Sessions -> CallStates \cup {"absent"}]
      /\ reason' \in [Sessions -> EndReasons \cup {"none"}]
      /\ ends' \in [Sessions -> Nat]
      /\ \A t \in Sessions : Kept(t)
  <2>1. CASE s[1] \in AutoAccept
    <3>1. handling' = {} /\ SetFailed(s)
      BY <2>1 DEF AcceptFails
    <3>2. \A t \in Sessions : Kept(t)
      BY <1>3, <3>1 DEF SetFailed, TInv, TypeOK, Kept
    <3> QED
      BY <3>1, <3>2, SetFailedType DEF TInv
  <2>2. CASE s[1] \notin AutoAccept
    BY <2>2 DEF AcceptFails, TInv, TypeOK, Kept
  <2> QED
    BY <2>1, <2>2
<1>5. op[s].accept # "idle"
  BY <1>1
<1>8. /\ queue' \in Seq(Update) /\ lost' \subseteq Calls
      /\ reason' \in [Sessions -> EndReasons \cup {"none"}]
      /\ srv' \in [Calls -> {"none", "requested", "accepted", "active",
                             "discarded"}]
  BY <1>1, <1>2, <1>4, <1>5 DEF TInv, TypeOK
<1>9. "accept" \in {"accept", "reject", "hangup"} /\ handling' \subseteq handling
  BY <1>1, <1>2, <1>4, <1>5
<1> QED
  BY <1>1, <1>2, <1>4, <1>5, <1>8, <1>9, OpStepTInv

LEMMA DiscardTInv ==
    ASSUME TInv, NEW s \in Sessions, NEW name \in Discards, Discard(s, name)
    PROVE  TInv'
<1>1. OpStep(s, name, "idle", "discarding") /\ state[s] # "absent"
      /\ TransitionIfAllowed(s, "DISCONNECTING")
      /\ UNCHANGED <<reason, queue, lost, handling, srv>>
  BY DEF Discard, Exists
<1>2. "discarding" \in Phases /\ "DISCONNECTING" \in CallStates
      /\ name \in {"accept", "reject", "hangup"}
  BY DEF Phases, CallStates, Discards
<1>3. /\ state' \in [Sessions -> CallStates \cup {"absent"}]
      /\ ends' \in [Sessions -> Nat]
      /\ \A t \in Sessions : Kept(t)
  BY <1>1, <1>2, TransitionFrame DEF Kept
<1>8. /\ queue' \in Seq(Update) /\ lost' \subseteq Calls
      /\ reason' \in [Sessions -> EndReasons \cup {"none"}]
      /\ srv' \in [Calls -> {"none", "requested", "accepted", "active",
                             "discarded"}]
  BY <1>1, <1>2, <1>3 DEF TInv, TypeOK
<1>9. "accept" \in {"accept", "reject", "hangup"} /\ handling' \subseteq handling
  BY <1>1, <1>2, <1>3
<1> QED
  BY <1>1, <1>2, <1>3, <1>8, <1>9, OpStepTInv

LEMMA ServerDiscardsForTInv ==
    ASSUME TInv, NEW s \in Sessions, NEW name \in Discards,
           ServerDiscardsFor(s, name)
    PROVE  TInv'
<1>1. OpStep(s, name, "discarding", "discarded")
      /\ srv' = [srv EXCEPT ![s[1]] = "discarded"]
      /\ UNCHANGED <<state, reason, ends, handling>>
  BY DEF ServerDiscardsFor
<1>2. "discarded" \in Phases /\ name \in {"accept", "reject", "hangup"}
  BY DEF Phases, Discards
<1>3. queue' \in Seq(Update) /\ lost' \subseteq Calls
  <2>1. CASE NoEmit
    BY <2>1 DEF NoEmit, TInv, TypeOK
  <2>2. ASSUME NEW why \in DiscardReasons, Emit(Upd("discarded", s[1], why))
        PROVE  queue' \in Seq(Update) /\ lost' \subseteq Calls
    <3>1. s[1] \in Calls /\ "discarded" \in UpdateKinds
      BY SessionParts DEF UpdateKinds
    <3> QED
      BY <2>2, <3>1, EmitType DEF TInv
  <2> QED
    BY <2>1, <2>2 DEF ServerDiscardsFor
<1>8. /\ queue' \in Seq(Update) /\ lost' \subseteq Calls
      /\ srv' \in [Calls -> {"none", "requested", "accepted", "active",
                             "discarded"}]
  BY <1>1, <1>2, <1>3 DEF TInv, TypeOK
<1>9. "accept" \in {"accept", "reject", "hangup"}
  OBVIOUS
<1> QED
  BY <1>1, <1>2, <1>3, <1>8, <1>9, QuietOpStepTInv

LEMMA DiscardReturnsTInv ==
    ASSUME TInv, NEW s \in Sessions, NEW name \in Discards,
           DiscardReturns(s, name)
    PROVE  TInv'
<1>1. OpStep(s, name, "discarded", "done")
      /\ reason' = [reason EXCEPT ![s] = LocalReason(name)]
      /\ TransitionIfAllowed(s, "ENDED")
      /\ UNCHANGED <<queue, lost, handling, srv>>
  BY DEF DiscardReturns
<1>2. "done" \in Phases /\ "ENDED" \in CallStates
      /\ name \in {"accept", "reject", "hangup"}
  BY DEF Phases, CallStates, Terminal, Discards
<1>3. state[s] # "absent"
  BY <1>1, <1>2 DEF OpStep, TInv, OpsOnExisting
<1>4. /\ state' \in [Sessions -> CallStates \cup {"absent"}]
      /\ ends' \in [Sessions -> Nat]
      /\ \A t \in Sessions : Kept(t)
  BY <1>1, <1>2, <1>3, TransitionFrame DEF Kept
<1>5. reason' \in [Sessions -> EndReasons \cup {"none"}]
  BY <1>1 DEF LocalReason, EndReasons, TInv, TypeOK
<1>8. /\ queue' \in Seq(Update) /\ lost' \subseteq Calls
      /\ reason' \in [Sessions -> EndReasons \cup {"none"}]
      /\ srv' \in [Calls -> {"none", "requested", "accepted", "active",
                             "discarded"}]
  BY <1>1, <1>2, <1>4, <1>5 DEF TInv, TypeOK
<1>9. "accept" \in {"accept", "reject", "hangup"} /\ handling' \subseteq handling
  BY <1>1, <1>2, <1>4, <1>5
<1> QED
  BY <1>1, <1>2, <1>4, <1>5, <1>8, <1>9, OpStepTInv

LEMMA DiscardFailsTInv ==
    ASSUME TInv, NEW s \in Sessions, NEW name \in Discards, DiscardFails(s, name)
    PROVE  TInv'
<1>1. /\ op[s][name] \in {"discarding", "discarded"}
      /\ OpStep(s, name, op[s][name], "failed")
      /\ UNCHANGED <<state, reason, ends, queue, lost, handling, srv>>
  BY DEF DiscardFails
<1>2. "failed" \in Phases /\ name \in {"accept", "reject", "hangup"}
  BY DEF Phases, Discards
<1>3. op[s][name] # "idle"
  BY <1>1
<1>8. /\ queue' \in Seq(Update) /\ lost' \subseteq Calls
      /\ srv' \in [Calls -> {"none", "requested", "accepted", "active",
                             "discarded"}]
  BY <1>1, <1>2, <1>3 DEF TInv, TypeOK
<1>9. "accept" \in {"accept", "reject", "hangup"}
  OBVIOUS
<1> QED
  BY <1>1, <1>2, <1>3, <1>8, <1>9, QuietOpStepTInv

-----------------------------------------------------------------------------
(* The server.                                                             *)

LEMMA ServerStepTInv ==
    ASSUME TInv, NEW k, ServerStep(k),
           queue' \in Seq(Update), lost' \subseteq Calls,
           repeats' \in 0 .. MaxRepeats,
           srv' \in [Calls -> {"none", "requested", "accepted", "active",
                               "discarded"}]
    PROVE  TInv'
BY DEF TInv, TypeOK, HandlingKnown, CallSessionLast, OpsOnExisting,
       ServerStep, sessionVars

LEMMA ServerRingsTInv ==
    ASSUME TInv, NEW k \in Calls, ServerRings(k)
    PROVE  TInv'
<1>1. queue' \in Seq(Update) /\ lost' \subseteq Calls
  BY EmitType DEF ServerRings, UpdateKinds, DiscardReasons, TInv
<1> QED
  BY <1>1, ServerStepTInv DEF ServerRings, TInv, TypeOK

LEMMA ServerProgressTInv ==
    ASSUME TInv, NEW k \in Calls, ServerProgress(k)
    PROVE  TInv'
<1>1. \E kind \in {"accepted", "established"} :
         Emit(Upd(kind, k, "REMOTE_HANGUP"))
  BY DEF ServerProgress
<1>2. queue' \in Seq(Update) /\ lost' \subseteq Calls
  BY <1>1, EmitType DEF UpdateKinds, DiscardReasons, TInv
<1>3. srv' \in [Calls -> {"none", "requested", "accepted", "active",
                          "discarded"}]
  <2>1. \E st \in {"accepted", "active"} : srv' = [srv EXCEPT ![k] = st]
    BY DEF ServerProgress
  <2> QED
    BY <2>1 DEF TInv, TypeOK
<1> QED
  BY <1>2, <1>3, ServerStepTInv DEF ServerProgress, TInv, TypeOK

LEMMA ServerDiscardsTInv ==
    ASSUME TInv, NEW k \in Calls, ServerDiscards(k)
    PROVE  TInv'
<1>1. \E kind \in {"discarded", "empty"}, why \in DiscardReasons :
         Emit(Upd(kind, k, why))
  BY DEF ServerDiscards
<1>2. queue' \in Seq(Update) /\ lost' \subseteq Calls
  BY <1>1, EmitType DEF UpdateKinds, TInv
<1> QED
  BY <1>2, ServerStepTInv DEF ServerDiscards, TInv, TypeOK

LEMMA ServerRepeatsTInv ==
    ASSUME TInv, NEW k \in Calls, ServerRepeats(k)
    PROVE  TInv'
<1>1. srv[k] \in {"none", "requested", "accepted", "active", "discarded"}
  BY DEF TInv, TypeOK
<1>2. \E kind \in UpdateKinds : Emit(Upd(kind, k, "REMOTE_HANGUP"))
  BY <1>1 DEF ServerRepeats, UpdateKinds
<1>3. queue' \in Seq(Update) /\ lost' \subseteq Calls
  BY <1>2, EmitType DEF DiscardReasons, TInv
<1>4. repeats' \in 0 .. MaxRepeats
  BY SizesAssumption DEF ServerRepeats, TInv, TypeOK
<1> QED
  BY <1>3, <1>4, ServerStepTInv DEF ServerRepeats, TInv, TypeOK

-----------------------------------------------------------------------------
LEMMA StutterTInv == TInv /\ UNCHANGED vars => TInv'
BY DEF TInv, TypeOK, HandlingKnown, CallSessionLast, OpsOnExisting, vars,
       sessionVars, loopVars, histVars

LEMMA LoopStepsTInv == TInv /\ LoopSteps => TInv'
BY HandleRingingTInv, HandleRequestedTInv, HandleProgressTInv,
   HandleDiscardedTInv, HandlerReturnsTInv, HandlerRaisesTInv DEF LoopSteps

LEMMA UserStepsTInv == TInv /\ UserSteps => TInv'
<1> SUFFICES ASSUME TInv, UserSteps PROVE TInv'
  OBVIOUS
<1>1. CASE Start \/ Stop
  BY <1>1, StartTInv, StopTInv
<1>2. CASE \E k \in Outgoing : RequestCall(k) \/ CallReturns(k) \/ CallFails(k)
  BY <1>2, RequestCallTInv, CallReturnsTInv, CallFailsTInv
<1>3. CASE \E s \in Sessions :
              Accept(s) \/ OpEnds(s) \/ \E name \in Discards : Discard(s, name)
  BY <1>3, AcceptTInv, CallReceivedTInv, AcceptReturnsTInv, AcceptFailsTInv,
     DiscardTInv, DiscardReturnsTInv, DiscardFailsTInv DEF OpEnds
<1> QED
  BY <1>1, <1>2, <1>3 DEF UserSteps

LEMMA ServerStepsTInv == TInv /\ ServerSteps => TInv'
BY ServerCreatesTInv, ServerAcceptsTInv, ServerDiscardsForTInv,
   ServerRingsTInv, ServerProgressTInv, ServerDiscardsTInv, ServerRepeatsTInv
   DEF ServerSteps

\* TInv is inductive.
LEMMA NextTInv == TInv /\ [Next]_vars => TInv'
BY StutterTInv, LoopStepsTInv, UserStepsTInv, ServerStepsTInv DEF Next

\* The manager's state stays in TInv, whatever the user and the server do.
THEOREM TypeInductive == Spec => []TInv
BY InitTInv, NextTInv, PTL DEF Spec

(***************************************************************************)
(* The state of the manager is always well-typed; in particular the table  *)
(* _sessions only names sessions that have been made, and the updates loop *)
(* awaits the handlers of one call at a time.                              *)
(***************************************************************************)
THEOREM TypeCorrect == Spec => []TypeOK
<1>1. TInv => TypeOK
  BY DEF TInv
<1> QED
  BY <1>1, TypeInductive, PTL

-----------------------------------------------------------------------------
(* Sessions move forward.                                                  *)

\* One step of one session, as NeverGoesBack has it.
Forward(s) ==
    /\ Rank(state'[s]) >= Rank(state[s])
    /\ state[s] \in Terminal => state'[s] = state[s]

LEMMA RankNat ==
    ASSUME NEW st \in CallStates \cup {"absent"}
    PROVE  Rank(st) \in 0 .. 6
BY DEF Rank, CallStates, Terminal

\* The table of transitions has no way back.
LEMMA AllowedForward ==
    ASSUME NEW from \in CallStates, NEW to \in AllowedTransitions[from]
    PROVE  Rank(to) >= Rank(from) /\ from \notin Terminal
<1>1. CASE from = "IDLE"
  BY <1>1 DEF AllowedTransitions, Rank, Terminal
<1>2. CASE from \in {"RINGING_IN", "OUTGOING_INIT"}
  BY <1>2 DEF AllowedTransitions, Rank, Terminal
<1>3. CASE from = "CONNECTING"
  BY <1>3 DEF AllowedTransitions, Rank, Terminal
<1>4. CASE from = "IN_CALL"
  BY <1>4 DEF AllowedTransitions, Rank, Terminal
<1>5. CASE from = "DISCONNECTING"
  BY <1>5 DEF AllowedTransitions, Rank, Terminal
<1>6. CASE from \in Terminal
  BY <1>6 DEF AllowedTransitions, Terminal
<1> QED
  BY <1>1, <1>2, <1>3, <1>4, <1>5, <1>6 DEF CallStates

LEMMA AfterForward ==
    ASSUME NEW from \in CallStates, NEW to \in CallStates
    PROVE  /\ Rank(After(from, to)) >= Rank(from)
           /\ from \in Terminal => After(from, to) = from
<1>1. CASE from = to \/ ~CanTransition(from, to)
  <2>1. After(from, to) = from
    BY <1>1 DEF After
  <2> QED
    BY <2>1, RankNat
<1>2. CASE from # to /\ CanTransition(from, to)
  BY <1>2, AllowedForward DEF After, CanTransition
<1> QED
  BY <1>1, <1>2

LEMMA FoundForward ==
    ASSUME TypeOK, NEW s \in Sessions
    PROVE  /\ Rank(Found(s)) >= Rank(state[s])
           /\ state[s] \in Terminal => Found(s) = state[s]
<1>1. CASE state[s] = "absent"
  BY <1>1 DEF Found, Rank, Terminal
<1>2. CASE state[s] # "absent"
  <2>1. Found(s) = state[s] /\ state[s] \in CallStates \cup {"absent"}
    BY <1>2 DEF Found, TypeOK
  <2> QED
    BY <2>1, RankNat
<1> QED
  BY <1>1, <1>2

LEMMA StillForward ==
    ASSUME TypeOK, NEW s \in Sessions, state'[s] = state[s]
    PROVE  Forward(s)
<1>1. state[s] \in CallStates \cup {"absent"}
  BY DEF TypeOK
<1> QED
  BY <1>1, RankNat DEF Forward

LEMMA TransitionForward ==
    ASSUME TypeOK, NEW s \in Sessions, NEW to \in CallStates,
           TransitionIfAllowed(s, to)
    PROVE  \A t \in Sessions : Forward(t)
<1>1. state'[s] = After(Found(s), to)
      /\ \A t \in Sessions \ {s} : state'[t] = state[t]
  BY DEF TransitionIfAllowed, TypeOK
<1>2. Forward(s)
  <2>1. Found(s) \in CallStates /\ After(Found(s), to) \in CallStates
    BY FoundType, AfterType
  <2>2. /\ Rank(After(Found(s), to)) >= Rank(Found(s))
        /\ Found(s) \in Terminal => After(Found(s), to) = Found(s)
    BY <2>1, AfterForward
  <2>3. /\ Rank(Found(s)) \in Nat /\ Rank(state[s]) \in Nat
        /\ Rank(After(Found(s), to)) \in Nat
    <3>1. state[s] \in CallStates \cup {"absent"}
      BY DEF TypeOK
    <3> QED
      BY <2>1, <3>1, RankNat
  <2> QED
    BY <1>1, <2>2, <2>3, FoundForward DEF Forward
<1> QED
  BY <1>1, <1>2, StillForward

LEMMA SetFailedForward ==
    ASSUME TypeOK, NEW s \in Sessions, SetFailed(s)
    PROVE  \A t \in Sessions : Forward(t)
<1>1. CASE state[s] \in Terminal
  BY <1>1, StillForward DEF SetFailed
<1>2. CASE state[s] \notin Terminal
  <2>1. state'[s] = "FAILED" /\ \A t \in Sessions \ {s} : state'[t] = state[t]
    BY <1>2 DEF SetFailed, TypeOK
  <2>2. Rank("FAILED") = 6
    BY DEF Rank, Terminal
  <2>3. Rank(state[s]) \in 0 .. 6
    BY RankNat DEF TypeOK
  <2>4. Forward(s)
    BY <1>2, <2>1, <2>2, <2>3 DEF Forward
  <2> QED
    BY <2>1, <2>4, StillForward
<1> QED
  BY <1>1, <1>2

LEMMA LoopForward == TInv /\ LoopSteps => \A s \in Sessions : Forward(s)
<1> SUFFICES ASSUME TInv, LoopSteps PROVE \A s \in Sessions : Forward(s)
  OBVIOUS
<1> USE DEF TInv
<1> DEFINE s == SessionOf(Head(queue).call)
<1>1. ASSUME NEW kinds, TakeUpdate(kinds) PROVE s \in Sessions
  BY <1>1, TakeUpdateType
<1>2. CASE HandleRinging
  BY <1>1, <1>2, TransitionForward DEF HandleRinging, CallStates
<1>3. CASE HandleRequested
  <2>1. s \in Sessions
    BY <1>1, <1>3 DEF HandleRequested
  <2>2. CASE TransitionIfAllowed(s, "CONNECTING")
    BY <2>1, <2>2, TransitionForward DEF CallStates
  <2>3. CASE state' = [state EXCEPT ![s] = Found(s)]
    <3>1. state'[s] = Found(s) /\ \A t \in Sessions \ {s} : state'[t] = state[t]
      BY <2>1, <2>3 DEF TypeOK
    <3>2. Forward(s)
      BY <2>1, <3>1, FoundForward DEF Forward
    <3> QED
      BY <3>1, <3>2, StillForward
  <2> QED
    BY <1>3, <2>2, <2>3 DEF HandleRequested
<1>4. CASE HandleProgress
  <2>1. \E to \in {"CONNECTING", "IN_CALL"} : TransitionIfAllowed(s, to)
    BY <1>4 DEF HandleProgress
  <2> QED
    BY <1>1, <1>4, <2>1, TransitionForward DEF HandleProgress, CallStates
<1>5. CASE HandleDiscarded
  BY <1>1, <1>5, TransitionForward DEF HandleDiscarded, CallStates, Terminal
<1>6. CASE \E t \in Sessions : HandlerReturns(t)
  BY <1>6, StillForward DEF HandlerReturns, sessionVars
<1>7. ASSUME NEW r \in Sessions, HandlerRaises(r)
      PROVE  \A t \in Sessions : Forward(t)
  BY <1>7, SetFailedForward DEF HandlerRaises
<1> QED
  BY <1>2, <1>3, <1>4, <1>5, <1>6, <1>7 DEF LoopSteps

LEMMA UserForward == TInv /\ UserSteps => \A s \in Sessions : Forward(s)
<1> SUFFICES ASSUME TInv, UserSteps PROVE \A s \in Sessions : Forward(s)
  OBVIOUS
<1> USE DEF TInv
<1>1. CASE state' = state
  BY <1>1, StillForward
<1>2. ASSUME NEW k \in Outgoing, CallReturns(k)
      PROVE  \A s \in Sessions : Forward(s)
  <2>1. <<k, "call">> \in Sessions
    BY DEF Sessions
  <2>2. state[<<k, "call">>] = "absent"
    BY <1>2 DEF CallReturns, CallSessionLast
  <2>3. /\ state'[<<k, "call">>] = After("OUTGOING_INIT", "CONNECTING")
        /\ \A t \in Sessions \ {<<k, "call">>} : state'[t] = state[t]
    BY <1>2, <2>1 DEF CallReturns, TypeOK
  <2>4. Rank(state[<<k, "call">>]) = 0
    <3>1. Rank("absent") = 0
      BY DEF Rank, Terminal
    <3> QED
      BY <2>2, <3>1
  <2>5. Rank(state'[<<k, "call">>]) \in 0 .. 6
    BY <2>3, RankNat DEF After, CallStates
  <2>6. Forward(<<k, "call">>)
    BY <2>2, <2>4, <2>5 DEF Forward, Terminal
  <2> QED
    BY <2>3, <2>6, StillForward
<1>3. ASSUME NEW s \in Sessions, AcceptReturns(s)
      PROVE  \A t \in Sessions : Forward(t)
  BY <1>3, TransitionForward DEF AcceptReturns, CallStates
<1>4. ASSUME NEW s \in Sessions, AcceptFails(s)
      PROVE  \A t \in Sessions : Forward(t)
  <2>1. CASE SetFailed(s)
    BY <2>1, SetFailedForward
  <2>2. CASE state' = state
    BY <2>2, StillForward
  <2> QED
    BY <1>4, <2>1, <2>2 DEF AcceptFails
<1>5. ASSUME NEW s \in Sessions, NEW name \in Discards,
             Discard(s, name) \/ DiscardReturns(s, name)
      PROVE  \A t \in Sessions : Forward(t)
  <2>1. \E to \in {"DISCONNECTING", "ENDED"} : TransitionIfAllowed(s, to)
    BY <1>5 DEF Discard, DiscardReturns
  <2> QED
    BY <2>1, TransitionForward DEF CallStates, Terminal
<1>6. \/ state' = state
      \/ \E k \in Outgoing : CallReturns(k)
      \/ \E s \in Sessions :
            \/ AcceptReturns(s) \/ AcceptFails(s)
            \/ \E name \in Discards : Discard(s, name) \/ DiscardReturns(s, name)
  BY DEF UserSteps, OpEnds, Start, Stop, RequestCall, CallFails, Accept,
         CallReceived, DiscardFails, sessionVars
<1> QED
  BY <1>1, <1>2, <1>3, <1>4, <1>5, <1>6

LEMMA ServerQuiet == ServerSteps => UNCHANGED <<state, reason, ends>>
BY DEF ServerSteps, ServerCreates, ServerAccepts, ServerDiscardsFor, ServerRings,
       ServerProgress, ServerDiscards, ServerRepeats, ServerStep, sessionVars

LEMMA NextForward == TInv /\ [Next]_vars => \A s \in Sessions : Forward(s)
<1>1. TInv /\ (ServerSteps \/ UNCHANGED vars) => \A s \in Sessions : Forward(s)
  BY ServerQuiet, StillForward DEF TInv, vars, sessionVars
<1> QED
  BY <1>1, LoopForward, UserForward DEF Next

(***************************************************************************)
(* Whatever operations and updates are in flight, and in whatever order    *)
(* they finish, a session never moves backwards and never leaves ENDED or  *)
(* FAILED (_transition_if_allowed, _set_failed).                           *)
(***************************************************************************)
THEOREM ForwardCorrect == Spec => NeverGoesBack
<1>1. TInv /\ [Next]_vars => [\A s \in Sessions :
          /\ Rank(state'[s]) >= Rank(state[s])
          /\ state[s] \in Terminal => state'[s] = state[s]]_vars
  BY NextForward DEF Forward
<1> QED
  BY <1>1, TypeInductive, PTL DEF Spec, NeverGoesBack

-----------------------------------------------------------------------------
(* Ends have reasons.                                                      *)

\* A transition keeps the ends explained if the reasons are there.
LEMMA TransitionExplains ==
    ASSUME TypeOK, EndsAreExplained, NEW s \in Sessions, NEW to \in CallStates,
           TransitionIfAllowed(s, to),
           \A t \in Sessions : reason[t] # "none" => reason'[t] # "none",
           to \in Terminal => reason'[s] # "none"
    PROVE  EndsAreExplained'
<1>1. /\ state'[s] = After(Found(s), to)
      /\ ends'[s] = Told(ends[s], Found(s), to)
      /\ \A t \in Sessions \ {s} : state'[t] = state[t] /\ ends'[t] = ends[t]
      /\ ends[s] \in Nat
  BY DEF TransitionIfAllowed, TypeOK
<1>2. CASE ~CanTransition(Found(s), to)
  <2>1. state'[s] \in Terminal => state[s] \in Terminal
    BY <1>1, <1>2 DEF After, Found, Terminal
  <2>2. ends'[s] = ends[s]
    BY <1>1, <1>2 DEF Told
  <2> QED
    BY <1>1, <2>1, <2>2 DEF EndsAreExplained
<1>3. CASE CanTransition(Found(s), to)
  <2>1. state'[s] = to
    BY <1>1, <1>3 DEF After
  <2>2. to \in Terminal => ends'[s] = ends[s] + 1
    BY <1>1, <1>3 DEF Told
  <2> QED
    BY <1>1, <2>1, <2>2 DEF EndsAreExplained
<1> QED
  BY <1>2, <1>3

LEMMA SetFailedExplains ==
    ASSUME TypeOK, EndsAreExplained, NEW s \in Sessions, SetFailed(s)
    PROVE  EndsAreExplained'
<1>1. CASE state[s] \in Terminal
  BY <1>1 DEF SetFailed, EndsAreExplained
<1>2. CASE state[s] \notin Terminal
  <2>1. /\ reason'[s] = "FAILED_INTERNAL" /\ ends'[s] = ends[s] + 1
        /\ ends[s] \in Nat
        /\ \A t \in Sessions \ {s} :
              state'[t] = state[t] /\ reason'[t] = reason[t] /\ ends'[t] = ends[t]
    BY <1>2 DEF SetFailed, TypeOK
  <2> QED
    BY <2>1 DEF EndsAreExplained
<1> QED
  BY <1>1, <1>2

LEMMA QuietExplains ==
    ASSUME EndsAreExplained, UNCHANGED <<state, reason, ends>>
    PROVE  EndsAreExplained'
BY DEF EndsAreExplained

LEMMA LoopExplains == TInv /\ EndsAreExplained /\ LoopSteps => EndsAreExplained'
<1> SUFFICES ASSUME TInv, EndsAreExplained, LoopSteps PROVE EndsAreExplained'
  OBVIOUS
<1> USE DEF TInv
<1> DEFINE u == Head(queue)
           s == SessionOf(u.call)
<1>1. ASSUME NEW kinds, TakeUpdate(kinds) PROVE u \in Update /\ s \in Sessions
  BY <1>1, TakeUpdateType
<1>2. CASE HandleRinging
  BY <1>1, <1>2, TransitionExplains DEF HandleRinging, CallStates, Terminal
<1>3. CASE HandleRequested
  <2>1. s \in Sessions /\ UNCHANGED reason
    BY <1>1, <1>3 DEF HandleRequested
  <2>2. CASE TransitionIfAllowed(s, "CONNECTING")
    BY <2>1, <2>2, TransitionExplains DEF CallStates, Terminal
  <2>3. CASE state' = [state EXCEPT ![s] = Found(s)] /\ UNCHANGED ends
    <3>1. state'[s] = Found(s) /\ \A t \in Sessions \ {s} : state'[t] = state[t]
      BY <2>1, <2>3 DEF TypeOK
    <3>2. state'[s] \in Terminal => state[s] \in Terminal
      BY <3>1 DEF Found, Terminal
    <3> QED
      BY <2>1, <2>3, <3>1, <3>2 DEF EndsAreExplained
  <2> QED
    BY <1>3, <2>2, <2>3 DEF HandleRequested
<1>4. CASE HandleProgress
  <2>1. \E to \in {"CONNECTING", "IN_CALL"} : TransitionIfAllowed(s, to)
    BY <1>4 DEF HandleProgress
  <2>2. s \in Sessions /\ UNCHANGED reason
    BY <1>1, <1>4 DEF HandleProgress
  <2> QED
    BY <2>1, <2>2, TransitionExplains DEF CallStates, Terminal
<1>5. CASE HandleDiscarded
  <2> DEFINE why == IF u.kind = "empty" THEN "REMOTE_HANGUP" ELSE u.reason
  <2>1. u \in Update /\ s \in Sessions
    BY <1>1, <1>5 DEF HandleDiscarded
  <2>2. why # "none"
    <3>1. u.reason \in DiscardReasons
      BY <2>1 DEF Update
    <3> QED
      BY <3>1 DEF DiscardReasons
  <2>3. /\ reason' = [reason EXCEPT ![s] = IF @ = "none" THEN why ELSE @]
        /\ TransitionIfAllowed(s, "ENDED")
    BY <1>5 DEF HandleDiscarded
  <2> HIDE DEF why
  <2>4. reason'[s] # "none"
        /\ \A t \in Sessions : reason[t] # "none" => reason'[t] # "none"
    BY <2>1, <2>2, <2>3 DEF TypeOK
  <2> QED
    BY <2>1, <2>3, <2>4, TransitionExplains DEF CallStates, Terminal
<1>6. CASE \E t \in Sessions : HandlerReturns(t)
  BY <1>6, QuietExplains DEF HandlerReturns, sessionVars
<1>7. ASSUME NEW t \in Sessions, HandlerRaises(t)
      PROVE  EndsAreExplained'
  BY <1>7, SetFailedExplains DEF HandlerRaises
<1> QED
  BY <1>2, <1>3, <1>4, <1>5, <1>6, <1>7 DEF LoopSteps

LEMMA UserExplains == TInv /\ EndsAreExplained /\ UserSteps => EndsAreExplained'
<1> SUFFICES ASSUME TInv, EndsAreExplained, UserSteps PROVE EndsAreExplained'
  OBVIOUS
<1> USE DEF TInv
<1>1. CASE UNCHANGED <<state, reason, ends>>
  BY <1>1, QuietExplains
<1>2. ASSUME NEW k \in Outgoing, CallReturns(k)
      PROVE  EndsAreExplained'
  <2>1. <<k, "call">> \in Sessions
    BY DEF Sessions
  <2>2. /\ state'[<<k, "call">>] = "CONNECTING"
        /\ \A t \in Sessions \ {<<k, "call">>} : state'[t] = state[t]
        /\ UNCHANGED <<reason, ends>>
    BY <1>2, <2>1 DEF CallReturns, TypeOK, After, CanTransition,
                      AllowedTransitions
  <2> QED
    BY <2>2 DEF EndsAreExplained, Terminal
<1>3. ASSUME NEW s \in Sessions, AcceptReturns(s)
      PROVE  EndsAreExplained'
  BY <1>3, TransitionExplains DEF AcceptReturns, CallStates, Terminal
<1>4. ASSUME NEW s \in Sessions, AcceptFails(s)
      PROVE  EndsAreExplained'
  <2>1. CASE SetFailed(s)
    BY <2>1, SetFailedExplains
  <2>2. CASE UNCHANGED <<state, reason, ends>>
    BY <2>2, QuietExplains
  <2> QED
    BY <1>4, <2>1, <2>2 DEF AcceptFails
<1>5. ASSUME NEW s \in Sessions, NEW name \in Discards, Discard(s, name)
      PROVE  EndsAreExplained'
  BY <1>5, TransitionExplains DEF Discard, CallStates, Terminal
<1>6. ASSUME NEW s \in Sessions, NEW name \in Discards, DiscardReturns(s, name)
      PROVE  EndsAreExplained'
  <2>1. /\ reason' = [reason EXCEPT ![s] = LocalReason(name)]
        /\ TransitionIfAllowed(s, "ENDED")
    BY <1>6 DEF DiscardReturns
  <2>2. reason'[s] # "none"
        /\ \A t \in Sessions : reason[t] # "none" => reason'[t] # "none"
    BY <2>1 DEF TypeOK, LocalReason
  <2> QED
    BY <2>1, <2>2, TransitionExplains DEF CallStates, Terminal
<1>7. \/ UNCHANGED <<state, reason, ends>>
      \/ \E k \in Outgoing : CallReturns(k)
      \/ \E s \in Sessions :
            \/ AcceptReturns(s) \/ AcceptFails(s)
            \/ \E name \in Discards : Discard(s, name) \/ DiscardReturns(s, name)
  BY DEF UserSteps, OpEnds, Start, Stop, RequestCall, CallFails, Accept,
         CallReceived, DiscardFails, sessionVars
<1> QED
  BY <1>1, <1>2, <1>3, <1>4, <1>5, <1>6, <1>7

(***************************************************************************)
(* On every path to an end, by operation, by update or by a handler that   *)
(* raises, the session has a reason and its state handlers were told.      *)
(***************************************************************************)
THEOREM ExplainedCorrect == Spec => []EndsAreExplained
<1>1. Init => EndsAreExplained
  BY DEF Init, EndsAreExplained, Terminal
<1>2. TInv /\ EndsAreExplained /\ [Next]_vars => EndsAreExplained'
  <2>1. EndsAreExplained /\ (ServerSteps \/ UNCHANGED vars) => EndsAreExplained'
    BY ServerQuiet, QuietExplains DEF vars, sessionVars
  <2> QED
    BY <2>1, LoopExplains, UserExplains DEF Next
<1> QED
  BY <1>1, <1>2, TypeInductive, PTL DEF Spec

-----------------------------------------------------------------------------
(* Reasons stand.                                                          *)

\* What ReasonsStand says of one step of one session.
ReasonStands(s) ==
    reason[s] # "none" /\ reason'[s] # reason[s] =>
        \/ \E name \in Discards : op[s][name] = "discarded"
                                  /\ op'[s][name] = "done"
        \/ state[s] \notin Terminal /\ state'[s] = "FAILED"

LEMMA SetFailedReason ==
    ASSUME TypeOK, NEW s \in Sessions, SetFailed(s)
    PROVE  \A t \in Sessions : ReasonStands(t)
BY DEF SetFailed, ReasonStands, TypeOK

LEMMA NextReason == TInv /\ [Next]_vars => \A s \in Sessions : ReasonStands(s)
<1> SUFFICES ASSUME TInv, [Next]_vars PROVE \A s \in Sessions : ReasonStands(s)
  OBVIOUS
<1> USE DEF TInv
<1>1. CASE UNCHANGED reason
  BY <1>1 DEF ReasonStands
<1>2. CASE HandleDiscarded
  <2> DEFINE s == SessionOf(Head(queue).call)
  <2>1. s \in Sessions
    BY <1>2, TakeUpdateType DEF HandleDiscarded
  <2>2. PICK why : reason' = [reason EXCEPT ![s] = IF @ = "none" THEN why ELSE @]
    BY <1>2 DEF HandleDiscarded
  <2> QED
    BY <2>1, <2>2 DEF ReasonStands, TypeOK
<1>3. ASSUME NEW s \in Sessions, HandlerRaises(s)
      PROVE  \A t \in Sessions : ReasonStands(t)
  BY <1>3, SetFailedReason DEF HandlerRaises
<1>4. ASSUME NEW s \in Sessions, AcceptFails(s)
      PROVE  \A t \in Sessions : ReasonStands(t)
  BY <1>1, <1>4, SetFailedReason DEF AcceptFails
<1>5. ASSUME NEW s \in Sessions, NEW name \in Discards, DiscardReturns(s, name)
      PROVE  \A t \in Sessions : ReasonStands(t)
  <2>1. op[s][name] = "discarded" /\ op' = [op EXCEPT ![s][name] = "done"]
        /\ op[s] \in [accept : Phases, reject : Phases, hangup : Phases]
    BY <1>5 DEF DiscardReturns, OpStep, TypeOK
  <2>2. op'[s][name] = "done"
    <3>1. CASE name = "reject"
      BY <2>1, <3>1 DEF TypeOK
    <3>2. CASE name = "hangup"
      BY <2>1, <3>2 DEF TypeOK
    <3> QED
      BY <3>1, <3>2 DEF Discards
  <2>3. \A t \in Sessions \ {s} : reason'[t] = reason[t]
    BY <1>5 DEF DiscardReturns, TypeOK
  <2> QED
    BY <2>1, <2>2, <2>3 DEF ReasonStands
<1>6. LoopSteps => \/ UNCHANGED reason
                   \/ HandleDiscarded
                   \/ \E s \in Sessions : HandlerRaises(s)
  BY DEF LoopSteps, HandleRinging, HandleRequested, HandleProgress,
         HandlerReturns, sessionVars
<1>7. UserSteps => \/ UNCHANGED reason
                   \/ \E s \in Sessions :
                         \/ AcceptFails(s)
                         \/ \E name \in Discards : DiscardReturns(s, name)
  BY DEF UserSteps, OpEnds, Start, Stop, RequestCall, CallReturns, CallFails,
         Accept, CallReceived, AcceptReturns, Discard, DiscardFails, sessionVars
<1>8. ServerSteps \/ UNCHANGED vars => UNCHANGED reason
  BY ServerQuiet DEF vars, sessionVars
<1> QED
  BY <1>1, <1>2, <1>3, <1>4, <1>5, <1>6, <1>7, <1>8 DEF Next

(***************************************************************************)
(* An end reason is replaced by the outcome of the user's own reject or    *)
(* hangup, or by a failure before the end, and by nothing else: an update  *)
(* does not rewrite it.                                                    *)
(***************************************************************************)
THEOREM ReasonsCorrect == Spec => ReasonsStand
<1>1. TInv /\ [Next]_vars => [\A s \in Sessions :
          reason[s] # "none" /\ reason'[s] # reason[s] =>
              \/ \E name \in Discards : op[s][name] = "discarded"
                                        /\ op'[s][name] = "done"
              \/ state[s] \notin Terminal /\ state'[s] = "FAILED"]_vars
  BY NextReason DEF ReasonStands
<1> QED
  BY <1>1, TypeInductive, PTL DEF Spec, ReasonsStand

-----------------------------------------------------------------------------
(* Calls ring once.                                                        *)

\* A call that has rung has a session in the table that is past IDLE, and
\* the sessions taken for incoming ones are those of incoming calls.
Rung(k) == announced[k] = 0 \/ Rank(state[SessionOf(k)]) >= 2

RInv ==
    /\ \A k \in Calls : announced[k] <= 1 /\ Rung(k)
    /\ SelfIdKnown => \A s \in Sessions : incoming[s] => s[1] \in Incoming
    /\ SelfIdKnown => \A k \in Calls : announced[k] = 1 => k \in Incoming

\* A step that rings nothing and replaces no session in the table.
LEMMA SilentRInv ==
    ASSUME TInv, TInv', RInv, \A s \in Sessions : Forward(s),
           \A k \in Calls : announced[k] # 0 => SessionOf(k)' = SessionOf(k),
           UNCHANGED announced,
           SelfIdKnown => \A s \in Sessions : incoming'[s] => s[1] \in Incoming
    PROVE  RInv'
<1>1. ASSUME NEW k \in Calls, announced[k] # 0
      PROVE  Rank(state'[SessionOf(k)']) >= 2
  <2>1. SessionOf(k) \in Sessions /\ SessionOf(k)' = SessionOf(k)
    BY <1>1, SessionOfType DEF TInv
  <2>2. Rank(state[SessionOf(k)]) >= 2
    BY <1>1 DEF RInv, Rung
  <2>3. /\ state[SessionOf(k)] \in CallStates \cup {"absent"}
        /\ state'[SessionOf(k)] \in CallStates \cup {"absent"}
    BY <2>1 DEF TInv, TypeOK
  <2>4. /\ Rank(state[SessionOf(k)]) \in 0 .. 6
        /\ Rank(state'[SessionOf(k)]) \in 0 .. 6
        /\ Rank(state'[SessionOf(k)]) >= Rank(state[SessionOf(k)])
    BY <2>1, <2>3, RankNat DEF Forward
  <2> QED
    BY <2>1, <2>2, <2>4
<1> QED
  BY <1>1 DEF RInv, Rung

\* Taking an update leaves the session in the table where it is.
LEMMA TakeUpdateRung ==
    ASSUME TInv, RInv, NEW kinds, TakeUpdate(kinds)
    PROVE  /\ \A k \in Calls : SessionOf(k)' = SessionOf(k)
           /\ SelfIdKnown => \A s \in Sessions : incoming'[s] => s[1] \in Incoming
<1> DEFINE u == Head(queue)
           s == SessionOf(u.call)
<1>1. u \in Update /\ u.call \in Calls /\ s \in Sessions
      /\ table' = [table EXCEPT ![u.call] = s[2]]
  BY TakeUpdateType
<1>2. s[1] = u.call /\ s[2] \in {"loop", "call"} /\ s = <<u.call, s[2]>>
  BY <1>1, SessionOfType DEF TInv
<1>3. incoming' = [incoming EXCEPT ![s] = IsIncoming(s, u)]
  BY DEF TakeUpdate
<1>4. SelfIdKnown /\ IsIncoming(s, u) => s[1] \in Incoming
  BY <1>1, <1>2 DEF IsIncoming, IsIncomingCall, RInv
<1>5. ASSUME NEW k \in Calls
      PROVE  SessionOf(k)' = SessionOf(k)
  <2>1. CASE k = u.call
    <3>1. table'[k] = s[2] /\ s[2] # "none"
      BY <1>1, <1>2, <2>1 DEF TInv, TypeOK
    <3>2. SessionOf(k)' = <<k, s[2]>>
      BY <3>1 DEF SessionOf
    <3> QED
      BY <1>2, <2>1, <3>2
  <2>2. CASE k # u.call
    <3>1. table'[k] = table[k]
      BY <1>1, <2>2 DEF TInv, TypeOK
    <3> QED
      BY <3>1 DEF SessionOf
  <2> QED
    BY <2>1, <2>2
<1>6. SelfIdKnown => \A t \in Sessions : incoming'[t] => t[1] \in Incoming
  <2> HIDE DEF u, s
  <2> QED
    BY <1>1, <1>3, <1>4 DEF RInv, TInv, TypeOK
<1> QED
  BY <1>5, <1>6

LEMMA RingingRInv ==
    ASSUME TInv, TInv', RInv, \A s \in Sessions : Forward(s), HandleRinging
    PROVE  RInv'
<1> DEFINE u == Head(queue)
           k == u.call
           s == SessionOf(k)
<1>1. TakeUpdate({"requested", "waiting"}) /\ Rings(s, u)
      /\ TransitionIfAllowed(s, "RINGING_IN")
      /\ announced' = [announced EXCEPT ![k] = @ + 1]
  BY DEF HandleRinging
<1>2. k \in Calls /\ s \in Sessions /\ s[1] = k
  BY <1>1, TakeUpdateType, SessionOfType DEF TInv
<1>3. /\ \A j \in Calls : SessionOf(j)' = SessionOf(j)
      /\ SelfIdKnown => \A t \in Sessions : incoming'[t] => t[1] \in Incoming
  BY <1>1, TakeUpdateRung
<1>4. incoming'[s] = IsIncoming(s, u) /\ IsIncoming(s, u)
  <2>1. incoming' = [incoming EXCEPT ![s] = IsIncoming(s, u)]
    BY <1>1 DEF TakeUpdate
  <2>2. incoming'[s] = IsIncoming(s, u)
    BY <1>2, <2>1 DEF TInv, TypeOK
  <2> QED
    BY <1>1, <2>2 DEF Rings
<1>5. state[s] \in {"absent", "IDLE"}
  BY <1>1 DEF Rings, Found
<1>6. announced[k] = 0
  <2>1. Rank("absent") = 0 /\ Rank("IDLE") = 1
    BY DEF Rank, Terminal
  <2>2. ~(Rank(state[s]) >= 2)
    BY <1>5, <2>1
  <2> QED
    BY <1>2, <2>2 DEF RInv, Rung
<1>7. /\ announced'[k] = 1
      /\ \A j \in Calls \ {k} : announced'[j] = announced[j]
  BY <1>1, <1>2, <1>6 DEF TInv, TypeOK
<1>8. Rank(state'[s]) = 2
  <2>1. state'[s] = "RINGING_IN"
    BY <1>1, <1>2 DEF TransitionIfAllowed, After, CanTransition,
                      AllowedTransitions, Rings, TInv, TypeOK
  <2>2. Rank("RINGING_IN") = 2
    BY DEF Rank, Terminal
  <2> QED
    BY <2>1, <2>2
<1>9. SelfIdKnown => k \in Incoming
  BY <1>2, <1>3, <1>4
<1>10. ASSUME NEW j \in Calls \ {k}, announced[j] # 0
       PROVE  Rank(state'[SessionOf(j)]) >= 2
  <2>1. SessionOf(j) \in Sessions
    BY SessionOfType DEF TInv
  <2>2. /\ state[SessionOf(j)] \in CallStates \cup {"absent"}
        /\ state'[SessionOf(j)] \in CallStates \cup {"absent"}
    BY <2>1 DEF TInv, TypeOK
  <2>3. Rank(state[SessionOf(j)]) >= 2
    BY <1>10 DEF RInv, Rung
  <2> QED
    BY <2>1, <2>2, <2>3, RankNat DEF Forward
<1> HIDE DEF u, k, s
<1>11. \A j \in Calls : announced'[j] <= 1
  BY <1>7 DEF RInv
<1>12. ASSUME NEW j \in Calls, announced'[j] # 0
       PROVE  Rank(state'[SessionOf(j)']) >= 2
  <2>1. CASE j = k
    BY <1>2, <1>3, <1>8, <2>1 DEF s
  <2>2. CASE j # k
    BY <1>3, <1>7, <1>10, <1>12, <2>2
  <2> QED
    BY <2>1, <2>2
<1>13. SelfIdKnown => \A j \in Calls : announced'[j] = 1 => j \in Incoming
  BY <1>7, <1>9 DEF RInv
<1> QED
  BY <1>3, <1>11, <1>12, <1>13 DEF RInv, Rung

LEMMA CallReturnsRInv ==
    ASSUME TInv, TInv', RInv, \A s \in Sessions : Forward(s),
           NEW k \in Outgoing, CallReturns(k)
    PROVE  RInv'
<1>1. /\ table' = [table EXCEPT ![k] = "call"]
      /\ incoming' = [incoming EXCEPT ![<<k, "call">>] = FALSE]
      /\ state' = [state EXCEPT ![<<k, "call">>]
                     = After("OUTGOING_INIT", "CONNECTING")]
      /\ UNCHANGED announced
  BY DEF CallReturns, histVars
<1>2. <<k, "call">> \in Sessions /\ k \in Calls
  BY DEF Sessions, Calls
<1>3. SelfIdKnown => \A s \in Sessions : incoming'[s] => s[1] \in Incoming
  BY <1>1, <1>2 DEF RInv, TInv, TypeOK
<1>4. ASSUME NEW j \in Calls, announced[j] # 0
      PROVE  Rank(state'[SessionOf(j)']) >= 2
  <2>1. CASE j = k
    <3>1. SessionOf(j)' = <<k, "call">>
      BY <1>1, <1>2, <2>1 DEF SessionOf, TInv, TypeOK
    <3>2. state'[<<k, "call">>] = "CONNECTING"
      BY <1>1, <1>2 DEF After, CanTransition, AllowedTransitions, TInv, TypeOK
    <3>3. Rank("CONNECTING") = 3
      BY DEF Rank, Terminal
    <3> QED
      BY <3>1, <3>2, <3>3
  <2>2. CASE j # k
    <3>1. table'[j] = table[j]
      BY <1>1, <2>2 DEF TInv, TypeOK
    <3>2. SessionOf(j)' = SessionOf(j)
      BY <3>1 DEF SessionOf
    <3>3. SessionOf(j) \in Sessions /\ SessionOf(j) # <<k, "call">>
      BY <2>2, SessionOfType DEF TInv
    <3>4. state'[SessionOf(j)] = state[SessionOf(j)]
      BY <1>1, <3>3 DEF TInv, TypeOK
    <3> QED
      BY <1>4, <3>2, <3>4 DEF RInv, Rung
  <2> QED
    BY <2>1, <2>2
<1> QED
  BY <1>1, <1>3, <1>4 DEF RInv, Rung

LEMMA NextRInv == TInv /\ RInv /\ [Next]_vars => RInv'
<1> SUFFICES ASSUME TInv, RInv, [Next]_vars PROVE RInv'
  OBVIOUS
<1>1. TInv' /\ \A s \in Sessions : Forward(s)
  BY NextTInv, NextForward
<1>2. CASE UNCHANGED <<table, incoming, announced>>
  <2>1. \A k \in Calls : SessionOf(k)' = SessionOf(k)
    BY <1>2 DEF SessionOf
  <2>2. SelfIdKnown => \A s \in Sessions : incoming'[s] => s[1] \in Incoming
    BY <1>2 DEF RInv
  <2> QED
    BY <1>1, <1>2, <2>1, <2>2, SilentRInv
<1>3. CASE HandleRinging
  BY <1>1, <1>3, RingingRInv
<1>4. CASE HandleRequested \/ HandleProgress \/ HandleDiscarded
  <2>1. UNCHANGED announced /\ \E kinds : TakeUpdate(kinds)
    BY <1>4 DEF HandleRequested, HandleProgress, HandleDiscarded
  <2> QED
    BY <1>1, <2>1, TakeUpdateRung, SilentRInv
<1>5. ASSUME NEW k \in Outgoing, CallReturns(k) PROVE RInv'
  BY <1>1, <1>5, CallReturnsRInv
<1>6. LoopSteps => \/ UNCHANGED <<table, incoming, announced>>
                   \/ HandleRinging
                   \/ HandleRequested \/ HandleProgress \/ HandleDiscarded
  BY DEF LoopSteps, HandlerReturns, HandlerRaises, sessionVars, histVars
<1>7. UserSteps => \/ UNCHANGED <<table, incoming, announced>>
                   \/ \E k \in Outgoing : CallReturns(k)
  BY DEF UserSteps, OpEnds, Start, Stop, RequestCall, CallFails, Accept,
         CallReceived, AcceptReturns, AcceptFails, Discard, DiscardReturns,
         DiscardFails, OpStep, sessionVars, histVars
<1>8. ServerSteps \/ UNCHANGED vars => UNCHANGED <<table, incoming, announced>>
  BY DEF ServerSteps, ServerCreates, ServerAccepts, ServerDiscardsFor,
         ServerRings, ServerProgress, ServerDiscards, ServerRepeats, ServerStep,
         OpStep, vars, sessionVars, histVars
<1> QED
  BY <1>2, <1>3, <1>4, <1>5, <1>6, <1>7, <1>8 DEF Next

(***************************************************************************)
(* However often the server repeats its updates and the manager is stopped *)
(* and started, the handlers run once for a call at most, and never for a  *)
(* call of the user's own while the own id is known.                       *)
(***************************************************************************)
THEOREM AnnouncedCorrect == Spec => []AnnouncedOnce
<1>1. Init => RInv
  BY DEF Init, RInv, Rung
<1>2. RInv => AnnouncedOnce
  BY DEF RInv, AnnouncedOnce
<1> QED
  BY <1>1, <1>2, NextRInv, TypeInductive, PTL DEF Spec

-----------------------------------------------------------------------------
(* Ends take effect.                                                       *)

IsEnd(u) == u.kind \in {"discarded", "empty"}
IsRing(u) == u.kind \in {"requested", "waiting"}

\* Nobody has heard of a call that the server has not made.
Unheard ==
    /\ \A k \in Calls : srv[k] = "none" =>
          /\ k \notin ended
          /\ \A i \in DOMAIN queue : queue[i].call # k
          /\ \A s \in Sessions : s[1] = k => state[s] = "absent"
    /\ \A k \in Outgoing : asking[k] = "idle" => srv[k] = "none"

\* The updates that can ring come before the end of their call.
RingsFirst ==
    /\ \A k \in ended : srv[k] = "discarded"
    /\ \A i \in DOMAIN queue :
          /\ IsEnd(queue[i]) => srv[queue[i].call] = "discarded"
          /\ IsRing(queue[i]) => queue[i].call \notin ended
    /\ \A i, j \in DOMAIN queue :
          i < j /\ IsEnd(queue[i]) /\ IsRing(queue[j])
          => queue[i].call # queue[j].call

\* The session of call() is in the table from the answer on, past IDLE, and
\* an end that was handled before it has been noted.
Called ==
    \A k \in Outgoing :
        /\ asking[k] = "done" =>
              table[k] = "call" /\ Rank(state[<<k, "call">>]) >= 2
        /\ k \in ended /\ asking[k] = "asked" => k \in overtaken

OInv == Unheard /\ RingsFirst /\ Called /\ EndsTakeEffect
\* What EndsTakeEffect asks of a call whose end has been handled.
Over(k) ==
    \/ state[SessionOf(k)] \in Terminal
    \/ k \in Outgoing /\ (k \in overtaken \/ asking[k] # "done")
    \/ k \in Incoming /\ announced[k] = 0

LEMMA EndsFromPast ==
    ASSUME NEW st \in CallStates, Rank(st) >= 2
    PROVE  After(st, "ENDED") \in Terminal
<1>1. st # "IDLE"
  BY DEF Rank, Terminal
<1>2. CASE st \in {"RINGING_IN", "OUTGOING_INIT", "CONNECTING"}
  BY <1>2 DEF After, CanTransition, AllowedTransitions, Terminal
<1>3. CASE st \in {"IN_CALL", "DISCONNECTING"}
  BY <1>3 DEF After, CanTransition, AllowedTransitions, Terminal
<1>4. CASE st \in Terminal
  BY <1>4 DEF After, CanTransition, AllowedTransitions, Terminal
<1> QED
  BY <1>1, <1>2, <1>3, <1>4 DEF CallStates

LEMMA PastStays ==
    ASSUME TInv, TInv', NEW s \in Sessions, Forward(s), Rank(state[s]) >= 2
    PROVE  Rank(state'[s]) >= 2
<1>1. /\ state[s] \in CallStates \cup {"absent"}
      /\ state'[s] \in CallStates \cup {"absent"}
  BY DEF TInv, TypeOK
<1>2. Rank(state[s]) \in 0 .. 6 /\ Rank(state'[s]) \in 0 .. 6
  BY <1>1, RankNat
<1> QED
  BY <1>2 DEF Forward

\* A call that is over stays so while its session is the one in the table.
LEMMA OverStays ==
    ASSUME TInv, TInv', \A s \in Sessions : Forward(s), NEW k \in Calls, Over(k),
           SessionOf(k)' = SessionOf(k), announced'[k] = announced[k],
           k \in Outgoing => asking'[k] = asking[k], overtaken \subseteq overtaken'
    PROVE  Over(k)'
<1>1. SessionOf(k) \in Sessions
  BY SessionOfType DEF TInv
<1>2. state[SessionOf(k)] \in Terminal => state'[SessionOf(k)] \in Terminal
  BY <1>1 DEF Forward
<1>3. CASE state[SessionOf(k)] \in Terminal
  <2>1. state'[SessionOf(k)'] \in Terminal
    BY <1>2, <1>3
  <2> QED
    BY <2>1 DEF Over
<1>4. CASE k \in Outgoing /\ (k \in overtaken \/ asking[k] # "done")
  BY <1>4 DEF Over
<1>5. CASE k \in Incoming /\ announced[k] = 0
  BY <1>5 DEF Over
<1> QED
  BY <1>3, <1>4, <1>5 DEF Over

LEMMA CalledStays ==
    ASSUME TInv, TInv', \A s \in Sessions : Forward(s), Called,
           NEW k \in Outgoing, asking[k] = "done",
           table'[k] = table[k]
    PROVE  table'[k] = "call" /\ Rank(state'[<<k, "call">>]) >= 2
<1>1. <<k, "call">> \in Sessions
  BY DEF Sessions
<1> QED
  BY <1>1, PastStays DEF Called

\* Steps of sessions that exist, and of the queue when it is forgotten.
LEMMA SessionStepOInv ==
    ASSUME TInv, TInv', OInv, \A s \in Sessions : Forward(s),
           UNCHANGED <<table, asking, srv, announced, ended, overtaken>>,
           queue' = queue \/ queue' = <<>>,
           \A s \in Sessions : state[s] = "absent" => state'[s] = "absent"
    PROVE  OInv'
<1>1. Unheard'
  BY DEF OInv, Unheard
<1>2. RingsFirst'
  BY DEF OInv, RingsFirst
<1>3. Called'
  BY CalledStays DEF OInv, Called
<1>4. ASSUME NEW k \in ended PROVE Over(k)'
  <2>1. k \in Calls /\ Over(k)
    BY DEF OInv, EndsTakeEffect, Over, TInv, TypeOK
  <2>2. SessionOf(k)' = SessionOf(k)
    BY DEF SessionOf
  <2> QED
    BY <2>1, <2>2, OverStays
<1>5. EndsTakeEffect'
  BY <1>4 DEF EndsTakeEffect, Over
<1> QED
  BY <1>1, <1>2, <1>3, <1>5 DEF OInv

\* Steps of the server about a call that is under way, or begins.
LEMMA ServerStepOInv ==
    ASSUME TInv, TInv', OInv, NEW k \in Calls,
           UNCHANGED <<state, table, asking, announced, ended, overtaken>>,
           \A j \in Calls \ {k} : srv'[j] = srv[j],
           srv[k] = "discarded" => srv'[k] = "discarded", srv'[k] # "none",
           k \in Outgoing => asking[k] # "idle",
           \/ UNCHANGED queue
           \/ \E u \in Update :
                 /\ u.call = k /\ Emit(u)
                 /\ IsEnd(u) => srv'[k] = "discarded"
                 /\ IsRing(u) => srv[k] # "discarded"
    PROVE  OInv'
<1>1. \/ UNCHANGED queue
      \/ \E u \in Update :
            /\ u.call = k
            /\ IsEnd(u) => srv'[k] = "discarded"
            /\ IsRing(u) => srv[k] # "discarded"
            /\ Len(queue) \in Nat /\ DOMAIN queue = 1 .. Len(queue)
            /\ DOMAIN queue' = 1 .. Len(queue) + 1
            /\ \A i \in 1 .. Len(queue) : queue'[i] = queue[i]
            /\ queue'[Len(queue) + 1] = u
  <2>1. queue \in Seq(Update)
    BY DEF TInv, TypeOK
  <2>2. ASSUME NEW u \in Update, queue' = Append(queue, u)
        PROVE  /\ Len(queue) \in Nat /\ DOMAIN queue = 1 .. Len(queue)
               /\ DOMAIN queue' = 1 .. Len(queue) + 1
               /\ \A i \in 1 .. Len(queue) : queue'[i] = queue[i]
               /\ queue'[Len(queue) + 1] = u
    BY <2>1, <2>2
  <2> QED
    BY <2>2 DEF Emit
<1>2. \A i \in DOMAIN queue : queue[i].call \in Calls
  <2>1. queue \in Seq(Update)
    BY DEF TInv, TypeOK
  <2>2. \A i \in DOMAIN queue : queue[i] \in Update
    BY <2>1
  <2> QED
    BY <2>2 DEF Update
<1>3. \A i \in DOMAIN queue' :
         queue'[i].call = k \/ (i \in DOMAIN queue /\ queue'[i] = queue[i])
  BY <1>1
<1>4. Unheard'
  <2>1. ASSUME NEW j \in Calls, srv'[j] = "none"
        PROVE  j # k /\ srv[j] = "none"
    BY <2>1
  <2>2. ASSUME NEW j \in Outgoing, asking[j] = "idle"
        PROVE  srv'[j] = "none"
    BY <2>2 DEF OInv, Unheard, Calls
  <2> QED
    BY <1>3, <2>1, <2>2 DEF OInv, Unheard
<1>5. /\ \A j \in ended : srv'[j] = "discarded"
      /\ \A j \in Calls : srv[j] = "discarded" => srv'[j] = "discarded"
  BY DEF OInv, RingsFirst, TInv, TypeOK
<1>6. RingsFirst'
  <2>1. CASE UNCHANGED queue
    BY <1>2, <1>5, <2>1 DEF OInv, RingsFirst
  <2>2. ASSUME NEW u \in Update,
               u.call = k,
               IsEnd(u) => srv'[k] = "discarded",
               IsRing(u) => srv[k] # "discarded",
               Len(queue) \in Nat, DOMAIN queue = 1 .. Len(queue),
               DOMAIN queue' = 1 .. Len(queue) + 1,
               \A i \in 1 .. Len(queue) : queue'[i] = queue[i],
               queue'[Len(queue) + 1] = u
        PROVE  RingsFirst'
    <3> DEFINE n == Len(queue) + 1
    <3>1. /\ \A i \in DOMAIN queue' : i = n \/ (i \in DOMAIN queue /\ i < n)
          /\ \A i \in DOMAIN queue : queue'[i] = queue[i] /\ i < n
          /\ queue'[n] = u /\ n \in DOMAIN queue'
      BY <2>2
    <3> HIDE DEF n
    <3>2. \A i \in DOMAIN queue' :
             /\ IsEnd(queue'[i]) => srv'[queue'[i].call] = "discarded"
             /\ IsRing(queue'[i]) => queue'[i].call \notin ended
      BY <1>2, <1>5, <2>2, <3>1 DEF OInv, RingsFirst
    <3>3. ASSUME NEW i \in DOMAIN queue', NEW j \in DOMAIN queue', i < j,
                 IsEnd(queue'[i]), IsRing(queue'[j])
          PROVE  queue'[i].call # queue'[j].call
      <4>1. i \in DOMAIN queue /\ queue'[i] = queue[i]
        <5>1. i # n
          BY <2>2, <3>1, <3>3
        <5> QED
          BY <3>1, <5>1
      <4>2. CASE j = n
        <5>1. srv[queue[i].call] = "discarded"
          BY <3>3, <4>1 DEF OInv, RingsFirst
        <5> QED
          BY <2>2, <3>1, <3>3, <4>1, <4>2, <5>1
      <4>3. CASE j # n
        BY <3>1, <3>3, <4>1, <4>3 DEF OInv, RingsFirst
      <4> QED
        BY <4>2, <4>3
    <3> QED
      BY <1>5, <3>2, <3>3 DEF RingsFirst, IsEnd, IsRing
  <2> QED
    BY <1>1, <2>1, <2>2
<1>7. Called' /\ EndsTakeEffect'
  BY DEF OInv, Called, EndsTakeEffect, SessionOf
<1> QED
  BY <1>4, <1>6, <1>7 DEF OInv

\* What TakeUpdate leaves of the queue.
LEMMA TakeUpdateQueue ==
    ASSUME TInv, NEW kinds, TakeUpdate(kinds)
    PROVE  /\ 1 \in DOMAIN queue /\ queue[1] = Head(queue)
           /\ \A i \in DOMAIN queue' :
                 i + 1 \in DOMAIN queue /\ queue'[i] = queue[i + 1] /\ 1 < i + 1
           /\ \A i, j \in DOMAIN queue' : i < j => i + 1 < j + 1
<1>1. queue \in Seq(Update) /\ queue # <<>> /\ queue' = Tail(queue)
  BY DEF TInv, TypeOK, TakeUpdate
<1>2. Len(queue) \in Nat \ {0} /\ DOMAIN queue = 1 .. Len(queue)
  BY <1>1
<1>3. /\ DOMAIN queue' = 1 .. Len(queue) - 1
      /\ \A i \in 1 .. Len(queue) - 1 : queue'[i] = queue[i + 1]
  BY <1>1
<1> QED
  BY <1>1, <1>2, <1>3

\* Steps of the loop that take an update of k.
LEMMA TakeOInv ==
    ASSUME TInv, TInv', OInv, RInv, \A s \in Sessions : Forward(s),
           NEW kinds, TakeUpdate(kinds), NEW k, k = Head(queue).call,
           \A s \in Sessions \ {SessionOf(k)} : state'[s] = state[s],
           \A j \in Calls \ {k} : announced'[j] = announced[j],
           overtaken \subseteq overtaken',
           \/ /\ ended' = ended
              /\ announced'[k] = announced[k] \/ IsRing(Head(queue))
           \/ /\ ended' = ended \cup {k} /\ IsEnd(Head(queue)) /\ Over(k)'
              /\ k \in Outgoing /\ asking[k] = "asked" => k \in overtaken'
    PROVE  OInv'
<1>1. /\ k \in Calls /\ SessionOf(k) \in Sessions /\ SessionOf(k)[1] = k
      /\ table' = [table EXCEPT ![k] = SessionOf(k)[2]]
      /\ UNCHANGED <<asking, srv>>
  BY TakeUpdateType, SessionOfType DEF TInv, TakeUpdate
<1>2. /\ 1 \in DOMAIN queue /\ queue[1].call = k
      /\ \A i \in DOMAIN queue' :
            i + 1 \in DOMAIN queue /\ queue'[i] = queue[i + 1] /\ 1 < i + 1
      /\ \A i, j \in DOMAIN queue' : i < j => i + 1 < j + 1
  BY TakeUpdateQueue
<1>3. srv[k] # "none"
  BY <1>1, <1>2 DEF OInv, Unheard
<1>4. ended' \subseteq ended \cup {k}
  OBVIOUS
<1>5. Unheard'
  <2>1. ASSUME NEW j \in Calls, srv[j] = "none"
        PROVE  /\ j \notin ended'
               /\ \A i \in DOMAIN queue' : queue'[i].call # j
               /\ \A s \in Sessions : s[1] = j => state'[s] = "absent"
    BY <1>1, <1>2, <1>3, <1>4, <2>1 DEF OInv, Unheard
  <2>2. \A j \in Outgoing : asking'[j] = "idle" => srv'[j] = "none"
    BY <1>1 DEF OInv, Unheard
  <2> QED
    BY <1>1, <2>1, <2>2 DEF Unheard
<1>6. RingsFirst'
  <2>1. \A j \in ended' : srv'[j] = "discarded"
    BY <1>1, <1>2 DEF OInv, RingsFirst
  <2>2. ASSUME NEW i \in DOMAIN queue'
        PROVE  /\ IsEnd(queue'[i]) => srv'[queue'[i].call] = "discarded"
               /\ IsRing(queue'[i]) => queue'[i].call \notin ended'
    <3>1. IsEnd(queue'[i]) => srv'[queue'[i].call] = "discarded"
      BY <1>1, <1>2 DEF OInv, RingsFirst
    <3>2. IsRing(queue'[i]) => queue'[i].call \notin ended
      BY <1>2 DEF OInv, RingsFirst
    <3>3. IsRing(queue'[i]) /\ IsEnd(queue[1]) => queue'[i].call # k
      BY <1>2 DEF OInv, RingsFirst
    <3>4. ended' = ended \/ (ended' = ended \cup {k} /\ IsEnd(queue[1]))
      BY TakeUpdateQueue
    <3> QED
      BY <3>1, <3>2, <3>3, <3>4
  <2>3. \A i, j \in DOMAIN queue' :
           i < j /\ IsEnd(queue'[i]) /\ IsRing(queue'[j])
           => queue'[i].call # queue'[j].call
    BY <1>2 DEF OInv, RingsFirst
  <2> QED
    BY <2>1, <2>2, <2>3 DEF RingsFirst, IsEnd, IsRing
<1>7. Called'
  <2>1. ASSUME NEW j \in Outgoing, asking[j] = "done"
        PROVE  table'[j] = "call" /\ Rank(state'[<<j, "call">>]) >= 2
    <3>1. table[j] = "call" /\ j \in Calls
      BY <2>1 DEF OInv, Called, Calls
    <3>2. SessionOf(j)[2] = "call"
      BY <3>1 DEF SessionOf
    <3>3. table \in [Calls -> {"none", "loop", "call"}]
      BY DEF TInv, TypeOK
    <3>4. table'[j] = table[j]
      BY <1>1, <3>1, <3>2, <3>3
    <3> QED
      BY <2>1, <3>4, CalledStays DEF OInv
  <2>2. \A j \in Outgoing : j \in ended' /\ asking[j] = "asked" => j \in overtaken'
    BY DEF OInv, Called
  <2> QED
    BY <1>1, <2>1, <2>2 DEF Called
<1>8. ASSUME NEW j \in ended' PROVE Over(j)'
  <2>1. CASE j \in ended /\ announced'[j] = announced[j]
    <3>1. j \in Calls /\ Over(j)
      BY <2>1 DEF OInv, EndsTakeEffect, Over, TInv, TypeOK
    <3>2. SessionOf(j)' = SessionOf(j)
      BY <3>1, TakeUpdateRung
    <3> QED
      BY <1>1, <2>1, <3>1, <3>2, OverStays
  <2>2. CASE ended' = ended /\ IsRing(Head(queue)) /\ j = k
    <3>1. k \notin ended
      BY <2>2, TakeUpdateQueue DEF OInv, RingsFirst
    <3> QED
      BY <1>8, <2>2, <3>1
  <2>3. CASE j = k /\ Over(k)'
    BY <2>3
  <2>4. j \in Calls
    BY <1>8 DEF TInv, TypeOK
  <2> QED
    BY <1>8, <2>1, <2>2, <2>3, <2>4
<1>9. EndsTakeEffect'
  BY <1>8 DEF EndsTakeEffect, Over
<1> QED
  BY <1>5, <1>6, <1>7, <1>9 DEF OInv

LEMMA HandleRequestedOInv ==
    ASSUME TInv, TInv', OInv, RInv, \A s \in Sessions : Forward(s),
           HandleRinging \/ HandleRequested \/ HandleProgress
    PROVE  OInv'
<1> DEFINE k == Head(queue).call
<1>1. PICK kinds : TakeUpdate(kinds)
  BY DEF HandleRinging, HandleRequested, HandleProgress
<1>2. k \in Calls /\ SessionOf(k) \in Sessions
  BY <1>1, TakeUpdateType
<1>3. /\ UNCHANGED <<ended, overtaken>>
      /\ \E st : state' = [state EXCEPT ![SessionOf(k)] = st]
      /\ \/ announced' = announced
         \/ IsRing(Head(queue)) /\ announced' = [announced EXCEPT ![k] = @ + 1]
  BY DEF HandleRinging, HandleRequested, HandleProgress, TransitionIfAllowed,
         TakeUpdate, IsRing
<1>4. /\ \A s \in Sessions \ {SessionOf(k)} : state'[s] = state[s]
      /\ \A j \in Calls \ {k} : announced'[j] = announced[j]
      /\ announced'[k] = announced[k] \/ IsRing(Head(queue))
  BY <1>2, <1>3 DEF TInv, TypeOK
<1> QED
  BY <1>1, <1>3, <1>4, TakeOInv

\* The end of a call ends its session, but for the two exceptions.
LEMMA HandleDiscardedOInv ==
    ASSUME TInv, TInv', OInv, RInv, \A s \in Sessions : Forward(s),
           HandleDiscarded, NEW k, k = Head(queue).call,
           NEW s, s = SessionOf(k)
    PROVE  OInv'
<1>1. /\ TakeUpdate({"discarded", "empty"})
      /\ TransitionIfAllowed(s, "ENDED")
      /\ ended' = ended \cup {k} /\ announced' = announced
      /\ overtaken' = IF k \in Outgoing /\ asking[k] = "asked"
                      THEN overtaken \cup {k} ELSE overtaken
  BY DEF HandleDiscarded
<1>2. /\ k \in Calls /\ s \in Sessions /\ IsEnd(Head(queue))
      /\ UNCHANGED asking
  BY <1>1, TakeUpdateType DEF TakeUpdate, IsEnd
<1>3. /\ state'[s] = After(Found(s), "ENDED")
      /\ \A t \in Sessions \ {s} : state'[t] = state[t]
  BY <1>1, <1>2 DEF TransitionIfAllowed, TInv, TypeOK
<1>4. SessionOf(k)' = s
  BY <1>1, <1>2, TakeUpdateRung
<1>5. Rank(state[s]) >= 2 => state'[s] \in Terminal
  <2>1. state[s] \in CallStates \cup {"absent"}
    BY <1>2 DEF TInv, TypeOK
  <2>2. Rank("absent") = 0
    BY DEF Rank, Terminal
  <2>3. ASSUME Rank(state[s]) >= 2 PROVE state[s] \in CallStates /\ state[s] # "absent"
    BY <2>1, <2>2, <2>3
  <2>4. ASSUME Rank(state[s]) >= 2 PROVE Found(s) = state[s]
    BY <2>3, <2>4 DEF Found
  <2> QED
    BY <1>3, <2>3, <2>4, EndsFromPast
<1>6. Over(k)'
  <2>1. CASE k \in Incoming
    <3>1. announced'[k] = 0 \/ state'[s] \in Terminal
      BY <1>1, <1>2, <1>5 DEF RInv, Rung
    <3> QED
      BY <1>4, <2>1, <3>1 DEF Over
  <2>2. CASE k \in Outgoing /\ asking[k] = "done"
    <3>1. s = <<k, "call">> /\ Rank(state[s]) >= 2
      BY <2>2 DEF OInv, Called, SessionOf
    <3> QED
      BY <1>4, <1>5, <3>1 DEF Over
  <2>3. CASE k \in Outgoing /\ asking[k] # "done"
    BY <1>2, <2>3 DEF Over
  <2> QED
    BY <1>2, <2>1, <2>2, <2>3 DEF Calls
<1>7. /\ overtaken \subseteq overtaken'
      /\ k \in Outgoing /\ asking[k] = "asked" => k \in overtaken'
  BY <1>1
<1> QED
  BY <1>1, <1>2, <1>3, <1>6, <1>7, TakeOInv

LEMMA LoopOInv ==
    ASSUME TInv, TInv', OInv, RInv, \A s \in Sessions : Forward(s), LoopSteps
    PROVE  OInv'
<1>1. ASSUME NEW t \in Sessions, HandlerReturns(t) \/ HandlerRaises(t)
      PROVE  OInv'
  <2>1. UNCHANGED <<table, asking, srv, announced, ended, overtaken, queue>>
    BY <1>1 DEF HandlerReturns, HandlerRaises, sessionVars, histVars
  <2>2. \A s \in Sessions : state[s] = "absent" => state'[s] = "absent"
    <3>1. CASE state' = state
      BY <3>1
    <3>2. CASE HandlerRaises(t)
      <4>1. state[t] # "absent" /\ SetFailed(t)
        BY <3>2 DEF HandlerRaises, TInv, HandlingKnown
      <4>2. \A s \in Sessions \ {t} : state'[s] = state[s]
        BY <4>1 DEF SetFailed, TInv, TypeOK
      <4> QED
        BY <4>1, <4>2
    <3> QED
      BY <1>1, <3>1, <3>2 DEF HandlerReturns, sessionVars
  <2> QED
    BY <2>1, <2>2, SessionStepOInv
<1>2. ASSUME HandleDiscarded PROVE OInv'
  <2>1. PICK k, s : k = Head(queue).call /\ s = SessionOf(k)
    OBVIOUS
  <2> QED
    BY <1>2, <2>1, HandleDiscardedOInv
<1> QED
  BY <1>1, <1>2, HandleRequestedOInv DEF LoopSteps

\* The user asks for a call; nobody has heard of it.
LEMMA RequestCallOInv ==
    ASSUME TInv, TInv', OInv, NEW k \in Outgoing, RequestCall(k) \/ CallFails(k)
    PROVE  OInv'
<1>1. /\ UNCHANGED <<state, table, queue, srv, announced, ended, overtaken>>
      /\ \A j \in Outgoing \ {k} : asking'[j] = asking[j]
      /\ \/ asking[k] = "idle" /\ asking'[k] = "asked"
         \/ asking[k] = "asked" /\ asking'[k] = "failed"
  BY DEF RequestCall, CallFails, sessionVars, loopVars, histVars, TInv, TypeOK
<1>2. asking[k] = "idle" => k \notin ended
  BY DEF OInv, Unheard, Calls
<1>3. Unheard'
  <2>1. \A j \in Outgoing : asking'[j] = "idle" => asking[j] = "idle"
    BY <1>1
  <2> QED
    BY <1>1, <2>1 DEF OInv, Unheard
<1>4. RingsFirst'
  BY <1>1 DEF OInv, RingsFirst
<1>5. Called'
  <2>1. ASSUME NEW j \in Outgoing
        PROVE  /\ asking'[j] = "done" => asking[j] = "done"
               /\ j \in ended /\ asking'[j] = "asked" => asking[j] = "asked"
    BY <1>1, <1>2
  <2> QED
    BY <1>1, <2>1 DEF OInv, Called
<1>6. EndsTakeEffect'
  <2>1. ASSUME NEW j \in ended PROVE Over(j)'
    <3>1. Over(j) /\ SessionOf(j)' = SessionOf(j)
      BY <1>1 DEF OInv, EndsTakeEffect, Over, SessionOf
    <3>2. j \in Outgoing /\ asking[j] # "done" => asking'[j] # "done"
      BY <1>1
    <3> QED
      BY <1>1, <3>1, <3>2 DEF Over
  <2> QED
    BY <1>1, <2>1 DEF EndsTakeEffect, Over
<1> QED
  BY <1>3, <1>4, <1>5, <1>6 DEF OInv

\* The session of call() replaces one whose end has been noted.
LEMMA CallReturnsOInv ==
    ASSUME TInv, TInv', OInv, \A s \in Sessions : Forward(s),
           NEW k \in Outgoing, CallReturns(k)
    PROVE  OInv'
<1>1. /\ table' = [table EXCEPT ![k] = "call"]
      /\ state' = [state EXCEPT ![<<k, "call">>]
                     = After("OUTGOING_INIT", "CONNECTING")]
      /\ asking' = [asking EXCEPT ![k] = "done"]
      /\ asking[k] = "asked" /\ srv[k] # "none"
      /\ UNCHANGED <<queue, srv, announced, ended, overtaken>>
  BY DEF CallReturns, loopVars, histVars
<1>2. <<k, "call">> \in Sessions /\ k \in Calls /\ k \notin Incoming
  BY CallSetsAssumption DEF Sessions, Calls
<1>3. /\ table'[k] = "call" /\ asking'[k] = "done"
      /\ \A j \in Calls \ {k} : table'[j] = table[j]
      /\ \A j \in Outgoing \ {k} : asking'[j] = asking[j]
      /\ \A s \in Sessions \ {<<k, "call">>} : state'[s] = state[s]
  BY <1>1, <1>2 DEF TInv, TypeOK
<1>4. Rank(state'[<<k, "call">>]) >= 2
  <2>1. state'[<<k, "call">>] = "CONNECTING"
    BY <1>1, <1>2 DEF After, CanTransition, AllowedTransitions, TInv, TypeOK
  <2>2. Rank("CONNECTING") = 3
    BY DEF Rank, Terminal
  <2> QED
    BY <2>1, <2>2
<1>5. Unheard'
  <2>1. ASSUME NEW j \in Calls, srv[j] = "none", NEW s \in Sessions, s[1] = j
        PROVE  state'[s] = "absent"
    <3>1. s # <<k, "call">> /\ state[s] = "absent"
      BY <1>1, <2>1 DEF OInv, Unheard
    <3> QED
      BY <1>3, <3>1
  <2> QED
    BY <1>1, <1>3, <2>1 DEF OInv, Unheard
<1>6. RingsFirst'
  BY <1>1 DEF OInv, RingsFirst
<1>7. Called'
  <2>1. ASSUME NEW j \in Outgoing \ {k}, asking[j] = "done"
        PROVE  table'[j] = "call" /\ Rank(state'[<<j, "call">>]) >= 2
    BY <1>3, <2>1, CalledStays DEF OInv, Calls
  <2>2. \A j \in Outgoing \ {k} : j \in ended /\ asking[j] = "asked" => j \in overtaken
    BY DEF OInv, Called
  <2> QED
    <3>1. \A j \in Outgoing :
             asking'[j] = "done" => j = k \/ asking[j] = "done"
      BY <1>3
    <3>2. \A j \in Outgoing :
             asking'[j] = "asked" => j # k /\ asking[j] = "asked"
      BY <1>3
    <3>3. \A j \in Outgoing : asking'[j] = "done" =>
             table'[j] = "call" /\ Rank(state'[<<j, "call">>]) >= 2
      BY <1>3, <1>4, <2>1, <3>1
    <3>4. \A j \in Outgoing :
             j \in ended' /\ asking'[j] = "asked" => j \in overtaken'
      BY <1>1, <2>2, <3>2
    <3> QED
      BY <3>3, <3>4 DEF Called
<1>8. ASSUME NEW j \in ended PROVE Over(j)'
  <2>1. CASE j = k
    <3>1. k \in overtaken
      BY <1>1, <2>1 DEF OInv, Called
    <3> QED
      BY <1>1, <2>1, <3>1 DEF Over
  <2>2. CASE j # k
    <3>1. j \in Calls /\ Over(j)
      BY DEF OInv, EndsTakeEffect, Over, TInv, TypeOK
    <3>2. SessionOf(j)' = SessionOf(j)
      BY <1>3, <2>2, <3>1 DEF SessionOf
    <3> QED
      BY <1>1, <1>3, <2>2, <3>1, <3>2, OverStays
  <2> QED
    BY <2>1, <2>2
<1>9. EndsTakeEffect'
  BY <1>1, <1>8 DEF EndsTakeEffect, Over
<1> QED
  BY <1>5, <1>6, <1>7, <1>9 DEF OInv

LEMMA UserOInv ==
    ASSUME TInv, TInv', OInv, \A s \in Sessions : Forward(s), UserSteps
    PROVE  OInv'
<1>1. CASE Start \/ Stop
  <2>1. /\ UNCHANGED <<state, table, asking, srv, announced, ended, overtaken>>
        /\ queue' = queue \/ queue' = <<>>
    BY <1>1 DEF Start, Stop, sessionVars, histVars
  <2> QED
    BY <2>1, SessionStepOInv
<1>2. ASSUME NEW s \in Sessions,
             Accept(s) \/ OpEnds(s) \/ \E name \in Discards : Discard(s, name)
      PROVE  OInv'
  <2>1. /\ UNCHANGED <<table, asking, srv, announced, ended, overtaken, queue>>
        /\ state' = state \/ SetFailed(s) \/ \E to : TransitionIfAllowed(s, to)
        /\ state' = state \/ state[s] # "absent"
    BY <1>2 DEF Accept, OpEnds, CallReceived, AcceptReturns, AcceptFails,
                DiscardReturns, DiscardFails, Discard, Discards, OpStep, Exists,
                TInv, OpsOnExisting
  <2>2. \A t \in Sessions \ {s} : state'[t] = state[t]
    BY <2>1 DEF SetFailed, TransitionIfAllowed, TInv, TypeOK
  <2>3. \A t \in Sessions : state[t] = "absent" => state'[t] = "absent"
    BY <2>1, <2>2
  <2> QED
    BY <2>1, <2>3, SessionStepOInv
<1> QED
  BY <1>1, <1>2, RequestCallOInv, CallReturnsOInv DEF UserSteps

LEMMA ServerOInv ==
    ASSUME TInv, TInv', OInv, \A s \in Sessions : Forward(s), ServerSteps
    PROVE  OInv'
<1>1. UNCHANGED <<state, table, asking, announced, ended, overtaken>>
  BY DEF ServerSteps, ServerCreates, ServerAccepts, ServerDiscardsFor,
         ServerRings, ServerProgress, ServerDiscards, ServerRepeats, ServerStep,
         OpStep, sessionVars, histVars
<1>2. ASSUME NEW k \in Calls, srv[k] # "none"
      PROVE  k \in Outgoing => asking[k] # "idle"
  BY <1>2 DEF OInv, Unheard
<1>3. ASSUME NEW k \in Calls, NEW st, srv' = [srv EXCEPT ![k] = st]
      PROVE  srv'[k] = st /\ \A j \in Calls \ {k} : srv'[j] = srv[j]
  BY <1>3 DEF TInv, TypeOK
<1>4. ASSUME NEW kind \in UpdateKinds, NEW k \in Calls, NEW why \in DiscardReasons
      PROVE  /\ Upd(kind, k, why) \in Update /\ Upd(kind, k, why).call = k
             /\ IsEnd(Upd(kind, k, why)) <=> kind \in {"discarded", "empty"}
             /\ IsRing(Upd(kind, k, why)) <=> kind \in {"requested", "waiting"}
  BY DEF Upd, Update, IsEnd, IsRing
<1>5. ASSUME NEW k \in Outgoing, ServerCreates(k) PROVE OInv'
  <2>1. /\ k \in Calls /\ asking[k] = "asked" /\ srv[k] = "none"
        /\ srv' = [srv EXCEPT ![k] = "requested"] /\ UNCHANGED queue
    BY <1>5 DEF ServerCreates, loopVars, Calls
  <2> QED
    BY <1>1, <1>3, <2>1, ServerStepOInv
<1>6. ASSUME NEW s \in Sessions, NEW k, k = s[1], ServerAccepts(s)
      PROVE  OInv'
  <2>1. /\ k \in Calls /\ srv[k] = "requested" /\ UNCHANGED queue
        /\ srv' = [srv EXCEPT ![k] = "accepted"]
    BY <1>6, SessionParts DEF ServerAccepts
  <2>2. srv'[k] = "accepted" /\ \A j \in Calls \ {k} : srv'[j] = srv[j]
    BY <1>3, <2>1
  <2>3. k \in Outgoing => asking[k] # "idle"
    BY <1>2, <2>1
  <2> QED
    BY <1>1, <2>1, <2>2, <2>3, ServerStepOInv
<1>7. ASSUME NEW s \in Sessions, NEW k, k = s[1], NEW name \in Discards,
             ServerDiscardsFor(s, name)
      PROVE  OInv'
  <2>1. /\ k \in Calls /\ srv' = [srv EXCEPT ![k] = "discarded"]
        /\ \/ \E why \in DiscardReasons : Emit(Upd("discarded", k, why))
           \/ UNCHANGED queue
    BY <1>7, SessionParts DEF ServerDiscardsFor, NoEmit
  <2>2. srv[k] # "none"
    <3>1. state[s] # "absent"
      BY <1>7 DEF ServerDiscardsFor, OpStep, Discards, TInv, OpsOnExisting
    <3> QED
      BY <1>7, <2>1, <3>1 DEF OInv, Unheard
  <2>3. \/ UNCHANGED queue
        \/ \E u \in Update : u.call = k /\ Emit(u) /\ IsEnd(u) /\ ~IsRing(u)
    BY <2>1, <1>4 DEF UpdateKinds
  <2>4. srv'[k] = "discarded" /\ \A j \in Calls \ {k} : srv'[j] = srv[j]
    BY <1>3, <2>1
  <2>5. k \in Outgoing => asking[k] # "idle"
    BY <1>2, <2>1, <2>2
  <2> QED
    BY <1>1, <2>1, <2>3, <2>4, <2>5, ServerStepOInv
<1>8. ASSUME NEW k \in Calls, ServerRings(k) PROVE OInv'
  <2>1. /\ k \notin Outgoing /\ srv[k] = "none"
        /\ srv' = [srv EXCEPT ![k] = "requested"]
        /\ Emit(Upd("requested", k, "REMOTE_HANGUP"))
    BY <1>8, CallSetsAssumption DEF ServerRings
  <2>2. \E u \in Update : u.call = k /\ Emit(u) /\ ~IsEnd(u)
    BY <2>1, <1>4 DEF UpdateKinds, DiscardReasons
  <2>3. srv'[k] = "requested" /\ \A j \in Calls \ {k} : srv'[j] = srv[j]
    BY <1>3, <2>1
  <2>4. \E u \in Update : /\ u.call = k /\ Emit(u)
                          /\ IsEnd(u) => srv'[k] = "discarded"
                          /\ IsRing(u) => srv[k] # "discarded"
    BY <2>1, <2>2
  <2> QED
    BY <1>1, <2>1, <2>3, <2>4, ServerStepOInv
<1>9. ASSUME NEW k \in Calls, ServerProgress(k) PROVE OInv'
  <2>1. /\ srv[k] \in {"requested", "accepted"}
        /\ \E st \in {"accepted", "active"} : srv' = [srv EXCEPT ![k] = st]
        /\ \E kind \in {"accepted", "established"} :
              Emit(Upd(kind, k, "REMOTE_HANGUP"))
    BY <1>9 DEF ServerProgress
  <2>2. \E u \in Update : u.call = k /\ Emit(u) /\ ~IsEnd(u) /\ ~IsRing(u)
    BY <2>1, <1>4 DEF UpdateKinds, DiscardReasons
  <2>3. srv'[k] # "none" /\ \A j \in Calls \ {k} : srv'[j] = srv[j]
    BY <2>1, <1>3
  <2>4. k \in Outgoing => asking[k] # "idle"
    BY <1>2, <2>1
  <2> QED
    BY <1>1, <2>1, <2>2, <2>3, <2>4, ServerStepOInv
<1>10. ASSUME NEW k \in Calls, ServerDiscards(k) PROVE OInv'
  <2>1. /\ srv[k] \in {"requested", "accepted", "active"}
        /\ srv' = [srv EXCEPT ![k] = "discarded"]
        /\ \E kind \in {"discarded", "empty"}, why \in DiscardReasons :
              Emit(Upd(kind, k, why))
    BY <1>10 DEF ServerDiscards
  <2>2. \E u \in Update : u.call = k /\ Emit(u) /\ IsEnd(u) /\ ~IsRing(u)
    BY <2>1, <1>4 DEF UpdateKinds
  <2>3. srv'[k] = "discarded" /\ \A j \in Calls \ {k} : srv'[j] = srv[j]
    BY <1>3, <2>1
  <2>4. k \in Outgoing => asking[k] # "idle"
    BY <1>2, <2>1
  <2> QED
    BY <1>1, <2>2, <2>3, <2>4, ServerStepOInv
<1>11. ASSUME NEW k \in Calls, ServerRepeats(k) PROVE OInv'
  <2>1. srv[k] \in {"none", "requested", "accepted", "active", "discarded"}
    BY DEF TInv, TypeOK
  <2>2. /\ srv[k] # "none" /\ srv' = srv
        /\ \E kind \in UpdateKinds :
              /\ Emit(Upd(kind, k, "REMOTE_HANGUP"))
              /\ kind \in {"discarded", "empty"} => srv[k] = "discarded"
              /\ kind \in {"requested", "waiting"} => srv[k] = "requested"
    BY <1>11, <2>1 DEF ServerRepeats, UpdateKinds
  <2>3. \E u \in Update : /\ u.call = k /\ Emit(u)
                          /\ IsEnd(u) => srv[k] = "discarded"
                          /\ IsRing(u) => srv[k] # "discarded"
    BY <2>2, <1>4 DEF DiscardReasons
  <2> QED
    BY <1>1, <1>2, <2>2, <2>3, ServerStepOInv
<1> QED
  BY <1>5, <1>6, <1>7, <1>8, <1>9, <1>10, <1>11 DEF ServerSteps

LEMMA NextOInv == TInv /\ RInv /\ OInv /\ [Next]_vars => OInv'
<1> SUFFICES ASSUME TInv, RInv, OInv, [Next]_vars PROVE OInv'
  OBVIOUS
<1>1. TInv' /\ \A s \in Sessions : Forward(s)
  BY NextTInv, NextForward
<1>2. CASE UNCHANGED vars
  BY <1>1, <1>2, SessionStepOInv DEF vars, sessionVars, loopVars, histVars
<1> QED
  BY <1>1, <1>2, LoopOInv, UserOInv, ServerOInv DEF Next

(***************************************************************************)
(* Whatever operations are in flight, an end that the loop has handled has *)
(* ended the session in the table, but for an end that came before call()  *)
(* returned and a call that never rang here (_handle_update_phone_call,    *)
(* call()).  The queue keeps the updates of a call in order, so none that  *)
(* could ring follows its end.                                             *)
(***************************************************************************)
THEOREM EndsCorrect == Spec => []EndsTakeEffect
<1>1. Init => RInv
  BY DEF Init, RInv, Rung
<1>2. Init => OInv
  <2> SUFFICES ASSUME Init PROVE OInv
    OBVIOUS
  <2>1. /\ ended = {} /\ DOMAIN queue = {}
        /\ \A k \in Outgoing : asking[k] = "idle"
        /\ \A k \in Calls : srv[k] = "none"
        /\ \A s \in Sessions : state[s] = "absent"
    BY DEF Init
  <2>2. Unheard
    BY <2>1 DEF Unheard, Calls
  <2>3. RingsFirst /\ Called /\ EndsTakeEffect
    BY <2>1 DEF RingsFirst, Called, EndsTakeEffect
  <2> QED
    BY <2>2, <2>3 DEF OInv
<1>3. OInv => EndsTakeEffect
  BY DEF OInv
<1> QED
  BY <1>1, <1>2, <1>3, NextRInv, NextOInv, TypeInductive, PTL DEF Spec

=============================================================================
