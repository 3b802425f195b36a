---------------------------- MODULE CallSessions ----------------------------
(***************************************************************************)
(* CallsManager and CallSession (client/calls/manager.py, session.py,      *)
(* state.py): the sessions of phone calls, moved by the user's operations, *)
(* each awaiting requests to the server, and by the updates loop, a task   *)
(* that takes the server's updates one at a time and awaits the user's     *)
(* incoming-call handlers.                                                 *)
(*                                                                         *)
(* A session is named by its phone call and by who made it: the updates    *)
(* loop on the first update about the call, or call() when its request has *)
(* been answered.  Both can exist for one call; the table _sessions holds  *)
(* one of them.  The access hash, the time stamps, the signaling data and  *)
(* the protocol parameters are left out.                                   *)
(*                                                                         *)
(* _updates_loop fails a session when handling an update raises; no update *)
(* the codec produces makes it raise, so that branch is left out.          *)
(***************************************************************************)
EXTENDS Integers, Sequences, FiniteSets

CONSTANTS
    Incoming,     \* phone calls others place to the user
    Outgoing,     \* phone calls the user places with call()
    AutoAccept,   \* incoming calls whose handler awaits session.accept()
    SelfIdKnown,  \* whether raw.self_user_id is set
    QueueSize,    \* maxsize of the manager's updates queue
    MaxCalls,     \* bound: phone calls that are begun
    MaxRepeats,   \* bound: updates the server sends beyond one per change
    MaxStops      \* bound: how often stop() is called

ASSUME CallSetsAssumption ==
    Incoming \cap Outgoing = {} /\ AutoAccept \subseteq Incoming
ASSUME SizesAssumption ==
    /\ SelfIdKnown \in BOOLEAN /\ QueueSize \in Nat /\ MaxRepeats \in Nat
    /\ MaxCalls \in Nat /\ MaxStops \in Nat

Calls == Incoming \cup Outgoing

\* The sessions there can be: one of the loop's per call, one of call()'s.
Sessions == (Calls \X {"loop"}) \cup (Outgoing \X {"call"})

VARIABLES
    state,      \* CallSession.state; "absent" until the session is made
    reason,     \* CallSession.end_reason
    incoming,   \* CallSession.incoming
    ends,       \* history: how often state handlers heard of a terminal state
    table,      \* _sessions: call -> who made the session in it, or "none"
    running,    \* whether the updates task runs, with its subscription
    queue,      \* _updates_q
    handling,   \* the sessions whose incoming handlers the loop awaits (0 or 1)
    op,         \* the user's operations on sessions, by phase
    asking,     \* phase of call() for an outgoing call
    srv,        \* what the server has made of the phone call
    repeats,    \* surplus updates the server may still send
    stops,      \* calls of stop() still to come
    announced,  \* history: how often incoming handlers were run for a call
    lost,       \* history: calls an update of which was not queued
    ended,      \* history: calls whose end the loop has handled
    overtaken   \* history: outgoing calls whose end came before call() returned

sessionVars == <<state, reason, incoming, ends>>
loopVars == <<running, queue, handling, stops>>
histVars == <<announced, lost, ended, overtaken>>
vars == <<sessionVars, table, loopVars, op, asking, srv, repeats, histVars>>

-----------------------------------------------------------------------------
(* state.py                                                                *)

Terminal == {"ENDED", "FAILED"}

CallStates == {"IDLE", "RINGING_IN", "OUTGOING_INIT", "CONNECTING", "IN_CALL",
               "DISCONNECTING"} \cup Terminal

\* Variant: a session that is being hung up waits for its own request.
ClosedTransitions ==
    [IDLE |-> {"RINGING_IN", "OUTGOING_INIT", "FAILED"},
     RINGING_IN |-> {"CONNECTING", "DISCONNECTING", "ENDED", "FAILED"},
     OUTGOING_INIT |-> {"CONNECTING", "DISCONNECTING", "ENDED", "FAILED"},
     CONNECTING |-> {"IN_CALL", "DISCONNECTING", "ENDED", "FAILED"},
     IN_CALL |-> {"DISCONNECTING", "ENDED", "FAILED"},
     DISCONNECTING |-> {"FAILED"},
     ENDED |-> {},
     FAILED |-> {}]

AllowedTransitions ==
    [IDLE |-> {"RINGING_IN", "OUTGOING_INIT", "FAILED"},
     RINGING_IN |-> {"CONNECTING", "DISCONNECTING", "ENDED", "FAILED"},
     OUTGOING_INIT |-> {"CONNECTING", "DISCONNECTING", "ENDED", "FAILED"},
     CONNECTING |-> {"IN_CALL", "DISCONNECTING", "ENDED", "FAILED"},
     IN_CALL |-> {"DISCONNECTING", "ENDED", "FAILED"},
     DISCONNECTING |-> {"ENDED", "FAILED"},
     ENDED |-> {},
     FAILED |-> {}]

\* A state can always be entered from itself, a terminal one too.
CanTransition(from, to) == from = to \/ to \in AllowedTransitions[from]

EndReasons == {"LOCAL_HANGUP", "REMOTE_HANGUP", "REJECTED", "BUSY", "MISSED",
               "FAILED_INTERNAL"}

\* _map_discard_reason: the reasons an update can carry.
DiscardReasons == {"BUSY", "MISSED", "REMOTE_HANGUP"}

-----------------------------------------------------------------------------
(* session.py                                                              *)

\* _transition_if_allowed from one state; nothing happens if it is not.
After(from, to) == IF CanTransition(from, to) THEN to ELSE from

\* _transition tells the state handlers, also when the state stays the same.
Told(n, from, to) ==
    IF to \in Terminal /\ CanTransition(from, to) THEN n + 1 ELSE n

\* The state an operation finds; a session made on the spot is IDLE.
Found(s) == IF state[s] = "absent" THEN "IDLE" ELSE state[s]

TransitionIfAllowed(s, to) ==
    /\ state' = [state EXCEPT ![s] = After(Found(s), to)]
    /\ ends' = [ends EXCEPT ![s] = Told(@, Found(s), to)]

\* _set_failed: end_reason and state of a session that has not ended.
SetFailed(s) ==
    IF state[s] \in Terminal
    THEN UNCHANGED <<state, reason, ends>>
    ELSE /\ state' = [state EXCEPT ![s] = "FAILED"]
         /\ reason' = [reason EXCEPT ![s] = "FAILED_INTERNAL"]
         /\ ends' = [ends EXCEPT ![s] = @ + 1]

-----------------------------------------------------------------------------
(* Updates on their way to the manager.                                    *)

UpdateKinds == {"requested", "waiting", "accepted", "established",
                "discarded", "empty"}

Update == [kind : UpdateKinds, call : Calls, reason : DiscardReasons]

Upd(kind, k, why) == [kind |-> kind, call |-> k, reason |-> why]

\* The client's fan-out: a full queue, or none, loses the update.
Emit(u) ==
    IF running /\ Len(queue) < QueueSize
    THEN queue' = Append(queue, u) /\ UNCHANGED lost
    ELSE lost' = lost \cup {u.call} /\ UNCHANGED queue

NoEmit == UNCHANGED <<queue, lost>>

\* Only so many phone calls are begun, by the others or with call().
Begun == {k \in Incoming : srv[k] # "none"}
         \cup {k \in Outgoing : asking[k] # "idle"}
MayBegin == Cardinality(Begun) < MaxCalls

-----------------------------------------------------------------------------
Init ==
    /\ state = [s \in Sessions |-> "absent"]
    /\ reason = [s \in Sessions |-> "none"]
    /\ incoming = [s \in Sessions |-> FALSE]
    /\ ends = [s \in Sessions |-> 0]
    /\ table = [k \in Calls |-> "none"]
    /\ running = FALSE
    /\ queue = <<>>
    /\ handling = {}
    /\ op = [s \in Sessions |-> [accept |-> "idle", reject |-> "idle",
                                 hangup |-> "idle"]]
    /\ asking = [k \in Outgoing |-> "idle"]
    /\ srv = [k \in Calls |-> "none"]
    /\ repeats = MaxRepeats
    /\ stops = MaxStops
    /\ announced = [k \in Calls |-> 0]
    /\ lost = {}
    /\ ended = {}
    /\ overtaken = {}

-----------------------------------------------------------------------------
(* start() and stop()                                                      *)

Start ==
    /\ ~running
    /\ running' = TRUE
    /\ UNCHANGED <<sessionVars, table, queue, handling, stops, op, asking,
                   srv, repeats, histVars>>

\* The task is cancelled wherever it is, the handler it awaits with it.
Stop ==
    /\ running
    /\ stops > 0
    /\ stops' = stops - 1
    /\ running' = FALSE
    /\ queue' = <<>>
    /\ lost' = lost \cup {queue[i].call : i \in DOMAIN queue}
    /\ handling' = {}
    /\ op' = [s \in Sessions |->
                IF s \in handling /\ s[1] \in AutoAccept
                THEN [op[s] EXCEPT !.accept = "failed"] ELSE op[s]]
    /\ UNCHANGED <<sessionVars, table, asking, srv, repeats, announced,
                   ended, overtaken>>

-----------------------------------------------------------------------------
(* The updates loop: _updates_loop, _handle_update_phone_call.             *)

\* The session an update is for: the one in the table, or a new one.
SessionOf(k) == IF table[k] = "none" THEN <<k, "loop">> ELSE <<k, table[k]>>

\* Variant: the parties are not looked at.
IsIncomingByKind(u) == u.kind \in {"requested", "waiting"}

(***************************************************************************)
(* _is_incoming_call: only the first two kinds tell the parties, and with  *)
(* the own user id unknown every such call is taken for an incoming one.   *)
(***************************************************************************)
IsIncomingCall(u) ==
    /\ u.kind \in {"requested", "waiting"}
    /\ u.call \in Incoming \/ ~SelfIdKnown

IsIncoming(s, u) ==
    IF state[s] = "absent" THEN IsIncomingCall(u) ELSE incoming[s]

\* Variant: every request of an incoming call rings.
RingsAgain(s, u) ==
    /\ u.kind \in {"requested", "waiting"}
    /\ IsIncoming(s, u)

Rings(s, u) ==
    /\ u.kind \in {"requested", "waiting"}
    /\ IsIncoming(s, u)
    /\ Found(s) = "IDLE"

\* The next update is taken; its session is looked up or made.
TakeUpdate(kinds) ==
    /\ running
    /\ handling = {}
    /\ queue # <<>>
    /\ Head(queue).kind \in kinds
    /\ queue' = Tail(queue)
    /\ LET u == Head(queue)
           s == SessionOf(u.call)
       IN  /\ table' = [table EXCEPT ![u.call] = s[2]]
           /\ incoming' = [incoming EXCEPT ![s] = IsIncoming(s, u)]
    /\ UNCHANGED <<running, stops, asking, srv, repeats, lost>>

\* Variant: an awaiting handler becomes a task of its own.
HandleRingingDetached ==
    /\ TakeUpdate({"requested", "waiting"})
    /\ LET u == Head(queue)
           s == SessionOf(u.call)
       IN  /\ Rings(s, u)
           /\ TransitionIfAllowed(s, "RINGING_IN")
           /\ announced' = [announced EXCEPT ![u.call] = @ + 1]
           /\ handling' = IF u.call \in AutoAccept THEN {} ELSE {s}
           /\ op' = IF u.call \in AutoAccept
                    THEN [op EXCEPT ![s].accept = "receiving"] ELSE op
    /\ UNCHANGED <<reason, ended, overtaken>>

\* A call that rings: the handlers run before the next update is taken.
HandleRinging ==
    /\ TakeUpdate({"requested", "waiting"})
    /\ LET u == Head(queue)
           s == SessionOf(u.call)
       IN  /\ Rings(s, u)
           /\ TransitionIfAllowed(s, "RINGING_IN")
           /\ announced' = [announced EXCEPT ![u.call] = @ + 1]
           /\ handling' = handling \cup {s}
           /\ op' = IF u.call \in AutoAccept
                    THEN [op EXCEPT ![s].accept = "receiving"] ELSE op
    /\ UNCHANGED <<reason, ended, overtaken>>

\* An outgoing session is connecting at the latest; others stay as they are.
HandleRequested ==
    /\ TakeUpdate({"requested", "waiting"})
    /\ LET u == Head(queue)
           s == SessionOf(u.call)
       IN  /\ ~Rings(s, u)
           /\ IF ~IsIncoming(s, u) /\ Found(s) \in {"IDLE", "OUTGOING_INIT"}
              THEN TransitionIfAllowed(s, "CONNECTING")
              ELSE state' = [state EXCEPT ![s] = Found(s)] /\ UNCHANGED ends
    /\ UNCHANGED <<reason, handling, op, announced, ended, overtaken>>

HandleProgress ==
    /\ TakeUpdate({"accepted", "established"})
    /\ LET u == Head(queue)
       IN  TransitionIfAllowed(SessionOf(u.call),
              IF u.kind = "accepted" THEN "CONNECTING" ELSE "IN_CALL")
    /\ UNCHANGED <<reason, handling, op, announced, ended, overtaken>>

\* Variant: the latest reason wins.
HandleDiscardedAnew ==
    /\ TakeUpdate({"discarded", "empty"})
    /\ LET u == Head(queue)
           s == SessionOf(u.call)
       IN  /\ reason' = [reason EXCEPT ![s] = IF u.kind = "empty"
                                              THEN "REMOTE_HANGUP" ELSE u.reason]
           /\ TransitionIfAllowed(s, "ENDED")
           /\ ended' = ended \cup {u.call}
           /\ overtaken' = IF u.call \in Outgoing /\ asking[u.call] = "asked"
                           THEN overtaken \cup {u.call} ELSE overtaken
    /\ UNCHANGED <<handling, op, announced>>

\* The first reason stays; a call that is still IDLE does not end.
HandleDiscarded ==
    /\ TakeUpdate({"discarded", "empty"})
    /\ LET u == Head(queue)
           s == SessionOf(u.call)
           why == IF u.kind = "empty" THEN "REMOTE_HANGUP" ELSE u.reason
       IN  /\ reason' = [reason EXCEPT ![s] = IF @ = "none" THEN why ELSE @]
           /\ TransitionIfAllowed(s, "ENDED")
           /\ ended' = ended \cup {u.call}
           /\ overtaken' = IF u.call \in Outgoing /\ asking[u.call] = "asked"
                           THEN overtaken \cup {u.call} ELSE overtaken
    /\ UNCHANGED <<handling, op, announced>>

\* _emit_incoming: a handler that does not wait for an operation returns,
HandlerReturns(s) ==
    /\ s \in handling /\ s[1] \notin AutoAccept
    /\ handling' = {}
    /\ UNCHANGED <<sessionVars, table, running, queue, stops, op, asking, srv,
                   repeats, histVars>>

\* or raises, which fails the session it was called with; call() may have
\* put another one in the table meanwhile.
HandlerRaises(s) ==
    /\ s \in handling /\ s[1] \notin AutoAccept
    /\ handling' = {}
    /\ SetFailed(s)
    /\ UNCHANGED <<incoming, table, running, queue, stops, op, asking, srv,
                   repeats, histVars>>

-----------------------------------------------------------------------------
(* call(): the request, the server's part, the answer.                     *)

\* Variant: the session is entered in the table when the call is asked for.
RequestCallEarly(k) ==
    /\ asking[k] = "idle" /\ MayBegin
    /\ asking' = [asking EXCEPT ![k] = "asked"]
    /\ table' = [table EXCEPT ![k] = "call"]
    /\ running' = TRUE
    /\ UNCHANGED <<sessionVars, queue, handling, stops, op, srv, repeats,
                   histVars>>

RequestCall(k) ==
    /\ asking[k] = "idle" /\ MayBegin
    /\ asking' = [asking EXCEPT ![k] = "asked"]
    /\ running' = TRUE
    /\ UNCHANGED <<sessionVars, table, queue, handling, stops, op, srv,
                   repeats, histVars>>

ServerCreates(k) ==
    /\ asking[k] = "asked"
    /\ srv[k] = "none"
    /\ srv' = [srv EXCEPT ![k] = "requested"]
    /\ UNCHANGED <<sessionVars, table, loopVars, op, asking, repeats, histVars>>

\* The session replaces one the updates loop may have made meanwhile.
CallReturns(k) ==
    /\ asking[k] = "asked"
    /\ srv[k] # "none"
    /\ asking' = [asking EXCEPT ![k] = "done"]
    /\ table' = [table EXCEPT ![k] = "call"]
    /\ incoming' = [incoming EXCEPT ![<<k, "call">>] = FALSE]
    /\ state' = [state EXCEPT ![<<k, "call">>] =
                   After("OUTGOING_INIT", "CONNECTING")]
    /\ UNCHANGED <<reason, ends, loopVars, op, srv, repeats, histVars>>

CallFails(k) ==
    /\ asking[k] = "asked"
    /\ asking' = [asking EXCEPT ![k] = "failed"]
    /\ UNCHANGED <<sessionVars, table, loopVars, op, srv, repeats, histVars>>

-----------------------------------------------------------------------------
(* accept(), reject() and hangup(), on any session the user can hold.      *)

Exists(s) == state[s] # "absent"

\* Only changes of op, besides what the operation does to the session.
OpStep(s, name, from, to) ==
    /\ op[s][name] = from
    /\ op' = [op EXCEPT ![s][name] = to]
    /\ UNCHANGED <<table, incoming, running, stops, asking, repeats, announced,
                   ended, overtaken>>

Accept(s) ==
    /\ Exists(s)
    /\ s[1] \in Incoming \ AutoAccept
    /\ OpStep(s, "accept", "idle", "receiving")
    /\ UNCHANGED <<state, reason, ends, queue, lost, handling, srv>>

\* phone.receivedCall is answered; phone.acceptCall is sent.
CallReceived(s) ==
    /\ OpStep(s, "accept", "receiving", "accepting")
    /\ UNCHANGED <<state, reason, ends, queue, lost, handling, srv>>

ServerAccepts(s) ==
    /\ srv[s[1]] = "requested"
    /\ OpStep(s, "accept", "accepting", "accepted")
    /\ srv' = [srv EXCEPT ![s[1]] = "accepted"]
    /\ UNCHANGED <<state, reason, ends, queue, lost, handling>>

\* Variant: the answer of the accept is believed whatever has happened since.
AcceptReturnsUnasked(s) ==
    /\ OpStep(s, "accept", "accepted", "done")
    /\ state' = [state EXCEPT ![s] = "CONNECTING"]
    /\ handling' = IF s[1] \in AutoAccept THEN {} ELSE handling
    /\ UNCHANGED <<reason, ends, queue, lost, srv>>

\* An awaiting handler is over together with the accept() it awaits.
AcceptReturns(s) ==
    /\ OpStep(s, "accept", "accepted", "done")
    /\ TransitionIfAllowed(s, "CONNECTING")
    /\ handling' = IF s[1] \in AutoAccept THEN {} ELSE handling
    /\ UNCHANGED <<reason, queue, lost, srv>>

\* Variant: the failure of the handler's accept does not reach the loop.
AcceptFailsUnseen(s) ==
    /\ op[s].accept \in {"receiving", "accepting", "accepted"}
    /\ OpStep(s, "accept", op[s].accept, "failed")
    /\ UNCHANGED <<handling, state, reason, ends, queue, lost, srv>>

\* An error or a timeout, also of a request the server has carried out.
AcceptFails(s) ==
    /\ op[s].accept \in {"receiving", "accepting", "accepted"}
    /\ OpStep(s, "accept", op[s].accept, "failed")
    /\ IF s[1] \in AutoAccept
       THEN handling' = {} /\ SetFailed(s)
       ELSE UNCHANGED <<handling, state, reason, ends>>
    /\ UNCHANGED <<queue, lost, srv>>

\* reject and hangup differ in the reasons only.
Discards == {"reject", "hangup"}

Discard(s, name) ==
    /\ Exists(s)
    /\ name = "reject" => s[1] \in Incoming
    /\ OpStep(s, name, "idle", "discarding")
    /\ TransitionIfAllowed(s, "DISCONNECTING")
    /\ UNCHANGED <<reason, queue, lost, handling, srv>>

\* The server ends the call and may send this client the update as well.
ServerDiscardsFor(s, name) ==
    /\ OpStep(s, name, "discarding", "discarded")
    /\ srv' = [srv EXCEPT ![s[1]] = "discarded"]
    /\ \/ /\ srv[s[1]] # "discarded"
          /\ \E why \in DiscardReasons : Emit(Upd("discarded", s[1], why))
       \/ NoEmit
    /\ UNCHANGED <<state, reason, ends, handling>>

LocalReason(name) == IF name = "reject" THEN "REJECTED" ELSE "LOCAL_HANGUP"

\* Variant: a reject leaves the reason to the server's update.
DiscardReturnsMute(s, name) ==
    /\ OpStep(s, name, "discarded", "done")
    /\ reason' = IF name = "reject" THEN reason
                 ELSE [reason EXCEPT ![s] = LocalReason(name)]
    /\ TransitionIfAllowed(s, "ENDED")
    /\ UNCHANGED <<queue, lost, handling, srv>>

DiscardReturns(s, name) ==
    /\ OpStep(s, name, "discarded", "done")
    /\ reason' = [reason EXCEPT ![s] = LocalReason(name)]
    /\ TransitionIfAllowed(s, "ENDED")
    /\ UNCHANGED <<queue, lost, handling, srv>>

DiscardFails(s, name) ==
    /\ op[s][name] \in {"discarding", "discarded"}
    /\ OpStep(s, name, op[s][name], "failed")
    /\ UNCHANGED <<state, reason, ends, queue, lost, handling, srv>>

-----------------------------------------------------------------------------
(* The server and the other party, as far as the code relies on them.      *)

ServerStep(k) ==
    UNCHANGED <<sessionVars, table, running, handling, stops, op, asking,
                announced, ended, overtaken>>

ServerRings(k) ==
    /\ k \in Incoming
    /\ srv[k] = "none" /\ MayBegin
    /\ srv' = [srv EXCEPT ![k] = "requested"]
    /\ Emit(Upd("requested", k, "REMOTE_HANGUP"))
    /\ UNCHANGED repeats
    /\ ServerStep(k)

\* The callee takes an outgoing call; the parties of a call are connected.
ServerProgress(k) ==
    /\ \/ /\ k \in Outgoing /\ srv[k] = "requested"
          /\ srv' = [srv EXCEPT ![k] = "accepted"]
          /\ Emit(Upd("accepted", k, "REMOTE_HANGUP"))
       \/ /\ srv[k] = "accepted"
          /\ srv' = [srv EXCEPT ![k] = "active"]
          /\ Emit(Upd("established", k, "REMOTE_HANGUP"))
    /\ UNCHANGED repeats
    /\ ServerStep(k)

\* The other party hangs up, or the server gives up.
ServerDiscards(k) ==
    /\ srv[k] \in {"requested", "accepted", "active"}
    /\ srv' = [srv EXCEPT ![k] = "discarded"]
    /\ \E kind \in {"discarded", "empty"}, why \in DiscardReasons :
          Emit(Upd(kind, k, why))
    /\ UNCHANGED repeats
    /\ ServerStep(k)

\* An update about the call as it stands, once more or at last.
ServerRepeats(k) ==
    /\ repeats > 0
    /\ repeats' = repeats - 1
    /\ \E kind \in CASE srv[k] = "none" -> {}
                     [] srv[k] = "requested" ->
                          IF k \in Incoming THEN {"requested"} ELSE {"waiting"}
                     [] srv[k] = "accepted" ->
                          IF k \in Incoming THEN {} ELSE {"accepted"}
                     [] srv[k] = "active" -> {"established"}
                     [] srv[k] = "discarded" -> {"discarded"} :
          Emit(Upd(kind, k, "REMOTE_HANGUP"))
    /\ UNCHANGED srv
    /\ ServerStep(k)

-----------------------------------------------------------------------------
LoopSteps ==
    \/ HandleRinging \/ HandleRequested \/ HandleProgress \/ HandleDiscarded
    \/ \E s \in Sessions : HandlerReturns(s) \/ HandlerRaises(s)

\* The end of an operation, by its answer or by an exception.
OpEnds(s) ==
    \/ CallReceived(s) \/ AcceptReturns(s) \/ AcceptFails(s)
    \/ \E name \in Discards : DiscardReturns(s, name) \/ DiscardFails(s, name)

UserSteps ==
    \/ Start \/ Stop
    \/ \E k \in Outgoing : RequestCall(k) \/ CallReturns(k) \/ CallFails(k)
    \/ \E s \in Sessions :
          Accept(s) \/ OpEnds(s) \/ \E name \in Discards : Discard(s, name)

ServerSteps ==
    \/ \E k \in Outgoing : ServerCreates(k)
    \/ \E s \in Sessions :
          ServerAccepts(s) \/ \E name \in Discards : ServerDiscardsFor(s, name)
    \/ \E k \in Calls : ServerRings(k) \/ ServerProgress(k)
                        \/ ServerDiscards(k) \/ ServerRepeats(k)

Next == LoopSteps \/ UserSteps \/ ServerSteps

Spec == Init /\ [][Next]_vars

(***************************************************************************)
(* The updates task runs when it can, handlers return, and every request   *)
(* is answered or fails (EveryCallReturns of RpcSender).  Neither the user *)
(* nor the server has to do anything.                                      *)
(***************************************************************************)
Fairness ==
    /\ WF_vars(LoopSteps)
    /\ \A s \in Sessions : WF_vars(OpEnds(s))

FairSpec == Spec /\ Fairness

-----------------------------------------------------------------------------
Phases == {"idle", "receiving", "accepting", "accepted", "discarding",
           "discarded", "done", "failed"}

(***************************************************************************)
(* The state is well-typed; the table names sessions that exist, and the   *)
(* loop awaits the handler of at most one call.                            *)
(***************************************************************************)
TypeOK ==
    /\ state \in [Sessions -> CallStates \cup {"absent"}]
    /\ reason \in [Sessions -> EndReasons \cup {"none"}]
    /\ incoming \in [Sessions -> BOOLEAN]
    /\ ends \in [Sessions -> Nat]
    /\ table \in [Calls -> {"none", "loop", "call"}]
    /\ \A k \in Calls : table[k] # "none" =>
          /\ <<k, table[k]>> \in Sessions
          /\ state[<<k, table[k]>>] # "absent"
    /\ running \in BOOLEAN
    /\ queue \in Seq(Update)
    /\ handling \subseteq Sessions
    /\ \A s, t \in handling : s = t
    /\ op \in [Sessions -> [accept : Phases, reject : Phases, hangup : Phases]]
    /\ asking \in [Outgoing -> {"idle", "asked", "done", "failed"}]
    /\ srv \in [Calls -> {"none", "requested", "accepted", "active",
                          "discarded"}]
    /\ repeats \in 0 .. MaxRepeats
    /\ stops \in 0 .. MaxStops
    /\ announced \in [Calls -> Nat]
    /\ lost \subseteq Calls
    /\ ended \subseteq Calls
    /\ overtaken \subseteq Outgoing

Rank(st) ==
    CASE st = "absent" -> 0
      [] st = "IDLE" -> 1
      [] st \in {"RINGING_IN", "OUTGOING_INIT"} -> 2
      [] st = "CONNECTING" -> 3
      [] st = "IN_CALL" -> 4
      [] st = "DISCONNECTING" -> 5
      [] st \in Terminal -> 6

(***************************************************************************)
(* A session only moves forward and never leaves ENDED or FAILED, although *)
(* accept, hangup and the updates loop finish in any order: the answer of  *)
(* an accept that was overtaken by a hangup or a discard revives nothing   *)
(* (_transition_if_allowed, _set_failed).                                  *)
(***************************************************************************)
NeverGoesBack ==
    [][\A s \in Sessions :
          /\ Rank(state'[s]) >= Rank(state[s])
          /\ state[s] \in Terminal => state'[s] = state[s]]_vars

(***************************************************************************)
(* The incoming handlers run once per phone call, however often the        *)
(* server repeats its update and the manager is stopped and started, and   *)
(* never for a call of the user's own while the own id is known            *)
(* (_handle_update_phone_call, _is_incoming_call).                         *)
(***************************************************************************)
AnnouncedOnce ==
    \A k \in Calls :
        /\ announced[k] <= 1
        /\ announced[k] = 1 /\ SelfIdKnown => k \in Incoming

(***************************************************************************)
(* An end reason, once there, is replaced only by the outcome of the       *)
(* user's own reject or hangup, or when the session fails before its end:  *)
(* the server's update about a call hung up here does not turn it into a   *)
(* remote hangup (_handle_update_phone_call against reject and hangup).    *)
(***************************************************************************)
ReasonsStand ==
    [][\A s \in Sessions :
          reason[s] # "none" /\ reason'[s] # reason[s] =>
              \/ \E name \in Discards : op[s][name] = "discarded"
                                        /\ op'[s][name] = "done"
              \/ state[s] \notin Terminal /\ state'[s] = "FAILED"]_vars

(***************************************************************************)
(* A session that has ended says why, and its state handlers have heard of *)
(* it, on every path to an end: operation, update or failing handler.      *)
(***************************************************************************)
EndsAreExplained ==
    \A s \in Sessions :
        state[s] \in Terminal => reason[s] # "none" /\ ends[s] >= 1

(***************************************************************************)
(* The end of a call, once the loop has handled it, has ended the session  *)
(* in the table, whatever operations were in flight; except when it came   *)
(* before call() had returned, or for a call that never rang here.         *)
(***************************************************************************)
EndsTakeEffect ==
    \A k \in ended :
        \/ state[SessionOf(k)] \in Terminal
        \/ k \in Outgoing /\ (k \in overtaken \/ asking[k] # "done")
        \/ k \in Incoming /\ announced[k] = 0

\* The server's word that the call is over waits in the queue.
EndQueued(k) ==
    \E i \in DOMAIN queue : /\ queue[i].call = k
                            /\ queue[i].kind \in {"discarded", "empty"}

\* The user has met the call: it rang, or call() has returned it.
Known(k) ==
    \/ announced[k] > 0
    \/ k \in Outgoing /\ asking[k] = "done"

(***************************************************************************)
(* The end of a call that rang here, or that call() has returned, ends its *)
(* session in time: neither a handler nor an operation in flight can hold  *)
(* the updates loop for ever.                                              *)
(***************************************************************************)
QueuedEndsArrive ==
    \A k \in Calls :
        EndQueued(k) /\ Known(k)
            ~> state[SessionOf(k)] \in Terminal \/ k \in lost

(***************************************************************************)
(* A call accepted inside its incoming handler is connected when the       *)
(* server says so: the loop waits for the accept, so "established" cannot  *)
(* find the session ringing still.                                         *)
(***************************************************************************)
AcceptedInHandlerConnects ==
    \A k \in AutoAccept :
        (/\ \E i \in DOMAIN queue : /\ queue[i].call = k
                                    /\ queue[i].kind = "established"
         /\ announced[k] > 0
         /\ stops = MaxStops)
            ~> \/ state[<<k, "loop">>] \in {"IN_CALL", "DISCONNECTING"} \cup Terminal
               \/ k \in lost

=============================================================================
