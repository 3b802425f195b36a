--------------------------- MODULE ClientLifecycle ---------------------------
(***************************************************************************)
(* The life of a client's connection and of its updates: connect, close,   *)
(* start_updates and stop_updates of MtprotoClient (client/mtproto.py),    *)
(* Client.connect and Client.close over them (client/client.py) and the    *)
(* start and stop of the calls manager (client/calls/manager.py), called   *)
(* by several tasks and cut by failures, cancellations and a crash of the  *)
(* process.                                                                *)
(*                                                                         *)
(* A step is what a task does between two awaits that may suspend it: the  *)
(* dial, the key exchange, a request, the end of a task it has cancelled,  *)
(* the closing of a socket.  A local wait may last any number of passes of *)
(* the event loop, and so may be longer here than it is in the program.    *)
(***************************************************************************)
EXTENDS Integers, FiniteSets

CONSTANTS
    Tasks,       \* the caller's tasks
    MaxConns,    \* bound: connections dialled
    MaxLoops,    \* bound: updates loops started
    MaxMisuses,  \* bound: kinds of misuse in one behaviour
    MaxCancels,  \* bound: cancellations of a caller's task
    MaxCrashes   \* bound: crashes of the process

ASSUME BoundsAssumption ==
    /\ MaxConns \in Nat \ {0} /\ MaxLoops \in Nat \ {0}
    /\ MaxMisuses \in Nat /\ MaxCancels \in Nat /\ MaxCrashes \in Nat

Conns == 1 .. MaxConns
Loops == 1 .. MaxLoops
None == 0      \* no connection, no loop, no key, no owner of the engine

VARIABLES
    task,      \* of a task: where it waits (pc), on what (at), for whom (goal)
    dialled,   \* how many connections have been dialled
    sock,      \* the socket of a connection, as its TcpTransport knows it
    sender,    \* its MtprotoEncryptedSender
    keyOf,     \* its authorization key, named after the exchange that made it
    cur,       \* _transport, _sender, _state, _incoming: set and cleared at once
    didInit,   \* _did_init_connection
    file,      \* the key in the session file
    updTask,   \* _updates_task
    loops,     \* the tasks that run _updates_loop
    feed,      \* the connection whose incoming queue a loop waits for
    engine,    \* _updates_engine: the task that made it, and whether it is
    ready,     \*   initialised
    saved,     \* whether there is a file with the updates state
    calls,     \* the calls manager: "off", "on" or "stopping"
    subbed,    \* whether its queue is among the _update_subscribers
    inited,    \* the server: connections it has seen initConnection on
    loggedIn,  \* the server: keys a user has signed in with
    bare,      \* history: connections that got a request before initConnection
    mixed,     \* history: which misuse of the client has occurred
    cancels, crashes   \* how many cancellations and crashes there were

wireVars == <<dialled, sock, sender, keyOf>>
clientVars == <<cur, didInit, file>>
updVars == <<updTask, loops, feed, engine, ready, saved>>
callsVars == <<calls, subbed>>
serverVars == <<inited, loggedIn, bare>>
faults == <<cancels, crashes>>
otherVars == <<updVars, callsVars, serverVars, mixed, faults>>
vars == <<task, wireVars, clientVars, otherVars>>

-----------------------------------------------------------------------------
Connecting == {"dialing", "exchanging", "initing", "undoSender",
               "undoSocket"}
Asking == {"initForMe", "getMe", "initForState", "getState"}
Closing == {"closeStopping", "closeSender", "closeSocket"}

(* "raw": called on MtprotoClient; "calls": from CallsManager.start or     *)
(* stop; "facade": from Client.connect or close.                           *)
Goals == {"raw", "calls", "facade"}

Idle == [pc |-> "idle", at |-> None, goal |-> "raw"]
At(pc, g, goal) == [pc |-> pc, at |-> g, goal |-> goal]
Goto(t, pc, g) == task' = [task EXCEPT ![t] = At(pc, g, @.goal)]
Return(t) == task' = [task EXCEPT ![t] = Idle]
Elsewhere(t, places) == \E u \in Tasks \ {t} : task[u].pc \in places

(* How a client can be misused: two connects, two starts, two stops or     *)
(* closes at once, a start during a stop or close, updates stopped under a *)
(* running calls manager, and a cancellation that leaves something behind, *)
(* of the key exchange or of the first request of a connect.               *)
Misuses == {"connects", "starts", "stops", "startStop", "underCalls",
            "exchangeCut", "initCut"}
Note(cond, what) == IF cond THEN {what} ELSE {}

\* A loop that has ended has "died" of a failed request, is "broken" for want of
\* a connection or of an initialised engine, or was cancelled.
LiveStates == {"new", "reading", "applying", "cancelling"}
Ended == {"died", "broken", "cancelled"}
Live == {l \in Loops : loops[l] \in LiveStates}
CanSend(g) == g # None /\ sender[g] = "open"

Init ==
    /\ task = [t \in Tasks |-> Idle]
    /\ dialled = 0
    /\ sock = [g \in Conns |-> "none"]
    /\ sender = [g \in Conns |-> "none"]
    /\ keyOf = [g \in Conns |-> None]
    /\ cur = None /\ didInit = FALSE /\ file = None
    /\ updTask = None /\ engine = None /\ ready = FALSE /\ saved = FALSE
    /\ loops = [l \in Loops |-> "none"]
    /\ feed = [l \in Loops |-> None]
    /\ calls = "off" /\ subbed = FALSE
    /\ inited = {} /\ loggedIn = {} /\ bare = {} /\ mixed = {}
    /\ cancels = 0 /\ crashes = 0

-----------------------------------------------------------------------------
(* start_updates, and what CallsManager.start and Client.connect do around *)
(* it.  These run inside the steps below, up to their next await.          *)

(* invoke_api on the current connection: it first sends HelpGetConfig with *)
(* initConnection when none has been answered since the process started.   *)
Ask(t, goal, wrapped, plain) ==
    /\ task' = [task EXCEPT ![t] =
                    IF ~CanSend(cur) THEN Idle
                    ELSE At(IF didInit' THEN plain ELSE wrapped, cur, goal)]
    /\ bare' = IF CanSend(cur) /\ didInit' /\ cur \notin inited'
               THEN bare \cup {cur} ELSE bare

\* create_task(_updates_loop()); a second loop replaces the first one.
CreateLoop ==
    \E l \in Loops :
        /\ loops[l] = "none" /\ \A k \in 1 .. l - 1 : loops[k] # "none"
        /\ loops' = [loops EXCEPT ![l] = "new"]
        /\ updTask' = l

\* start_updates has returned: CallsManager.start subscribes and runs.
Started(t, goal) ==
    /\ Return(t)
    /\ IF goal # "raw" /\ calls = "off"
       THEN calls' = "on" /\ subbed' = TRUE
       ELSE UNCHANGED callsVars

StartBody(t, goal) ==
    /\ mixed' = mixed
        \cup Note(/\ updTask = None
                  /\ Elsewhere(t, {"initForState", "getState"}), "starts")
        \cup Note(Elsewhere(t, Closing \cup {"stopping"}), "startStop")
    /\ \/ /\ updTask # None
          /\ Started(t, goal)
          /\ UNCHANGED <<updTask, loops, engine, ready, bare>>
       \/ /\ updTask = None /\ cur = None
          /\ Return(t)
          /\ UNCHANGED <<updTask, loops, engine, ready, callsVars, bare>>
       \/ /\ updTask = None /\ cur # None /\ saved
          /\ engine' = t /\ ready' = TRUE
          /\ CreateLoop
          /\ Started(t, goal)
          /\ UNCHANGED bare
       \/ /\ updTask = None /\ cur # None /\ ~saved
          /\ engine' = t /\ ready' = FALSE
          /\ Ask(t, goal, "initForState", "getState")
          /\ UNCHANGED <<updTask, loops, callsVars>>

\* Client.connect after MtprotoClient.connect: get_me, then calls.start.
AfterConnect(t, goal) ==
    \/ /\ goal = "raw"
       /\ Return(t)
       /\ UNCHANGED <<updTask, loops, engine, ready, callsVars, bare, mixed>>
    \/ /\ goal = "facade" /\ CanSend(cur)
       /\ Ask(t, goal, "initForMe", "getMe")
       /\ UNCHANGED <<updTask, loops, engine, ready, callsVars, mixed>>
    \/ /\ goal = "facade" /\ ~CanSend(cur)
       /\ StartBody(t, goal)

-----------------------------------------------------------------------------
(* connect.                                                                *)

Connect(t, goal) ==
    /\ task[t].pc = "idle" /\ goal # "calls"
    /\ UNCHANGED <<sock, sender, clientVars, feed, saved, inited, loggedIn,
                   faults>>
    /\ \/ /\ cur # None
          /\ AfterConnect(t, goal)
          /\ UNCHANGED <<dialled, keyOf>>
       \/ /\ cur = None /\ dialled < MaxConns
          /\ dialled' = dialled + 1
          /\ keyOf' = [keyOf EXCEPT ![dialled'] = file]
          /\ task' = [task EXCEPT ![t] = At("dialing", dialled', goal)]
          /\ mixed' = mixed \cup Note(Elsewhere(t, Connecting), "connects")
          /\ UNCHANGED <<updTask, loops, engine, ready, callsVars, bare>>

DialFails(t) ==
    /\ task[t].pc = "dialing"
    /\ Return(t)
    /\ UNCHANGED <<wireVars, clientVars, otherVars>>

\* The client's fields are set and HelpGetConfig is sent.
TakeConnection(t, g) ==
    /\ sender' = [sender EXCEPT ![g] = "open"]
    /\ cur' = g
    /\ Goto(t, "initing", g)

Dialled(t) ==
    LET g == task[t].at IN
    /\ task[t].pc = "dialing"
    /\ sock' = [sock EXCEPT ![g] = "open"]
    /\ \/ keyOf[g] # None /\ TakeConnection(t, g)
       \/ keyOf[g] = None /\ Goto(t, "exchanging", g)
                          /\ UNCHANGED <<sender, cur>>
    /\ UNCHANGED <<dialled, keyOf, didInit, file, otherVars>>

Exchanged(t) ==
    LET g == task[t].at IN
    /\ task[t].pc = "exchanging"
    /\ keyOf' = [keyOf EXCEPT ![g] = g]
    /\ TakeConnection(t, g)
    /\ UNCHANGED <<dialled, sock, didInit, file, otherVars>>

\* Variant: the exception handler closes nothing while there is no sender.
ExchangeFailsOpen(t) ==
    /\ task[t].pc = "exchanging"
    /\ Return(t)
    /\ UNCHANGED <<wireVars, clientVars, otherVars>>

\* Also the timeout of wait_for; transport.close() then waits.
ExchangeFails(t) ==
    LET g == task[t].at IN
    /\ task[t].pc = "exchanging"
    /\ sock' = [sock EXCEPT ![g] = "closed"]
    /\ Goto(t, "undoSocket", g)
    /\ UNCHANGED <<dialled, sender, keyOf, clientVars, otherVars>>

\* Variant: the session file is left to close().
InitialisedUnsaved(t) ==
    LET g == task[t].at IN
    /\ task[t].pc = "initing" /\ sender[g] # "closed"
    /\ didInit' = TRUE
    /\ inited' = inited \cup {g}
    /\ AfterConnect(t, task[t].goal)
    /\ UNCHANGED <<wireVars, cur, file, feed, saved, loggedIn, faults>>

\* The first request is answered; _persist_session ends the connect.
Initialised(t) ==
    LET g == task[t].at IN
    /\ task[t].pc = "initing" /\ sender[g] # "closed"
    /\ didInit' = TRUE
    /\ inited' = inited \cup {g}
    /\ file' = IF cur = None THEN file ELSE keyOf[cur]
    /\ AfterConnect(t, task[t].goal)
    /\ UNCHANGED <<wireVars, cur, feed, saved, loggedIn, faults>>

\* sender.close(): _closed, and the receiver is cancelled.
ClosingSender(g) ==
    [sender EXCEPT ![g] = IF @ = "open" THEN "closing" ELSE @]

\* Variant: the flag is set whether or not the request is answered.
InitFailsMarked(t) ==
    LET g == task[t].at IN
    /\ task[t].pc = "initing"
    /\ didInit' = TRUE
    /\ sender' = ClosingSender(g)
    /\ Goto(t, "undoSender", g)
    /\ UNCHANGED <<dialled, sock, keyOf, cur, file, otherVars>>

\* Or it is answered, and _persist_session fails.
InitFails(t) ==
    LET g == task[t].at IN
    /\ task[t].pc = "initing"
    /\ sender' = ClosingSender(g)
    /\ Goto(t, "undoSender", g)
    /\ \/ UNCHANGED <<didInit, inited>>
       \/ /\ sender[g] # "closed"
          /\ didInit' = TRUE
          /\ inited' = inited \cup {g}
    /\ UNCHANGED <<dialled, sock, keyOf, cur, file, updVars, callsVars,
                   loggedIn, bare, mixed, faults>>

SenderUndone(t) ==
    LET g == task[t].at IN
    /\ task[t].pc = "undoSender"
    /\ sender' = [sender EXCEPT ![g] = "closed"]
    /\ sock' = [sock EXCEPT ![g] = "closed"]
    /\ Goto(t, "undoSocket", g)
    /\ UNCHANGED <<dialled, keyOf, clientVars, otherVars>>

\* Variant: the exception handler also forgets the connection.
SocketUndoneForgets(t) ==
    /\ task[t].pc = "undoSocket"
    /\ cur' = None
    /\ Return(t)
    /\ UNCHANGED <<wireVars, didInit, file, otherVars>>

\* connect raises; the client's fields stay as they are.
SocketUndone(t) ==
    /\ task[t].pc = "undoSocket"
    /\ Return(t)
    /\ UNCHANGED <<wireVars, clientVars, otherVars>>

-----------------------------------------------------------------------------
(* start_updates, and the requests Client.connect makes before it.         *)

StartUpdates(t, goal) ==
    /\ task[t].pc = "idle" /\ goal # "facade"
    /\ UNCHANGED <<wireVars, clientVars, feed, saved, inited, loggedIn,
                   faults>>
    /\ StartBody(t, goal)

\* The request that had to come first is answered: now the request itself.
AskedFirst(t) ==
    LET goal == task[t].goal IN
    /\ task[t].pc \in {"initForMe", "initForState"}
    /\ sender[task[t].at] # "closed"
    /\ didInit' = TRUE
    /\ inited' = inited \cup {task[t].at}
    /\ UNCHANGED <<wireVars, cur, file, feed, saved, loggedIn, faults>>
    /\ IF task[t].pc = "initForMe" /\ ~CanSend(cur)
       THEN StartBody(t, goal)
       ELSE /\ Ask(t, goal, "initForMe",
                   IF task[t].pc = "initForMe" THEN "getMe" ELSE "getState")
            /\ UNCHANGED <<updTask, loops, engine, ready, callsVars, mixed>>

\* get_me is best effort: an answer or an exception, calls.start comes next.
GotMe(t) ==
    /\ task[t].pc \in {"initForMe", "getMe"}
    /\ UNCHANGED <<wireVars, clientVars, feed, saved, inited, loggedIn,
                   faults>>
    /\ StartBody(t, task[t].goal)

\* The engine this task has made is initialised, current or not.
GotState(t) ==
    /\ task[t].pc = "getState" /\ sender[task[t].at] # "closed"
    /\ ready' = (ready \/ engine = t)
    /\ CreateLoop
    /\ Started(t, task[t].goal)
    /\ mixed' = mixed \cup Note(updTask # None, "starts")
    /\ UNCHANGED <<wireVars, clientVars, feed, engine, saved, serverVars,
                   faults>>

StateFails(t) ==
    /\ task[t].pc \in {"initForState", "getState"}
    /\ Return(t)
    /\ UNCHANGED <<wireVars, clientVars, otherVars>>

-----------------------------------------------------------------------------
(* stop_updates, CallsManager.stop, close.                                 *)

\* After the wait: whatever _updates_task is now, it is forgotten.  A state
\* that cannot be written is dropped silently.
FinishStop ==
    /\ updTask' = None
    /\ saved' \in {saved, saved \/ ready}
    /\ subbed' = FALSE

\* Variant: the manager's queue stays a subscriber.
KeepSubscribed == UNCHANGED subbed

\* CallsManager.stop has unsubscribed its queue in this step, if it ran.
KeepSubscription == subbed' = (subbed /\ calls' # "off")

\* close() behind its stop_updates, which may have been a long wait.
CloseStopped(t, goal) ==
    \/ /\ cur = None                    \* assert self._sender is not None
       /\ Return(t)
       /\ UNCHANGED sender
    \/ /\ cur # None
       /\ sender' = ClosingSender(cur)
       /\ task' = [task EXCEPT ![t] = At("closeSender", cur, goal)]

\* Variant: _updates_task is reset before the task is awaited.
StopLiveForgets(t, goal, waits) ==
    /\ loops' = [loops EXCEPT ![updTask] = "cancelling"]
    /\ task' = [task EXCEPT ![t] = At(waits, updTask, goal)]
    /\ updTask' = None
    /\ KeepSubscription
    /\ UNCHANGED <<saved, sender>>

\* The task is cancelled and awaited.
StopLive(t, goal, waits) ==
    /\ loops' = [loops EXCEPT ![updTask] = "cancelling"]
    /\ task' = [task EXCEPT ![t] = At(waits, updTask, goal)]
    /\ KeepSubscription
    /\ UNCHANGED <<updTask, saved, sender>>

\* stop_updates, called by the user or by close().
StopBody(t, goal, closing) ==
    LET Behind == IF closing THEN CloseStopped(t, goal)
                             ELSE Return(t) /\ UNCHANGED sender
        waits == IF closing THEN "closeStopping" ELSE "stopping"
    IN
    \/ /\ updTask = None
       /\ Behind
       /\ KeepSubscription
       /\ UNCHANGED <<updTask, loops, saved>>
    \/ /\ updTask # None /\ loops[updTask] \in {"died", "broken"}  \* it raises
       /\ Return(t)
       /\ KeepSubscription
       /\ UNCHANGED <<updTask, loops, saved, sender>>
    \/ /\ updTask # None /\ loops[updTask] = "cancelled"
       /\ FinishStop
       /\ Behind
       /\ UNCHANGED loops
    \/ /\ updTask # None /\ loops[updTask] \in LiveStates
       /\ StopLive(t, goal, waits)

StopUpdates(t) ==
    /\ task[t].pc = "idle"
    /\ mixed' = mixed
        \cup Note(Elsewhere(t, Closing \cup {"stopping"}), "stops")
        \cup Note(calls # "off", "underCalls")
    /\ UNCHANGED <<dialled, sock, keyOf, clientVars, feed, engine, ready,
                   calls, serverVars, faults>>
    /\ StopBody(t, "raw", FALSE)

\* The loop has ended in its cancellation, which stop_updates swallows.
StopEnds(t) ==
    /\ task[t].pc = "stopping" /\ loops[task[t].at] = "cancelled"
    /\ FinishStop
    /\ Return(t)
    /\ UNCHANGED <<wireVars, clientVars, loops, feed, engine, ready, calls,
                   serverVars, mixed, faults>>

\* MtprotoClient.close: the session file first, then stop_updates.
CloseBody(t, goal) ==
    /\ mixed' = mixed
        \cup Note(Elsewhere(t, Closing \cup {"stopping"}), "stops")
        \cup Note(Elsewhere(t, {"initForState", "getState"}), "startStop")
        \cup Note(goal = "raw" /\ calls # "off", "underCalls")
    /\ \/ /\ cur = None
          /\ Return(t)
          /\ KeepSubscription
          /\ UNCHANGED <<file, updTask, loops, saved, sender>>
       \/ /\ cur # None                \* the session file is not written
          /\ Return(t)
          /\ KeepSubscription
          /\ UNCHANGED <<file, updTask, loops, saved, sender>>
       \/ /\ cur # None
          /\ file' = keyOf[cur]
          /\ StopBody(t, goal, TRUE)

Close(t) ==
    /\ task[t].pc = "idle"
    /\ UNCHANGED <<dialled, sock, keyOf, cur, didInit, feed, engine, ready,
                   calls, serverVars, faults>>
    /\ CloseBody(t, "raw")

\* Variant: Client.close closes the connection and leaves the manager.
StopCallsNever(t, goal) ==
    /\ task[t].pc = "idle" /\ goal = "facade"
    /\ calls # "off"
    /\ UNCHANGED <<dialled, sock, keyOf, cur, didInit, feed, engine, ready,
                   calls, serverVars, faults>>
    /\ CloseBody(t, goal)

\* CallsManager.stop, alone or as the first part of Client.close.
StopCalls(t, goal) ==
    /\ task[t].pc = "idle" /\ goal # "raw"
    /\ calls # "off"
    /\ calls' = "stopping"
    /\ task' = [task EXCEPT ![t] = At("callsStopping", None, goal)]
    /\ UNCHANGED <<wireVars, clientVars, updVars, subbed, serverVars, mixed,
                   faults>>

\* The manager's task has ended; Client.close goes on to MtprotoClient.close.
CallsStopped(t) ==
    /\ task[t].pc = "callsStopping"
    /\ calls' = "off"
    /\ IF task[t].goal = "calls"
       THEN /\ Return(t)
            /\ subbed' = FALSE
            /\ UNCHANGED <<file, updTask, loops, saved, sender, mixed>>
       ELSE CloseBody(t, "facade")
    /\ UNCHANGED <<dialled, sock, keyOf, cur, didInit, feed, engine, ready,
                   serverVars, faults>>

CloseStoppedUpdates(t) ==
    /\ task[t].pc = "closeStopping" /\ loops[task[t].at] = "cancelled"
    /\ FinishStop
    /\ CloseStopped(t, task[t].goal)
    /\ UNCHANGED <<dialled, sock, keyOf, clientVars, loops, feed, engine,
                   ready, calls, serverVars, mixed, faults>>

\* The receiver has ended: self._transport is read again, and closed.
CloseSenderEnds(t) ==
    /\ task[t].pc = "closeSender"
    /\ sender' = [sender EXCEPT ![task[t].at] = "closed"]
    /\ \/ /\ cur = None                          \* None has no close()
          /\ Return(t)
          /\ UNCHANGED sock
       \/ /\ cur # None
          /\ sock' = [sock EXCEPT ![cur] = "closed"]
          /\ Goto(t, "closeSocket", cur)
    /\ UNCHANGED <<dialled, keyOf, clientVars, otherVars>>

CloseSocketEnds(t) ==
    /\ task[t].pc = "closeSocket"
    /\ cur' = None
    /\ subbed' = FALSE
    /\ Return(t)
    /\ UNCHANGED <<wireVars, didInit, file, updVars, calls, serverVars, mixed,
                   faults>>

(* The caller's task is cancelled.  connect() has no handler for that;     *)
(* where a task waits for one it has cancelled itself, the exception is    *)
(* taken for that task's and the operation goes on.                        *)
Cancel(t) ==
    /\ task[t].pc \in {"dialing", "exchanging", "initing", "undoSocket",
                      "closeSocket"} \cup Asking
    /\ cancels < MaxCancels
    /\ cancels' = cancels + 1
    /\ Return(t)
    /\ mixed' = mixed
        \cup Note(task[t].pc = "exchanging", "exchangeCut")
        \cup Note(task[t].pc = "initing", "initCut")
    /\ UNCHANGED <<wireVars, clientVars, updVars, callsVars, serverVars,
                   crashes>>

-----------------------------------------------------------------------------
(* _updates_loop.  What the engine does with a message is UpdatesEngine's. *)

(* The loop asks for the queue again before every message; without a       *)
(* connection the assertion or the attribute fails.                        *)
NextMessage(l) ==
    IF cur = None
    THEN /\ loops' = [loops EXCEPT ![l] = "broken"]
         /\ UNCHANGED feed
    ELSE /\ loops' = [loops EXCEPT ![l] = "reading"]
         /\ feed' = [feed EXCEPT ![l] = cur]

LoopStarts(l) ==
    /\ loops[l] = "new"
    /\ NextMessage(l)
    /\ UNCHANGED <<task, wireVars, clientVars, updTask, engine, ready, saved,
                   callsVars, serverVars, mixed, faults>>

\* apply, on whatever engine the client has now; it may send a request.
LoopTakes(l) ==
    /\ loops[l] = "reading"
    /\ feed' = [feed EXCEPT ![l] = None]
    /\ \/ /\ ~ready              \* "Updates engine not initialized"
          /\ loops' = [loops EXCEPT ![l] = "broken"]
          /\ UNCHANGED bare
       \/ /\ ready
          /\ loops' = [loops EXCEPT ![l] = "applying"]
          /\ bare' \in {bare, bare \cup
                       Note(CanSend(cur) /\ didInit /\ cur \notin inited, cur)}
    /\ UNCHANGED <<task, wireVars, clientVars, updTask, engine, ready, saved,
                   callsVars, inited, loggedIn, mixed, faults>>

\* The request of apply may have been the first on this connection.
LoopApplied(l) ==
    /\ loops[l] = "applying"
    /\ NextMessage(l)
    /\ \E asked \in {FALSE, ~didInit /\ CanSend(cur)} :
          /\ didInit' = (didInit \/ asked)
          /\ inited' = IF asked THEN inited \cup {cur} ELSE inited
    /\ saved' \in {saved, saved \/ ready}
    /\ UNCHANGED <<task, wireVars, cur, file, updTask, engine, ready,
                   callsVars, loggedIn, bare, mixed, faults>>

\* A request of apply fails, and nothing catches it.
LoopDies(l) ==
    /\ loops[l] = "applying"
    /\ loops' = [loops EXCEPT ![l] = "died"]
    /\ UNCHANGED <<task, wireVars, clientVars, updTask, feed, engine, ready,
                   saved, callsVars, serverVars, mixed, faults>>

LoopEnds(l) ==
    /\ loops[l] = "cancelling"
    /\ loops' = [loops EXCEPT ![l] = "cancelled"]
    /\ feed' = [feed EXCEPT ![l] = None]
    /\ UNCHANGED <<task, wireVars, clientVars, updTask, engine, ready, saved,
                   callsVars, serverVars, mixed, faults>>

-----------------------------------------------------------------------------
\* The user signs in once connect has returned.
SignIn ==
    /\ CanSend(cur) /\ cur \in inited
    /\ \A t \in Tasks : task[t].pc \notin Connecting
    /\ loggedIn' = loggedIn \cup {keyOf[cur]}
    /\ UNCHANGED <<task, wireVars, clientVars, updVars, callsVars, inited,
                   bare, mixed, faults>>

\* The process ends anywhere and is started again: the files are left.
Crash ==
    /\ crashes < MaxCrashes
    /\ crashes' = crashes + 1
    /\ task' = [t \in Tasks |-> Idle]
    /\ sock' = [g \in Conns |-> IF sock[g] = "open" THEN "closed" ELSE sock[g]]
    /\ sender' = [g \in Conns |-> IF sender[g] = "none" THEN "none"
                                                      ELSE "closed"]
    /\ cur' = None /\ didInit' = FALSE
    /\ updTask' = None /\ engine' = None /\ ready' = FALSE
    /\ loops' = [l \in Loops |-> "none"] /\ feed' = [l \in Loops |-> None]
    /\ calls' = "off" /\ subbed' = FALSE
    /\ UNCHANGED <<dialled, keyOf, file, saved, serverVars, mixed, cancels>>

Call(t) ==
    \/ \E goal \in Goals :
          Connect(t, goal) \/ StartUpdates(t, goal) \/ StopCalls(t, goal)
    \/ StopUpdates(t) \/ Close(t)

Continue(t) ==
    \/ DialFails(t) \/ Dialled(t) \/ Exchanged(t) \/ ExchangeFails(t)
    \/ Initialised(t) \/ InitFails(t) \/ SenderUndone(t) \/ SocketUndone(t)
    \/ AskedFirst(t) \/ GotMe(t) \/ GotState(t) \/ StateFails(t)
    \/ StopEnds(t) \/ CallsStopped(t) \/ CloseStoppedUpdates(t)
    \/ CloseSenderEnds(t) \/ CloseSocketEnds(t)

Run(l) == LoopStarts(l) \/ LoopApplied(l) \/ LoopDies(l) \/ LoopEnds(l)

Next ==
    /\ \/ \E t \in Tasks : Call(t) \/ Continue(t) \/ Cancel(t)
       \/ \E l \in Loops : Run(l) \/ LoopTakes(l)
       \/ SignIn \/ Crash
    /\ Cardinality(mixed') <= MaxMisuses

Spec == Init /\ [][Next]_vars

-----------------------------------------------------------------------------
(* A socket that is open is the current one or belongs to a connect() that *)
(* is under way: whatever fails in connect() or close(), none is left      *)
(* behind, unless connects or closes overlapped or the key exchange was    *)
(* cancelled.                                                              *)
NoSocketLeftBehind ==
    mixed \cap {"connects", "stops", "exchangeCut"} = {} =>
        \A g \in Conns : sock[g] = "open" =>
            \/ g = cur
            \/ \E t \in Tasks : task[t].pc \in Connecting /\ task[t].at = g

(* The one loop that runs is the one stop_updates would stop, and it waits *)
(* for the messages of the current connection; none reads on after         *)
(* close().                                                                *)
LoopReadsTheConnection ==
    mixed \cap {"connects", "starts", "startStop"} = {} =>
        \A l \in Live :
            /\ l = updTask
            /\ loops[l] = "reading" => feed[l] = cur

(* While the calls manager runs, its queue is among the subscribers and    *)
(* the loop that fills them runs, on the messages of the current           *)
(* connection.  One exception is the code's: a request that fails in the   *)
(* loop ends it, and no one is told.  Nor is it said that the connection   *)
(* works: connect() keeps one whose first request has failed.  When the    *)
(* manager has stopped, its queue is no subscriber.                        *)
CallsListen ==
    /\ /\ calls = "on"
       /\ mixed \cap {"connects", "starts", "startStop", "underCalls"} = {}
       => /\ subbed /\ updTask # None
          /\ \/ loops[updTask] = "died"
             \/ /\ loops[updTask] \in {"new", "reading", "applying"}
                /\ cur # None
                /\ loops[updTask] = "reading" => feed[updTask] = cur
    /\ calls = "off" => ~subbed

(* A request goes out on a connection before initConnection only when an   *)
(* other connection was initialised: the flag is not reset by close().   *)
OnlyLaterConnectionsAreBare ==
    \A g \in bare : \E h \in inited : h # g

(* The key a user has signed in with is in the session file, so that a     *)
(* crash does not sign the user out; unless connect() was cancelled in its *)
(* first request, which leaves a usable connection nobody has saved.       *)
SignInsSurvive ==
    "initCut" \notin mixed => loggedIn \subseteq {file}

(* close() that has begun gets to its end: the assertions behind           *)
(* stop_updates hold.                                                      *)
CloseRunsThrough ==
    [][\A t \in Tasks :
        /\ task[t].pc \in {"closeStopping", "closeSender"}
        /\ task'[t].pc = "idle"
        => crashes' # crashes \/ "stops" \in mixed]_vars
=============================================================================
