----------------------- MODULE ClientLifecycleProofs ------------------------
(***************************************************************************)
(* Proofs about ClientLifecycle, for any set of tasks and any bounds.      *)
(*                                                                         *)
(* What misuse may do is not excluded from the behaviours: each part of    *)
(* the invariant says which kinds of it the part does not survive.         *)
(***************************************************************************)
EXTENDS ClientLifecycle, TLAPS

Starters == {"initForState", "getState"}
Stoppers == {"stopping", "closeStopping"}
Closers == Closing \cup {"stopping"}
OnConn == Connecting \cup Asking \cup {"closeSender", "closeSocket"}
PCs == {"idle", "callsStopping"} \cup OnConn \cup Stoppers

\* Where a task may be, with n connections dialled.
Placed(p, n) ==
    /\ p.pc \in PCs /\ p.goal \in Goals
    /\ p.pc \in OnConn => p.at \in 1 .. n
    /\ p.pc \in Stoppers => p.at \in Loops

DataOK ==
    /\ sock \in [Conns -> {"none", "open", "closed"}]
    /\ sender \in [Conns -> {"none", "open", "closing", "closed"}]
    /\ keyOf \in [Conns -> Conns \cup {None}]
    /\ cur \in 0 .. dialled
    /\ file \in Conns \cup {None}
    /\ updTask \in Loops \cup {None}
    /\ loops \in [Loops -> LiveStates \cup Ended \cup {"none"}]
    /\ feed \in [Loops -> Conns \cup {None}]
    /\ calls \in {"off", "on", "stopping"}
    /\ inited \subseteq Conns /\ bare \subseteq Conns
    /\ loggedIn \subseteq Conns \cup {None}

TypeOK ==
    /\ DOMAIN task = Tasks /\ dialled \in 0 .. MaxConns
    /\ \A t \in Tasks : Placed(task[t], dialled)
    /\ DataOK

\* A crash is a step that is seen.
CrashesCount == crashes \in Nat

Without(kinds) == mixed \cap kinds = {}

-----------------------------------------------------------------------------
(* Connections.                                                            *)

\* A task that dials finds no connection, and is the only one to connect.
ConnectsAlone ==
    Without({"connects"}) =>
        \A t \in Tasks : task[t].pc \in Connecting =>
            /\ \A u \in Tasks \ {t} : task[u].pc \notin Connecting
            /\ task[t].pc \in {"dialing", "exchanging"} => cur = None

\* One task closes, and what it closes is not forgotten meanwhile.
ClosesAlone ==
    Without({"stops"}) =>
        \A t \in Tasks : task[t].pc \in Closers =>
            /\ \A u \in Tasks \ {t} : task[u].pc \notin Closers
            /\ task[t].pc \in Closing => cur # None

\* Sockets that may be given up are not open.
SocketsGivenUp ==
    Without({"connects", "stops", "exchangeCut"}) =>
        \A t \in Tasks :
            LET g == task[t].at IN
            /\ task[t].pc \in {"dialing", "undoSocket"} => sock[g] # "open"
            /\ task[t].pc = "initing" => g = cur \/ sock[g] # "open"
            /\ task[t].pc = "closeSocket" => cur # None /\ sock[cur] # "open"

\* Connections that are still to be dialled have no socket.
Undialled == \A g \in Conns : g > dialled => sock[g] = "none"

ConnInv ==
    /\ ConnectsAlone /\ ClosesAlone /\ SocketsGivenUp /\ Undialled
    /\ NoSocketLeftBehind

-----------------------------------------------------------------------------
(* Keys.                                                                   *)

\* The current connection has a key.  It is the saved one, when requests can
\* be sent, or will be once the first request is answered.
CurrentKey ==
    /\ cur # None => keyOf[cur] # None
    /\ Without({"initCut"}) /\ CanSend(cur) =>
          \/ file = keyOf[cur]
          \/ \E t \in Tasks : task[t].pc = "initing" /\ task[t].at = cur

\* After a sign-in there is one key: nobody exchanges another.
OneKey ==
    Without({"initCut"}) =>
        \A k \in loggedIn :
            /\ k = file /\ k # None
            /\ cur # None => keyOf[cur] = k
            /\ \A t \in Tasks :
                  /\ task[t].pc # "exchanging"
                  /\ task[t].pc = "dialing" => keyOf[task[t].at] = k

KeyInv == CurrentKey /\ OneKey

\* The flag is set with the first connection that is initialised.
BareInv == (didInit => inited # {}) /\ OnlyLaterConnectionsAreBare

-----------------------------------------------------------------------------
(* The updates loop.                                                       *)

\* A task that starts updates finds none running, and nobody stops them.
StartsAlone ==
    \A t \in Tasks : task[t].pc \in Starters =>
        /\ updTask = None
        /\ \A u \in Tasks \ {t} : task[u].pc \notin Starters \cup Closers

\* A task that stops the updates waits for the loop there is, if any.
StopsTheLoop ==
    \A t \in Tasks :
        /\ task[t].pc \in Stoppers => updTask \in {task[t].at, None}
        /\ task[t].pc \in {"closeSender", "closeSocket"} => updTask = None

OnlyLoop == \A l \in Live : l = updTask

RunsOne ==
    Without({"starts", "startStop"}) =>
        StartsAlone /\ StopsTheLoop /\ OnlyLoop

\* A connection is not replaced while a loop reads from it.
ReadsCurrent ==
    Without({"connects", "starts", "startStop"}) =>
        \A l \in Loops : loops[l] = "reading" => cur # None /\ feed[l] = cur

\* The loop there is has a connection and an initialised engine, and is cancelled
\* only by a task that waits for that.
LoopServed ==
    /\ cur # None /\ ready = TRUE
    /\ loops[updTask] \notin {"none", "broken"}
    /\ loops[updTask] \in {"cancelling", "cancelled"} =>
          \E t \in Tasks : task[t].pc \in Stoppers

\* A task that starts the updates has made the engine they will run on.
LoopSound ==
    Without({"starts", "startStop"}) =>
        /\ updTask # None => LoopServed
        /\ \A t \in Tasks : task[t].pc \in Starters => engine = t /\ cur # None

LoopInv == RunsOne /\ ReadsCurrent /\ LoopSound

\* The calls manager that runs hears of its calls, and nobody stops that.
CallsInv ==
    /\ calls = "on" /\ Without({"starts", "startStop", "underCalls"}) =>
          /\ subbed /\ updTask # None
          /\ \A t \in Tasks : task[t].pc \notin Closers
    /\ calls = "off" => ~subbed

LInv ==
    /\ TypeOK /\ CrashesCount
    /\ ConnInv /\ KeyInv /\ BareInv /\ LoopInv /\ CallsInv

-----------------------------------------------------------------------------
(* What the parts of the steps do.                                         *)

\* The other tasks stay where they are.
Others(t) == \A u \in Tasks \ {t} : task'[u] = task[u]

LEMMA NoneAssumption == None = 0 /\ None \notin Conns /\ None \notin Loops
BY BoundsAssumption DEF None, Conns, Loops

LEMMA CurrentConn ==
    ASSUME TypeOK, cur # None
    PROVE  cur \in Conns /\ cur \in 1 .. dialled
BY BoundsAssumption DEF TypeOK, DataOK, Conns, None

LEMMA Moves ==
    ASSUME TypeOK, NEW t \in Tasks, NEW p, task' = [task EXCEPT ![t] = p]
    PROVE  DOMAIN task' = Tasks /\ task'[t] = p /\ Others(t)
BY DEF TypeOK, Others

LEMMA ReturnMoves ==
    ASSUME TypeOK, NEW t \in Tasks, Return(t)
    PROVE  DOMAIN task' = Tasks /\ task'[t] = Idle /\ Others(t)
BY Moves DEF Return

LEMMA GotoMoves ==
    ASSUME TypeOK, NEW t \in Tasks, NEW pc, NEW g, Goto(t, pc, g)
    PROVE  /\ DOMAIN task' = Tasks /\ Others(t)
           /\ task'[t] = At(pc, g, task[t].goal)
<1>1. task' = [task EXCEPT ![t] = At(pc, g, task[t].goal)]
  BY DEF Goto, TypeOK
<1> QED
  BY <1>1, Moves

\* Where a task is that has asked, or could not.
AskEffect(t, pcs) ==
    /\ DOMAIN task' = Tasks /\ Others(t)
    /\ \/ task'[t] = Idle
       \/ /\ CanSend(cur) /\ task'[t].at = cur
          /\ task'[t].pc \in pcs /\ task'[t].goal \in Goals

\* A request that goes out without initConnection is on such a connection.
BareEffect ==
    bare' = bare \/ (/\ cur \in Conns /\ didInit' /\ cur \notin inited'
                     /\ bare' = bare \cup {cur})

LEMMA AskDoes ==
    ASSUME TypeOK, NEW t \in Tasks, NEW goal \in Goals, NEW wrapped, NEW plain,
           Ask(t, goal, wrapped, plain)
    PROVE  AskEffect(t, {wrapped, plain}) /\ BareEffect
<1>1. PICK p : /\ task' = [task EXCEPT ![t] = p]
               /\ \/ p = Idle
                  \/ /\ CanSend(cur)
                     /\ p \in {At(wrapped, cur, goal), At(plain, cur, goal)}
  BY DEF Ask
<1>2. DOMAIN task' = Tasks /\ task'[t] = p /\ Others(t)
  BY <1>1, Moves
<1>3. AskEffect(t, {wrapped, plain})
  <2>1. CASE p = Idle
    BY <1>2, <2>1 DEF AskEffect
  <2>2. CASE CanSend(cur) /\ p \in {At(wrapped, cur, goal), At(plain, cur, goal)}
    <3>1. p.at = cur /\ p.pc \in {wrapped, plain} /\ p.goal = goal
      BY <2>2 DEF At
    <3> QED
      BY <1>2, <2>2, <3>1 DEF AskEffect
  <2> QED
    BY <1>1, <2>1, <2>2
<1>4. CanSend(cur) => cur \in Conns
  BY CurrentConn DEF CanSend
<1> QED
  BY <1>3, <1>4 DEF Ask, BareEffect

\* A loop that runs, where none did.
NewLoop ==
    \E l \in Loops : /\ loops[l] = "none" /\ updTask' = l
                     /\ loops' = [loops EXCEPT ![l] = "new"]

LEMMA CreateDoes == CreateLoop => NewLoop
BY DEF CreateLoop, NewLoop

\* The calls manager runs behind a start, or is left as it is.
StartedEffect ==
    UNCHANGED callsVars \/ (calls = "off" /\ calls' = "on" /\ subbed' = TRUE)

LEMMA StartedDoes ==
    ASSUME TypeOK, NEW t \in Tasks, NEW goal, Started(t, goal)
    PROVE  /\ DOMAIN task' = Tasks /\ task'[t] = Idle /\ Others(t)
           /\ StartedEffect
BY ReturnMoves DEF Started, StartedEffect

StartEffect(t) ==
    /\ AskEffect(t, Starters) /\ BareEffect
    /\ mixed \subseteq mixed'
    /\ "startStop" \notin mixed' =>
          \A u \in Tasks \ {t} : task[u].pc \notin Closers
    /\ "starts" \notin mixed' /\ updTask = None =>
          \A u \in Tasks \ {t} : task[u].pc \notin Starters
    /\ \/ /\ UNCHANGED <<updTask, loops, callsVars>>
          /\ task'[t].pc # "idle" => updTask = None
       \/ /\ task'[t] = Idle /\ StartedEffect
          /\ \/ updTask # None /\ UNCHANGED <<updTask, loops>>
             \/ updTask = None /\ NewLoop

LEMMA StartDoes ==
    ASSUME TypeOK, NEW t \in Tasks, NEW goal \in Goals, StartBody(t, goal)
    PROVE  StartEffect(t)
<1>1. /\ mixed \subseteq mixed'
      /\ "startStop" \notin mixed' =>
            \A u \in Tasks \ {t} : task[u].pc \notin Closers
      /\ "starts" \notin mixed' /\ updTask = None =>
            \A u \in Tasks \ {t} : task[u].pc \notin Starters
  BY DEF StartBody, Note, Elsewhere, Starters, Closers
<1>2. CASE updTask # None /\ Started(t, goal) /\ UNCHANGED <<updTask, loops, bare>>
  BY <1>1, <1>2, StartedDoes DEF StartEffect, AskEffect, BareEffect
<1>3. CASE updTask = None /\ Return(t) /\ UNCHANGED <<updTask, loops, callsVars, bare>>
  BY <1>1, <1>3, ReturnMoves DEF StartEffect, AskEffect, BareEffect
<1>4. CASE updTask = None /\ CreateLoop /\ Started(t, goal) /\ UNCHANGED bare
  BY <1>1, <1>4, StartedDoes, CreateDoes DEF StartEffect, AskEffect, BareEffect
<1>5. CASE /\ updTask = None /\ Ask(t, goal, "initForState", "getState")
           /\ UNCHANGED <<updTask, loops, callsVars>>
  BY <1>1, <1>5, AskDoes DEF StartEffect, Starters
<1> QED
  BY <1>2, <1>3, <1>4, <1>5 DEF StartBody

\* Client.connect may ask for the user first.
AfterEffect(t) ==
    \/ /\ AskEffect(t, {"initForMe", "getMe"}) /\ BareEffect
       /\ UNCHANGED <<updTask, loops, callsVars, mixed>>
    \/ StartEffect(t)

LEMMA AfterConnectDoes ==
    ASSUME TypeOK, NEW t \in Tasks, NEW goal \in Goals, AfterConnect(t, goal)
    PROVE  AfterEffect(t)
<1>1. CASE goal = "raw"
  BY <1>1, ReturnMoves DEF AfterConnect, AfterEffect, AskEffect, BareEffect
<1>2. CASE goal = "facade" /\ CanSend(cur)
  BY <1>2, AskDoes DEF AfterConnect, AfterEffect
<1>3. CASE goal = "facade" /\ ~CanSend(cur)
  BY <1>3, StartDoes DEF AfterConnect, AfterEffect
<1> QED
  BY <1>1, <1>2, <1>3 DEF AfterConnect

\* close() behind its stop_updates.
ClosesConn(t) ==
    /\ cur # None /\ task'[t].pc = "closeSender" /\ task'[t].at = cur
    /\ task'[t].goal \in Goals

SenderEffect == sender' = sender \/ (cur # None /\ sender' = ClosingSender(cur))

LEMMA CloseStoppedDoes ==
    ASSUME TypeOK, NEW t \in Tasks, NEW goal \in Goals, CloseStopped(t, goal)
    PROVE  /\ DOMAIN task' = Tasks /\ Others(t) /\ SenderEffect
           /\ (task'[t] = Idle /\ cur = None) \/ ClosesConn(t)
<1>1. CASE cur = None /\ Return(t) /\ UNCHANGED sender
  BY <1>1, ReturnMoves DEF SenderEffect
<1>2. CASE /\ cur # None /\ sender' = ClosingSender(cur)
           /\ task' = [task EXCEPT ![t] = At("closeSender", cur, goal)]
  <2>1. /\ DOMAIN task' = Tasks /\ Others(t)
        /\ task'[t] = At("closeSender", cur, goal)
    BY <1>2, Moves
  <2> QED
    BY <1>2, <2>1 DEF SenderEffect, ClosesConn, At
<1> QED
  BY <1>1, <1>2 DEF CloseStopped

\* The loop a task that stops the updates finds: none, one that has ended, or
\* one that it cancels and waits for.
StopEffect(t) ==
    /\ DOMAIN task' = Tasks /\ Others(t) /\ SenderEffect
    /\ subbed' = FALSE \/ subbed' = (subbed /\ calls' # "off")
    /\ \/ /\ UNCHANGED <<updTask, loops>>
          /\ task'[t] = Idle \/ (updTask = None /\ ClosesConn(t))
       \/ /\ updTask # None /\ loops[updTask] = "cancelled"
          /\ updTask' = None /\ UNCHANGED loops
          /\ task'[t] = Idle \/ ClosesConn(t)
       \/ /\ updTask # None /\ UNCHANGED updTask
          /\ loops' = [loops EXCEPT ![updTask] = "cancelling"]
          /\ loops[updTask] \in LiveStates
          /\ task'[t].pc \in Stoppers /\ task'[t].at = updTask
          /\ task'[t].goal \in Goals

LEMMA StopDoes ==
    ASSUME TypeOK, NEW t \in Tasks, NEW goal \in Goals, NEW closing \in BOOLEAN,
           StopBody(t, goal, closing)
    PROVE  /\ StopEffect(t)
           /\ task'[t].pc \in Closing => closing
<1> DEFINE Behind == IF closing THEN CloseStopped(t, goal)
                                ELSE Return(t) /\ UNCHANGED sender
           waits == IF closing THEN "closeStopping" ELSE "stopping"
<1>1. /\ Behind => /\ DOMAIN task' = Tasks /\ Others(t) /\ SenderEffect
                   /\ task'[t] = Idle \/ ClosesConn(t)
                   /\ task'[t].pc \in Closing => closing
      /\ waits \in Stoppers /\ (waits \in Closing => closing)
  <2>1. CASE closing
    BY <2>1, CloseStoppedDoes DEF Stoppers
  <2>2. CASE ~closing
    <3>1. waits = "stopping" /\ waits \in Stoppers /\ waits \notin Closing
      BY <2>2 DEF Stoppers, Closing
    <3>2. Idle.pc \notin Closing
      BY DEF Idle, Closing
    <3> QED
      BY <2>2, <3>1, <3>2, ReturnMoves DEF SenderEffect
  <2> QED
    BY <2>1, <2>2
<1>2. Idle.pc \notin Closing
  BY DEF Idle, Closing
<1> HIDE DEF Behind, waits
<1>3. CASE updTask = None /\ Behind /\ KeepSubscription /\ UNCHANGED <<updTask, loops>>
  BY <1>1, <1>3 DEF StopEffect, KeepSubscription
<1>4. CASE Return(t) /\ KeepSubscription /\ UNCHANGED <<updTask, loops, sender>>
  BY <1>2, <1>4, ReturnMoves DEF StopEffect, KeepSubscription, SenderEffect
<1>5. CASE /\ updTask # None /\ loops[updTask] = "cancelled"
           /\ FinishStop /\ Behind /\ UNCHANGED loops
  BY <1>1, <1>5 DEF StopEffect, FinishStop
<1>6. CASE /\ updTask # None /\ loops[updTask] \in LiveStates
           /\ StopLive(t, goal, waits)
  <2>1. task' = [task EXCEPT ![t] = At(waits, updTask, goal)]
    BY <1>6 DEF StopLive
  <2>2. /\ DOMAIN task' = Tasks /\ Others(t)
        /\ task'[t] = At(waits, updTask, goal)
    BY <2>1, Moves
  <2>3. /\ task'[t].pc = waits /\ task'[t].at = updTask
        /\ task'[t].goal \in Goals
    BY <2>2 DEF At
  <2>4. UNCHANGED <<updTask, sender>> /\ KeepSubscription
        /\ loops' = [loops EXCEPT ![updTask] = "cancelling"]
    BY <1>6 DEF StopLive
  <2> QED
    BY <1>1, <1>6, <2>2, <2>3, <2>4 DEF StopEffect, KeepSubscription, SenderEffect
<1> QED
  BY <1>3, <1>4, <1>5, <1>6 DEF StopBody, Behind, waits

CloseEffect(t) ==
    /\ StopEffect(t)
    /\ mixed \subseteq mixed'
    /\ "stops" \notin mixed' => \A u \in Tasks \ {t} : task[u].pc \notin Closers
    /\ "startStop" \notin mixed' =>
          \A u \in Tasks \ {t} : task[u].pc \notin Starters
    /\ cur = None => task'[t] = Idle /\ UNCHANGED <<file, updTask, loops>>
    /\ file' = file \/ (cur # None /\ file' = keyOf[cur])

LEMMA CloseDoes ==
    ASSUME TypeOK, NEW t \in Tasks, NEW goal \in Goals, CloseBody(t, goal)
    PROVE  CloseEffect(t)
<1>1. /\ mixed \subseteq mixed'
      /\ "stops" \notin mixed' => \A u \in Tasks \ {t} : task[u].pc \notin Closers
      /\ "startStop" \notin mixed' =>
            \A u \in Tasks \ {t} : task[u].pc \notin Starters
  BY DEF CloseBody, Note, Elsewhere, Starters, Closers
<1>2. CASE /\ cur = None /\ Return(t) /\ KeepSubscription
           /\ UNCHANGED <<file, updTask, loops, saved, sender>>
  <2>1. StopEffect(t) /\ task'[t] = Idle
    BY <1>2, ReturnMoves DEF StopEffect, KeepSubscription, SenderEffect
  <2> QED
    BY <1>1, <1>2, <2>1 DEF CloseEffect
<1>3. CASE cur # None /\ file' = keyOf[cur] /\ StopBody(t, goal, TRUE)
  <2>1. StopEffect(t)
    BY <1>3, StopDoes
  <2> QED
    BY <1>1, <1>3, <2>1 DEF CloseEffect
<1>4. CASE /\ cur # None /\ Return(t) /\ KeepSubscription
           /\ UNCHANGED <<file, updTask, loops, saved, sender>>
  <2>1. StopEffect(t) /\ task'[t] = Idle
    BY <1>4, ReturnMoves DEF StopEffect, KeepSubscription, SenderEffect
  <2> QED
    BY <1>1, <1>4, <2>1 DEF CloseEffect
<1> QED
  BY <1>2, <1>3, <1>4 DEF CloseBody

-----------------------------------------------------------------------------
(* Types.                                                                  *)

LEMMA Bounds == MaxConns \in Nat \ {0} /\ MaxLoops \in Nat \ {0}
BY BoundsAssumption

LEMMA IdlePlaced == \A n : Placed(Idle, n)
<1>1. Idle.pc = "idle" /\ Idle.goal = "raw"
  BY DEF Idle
<1> QED
  BY <1>1 DEF Placed, PCs, Goals, OnConn, Connecting, Asking, Stoppers

LEMMA TaskStep ==
    ASSUME TypeOK, NEW t \in Tasks, DOMAIN task' = Tasks, Others(t),
           dialled' \in 0 .. MaxConns, dialled' >= dialled,
           Placed(task'[t], dialled'), DataOK'
    PROVE  TypeOK'
<1>1. ASSUME NEW u \in Tasks \ {t} PROVE Placed(task'[u], dialled')
  <2>1. task'[u] = task[u] /\ Placed(task[u], dialled)
    BY DEF TypeOK, Others
  <2>2. 1 .. dialled \subseteq 1 .. dialled'
    BY Bounds DEF TypeOK
  <2> QED
    BY <2>1, <2>2 DEF Placed
<1> QED
  BY <1>1 DEF TypeOK

LEMMA AskPlaced ==
    ASSUME TypeOK, NEW t \in Tasks, NEW pcs \in SUBSET Asking, AskEffect(t, pcs)
    PROVE  Placed(task'[t], dialled)
<1>1. CASE task'[t] = Idle
  BY <1>1, IdlePlaced
<1>2. CASE /\ CanSend(cur) /\ task'[t].at = cur
           /\ task'[t].pc \in pcs /\ task'[t].goal \in Goals
  <2>1. cur \in 1 .. dialled
    BY <1>2, CurrentConn DEF CanSend
  <2>2. task'[t].pc \in Asking /\ Asking \cap Stoppers = {}
    BY <1>2 DEF Asking, Stoppers
  <2> QED
    BY <1>2, <2>1, <2>2 DEF Placed, PCs, OnConn
<1> QED
  BY <1>1, <1>2 DEF AskEffect

LEMMA NewLoopTypes ==
    ASSUME TypeOK, NewLoop
    PROVE  /\ updTask' \in Loops
           /\ loops' \in [Loops -> LiveStates \cup Ended \cup {"none"}]
BY DEF TypeOK, DataOK, NewLoop, LiveStates, Ended

LEMMA StartTypes ==
    ASSUME TypeOK, NEW t \in Tasks, StartEffect(t)
    PROVE  /\ Placed(task'[t], dialled)
           /\ updTask' \in Loops \cup {None}
           /\ loops' \in [Loops -> LiveStates \cup Ended \cup {"none"}]
           /\ calls' \in {"off", "on", "stopping"} /\ bare' \subseteq Conns
<1>1. Placed(task'[t], dialled)
  BY AskPlaced DEF StartEffect, Starters, Asking
<1>2. bare' \subseteq Conns
  BY DEF StartEffect, BareEffect, TypeOK, DataOK
<1>3. calls' \in {"off", "on", "stopping"}
  BY DEF StartEffect, StartedEffect, callsVars, TypeOK, DataOK
<1>4. UNCHANGED <<updTask, loops>> \/ NewLoop
  BY DEF StartEffect
<1> QED
  BY <1>1, <1>2, <1>3, <1>4, NewLoopTypes DEF TypeOK, DataOK

LEMMA AfterTypes ==
    ASSUME TypeOK, NEW t \in Tasks, AfterEffect(t)
    PROVE  /\ DOMAIN task' = Tasks /\ Others(t) /\ Placed(task'[t], dialled)
           /\ updTask' \in Loops \cup {None}
           /\ loops' \in [Loops -> LiveStates \cup Ended \cup {"none"}]
           /\ calls' \in {"off", "on", "stopping"} /\ bare' \subseteq Conns
<1>1. CASE StartEffect(t)
  BY <1>1, StartTypes DEF StartEffect, AskEffect
<1>2. CASE /\ AskEffect(t, {"initForMe", "getMe"}) /\ BareEffect
           /\ UNCHANGED <<updTask, loops, callsVars, mixed>>
  <2>1. Placed(task'[t], dialled)
    BY <1>2, AskPlaced DEF Asking
  <2>2. bare' \subseteq Conns
    BY <1>2 DEF BareEffect, TypeOK, DataOK
  <2> QED
    BY <1>2, <2>1, <2>2 DEF AskEffect, callsVars, TypeOK, DataOK
<1> QED
  BY <1>1, <1>2 DEF AfterEffect

LEMMA SenderTypes ==
    /\ \A g : TypeOK
       => ClosingSender(g) \in [Conns -> {"none", "open", "closing", "closed"}]
    /\ TypeOK /\ SenderEffect
       => sender' \in [Conns -> {"none", "open", "closing", "closed"}]
<1>1. ASSUME TypeOK, NEW g
      PROVE  ClosingSender(g) \in [Conns -> {"none", "open", "closing", "closed"}]
  <2>1. sender \in [Conns -> {"none", "open", "closing", "closed"}]
    BY <1>1 DEF TypeOK, DataOK
  <2> QED
    BY <2>1 DEF ClosingSender
<1>2. TypeOK => sender \in [Conns -> {"none", "open", "closing", "closed"}]
  BY DEF TypeOK, DataOK
<1> QED
  BY <1>1, <1>2 DEF SenderEffect

LEMMA ClosesPlaced ==
    ASSUME TypeOK, NEW t \in Tasks, ClosesConn(t)
    PROVE  Placed(task'[t], dialled)
<1>1. cur \in 1 .. dialled
  BY CurrentConn DEF ClosesConn
<1> QED
  BY <1>1 DEF ClosesConn, Placed, PCs, OnConn, Stoppers

LEMMA StopTypes ==
    ASSUME TypeOK, NEW t \in Tasks, StopEffect(t)
    PROVE  /\ DOMAIN task' = Tasks /\ Others(t) /\ Placed(task'[t], dialled)
           /\ updTask' \in Loops \cup {None}
           /\ loops' \in [Loops -> LiveStates \cup Ended \cup {"none"}]
           /\ sender' \in [Conns -> {"none", "open", "closing", "closed"}]
<1>1. sender' \in [Conns -> {"none", "open", "closing", "closed"}]
  BY SenderTypes DEF StopEffect
<1>2. updTask' \in Loops \cup {None}
  BY DEF StopEffect, TypeOK, DataOK
<1>3. loops' \in [Loops -> LiveStates \cup Ended \cup {"none"}]
  BY DEF StopEffect, TypeOK, DataOK, LiveStates
<1>4. Placed(task'[t], dialled)
  <2>1. CASE task'[t] = Idle \/ ClosesConn(t)
    BY <2>1, IdlePlaced, ClosesPlaced
  <2>2. CASE /\ updTask # None /\ task'[t].pc \in Stoppers
             /\ task'[t].at = updTask /\ task'[t].goal \in Goals
    <3>1. updTask \in Loops
      BY <2>2 DEF TypeOK, DataOK
    <3>2. Stoppers \cap OnConn = {}
      BY DEF Stoppers, OnConn, Connecting, Asking
    <3> QED
      BY <2>2, <3>1, <3>2 DEF Placed, PCs
  <2> QED
    BY <2>1, <2>2 DEF StopEffect
<1> QED
  BY <1>1, <1>2, <1>3, <1>4 DEF StopEffect

LEMMA CloseTypes ==
    ASSUME TypeOK, NEW t \in Tasks, CloseEffect(t)
    PROVE  file' \in Conns \cup {None}
BY CurrentConn DEF CloseEffect, TypeOK, DataOK

LEMMA GotoPlaced ==
    ASSUME NEW t, NEW pc \in OnConn, NEW g, NEW n, NEW goal \in Goals,
           g \in 1 .. n
    PROVE  Placed(At(pc, g, goal), n)
<1>1. OnConn \cap Stoppers = {}
  BY DEF OnConn, Connecting, Asking, Stoppers
<1> QED
  BY <1>1 DEF Placed, At, PCs

\* Steps of a task that change nothing but the places, or little.
LEMMA CallTypes ==
    ASSUME TypeOK, NEW t \in Tasks, Call(t)
    PROVE  TypeOK'
<1>1. ASSUME NEW goal \in Goals, Connect(t, goal) PROVE TypeOK'
  <2>1. CASE cur # None
    <3>1. AfterEffect(t) /\ UNCHANGED <<dialled, keyOf, sock, sender, cur, file,
                                       feed, inited, loggedIn>>
      BY <1>1, <2>1, AfterConnectDoes DEF Connect, clientVars
    <3>2. DataOK'
      BY <3>1, AfterTypes DEF TypeOK, DataOK
    <3> QED
      BY <3>1, <3>2, AfterTypes, TaskStep DEF TypeOK
  <2>2. CASE cur = None
    <3>1. /\ dialled < MaxConns /\ dialled' = dialled + 1
          /\ keyOf' = [keyOf EXCEPT ![dialled'] = file]
          /\ task' = [task EXCEPT ![t] = At("dialing", dialled', goal)]
          /\ UNCHANGED <<sock, sender, cur, file, feed, inited, loggedIn, updTask,
                         loops, callsVars, bare>>
      BY <1>1, <2>2 DEF Connect, clientVars
    <3>2. dialled' \in 1 .. MaxConns /\ dialled' >= dialled
      BY <3>1, Bounds DEF TypeOK
    <3>3. /\ DOMAIN task' = Tasks /\ Others(t)
          /\ task'[t] = At("dialing", dialled', goal)
      BY <3>1, Moves
    <3>4. Placed(task'[t], dialled')
      BY <3>2, <3>3, GotoPlaced DEF OnConn, Connecting
    <3>5. cur' \in 0 .. dialled'
      BY <3>1, <3>2, Bounds DEF TypeOK, DataOK
    <3>6. keyOf' \in [Conns -> Conns \cup {None}]
      BY <3>1, <3>2 DEF TypeOK, DataOK, Conns
    <3>7. DataOK'
      BY <3>1, <3>5, <3>6 DEF TypeOK, DataOK, callsVars
    <3> QED
      BY <3>2, <3>3, <3>4, <3>7, TaskStep
  <2> QED
    BY <2>1, <2>2
<1>2. ASSUME NEW goal \in Goals, StartUpdates(t, goal) PROVE TypeOK'
  <2>1. StartEffect(t) /\ UNCHANGED <<dialled, keyOf, sock, sender, cur, file,
                                      feed, inited, loggedIn>>
    BY <1>2, StartDoes DEF StartUpdates, clientVars, wireVars
  <2>2. DataOK'
    BY <2>1, StartTypes DEF TypeOK, DataOK
  <2> QED
    BY <2>1, <2>2, StartTypes, TaskStep DEF StartEffect, AskEffect, TypeOK
<1>3. ASSUME NEW goal \in Goals, StopCalls(t, goal) PROVE TypeOK'
  <2>1. /\ task' = [task EXCEPT ![t] = At("callsStopping", None, goal)]
        /\ calls' = "stopping"
        /\ UNCHANGED <<wireVars, clientVars, updVars, subbed, serverVars>>
    BY <1>3 DEF StopCalls
  <2>2. /\ DOMAIN task' = Tasks /\ Others(t)
        /\ task'[t] = At("callsStopping", None, goal)
    BY <2>1, Moves
  <2>3. Placed(task'[t], dialled)
    BY <2>2 DEF Placed, At, PCs, OnConn, Stoppers, Connecting, Asking
  <2>4. DataOK' /\ dialled' = dialled
    BY <2>1 DEF TypeOK, DataOK, wireVars, clientVars, updVars, serverVars
  <2> QED
    BY <2>2, <2>3, <2>4, TaskStep DEF TypeOK
<1>4. ASSUME StopUpdates(t) PROVE TypeOK'
  <2>1. StopEffect(t) /\ UNCHANGED <<dialled, keyOf, sock, cur, file, feed,
                                     calls, inited, loggedIn, bare>>
    BY <1>4, StopDoes DEF StopUpdates, clientVars, serverVars, Goals
  <2>2. DataOK'
    BY <2>1, StopTypes DEF TypeOK, DataOK
  <2> QED
    BY <2>1, <2>2, StopTypes, TaskStep DEF TypeOK
<1>5. ASSUME Close(t) PROVE TypeOK'
  <2>1. CloseEffect(t) /\ UNCHANGED <<dialled, keyOf, sock, cur, feed,
                                      calls, inited, loggedIn, bare>>
    BY <1>5, CloseDoes DEF Close, clientVars, serverVars, Goals
  <2>2. StopEffect(t)
    BY <2>1 DEF CloseEffect
  <2>3. DataOK'
    BY <2>1, <2>2, StopTypes, CloseTypes DEF TypeOK, DataOK
  <2> QED
    BY <2>1, <2>2, <2>3, StopTypes, TaskStep DEF TypeOK
<1> QED
  BY <1>1, <1>2, <1>3, <1>4, <1>5 DEF Call

\* Steps of a task on the connection it waits for.
LEMMA ConnTypes ==
    ASSUME TypeOK, NEW t \in Tasks, NEW g, g = task[t].at, g \in 1 .. dialled,
           NEW pc \in OnConn, Goto(t, pc, g),
           sock' = sock \/ \E st \in {"open", "closed"} : sock' = [sock EXCEPT ![g] = st],
           \/ sender' = sender \/ sender' = ClosingSender(g)
           \/ \E st \in {"open", "closed"} : sender' = [sender EXCEPT ![g] = st],
           keyOf' = keyOf \/ keyOf' = [keyOf EXCEPT ![g] = g],
           cur' = cur \/ cur' = g,
           inited' = inited \/ inited' = inited \cup {g},
           UNCHANGED <<dialled, file, updTask, loops, feed, calls, loggedIn,
                       bare>>
    PROVE  TypeOK'
<1>1. g \in Conns
  BY Bounds DEF TypeOK, Conns
<1>2. /\ DOMAIN task' = Tasks /\ Others(t)
      /\ task'[t] = At(pc, g, task[t].goal)
  BY GotoMoves
<1>3. Placed(task'[t], dialled)
  BY <1>2, GotoPlaced DEF TypeOK, Placed
<1>4. sock' \in [Conns -> {"none", "open", "closed"}]
  BY <1>1 DEF TypeOK, DataOK
<1>5. sender' \in [Conns -> {"none", "open", "closing", "closed"}]
  BY <1>1, SenderTypes DEF TypeOK, DataOK
<1>6. keyOf' \in [Conns -> Conns \cup {None}]
  BY <1>1 DEF TypeOK, DataOK
<1>7. cur' \in 0 .. dialled
  BY Bounds DEF TypeOK, DataOK
<1>8. inited' \subseteq Conns
  <2>1. inited \subseteq Conns
    BY DEF TypeOK, DataOK
  <2>2. CASE inited' = inited \cup {g}
    BY <1>1, <2>1, <2>2
  <2> QED
    BY <2>1, <2>2
<1>9. DataOK'
  BY <1>4, <1>5, <1>6, <1>7, <1>8 DEF TypeOK, DataOK
<1> QED
  BY <1>2, <1>3, <1>9, TaskStep DEF TypeOK

\* Steps of a task that end where it began.
LEMMA ReturnTypes ==
    ASSUME TypeOK, NEW t \in Tasks, Return(t),
           UNCHANGED <<dialled, sock, sender, keyOf, file, feed, calls, inited,
                       loggedIn, bare>>,
           cur' \in {cur, None}, updTask' \in {updTask, None},
           loops' = loops
    PROVE  TypeOK'
<1>1. DataOK'
  BY Bounds DEF TypeOK, DataOK, None
<1> QED
  BY <1>1, ReturnMoves, IdlePlaced, TaskStep DEF TypeOK

LEMMA ConnectTypes ==
    ASSUME TypeOK, NEW t \in Tasks,
           \/ DialFails(t) \/ Dialled(t) \/ Exchanged(t) \/ ExchangeFails(t)
           \/ Initialised(t) \/ InitFails(t) \/ SenderUndone(t) \/ SocketUndone(t)
    PROVE  TypeOK'
<1> DEFINE g == task[t].at
<1>1. task[t].pc \in Connecting => g \in 1 .. dialled /\ g \in Conns
  BY Bounds DEF TypeOK, Placed, OnConn, Conns
<1>2. CASE DialFails(t) \/ SocketUndone(t)
  BY <1>2, ReturnTypes DEF DialFails, SocketUndone, wireVars, clientVars,
                           otherVars, updVars, callsVars, serverVars
<1> HIDE DEF g
<1>3. CASE Dialled(t)
  <2>1. \E pc \in {"initing", "exchanging"} : Goto(t, pc, g)
    BY <1>3 DEF Dialled, TakeConnection, g
  <2>2. /\ g \in 1 .. dialled
        /\ sock' = [sock EXCEPT ![g] = "open"]
        /\ sender' = sender \/ sender' = [sender EXCEPT ![g] = "open"]
        /\ cur' = cur \/ cur' = g
        /\ UNCHANGED <<dialled, keyOf, file, updTask, loops, feed, calls, inited,
                       loggedIn, bare>>
    BY <1>1, <1>3 DEF Dialled, TakeConnection, g, otherVars, updVars, callsVars,
                      serverVars, Connecting
  <2> QED
    BY <2>1, <2>2, ConnTypes DEF g, OnConn, Connecting
<1>4. CASE Exchanged(t)
  <2>1. /\ g \in 1 .. dialled /\ Goto(t, "initing", g)
        /\ sender' = [sender EXCEPT ![g] = "open"] /\ cur' = g
        /\ keyOf' = [keyOf EXCEPT ![g] = g]
        /\ UNCHANGED <<dialled, sock, file, updTask, loops, feed, calls, inited,
                       loggedIn, bare>>
    BY <1>1, <1>4 DEF Exchanged, TakeConnection, g, otherVars, updVars, callsVars,
                      serverVars, Connecting
  <2> QED
    BY <2>1, ConnTypes DEF g, OnConn, Connecting
<1>5. CASE ExchangeFails(t)
  <2>1. /\ g \in 1 .. dialled /\ Goto(t, "undoSocket", g)
        /\ sock' = [sock EXCEPT ![g] = "closed"]
        /\ UNCHANGED <<dialled, sender, keyOf, cur, file, updTask, loops, feed,
                       calls, inited, loggedIn, bare>>
    BY <1>1, <1>5 DEF ExchangeFails, g, clientVars, otherVars, updVars,
                      callsVars, serverVars, Connecting
  <2> QED
    BY <2>1, ConnTypes DEF g, OnConn, Connecting
<1>6. CASE InitFails(t)
  <2>1. /\ g \in 1 .. dialled /\ Goto(t, "undoSender", g)
        /\ sender' = ClosingSender(g)
        /\ inited' = inited \/ inited' = inited \cup {g}
        /\ UNCHANGED <<dialled, sock, keyOf, cur, file, updTask, loops, feed,
                       calls, loggedIn, bare>>
    BY <1>1, <1>6 DEF InitFails, g, updVars, callsVars, Connecting
  <2> QED
    BY <2>1, ConnTypes DEF g, OnConn, Connecting
<1>7. CASE SenderUndone(t)
  <2>1. /\ g \in 1 .. dialled /\ Goto(t, "undoSocket", g)
        /\ sender' = [sender EXCEPT ![g] = "closed"]
        /\ sock' = [sock EXCEPT ![g] = "closed"]
        /\ UNCHANGED <<dialled, keyOf, cur, file, updTask, loops, feed,
                       calls, inited, loggedIn, bare>>
    BY <1>1, <1>7 DEF SenderUndone, g, clientVars, otherVars, updVars,
                      callsVars, serverVars, Connecting
  <2> QED
    BY <2>1, ConnTypes DEF g, OnConn, Connecting
<1>8. CASE Initialised(t)
  <2>1. /\ AfterConnect(t, task[t].goal) /\ task[t].goal \in Goals
        /\ g \in Conns /\ inited' = inited \cup {g}
        /\ file' = IF cur = None THEN file ELSE keyOf[cur]
        /\ UNCHANGED <<dialled, sock, sender, keyOf, cur, feed, loggedIn>>
    BY <1>1, <1>8 DEF Initialised, g, wireVars, TypeOK, Placed, Connecting
  <2>2. AfterEffect(t)
    BY <2>1, AfterConnectDoes
  <2>3. file' \in Conns \cup {None}
    BY <2>1, CurrentConn DEF TypeOK, DataOK
  <2>4. DataOK'
    BY <2>1, <2>2, <2>3, AfterTypes DEF TypeOK, DataOK
  <2> QED
    BY <2>1, <2>2, <2>4, AfterTypes, TaskStep DEF TypeOK
<1> QED
  BY <1>2, <1>3, <1>4, <1>5, <1>6, <1>7, <1>8

LEMMA StartingTypes ==
    ASSUME TypeOK, NEW t \in Tasks,
           AskedFirst(t) \/ GotMe(t) \/ GotState(t) \/ StateFails(t)
    PROVE  TypeOK'
<1>1. task[t].goal \in Goals
  BY DEF TypeOK, Placed
<1>2. task[t].pc \in Asking => task[t].at \in Conns
  BY Bounds DEF TypeOK, Placed, OnConn, Conns
<1>3. CASE AskedFirst(t)
  <2>1. /\ task[t].at \in Conns /\ inited' = inited \cup {task[t].at}
        /\ UNCHANGED <<dialled, sock, sender, keyOf, cur, file, feed, loggedIn>>
    BY <1>2, <1>3 DEF AskedFirst, Asking, wireVars
  <2>2. CASE StartBody(t, task[t].goal)
    <3>1. StartEffect(t)
      BY <1>1, <2>2, StartDoes
    <3>2. DataOK'
      BY <2>1, <3>1, StartTypes DEF TypeOK, DataOK
    <3> QED
      BY <2>1, <3>1, <3>2, StartTypes, TaskStep DEF StartEffect, AskEffect, TypeOK
  <2>3. CASE /\ \E plain \in {"getMe", "getState"} :
                   Ask(t, task[t].goal, "initForMe", plain)
             /\ UNCHANGED <<updTask, loops, callsVars>>
    <3>1. PICK pcs \in SUBSET Asking : AskEffect(t, pcs) /\ BareEffect
      <4>1. PICK plain \in {"getMe", "getState"} :
               Ask(t, task[t].goal, "initForMe", plain)
        BY <2>3
      <4>2. {"initForMe", plain} \in SUBSET Asking
        BY DEF Asking
      <4>3. AskEffect(t, {"initForMe", plain}) /\ BareEffect
        BY <1>1, <4>1, AskDoes
      <4> QED
        BY <4>2, <4>3
    <3>2. Placed(task'[t], dialled)
      BY <3>1, AskPlaced
    <3>3. DataOK'
      BY <2>1, <2>3, <3>1 DEF TypeOK, DataOK, BareEffect, callsVars
    <3> QED
      BY <2>1, <3>1, <3>2, <3>3, TaskStep DEF AskEffect, TypeOK
  <2> QED
    BY <1>3, <2>2, <2>3 DEF AskedFirst
<1>4. CASE GotMe(t)
  <2>1. StartEffect(t) /\ UNCHANGED <<dialled, keyOf, sock, sender, cur, file,
                                      feed, inited, loggedIn>>
    BY <1>1, <1>4, StartDoes DEF GotMe, clientVars, wireVars
  <2>2. DataOK'
    BY <2>1, StartTypes DEF TypeOK, DataOK
  <2> QED
    BY <2>1, <2>2, StartTypes, TaskStep DEF StartEffect, AskEffect, TypeOK
<1>5. CASE GotState(t)
  <2>1. /\ NewLoop /\ Started(t, task[t].goal)
        /\ UNCHANGED <<dialled, keyOf, sock, sender, cur, file, feed, inited,
                       loggedIn, bare>>
    BY <1>5, CreateDoes DEF GotState, clientVars, wireVars, serverVars
  <2>2. calls' \in {"off", "on", "stopping"}
    BY <2>1, StartedDoes DEF StartedEffect, callsVars, TypeOK, DataOK
  <2>3. DataOK'
    BY <2>1, <2>2, NewLoopTypes DEF TypeOK, DataOK
  <2> QED
    BY <2>1, <2>3, StartedDoes, IdlePlaced, TaskStep DEF TypeOK
<1>6. CASE StateFails(t)
  BY <1>6, ReturnTypes DEF StateFails, wireVars, clientVars,
                           otherVars, updVars, callsVars, serverVars
<1> QED
  BY <1>3, <1>4, <1>5, <1>6

LEMMA StoppingTypes ==
    ASSUME TypeOK, NEW t \in Tasks,
           \/ StopEnds(t) \/ CallsStopped(t) \/ CloseStoppedUpdates(t)
           \/ CloseSenderEnds(t) \/ CloseSocketEnds(t)
    PROVE  TypeOK'
<1>1. CASE StopEnds(t)
  BY <1>1, ReturnTypes DEF StopEnds, FinishStop, wireVars, clientVars, serverVars
<1>2. CASE CallsStopped(t)
  <2>1. /\ calls' = "off"
        /\ UNCHANGED <<dialled, sock, keyOf, cur, feed, inited, loggedIn, bare>>
    BY <1>2 DEF CallsStopped, serverVars
  <2>2. CASE Return(t) /\ UNCHANGED <<file, updTask, loops, sender>>
    <3>1. DataOK'
      BY <2>1, <2>2 DEF TypeOK, DataOK
    <3> QED
      BY <2>1, <2>2, <3>1, ReturnMoves, IdlePlaced, TaskStep DEF TypeOK
  <2>3. CASE CloseBody(t, "facade")
    <3>1. CloseEffect(t) /\ StopEffect(t)
      BY <2>3, CloseDoes DEF Goals, CloseEffect
    <3>2. DataOK'
      BY <2>1, <3>1, StopTypes, CloseTypes DEF TypeOK, DataOK
    <3> QED
      BY <2>1, <3>1, <3>2, StopTypes, TaskStep DEF TypeOK
  <2> QED
    BY <1>2, <2>2, <2>3 DEF CallsStopped
<1>3. CASE CloseStoppedUpdates(t)
  <2>1. /\ CloseStopped(t, task[t].goal) /\ task[t].goal \in Goals
        /\ updTask' = None
        /\ UNCHANGED <<dialled, sock, keyOf, cur, file, loops, feed, calls,
                       inited, loggedIn, bare>>
    BY <1>3 DEF CloseStoppedUpdates, FinishStop, clientVars, serverVars, TypeOK,
                Placed
  <2>2. /\ DOMAIN task' = Tasks /\ Others(t) /\ SenderEffect
        /\ Placed(task'[t], dialled)
    BY <2>1, CloseStoppedDoes, IdlePlaced, ClosesPlaced
  <2>3. DataOK'
    BY <2>1, <2>2, SenderTypes DEF TypeOK, DataOK
  <2> QED
    BY <2>1, <2>2, <2>3, TaskStep DEF TypeOK
<1>4. CASE CloseSenderEnds(t)
  <2>1. task[t].at \in Conns /\ task[t].goal \in Goals
    BY <1>4, Bounds DEF CloseSenderEnds, TypeOK, Placed, OnConn, Conns
  <2>2. /\ sender' = [sender EXCEPT ![task[t].at] = "closed"]
        /\ UNCHANGED <<dialled, keyOf, cur, file, updTask, loops, feed, calls,
                       inited, loggedIn, bare>>
    BY <1>4 DEF CloseSenderEnds, clientVars, otherVars, updVars, callsVars,
                serverVars
  <2>3. sock' = sock \/ (cur # None /\ sock' = [sock EXCEPT ![cur] = "closed"])
    BY <1>4 DEF CloseSenderEnds
  <2>4. DataOK'
    BY <2>1, <2>2, <2>3, CurrentConn DEF TypeOK, DataOK
  <2>5. DOMAIN task' = Tasks /\ Others(t) /\ Placed(task'[t], dialled)
    <3>1. CASE Return(t)
      BY <3>1, ReturnMoves, IdlePlaced
    <3>2. CASE cur # None /\ Goto(t, "closeSocket", cur)
      BY <2>1, <3>2, GotoMoves, GotoPlaced, CurrentConn DEF OnConn
    <3> QED
      BY <1>4, <3>1, <3>2 DEF CloseSenderEnds
  <2> QED
    BY <2>2, <2>4, <2>5, TaskStep DEF TypeOK
<1>5. CASE CloseSocketEnds(t)
  BY <1>5, ReturnTypes DEF CloseSocketEnds, wireVars, updVars, serverVars
<1> QED
  BY <1>1, <1>2, <1>3, <1>4, <1>5

\* Steps of the loops, of the user who signs in, and crashes.
LEMMA OtherTypes ==
    /\ TypeOK /\ (\E l \in Loops : Run(l) \/ LoopTakes(l)) => TypeOK'
    /\ TypeOK /\ (\E t \in Tasks : Cancel(t)) => TypeOK'
    /\ TypeOK /\ (SignIn \/ Crash \/ UNCHANGED vars) => TypeOK'
<1> SUFFICES ASSUME TypeOK
             PROVE  /\ (\E l \in Loops : Run(l) \/ LoopTakes(l)) => TypeOK'
                    /\ (\E t \in Tasks : Cancel(t)) => TypeOK'
                    /\ (SignIn \/ Crash \/ UNCHANGED vars) => TypeOK'
  OBVIOUS
<1>1. ASSUME NEW l \in Loops, Run(l) \/ LoopTakes(l) PROVE TypeOK'
  <2>1. UNCHANGED <<task, dialled, sock, sender, keyOf, cur, file, updTask,
                    calls, loggedIn>>
    BY <1>1 DEF Run, LoopStarts, LoopTakes, LoopApplied, LoopDies, LoopEnds,
                wireVars, clientVars, callsVars, serverVars
  <2>2. \E st \in LiveStates \cup Ended :
           loops' = [loops EXCEPT ![l] = st]
    BY <1>1 DEF Run, LoopStarts, LoopTakes, LoopApplied, LoopDies, LoopEnds,
                NextMessage, LiveStates, Ended
  <2>3. feed' = feed \/ \E g \in {cur, None} : feed' = [feed EXCEPT ![l] = g]
    BY <1>1 DEF Run, LoopStarts, LoopTakes, LoopApplied, LoopDies, LoopEnds,
                NextMessage
  <2>4. /\ bare' \subseteq bare \cup {cur} /\ (bare' = bare \/ cur # None)
        /\ inited' \subseteq inited \cup {cur} /\ (inited' = inited \/ cur # None)
    BY <1>1 DEF Run, LoopStarts, LoopTakes, LoopApplied, LoopDies, LoopEnds,
                Note, CanSend, serverVars
  <2>5. bare' \subseteq Conns /\ inited' \subseteq Conns
    BY <2>4, CurrentConn DEF TypeOK, DataOK
  <2>6. cur \in Conns \cup {None}
    BY CurrentConn
  <2>7. DataOK'
    BY <2>1, <2>2, <2>3, <2>5, <2>6 DEF TypeOK, DataOK
  <2> QED
    BY <2>1, <2>7 DEF TypeOK
<1>2. ASSUME NEW t \in Tasks, Cancel(t) PROVE TypeOK'
  BY <1>2, ReturnTypes DEF Cancel, wireVars, clientVars, updVars, callsVars,
                           serverVars
<1>3. CASE SignIn
  <2>1. loggedIn' = loggedIn \cup {keyOf[cur]} /\ cur \in Conns
    BY <1>3, CurrentConn DEF SignIn, CanSend
  <2>2. DataOK'
    BY <1>3, <2>1 DEF SignIn, TypeOK, DataOK, wireVars, clientVars, updVars,
                      callsVars
  <2> QED
    BY <1>3, <2>2 DEF SignIn, TypeOK, wireVars
<1>4. CASE Crash
  <2>1. task' = [t \in Tasks |-> Idle]
    BY <1>4 DEF Crash
  <2>2. DOMAIN task' = Tasks /\ \A t \in Tasks : task'[t] = Idle
    BY <2>1
  <2>3. UNCHANGED <<dialled, keyOf, file, inited, loggedIn, bare>>
    BY <1>4 DEF Crash, serverVars
  <2>4. /\ sock' \in [Conns -> {"none", "open", "closed"}]
        /\ sender' \in [Conns -> {"none", "open", "closing", "closed"}]
    BY <1>4 DEF Crash, TypeOK, DataOK
  <2>5. /\ cur' \in 0 .. dialled' /\ updTask' = None /\ calls' = "off"
        /\ loops' \in [Loops -> LiveStates \cup Ended \cup {"none"}]
        /\ feed' \in [Loops -> Conns \cup {None}]
    BY <1>4, <2>3, Bounds DEF Crash, TypeOK, None
  <2>6. DataOK'
    BY <2>3, <2>4, <2>5 DEF TypeOK, DataOK
  <2> QED
    BY <2>2, <2>3, <2>6, IdlePlaced DEF TypeOK
<1>5. CASE UNCHANGED vars
  BY <1>5 DEF TypeOK, DataOK, vars, wireVars, clientVars, otherVars, updVars,
              callsVars, serverVars
<1> QED
  BY <1>1, <1>2, <1>3, <1>4, <1>5

LEMMA NextTypes == TypeOK /\ [Next]_vars => TypeOK'
<1>1. ASSUME NEW t \in Tasks, TypeOK, Continue(t) PROVE TypeOK'
  BY <1>1, ConnectTypes, StartingTypes, StoppingTypes DEF Continue
<1> QED
  BY <1>1, CallTypes, OtherTypes DEF Next

-----------------------------------------------------------------------------
(* Connections and their sockets.                                          *)

LEMMA WithoutStays ==
    ASSUME mixed \subseteq mixed', NEW kinds, Without(kinds)'
    PROVE  Without(kinds)
BY DEF Without

\* A task that does not connect any more leaves no socket but the current
\* one, and one that begins to close is alone.
LEMMA QuietConn ==
    ASSUME TypeOK, ConnInv, NEW t \in Tasks, Others(t),
           UNCHANGED <<dialled, sock, cur>>, mixed \subseteq mixed',
           task'[t].pc \notin Connecting \cup {"closeSocket"},
           task'[t].pc \in Closers =>
              \/ "stops" \in mixed' \/ task[t].pc \in Closers
              \/ \A u \in Tasks \ {t} : task[u].pc \notin Closers,
           task'[t].pc \in Closing => cur # None,
           task[t].pc = "exchanging" => "exchangeCut" \in mixed',
           task[t].pc # "undoSender"
    PROVE  ConnInv'
<1>1. /\ \A kinds : Without(kinds)' => Without(kinds)
      /\ Without({"stops"})' => "stops" \notin mixed'
      /\ Without({"connects", "stops", "exchangeCut"})' =>
            Without({"connects"})' /\ Without({"stops"})' /\ "exchangeCut" \notin mixed'
  BY WithoutStays DEF Without
<1>2. ConnectsAlone'
  BY <1>1 DEF ConnInv, ConnectsAlone, Others
<1>3. ClosesAlone'
  <2>1. ASSUME Without({"stops"})', NEW u \in Tasks, task'[u].pc \in Closers
        PROVE  /\ \A v \in Tasks \ {u} : task'[v].pc \notin Closers
               /\ task'[u].pc \in Closing => cur' # None
    <3>1. \A v \in Tasks : task[v].pc \in Closers =>
             /\ \A w \in Tasks \ {v} : task[w].pc \notin Closers
             /\ task[v].pc \in Closing => cur # None
      BY <1>1, <2>1 DEF ConnInv, ClosesAlone
    <3>2. CASE u = t
      BY <1>1, <2>1, <3>1, <3>2 DEF Others
    <3>3. CASE u # t
      <4>1. task[u].pc \in Closers /\ task'[t].pc \notin Closers
        BY <1>1, <2>1, <3>1, <3>3 DEF Others
      <4> QED
        BY <3>1, <3>3, <4>1 DEF Others
    <3> QED
      BY <3>2, <3>3
  <2> QED
    BY <2>1 DEF ClosesAlone
<1>4. SocketsGivenUp'
  BY <1>1 DEF ConnInv, SocketsGivenUp, Others, Connecting
<1>5. NoSocketLeftBehind'
  <2>1. ASSUME Without({"connects", "stops", "exchangeCut"}),
               Without({"connects", "stops", "exchangeCut"})',
               NEW g \in Conns, sock[g] = "open", g # cur
        PROVE  \E u \in Tasks : task'[u].pc \in Connecting /\ task'[u].at = g
    <3>1. PICK u \in Tasks : task[u].pc \in Connecting /\ task[u].at = g
      BY <2>1 DEF ConnInv, NoSocketLeftBehind, Without
    <3>2. u # t
      <4>1. ~(task[t].pc \in {"dialing", "undoSocket", "initing"}
              /\ task[t].at = g)
        BY <2>1 DEF ConnInv, SocketsGivenUp
      <4> QED
        BY <1>1, <2>1, <3>1, <4>1 DEF Connecting
    <3> QED
      BY <3>1, <3>2 DEF Others
  <2> QED
    BY <1>1, <2>1 DEF NoSocketLeftBehind, Without
<1>6. Undialled'
  BY DEF ConnInv, Undialled
<1> QED
  BY <1>2, <1>3, <1>4, <1>5, <1>6 DEF ConnInv

\* The task dials, when there is no connection.
LEMMA DialConn ==
    ASSUME TypeOK, ConnInv, NEW t \in Tasks, Others(t), task[t].pc = "idle",
           cur = None, UNCHANGED <<sock, cur>>,
           dialled < MaxConns, dialled' = dialled + 1,
           task'[t].pc = "dialing", task'[t].at = dialled',
           mixed \subseteq mixed',
           "connects" \notin mixed' =>
              \A u \in Tasks \ {t} : task[u].pc \notin Connecting
    PROVE  ConnInv'
<1>1. /\ \A kinds : Without(kinds)' => Without(kinds)
      /\ Without({"connects"})' => "connects" \notin mixed'
      /\ Without({"connects", "stops", "exchangeCut"})' =>
            Without({"connects"})' /\ Without({"stops"})'
  BY WithoutStays DEF Without
<1>2. "dialing" \in Connecting /\ "dialing" \notin Closers /\ "idle" \notin Connecting
  BY DEF Connecting, Closers, Closing
<1>3. ConnectsAlone'
  <2>1. ASSUME Without({"connects"})', NEW u \in Tasks, task'[u].pc \in Connecting
        PROVE  u = t
    BY <1>1, <2>1 DEF Others
  <2> QED
    BY <1>2, <2>1 DEF ConnectsAlone
<1>4. ClosesAlone'
  BY <1>1, <1>2 DEF ConnInv, ClosesAlone, Others
<1>5. sock[dialled'] = "none"
  BY Bounds DEF ConnInv, Undialled, TypeOK, Conns
<1>6. SocketsGivenUp'
  BY <1>1, <1>5 DEF ConnInv, SocketsGivenUp, Others
<1>7. NoSocketLeftBehind'
  <2>1. ASSUME Without({"connects", "stops", "exchangeCut"}),
               NEW g \in Conns, sock[g] = "open", g # cur
        PROVE  \E u \in Tasks : task'[u].pc \in Connecting /\ task'[u].at = g
    <3>1. PICK u \in Tasks : task[u].pc \in Connecting /\ task[u].at = g
      BY <2>1 DEF ConnInv, NoSocketLeftBehind, Without
    <3> QED
      BY <1>2, <3>1 DEF Others
  <2> QED
    BY <1>1, <2>1 DEF NoSocketLeftBehind, Without
<1>8. Undialled'
  BY Bounds DEF ConnInv, Undialled, TypeOK, Conns
<1> QED
  BY <1>3, <1>4, <1>6, <1>7, <1>8 DEF ConnInv

\* The task that connects goes on: the socket is opened for it, and the
\* connection becomes the current one, only while there is none.
LEMMA GoOnConn ==
    ASSUME TypeOK, ConnInv, NEW t \in Tasks, Others(t), NEW g, g = task[t].at,
           UNCHANGED <<dialled, mixed>>,
           task[t].pc \in Connecting, task'[t].at = g,
           task'[t].pc \in {"exchanging", "initing", "undoSender", "undoSocket"},
           \/ sock' = sock
           \/ sock' = [sock EXCEPT ![g] = "open"] /\ task[t].pc = "dialing"
           \/ sock' = [sock EXCEPT ![g] = "closed"],
           cur' = cur \/ (cur' = g /\ task[t].pc \in {"dialing", "exchanging"}),
           task'[t].pc = "initing" =>
              cur' = g /\ task[t].pc \in {"dialing", "exchanging"},
           task'[t].pc = "exchanging" => task[t].pc = "dialing" /\ cur' = cur,
           task'[t].pc = "undoSocket" => sock'[g] # "open"
    PROVE  ConnInv'
<1>1. /\ \A kinds : Without(kinds)' = Without(kinds)
      /\ Without({"connects", "stops", "exchangeCut"}) =>
            Without({"connects"}) /\ Without({"stops"})
  BY DEF Without
<1>2. /\ g \in Conns /\ g \in 1 .. dialled /\ g # None
      /\ task'[t].pc \in Connecting /\ task'[t].pc \notin Closers
      /\ task[t].pc \notin Closers
  BY Bounds DEF TypeOK, Placed, OnConn, Conns, Connecting, Closers, Closing, None
<1>3. Without({"connects"}) =>
         /\ \A u \in Tasks \ {t} : task[u].pc \notin Connecting
         /\ task[t].pc \in {"dialing", "exchanging"} => cur = None
  BY DEF ConnInv, ConnectsAlone
<1>4. ConnectsAlone'
  <2>1. ASSUME Without({"connects"}) PROVE ConnectsAlone'
    BY <1>1, <1>2, <1>3, <2>1 DEF ConnectsAlone, Others
  <2> QED
    BY <1>1, <2>1 DEF ConnectsAlone
<1>5. ClosesAlone'
  BY <1>1, <1>2 DEF ConnInv, ClosesAlone, Others
<1>6. \A h \in Conns \ {g} : sock'[h] = sock[h]
  BY <1>2 DEF TypeOK, DataOK
<1>7. SocketsGivenUp'
  <2>1. ASSUME Without({"connects", "stops", "exchangeCut"}), NEW u \in Tasks
        PROVE  /\ task'[u].pc \in {"dialing", "undoSocket"}
                     => sock'[task'[u].at] # "open"
               /\ task'[u].pc = "initing"
                     => task'[u].at = cur' \/ sock'[task'[u].at] # "open"
               /\ task'[u].pc = "closeSocket" => cur' # None /\ sock'[cur'] # "open"
    <3>1. CASE u = t
      BY <3>1
    <3>2. CASE u # t
      <4>1. task'[u] = task[u] /\ task[u].pc \notin Connecting
        BY <1>1, <1>3, <2>1, <3>2 DEF Others
      <4>2. task[u].pc = "closeSocket" => cur # None /\ sock[cur] # "open"
        BY <2>1 DEF ConnInv, SocketsGivenUp
      <4>3. task[u].pc = "closeSocket" =>
               cur' = cur /\ task[t].pc # "dialing" /\ sock'[cur] # "open"
        <5>1. ASSUME task[u].pc = "closeSocket"
              PROVE  cur' = cur /\ task[t].pc # "dialing" /\ cur \in Conns
          BY <1>1, <1>3, <2>1, <4>2, <5>1, CurrentConn
        <5>2. ASSUME task[u].pc = "closeSocket" PROVE sock'[cur] # "open"
          BY <1>2, <1>6, <4>2, <5>1, <5>2 DEF TypeOK, DataOK
        <5> QED
          BY <5>1, <5>2
      <4> QED
        BY <4>1, <4>2, <4>3 DEF Connecting
    <3> QED
      BY <3>1, <3>2
  <2> QED
    BY <1>1, <2>1 DEF SocketsGivenUp
<1>8. NoSocketLeftBehind'
  <2>1. ASSUME Without({"connects", "stops", "exchangeCut"}),
               NEW h \in Conns, sock'[h] = "open", h # cur'
        PROVE  \E u \in Tasks : task'[u].pc \in Connecting /\ task'[u].at = h
    <3>1. CASE h = g
      BY <1>2, <3>1
    <3>2. CASE h # g
      <4>1. sock[h] = "open"
        BY <1>6, <2>1, <3>2
      <4>2. h # cur
        BY <1>1, <1>3, <2>1 DEF None, Conns
      <4>3. PICK u \in Tasks : task[u].pc \in Connecting /\ task[u].at = h
        BY <2>1, <4>1, <4>2 DEF ConnInv, NoSocketLeftBehind, Without
      <4> QED
        BY <3>2, <4>3 DEF Others
    <3> QED
      BY <3>1, <3>2
  <2> QED
    BY <1>1, <2>1 DEF NoSocketLeftBehind, Without
<1>9. Undialled'
  BY <1>2, <1>6, Bounds DEF ConnInv, Undialled, TypeOK, Conns
<1> QED
  BY <1>4, <1>5, <1>7, <1>8, <1>9 DEF ConnInv

\* The task that closes goes on: the current socket is closed, and then the
\* connection is forgotten.
LEMMA CloseOnConn ==
    ASSUME TypeOK, ConnInv, NEW t \in Tasks, CloseSenderEnds(t) \/ CloseSocketEnds(t)
    PROVE  ConnInv'
<1>1. /\ UNCHANGED <<dialled, mixed>>
      /\ task[t].pc \in {"closeSender", "closeSocket"}
  BY DEF CloseSenderEnds, CloseSocketEnds, wireVars, otherVars
<1>2. /\ \A kinds : Without(kinds)' = Without(kinds)
      /\ Without({"connects", "stops", "exchangeCut"}) =>
            Without({"connects"}) /\ Without({"stops"})
      /\ task[t].pc \in Closers \cap Closing /\ task[t].pc \notin Connecting
  BY <1>1 DEF Without, Closers, Closing, Connecting
<1>3. Without({"stops"}) =>
         /\ \A u \in Tasks \ {t} : task[u].pc \notin Closers
         /\ cur # None
  BY <1>2 DEF ConnInv, ClosesAlone
<1>4. /\ Others(t)
      /\ \/ task'[t] = Idle /\ cur' = None /\ sock' = sock
            /\ task[t].pc = "closeSocket"
         \/ task'[t] = Idle /\ cur' = cur /\ sock' = sock /\ cur = None
         \/ /\ task'[t].pc = "closeSocket" /\ cur' = cur /\ cur # None
            /\ sock' = [sock EXCEPT ![cur] = "closed"]
  <2>1. CASE CloseSocketEnds(t)
    BY <2>1, ReturnMoves DEF CloseSocketEnds, wireVars
  <2>2. CASE CloseSenderEnds(t)
    <3>1. CASE cur = None /\ Return(t) /\ UNCHANGED <<sock, cur>>
      BY <3>1, ReturnMoves
    <3>2. CASE /\ cur # None /\ sock' = [sock EXCEPT ![cur] = "closed"]
               /\ Goto(t, "closeSocket", cur) /\ UNCHANGED cur
      <4>1. Others(t) /\ task'[t] = At("closeSocket", cur, task[t].goal)
        BY <3>2, GotoMoves
      <4>2. task'[t].pc = "closeSocket"
        BY <4>1 DEF At
      <4> QED
        BY <3>2, <4>1, <4>2
    <3> QED
      BY <2>2, <3>1, <3>2 DEF CloseSenderEnds, clientVars
  <2> QED
    BY <2>1, <2>2
<1>5. /\ task'[t].pc \notin Connecting
      /\ task'[t].pc \in Closers => task'[t].pc = "closeSocket" /\ cur' # None
      /\ cur' = cur \/ cur' = None
  BY <1>4 DEF Idle, Connecting, Closers, Closing
<1>6. /\ \A h \in Conns : sock'[h] = "open" => sock[h] = "open" /\ sock'[h] = sock[h]
      /\ \A h \in Conns : h > dialled => sock'[h] = sock[h]
      /\ task'[t].pc = "closeSocket" => sock'[cur'] # "open"
  <2>1. CASE task'[t] = Idle /\ sock' = sock
    BY <2>1 DEF Idle
  <2>2. CASE cur # None /\ sock' = [sock EXCEPT ![cur] = "closed"] /\ cur' = cur
    <3>1. cur \in Conns /\ cur <= dialled /\ dialled \in Nat
      BY <2>2, CurrentConn, Bounds DEF TypeOK
    <3>2. sock \in [Conns -> {"none", "open", "closed"}]
      BY DEF TypeOK, DataOK
    <3>3. sock'[cur] = "closed" /\ \A h \in Conns \ {cur} : sock'[h] = sock[h]
      BY <2>2, <3>1, <3>2
    <3> QED
      BY <2>2, <3>1, <3>3, Bounds DEF Conns
  <2> QED
    BY <1>4, <2>1, <2>2
<1>7. ConnectsAlone'
  BY <1>2, <1>4, <1>5 DEF ConnInv, ConnectsAlone, Others
<1>8. ClosesAlone'
  <2>1. ASSUME Without({"stops"}), NEW u \in Tasks, task'[u].pc \in Closers
        PROVE  u = t
    BY <1>3, <1>4, <2>1 DEF Others
  <2> QED
    BY <1>2, <1>5, <2>1 DEF ClosesAlone
<1>9. SocketsGivenUp'
  <2>1. ASSUME Without({"connects", "stops", "exchangeCut"}), NEW u \in Tasks \ {t}
        PROVE  /\ task'[u].pc \in {"dialing", "undoSocket"}
                     => sock'[task'[u].at] # "open"
               /\ task'[u].pc = "initing"
                     => task'[u].at = cur' \/ sock'[task'[u].at] # "open"
               /\ task'[u].pc # "closeSocket"
    <3>1. task'[u] = task[u]
      BY <1>4 DEF Others
    <3>2. task[u].pc # "closeSocket"
      BY <1>2, <1>3, <2>1 DEF Closers, Closing
    <3>3. task[u].pc \in Connecting => task[u].at \in Conns
      BY Bounds DEF TypeOK, Placed, OnConn, Conns
    <3>4. task[u].pc \in {"dialing", "undoSocket"} => sock'[task[u].at] # "open"
      BY <1>6, <2>1, <3>3 DEF ConnInv, SocketsGivenUp, Connecting
    <3>5. task[u].pc = "initing" => task[u].at = cur \/ sock'[task[u].at] # "open"
      BY <1>6, <2>1, <3>3 DEF ConnInv, SocketsGivenUp, Connecting
    <3>6. task[u].pc = "initing" /\ cur' # cur => sock'[cur] # "open"
      <4>1. task[t].pc = "closeSocket" /\ cur' # cur =>
               cur \in Conns /\ sock[cur] # "open"
        BY <2>1, CurrentConn, <1>2, <1>3 DEF ConnInv, SocketsGivenUp
      <4> QED
        BY <1>4, <1>6, <4>1
    <3> QED
      BY <3>1, <3>2, <3>4, <3>5, <3>6
  <2>2. /\ task'[t].pc = "closeSocket" => cur' # None /\ sock'[cur'] # "open"
        /\ task'[t].pc \notin {"dialing", "undoSocket", "initing"}
    BY <1>5, <1>6 DEF Connecting, Closers, Closing
  <2> QED
    BY <1>2, <2>1, <2>2 DEF SocketsGivenUp
<1>10. NoSocketLeftBehind'
  <2>1. ASSUME Without({"connects", "stops", "exchangeCut"}),
               NEW h \in Conns, sock'[h] = "open", h # cur'
        PROVE  \E u \in Tasks : task'[u].pc \in Connecting /\ task'[u].at = h
    <3>1. sock[h] = "open"
      BY <1>6, <2>1
    <3>2. h # cur
      <4>1. task[t].pc = "closeSocket" => sock[cur] # "open"
        BY <2>1 DEF ConnInv, SocketsGivenUp
      <4> QED
        BY <1>4, <2>1, <3>1, <4>1
    <3>3. PICK u \in Tasks : task[u].pc \in Connecting /\ task[u].at = h
      BY <2>1, <3>1, <3>2 DEF ConnInv, NoSocketLeftBehind, Without
    <3> QED
      BY <1>2, <1>4, <3>3 DEF Others
  <2> QED
    BY <1>2, <2>1 DEF NoSocketLeftBehind, Without
<1>11. Undialled'
  BY <1>1, <1>6 DEF ConnInv, Undialled
<1> QED
  BY <1>7, <1>8, <1>9, <1>10, <1>11 DEF ConnInv

LEMMA StillConn ==
    ASSUME ConnInv, UNCHANGED <<task, dialled, sock, cur, mixed>>
    PROVE  ConnInv'
BY DEF ConnInv, ConnectsAlone, ClosesAlone, SocketsGivenUp, Undialled,
       NoSocketLeftBehind, Without

LEMMA CrashConn ==
    ASSUME TypeOK, ConnInv, Crash
    PROVE  ConnInv'
<1>1. /\ \A u \in Tasks : task'[u].pc = "idle"
      /\ \A g \in Conns : sock'[g] # "open" /\ (sock[g] = "none" => sock'[g] = "none")
      /\ dialled' = dialled
  BY DEF Crash, Idle
<1>2. "idle" \notin Connecting \cup Closers
  BY DEF Connecting, Closers, Closing
<1>3. ConnectsAlone' /\ ClosesAlone' /\ SocketsGivenUp'
  BY <1>1, <1>2 DEF ConnectsAlone, ClosesAlone, SocketsGivenUp
<1>4. NoSocketLeftBehind' /\ Undialled'
  BY <1>1 DEF NoSocketLeftBehind, Undialled, ConnInv
<1> QED
  BY <1>3, <1>4 DEF ConnInv

\* What a task may not do where it is, for ConnInv to be kept.
LEMMA ReturnConn ==
    ASSUME TypeOK, ConnInv, NEW t \in Tasks, Others(t), task'[t] = Idle,
           UNCHANGED <<dialled, sock, cur>>, mixed \subseteq mixed',
           task[t].pc = "exchanging" => "exchangeCut" \in mixed',
           task[t].pc # "undoSender"
    PROVE  ConnInv'
<1>1. task'[t].pc \notin Connecting \cup {"closeSocket"} \cup Closers \cup Closing
  BY DEF Idle, Connecting, Closers, Closing
<1> QED
  BY <1>1, QuietConn

LEMMA AskConn ==
    ASSUME TypeOK, ConnInv, NEW t \in Tasks,
           NEW pcs \in SUBSET Asking, AskEffect(t, pcs),
           UNCHANGED <<dialled, sock, cur>>, mixed \subseteq mixed',
           task[t].pc \notin {"exchanging", "undoSender"}
    PROVE  ConnInv'
<1>1. CASE task'[t] = Idle
  BY <1>1, ReturnConn DEF AskEffect
<1>2. CASE task'[t].pc \in Asking
  <2>1. task'[t].pc \notin Connecting \cup {"closeSocket"} \cup Closers \cup Closing
    BY <1>2 DEF Asking, Connecting, Closers, Closing
  <2> QED
    BY <2>1, QuietConn DEF AskEffect
<1> QED
  BY <1>1, <1>2 DEF AskEffect

LEMMA AfterConn ==
    ASSUME TypeOK, ConnInv, NEW t \in Tasks, AfterEffect(t),
           UNCHANGED <<dialled, sock, cur>>,
           task[t].pc \notin {"exchanging", "undoSender"}
    PROVE  ConnInv'
<1>1. /\ \E pcs \in SUBSET Asking : AskEffect(t, pcs)
      /\ mixed \subseteq mixed'
  <2>1. Starters \in SUBSET Asking /\ {"initForMe", "getMe"} \in SUBSET Asking
    BY DEF Starters, Asking
  <2> QED
    BY <2>1 DEF AfterEffect, StartEffect
<1> QED
  BY <1>1, AskConn

LEMMA StopConn ==
    ASSUME TypeOK, ConnInv, NEW t \in Tasks, StopEffect(t),
           task'[t].pc \in Closing => cur # None,
           UNCHANGED <<dialled, sock, cur>>, mixed \subseteq mixed',
           "stops" \notin mixed' => \A u \in Tasks \ {t} : task[u].pc \notin Closers,
           task[t].pc \notin {"exchanging", "undoSender"}
    PROVE  ConnInv'
<1>1. task'[t].pc \in {"idle", "closeSender", "stopping", "closeStopping"}
  BY DEF StopEffect, ClosesConn, Idle, Stoppers
<1>2. task'[t].pc \notin Connecting \cup {"closeSocket"}
  BY <1>1 DEF Connecting
<1> QED
  BY <1>2, QuietConn DEF StopEffect

LEMMA CloseConn ==
    ASSUME TypeOK, ConnInv, NEW t \in Tasks, CloseEffect(t),
           UNCHANGED <<dialled, sock, cur>>,
           task[t].pc \notin {"exchanging", "undoSender"}
    PROVE  ConnInv'
<1>1. task'[t].pc \in Closing => cur # None
  BY DEF CloseEffect, Idle, Closing
<1> QED
  BY <1>1, StopConn DEF CloseEffect

LEMMA CallConn ==
    ASSUME TypeOK, ConnInv, NEW t \in Tasks, Call(t)
    PROVE  ConnInv'
<1>1. task[t].pc = "idle"
  BY DEF Call, Connect, StartUpdates, StopCalls, StopUpdates, Close
<1>2. ASSUME NEW goal \in Goals, Connect(t, goal) PROVE ConnInv'
  <2>1. CASE cur # None
    <3>1. AfterEffect(t) /\ UNCHANGED <<dialled, sock, cur>>
      BY <1>2, <2>1, AfterConnectDoes DEF Connect, clientVars
    <3> QED
      BY <1>1, <3>1, AfterConn
  <2>2. CASE cur = None
    <3>1. /\ dialled < MaxConns /\ dialled' = dialled + 1
          /\ task' = [task EXCEPT ![t] = At("dialing", dialled', goal)]
          /\ UNCHANGED <<sock, cur>> /\ mixed \subseteq mixed'
          /\ "connects" \notin mixed' =>
                \A u \in Tasks \ {t} : task[u].pc \notin Connecting
      BY <1>2, <2>2 DEF Connect, clientVars, Note, Elsewhere
    <3>2. Others(t) /\ task'[t] = At("dialing", dialled', goal)
      BY <3>1, Moves
    <3>3. task'[t].pc = "dialing" /\ task'[t].at = dialled'
      BY <3>2 DEF At
    <3> QED
      BY <1>1, <2>2, <3>1, <3>2, <3>3, DialConn
  <2> QED
    BY <2>1, <2>2
<1>3. ASSUME NEW goal \in Goals, StartUpdates(t, goal) PROVE ConnInv'
  <2>1. StartEffect(t) /\ UNCHANGED <<dialled, sock, cur>>
    BY <1>3, StartDoes DEF StartUpdates, clientVars, wireVars
  <2> QED
    BY <1>1, <2>1, AfterConn DEF AfterEffect
<1>4. ASSUME NEW goal \in Goals, StopCalls(t, goal) PROVE ConnInv'
  <2>1. /\ task' = [task EXCEPT ![t] = At("callsStopping", None, goal)]
        /\ UNCHANGED <<dialled, sock, cur, mixed>>
    BY <1>4 DEF StopCalls, wireVars, clientVars
  <2>2. Others(t) /\ task'[t] = At("callsStopping", None, goal)
    BY <2>1, Moves
  <2>3. task'[t].pc = "callsStopping"
    BY <2>2 DEF At
  <2>4. "callsStopping" \notin Connecting \cup {"closeSocket"} \cup Closers \cup Closing
    BY DEF Connecting, Closers, Closing
  <2> QED
    BY <1>1, <2>1, <2>2, <2>3, <2>4, QuietConn
<1>5. ASSUME StopUpdates(t) PROVE ConnInv'
  <2>1. StopEffect(t) /\ task'[t].pc \notin Closing
    BY <1>5, StopDoes DEF StopUpdates, Goals
  <2>2. /\ UNCHANGED <<dialled, sock, cur>> /\ mixed \subseteq mixed'
        /\ "stops" \notin mixed' =>
              \A u \in Tasks \ {t} : task[u].pc \notin Closers
    BY <1>5 DEF StopUpdates, clientVars, Note, Elsewhere, Closers
  <2> QED
    BY <1>1, <2>1, <2>2, StopConn
<1>6. ASSUME Close(t) PROVE ConnInv'
  <2>1. CloseEffect(t) /\ UNCHANGED <<dialled, sock, cur>>
    BY <1>6, CloseDoes DEF Close, Goals
  <2> QED
    BY <1>1, <2>1, CloseConn
<1> QED
  BY <1>2, <1>3, <1>4, <1>5, <1>6 DEF Call

LEMMA ConnectConn ==
    ASSUME TypeOK, ConnInv, NEW t \in Tasks,
           \/ DialFails(t) \/ Dialled(t) \/ Exchanged(t) \/ ExchangeFails(t)
           \/ Initialised(t) \/ InitFails(t) \/ SenderUndone(t) \/ SocketUndone(t)
    PROVE  ConnInv'
<1> DEFINE g == task[t].at
<1>1. task[t].pc \in Connecting /\ g \in Conns
  BY Bounds DEF TypeOK, Placed, OnConn, Conns, DialFails, Dialled, Exchanged,
                ExchangeFails, Initialised, InitFails, SenderUndone, SocketUndone,
                Connecting
<1>2. CASE DialFails(t) \/ SocketUndone(t)
  BY <1>2, ReturnMoves, ReturnConn DEF DialFails, SocketUndone, wireVars,
                                       clientVars, otherVars
<1>3. ASSUME NEW pc, Goto(t, pc, g)
      PROVE  Others(t) /\ task'[t].pc = pc /\ task'[t].at = g
  <2>1. Others(t) /\ task'[t] = At(pc, g, task[t].goal)
    BY <1>3, GotoMoves
  <2> QED
    BY <2>1 DEF At
<1>4. \A st : /\ sock' = [sock EXCEPT ![g] = st] => sock'[g] = st
  BY <1>1 DEF TypeOK, DataOK
<1> HIDE DEF g
<1>5. CASE Dialled(t)
  <2>1. /\ task[t].pc = "dialing" /\ sock' = [sock EXCEPT ![g] = "open"]
        /\ \/ Goto(t, "initing", g) /\ cur' = g
           \/ Goto(t, "exchanging", g) /\ cur' = cur
        /\ UNCHANGED <<dialled, mixed>>
    BY <1>5 DEF Dialled, TakeConnection, g, otherVars
  <2>2. CASE Goto(t, "initing", g) /\ cur' = g
    <3>1. Others(t) /\ task'[t].pc = "initing" /\ task'[t].at = g
      BY <1>3, <2>2
    <3> QED
      BY <1>1, <2>1, <2>2, <3>1, GoOnConn DEF g
  <2>3. CASE Goto(t, "exchanging", g) /\ cur' = cur
    <3>1. Others(t) /\ task'[t].pc = "exchanging" /\ task'[t].at = g
      BY <1>3, <2>3
    <3> QED
      BY <1>1, <2>1, <2>3, <3>1, GoOnConn DEF g
  <2> QED
    BY <2>1, <2>2, <2>3
<1>6. CASE Exchanged(t)
  <2>1. /\ task[t].pc = "exchanging" /\ Goto(t, "initing", g) /\ cur' = g
        /\ UNCHANGED <<dialled, sock, mixed>>
    BY <1>6 DEF Exchanged, TakeConnection, g, otherVars
  <2> QED
    BY <1>1, <1>3, <2>1, GoOnConn DEF g
<1>7. CASE ExchangeFails(t) \/ SenderUndone(t)
  <2>1. /\ Goto(t, "undoSocket", g) /\ sock' = [sock EXCEPT ![g] = "closed"]
        /\ UNCHANGED <<dialled, cur, mixed>>
    BY <1>7 DEF ExchangeFails, SenderUndone, g, clientVars, otherVars
  <2> QED
    BY <1>1, <1>3, <1>4, <2>1, GoOnConn DEF g
<1>8. CASE InitFails(t)
  <2>1. /\ Goto(t, "undoSender", g) /\ UNCHANGED <<dialled, sock, cur, mixed>>
    BY <1>8 DEF InitFails, g, clientVars, otherVars
  <2> QED
    BY <1>1, <1>3, <2>1, GoOnConn DEF g
<1>9. CASE Initialised(t)
  <2>1. /\ AfterConnect(t, task[t].goal) /\ task[t].goal \in Goals
        /\ task[t].pc = "initing" /\ UNCHANGED <<dialled, sock, cur>>
    BY <1>9 DEF Initialised, wireVars, TypeOK, Placed
  <2> QED
    BY <2>1, AfterConnectDoes, AfterConn
<1> QED
  BY <1>2, <1>5, <1>6, <1>7, <1>8, <1>9

LEMMA RestConn ==
    ASSUME TypeOK, ConnInv, NEW t \in Tasks,
           \/ AskedFirst(t) \/ GotMe(t) \/ GotState(t) \/ StateFails(t)
           \/ StopEnds(t) \/ CallsStopped(t) \/ CloseStoppedUpdates(t)
           \/ Cancel(t)
    PROVE  ConnInv'
<1>1. task[t].goal \in Goals
  BY DEF TypeOK, Placed
<1>2. CASE StateFails(t) \/ StopEnds(t)
  BY <1>2, ReturnMoves, ReturnConn DEF StateFails, StopEnds, wireVars, clientVars,
                                       otherVars
<1>3. CASE Cancel(t)
  <2>1. /\ Others(t) /\ task'[t] = Idle /\ UNCHANGED <<dialled, sock, cur>>
        /\ mixed \subseteq mixed' /\ task[t].pc # "undoSender"
        /\ task[t].pc = "exchanging" => "exchangeCut" \in mixed'
    BY <1>3, ReturnMoves DEF Cancel, wireVars, clientVars, Note, Asking
  <2> QED
    BY <2>1, ReturnConn
<1>4. CASE GotMe(t)
  <2>1. /\ StartEffect(t) /\ UNCHANGED <<dialled, sock, cur>>
        /\ task[t].pc \notin {"exchanging", "undoSender"}
    BY <1>1, <1>4, StartDoes DEF GotMe, clientVars, wireVars
  <2> QED
    BY <2>1, AfterConn DEF AfterEffect
<1>5. CASE GotState(t)
  <2>1. /\ Others(t) /\ task'[t] = Idle /\ UNCHANGED <<dialled, sock, cur>>
        /\ mixed \subseteq mixed' /\ task[t].pc = "getState"
    BY <1>5, StartedDoes DEF GotState, clientVars, wireVars
  <2> QED
    BY <2>1, ReturnConn
<1>6. CASE AskedFirst(t)
  <2>1. /\ UNCHANGED <<dialled, sock, cur>>
        /\ task[t].pc \notin {"exchanging", "undoSender"}
    BY <1>6 DEF AskedFirst, wireVars
  <2>2. CASE StartBody(t, task[t].goal)
    BY <1>1, <2>1, <2>2, StartDoes, AfterConn DEF AfterEffect
  <2>3. ASSUME NEW plain \in {"getMe", "getState"},
               Ask(t, task[t].goal, "initForMe", plain), mixed' = mixed
        PROVE  ConnInv'
    <3>1. {"initForMe", plain} \in SUBSET Asking
      BY DEF Asking
    <3> QED
      BY <1>1, <2>1, <2>3, <3>1, AskDoes, AskConn
  <2> QED
    BY <1>6, <2>2, <2>3 DEF AskedFirst
<1>7. CASE CallsStopped(t)
  <2>1. task[t].pc = "callsStopping" /\ UNCHANGED <<dialled, sock, cur>>
    BY <1>7 DEF CallsStopped
  <2>2. CASE Return(t) /\ mixed' = mixed
    BY <2>1, <2>2, ReturnMoves, ReturnConn
  <2>3. CASE CloseBody(t, "facade")
    BY <2>1, <2>3, CloseDoes, CloseConn DEF Goals
  <2> QED
    BY <1>7, <2>2, <2>3 DEF CallsStopped
<1>8. CASE CloseStoppedUpdates(t)
  <2>1. /\ task[t].pc = "closeStopping" /\ CloseStopped(t, task[t].goal)
        /\ UNCHANGED <<dialled, sock, cur, mixed>>
    BY <1>8 DEF CloseStoppedUpdates, clientVars
  <2>2. Others(t) /\ (task'[t] = Idle \/ ClosesConn(t))
    BY <1>1, <2>1, CloseStoppedDoes
  <2>3. CASE task'[t] = Idle
    BY <2>1, <2>2, <2>3, ReturnConn
  <2>4. CASE ClosesConn(t)
    <3>1. /\ task[t].pc \in Closers
          /\ task'[t].pc \notin Connecting \cup {"closeSocket"} /\ cur # None
      BY <2>1, <2>4 DEF ClosesConn, Connecting, Closers, Closing
    <3> QED
      BY <2>1, <2>2, <3>1, QuietConn
  <2> QED
    BY <2>2, <2>3, <2>4
<1> QED
  BY <1>2, <1>3, <1>4, <1>5, <1>6, <1>7, <1>8

LEMMA NextConn == TypeOK /\ ConnInv /\ [Next]_vars => ConnInv'
<1> SUFFICES ASSUME TypeOK, ConnInv, [Next]_vars PROVE ConnInv'
  OBVIOUS
<1>1. ASSUME NEW t \in Tasks, Continue(t) \/ Cancel(t) PROVE ConnInv'
  BY <1>1, ConnectConn, RestConn, CloseOnConn DEF Continue
<1>2. ASSUME NEW l \in Loops, Run(l) \/ LoopTakes(l) PROVE ConnInv'
  BY <1>2, StillConn DEF Run, LoopStarts, LoopTakes, LoopApplied, LoopDies,
                         LoopEnds, wireVars, clientVars
<1>3. CASE SignIn \/ UNCHANGED vars
  BY <1>3, StillConn DEF SignIn, vars, wireVars, clientVars, otherVars
<1> QED
  BY <1>1, <1>2, <1>3, CallConn, CrashConn DEF Next

\* A step is one of one task, or of none.
LEMMA TaskMoves ==
    ASSUME TypeOK, NEW t \in Tasks, Call(t) \/ Continue(t) \/ Cancel(t)
    PROVE  Others(t)
<1>1. task[t].goal \in Goals
  BY DEF TypeOK, Placed
<1>2. /\ AfterEffect(t) => Others(t)
      /\ StopEffect(t) => Others(t)
      /\ CloseEffect(t) => Others(t)
      /\ Return(t) => Others(t)
      /\ \A pc, g : Goto(t, pc, g) => Others(t)
      /\ \A p : task' = [task EXCEPT ![t] = p] => Others(t)
  BY ReturnMoves, GotoMoves, Moves
     DEF AfterEffect, StartEffect, AskEffect, StopEffect, CloseEffect
<1>3. ASSUME NEW goal \in Goals
      PROVE  /\ StartBody(t, goal) => Others(t)
             /\ AfterConnect(t, goal) => Others(t)
             /\ StopBody(t, goal, FALSE) => Others(t)
             /\ CloseBody(t, goal) => Others(t)
             /\ CloseStopped(t, goal) => Others(t)
             /\ Started(t, goal) => Others(t)
             /\ \A w, p : Ask(t, goal, w, p) => Others(t)
  <2>1. StartBody(t, goal) \/ AfterConnect(t, goal) => AfterEffect(t)
    BY StartDoes, AfterConnectDoes DEF AfterEffect
  <2>2. StopBody(t, goal, FALSE) => StopEffect(t)
    BY StopDoes
  <2>3. CloseBody(t, goal) => CloseEffect(t)
    BY CloseDoes
  <2>4. CloseStopped(t, goal) \/ Started(t, goal) => Others(t)
    BY CloseStoppedDoes, StartedDoes
  <2>5. \A w, p : Ask(t, goal, w, p) => Others(t)
    BY AskDoes DEF AskEffect
  <2>6. AfterEffect(t) \/ StopEffect(t) \/ CloseEffect(t) => Others(t)
    BY <1>2
  <2> QED
    BY <2>1, <2>2, <2>3, <2>4, <2>5, <2>6, Zenon
<1>4. CASE Cancel(t)
  BY <1>2, <1>4 DEF Cancel
<1>5. CASE Call(t)
  <2>1. {"raw", "facade"} \subseteq Goals
    BY DEF Goals
  <2> QED
    BY <1>2, <1>3, <1>5, <2>1 DEF Call, Connect, StartUpdates, StopCalls,
                                  StopUpdates, Close
<1>6. CASE \/ DialFails(t) \/ Dialled(t) \/ Exchanged(t) \/ ExchangeFails(t)
           \/ Initialised(t) \/ InitFails(t) \/ SenderUndone(t) \/ SocketUndone(t)
  BY <1>1, <1>2, <1>3, <1>6 DEF DialFails, Dialled, Exchanged, ExchangeFails,
     Initialised, InitFails, SenderUndone, SocketUndone, TakeConnection
<1>7. CASE \/ AskedFirst(t) \/ GotMe(t) \/ GotState(t) \/ StateFails(t)
  BY <1>1, <1>2, <1>3, <1>7 DEF AskedFirst, GotMe, GotState, StateFails
<1>8. CASE \/ StopEnds(t) \/ CallsStopped(t) \/ CloseStoppedUpdates(t)
           \/ CloseSenderEnds(t) \/ CloseSocketEnds(t)
  <2>1. "facade" \in Goals
    BY DEF Goals
  <2> QED
    BY <1>1, <1>2, <1>3, <1>8, <2>1 DEF StopEnds, CallsStopped,
       CloseStoppedUpdates, CloseSenderEnds, CloseSocketEnds
<1> QED
  BY <1>4, <1>5, <1>6, <1>7, <1>8 DEF Continue

\* close() that has begun finds a connection when it goes on.
LEMMA NextClose ==
    ASSUME TypeOK, ConnInv, [Next]_vars, NEW t \in Tasks,
           task[t].pc \in {"closeStopping", "closeSender"}, task'[t].pc = "idle",
           CrashesCount
    PROVE  crashes' # crashes \/ "stops" \in mixed
<1>1. "stops" \notin mixed => cur # None
  BY DEF ConnInv, ClosesAlone, Without, Closers, Closing
<1>2. ASSUME NEW u \in Tasks, Others(u) PROVE u = t
  BY <1>2 DEF Others
<1>3. ASSUME Call(t) \/ Continue(t) \/ Cancel(t)
      PROVE  CloseStoppedUpdates(t) \/ CloseSenderEnds(t)
  BY <1>3 DEF Call, Connect, StartUpdates, StopCalls, StopUpdates, Close, Cancel,
     Continue, DialFails, Dialled, Exchanged, ExchangeFails, Initialised,
     InitFails, SenderUndone, SocketUndone, AskedFirst, GotMe, GotState,
     StateFails, StopEnds, CallsStopped, CloseSocketEnds, Asking
<1>4. CASE CloseStoppedUpdates(t)
  <2>1. (task'[t] = Idle /\ cur = None) \/ ClosesConn(t)
    BY <1>4, CloseStoppedDoes DEF CloseStoppedUpdates, TypeOK, Placed
  <2> QED
    BY <1>1, <2>1 DEF ClosesConn
<1>5. CASE CloseSenderEnds(t)
  <2>1. CASE cur # None /\ Goto(t, "closeSocket", cur)
    <3>1. task'[t] = At("closeSocket", cur, task[t].goal)
      BY <2>1, GotoMoves
    <3>2. task'[t].pc = "closeSocket"
      BY <3>1 DEF At
    <3> QED
      BY <3>2
  <2> QED
    BY <1>1, <1>5, <2>1 DEF CloseSenderEnds
<1>6. CASE task' = task
  BY <1>6
<1>7. CASE Crash
  BY <1>7 DEF Crash, CrashesCount
<1> QED
  BY <1>2, <1>3, <1>4, <1>5, <1>6, <1>7, TaskMoves
     DEF Next, vars, Run, LoopStarts, LoopTakes, LoopApplied, LoopDies, LoopEnds,
         SignIn

LEMMA NextCrashes == CrashesCount /\ [Next]_vars => CrashesCount'
<1> SUFFICES ASSUME CrashesCount, [Next]_vars PROVE CrashesCount'
  OBVIOUS
<1>1. ASSUME NEW t \in Tasks, Call(t) \/ Continue(t) \/ Cancel(t)
      PROVE  crashes' = crashes
  BY <1>1 DEF Call, Connect, StartUpdates, StopCalls, StopUpdates, Close, Cancel,
     Continue, DialFails, Dialled, Exchanged, ExchangeFails, Initialised,
     InitFails, SenderUndone, SocketUndone, AskedFirst, GotMe, GotState,
     StateFails, StopEnds, CallsStopped, CloseStoppedUpdates, CloseSenderEnds,
     CloseSocketEnds, otherVars, faults
<1>2. ASSUME NEW l \in Loops, Run(l) \/ LoopTakes(l) PROVE crashes' = crashes
  BY <1>2 DEF Run, LoopStarts, LoopTakes, LoopApplied, LoopDies, LoopEnds, faults
<1>3. SignIn \/ UNCHANGED vars => crashes' = crashes
  BY DEF SignIn, vars, otherVars, faults
<1>4. Crash => crashes' = crashes + 1
  BY DEF Crash
<1> QED
  BY <1>1, <1>2, <1>3, <1>4 DEF Next, CrashesCount

-----------------------------------------------------------------------------
(* Requests before initConnection.                                         *)

LEMMA BareStep ==
    ASSUME BareInv, inited \subseteq inited', BareEffect,
           didInit' => didInit \/ inited' # {}
    PROVE  BareInv'
<1>1. didInit' => inited' # {}
  BY DEF BareInv
<1>2. ASSUME NEW g \in bare' PROVE \E h \in inited' : h # g
  <2>1. CASE g \in bare
    BY <2>1 DEF BareInv, OnlyLaterConnectionsAreBare
  <2>2. CASE g = cur /\ didInit' /\ cur \notin inited'
    BY <1>1, <2>2
  <2> QED
    BY <1>2, <2>1, <2>2 DEF BareEffect
<1> QED
  BY <1>1, <1>2 DEF BareInv, OnlyLaterConnectionsAreBare

LEMMA NextBare == TypeOK /\ BareInv /\ [Next]_vars => BareInv'
<1> SUFFICES ASSUME TypeOK, BareInv, [Next]_vars PROVE BareInv'
  OBVIOUS
<1>1. \A t \in Tasks : task[t].goal \in Goals
  BY DEF TypeOK, Placed
<1>2. ASSUME NEW t \in Tasks, NEW goal \in Goals
      PROVE  /\ StartBody(t, goal) => BareEffect
             /\ AfterConnect(t, goal) => BareEffect
             /\ \A w, p : Ask(t, goal, w, p) => BareEffect
  <2>1. StartBody(t, goal) => BareEffect
    BY StartDoes DEF StartEffect
  <2>2. AfterConnect(t, goal) => BareEffect
    BY AfterConnectDoes DEF AfterEffect, StartEffect
  <2>3. \A w, p : Ask(t, goal, w, p) => BareEffect
    BY AskDoes
  <2> QED
    BY <2>1, <2>2, <2>3, Zenon
<1>3. bare' = bare => BareEffect
  BY DEF BareEffect
<1>4. ASSUME NEW t \in Tasks, Call(t) PROVE BareInv'
  <2>1. inited' = inited /\ didInit' = didInit
    BY <1>4 DEF Call, Connect, StartUpdates, StopCalls, StopUpdates, Close,
                clientVars, serverVars
  <2>2. BareEffect
    BY <1>2, <1>3, <1>4 DEF Call, Connect, StartUpdates, StopCalls, StopUpdates,
                            Close, serverVars
  <2> QED
    BY <2>1, <2>2, BareStep
<1>5. ASSUME NEW t \in Tasks, Continue(t) \/ Cancel(t) PROVE BareInv'
  <2>1. /\ inited \subseteq inited'
        /\ didInit' = didInit \/ inited' # {}
    BY <1>5 DEF Continue, DialFails, Dialled, Exchanged, ExchangeFails, Initialised,
       InitFails, SenderUndone, SocketUndone, AskedFirst, GotMe, GotState,
       StateFails, StopEnds, CallsStopped, CloseStoppedUpdates, CloseSenderEnds,
       CloseSocketEnds, Cancel, otherVars, clientVars, serverVars
  <2>2. BareEffect
    <3>1. CASE Initialised(t) \/ AskedFirst(t) \/ GotMe(t)
      BY <1>1, <1>2, <3>1 DEF Initialised, AskedFirst, GotMe
    <3>2. CASE bare' = bare
      BY <1>3, <3>2
    <3> QED
      BY <1>5, <3>1, <3>2 DEF Continue, DialFails, Dialled, Exchanged,
         ExchangeFails, InitFails, SenderUndone, SocketUndone, GotState,
         StateFails, StopEnds, CallsStopped, CloseStoppedUpdates,
         CloseSenderEnds, CloseSocketEnds, Cancel, otherVars, serverVars
  <2> QED
    BY <2>1, <2>2, BareStep
<1>6. ASSUME NEW l \in Loops, Run(l) \/ LoopTakes(l) PROVE BareInv'
  <2>1. /\ inited \subseteq inited'
        /\ didInit' => didInit \/ inited' # {}
    <3>1. CASE LoopApplied(l)
      <4>1. PICK asked : /\ didInit' = (didInit \/ asked)
                         /\ inited' = IF asked THEN inited \cup {cur} ELSE inited
        BY <3>1 DEF LoopApplied
      <4>2. CASE asked
        BY <4>1, <4>2
      <4>3. CASE ~asked
        <5>1. inited' = inited /\ (didInit' => didInit)
          BY <4>1, <4>3
        <5> QED
          BY <5>1
      <4> QED
        BY <4>2, <4>3
    <3>2. CASE inited' = inited /\ didInit' = didInit
      BY <3>2
    <3> QED
      BY <1>6, <3>1, <3>2 DEF Run, LoopStarts, LoopTakes, LoopDies, LoopEnds,
                              clientVars, serverVars
  <2>2. BareEffect
    <3>1. CASE LoopTakes(l)
      <4>1. bare' \in {bare, bare \cup
                       Note(CanSend(cur) /\ didInit /\ cur \notin inited, cur)}
            \/ bare' = bare
        BY <3>1 DEF LoopTakes
      <4>2. inited' = inited /\ didInit' = didInit
        BY <3>1 DEF LoopTakes, clientVars
      <4>3. CanSend(cur) => cur \in Conns
        BY CurrentConn DEF CanSend
      <4> QED
        BY <4>1, <4>2, <4>3 DEF Note, BareEffect
    <3>2. CASE bare' = bare
      BY <1>3, <3>2
    <3> QED
      BY <1>6, <3>1, <3>2 DEF Run, LoopStarts, LoopApplied, LoopDies, LoopEnds,
                              serverVars
  <2> QED
    BY <2>1, <2>2, BareStep
<1>7. CASE SignIn \/ UNCHANGED vars
  <2>1. UNCHANGED <<inited, didInit, bare>>
    BY <1>7 DEF SignIn, vars, clientVars, otherVars, serverVars
  <2> QED
    BY <1>3, <2>1, BareStep
<1>8. CASE Crash
  <2>1. didInit' = FALSE /\ UNCHANGED <<inited, bare>>
    BY <1>8 DEF Crash, serverVars
  <2> QED
    BY <1>3, <2>1, BareStep
<1> QED
  BY <1>4, <1>5, <1>6, <1>7, <1>8 DEF Next

-----------------------------------------------------------------------------
(* Keys.                                                                   *)

\* No task connects that did not, and no connection becomes usable.
LEMMA QuietKeys ==
    ASSUME TypeOK, KeyInv, NEW t \in Tasks, Others(t),
           UNCHANGED <<keyOf, loggedIn>>, cur' \in {cur, None},
           mixed \subseteq mixed',
           cur # None /\ sender'[cur] = "open" => sender[cur] = "open",
           file' = file \/ (cur # None /\ file' = keyOf[cur]),
           task'[t].pc \notin {"dialing", "exchanging", "initing"},
           task[t].pc = "initing" =>
              \/ "initCut" \in mixed'
              \/ cur # None => file' = keyOf[cur]
              \/ task[t].at = cur /\ sender'[cur] # "open"
              \/ task[t].at # cur
    PROVE  KeyInv'
<1>1. /\ Without({"initCut"})' => Without({"initCut"})
      /\ Without({"initCut"})' => "initCut" \notin mixed'
  BY WithoutStays DEF Without
<1>2. CurrentKey'
  <2>1. cur' # None => keyOf'[cur'] # None
    BY DEF KeyInv, CurrentKey
  <2>2. ASSUME Without({"initCut"})', CanSend(cur)'
        PROVE  \/ file' = keyOf'[cur']
               \/ \E u \in Tasks : task'[u].pc = "initing" /\ task'[u].at = cur'
    <3>1. cur' = cur /\ cur # None /\ sender'[cur] = "open" /\ CanSend(cur)
      BY <2>2 DEF CanSend
    <3>2. CASE file = keyOf[cur]
      BY <3>1, <3>2
    <3>3. CASE \E u \in Tasks : task[u].pc = "initing" /\ task[u].at = cur
      <4>1. PICK u \in Tasks : task[u].pc = "initing" /\ task[u].at = cur
        BY <3>3
      <4>2. CASE u = t
        BY <1>1, <2>2, <3>1, <4>1, <4>2
      <4>3. CASE u # t
        BY <3>1, <4>1, <4>3 DEF Others
      <4> QED
        BY <4>2, <4>3
    <3> QED
      BY <1>1, <2>2, <3>1, <3>2, <3>3 DEF KeyInv, CurrentKey
  <2> QED
    BY <2>1, <2>2 DEF CurrentKey
<1>3. OneKey'
  <2>1. ASSUME Without({"initCut"})', NEW k \in loggedIn
        PROVE  /\ k = file' /\ k # None
               /\ cur' # None => keyOf[cur'] = k
               /\ \A u \in Tasks :
                     /\ task'[u].pc # "exchanging"
                     /\ task'[u].pc = "dialing" => keyOf[task'[u].at] = k
    <3>1. /\ k = file /\ k # None
          /\ cur # None => keyOf[cur] = k
          /\ \A u \in Tasks : /\ task[u].pc # "exchanging"
                              /\ task[u].pc = "dialing" => keyOf[task[u].at] = k
      BY <1>1, <2>1 DEF KeyInv, OneKey
    <3> QED
      BY <3>1 DEF Others
  <2> QED
    BY <2>1 DEF OneKey
<1> QED
  BY <1>2, <1>3 DEF KeyInv

LEMMA DialKeys ==
    ASSUME TypeOK, KeyInv, NEW t \in Tasks, Others(t), task[t].pc = "idle",
           cur = None, UNCHANGED <<cur, loggedIn, file>>, mixed \subseteq mixed',
           dialled < MaxConns, keyOf' = [keyOf EXCEPT ![dialled + 1] = file],
           task'[t].pc = "dialing", task'[t].at = dialled + 1
    PROVE  KeyInv'
<1>1. Without({"initCut"})' => Without({"initCut"})
  BY WithoutStays
<1>2. CurrentKey'
  BY DEF CurrentKey, CanSend
<1>3. /\ keyOf'[dialled + 1] = file
      /\ \A g \in Conns \ {dialled + 1} : keyOf'[g] = keyOf[g]
  BY Bounds DEF TypeOK, DataOK, Conns
<1>4. OneKey'
  <2>1. ASSUME Without({"initCut"})', NEW k \in loggedIn, NEW u \in Tasks
        PROVE  /\ task'[u].pc # "exchanging"
               /\ task'[u].pc = "dialing" => keyOf'[task'[u].at] = k
    <3>1. /\ k = file /\ task[u].pc # "exchanging"
          /\ task[u].pc = "dialing" => keyOf[task[u].at] = k
      BY <1>1, <2>1 DEF KeyInv, OneKey
    <3>2. CASE u = t
      BY <1>3, <3>1, <3>2
    <3>3. CASE u # t
      <4>1. task[u].pc = "dialing" =>
               task[u].at \in Conns /\ task[u].at # dialled + 1
        BY Bounds DEF TypeOK, Placed, OnConn, Connecting, Conns
      <4> QED
        BY <1>3, <3>1, <3>3, <4>1 DEF Others
    <3> QED
      BY <3>2, <3>3
  <2>2. Without({"initCut"})' => \A k \in loggedIn : k = file /\ k # None
    BY <1>1 DEF KeyInv, OneKey
  <2> QED
    BY <2>1, <2>2 DEF OneKey
<1> QED
  BY <1>2, <1>4 DEF KeyInv

\* A connection becomes the current one, or gets a key first.
LEMMA TakeKeys ==
    ASSUME TypeOK, KeyInv, NEW t \in Tasks, Others(t), NEW g, g = task[t].at,
           UNCHANGED <<loggedIn, file, mixed>>,
           \/ /\ task[t].pc = "dialing" /\ keyOf' = keyOf /\ keyOf[g] # None
              /\ task'[t].pc = "initing" /\ task'[t].at = g /\ cur' = g
           \/ /\ task[t].pc = "dialing" /\ keyOf' = keyOf /\ keyOf[g] = None
              /\ task'[t].pc = "exchanging" /\ cur' = cur /\ sender' = sender
           \/ /\ task[t].pc = "exchanging" /\ keyOf' = [keyOf EXCEPT ![g] = g]
              /\ task'[t].pc = "initing" /\ task'[t].at = g /\ cur' = g
    PROVE  KeyInv'
<1>1. Without({"initCut"})' = Without({"initCut"})
  BY DEF Without
<1>2. g \in Conns /\ g # None
  BY Bounds DEF TypeOK, Placed, OnConn, Connecting, Conns, None
<1>3. CASE task'[t].pc = "initing" /\ task'[t].at = g /\ cur' = g
  <2>1. keyOf'[g] # None
    BY <1>2, <1>3 DEF TypeOK, DataOK
  <2>2. CurrentKey'
    BY <1>3, <2>1 DEF CurrentKey
  <2>3. ASSUME Without({"initCut"}), NEW k \in loggedIn
        PROVE  /\ k = file /\ k # None /\ keyOf'[g] = k
               /\ \A u \in Tasks :
                     /\ task'[u].pc # "exchanging"
                     /\ task'[u].pc = "dialing" => keyOf'[task'[u].at] = k
    <3>1. /\ k = file /\ k # None
          /\ \A u \in Tasks : /\ task[u].pc # "exchanging"
                              /\ task[u].pc = "dialing" => keyOf[task[u].at] = k
      BY <2>3 DEF KeyInv, OneKey
    <3>2. task[t].pc = "dialing" /\ keyOf' = keyOf
      BY <3>1
    <3> QED
      BY <1>3, <3>1, <3>2 DEF Others
  <2>4. OneKey'
    BY <1>1, <1>3, <2>3 DEF OneKey
  <2> QED
    BY <2>2, <2>4 DEF KeyInv
<1>4. CASE /\ task[t].pc = "dialing" /\ keyOf' = keyOf /\ keyOf[g] = None
           /\ task'[t].pc = "exchanging" /\ cur' = cur /\ sender' = sender
  <2>1. CurrentKey'
    <3>1. CanSend(cur)' = CanSend(cur)
      BY <1>4 DEF CanSend
    <3>2. \A u \in Tasks : task[u].pc = "initing" => task'[u] = task[u]
      BY <1>4 DEF Others
    <3> QED
      BY <1>1, <1>4, <3>1, <3>2 DEF KeyInv, CurrentKey
  <2>2. Without({"initCut"}) => loggedIn = {}
    BY <1>4 DEF KeyInv, OneKey
  <2>3. OneKey'
    BY <1>1, <2>2 DEF OneKey
  <2> QED
    BY <2>1, <2>3 DEF KeyInv
<1> QED
  BY <1>3, <1>4

LEMMA StillKeys ==
    ASSUME TypeOK, KeyInv,
           UNCHANGED <<task, sender, keyOf, cur, file, mixed>>,
           \/ loggedIn' = loggedIn
           \/ /\ loggedIn' = loggedIn \cup {keyOf[cur]} /\ CanSend(cur)
              /\ \A t \in Tasks : task[t].pc \notin Connecting
    PROVE  KeyInv'
<1>1. Without({"initCut"})' = Without({"initCut"})
  BY DEF Without
<1>2. CurrentKey'
  BY <1>1 DEF KeyInv, CurrentKey, CanSend
<1>3. CASE loggedIn' = loggedIn
  BY <1>1, <1>2, <1>3 DEF KeyInv, OneKey
<1>4. CASE /\ loggedIn' = loggedIn \cup {keyOf[cur]} /\ CanSend(cur)
           /\ \A t \in Tasks : task[t].pc \notin Connecting
  <2>1. \A t \in Tasks : task[t].pc \notin {"initing", "exchanging", "dialing"}
    BY <1>4 DEF Connecting
  <2>2. Without({"initCut"}) => file = keyOf[cur] /\ keyOf[cur] # None
    BY <1>4, <2>1 DEF KeyInv, CurrentKey, CanSend
  <2>3. OneKey'
    BY <1>1, <1>4, <2>1, <2>2 DEF KeyInv, OneKey
  <2> QED
    BY <1>2, <2>3 DEF KeyInv
<1> QED
  BY <1>3, <1>4

LEMMA CrashKeys ==
    ASSUME TypeOK, KeyInv, Crash
    PROVE  KeyInv'
<1>1. /\ \A u \in Tasks : task'[u].pc = "idle"
      /\ cur' = None /\ UNCHANGED <<file, keyOf, loggedIn, mixed>>
  BY DEF Crash, Idle, serverVars
<1>2. CurrentKey'
  BY <1>1 DEF CurrentKey, CanSend
<1>3. OneKey'
  BY <1>1 DEF KeyInv, OneKey, Without
<1> QED
  BY <1>2, <1>3 DEF KeyInv

LEMMA ClosingCloses ==
    ASSUME TypeOK, NEW g \in Conns, NEW h \in Conns,
           sender' = ClosingSender(g) \/ sender' = [sender EXCEPT ![g] = "closed"]
    PROVE  /\ sender'[h] = "open" => sender[h] = "open"
           /\ sender'[g] # "open"
BY DEF ClosingSender, TypeOK, DataOK

LEMMA SenderCloses ==
    ASSUME TypeOK, SenderEffect, cur # None, sender'[cur] = "open"
    PROVE  sender[cur] = "open"
BY CurrentConn, ClosingCloses DEF SenderEffect

\* Where the parts of the steps leave a task.
LEMMA EffectPlaces ==
    ASSUME TypeOK, NEW t \in Tasks
    PROVE  /\ AfterEffect(t) =>
                 /\ task'[t].pc \in {"idle"} \cup Asking /\ Others(t)
                 /\ mixed \subseteq mixed'
           /\ StopEffect(t) =>
                 /\ task'[t].pc \in {"idle", "closeSender"} \cup Stoppers
                 /\ Others(t) /\ SenderEffect
<1>1. \A pcs \in SUBSET Asking :
         AskEffect(t, pcs) => task'[t].pc \in {"idle"} \cup Asking /\ Others(t)
  BY DEF AskEffect, Idle
<1>2. Starters \in SUBSET Asking /\ {"initForMe", "getMe"} \in SUBSET Asking
  BY DEF Starters, Asking
<1>3. StopEffect(t) => task'[t].pc \in {"idle", "closeSender"} \cup Stoppers
  BY DEF StopEffect, ClosesConn, Idle
<1> QED
  BY <1>1, <1>2, <1>3 DEF AfterEffect, StartEffect, StopEffect

LEMMA NotConnecting ==
    {"idle", "closeSender", "closeSocket", "callsStopping", "undoSender",
     "undoSocket"} \cup Stoppers \cup Asking
    \subseteq PCs \ {"dialing", "exchanging", "initing"}
BY DEF Stoppers, Asking, PCs, OnConn, Connecting

LEMMA AfterKeys ==
    ASSUME TypeOK, KeyInv, NEW t \in Tasks, AfterEffect(t),
           UNCHANGED <<sender, keyOf, cur, loggedIn>>,
           \/ file' = file /\ task[t].pc # "initing"
           \/ file' = IF cur = None THEN file ELSE keyOf[cur]
    PROVE  KeyInv'
BY EffectPlaces, NotConnecting, QuietKeys

LEMMA StopKeys ==
    ASSUME TypeOK, KeyInv, NEW t \in Tasks, StopEffect(t),
           UNCHANGED <<keyOf, cur, loggedIn>>, mixed \subseteq mixed',
           file' = file \/ (cur # None /\ file' = keyOf[cur]),
           task[t].pc # "initing"
    PROVE  KeyInv'
BY EffectPlaces, NotConnecting, SenderCloses, QuietKeys

LEMMA ReturnKeys ==
    ASSUME TypeOK, KeyInv, NEW t \in Tasks, Others(t), task'[t] = Idle,
           UNCHANGED <<sender, keyOf, loggedIn, file>>, cur' \in {cur, None},
           mixed \subseteq mixed',
           task[t].pc = "initing" => "initCut" \in mixed'
    PROVE  KeyInv'
<1>1. task'[t].pc \notin {"dialing", "exchanging", "initing"}
  BY DEF Idle
<1> QED
  BY <1>1, QuietKeys

LEMMA CallKeys ==
    ASSUME TypeOK, KeyInv, NEW t \in Tasks, Call(t)
    PROVE  KeyInv'
<1>1. task[t].pc = "idle"
  BY DEF Call, Connect, StartUpdates, StopCalls, StopUpdates, Close
<1>2. ASSUME NEW goal \in Goals, Connect(t, goal) PROVE KeyInv'
  <2>1. CASE cur # None
    <3>1. /\ AfterEffect(t)
          /\ UNCHANGED <<sender, keyOf, cur, loggedIn, file>>
      BY <1>2, <2>1, AfterConnectDoes DEF Connect, clientVars
    <3> QED
      BY <1>1, <3>1, AfterKeys
  <2>2. CASE cur = None
    <3>1. /\ dialled < MaxConns /\ dialled' = dialled + 1
          /\ keyOf' = [keyOf EXCEPT ![dialled + 1] = file]
          /\ task' = [task EXCEPT ![t] = At("dialing", dialled + 1, goal)]
          /\ UNCHANGED <<cur, loggedIn, file>> /\ mixed \subseteq mixed'
      BY <1>2, <2>2 DEF Connect, clientVars
    <3>2. Others(t) /\ task'[t] = At("dialing", dialled + 1, goal)
      BY <3>1, Moves
    <3>3. task'[t].pc = "dialing" /\ task'[t].at = dialled + 1
      BY <3>2 DEF At
    <3> QED
      BY <1>1, <2>2, <3>1, <3>2, <3>3, DialKeys
  <2> QED
    BY <2>1, <2>2
<1>3. ASSUME NEW goal \in Goals, StartUpdates(t, goal) PROVE KeyInv'
  <2>1. StartEffect(t) /\ UNCHANGED <<sender, keyOf, cur, loggedIn, file>>
    BY <1>3, StartDoes DEF StartUpdates, clientVars, wireVars
  <2> QED
    BY <1>1, <2>1, AfterKeys DEF AfterEffect
<1>4. ASSUME NEW goal \in Goals, StopCalls(t, goal) PROVE KeyInv'
  <2>1. /\ task' = [task EXCEPT ![t] = At("callsStopping", None, goal)]
        /\ UNCHANGED <<sender, keyOf, cur, loggedIn, file, mixed>>
    BY <1>4 DEF StopCalls, wireVars, clientVars, serverVars
  <2>2. Others(t) /\ task'[t] = At("callsStopping", None, goal)
    BY <2>1, Moves
  <2>3. task'[t].pc = "callsStopping"
    BY <2>2 DEF At
  <2> QED
    BY <1>1, <2>1, <2>2, <2>3, QuietKeys
<1>5. ASSUME StopUpdates(t) PROVE KeyInv'
  <2>1. /\ StopEffect(t) /\ UNCHANGED <<keyOf, cur, loggedIn, file>>
        /\ mixed \subseteq mixed'
    BY <1>5, StopDoes DEF StopUpdates, clientVars, serverVars, Goals
  <2> QED
    BY <1>1, <2>1, StopKeys
<1>6. ASSUME Close(t) PROVE KeyInv'
  <2>1. CloseEffect(t) /\ UNCHANGED <<keyOf, cur, loggedIn>>
    BY <1>6, CloseDoes DEF Close, serverVars, Goals
  <2> QED
    BY <1>1, <2>1, StopKeys DEF CloseEffect
<1> QED
  BY <1>2, <1>3, <1>4, <1>5, <1>6 DEF Call

LEMMA ConnectKeys ==
    ASSUME TypeOK, KeyInv, NEW t \in Tasks,
           \/ DialFails(t) \/ Dialled(t) \/ Exchanged(t) \/ ExchangeFails(t)
           \/ Initialised(t) \/ InitFails(t) \/ SenderUndone(t) \/ SocketUndone(t)
    PROVE  KeyInv'
<1> DEFINE g == task[t].at
<1>1. task[t].pc \in Connecting /\ g \in Conns
  BY Bounds DEF TypeOK, Placed, OnConn, Conns, DialFails, Dialled, Exchanged,
                ExchangeFails, Initialised, InitFails, SenderUndone, SocketUndone,
                Connecting
<1>2. CASE DialFails(t) \/ SocketUndone(t)
  BY <1>2, ReturnMoves, ReturnKeys DEF DialFails, SocketUndone, wireVars,
                                       clientVars, otherVars, serverVars
<1>3. ASSUME NEW pc, Goto(t, pc, g)
      PROVE  Others(t) /\ task'[t].pc = pc /\ task'[t].at = g
  <2>1. Others(t) /\ task'[t] = At(pc, g, task[t].goal)
    BY <1>3, GotoMoves
  <2> QED
    BY <2>1 DEF At
<1> HIDE DEF g
<1>4. CASE Dialled(t)
  <2>1. /\ task[t].pc = "dialing" /\ UNCHANGED <<keyOf, loggedIn, file, mixed>>
        /\ \/ keyOf[g] # None /\ Goto(t, "initing", g) /\ cur' = g
           \/ /\ keyOf[g] = None /\ Goto(t, "exchanging", g)
              /\ UNCHANGED <<cur, sender>>
    BY <1>4 DEF Dialled, TakeConnection, g, otherVars, serverVars
  <2>2. CASE keyOf[g] # None /\ Goto(t, "initing", g) /\ cur' = g
    <3>1. Others(t) /\ task'[t].pc = "initing" /\ task'[t].at = g
      BY <1>3, <2>2
    <3> QED
      BY <2>1, <2>2, <3>1, TakeKeys DEF g
  <2>3. CASE /\ keyOf[g] = None /\ Goto(t, "exchanging", g)
             /\ UNCHANGED <<cur, sender>>
    <3>1. Others(t) /\ task'[t].pc = "exchanging"
      BY <1>3, <2>3
    <3> QED
      BY <2>1, <2>3, <3>1, TakeKeys DEF g
  <2> QED
    BY <2>1, <2>2, <2>3
<1>5. CASE Exchanged(t)
  <2>1. /\ task[t].pc = "exchanging" /\ Goto(t, "initing", g) /\ cur' = g
        /\ keyOf' = [keyOf EXCEPT ![g] = g]
        /\ UNCHANGED <<loggedIn, file, mixed>>
    BY <1>5 DEF Exchanged, TakeConnection, g, otherVars, serverVars
  <2>2. Others(t) /\ task'[t].pc = "initing" /\ task'[t].at = g
    BY <1>3, <2>1
  <2> QED
    BY <2>1, <2>2, TakeKeys DEF g
<1>6. CASE ExchangeFails(t) \/ SenderUndone(t) \/ InitFails(t)
  <2>1. /\ \E pc \in {"undoSender", "undoSocket"} : Goto(t, pc, g)
        /\ UNCHANGED <<keyOf, loggedIn, file, cur, mixed>>
    BY <1>6 DEF ExchangeFails, SenderUndone, InitFails, g, clientVars, otherVars,
                serverVars
  <2>2. Others(t) /\ task'[t].pc \in {"undoSender", "undoSocket"}
    BY <1>3, <2>1
  <2>3. \/ sender' = sender /\ task[t].pc # "initing"
        \/ sender' = ClosingSender(g) \/ sender' = [sender EXCEPT ![g] = "closed"]
    BY <1>6 DEF ExchangeFails, SenderUndone, InitFails, g
  <2>4. cur # None /\ sender'[cur] = "open" => sender[cur] = "open"
    BY <1>1, <2>3, ClosingCloses, CurrentConn
  <2>5. task[t].pc = "initing" => sender'[g] # "open"
    BY <1>1, <2>3, ClosingCloses
  <2>6. CASE g = cur
    BY <2>1, <2>2, <2>4, <2>5, <2>6, QuietKeys DEF g
  <2>7. CASE g # cur
    BY <2>1, <2>2, <2>4, <2>7, QuietKeys DEF g
  <2> QED
    BY <2>6, <2>7
<1>7. CASE Initialised(t)
  <2>1. /\ AfterConnect(t, task[t].goal) /\ task[t].goal \in Goals
        /\ file' = IF cur = None THEN file ELSE keyOf[cur]
        /\ UNCHANGED <<sender, keyOf, cur, loggedIn>>
    BY <1>7 DEF Initialised, wireVars, TypeOK, Placed
  <2> QED
    BY <2>1, AfterConnectDoes, AfterKeys
<1> QED
  BY <1>2, <1>4, <1>5, <1>6, <1>7

LEMMA RestKeys ==
    ASSUME TypeOK, KeyInv, NEW t \in Tasks,
           \/ AskedFirst(t) \/ GotMe(t) \/ GotState(t) \/ StateFails(t)
           \/ StopEnds(t) \/ CallsStopped(t) \/ CloseStoppedUpdates(t)
           \/ CloseSenderEnds(t) \/ CloseSocketEnds(t) \/ Cancel(t)
    PROVE  KeyInv'
<1>1. task[t].goal \in Goals
  BY DEF TypeOK, Placed
<1>2. CASE StateFails(t) \/ StopEnds(t) \/ CloseSocketEnds(t)
  BY <1>2, ReturnMoves, ReturnKeys DEF StateFails, StopEnds, CloseSocketEnds,
     wireVars, clientVars, otherVars, serverVars
<1>3. CASE Cancel(t)
  <2>1. /\ Others(t) /\ task'[t] = Idle
        /\ UNCHANGED <<sender, keyOf, cur, loggedIn, file>>
        /\ mixed \subseteq mixed'
        /\ task[t].pc = "initing" => "initCut" \in mixed'
    BY <1>3, ReturnMoves DEF Cancel, wireVars, clientVars, serverVars, Note
  <2> QED
    BY <2>1, ReturnKeys
<1>4. CASE GotMe(t)
  <2>1. /\ StartEffect(t) /\ UNCHANGED <<sender, keyOf, cur, loggedIn, file>>
        /\ task[t].pc # "initing"
    BY <1>1, <1>4, StartDoes DEF GotMe, clientVars, wireVars
  <2> QED
    BY <2>1, AfterKeys DEF AfterEffect
<1>5. CASE GotState(t)
  <2>1. /\ Others(t) /\ task'[t] = Idle /\ mixed \subseteq mixed'
        /\ UNCHANGED <<sender, keyOf, cur, loggedIn, file>>
        /\ task[t].pc = "getState"
    BY <1>5, StartedDoes DEF GotState, clientVars, wireVars, serverVars
  <2> QED
    BY <2>1, ReturnKeys
<1>6. CASE AskedFirst(t)
  <2>1. /\ UNCHANGED <<sender, keyOf, cur, loggedIn, file>>
        /\ task[t].pc # "initing"
    BY <1>6 DEF AskedFirst, wireVars
  <2>2. CASE StartBody(t, task[t].goal)
    BY <1>1, <2>1, <2>2, StartDoes, AfterKeys DEF AfterEffect
  <2>3. ASSUME NEW plain \in {"getMe", "getState"},
               Ask(t, task[t].goal, "initForMe", plain), mixed' = mixed
        PROVE  KeyInv'
    <3>1. Others(t) /\ task'[t].pc \in {"idle"} \cup Asking
      BY <1>1, <2>3, AskDoes DEF AskEffect, Idle, Asking
    <3> QED
      BY <2>1, <2>3, <3>1, NotConnecting, QuietKeys
  <2> QED
    BY <1>6, <2>2, <2>3 DEF AskedFirst
<1>7. CASE CallsStopped(t)
  <2>1. task[t].pc = "callsStopping" /\ UNCHANGED <<keyOf, cur, loggedIn>>
    BY <1>7 DEF CallsStopped, serverVars
  <2>2. CASE Return(t) /\ UNCHANGED <<file, sender, mixed>>
    BY <2>1, <2>2, ReturnMoves, ReturnKeys
  <2>3. CASE CloseBody(t, "facade")
    BY <2>1, <2>3, CloseDoes, StopKeys DEF Goals, CloseEffect
  <2> QED
    BY <1>7, <2>2, <2>3 DEF CallsStopped
<1>8. CASE CloseStoppedUpdates(t)
  <2>1. /\ task[t].pc = "closeStopping" /\ CloseStopped(t, task[t].goal)
        /\ UNCHANGED <<keyOf, cur, loggedIn, file, mixed>>
    BY <1>8 DEF CloseStoppedUpdates, clientVars, serverVars
  <2>2. /\ Others(t) /\ SenderEffect
        /\ task'[t].pc \in {"idle", "closeSender"}
    BY <1>1, <2>1, CloseStoppedDoes DEF ClosesConn, Idle
  <2> QED
    BY <2>1, <2>2, SenderCloses, QuietKeys
<1>9. CASE CloseSenderEnds(t)
  <2>1. /\ task[t].pc = "closeSender" /\ task[t].at \in Conns
        /\ sender' = [sender EXCEPT ![task[t].at] = "closed"]
        /\ UNCHANGED <<keyOf, cur, loggedIn, file, mixed>>
    BY <1>9, Bounds DEF CloseSenderEnds, clientVars, otherVars, serverVars, TypeOK,
                        Placed, OnConn, Conns
  <2>2. Others(t) /\ task'[t].pc \in {"idle", "closeSocket"}
    <3>1. CASE Return(t)
      BY <3>1, ReturnMoves DEF Idle
    <3>2. CASE Goto(t, "closeSocket", cur)
      <4>1. Others(t) /\ task'[t] = At("closeSocket", cur, task[t].goal)
        BY <3>2, GotoMoves
      <4> QED
        BY <4>1 DEF At
    <3> QED
      BY <1>9, <3>1, <3>2 DEF CloseSenderEnds
  <2>3. cur # None /\ sender'[cur] = "open" => sender[cur] = "open"
    BY <2>1, ClosingCloses, CurrentConn
  <2> QED
    BY <2>1, <2>2, <2>3, QuietKeys
<1> QED
  BY <1>2, <1>3, <1>4, <1>5, <1>6, <1>7, <1>8, <1>9

LEMMA NextKeys == TypeOK /\ KeyInv /\ [Next]_vars => KeyInv'
<1> SUFFICES ASSUME TypeOK, KeyInv, [Next]_vars PROVE KeyInv'
  OBVIOUS
<1>1. ASSUME NEW t \in Tasks, Continue(t) \/ Cancel(t) PROVE KeyInv'
  BY <1>1, ConnectKeys, RestKeys DEF Continue
<1>2. ASSUME NEW l \in Loops, Run(l) \/ LoopTakes(l) PROVE KeyInv'
  BY <1>2, StillKeys DEF Run, LoopStarts, LoopTakes, LoopApplied, LoopDies,
                         LoopEnds, wireVars, clientVars, serverVars
<1>3. CASE SignIn \/ UNCHANGED vars
  BY <1>3, StillKeys DEF SignIn, vars, wireVars, clientVars, otherVars, serverVars
<1> QED
  BY <1>1, <1>2, <1>3, CallKeys, CrashKeys DEF Next

-----------------------------------------------------------------------------
(* The updates loop and who starts and stops it.                           *)

LEMMA Apart ==
    /\ Starters \cap Closers = {} /\ Stoppers \subseteq Closers
    /\ {"closeSender", "closeSocket"} \subseteq Closers \ Stoppers
    /\ Connecting \cap (Starters \cup Closers) = {}
    /\ "idle" \notin Starters \cup Closers
    /\ "callsStopping" \notin Starters \cup Closers
    /\ {"initForMe", "getMe"} \cap (Starters \cup Closers) = {}
BY DEF Starters, Closers, Closing, Stoppers, Connecting

LEMMA RunsOneStays ==
    ASSUME mixed \subseteq mixed', RunsOne, Without({"starts", "startStop"})'
    PROVE  /\ StartsAlone /\ StopsTheLoop /\ OnlyLoop
           /\ "starts" \notin mixed' /\ "startStop" \notin mixed'
BY WithoutStays DEF RunsOne, Without

\* The task does not start updates, nor wait for the loop to end.
LEMMA QuietRuns ==
    ASSUME TypeOK, RunsOne, NEW t \in Tasks, Others(t), mixed \subseteq mixed',
           UNCHANGED <<updTask, loops>>,
           task'[t].pc \notin Starters \cup Stoppers,
           task'[t].pc \in Closers =>
              \/ "startStop" \in mixed'
              \/ updTask = None /\ \A u \in Tasks \ {t} : task[u].pc \notin Starters
              \/ task[t].pc \in {"closeSender", "closeSocket"}
    PROVE  RunsOne'
<1> SUFFICES ASSUME Without({"starts", "startStop"})'
             PROVE  StartsAlone' /\ StopsTheLoop' /\ OnlyLoop'
  BY DEF RunsOne
<1>1. /\ StartsAlone /\ StopsTheLoop /\ OnlyLoop
      /\ "starts" \notin mixed' /\ "startStop" \notin mixed'
  BY RunsOneStays
<1>2. task'[t].pc \in Closers =>
         updTask = None /\ \A u \in Tasks \ {t} : task[u].pc \notin Starters
  BY <1>1, Apart DEF StartsAlone, StopsTheLoop
<1>3. StartsAlone'
  BY <1>1, <1>2 DEF StartsAlone, Others
<1>4. StopsTheLoop'
  BY <1>1, <1>2, Apart DEF StopsTheLoop, Others
<1>5. OnlyLoop'
  BY <1>1 DEF OnlyLoop, Live
<1> QED
  BY <1>3, <1>4, <1>5

\* The task starts updates where there are none, or goes on to ask for the
\* state, with nobody else at it.
LEMMA StartRuns ==
    ASSUME TypeOK, RunsOne, NEW t \in Tasks, Others(t), mixed \subseteq mixed',
           Without({"starts", "startStop"})' =>
              /\ updTask = None
              /\ \A u \in Tasks \ {t} : task[u].pc \notin Starters \cup Closers,
           \/ task'[t].pc \in Starters /\ UNCHANGED <<updTask, loops>>
           \/ task'[t] = Idle /\ NewLoop
    PROVE  RunsOne'
<1> SUFFICES ASSUME Without({"starts", "startStop"})'
             PROVE  StartsAlone' /\ StopsTheLoop' /\ OnlyLoop'
  BY DEF RunsOne
<1>1. OnlyLoop
  BY RunsOneStays
<1>2. \A u \in Tasks \ {t} : task'[u].pc \notin Starters \cup Closers
  BY DEF Others
<1>3. task'[t].pc \notin Closers
  BY Apart DEF Idle
<1>4. StopsTheLoop'
  BY <1>2, <1>3, Apart DEF StopsTheLoop
<1>5. StartsAlone'
  <2>1. task'[t] = Idle => task'[t].pc \notin Starters
    BY Apart DEF Idle
  <2> QED
    BY <1>2, <2>1 DEF StartsAlone
<1>6. OnlyLoop'
  <2>1. Live = {}
    BY <1>1, NoneAssumption DEF OnlyLoop, Live
  <2>2. CASE UNCHANGED <<updTask, loops>>
    BY <1>1, <2>2 DEF OnlyLoop, Live
  <2>3. CASE NewLoop
    <3>1. PICK l \in Loops : updTask' = l /\ loops' = [loops EXCEPT ![l] = "new"]
      BY <2>3 DEF NewLoop
    <3>2. \A k \in Loops \ {l} : loops'[k] = loops[k]
      BY <3>1 DEF TypeOK, DataOK
    <3> QED
      BY <2>1, <3>1, <3>2 DEF OnlyLoop, Live
  <2> QED
    BY <2>2, <2>3
<1> QED
  BY <1>4, <1>5, <1>6

LEMMA AfterRuns ==
    ASSUME TypeOK, RunsOne, NEW t \in Tasks, AfterEffect(t)
    PROVE  RunsOne'
<1>1. CASE /\ AskEffect(t, {"initForMe", "getMe"})
           /\ UNCHANGED <<updTask, loops, mixed>>
  <2>1. task'[t].pc \notin Starters \cup Closers
    BY <1>1, Apart DEF AskEffect, Idle
  <2> QED
    BY <1>1, <2>1, QuietRuns, Apart DEF AskEffect
<1>2. CASE StartEffect(t)
  <2>1. /\ Others(t) /\ mixed \subseteq mixed'
        /\ task'[t] = Idle \/ task'[t].pc \in Starters
    BY <1>2 DEF StartEffect, AskEffect
  <2>2. Idle.pc = "idle" /\ Idle.pc \notin Starters \cup Closers \cup Stoppers
    BY Apart DEF Idle
  <2>3. updTask = None /\ Without({"starts", "startStop"})' =>
           \A u \in Tasks \ {t} : task[u].pc \notin Starters \cup Closers
    <3>1. Without({"starts", "startStop"})' =>
             "starts" \notin mixed' /\ "startStop" \notin mixed'
      BY DEF Without
    <3> QED
      BY <1>2, <3>1 DEF StartEffect
  <2>4. CASE UNCHANGED <<updTask, loops>> /\ task'[t] = Idle
    BY <2>1, <2>2, <2>4, QuietRuns
  <2>5. CASE /\ UNCHANGED <<updTask, loops>> /\ task'[t].pc \in Starters
             /\ updTask = None
    BY <2>1, <2>3, <2>5, StartRuns
  <2>6. CASE updTask = None /\ NewLoop /\ task'[t] = Idle
    BY <2>1, <2>3, <2>6, StartRuns
  <2>7. task'[t].pc \in Starters => task'[t].pc # "idle"
    BY Apart
  <2> QED
    BY <1>2, <2>1, <2>4, <2>5, <2>6, <2>7 DEF StartEffect
<1> QED
  BY <1>1, <1>2 DEF AfterEffect

\* The task stops the loop it finds, and closes behind that only where nobody
\* starts updates.
LEMMA StopRuns ==
    ASSUME TypeOK, RunsOne, NEW t \in Tasks, StopEffect(t), mixed \subseteq mixed',
           task'[t].pc \in Closing /\ "startStop" \notin mixed' =>
              \A u \in Tasks \ {t} : task[u].pc \notin Starters
    PROVE  RunsOne'
<1>1. Others(t)
  BY DEF StopEffect
<1>2. /\ task'[t] = Idle => task'[t].pc = "idle"
      /\ ClosesConn(t) => task'[t].pc = "closeSender"
      /\ "closeSender" \in Closing
  BY DEF ClosesConn, Idle, Closing
<1>3. CASE /\ UNCHANGED <<updTask, loops>>
           /\ task'[t] = Idle \/ (updTask = None /\ ClosesConn(t))
  BY <1>1, <1>2, <1>3, Apart, QuietRuns
<1>4. CASE /\ updTask # None
           /\ \/ /\ loops[updTask] = "cancelled" /\ updTask' = None
                 /\ UNCHANGED loops /\ (task'[t] = Idle \/ ClosesConn(t))
              \/ /\ UNCHANGED updTask /\ loops[updTask] \in LiveStates
                 /\ loops' = [loops EXCEPT ![updTask] = "cancelling"]
                 /\ task'[t].pc \in Stoppers /\ task'[t].at = updTask
  <2> SUFFICES ASSUME Without({"starts", "startStop"})'
               PROVE  StartsAlone' /\ StopsTheLoop' /\ OnlyLoop'
    BY DEF RunsOne
  <2>1. StartsAlone /\ StopsTheLoop /\ OnlyLoop
    BY RunsOneStays
  <2>2. /\ task'[t].pc \in Closers \cup {"idle"}
        /\ \A u \in Tasks : task'[u].pc \notin Starters
    <3>1. \A u \in Tasks : task[u].pc \notin Starters
      BY <1>4, <2>1 DEF StartsAlone
    <3>2. task'[t].pc \in Closers \cup {"idle"}
      BY <1>2, <1>4, Apart
    <3> QED
      BY <1>1, <3>1, <3>2, Apart DEF Others
  <2>3. StartsAlone'
    BY <2>2 DEF StartsAlone
  <2>4. CASE /\ loops[updTask] = "cancelled" /\ updTask' = None /\ UNCHANGED loops
             /\ task'[t] = Idle \/ ClosesConn(t)
    <3>1. StopsTheLoop'
      BY <1>1, <1>2, <2>1, <2>4, Apart DEF StopsTheLoop, Others
    <3>2. OnlyLoop'
      BY <2>1, <2>4 DEF OnlyLoop, Live, LiveStates
    <3> QED
      BY <2>3, <3>1, <3>2
  <2>5. CASE /\ UNCHANGED updTask /\ loops[updTask] \in LiveStates
             /\ loops' = [loops EXCEPT ![updTask] = "cancelling"]
             /\ task'[t].pc \in Stoppers /\ task'[t].at = updTask
    <3>1. StopsTheLoop'
      BY <1>1, <2>1, <2>5, Apart DEF StopsTheLoop, Others
    <3>2. \A l \in Loops \ {updTask} : loops'[l] = loops[l]
      BY <2>5 DEF TypeOK, DataOK
    <3>3. OnlyLoop'
      BY <2>1, <2>5, <3>2 DEF OnlyLoop, Live
    <3> QED
      BY <2>3, <3>1, <3>3
  <2> QED
    BY <1>4, <2>4, <2>5
<1> QED
  BY <1>3, <1>4 DEF StopEffect

\* The loop the task has waited for has ended: no other runs.
LEMMA FinishRuns ==
    ASSUME TypeOK, RunsOne, NEW t \in Tasks, Others(t), mixed \subseteq mixed',
           task[t].pc \in Stoppers, loops[task[t].at] = "cancelled",
           updTask' = None, UNCHANGED loops,
           task'[t].pc \in {"idle", "closeSender"}
    PROVE  RunsOne'
<1> SUFFICES ASSUME Without({"starts", "startStop"})'
             PROVE  StartsAlone' /\ StopsTheLoop' /\ OnlyLoop'
  BY DEF RunsOne
<1>1. StartsAlone /\ StopsTheLoop /\ OnlyLoop
  BY RunsOneStays
<1>2. \A u \in Tasks : task'[u].pc \notin Starters
  BY <1>1, Apart DEF StartsAlone, Others
<1>3. StartsAlone'
  BY <1>2 DEF StartsAlone
<1>4. StopsTheLoop'
  BY <1>1, Apart DEF StopsTheLoop, Others
<1>5. OnlyLoop'
  BY <1>1, NoneAssumption DEF OnlyLoop, StopsTheLoop, Live, LiveStates
<1> QED
  BY <1>3, <1>4, <1>5

LEMMA StillRuns ==
    ASSUME RunsOne, UNCHANGED <<task, updTask, mixed>>, Live' \subseteq Live
    PROVE  RunsOne'
BY DEF RunsOne, StartsAlone, StopsTheLoop, OnlyLoop, Without

LEMMA CallRuns ==
    ASSUME TypeOK, RunsOne, NEW t \in Tasks, Call(t)
    PROVE  RunsOne'
<1>1. ASSUME NEW goal \in Goals, Connect(t, goal) PROVE RunsOne'
  <2>1. CASE cur # None
    BY <1>1, <2>1, AfterConnectDoes, AfterRuns DEF Connect
  <2>2. CASE cur = None
    <3>1. /\ task' = [task EXCEPT ![t] = At("dialing", dialled', goal)]
          /\ UNCHANGED <<updTask, loops>> /\ mixed \subseteq mixed'
      BY <1>1, <2>2 DEF Connect
    <3>2. Others(t) /\ task'[t] = At("dialing", dialled', goal)
      BY <3>1, Moves
    <3>3. task'[t].pc = "dialing" /\ "dialing" \in Connecting
      BY <3>2 DEF At, Connecting
    <3> QED
      BY <3>1, <3>2, <3>3, Apart, QuietRuns
  <2> QED
    BY <2>1, <2>2
<1>2. ASSUME NEW goal \in Goals, StartUpdates(t, goal) PROVE RunsOne'
  BY <1>2, StartDoes, AfterRuns DEF StartUpdates, AfterEffect
<1>3. ASSUME NEW goal \in Goals, StopCalls(t, goal) PROVE RunsOne'
  <2>1. /\ task' = [task EXCEPT ![t] = At("callsStopping", None, goal)]
        /\ UNCHANGED <<updTask, loops, mixed>>
    BY <1>3 DEF StopCalls, updVars
  <2>2. Others(t) /\ task'[t] = At("callsStopping", None, goal)
    BY <2>1, Moves
  <2>3. task'[t].pc = "callsStopping"
    BY <2>2 DEF At
  <2> QED
    BY <2>1, <2>2, <2>3, Apart, QuietRuns
<1>4. ASSUME StopUpdates(t) PROVE RunsOne'
  <2>1. /\ StopEffect(t) /\ task'[t].pc \notin Closing
        /\ mixed \subseteq mixed'
    BY <1>4, StopDoes DEF StopUpdates, Goals
  <2> QED
    BY <2>1, StopRuns
<1>5. ASSUME Close(t) PROVE RunsOne'
  <2>1. CloseEffect(t)
    BY <1>5, CloseDoes DEF Close, Goals
  <2> QED
    BY <2>1, StopRuns DEF CloseEffect
<1> QED
  BY <1>1, <1>2, <1>3, <1>4, <1>5 DEF Call

LEMMA ConnectRuns ==
    ASSUME TypeOK, RunsOne, NEW t \in Tasks,
           \/ DialFails(t) \/ Dialled(t) \/ Exchanged(t) \/ ExchangeFails(t)
           \/ Initialised(t) \/ InitFails(t) \/ SenderUndone(t) \/ SocketUndone(t)
    PROVE  RunsOne'
<1>1. CASE Initialised(t)
  <2>1. AfterConnect(t, task[t].goal) /\ task[t].goal \in Goals
    BY <1>1 DEF Initialised, TypeOK, Placed
  <2> QED
    BY <2>1, AfterConnectDoes, AfterRuns
<1>2. CASE ~Initialised(t)
  <2>1. /\ UNCHANGED <<updTask, loops, mixed>>
        /\ \/ Return(t)
           \/ \E pc \in Connecting : Goto(t, pc, task[t].at)
    BY <1>2 DEF DialFails, Dialled, Exchanged, ExchangeFails, InitFails,
       SenderUndone, SocketUndone, TakeConnection, Connecting, otherVars, updVars
  <2>2. Others(t) /\ task'[t].pc \in {"idle"} \cup Connecting
    <3>1. CASE Return(t)
      BY <3>1, ReturnMoves DEF Idle
    <3>2. ASSUME NEW pc \in Connecting, Goto(t, pc, task[t].at)
          PROVE  Others(t) /\ task'[t].pc \in Connecting
      <4>1. Others(t) /\ task'[t] = At(pc, task[t].at, task[t].goal)
        BY <3>2, GotoMoves
      <4> QED
        BY <4>1 DEF At
    <3> QED
      BY <2>1, <3>1, <3>2
  <2> QED
    BY <2>1, <2>2, Apart, QuietRuns
<1> QED
  BY <1>1, <1>2

LEMMA RestRuns ==
    ASSUME TypeOK, RunsOne, NEW t \in Tasks,
           \/ AskedFirst(t) \/ GotMe(t) \/ GotState(t) \/ StateFails(t)
           \/ StopEnds(t) \/ CallsStopped(t) \/ CloseStoppedUpdates(t)
           \/ CloseSenderEnds(t) \/ CloseSocketEnds(t) \/ Cancel(t)
    PROVE  RunsOne'
<1>1. task[t].goal \in Goals
  BY DEF TypeOK, Placed
<1>2. ASSUME Return(t), UNCHANGED <<updTask, loops>>, mixed \subseteq mixed'
      PROVE  RunsOne'
  <2>1. Others(t) /\ task'[t].pc = "idle"
    BY <1>2, ReturnMoves DEF Idle
  <2> QED
    BY <1>2, <2>1, Apart, QuietRuns
<1>3. CASE StateFails(t) \/ CloseSocketEnds(t) \/ Cancel(t)
  BY <1>2, <1>3 DEF StateFails, CloseSocketEnds, Cancel, otherVars, updVars
<1>4. CASE GotMe(t)
  BY <1>1, <1>4, StartDoes, AfterRuns DEF GotMe, AfterEffect
<1>5. CASE GotState(t)
  <2>1. /\ Others(t) /\ task'[t] = Idle /\ NewLoop /\ mixed \subseteq mixed'
        /\ task[t].pc \in Starters
    BY <1>5, StartedDoes, CreateDoes DEF GotState, Starters
  <2>2. Without({"starts", "startStop"})' =>
           /\ updTask = None
           /\ \A u \in Tasks \ {t} : task[u].pc \notin Starters \cup Closers
    BY <2>1, RunsOneStays DEF StartsAlone
  <2> QED
    BY <2>1, <2>2, StartRuns
<1>6. CASE AskedFirst(t)
  <2>1. CASE StartBody(t, task[t].goal)
    BY <1>1, <2>1, StartDoes, AfterRuns DEF AfterEffect
  <2>2. CASE /\ task[t].pc = "initForMe"
             /\ Ask(t, task[t].goal, "initForMe", "getMe")
             /\ UNCHANGED <<updTask, loops, mixed, callsVars>>
    BY <1>1, <2>2, AskDoes, AfterRuns DEF AfterEffect
  <2>3. CASE /\ task[t].pc = "initForState"
             /\ Ask(t, task[t].goal, "initForMe", "getState")
             /\ UNCHANGED <<updTask, loops, mixed>>
    <3>1. /\ Others(t) /\ task[t].pc \in Starters
          /\ task'[t].pc \in {"idle", "initForMe"} \cup Starters
      BY <1>1, <2>3, AskDoes DEF AskEffect, Starters, Idle
    <3>2. CASE task'[t].pc \in Starters
      <4>1. Without({"starts", "startStop"})' =>
               /\ updTask = None
               /\ \A u \in Tasks \ {t} : task[u].pc \notin Starters \cup Closers
        BY <2>3, <3>1, RunsOneStays DEF StartsAlone
      <4> QED
        BY <2>3, <3>1, <3>2, <4>1, StartRuns
    <3>3. CASE task'[t].pc \in {"idle", "initForMe"}
      BY <2>3, <3>1, <3>3, Apart, QuietRuns
    <3> QED
      BY <3>1, <3>2, <3>3
  <2> QED
    BY <1>6, <2>1, <2>2, <2>3 DEF AskedFirst
<1>7. CASE CallsStopped(t)
  <2>1. CASE Return(t) /\ UNCHANGED <<updTask, loops, mixed>>
    BY <1>2, <2>1
  <2>2. CASE CloseBody(t, "facade")
    <3>1. CloseEffect(t)
      BY <2>2, CloseDoes DEF Goals
    <3> QED
      BY <3>1, StopRuns DEF CloseEffect
  <2> QED
    BY <1>7, <2>1, <2>2 DEF CallsStopped
<1>8. CASE StopEnds(t)
  <2>1. /\ Others(t) /\ task'[t].pc = "idle" /\ task[t].pc \in Stoppers
    BY <1>8, ReturnMoves DEF StopEnds, Idle, Stoppers
  <2> QED
    BY <1>8, <2>1, FinishRuns DEF StopEnds, FinishStop
<1>9. CASE CloseStoppedUpdates(t)
  <2>1. /\ Others(t) /\ task'[t].pc \in {"idle", "closeSender"}
        /\ task[t].pc \in Stoppers
    BY <1>1, <1>9, CloseStoppedDoes DEF CloseStoppedUpdates, ClosesConn, Idle,
                                        Stoppers
  <2> QED
    BY <1>9, <2>1, FinishRuns DEF CloseStoppedUpdates, FinishStop
<1>10. CASE CloseSenderEnds(t)
  <2>1. /\ task[t].pc = "closeSender" /\ UNCHANGED <<updTask, loops, mixed>>
        /\ Return(t) \/ Goto(t, "closeSocket", cur)
    BY <1>10 DEF CloseSenderEnds, otherVars, updVars
  <2>2. CASE Return(t)
    BY <1>2, <2>1, <2>2
  <2>3. CASE Goto(t, "closeSocket", cur)
    <3>1. Others(t) /\ task'[t] = At("closeSocket", cur, task[t].goal)
      BY <2>3, GotoMoves
    <3>2. task'[t].pc = "closeSocket"
      BY <3>1 DEF At
    <3> QED
      BY <2>1, <3>1, <3>2, Apart, QuietRuns
  <2> QED
    BY <2>1, <2>2, <2>3
<1> QED
  BY <1>3, <1>4, <1>5, <1>6, <1>7, <1>8, <1>9, <1>10

LEMMA NextRuns == TypeOK /\ RunsOne /\ [Next]_vars => RunsOne'
<1> SUFFICES ASSUME TypeOK, RunsOne, [Next]_vars PROVE RunsOne'
  OBVIOUS
<1>1. ASSUME NEW t \in Tasks, Continue(t) \/ Cancel(t) PROVE RunsOne'
  BY <1>1, ConnectRuns, RestRuns DEF Continue
<1>2. ASSUME NEW l \in Loops, Run(l) \/ LoopTakes(l) PROVE RunsOne'
  <2>1. /\ UNCHANGED <<task, updTask, mixed>> /\ loops[l] \in LiveStates
        /\ \E st : loops' = [loops EXCEPT ![l] = st]
    BY <1>2 DEF Run, LoopStarts, LoopTakes, LoopApplied, LoopDies, LoopEnds,
                NextMessage, LiveStates
  <2>2. \A k \in Loops \ {l} : loops'[k] = loops[k]
    BY <2>1 DEF TypeOK, DataOK
  <2>3. Live' \subseteq Live
    BY <2>1, <2>2 DEF Live
  <2> QED
    BY <2>1, <2>3, StillRuns
<1>3. CASE SignIn \/ UNCHANGED vars
  <2>1. UNCHANGED <<task, updTask, loops, mixed>>
    BY <1>3 DEF SignIn, vars, otherVars, updVars
  <2> QED
    BY <2>1, StillRuns DEF Live
<1>4. CASE Crash
  <2>1. /\ \A u \in Tasks : task'[u].pc = "idle"
        /\ \A l \in Loops : loops'[l] = "none"
    BY <1>4 DEF Crash, Idle
  <2>2. StartsAlone' /\ StopsTheLoop'
    BY <2>1, Apart DEF StartsAlone, StopsTheLoop
  <2>3. OnlyLoop'
    BY <2>1 DEF OnlyLoop, Live, LiveStates
  <2> QED
    BY <2>2, <2>3 DEF RunsOne
<1> QED
  BY <1>1, <1>2, <1>3, <1>4, CallRuns DEF Next

-----------------------------------------------------------------------------
(* What the loop reads.                                                    *)

\* No task makes a loop read, or changes what it reads from.
NoneReads ==
    /\ mixed \subseteq mixed'
    /\ \A l \in Loops : loops'[l] = "reading" => loops[l] = "reading"

LEMMA EffectReads ==
    ASSUME TypeOK, NEW t \in Tasks
    PROVE  /\ mixed \subseteq mixed' /\ loops' = loops => NoneReads
           /\ mixed \subseteq mixed' /\ NewLoop => NoneReads
           /\ AfterEffect(t) => NoneReads
           /\ mixed \subseteq mixed' /\ StopEffect(t) => NoneReads
<1>1. mixed \subseteq mixed' /\ loops' = loops => NoneReads
  BY DEF NoneReads
<1>2. ASSUME mixed \subseteq mixed', NEW k \in Loops,
             NEW st \in {"new", "cancelling"}, loops' = [loops EXCEPT ![k] = st]
      PROVE  NoneReads
  <2>1. loops'[k] = st /\ \A l \in Loops \ {k} : loops'[l] = loops[l]
    BY <1>2 DEF TypeOK, DataOK
  <2> QED
    BY <1>2, <2>1 DEF NoneReads
<1>3. mixed \subseteq mixed' /\ NewLoop => NoneReads
  BY <1>2 DEF NewLoop
<1>4. AfterEffect(t) => NoneReads
  <2>1. StartEffect(t) => mixed \subseteq mixed' /\ (loops' = loops \/ NewLoop)
    BY DEF StartEffect
  <2>2. AfterEffect(t) => StartEffect(t) \/ (loops' = loops /\ mixed' = mixed)
    BY DEF AfterEffect
  <2> QED
    BY <1>1, <1>3, <2>1, <2>2
<1>5. mixed \subseteq mixed' /\ StopEffect(t) => NoneReads
  <2>1. ASSUME mixed \subseteq mixed', StopEffect(t), loops' # loops
        PROVE  NoneReads
    <3>1. updTask \in Loops /\ loops' = [loops EXCEPT ![updTask] = "cancelling"]
      BY <2>1 DEF StopEffect, TypeOK, DataOK
    <3> QED
      BY <1>2, <2>1, <3>1
  <2> QED
    BY <1>1, <2>1
<1> QED
  BY <1>1, <1>3, <1>4, <1>5

LEMMA TaskReads ==
    ASSUME TypeOK, NEW t \in Tasks, Call(t) \/ Continue(t) \/ Cancel(t)
    PROVE  NoneReads /\ feed' = feed
<1>1. task[t].goal \in Goals /\ {"raw", "facade"} \subseteq Goals
  BY DEF TypeOK, Placed, Goals
<1>2. feed' = feed
  BY DEF Call, Connect, StartUpdates, StopCalls, StopUpdates, Close, Cancel,
     Continue, DialFails, Dialled, Exchanged, ExchangeFails, Initialised,
     InitFails, SenderUndone, SocketUndone, AskedFirst, GotMe, GotState,
     StateFails, StopEnds, CallsStopped, CloseStoppedUpdates, CloseSenderEnds,
     CloseSocketEnds, otherVars, updVars
<1> SUFFICES NoneReads
  BY <1>2
<1>3. ASSUME NEW goal \in Goals
      PROVE  /\ StartBody(t, goal) => NoneReads
             /\ AfterConnect(t, goal) => NoneReads
             /\ mixed \subseteq mixed' /\ StopBody(t, goal, FALSE) => NoneReads
             /\ CloseBody(t, goal) => NoneReads
  <2>1. StartBody(t, goal) \/ AfterConnect(t, goal) => AfterEffect(t)
    BY StartDoes, AfterConnectDoes DEF AfterEffect
  <2>2. StopBody(t, goal, FALSE) => StopEffect(t)
    BY StopDoes
  <2>3. CloseBody(t, goal) => StopEffect(t) /\ mixed \subseteq mixed'
    BY CloseDoes DEF CloseEffect
  <2> QED
    BY <2>1, <2>2, <2>3, EffectReads
<1>4. ASSUME mixed \subseteq mixed', loops' = loops \/ CreateLoop PROVE NoneReads
  BY <1>4, EffectReads, CreateDoes
<1>5. CASE Call(t)
  <2>1. ASSUME NEW goal \in Goals, Connect(t, goal) PROVE NoneReads
    BY <1>3, <1>4, <2>1 DEF Connect
  <2>2. ASSUME NEW goal \in Goals, StopCalls(t, goal) PROVE NoneReads
    BY <1>4, <2>2 DEF StopCalls, updVars
  <2>3. StopUpdates(t) => mixed \subseteq mixed' /\ StopBody(t, "raw", FALSE)
    BY DEF StopUpdates
  <2> QED
    BY <1>1, <1>3, <1>5, <2>1, <2>2, <2>3 DEF Call, StartUpdates, Close
<1>6. CASE Cancel(t) \/ GotState(t)
  <2>1. mixed \subseteq mixed' /\ (loops' = loops \/ CreateLoop)
    BY <1>6 DEF Cancel, GotState, updVars
  <2> QED
    BY <1>4, <2>1
<1>7. CASE Initialised(t) \/ AskedFirst(t) \/ GotMe(t) \/ CallsStopped(t)
  <2>1. \/ StartBody(t, task[t].goal) \/ AfterConnect(t, task[t].goal)
        \/ CloseBody(t, "facade")
        \/ mixed' = mixed /\ loops' = loops
    BY <1>7 DEF Initialised, AskedFirst, GotMe, CallsStopped
  <2> QED
    BY <1>1, <1>3, <1>4, <2>1
<1>8. CASE Continue(t) /\ mixed' = mixed /\ loops' = loops
  BY <1>4, <1>8
<1>9. ASSUME Continue(t)
      PROVE  \/ Initialised(t) \/ AskedFirst(t) \/ GotMe(t) \/ CallsStopped(t)
             \/ GotState(t) \/ (mixed' = mixed /\ loops' = loops)
  BY <1>9 DEF Continue, DialFails, Dialled, Exchanged, ExchangeFails, InitFails,
     SenderUndone, SocketUndone, StateFails, StopEnds, CloseStoppedUpdates,
     CloseSenderEnds, CloseSocketEnds, otherVars, updVars
<1> QED
  BY <1>5, <1>6, <1>7, <1>8, <1>9

LEMMA ReadsStay ==
    ASSUME ReadsCurrent, NoneReads, feed' = feed,
           Without({"connects", "starts", "startStop"}) =>
              cur' = cur \/ \A l \in Loops : loops[l] # "reading"
    PROVE  ReadsCurrent'
<1>1. Without({"connects", "starts", "startStop"})' =>
         Without({"connects", "starts", "startStop"})
  BY WithoutStays DEF NoneReads
<1> QED
  BY <1>1 DEF ReadsCurrent, NoneReads

LEMMA NextReads ==
    TypeOK /\ ConnInv /\ LoopInv /\ [Next]_vars => ReadsCurrent'
<1> SUFFICES ASSUME TypeOK, ConnInv, RunsOne, ReadsCurrent, [Next]_vars
             PROVE  ReadsCurrent'
  BY DEF LoopInv
<1>1. Without({"connects", "starts", "startStop"}) =>
         /\ Without({"connects"}) /\ Without({"starts", "startStop"})
         /\ \A l \in Loops : loops[l] = "reading" => cur # None
  BY DEF Without, ReadsCurrent
<1>2. ASSUME NEW t \in Tasks, Call(t) \/ Continue(t) \/ Cancel(t)
      PROVE  ReadsCurrent'
  <2>1. NoneReads /\ feed' = feed
    BY <1>2, TaskReads
  <2>2. CASE cur' = cur
    BY <2>1, <2>2, ReadsStay
  <2>3. CASE Dialled(t) \/ Exchanged(t)
    <3>1. task[t].pc \in {"dialing", "exchanging"} /\ task[t].pc \in Connecting
      BY <2>3 DEF Dialled, Exchanged, Connecting
    <3>2. Without({"connects"}) => cur = None
      BY <3>1 DEF ConnInv, ConnectsAlone
    <3> QED
      BY <1>1, <2>1, <3>2, ReadsStay
  <2>4. CASE CloseSocketEnds(t)
    <3>1. Without({"starts", "startStop"}) => Live = {}
      BY <2>4, NoneAssumption DEF CloseSocketEnds, RunsOne, StopsTheLoop, OnlyLoop,
                                  Live
    <3>2. \A l \in Loops : loops[l] = "reading" => l \in Live
      BY DEF Live, LiveStates
    <3> QED
      BY <1>1, <2>1, <3>1, <3>2, ReadsStay
  <2>5. cur' = cur \/ Dialled(t) \/ Exchanged(t) \/ CloseSocketEnds(t)
    BY <1>2 DEF Call, Connect, StartUpdates, StopCalls, StopUpdates, Close, Cancel,
       Continue, DialFails, ExchangeFails, Initialised, InitFails, SenderUndone,
       SocketUndone, AskedFirst, GotMe, GotState, StateFails, StopEnds,
       CallsStopped, CloseStoppedUpdates, CloseSenderEnds, clientVars
  <2> QED
    BY <2>2, <2>3, <2>4, <2>5
<1>3. ASSUME NEW l \in Loops, Run(l) \/ LoopTakes(l) PROVE ReadsCurrent'
  <2>1. /\ UNCHANGED <<cur, mixed>>
        /\ \/ cur # None /\ feed' = [feed EXCEPT ![l] = cur]
              /\ loops' = [loops EXCEPT ![l] = "reading"]
           \/ (feed' = feed \/ feed' = [feed EXCEPT ![l] = None])
              /\ \E st \in {"died", "broken", "applying", "cancelled"} :
                    loops' = [loops EXCEPT ![l] = st]
    BY <1>3 DEF Run, LoopStarts, LoopTakes, LoopApplied, LoopDies, LoopEnds,
                NextMessage, clientVars
  <2>2. \A k \in Loops \ {l} : loops'[k] = loops[k] /\ feed'[k] = feed[k]
    BY <2>1 DEF TypeOK, DataOK
  <2>3. loops'[l] = "reading" => cur # None /\ feed'[l] = cur
    BY <2>1 DEF TypeOK, DataOK
  <2> QED
    BY <2>1, <2>2, <2>3 DEF ReadsCurrent, Without
<1>4. CASE SignIn \/ UNCHANGED vars
  <2>1. UNCHANGED <<cur, loops, feed, mixed>>
    BY <1>4 DEF SignIn, vars, clientVars, otherVars, updVars
  <2> QED
    BY <2>1 DEF ReadsCurrent, Without
<1>5. CASE Crash
  <2>1. \A l \in Loops : loops'[l] = "none"
    BY <1>5 DEF Crash
  <2> QED
    BY <2>1 DEF ReadsCurrent
<1> QED
  BY <1>2, <1>3, <1>4, <1>5 DEF Next

-----------------------------------------------------------------------------
(* What the loop needs.                                                    *)

LEMMA SoundStays ==
    ASSUME mixed \subseteq mixed', RunsOne, LoopSound,
           Without({"starts", "startStop"})'
    PROVE  /\ updTask # None =>
                 /\ LoopServed /\ \A t \in Tasks : task[t].pc \notin Starters
           /\ \A t \in Tasks : task[t].pc \in Starters => engine = t /\ cur # None
<1>1. Without({"starts", "startStop"})
  BY WithoutStays
<1>2. StartsAlone
  BY RunsOneStays
<1> QED
  BY <1>1, <1>2 DEF LoopSound, StartsAlone

\* Steps that leave the updates alone.
LEMMA QuietSound ==
    ASSUME RunsOne, LoopSound, NEW t \in Tasks, Others(t), mixed \subseteq mixed',
           UNCHANGED <<updTask, loops, engine, ready>>, cur' = cur \/ cur' # None,
           task'[t].pc \in Starters => task[t].pc \in Starters,
           task[t].pc \notin Stoppers
    PROVE  LoopSound'
<1> SUFFICES ASSUME Without({"starts", "startStop"})'
             PROVE  /\ updTask' # None => LoopServed'
                    /\ \A u \in Tasks : task'[u].pc \in Starters =>
                          engine' = u /\ cur' # None
  BY DEF LoopSound
<1>1. /\ updTask # None => LoopServed
      /\ \A u \in Tasks : task[u].pc \in Starters => engine = u /\ cur # None
  BY SoundStays
<1>2. \A u \in Tasks : task[u].pc \in Stoppers => task'[u].pc \in Stoppers
  BY DEF Others
<1>3. \A u \in Tasks : task'[u].pc \in Starters => task[u].pc \in Starters
  BY DEF Others
<1>4. LoopServed => LoopServed'
  BY <1>2 DEF LoopServed
<1> QED
  BY <1>1, <1>3, <1>4

\* Steps behind which there is no loop, nor one that is being started.
LEMMA GoneSound ==
    ASSUME updTask' = None,
           Without({"starts", "startStop"})' =>
              \A u \in Tasks : task'[u].pc \notin Starters
    PROVE  LoopSound'
BY DEF LoopSound

\* The task starts the loop, with nobody else at it.
LEMMA NewSound ==
    ASSUME TypeOK, NEW t \in Tasks, NewLoop, task'[t] = Idle, cur' = cur,
           Without({"starts", "startStop"})' =>
              /\ cur # None /\ ready' = TRUE
              /\ \A u \in Tasks \ {t} : task'[u].pc \notin Starters
    PROVE  LoopSound'
<1>1. loops'[updTask'] = "new"
  BY DEF NewLoop, TypeOK, DataOK
<1>2. task'[t].pc \notin Starters
  BY Apart DEF Idle
<1> QED
  BY <1>1, <1>2 DEF LoopSound, LoopServed

LEMMA StartSound ==
    ASSUME TypeOK, RunsOne, LoopSound, NEW t \in Tasks, NEW goal \in Goals,
           StartBody(t, goal), task[t].pc \notin Stoppers, cur' = cur
    PROVE  LoopSound'
<1>1. /\ Others(t) /\ mixed \subseteq mixed'
      /\ task'[t] = Idle \/ task'[t].pc \in Starters
  BY StartDoes DEF StartEffect, AskEffect
<1>2. Idle.pc \notin Starters
  BY Apart DEF Idle
<1>3. CASE updTask # None /\ Started(t, goal) /\ UNCHANGED <<updTask, loops, engine, ready>>
  <2>1. task'[t] = Idle
    BY <1>3, StartedDoes
  <2> QED
    BY <1>1, <1>2, <1>3, <2>1, QuietSound
<1>4. updTask = None /\ Without({"starts", "startStop"})' =>
         \A u \in Tasks \ {t} : task'[u].pc \notin Starters
  <2>1. Without({"starts", "startStop"})' => "starts" \notin mixed'
    BY DEF Without
  <2> QED
    BY <1>1, <2>1, StartDoes DEF StartEffect, Others
<1>5. CASE updTask = None /\ Return(t) /\ UNCHANGED <<updTask, loops, engine, ready>>
  <2>1. task'[t] = Idle
    BY <1>5, ReturnMoves
  <2> QED
    BY <1>2, <1>4, <1>5, <2>1, GoneSound
<1>6. CASE /\ updTask = None /\ cur # None /\ ready' = TRUE
           /\ CreateLoop /\ Started(t, goal)
  <2>1. task'[t] = Idle
    BY <1>6, StartedDoes
  <2> QED
    BY <1>1, <1>2, <1>4, <1>6, <2>1, NewSound, CreateDoes
<1>7. CASE /\ updTask = None /\ cur # None /\ engine' = t
           /\ UNCHANGED updTask
  BY <1>2, <1>4, <1>7 DEF LoopSound
<1> QED
  BY <1>3, <1>5, <1>6, <1>7 DEF StartBody

LEMMA AfterSound ==
    ASSUME TypeOK, RunsOne, LoopSound, NEW t \in Tasks, NEW goal \in Goals,
           AfterConnect(t, goal), task[t].pc \notin Stoppers, cur' = cur,
           ~StartBody(t, goal) => mixed' = mixed
    PROVE  LoopSound'
<1>1. CASE StartBody(t, goal)
  BY <1>1, StartSound
<1>2. CASE Return(t) /\ UNCHANGED <<updTask, loops, engine, ready, mixed>>
  <2>1. Others(t) /\ task'[t].pc \notin Starters
    BY <1>2, ReturnMoves, Apart DEF Idle
  <2> QED
    BY <1>2, <2>1, QuietSound
<1>3. CASE /\ Ask(t, goal, "initForMe", "getMe")
           /\ UNCHANGED <<updTask, loops, engine, ready, mixed>>
  <2>1. Others(t) /\ task'[t].pc \in {"idle", "initForMe", "getMe"}
    BY <1>3, AskDoes DEF AskEffect, Idle
  <2>2. task'[t].pc \notin Starters
    BY <2>1 DEF Starters
  <2> QED
    BY <1>3, <2>1, <2>2, QuietSound
<1> QED
  BY <1>1, <1>2, <1>3 DEF AfterConnect

\* The task stops the loop it finds, or cancels it and waits for it.
LEMMA StopSound ==
    ASSUME TypeOK, RunsOne, LoopSound, NEW t \in Tasks, StopEffect(t),
           mixed \subseteq mixed', task[t].pc \notin Stoppers,
           UNCHANGED <<cur, engine, ready>>
    PROVE  LoopSound'
<1>1. Others(t)
  BY DEF StopEffect
<1>2. ClosesConn(t) \/ task'[t] = Idle => task'[t].pc \notin Starters
  BY Apart DEF ClosesConn, Idle
<1>3. CASE UNCHANGED <<updTask, loops>> /\ (task'[t] = Idle \/ ClosesConn(t))
  BY <1>1, <1>2, <1>3, QuietSound
<1>4. updTask # None /\ Without({"starts", "startStop"})' =>
         LoopServed /\ \A u \in Tasks \ {t} : task'[u].pc \notin Starters
  BY <1>1, SoundStays DEF Others
<1>5. CASE updTask # None /\ updTask' = None /\ (task'[t] = Idle \/ ClosesConn(t))
  BY <1>2, <1>4, <1>5, GoneSound
<1>6. CASE /\ updTask # None /\ UNCHANGED updTask
           /\ loops' = [loops EXCEPT ![updTask] = "cancelling"]
           /\ task'[t].pc \in Stoppers
  <2>1. loops'[updTask'] = "cancelling"
    BY <1>6 DEF TypeOK, DataOK
  <2>2. task'[t].pc \notin Starters
    BY <1>6, Apart
  <2>3. LoopServed => LoopServed'
    BY <1>6, <2>1 DEF LoopServed
  <2> QED
    BY <1>4, <1>6, <2>2, <2>3 DEF LoopSound
<1> QED
  BY <1>3, <1>5, <1>6 DEF StopEffect

LEMMA CallSound ==
    ASSUME TypeOK, RunsOne, LoopSound, NEW t \in Tasks, Call(t)
    PROVE  LoopSound'
<1>1. "idle" \notin Stoppers \cup Starters
  BY Apart
<1>2. ASSUME NEW goal \in Goals, Connect(t, goal) PROVE LoopSound'
  <2>1. task[t].pc \notin Stoppers /\ cur' = cur
    BY <1>1, <1>2 DEF Connect, clientVars
  <2>2. CASE AfterConnect(t, goal)
    <3>1. goal \in {"raw", "facade"} /\ (~StartBody(t, goal) => mixed' = mixed)
      BY <2>2 DEF AfterConnect
    <3> QED
      BY <2>1, <2>2, <3>1, AfterSound
  <2>3. CASE /\ task' = [task EXCEPT ![t] = At("dialing", dialled', goal)]
             /\ UNCHANGED <<updTask, loops, engine, ready>>
             /\ mixed \subseteq mixed'
    <3>1. Others(t) /\ task'[t] = At("dialing", dialled', goal)
      BY <2>3, Moves
    <3>2. task'[t].pc \notin Starters
      BY <3>1 DEF At, Starters
    <3> QED
      BY <2>1, <2>3, <3>1, <3>2, QuietSound
  <2> QED
    BY <1>2, <2>2, <2>3 DEF Connect
<1>3. ASSUME NEW goal \in Goals, StartUpdates(t, goal) PROVE LoopSound'
  BY <1>1, <1>3, StartSound DEF StartUpdates, clientVars
<1>4. ASSUME NEW goal \in Goals, StopCalls(t, goal) PROVE LoopSound'
  <2>1. /\ task' = [task EXCEPT ![t] = At("callsStopping", None, goal)]
        /\ UNCHANGED <<updTask, loops, engine, ready, cur, mixed>>
        /\ task[t].pc = "idle"
    BY <1>4 DEF StopCalls, updVars, clientVars
  <2>2. Others(t) /\ task'[t] = At("callsStopping", None, goal)
    BY <2>1, Moves
  <2>3. task'[t].pc \notin Starters
    BY <2>2 DEF At, Starters
  <2> QED
    BY <1>1, <2>1, <2>2, <2>3, QuietSound
<1>5. ASSUME StopUpdates(t) PROVE LoopSound'
  <2>1. StopEffect(t) /\ mixed \subseteq mixed'
    BY <1>5, StopDoes DEF StopUpdates, Goals
  <2> QED
    BY <1>1, <1>5, <2>1, StopSound DEF StopUpdates, clientVars
<1>6. ASSUME Close(t) PROVE LoopSound'
  <2>1. StopEffect(t) /\ mixed \subseteq mixed'
    BY <1>6, CloseDoes DEF Close, CloseEffect, Goals
  <2> QED
    BY <1>1, <1>6, <2>1, StopSound DEF Close
<1> QED
  BY <1>2, <1>3, <1>4, <1>5, <1>6 DEF Call

LEMMA ConnectSound ==
    ASSUME TypeOK, RunsOne, LoopSound, NEW t \in Tasks,
           \/ DialFails(t) \/ Dialled(t) \/ Exchanged(t) \/ ExchangeFails(t)
           \/ Initialised(t) \/ InitFails(t) \/ SenderUndone(t) \/ SocketUndone(t)
    PROVE  LoopSound'
<1>1. task[t].pc \in Connecting
  BY DEF DialFails, Dialled, Exchanged, ExchangeFails, Initialised, InitFails,
         SenderUndone, SocketUndone, Connecting
<1>2. task[t].pc \notin Stoppers
  BY <1>1, Apart
<1>3. CASE Initialised(t)
  <2>1. /\ AfterConnect(t, task[t].goal) /\ task[t].goal \in Goals /\ cur' = cur
        /\ ~StartBody(t, task[t].goal) => mixed' = mixed
    BY <1>3 DEF Initialised, TypeOK, Placed, AfterConnect
  <2> QED
    BY <1>2, <2>1, AfterSound
<1>4. CASE ~Initialised(t)
  <2>1. /\ UNCHANGED <<updTask, loops, engine, ready, mixed>>
        /\ cur' = cur \/ cur' = task[t].at
        /\ \/ Return(t)
           \/ \E pc \in Connecting : Goto(t, pc, task[t].at)
    BY <1>4 DEF DialFails, Dialled, Exchanged, ExchangeFails, InitFails,
       SenderUndone, SocketUndone, TakeConnection, Connecting, otherVars, updVars,
       clientVars
  <2>2. task[t].at # None
    BY <1>1, NoneAssumption, Bounds DEF TypeOK, Placed, OnConn
  <2>3. Others(t) /\ task'[t].pc \in {"idle"} \cup Connecting
    <3>1. CASE Return(t)
      BY <3>1, ReturnMoves DEF Idle
    <3>2. ASSUME NEW pc \in Connecting, Goto(t, pc, task[t].at)
          PROVE  Others(t) /\ task'[t].pc \in Connecting
      <4>1. Others(t) /\ task'[t] = At(pc, task[t].at, task[t].goal)
        BY <3>2, GotoMoves
      <4> QED
        BY <4>1 DEF At
    <3> QED
      BY <2>1, <3>1, <3>2
  <2>4. task'[t].pc \notin Starters
    BY <2>3, Apart
  <2> QED
    BY <1>2, <2>1, <2>2, <2>3, <2>4, QuietSound
<1> QED
  BY <1>3, <1>4

LEMMA RestSound ==
    ASSUME TypeOK, RunsOne, LoopSound, NEW t \in Tasks,
           \/ AskedFirst(t) \/ GotMe(t) \/ GotState(t) \/ StateFails(t)
           \/ StopEnds(t) \/ CallsStopped(t) \/ CloseStoppedUpdates(t)
           \/ CloseSenderEnds(t) \/ CloseSocketEnds(t) \/ Cancel(t)
    PROVE  LoopSound'
<1>1. task[t].goal \in Goals
  BY DEF TypeOK, Placed
<1>2. ASSUME Return(t), UNCHANGED <<updTask, loops, engine, ready, cur>>,
             mixed \subseteq mixed', task[t].pc \notin Stoppers
      PROVE  LoopSound'
  <2>1. Others(t) /\ task'[t].pc \notin Starters
    BY <1>2, ReturnMoves, Apart DEF Idle
  <2> QED
    BY <1>2, <2>1, QuietSound
<1>3. CASE StateFails(t) \/ Cancel(t)
  <2>1. /\ Return(t) /\ UNCHANGED <<updTask, loops, engine, ready, cur>>
        /\ mixed \subseteq mixed'
    BY <1>3 DEF StateFails, Cancel, otherVars, updVars, clientVars
  <2>2. task[t].pc \notin Stoppers
    BY <1>3 DEF StateFails, Cancel, Asking, Stoppers
  <2> QED
    BY <1>2, <2>1, <2>2
<1>4. CASE GotMe(t)
  <2>1. task[t].pc \notin Stoppers /\ cur' = cur
    BY <1>4, Apart DEF GotMe, clientVars
  <2> QED
    BY <1>1, <1>4, <2>1, StartSound DEF GotMe
<1>5. CASE GotState(t)
  <2>1. /\ Others(t) /\ task'[t] = Idle /\ NewLoop /\ mixed \subseteq mixed'
        /\ task[t].pc \in Starters /\ cur' = cur
    BY <1>5, StartedDoes, CreateDoes DEF GotState, Starters, clientVars
  <2>2. Without({"starts", "startStop"})' =>
           /\ cur # None /\ ready' = TRUE
           /\ \A u \in Tasks \ {t} : task'[u].pc \notin Starters
    <3>1. Without({"starts", "startStop"})' => engine = t /\ cur # None
      BY <2>1, SoundStays
    <3>2. Without({"starts", "startStop"})' =>
             \A u \in Tasks \ {t} : task'[u].pc \notin Starters
      BY <2>1, RunsOneStays DEF StartsAlone, Others
    <3>3. engine = t => ready' = TRUE
      BY <1>5 DEF GotState
    <3> QED
      BY <3>1, <3>2, <3>3
  <2> QED
    BY <2>1, <2>2, NewSound
<1>6. CASE AskedFirst(t)
  <2>1. /\ task[t].pc \in {"initForMe", "initForState"} /\ cur' = cur
        /\ task[t].pc \notin Stoppers
    BY <1>6 DEF AskedFirst, Stoppers
  <2>2. CASE StartBody(t, task[t].goal)
    BY <1>1, <2>1, <2>2, StartSound
  <2>3. ASSUME NEW plain \in {"getMe", "getState"},
               Ask(t, task[t].goal, "initForMe", plain),
               plain = "getState" => task[t].pc \in Starters,
               UNCHANGED <<updTask, loops, engine, ready, mixed>>
        PROVE  LoopSound'
    <3>1. Others(t) /\ task'[t].pc \in {"idle", "initForMe", plain}
      BY <1>1, <2>3, AskDoes DEF AskEffect, Idle
    <3>2. task'[t].pc \in Starters => task[t].pc \in Starters
      BY <2>3, <3>1 DEF Starters
    <3> QED
      BY <2>1, <2>3, <3>1, <3>2, QuietSound
  <2> QED
    BY <1>6, <2>1, <2>2, <2>3 DEF AskedFirst, Starters
<1>7. CASE CallsStopped(t)
  <2>1. task[t].pc \notin Stoppers /\ UNCHANGED <<cur, engine, ready>>
    BY <1>7 DEF CallsStopped, Stoppers
  <2>2. CASE Return(t) /\ UNCHANGED <<updTask, loops, mixed>>
    BY <1>2, <2>1, <2>2
  <2>3. CASE CloseBody(t, "facade")
    <3>1. StopEffect(t) /\ mixed \subseteq mixed'
      BY <2>3, CloseDoes DEF CloseEffect, Goals
    <3> QED
      BY <2>1, <3>1, StopSound
  <2> QED
    BY <1>7, <2>2, <2>3 DEF CallsStopped
<1>8. ASSUME Others(t), task'[t].pc \notin Starters, task[t].pc \in Closers,
             updTask' = None, mixed' = mixed
      PROVE  LoopSound'
  <2>1. Without({"starts", "startStop"})' =>
           \A u \in Tasks : task'[u].pc \notin Starters
    BY <1>8, RunsOneStays, Apart DEF StartsAlone, Others
  <2> QED
    BY <1>8, <2>1, GoneSound
<1>9. CASE StopEnds(t) \/ CloseStoppedUpdates(t)
  <2>1. /\ updTask' = None /\ mixed' = mixed /\ task[t].pc \in Closers
        /\ Return(t) \/ CloseStopped(t, task[t].goal)
    BY <1>9 DEF StopEnds, CloseStoppedUpdates, FinishStop, Closers, Closing
  <2>2. Others(t) /\ task'[t].pc \in {"idle", "closeSender"}
    BY <1>1, <2>1, ReturnMoves, CloseStoppedDoes DEF ClosesConn, Idle
  <2>3. task'[t].pc \notin Starters
    BY <2>2 DEF Starters
  <2> QED
    BY <1>8, <2>1, <2>2, <2>3
<1>10. CASE CloseSenderEnds(t)
  <2>1. /\ task[t].pc = "closeSender"
        /\ UNCHANGED <<updTask, loops, engine, ready, cur, mixed>>
        /\ Return(t) \/ Goto(t, "closeSocket", cur)
    BY <1>10 DEF CloseSenderEnds, otherVars, updVars, clientVars
  <2>2. task[t].pc \notin Stoppers
    BY <2>1, Apart
  <2>3. /\ Others(t)
        /\ task'[t] \in {Idle, At("closeSocket", cur, task[t].goal)}
    BY <2>1, ReturnMoves, GotoMoves
  <2>4. task'[t].pc \notin Starters
    BY <2>3 DEF Starters, Idle, At
  <2> QED
    BY <2>1, <2>2, <2>3, <2>4, QuietSound
<1>11. CASE CloseSocketEnds(t)
  <2>1. /\ task[t].pc = "closeSocket" /\ Return(t) /\ cur' = None
        /\ UNCHANGED <<updTask, mixed>>
    BY <1>11 DEF CloseSocketEnds, updVars
  <2>2. task[t].pc \in Closers
    BY <2>1, Apart
  <2>3. Others(t) /\ task'[t].pc \notin Starters
    BY <2>1, ReturnMoves, Apart DEF Idle
  <2>4. Without({"starts", "startStop"})' => updTask = None
    BY <2>1, RunsOneStays DEF StopsTheLoop
  <2>5. CASE Without({"starts", "startStop"})'
    BY <1>8, <2>1, <2>2, <2>3, <2>4, <2>5
  <2>6. CASE ~Without({"starts", "startStop"})'
    BY <2>6 DEF LoopSound
  <2> QED
    BY <2>5, <2>6
<1> QED
  BY <1>3, <1>4, <1>5, <1>6, <1>7, <1>9, <1>10, <1>11

LEMMA NextSound == TypeOK /\ LoopInv /\ [Next]_vars => LoopSound'
<1> SUFFICES ASSUME TypeOK, RunsOne, LoopSound, [Next]_vars PROVE LoopSound'
  BY DEF LoopInv
<1>1. ASSUME NEW t \in Tasks, Continue(t) \/ Cancel(t) PROVE LoopSound'
  BY <1>1, ConnectSound, RestSound DEF Continue
<1>2. ASSUME NEW l \in Loops, Run(l) \/ LoopTakes(l) PROVE LoopSound'
  <2> SUFFICES ASSUME Without({"starts", "startStop"})'
               PROVE  /\ updTask' # None => LoopServed'
                      /\ \A u \in Tasks : task'[u].pc \in Starters =>
                            engine' = u /\ cur' # None
    BY DEF LoopSound
  <2>1. UNCHANGED <<task, cur, updTask, engine, ready, mixed>>
    BY <1>2 DEF Run, LoopStarts, LoopTakes, LoopApplied, LoopDies, LoopEnds,
                clientVars
  <2>2. l \in Live
    BY <1>2 DEF Run, LoopStarts, LoopTakes, LoopApplied, LoopDies, LoopEnds,
                Live, LiveStates
  <2>3. l = updTask /\ updTask # None
    BY <2>1, <2>2, RunsOneStays, NoneAssumption DEF OnlyLoop
  <2>4. /\ LoopServed
        /\ \A u \in Tasks : task[u].pc \in Starters => engine = u /\ cur # None
    BY <2>1, <2>3, SoundStays
  <2>5. \/ \E st \in {"reading", "applying", "died"} : loops' = [loops EXCEPT ![l] = st]
        \/ loops[l] = "cancelling" /\ loops' = [loops EXCEPT ![l] = "cancelled"]
    BY <1>2, <2>4 DEF Run, LoopStarts, LoopTakes, LoopApplied, LoopDies, LoopEnds,
                      NextMessage, LoopServed
  <2>6. loops'[l] \in {"reading", "applying", "died"}
        \/ (loops[l] = "cancelling" /\ loops'[l] = "cancelled")
    BY <2>5 DEF TypeOK, DataOK
  <2>7. LoopServed'
    BY <2>1, <2>3, <2>4, <2>6 DEF LoopServed
  <2> QED
    BY <2>1, <2>4, <2>7
<1>3. CASE SignIn \/ UNCHANGED vars
  <2>1. UNCHANGED <<task, cur, updTask, loops, engine, ready, mixed>>
    BY <1>3 DEF SignIn, vars, clientVars, otherVars, updVars
  <2> QED
    BY <2>1 DEF LoopSound, LoopServed, Without
<1>4. CASE Crash
  <2>1. updTask' = None /\ \A u \in Tasks : task'[u].pc = "idle"
    BY <1>4 DEF Crash, Idle
  <2> QED
    BY <2>1, Apart, GoneSound
<1> QED
  BY <1>1, <1>2, <1>3, <1>4, CallSound DEF Next

-----------------------------------------------------------------------------
(* The calls manager.                                                      *)

CallsKinds == {"starts", "startStop", "underCalls"}

LEMMA CallsStay ==
    ASSUME CallsInv, mixed \subseteq mixed', Without(CallsKinds)'
    PROVE  /\ Without(CallsKinds) /\ Without({"starts", "startStop"})'
           /\ "startStop" \notin mixed' /\ "underCalls" \notin mixed'
           /\ calls = "on" =>
                 /\ subbed /\ updTask # None
                 /\ \A u \in Tasks : task[u].pc \notin Closers
BY DEF CallsInv, Without, CallsKinds

\* Steps that leave the manager and the updates alone.
LEMMA QuietCalls ==
    ASSUME CallsInv, NEW t \in Tasks, Others(t), mixed \subseteq mixed',
           UNCHANGED <<calls, subbed, updTask>>,
           task'[t].pc \in Closers => task[t].pc \in Closers
    PROVE  CallsInv'
<1>1. ASSUME calls' = "on", Without(CallsKinds)'
      PROVE  /\ subbed' /\ updTask' # None
             /\ \A u \in Tasks : task'[u].pc \notin Closers
  <2>1. /\ subbed /\ updTask # None
        /\ \A u \in Tasks : task[u].pc \notin Closers
    BY <1>1, CallsStay
  <2>2. subbed'
    BY <2>1
  <2>3. \A u \in Tasks : task'[u].pc \notin Closers
    BY <2>1 DEF Others
  <2> QED
    BY <2>1, <2>2, <2>3
<1>2. calls' = "off" => ~subbed'
  <2>1. calls = "off" => ~subbed
    BY DEF CallsInv
  <2> QED
    BY <2>1
<1> QED
  BY <1>1, <1>2 DEF CallsInv, CallsKinds

\* The manager starts where updates run and nobody closes.
LEMMA OnCalls ==
    ASSUME CallsInv, NEW t \in Tasks, Others(t), mixed \subseteq mixed',
           task'[t] = Idle, StartedEffect, updTask' # None,
           Without(CallsKinds)' =>
              \A u \in Tasks \ {t} : task[u].pc \notin Closers
    PROVE  CallsInv'
<1>1. CASE calls' = "on" /\ subbed' = TRUE
  <2>1. \A u \in Tasks : u = t \/ task'[u] = task[u]
    BY DEF Others
  <2>2. task'[t].pc \notin Closers
    BY Apart DEF Idle
  <2>3. Without(CallsKinds)' => \A u \in Tasks : task'[u].pc \notin Closers
    BY <2>1, <2>2
  <2> QED
    BY <1>1, <2>3 DEF CallsInv, CallsKinds
<1>2. CASE UNCHANGED callsVars
  <2>1. calls' = calls /\ subbed' = subbed
    BY <1>2 DEF callsVars
  <2>2. calls' = "off" => ~subbed'
    <3>1. calls = "off" => ~subbed
      BY DEF CallsInv
    <3> QED
      BY <2>1, <3>1
  <2>3. ASSUME calls' = "on", Without(CallsKinds)'
        PROVE  subbed' /\ \A u \in Tasks : task'[u].pc \notin Closers
    <3>1. subbed /\ \A u \in Tasks : task[u].pc \notin Closers
      BY <2>1, <2>3, CallsStay
    <3>2. task'[t].pc \notin Closers
      BY Apart DEF Idle
    <3>3. \A u \in Tasks : task'[u].pc \notin Closers
      BY <3>1, <3>2 DEF Others
    <3>4. subbed'
      BY <2>1, <3>1
    <3> QED
      BY <3>3, <3>4
  <2> QED
    BY <2>2, <2>3 DEF CallsInv, CallsKinds
<1> QED
  BY <1>1, <1>2 DEF StartedEffect

LEMMA AfterCalls ==
    ASSUME TypeOK, CallsInv, NEW t \in Tasks, AfterEffect(t)
    PROVE  CallsInv'
<1>1. ASSUME NEW pcs, pcs \cap Closers = {}, AskEffect(t, pcs),
             UNCHANGED <<updTask, callsVars>>, mixed \subseteq mixed'
      PROVE  CallsInv'
  <2>1. Others(t) /\ task'[t].pc \notin Closers
    BY <1>1, Apart DEF AskEffect, Idle
  <2> QED
    BY <1>1, <2>1, QuietCalls DEF callsVars
<1>2. {"initForMe", "getMe"} \cap Closers = {} /\ Starters \cap Closers = {}
  BY Apart
<1>3. CASE StartEffect(t)
  <2>1. AskEffect(t, Starters) /\ mixed \subseteq mixed' /\ Others(t)
    BY <1>3 DEF StartEffect, AskEffect
  <2>2. Without(CallsKinds)' =>
           \A u \in Tasks \ {t} : task[u].pc \notin Closers
    BY <1>3 DEF StartEffect, Without, CallsKinds
  <2>3. CASE UNCHANGED <<updTask, callsVars>>
    BY <1>1, <1>2, <2>1, <2>3
  <2>4. CASE task'[t] = Idle /\ StartedEffect /\ updTask' # None
    BY <2>1, <2>2, <2>4, OnCalls
  <2>5. NewLoop => updTask' # None
    BY NoneAssumption DEF NewLoop
  <2> QED
    BY <1>3, <2>3, <2>4, <2>5 DEF StartEffect
<1> QED
  BY <1>1, <1>2, <1>3 DEF AfterEffect

\* Whoever stops the updates or closes does it under no running manager.
LEMMA StopCallsInv ==
    ASSUME CallsInv, NEW t \in Tasks, StopEffect(t), mixed \subseteq mixed',
           calls' = "off" \/ (calls' = calls /\
                                 (calls # "off" => "underCalls" \in mixed'))
    PROVE  CallsInv'
<1>1. calls' = "off" => ~subbed'
  <2>1. subbed' = FALSE \/ subbed' = (subbed /\ calls' # "off")
    BY DEF StopEffect
  <2> QED
    BY <2>1
<1>2. calls' = "on" => "underCalls" \in mixed'
  OBVIOUS
<1> QED
  BY <1>1, <1>2 DEF CallsInv, Without

LEMMA FinishCalls ==
    ASSUME CallsInv, NEW t \in Tasks, mixed \subseteq mixed',
           task[t].pc \in Closers, calls' = calls, subbed' = FALSE
    PROVE  CallsInv'
<1>1. Without(CallsKinds)' => calls' # "on"
  BY CallsStay
<1> QED
  BY <1>1 DEF CallsInv, CallsKinds

LEMMA CallCalls ==
    ASSUME TypeOK, CallsInv, NEW t \in Tasks, Call(t)
    PROVE  CallsInv'
<1>1. ASSUME NEW goal \in Goals, Connect(t, goal) PROVE CallsInv'
  <2>1. CASE cur # None
    BY <1>1, <2>1, AfterConnectDoes, AfterCalls DEF Connect
  <2>2. CASE cur = None
    <3>1. /\ task' = [task EXCEPT ![t] = At("dialing", dialled', goal)]
          /\ UNCHANGED <<updTask, calls, subbed>> /\ mixed \subseteq mixed'
      BY <1>1, <2>2 DEF Connect, callsVars
    <3>2. Others(t) /\ task'[t] = At("dialing", dialled', goal)
      BY <3>1, Moves
    <3>3. task'[t].pc = "dialing" /\ "dialing" \in Connecting
      BY <3>2 DEF At, Connecting
    <3>4. task'[t].pc \notin Closers
      BY <3>3, Apart
    <3> QED
      BY <3>1, <3>2, <3>4, QuietCalls
  <2> QED
    BY <2>1, <2>2
<1>2. ASSUME NEW goal \in Goals, StartUpdates(t, goal) PROVE CallsInv'
  BY <1>2, StartDoes, AfterCalls DEF StartUpdates, AfterEffect
<1>3. ASSUME NEW goal \in Goals, StopCalls(t, goal) PROVE CallsInv'
  BY <1>3 DEF StopCalls, CallsInv
<1>4. ASSUME StopUpdates(t) PROVE CallsInv'
  <2>1. /\ StopEffect(t) /\ mixed \subseteq mixed' /\ calls' = calls
        /\ calls # "off" => "underCalls" \in mixed'
    BY <1>4, StopDoes DEF StopUpdates, Goals, Note
  <2> QED
    BY <2>1, StopCallsInv
<1>5. ASSUME Close(t) PROVE CallsInv'
  <2>1. /\ StopEffect(t) /\ mixed \subseteq mixed' /\ calls' = calls
        /\ calls # "off" => "underCalls" \in mixed'
    BY <1>5, CloseDoes DEF Close, CloseBody, CloseEffect, Goals, Note
  <2> QED
    BY <2>1, StopCallsInv
<1> QED
  BY <1>1, <1>2, <1>3, <1>4, <1>5 DEF Call

LEMMA ConnectCalls ==
    ASSUME TypeOK, CallsInv, NEW t \in Tasks,
           \/ DialFails(t) \/ Dialled(t) \/ Exchanged(t) \/ ExchangeFails(t)
           \/ Initialised(t) \/ InitFails(t) \/ SenderUndone(t) \/ SocketUndone(t)
    PROVE  CallsInv'
<1>1. CASE Initialised(t)
  <2>1. AfterConnect(t, task[t].goal) /\ task[t].goal \in Goals
    BY <1>1 DEF Initialised, TypeOK, Placed
  <2> QED
    BY <2>1, AfterConnectDoes, AfterCalls
<1>2. CASE ~Initialised(t)
  <2>1. /\ UNCHANGED <<updTask, calls, subbed, mixed>>
        /\ \/ Return(t)
           \/ \E pc \in Connecting : Goto(t, pc, task[t].at)
    BY <1>2 DEF DialFails, Dialled, Exchanged, ExchangeFails, InitFails,
       SenderUndone, SocketUndone, TakeConnection, Connecting, otherVars, updVars,
       callsVars
  <2>2. Others(t) /\ task'[t].pc \in {"idle"} \cup Connecting
    <3>1. CASE Return(t)
      BY <3>1, ReturnMoves DEF Idle
    <3>2. ASSUME NEW pc \in Connecting, Goto(t, pc, task[t].at)
          PROVE  Others(t) /\ task'[t].pc \in Connecting
      <4>1. Others(t) /\ task'[t] = At(pc, task[t].at, task[t].goal)
        BY <3>2, GotoMoves
      <4> QED
        BY <4>1 DEF At
    <3> QED
      BY <2>1, <3>1, <3>2
  <2>3. task'[t].pc \notin Closers
    BY <2>2, Apart
  <2> QED
    BY <2>1, <2>2, <2>3, QuietCalls
<1> QED
  BY <1>1, <1>2

LEMMA RestCalls ==
    ASSUME TypeOK, CallsInv, RunsOne, NEW t \in Tasks,
           \/ AskedFirst(t) \/ GotMe(t) \/ GotState(t) \/ StateFails(t)
           \/ StopEnds(t) \/ CallsStopped(t) \/ CloseStoppedUpdates(t)
           \/ CloseSenderEnds(t) \/ CloseSocketEnds(t) \/ Cancel(t)
    PROVE  CallsInv'
<1>1. task[t].goal \in Goals
  BY DEF TypeOK, Placed
<1>2. ASSUME Return(t), UNCHANGED <<updTask, calls, subbed>>, mixed \subseteq mixed'
      PROVE  CallsInv'
  <2>1. Others(t) /\ task'[t].pc \notin Closers
    BY <1>2, ReturnMoves, Apart DEF Idle
  <2> QED
    BY <1>2, <2>1, QuietCalls
<1>3. CASE StateFails(t) \/ Cancel(t)
  BY <1>2, <1>3 DEF StateFails, Cancel, otherVars, updVars, callsVars
<1>4. CASE GotMe(t)
  BY <1>1, <1>4, StartDoes, AfterCalls DEF GotMe, AfterEffect
<1>5. CASE GotState(t)
  <2>1. /\ Others(t) /\ task'[t] = Idle /\ StartedEffect /\ updTask' # None
        /\ mixed \subseteq mixed' /\ task[t].pc \in Starters
    BY <1>5, StartedDoes, NoneAssumption DEF GotState, Starters, CreateLoop
  <2>2. Without(CallsKinds)' =>
           \A u \in Tasks \ {t} : task[u].pc \notin Closers
    BY <2>1, CallsStay, RunsOneStays DEF StartsAlone
  <2> QED
    BY <2>1, <2>2, OnCalls
<1>6. CASE AskedFirst(t)
  <2>1. CASE StartBody(t, task[t].goal)
    BY <1>1, <2>1, StartDoes, AfterCalls DEF AfterEffect
  <2>2. ASSUME NEW plain \in {"getMe", "getState"},
               Ask(t, task[t].goal, "initForMe", plain),
               UNCHANGED <<updTask, callsVars, mixed>>
        PROVE  CallsInv'
    <3>1. Others(t) /\ task'[t].pc \in {"idle", "initForMe", "getMe", "getState"}
      BY <1>1, <2>2, AskDoes DEF AskEffect, Idle
    <3>2. task'[t].pc \notin Closers
      BY <3>1 DEF Closers, Closing
    <3> QED
      BY <2>2, <3>1, <3>2, QuietCalls DEF callsVars
  <2> QED
    BY <1>6, <2>1, <2>2 DEF AskedFirst
<1>7. CASE CallsStopped(t)
  <2>1. calls' = "off"
    BY <1>7 DEF CallsStopped
  <2>2. CASE subbed' = FALSE
    BY <2>1, <2>2 DEF CallsInv
  <2>3. CASE CloseBody(t, "facade")
    <3>1. CloseEffect(t)
      BY <2>3, CloseDoes DEF Goals
    <3> QED
      BY <2>1, <3>1, StopCallsInv DEF CloseEffect
  <2> QED
    BY <1>7, <2>2, <2>3 DEF CallsStopped
<1>8. CASE StopEnds(t) \/ CloseStoppedUpdates(t) \/ CloseSocketEnds(t)
  <2>1. /\ calls' = calls /\ subbed' = FALSE /\ mixed' = mixed
        /\ task[t].pc \in Closers
    BY <1>8 DEF StopEnds, CloseStoppedUpdates, CloseSocketEnds, FinishStop,
                Closers, Closing
  <2> QED
    BY <2>1, FinishCalls
<1>9. CASE CloseSenderEnds(t)
  <2>1. /\ task[t].pc \in Closers /\ UNCHANGED <<updTask, calls, subbed, mixed>>
        /\ Return(t) \/ Goto(t, "closeSocket", cur)
    BY <1>9 DEF CloseSenderEnds, otherVars, updVars, callsVars, Closers, Closing
  <2>2. Others(t)
    BY <2>1, ReturnMoves, GotoMoves
  <2> QED
    BY <2>1, <2>2, QuietCalls
<1> QED
  BY <1>3, <1>4, <1>5, <1>6, <1>7, <1>8, <1>9

LEMMA NextCalls == TypeOK /\ CallsInv /\ RunsOne /\ [Next]_vars => CallsInv'
<1> SUFFICES ASSUME TypeOK, CallsInv, RunsOne, [Next]_vars PROVE CallsInv'
  OBVIOUS
<1>1. ASSUME NEW t \in Tasks, Continue(t) \/ Cancel(t) PROVE CallsInv'
  BY <1>1, ConnectCalls, RestCalls DEF Continue
<1>2. ASSUME UNCHANGED <<task, calls, subbed, updTask, mixed>> PROVE CallsInv'
  BY <1>2 DEF CallsInv, Without
<1>3. ASSUME NEW l \in Loops, Run(l) \/ LoopTakes(l) PROVE CallsInv'
  BY <1>2, <1>3 DEF Run, LoopStarts, LoopTakes, LoopApplied, LoopDies, LoopEnds,
                    callsVars
<1>4. CASE SignIn \/ UNCHANGED vars
  BY <1>2, <1>4 DEF SignIn, vars, otherVars, updVars, callsVars
<1>5. CASE Crash
  BY <1>5 DEF Crash, CallsInv
<1> QED
  BY <1>1, <1>3, <1>4, <1>5, CallCalls DEF Next

-----------------------------------------------------------------------------
(* The theorems.                                                           *)

LEMMA InitLInv == Init => LInv
<1> SUFFICES ASSUME Init PROVE LInv
  OBVIOUS
<1>1. /\ \A t \in Tasks : task[t] = Idle
      /\ DOMAIN task = Tasks
  BY DEF Init
<1>2. DataOK /\ dialled \in 0 .. MaxConns /\ CrashesCount
  BY Bounds DEF Init, DataOK, CrashesCount, None, Loops, Conns
<1>3. TypeOK
  BY <1>1, <1>2, IdlePlaced DEF TypeOK
<1>4. /\ \A t \in Tasks : task[t].pc = "idle"
      /\ cur = None /\ loggedIn = {} /\ bare = {} /\ ~didInit
      /\ calls = "off" /\ ~subbed
      /\ \A g \in Conns : sock[g] = "none"
      /\ \A l \in Loops : loops[l] = "none"
  BY <1>1 DEF Init, Idle
<1>5. "idle" \notin Connecting
  BY DEF Connecting
<1>6. ConnInv
  <2>1. ConnectsAlone /\ ClosesAlone
    BY <1>4, <1>5, Apart DEF ConnectsAlone, ClosesAlone
  <2>2. SocketsGivenUp /\ Undialled /\ NoSocketLeftBehind
    BY <1>4 DEF SocketsGivenUp, Undialled, NoSocketLeftBehind
  <2> QED
    BY <2>1, <2>2 DEF ConnInv
<1>7. KeyInv
  BY <1>4 DEF KeyInv, CurrentKey, OneKey, CanSend
<1>8. BareInv
  BY <1>4 DEF BareInv, OnlyLaterConnectionsAreBare
<1>9. LoopInv
  <2>1. StartsAlone /\ StopsTheLoop
    BY <1>4, Apart DEF StartsAlone, StopsTheLoop
  <2>2. OnlyLoop /\ ReadsCurrent
    BY <1>4 DEF OnlyLoop, ReadsCurrent, Live, LiveStates
  <2>3. LoopSound
    BY <1>4, Apart DEF Init, LoopSound
  <2> QED
    BY <2>1, <2>2, <2>3 DEF LoopInv, RunsOne
<1>10. CallsInv
  BY <1>4 DEF CallsInv
<1> QED
  BY <1>2, <1>3, <1>6, <1>7, <1>8, <1>9, <1>10 DEF LInv

LEMMA NextLInv == LInv /\ [Next]_vars => LInv'
BY NextTypes, NextCrashes, NextConn, NextKeys, NextBare, NextRuns, NextReads,
   NextSound, NextCalls DEF LInv, LoopInv

\* The invariant of the client's life, of any number of tasks.
THEOREM LInvAlways == Spec => []LInv
BY InitLInv, NextLInv, PTL DEF Spec

\* connect and close (mtproto.py) leave no open socket behind: it is the
\* client's or of a connect that is under way, whatever failed, unless two of
\* them overlapped or the key exchange was cancelled.
THEOREM SocketsCorrect == Spec => []NoSocketLeftBehind
BY LInvAlways, PTL DEF LInv, ConnInv

LEMMA LInvReads == LInv => LoopReadsTheConnection
<1> SUFFICES ASSUME LInv, Without({"connects", "starts", "startStop"})
             PROVE  \A l \in Live : /\ l = updTask
                                    /\ loops[l] = "reading" => feed[l] = cur
  BY DEF LoopReadsTheConnection, Without
<1>1. Without({"starts", "startStop"})
  BY DEF Without
<1> QED
  BY <1>1 DEF LInv, LoopInv, RunsOne, ReadsCurrent, OnlyLoop, Live

\* start_updates, stop_updates and close: one updates loop at most runs, the one
\* the client would stop, and it reads the current connection's messages.
THEOREM LoopCorrect == Spec => []LoopReadsTheConnection
BY LInvAlways, LInvReads, PTL

LEMMA LInvListens == LInv => CallsListen
<1> SUFFICES ASSUME LInv, calls = "on",
                    Without({"connects", "starts", "startStop", "underCalls"})
             PROVE  /\ subbed /\ updTask # None
                    /\ \/ loops[updTask] = "died"
                       \/ /\ loops[updTask] \in {"new", "reading", "applying"}
                          /\ cur # None
                          /\ loops[updTask] = "reading" => feed[updTask] = cur
  BY DEF LInv, CallsInv, CallsListen, Without
<1>1. /\ Without({"starts", "startStop", "underCalls"})
      /\ Without({"starts", "startStop"})
      /\ Without({"connects", "starts", "startStop"})
  BY DEF Without
<1>2. subbed /\ updTask # None /\ \A t \in Tasks : task[t].pc \notin Closers
  BY <1>1 DEF LInv, CallsInv
<1>3. updTask \in Loops /\ loops[updTask] \in LiveStates \cup Ended \cup {"none"}
  BY <1>2 DEF LInv, TypeOK, DataOK
<1>4. /\ cur # None
      /\ loops[updTask] \notin {"none", "broken", "cancelling", "cancelled"}
  BY <1>1, <1>2, Apart DEF LInv, LoopInv, LoopSound, LoopServed
<1>5. loops[updTask] = "reading" => feed[updTask] = cur
  BY <1>1, <1>3 DEF LInv, LoopInv, ReadsCurrent
<1>6. loops[updTask] \in {"died", "new", "reading", "applying"}
  BY <1>3, <1>4 DEF LiveStates, Ended
<1> QED
  BY <1>2, <1>4, <1>5, <1>6

\* CallsManager.start and stop with the updates they need: the queue of a manager
\* that runs is a subscriber and the updates loop reads the connection, unless a
\* failed request has ended it; a manager that has stopped has no queue.
THEOREM CallsListenCorrect == Spec => []CallsListen
BY LInvAlways, LInvListens, PTL

\* invoke_api and close: only a connection made after another one can get a
\* request before initConnection.
THEOREM BareCorrect == Spec => []OnlyLaterConnectionsAreBare
BY LInvAlways, PTL DEF LInv, BareInv

LEMMA LInvSignIns == LInv => SignInsSurvive
BY DEF LInv, KeyInv, OneKey, SignInsSurvive, Without

\* connect, _persist_session and close: a user who has signed in is signed in
\* with the key in the session file, wherever the process ends.
THEOREM SignInsCorrect == Spec => []SignInsSurvive
BY LInvAlways, LInvSignIns, PTL

\* close: one that has begun finds its connection to the end, unless stops or
\* closes overlapped or the process ends.
THEOREM CloseCorrect == Spec => CloseRunsThrough
<1>1. LInv /\ [Next]_vars =>
         [\A t \in Tasks :
            /\ task[t].pc \in {"closeStopping", "closeSender"}
            /\ task'[t].pc = "idle"
            => crashes' # crashes \/ "stops" \in mixed]_vars
  BY NextClose DEF LInv
<1> QED
  BY <1>1, LInvAlways, PTL DEF Spec, CloseRunsThrough

=============================================================================
