--------------------------- MODULE UpdatesEngine ---------------------------
(***************************************************************************)
(* UpdatesEngine (mtproto/updates/engine.py), the client's updates loop    *)
(* that drives it and the file its state is kept in (client/mtproto.py,    *)
(* updates/storage.py), against a server that numbers its events.          *)
(*                                                                         *)
(* The server keeps one numbered log per box: "pts" and "qts" for the      *)
(* account, one for each channel.  An event is <<box, n>>; it counts one   *)
(* (pts_count = 1).  The server pushes events in objects of three forms,    *)
(* any of which may be lost, and answers getDifference and                 *)
(* getChannelDifference from its logs, in slices if it likes.              *)
(*                                                                         *)
(* A step is what the loop does between two awaits: of the incoming queue  *)
(* and of the answers.  Only the updates of an Updates object are counted  *)
(* one per step; the loop cannot be stopped between them.  date and seq    *)
(* are stored and sent and nothing is decided by them: they are left out,  *)
(* and so are users and chats.  One subscriber's queue is watched, and     *)
(* what is in it is not: it may be full whenever something is fanned out.  *)
(***************************************************************************)
EXTENDS Integers, Sequences

CONSTANTS
    Channels,    \* channels of the account
    MaxPts,      \* bound: last event of the box "pts"
    MaxQts,      \* bound: last event of the box "qts"
    MaxChannel,  \* bound: last event of a channel; the first is 2
    QueueSize,   \* maxsize of the incoming queue
    MaxRare      \* bound: repeated pushes, stops, crashes and full
                 \* subscribers' queues together

ASSUME BoxesAssumption == "pts" \notin Channels /\ "qts" \notin Channels
ASSUME BoundsAssumption ==
    /\ MaxPts \in Nat /\ MaxQts \in Nat /\ MaxChannel \in Nat \ {0}
    /\ QueueSize \in Nat /\ MaxRare \in Nat

Account == {"pts", "qts"}
Boxes == Account \cup Channels

VARIABLES
    log,       \* the server's logs: box -> number of the last event
    incoming,  \* the sender's incoming queue
    phase,     \* what the updates loop awaits, see Phases
    state,     \* UpdatesEngine.state: the numbers of "pts" and "qts"
    chPts,     \* _channel_pts; 0 for a channel that is not in it
    items,     \* updates of the current object; when counting, those to come
    at,        \* which of them is the hint that is being fetched; or 0
    acc,       \* what apply() is going to return: a set of events
    page,      \* what the current _fetch_channel_difference has got
    disk,      \* the state in the file, or NoState
    rare,      \* repeated pushes, stops, crashes and full queues to come
    handed,    \* history: events the subscriber's queue took
    missed,    \* history: events it was offered when it was full
    excused,   \* history: events before a getState, or called too long
    misled,    \* history: events of "pts" counted by a channel's number
    cut,       \* history: fetched events the loop was stopped with
    dropped    \* history: fetched channel events apply() did not return

engineVars == <<state, chPts, items, at, acc, page>>
clientVars == <<incoming, phase, disk, rare>>
fanned == <<handed, missed>>
histVars == <<fanned, excused, misled, cut, dropped>>
vars == <<log, engineVars, clientVars, histVars>>

-----------------------------------------------------------------------------
NoState == [pts |-> -1, qts |-> -1]

State == [pts : Nat, qts : Nat]

\* An update in an object: an event, or updateChannel without a number.
Update == (Boxes \X (Nat \ {0})) \cup (Channels \X {0})

IsHint(u) == u[2] = 0

\* "short": updateShort(Chat)Message, a new message with the account's number.
\* "updates": updates, updatesCombined, and one update alone in updateShort,
\* which apply() treats alike.  "tooLong": updatesTooLong.
Object == [form : {"short", "updates", "tooLong"}, updates : Seq(Update)]

Obj(form, us) == [form |-> form, updates |-> us]

\* "waiting" for an object, for the answers of getChannelDifference
\* ("channel"), getDifference ("common") and getState ("resetting");
\* "counting" is no await; "dead" is a task that has ended by an exception.
Phases == {"off", "waiting", "channel", "counting", "common", "resetting",
           "dead"}

\* The events of a box after one number up to another.
Events(box, from, to) == {<<box, n>> : n \in from + 1 .. to}

-----------------------------------------------------------------------------
Init ==
    /\ log = [b \in Boxes |-> IF b \in Channels THEN 1 ELSE 0]
    /\ incoming = <<>>
    /\ phase = "off"
    /\ state = NoState
    /\ chPts = [ch \in Channels |-> 0]
    /\ items = <<>>
    /\ at = 0
    /\ acc = {}
    /\ page = {}
    /\ disk = NoState
    /\ rare = MaxRare
    /\ handed = {}
    /\ missed = {}
    /\ excused = {}
    /\ misled = {}
    /\ cut = {}
    /\ dropped = {}

-----------------------------------------------------------------------------
(* The server: events, and objects pushed to the client.                   *)

\* A repeated push, a stop, a crash or a full queue of a subscriber's.
Rarely == rare > 0 /\ rare' = rare - 1

LogState == [pts |-> log["pts"], qts |-> log["qts"]]

\* Variant: the queue takes everything.
PushAlways(obj) == incoming' = Append(incoming, obj)

\* MtprotoEncryptedSender puts an object in the queue or drops it.
Push(obj) ==
    incoming' = IF Len(incoming) < QueueSize
                THEN Append(incoming, obj) ELSE incoming

LastEvent(b) == CASE b = "pts" -> MaxPts
                  [] b = "qts" -> MaxQts
                  [] OTHER -> MaxChannel

\* A channel's event is pushed itself or as a hint that there is one.
Shown(b, n) == IF b \in Channels THEN {<<b, n>>, <<b, 0>>} ELSE {<<b, n>>}

FormsOf(b) == {"updates"} \cup (IF b = "pts" THEN {"short"} ELSE {})

\* One event, pushed in one of its forms or lost on the way.
ServerPublishes(b) ==
    /\ log[b] < LastEvent(b)
    /\ log' = [log EXCEPT ![b] = @ + 1]
    /\ \/ \E u \in Shown(b, log[b] + 1), form \in FormsOf(b) :
             Push(Obj(form, <<u>>))
       \/ UNCHANGED incoming
    /\ UNCHANGED <<phase, disk, rare, engineVars, histVars>>

\* Events of two boxes in one Updates object, the one of a channel in front.
ServerPublishesBoth(b, c) ==
    /\ b # c /\ log[b] < LastEvent(b) /\ log[c] < LastEvent(c)
    /\ log' = [log EXCEPT ![b] = @ + 1, ![c] = @ + 1]
    /\ \E u \in Shown(b, log[b] + 1), v \in Shown(c, log[c] + 1) :
          Push(Obj("updates", <<u, v>>))
    /\ UNCHANGED <<phase, disk, rare, engineVars, histVars>>

\* A late or repeated push of what is in the logs.
ServerRepeats ==
    /\ Rarely
    /\ \/ Push(Obj("tooLong", <<>>))
       \/ \E n \in 1 .. log["pts"], form \in {"short", "updates"} :
             Push(Obj(form, <<<<"pts", n>>>>))
       \/ \E ch \in Channels : Push(Obj("updates", <<<<ch, 0>>>>))
    /\ UNCHANGED <<log, phase, disk, engineVars, histVars>>

-----------------------------------------------------------------------------
(* start_updates, stop_updates, the end of the process.                    *)

Counted(s) == Events("pts", 0, s.pts) \cup Events("qts", 0, s.qts)

\* initialize(): the numbers in the file, or those of the server.
Initialize ==
    \/ /\ disk # NoState
       /\ state' = disk
       /\ UNCHANGED excused
    \/ /\ disk = NoState
       /\ state' = LogState
       /\ excused' = excused \cup Counted(LogState)

Start ==
    /\ phase = "off"
    /\ phase' = "waiting"
    /\ Initialize
    /\ UNCHANGED <<log, incoming, disk, rare, chPts, items, at, acc, page,
                   fanned, misled, cut, dropped>>

\* A save that may not be due yet, or fail.
MaySave(s) == disk' \in {disk, s}

\* The task is gone, and the next start makes a new engine.
Idle ==
    /\ items' = <<>> /\ at' = 0 /\ acc' = {} /\ page' = {}
    /\ state' = NoState /\ chPts' = [ch \in Channels |-> 0]

(***************************************************************************)
(* stop_updates, alone or in close(): the task is cancelled in its await   *)
(* and the engine's state is saved, unless writing the file fails.  On a   *)
(* dead task stop_updates raises the task's exception and does nothing.    *)
(***************************************************************************)
Stop ==
    /\ phase \notin {"off", "counting", "dead"}
    /\ Rarely
    /\ phase' = "off"
    /\ MaySave(state)
    /\ incoming' \in {incoming, <<>>}
    /\ cut' = cut \cup {e \in acc : e[1] \in Account}
    /\ Idle
    /\ UNCHANGED <<log, fanned, excused, misled, dropped>>

Crash ==
    /\ Rarely
    /\ phase' = "off"
    /\ incoming' = <<>>
    /\ Idle
    /\ UNCHANGED <<log, disk, histVars>>

-----------------------------------------------------------------------------
(* _updates_loop and apply().                                              *)

\* put_nowait: a full queue drops what it is offered, and takes the next.
FanOut(events) ==
    \/ /\ handed' = handed \cup events
       /\ UNCHANGED <<missed, rare>>
    \/ /\ Rarely
       /\ \E lost \in SUBSET events :
             /\ lost # {}
             /\ handed' = handed \cup (events \ lost)
             /\ missed' = missed \cup lost

\* The end of apply(): fan-out, and a save if the last one is old enough.
HandOut(events) ==
    /\ FanOut(events)
    /\ acc' = {}
    /\ phase' = "waiting"
    /\ MaySave(state')

Take(f) ==
    /\ phase = "waiting"
    /\ incoming # <<>>
    /\ Head(incoming).form = f
    /\ incoming' = Tail(incoming)
    /\ UNCHANGED <<log, chPts, page, excused, misled, cut>>

TakeTooLong ==
    /\ Take("tooLong")
    /\ phase' = "common"
    /\ UNCHANGED <<state, items, at, acc, disk, rare, fanned, dropped>>

IsNextPts(n) == n = state.pts + 1

\* Variant: a message with a gap is handed out as it is.
TakeShortAsIs ==
    /\ Take("short")
    /\ LET u == Head(Head(incoming).updates)
       IN  /\ state' = IF IsNextPts(u[2]) THEN [state EXCEPT !.pts = u[2]] ELSE state
           /\ HandOut({u})
    /\ UNCHANGED <<items, at, dropped>>

TakeShort ==
    /\ Take("short")
    /\ LET u == Head(Head(incoming).updates)
       IN  \/ /\ IsNextPts(u[2])
              /\ state' = [state EXCEPT !.pts = u[2]]
              /\ HandOut({u})
           \/ /\ ~IsNextPts(u[2])
              /\ phase' = "common"
              /\ UNCHANGED <<state, acc, disk, rare, fanned>>
    /\ UNCHANGED <<items, at, dropped>>

\* Variant: one event may be missing.
QtsGapLate(us) ==
    \E i \in DOMAIN us : us[i][1] = "qts" /\ us[i][2] > state.qts + 2

QtsGap(us) ==
    \E i \in DOMAIN us : us[i][1] = "qts" /\ us[i][2] > state.qts + 1

(***************************************************************************)
(* What happens to the updates of an object once its channels are fetched: *)
(* a gap in qts gives up what was fetched, and the object, for the answer  *)
(* of getDifference.                                                       *)
(***************************************************************************)
Proceed(us, fetched, lost) ==
    \/ /\ QtsGap(us)
       /\ phase' = "common"
       /\ items' = <<>>
       /\ acc' = {}
       /\ dropped' = dropped \cup lost \cup fetched
    \/ /\ ~QtsGap(us)
       /\ phase' = "counting"
       /\ items' = us
       /\ acc' = fetched
       /\ dropped' = dropped \cup lost

\* The updateChannels of an object after its i-th update.
HintsAfter(us, i) == {j \in DOMAIN us : j > i /\ IsHint(us[j])}

\* The loop over the updates goes on with the next updateChannel, or is over.
NextHint(us, i, fetched, lost) ==
    \/ \E j \in HintsAfter(us, i) :
          /\ \A k \in HintsAfter(us, i) : j <= k
          /\ phase' = "channel"
          /\ items' = us
          /\ at' = j
          /\ acc' = fetched
          /\ dropped' = dropped \cup lost
    \/ /\ HintsAfter(us, i) = {}
       /\ at' = 0
       /\ Proceed(us, fetched, lost)

TakeUpdates ==
    /\ Take("updates")
    /\ NextHint(Head(incoming).updates, 0, {}, {})
    /\ UNCHANGED <<state, disk, rare, fanned>>

(***************************************************************************)
(* _apply_pts_from_update and _apply_qts_from_update.  The number of a     *)
(* channel's event is taken for one of the account's.                      *)
(***************************************************************************)
CountUpdate ==
    /\ phase = "counting"
    /\ items # <<>>
    /\ items' = Tail(items)
    /\ LET b == Head(items)[1]
           n == Head(items)[2]
       IN  \/ /\ IsHint(Head(items))
              /\ UNCHANGED <<state, acc, misled>>
           \/ /\ ~IsHint(Head(items)) /\ b = "qts"
              /\ state' = [state EXCEPT !.qts = IF n > @ THEN n ELSE @]
              /\ acc' = acc \cup {Head(items)}
              /\ UNCHANGED misled
           \/ /\ ~IsHint(Head(items)) /\ b # "qts" /\ IsNextPts(n)
              /\ state' = [state EXCEPT !.pts = n]
              /\ acc' = acc \cup {Head(items)}
              /\ misled' = IF b \in Channels THEN misled \cup {<<"pts", n>>}
                           ELSE misled
           \/ /\ ~IsHint(Head(items)) /\ b # "qts" /\ ~IsNextPts(n)
              /\ acc' = acc \cup {Head(items)}
              /\ UNCHANGED <<state, misled>>
    /\ UNCHANGED <<log, incoming, phase, disk, rare, chPts, at, page,
                   fanned, excused, cut, dropped>>

FinishObject ==
    /\ phase = "counting"
    /\ items = <<>>
    /\ UNCHANGED state
    /\ HandOut(acc)
    /\ UNCHANGED <<log, incoming, chPts, items, at, page,
                   excused, misled, cut, dropped>>

-----------------------------------------------------------------------------
(* _fetch_channel_difference, and getChannelDifference on the server.      *)

Fetched == items[at][1]

\* _channel_pts.get(channel_id, 1)
Asked == IF chPts[Fetched] = 0 THEN 1 ELSE chPts[Fetched]

Fetching ==
    /\ phase = "channel"
    /\ UNCHANGED <<log, incoming, state, disk, rare, fanned, misled, cut>>

\* The call returns events, and the loop over the object's updates goes on.
EndFetch(events, lost) ==
    /\ page' = {}
    /\ NextHint(items, at, acc \cup events, lost)

\* Variant: an empty page is returned instead of the pages before it.
ChannelEmptyBare ==
    /\ Fetching
    /\ Asked >= log[Fetched]
    /\ chPts' = [chPts EXCEPT ![Fetched] = log[Fetched]]
    /\ EndFetch({}, {})
    /\ UNCHANGED excused

ChannelEmpty ==
    /\ Fetching
    /\ Asked >= log[Fetched]
    /\ chPts' = [chPts EXCEPT ![Fetched] = log[Fetched]]
    /\ EndFetch(page, {})
    /\ UNCHANGED excused

ChannelFinal ==
    /\ Fetching
    /\ Asked < log[Fetched]
    /\ chPts' = [chPts EXCEPT ![Fetched] = log[Fetched]]
    /\ EndFetch(page \cup Events(Fetched, Asked, log[Fetched]), {})
    /\ UNCHANGED excused

\* A page that is not the last one.
ChannelSlice ==
    /\ Fetching
    /\ \E n \in Asked + 1 .. log[Fetched] :
          /\ chPts' = [chPts EXCEPT ![Fetched] = n]
          /\ page' = page \cup Events(Fetched, Asked, n)
    /\ UNCHANGED <<phase, items, at, acc, excused, dropped>>

\* Too long: the answer holds the last message of the channel only.
Newest == {<<Fetched, log[Fetched]>>}

ChannelTooLong ==
    /\ Fetching
    /\ Asked < log[Fetched]
    /\ \/ /\ chPts' = [chPts EXCEPT ![Fetched] = log[Fetched]]
          /\ page' = page \cup Newest
          /\ excused' = excused \cup Events(Fetched, Asked, log[Fetched])
          /\ UNCHANGED <<phase, items, at, acc, dropped>>
       \/ /\ EndFetch(page \cup Newest, {})
          /\ UNCHANGED <<chPts, excused>>

\* The request fails, or the channel's access hash is not known.
ChannelFails ==
    /\ Fetching
    /\ EndFetch({}, page)
    /\ UNCHANGED <<chPts, excused>>

-----------------------------------------------------------------------------
(* _fetch_difference, and getDifference and getState on the server.        *)

Differing ==
    /\ phase = "common"
    /\ UNCHANGED <<log, incoming, chPts, items, at, page, misled,
                   cut, dropped>>

Behind == state.pts < log["pts"] \/ state.qts < log["qts"]

Between(s, t) == Events("pts", s.pts, t.pts) \cup Events("qts", s.qts, t.qts)

DiffEmpty ==
    /\ Differing
    /\ ~Behind
    /\ UNCHANGED <<state, excused>>
    /\ HandOut(acc)

DiffAll ==
    /\ Differing
    /\ Behind
    /\ state' = LogState
    /\ HandOut(acc \cup Between(state, LogState))
    /\ UNCHANGED excused

DiffSlice ==
    /\ Differing
    /\ \E p \in state.pts .. log["pts"], q \in state.qts .. log["qts"] :
          /\ state' = [pts |-> p, qts |-> q]
          /\ state' \notin {state, LogState}
    /\ acc' = acc \cup Between(state, state')
    /\ UNCHANGED <<phase, disk, rare, fanned, excused>>

DiffTooLong ==
    /\ Differing
    /\ Behind
    /\ phase' = "resetting"
    /\ UNCHANGED <<state, acc, disk, rare, fanned, excused>>

GetState ==
    /\ phase = "resetting"
    /\ state' = LogState
    /\ excused' = excused \cup Between(state, LogState)
    /\ HandOut(acc)
    /\ UNCHANGED <<log, incoming, chPts, items, at, page, misled,
                   cut, dropped>>

\* Variant: the numbers are saved when the task ends.
FetchFailsSaved ==
    /\ phase \in {"common", "resetting"}
    /\ phase' = "dead"
    /\ disk' = state
    /\ Idle
    /\ UNCHANGED <<log, incoming, rare, histVars>>

\* The exception leaves apply() and ends the task; nobody looks at it.
FetchFails ==
    /\ phase \in {"common", "resetting"}
    /\ phase' = "dead"
    /\ Idle
    /\ UNCHANGED <<log, incoming, disk, rare, histVars>>

-----------------------------------------------------------------------------
LoopSteps ==
    \/ TakeTooLong \/ TakeShort \/ TakeUpdates \/ CountUpdate \/ FinishObject
    \/ ChannelEmpty \/ ChannelFinal \/ ChannelSlice \/ ChannelTooLong
    \/ ChannelFails
    \/ DiffEmpty \/ DiffAll \/ DiffSlice \/ DiffTooLong \/ GetState \/ FetchFails

ServerSteps ==
    \/ \E b \in Boxes : ServerPublishes(b)
    \/ \E b \in Boxes \ {"qts"}, c \in Account : ServerPublishesBoth(b, c)
    \/ ServerRepeats

Next == ServerSteps \/ Start \/ Stop \/ Crash \/ LoopSteps

Spec == Init /\ [][Next]_vars

(***************************************************************************)
(* The event loop resumes the task, and a request it awaits is answered or *)
(* fails: invoke_api has a timeout.  Nobody has to start or to stop it.    *)
(***************************************************************************)
FairSpec == Spec /\ WF_vars(LoopSteps)

-----------------------------------------------------------------------------
(* Properties.                                                             *)

Running == phase \notin {"off", "dead"}

\* What was put to the subscriber's queue, taken or not.
Offered == handed \cup missed

TypeOK ==
    /\ log \in [Boxes -> Nat]
    /\ incoming \in Seq(Object) /\ Len(incoming) <= QueueSize
    /\ phase \in Phases
    /\ Running => state \in State
    /\ chPts \in [Channels -> Nat]
    /\ items \in Seq(Update) /\ (items # <<>> => phase \in {"channel", "counting"})
    /\ IF phase = "channel" THEN at \in DOMAIN items /\ Fetched \in Channels
       ELSE at = 0
    /\ page # {} => phase = "channel"
    /\ acc # {} => phase \in {"channel", "counting", "common", "resetting"}
    /\ disk \in State \cup {NoState}

(***************************************************************************)
(* While the loop runs, every event the account's numbers stand for was    *)
(* put to the subscriber's queue or is on its way there, whatever was      *)
(* lost, late, repeated or sliced.  A full queue drops it, and the loop    *)
(* does not know; the other exceptions are what a getState skips, what     *)
(* stop_updates cuts off and what a channel's number stood for.            *)
(***************************************************************************)
NothingSkipped ==
    Running => Counted(state) \subseteq
        Offered \cup acc \cup excused \cup misled \cup cut

(***************************************************************************)
(* The saved numbers never run ahead of delivery: after a crash or a       *)
(* failed difference the next start asks again for all that was not put to *)
(* the subscriber's queue.  What a full queue dropped is saved as handed.  *)
(***************************************************************************)
SavedIsHanded ==
    disk # NoState => Counted(disk) \subseteq Offered \cup excused \cup misled \cup cut

(***************************************************************************)
(* A channel's number stands for events that were put to the subscriber's  *)
(* queue, are on their way there or were skipped by the server, or that    *)
(* apply() fetched and gave up.                                            *)
(***************************************************************************)
ChannelsCounted ==
    Running => \A ch \in Channels :
        Events(ch, 1, chPts[ch]) \subseteq
            Offered \cup acc \cup page \cup excused \cup dropped

(***************************************************************************)
(* A short message in the incoming queue is put to the subscriber's, and   *)
(* so is every event before it that was lost, unless the loop is stopped   *)
(* or dies; the exceptions are those of NothingSkipped.                    *)
(***************************************************************************)
QueuedShort(n) ==
    /\ Running
    /\ \E i \in DOMAIN incoming : incoming[i] = Obj("short", <<<<"pts", n>>>>)

ShortMessagesArrive ==
    \A n \in 1 .. MaxPts :
        QueuedShort(n) ~> \/ ~Running
                          \/ Events("pts", 0, n) \subseteq
                                 Offered \cup excused \cup misled \cup cut

(***************************************************************************)
(* "If we see updateChannel, pull channelDifference and inline its         *)
(* results": nothing a channel's difference held is lost when the object   *)
(* turns out to have a gap in qts.                                         *)
(***************************************************************************)
InlinesChannelResults ==
    [][phase = "channel" /\ phase' = "common" => dropped' = dropped]_vars

=============================================================================
