------------------------ MODULE UpdatesEngineProofs ------------------------
(***************************************************************************)
(* The safety of UpdatesEngine: no event the numbers stand for is skipped, *)
(* in memory, in the file and in the channels.  For every set of channels, *)
(* every length of the logs and of the queue, and any number of stops,     *)
(* crashes and repeated pushes.                                            *)
(***************************************************************************)
EXTENDS UpdatesEngine, SequenceTheorems, TLAPS

-----------------------------------------------------------------------------
(* The invariant.                                                          *)

\* The queue holds objects, and a short one is a message of the account's.
QueueOK ==
    /\ incoming \in Seq(Object) /\ Len(incoming) <= QueueSize
    /\ \A i \in DOMAIN incoming : incoming[i].form = "short" =>
          /\ Len(incoming[i].updates) = 1
          /\ incoming[i].updates[1][1] = "pts"

\* What there is while the loop is at each of its awaits.
LoopOK ==
    /\ phase \in Phases
    /\ Running => state \in State
    /\ chPts \in [Channels -> Nat]
    /\ items \in Seq(Update) /\ (items # <<>> => phase \in {"channel", "counting"})
    /\ IF phase = "channel" THEN at \in DOMAIN items /\ Fetched \in Channels
       ELSE at = 0
    /\ disk \in State \cup {NoState}
    /\ phase \in {"off", "dead"} => state = NoState /\ \A ch \in Channels : chPts[ch] = 0
    /\ phase \in {"off", "dead", "waiting"} => acc = {}
    /\ phase # "channel" => page = {}
    /\ phase = "channel" => \A e \in acc \cup page : e[1] \in Channels
    /\ phase = "counting" => ~QtsGap(items)

LogOK == log \in [Boxes -> Nat]

UInv == LogOK /\ QueueOK /\ LoopOK /\ NothingSkipped /\ SavedIsHanded /\ ChannelsCounted

-----------------------------------------------------------------------------
(* Events.                                                                 *)

LEMMA EventsSplit ==
    ASSUME NEW b, NEW i \in Int, NEW j \in Int, NEW k \in Int
    PROVE  Events(b, i, k) \subseteq Events(b, i, j) \cup Events(b, j, k)
BY DEF Events

LEMMA EventsNext ==
    ASSUME NEW b, NEW i \in Nat
    PROVE  Events(b, 0, i + 1) \subseteq Events(b, 0, i) \cup {<<b, i + 1>>}
BY DEF Events

LEMMA EventsBox ==
    ASSUME NEW b, NEW i, NEW j, NEW e \in Events(b, i, j)
    PROVE  e[1] = b
BY DEF Events

\* Numbers that go forward stand for the events between them in addition.
LEMMA CountedSplit ==
    ASSUME NEW s \in State, NEW t \in State
    PROVE  Counted(t) \subseteq Counted(s) \cup Between(s, t)
<1>1. s.pts \in Int /\ s.qts \in Int /\ t.pts \in Int /\ t.qts \in Int
  BY DEF State
<1>2. /\ Events("pts", 0, t.pts) \subseteq Events("pts", 0, s.pts) \cup Events("pts", s.pts, t.pts)
      /\ Events("qts", 0, t.qts) \subseteq Events("qts", 0, s.qts) \cup Events("qts", s.qts, t.qts)
  BY <1>1, EventsSplit
<1> QED
  BY <1>2 DEF Counted, Between

LEMMA CountedBox ==
    ASSUME NEW s, NEW e \in Counted(s)
    PROVE  e[1] \in Account /\ e[1] \notin Channels
<1>1. e[1] \in Account
  BY EventsBox DEF Counted, Account
<1> QED
  BY <1>1, BoxesAssumption DEF Account

LEMMA LogStateOK ==
    ASSUME LogOK
    PROVE  LogState \in State
BY DEF LogOK, LogState, State, Boxes, Account

-----------------------------------------------------------------------------
(* Kinds of steps.                                                         *)

\* Nothing that was given out or excused is forgotten.
HistoryKept ==
    /\ Offered \subseteq Offered' /\ excused \subseteq excused'
    /\ misled \subseteq misled' /\ cut \subseteq cut' /\ dropped \subseteq dropped'

\* A step of the server's leaves the client alone.
LEMMA ServerUInv ==
    ASSUME UInv, LogOK', QueueOK',
           UNCHANGED <<phase, disk, engineVars, histVars>>
    PROVE  UInv'
<1>1. LoopOK'
  BY DEF UInv, LoopOK, engineVars, histVars, Running, Fetched, QtsGap
<1>2. NothingSkipped' /\ SavedIsHanded' /\ ChannelsCounted'
  BY DEF UInv, engineVars, histVars, Running, NothingSkipped, SavedIsHanded,
     ChannelsCounted, Offered, fanned
<1> QED
  BY <1>1, <1>2 DEF UInv

LEMMA PushOK ==
    ASSUME UInv, NEW obj \in Object, Push(obj),
           obj.form = "short" => Len(obj.updates) = 1 /\ obj.updates[1][1] = "pts"
    PROVE  QueueOK'
<1>1. CASE incoming' = incoming
  BY <1>1 DEF UInv, QueueOK
<1>2. CASE Len(incoming) < QueueSize /\ incoming' = Append(incoming, obj)
  <2>1. incoming \in Seq(Object) /\ Len(incoming) \in Nat /\ QueueSize \in Nat
    BY LenProperties, BoundsAssumption DEF UInv, QueueOK
  <2>2. /\ incoming' \in Seq(Object) /\ Len(incoming') = Len(incoming) + 1
        /\ \A i \in 1 .. Len(incoming) : incoming'[i] = incoming[i]
        /\ incoming'[Len(incoming) + 1] = obj
    BY <1>2, <2>1, AppendProperties
  <2>3. /\ DOMAIN incoming = 1 .. Len(incoming)
        /\ DOMAIN incoming' = 1 .. Len(incoming) + 1
    BY <2>1, <2>2, LenProperties
  <2>4. Len(incoming') <= QueueSize
    BY <1>2, <2>1, <2>2
  <2> HIDE DEF Object
  <2>5. \A i \in DOMAIN incoming' : incoming'[i].form = "short" =>
          /\ Len(incoming'[i].updates) = 1
          /\ incoming'[i].updates[1][1] = "pts"
    <3> SUFFICES ASSUME NEW i \in DOMAIN incoming', incoming'[i].form = "short"
                 PROVE  /\ Len(incoming'[i].updates) = 1
                        /\ incoming'[i].updates[1][1] = "pts"
      OBVIOUS
    <3>1. CASE i \in 1 .. Len(incoming)
      BY <2>2, <2>3, <3>1 DEF UInv, QueueOK
    <3>2. CASE i = Len(incoming) + 1
      BY <2>2, <3>2
    <3> QED
      BY <2>1, <2>3, <3>1, <3>2
  <2> QED
    BY <2>2, <2>4, <2>5 DEF QueueOK
<1> QED
  BY <1>1, <1>2 DEF Push

LEMMA TakeOK ==
    ASSUME UInv, NEW f, Take(f)
    PROVE  /\ Head(incoming) \in Object /\ Head(incoming).form = f
           /\ f = "short" => /\ Len(Head(incoming).updates) = 1
                             /\ Head(incoming).updates[1][1] = "pts"
           /\ QueueOK' /\ LogOK'
<1>1. incoming \in Seq(Object) /\ incoming # <<>> /\ incoming' = Tail(incoming)
      /\ Head(incoming).form = f /\ log' = log
  BY DEF Take, UInv, QueueOK
<1>2. Len(incoming) \in Nat \ {0} /\ DOMAIN incoming = 1 .. Len(incoming)
  BY <1>1, LenProperties, EmptySeq
<1>3. Head(incoming) = incoming[1] /\ Head(incoming) \in Object
  BY <1>1, HeadTailProperties
<1>4. /\ incoming' \in Seq(Object) /\ Len(incoming') = Len(incoming) - 1
      /\ \A i \in 1 .. Len(incoming) - 1 : incoming'[i] = incoming[i + 1]
  BY <1>1, HeadTailProperties
<1>5. DOMAIN incoming' = 1 .. Len(incoming) - 1
  BY <1>4, LenProperties
<1>6. \A i \in DOMAIN incoming' : i + 1 \in DOMAIN incoming /\ incoming'[i] = incoming[i + 1]
  BY <1>2, <1>4, <1>5
<1>7. QueueOK'
  <2>1. Len(incoming') <= QueueSize
    BY <1>2, <1>4, BoundsAssumption DEF UInv, QueueOK
  <2> QED
    BY <1>4, <1>6, <2>1 DEF UInv, QueueOK
<1>8. 1 \in DOMAIN incoming
  BY <1>2
<1> QED
  BY <1>1, <1>3, <1>7, <1>8 DEF UInv, QueueOK, LogOK

\* What is saved at the end of apply() is what has been fanned out.
LEMMA SaveOK ==
    ASSUME UInv, HistoryKept, NothingSkipped',
           disk' = disk \/ (MaySave(state') /\ Running' /\ acc' = {} /\ state' \in State)
    PROVE  SavedIsHanded' /\ disk' \in State \cup {NoState}
<1>1. CASE disk' = disk
  BY <1>1 DEF UInv, HistoryKept, SavedIsHanded, LoopOK
<1>2. CASE disk' = state' /\ Running' /\ acc' = {} /\ state' \in State
  BY <1>2 DEF SavedIsHanded, NothingSkipped
<1> QED
  BY <1>1, <1>2 DEF MaySave

\* The numbers stay, and what was on its way is on its way or handed.
LEMMA NothingKept ==
    ASSUME UInv, HistoryKept, state' = state, Running,
           \A e \in acc : e \in acc' \cup Offered' \cup cut' \/ e[1] \in Channels
    PROVE  NothingSkipped'
<1> SUFFICES ASSUME NEW e \in Counted(state)
             PROVE  e \in Offered' \cup acc' \cup excused' \cup misled' \cup cut'
  BY DEF NothingSkipped
<1>1. e \in Offered \cup acc \cup excused \cup misled \cup cut
  BY DEF UInv, NothingSkipped
<1>2. e[1] \notin Channels
  BY CountedBox
<1> QED
  BY <1>1, <1>2 DEF HistoryKept

LEMMA ChannelsKept ==
    ASSUME UInv, HistoryKept, chPts' = chPts, Running,
           acc \cup page \subseteq acc' \cup page' \cup Offered' \cup dropped'
    PROVE  ChannelsCounted'
<1> SUFFICES ASSUME NEW ch \in Channels
             PROVE  Events(ch, 1, chPts[ch]) \subseteq
                       Offered' \cup acc' \cup page' \cup excused' \cup dropped'
  BY DEF ChannelsCounted
<1>1. Events(ch, 1, chPts[ch]) \subseteq Offered \cup acc \cup page \cup excused \cup dropped
  BY DEF UInv, ChannelsCounted
<1> QED
  BY <1>1 DEF HistoryKept

\* The loop over the updates of an object goes on, or is over.
LEMMA NextHintOK ==
    ASSUME UInv, NEW us \in Seq(Update), NEW i, NEW fetched, NEW lost,
           NextHint(us, i, fetched, lost), \A e \in fetched : e[1] \in Channels,
           page' = {}, chPts' \in [Channels -> Nat], Running,
           UNCHANGED <<state, disk, Offered, misled, cut>>, excused \subseteq excused'
    PROVE  /\ LoopOK' /\ Running' /\ HistoryKept
           /\ fetched \cup lost \subseteq acc' \cup dropped'
<1>0. state \in State /\ disk \in State \cup {NoState}
  BY DEF UInv, LoopOK
<1>1. CASE \E j \in HintsAfter(us, i) :
              /\ phase' = "channel" /\ items' = us /\ at' = j /\ acc' = fetched
              /\ dropped' = dropped \cup lost
  <2>1. PICK j \in HintsAfter(us, i) :
              /\ phase' = "channel" /\ items' = us /\ at' = j /\ acc' = fetched
              /\ dropped' = dropped \cup lost
    BY <1>1
  <2>2. j \in DOMAIN us /\ IsHint(us[j])
    BY DEF HintsAfter
  <2>3. us[j] \in Update
    BY <2>2, LenProperties, ElementOfSeq
  <2>4. us[j][1] \in Channels
    BY <2>2, <2>3 DEF Update, IsHint
  <2>5. at' \in DOMAIN items' /\ Fetched' \in Channels
    BY <2>1, <2>2, <2>4 DEF Fetched
  <2>6. phase' \in Phases /\ Running'
    BY <2>1 DEF Phases, Running
  <2>7. LoopOK'
    BY <1>0, <2>1, <2>5, <2>6 DEF LoopOK
  <2> QED
    BY <2>1, <2>6, <2>7 DEF HistoryKept
<1>2. CASE at' = 0 /\ Proceed(us, fetched, lost)
  <2>1. CASE /\ phase' = "common" /\ items' = <<>> /\ acc' = {}
             /\ dropped' = dropped \cup lost \cup fetched
    <3>1. phase' \in Phases /\ Running'
      BY <2>1 DEF Phases, Running
    <3>2. <<>> \in Seq(Update)
      OBVIOUS
    <3>3. LoopOK'
      BY <1>0, <1>2, <2>1, <3>1, <3>2 DEF LoopOK
    <3> QED
      BY <2>1, <3>1, <3>3 DEF HistoryKept
  <2>2. CASE /\ ~QtsGap(us) /\ phase' = "counting" /\ items' = us /\ acc' = fetched
             /\ dropped' = dropped \cup lost
    <3>1. phase' \in Phases /\ Running'
      BY <2>2 DEF Phases, Running
    <3>2. ~QtsGap(items)'
      BY <2>2 DEF QtsGap
    <3>3. LoopOK'
      BY <1>0, <1>2, <2>2, <3>1, <3>2 DEF LoopOK
    <3> QED
      BY <2>2, <3>1, <3>3 DEF HistoryKept
  <2> QED
    BY <1>2, <2>1, <2>2 DEF Proceed
<1> QED
  BY <1>1, <1>2 DEF NextHint

\* What is fanned out is offered, full queue or not.
LEMMA FanOutOK ==
    ASSUME NEW events, FanOut(events)
    PROVE  Offered' = Offered \cup events
BY DEF FanOut, Offered

\* The end of apply().
LEMMA HandOutOK ==
    ASSUME UInv, NEW events, HandOut(events), HistoryKept, state' \in State,
           UNCHANGED <<chPts, at, page>>, at = 0, page = {}, items' = <<>>,
           acc \subseteq events,
           \A e \in Counted(state') :
              e \in Counted(state) \cup events \cup excused', Running
    PROVE  /\ LoopOK' /\ NothingSkipped' /\ SavedIsHanded' /\ ChannelsCounted'
<1>1. /\ Offered' = Offered \cup events /\ acc' = {} /\ phase' = "waiting"
      /\ MaySave(state')
  BY FanOutOK DEF HandOut
<1>2. Running' /\ phase' \in Phases
  BY <1>1 DEF Running, Phases
<1>3. NothingSkipped'
  <2> SUFFICES ASSUME NEW e \in Counted(state')
               PROVE  e \in Offered' \cup acc' \cup excused' \cup misled' \cup cut'
    BY DEF NothingSkipped
  <2>1. e \in Counted(state) \cup events \cup excused'
    OBVIOUS
  <2>2. Counted(state) \subseteq Offered \cup acc \cup excused \cup misled \cup cut
    BY DEF UInv, NothingSkipped
  <2> QED
    BY <1>1, <2>1, <2>2 DEF HistoryKept
<1>4. SavedIsHanded' /\ disk' \in State \cup {NoState}
  BY <1>1, <1>2, <1>3, SaveOK
<1>5. ChannelsCounted'
  BY <1>1, ChannelsKept
<1>6. LoopOK'
  <2>1. chPts' \in [Channels -> Nat] /\ <<>> \in Seq(Update)
    BY DEF UInv, LoopOK
  <2> QED
    BY <1>1, <1>2, <1>4, <2>1 DEF LoopOK
<1> QED
  BY <1>3, <1>4, <1>5, <1>6

-----------------------------------------------------------------------------
(* The steps.                                                              *)

LEMMA ObjTyped ==
    ASSUME NEW form \in {"updates"}, NEW u \in Update, NEW v \in Update
    PROVE  /\ Obj(form, <<u>>) \in Object /\ Obj(form, <<u, v>>) \in Object
           /\ Obj(form, <<u>>).form # "short" /\ Obj(form, <<u, v>>).form # "short"
<1>1. <<u>> \in Seq(Update) /\ <<u, v>> \in Seq(Update)
  OBVIOUS
<1> QED
  BY <1>1 DEF Obj, Object

LEMMA ShortTyped ==
    ASSUME NEW n \in Nat \ {0}
    PROVE  /\ Obj("short", <<<<"pts", n>>>>) \in Object
           /\ Len(Obj("short", <<<<"pts", n>>>>).updates) = 1
           /\ Obj("short", <<<<"pts", n>>>>).updates[1][1] = "pts"
<1>1. <<"pts", n>> \in Update
  BY DEF Update, Boxes, Account
<1> DEFINE u == <<"pts", n>>
<1>2. u[1] = "pts"
  OBVIOUS
<1> HIDE DEF u
<1>3. <<u>> \in Seq(Update) /\ Len(<<u>>) = 1 /\ <<u>>[1] = u
  BY <1>1 DEF u
<1>4. Obj("short", <<u>>) \in Object /\ Obj("short", <<u>>).updates = <<u>>
  BY <1>3 DEF Obj, Object
<1> QED
  BY <1>2, <1>3, <1>4 DEF u

LEMMA ShownTyped ==
    ASSUME NEW b \in Boxes, NEW n \in Nat \ {0}, NEW u \in Shown(b, n)
    PROVE  u \in Update
BY DEF Shown, Update

LEMMA ServerStepsUInv ==
    ASSUME UInv, ServerSteps
    PROVE  UInv'
<1>0. \A b \in Boxes : log[b] + 1 \in Nat \ {0}
  BY DEF UInv, LogOK
<1>1. ASSUME NEW b \in Boxes, ServerPublishes(b) PROVE UInv'
  <2>1. LogOK'
    BY <1>0, <1>1 DEF ServerPublishes, UInv, LogOK
  <2>2. QueueOK'
    <3>1. CASE incoming' = incoming
      BY <3>1 DEF UInv, QueueOK
    <3>2. CASE \E u \in Shown(b, log[b] + 1), form \in FormsOf(b) : Push(Obj(form, <<u>>))
      <4>1. PICK u \in Shown(b, log[b] + 1), form \in FormsOf(b) : Push(Obj(form, <<u>>))
        BY <3>2
      <4>2. u \in Update
        BY <1>0, ShownTyped
      <4>3. CASE form = "updates"
        BY <4>1, <4>2, <4>3, ObjTyped, PushOK
      <4>4. CASE form # "updates"
        <5>1. form = "short" /\ b = "pts"
          BY <4>4 DEF FormsOf
        <5>2. u = <<"pts", log[b] + 1>>
          BY <5>1, BoxesAssumption DEF Shown
        <5> QED
          BY <1>0, <4>1, <5>1, <5>2, ShortTyped, PushOK
      <4> QED
        BY <4>3, <4>4
    <3> QED
      BY <1>1, <3>1, <3>2 DEF ServerPublishes
  <2> QED
    BY <1>1, <2>1, <2>2, ServerUInv DEF ServerPublishes
<1>2. ASSUME NEW b \in Boxes, NEW c \in Boxes, ServerPublishesBoth(b, c) PROVE UInv'
  <2>1. LogOK'
    BY <1>0, <1>2 DEF ServerPublishesBoth, UInv, LogOK
  <2>2. PICK u \in Shown(b, log[b] + 1), v \in Shown(c, log[c] + 1) :
          Push(Obj("updates", <<u, v>>))
    BY <1>2 DEF ServerPublishesBoth
  <2>3. u \in Update /\ v \in Update
    BY <1>0, ShownTyped
  <2>4. QueueOK'
    BY <2>2, <2>3, ObjTyped, PushOK
  <2> QED
    BY <1>2, <2>1, <2>4, ServerUInv DEF ServerPublishesBoth
<1>3. CASE ServerRepeats
  <2>1. LogOK'
    BY <1>3 DEF ServerRepeats, UInv, LogOK
  <2>2. CASE Push(Obj("tooLong", <<>>))
    <3>1. Obj("tooLong", <<>>) \in Object /\ Obj("tooLong", <<>>).form # "short"
      BY DEF Obj, Object
    <3> QED
      BY <1>3, <2>1, <2>2, <3>1, PushOK, ServerUInv DEF ServerRepeats
  <2>3. CASE \E n \in 1 .. log["pts"], form \in {"short", "updates"} :
               Push(Obj(form, <<<<"pts", n>>>>))
    <3>1. PICK n \in 1 .. log["pts"], form \in {"short", "updates"} :
               Push(Obj(form, <<<<"pts", n>>>>))
      BY <2>3
    <3>2. n \in Nat \ {0} /\ <<"pts", n>> \in Update
      BY DEF UInv, LogOK, Boxes, Account, Update
    <3>3. QueueOK'
      BY <3>1, <3>2, ShortTyped, ObjTyped, PushOK
    <3> QED
      BY <1>3, <2>1, <3>3, ServerUInv DEF ServerRepeats
  <2>4. CASE \E ch \in Channels : Push(Obj("updates", <<<<ch, 0>>>>))
    <3>1. PICK ch \in Channels : Push(Obj("updates", <<<<ch, 0>>>>))
      BY <2>4
    <3>2. <<ch, 0>> \in Update
      BY DEF Update
    <3>3. QueueOK'
      BY <3>1, <3>2, ObjTyped, PushOK
    <3> QED
      BY <1>3, <2>1, <3>3, ServerUInv DEF ServerRepeats
  <2> QED
    BY <1>3, <2>2, <2>3, <2>4 DEF ServerRepeats
<1> QED
  BY <1>1, <1>2, <1>3 DEF ServerSteps, Boxes

LEMMA StartUInv ==
    ASSUME UInv, Start
    PROVE  UInv'
<1>1. /\ phase = "off" /\ phase' = "waiting" /\ Initialize
      /\ UNCHANGED <<log, incoming, disk, rare, chPts, items, at, acc, page,
                     Offered, misled, cut, dropped>>
  BY DEF Start, Offered, fanned
<1>2. /\ disk \in State \cup {NoState} /\ acc = {} /\ page = {} /\ at = 0 /\ items = <<>>
      /\ chPts \in [Channels -> Nat] /\ \A ch \in Channels : chPts[ch] = 0
  BY <1>1 DEF UInv, LoopOK
<1>3. LogOK' /\ QueueOK'
  BY <1>1 DEF UInv, LogOK, QueueOK
<1>4. HistoryKept /\ Running' /\ phase' \in Phases
  BY <1>1 DEF HistoryKept, Initialize, Running, Phases
<1>5. state' \in State /\ NothingSkipped'
  <2>1. CASE disk # NoState /\ state' = disk
    BY <1>1, <1>2, <1>4, <2>1 DEF UInv, SavedIsHanded, NothingSkipped, HistoryKept
  <2>2. CASE state' = LogState /\ excused' = excused \cup Counted(LogState)
    BY <2>2, LogStateOK DEF UInv, NothingSkipped
  <2> QED
    BY <1>1, <2>1, <2>2 DEF Initialize
<1>6. SavedIsHanded'
  BY <1>1, <1>4 DEF UInv, SavedIsHanded, HistoryKept
<1>7. ChannelsCounted'
  BY <1>1, <1>2 DEF ChannelsCounted, Events
<1>8. LoopOK'
  BY <1>1, <1>2, <1>4, <1>5 DEF LoopOK
<1> QED
  BY <1>3, <1>5, <1>6, <1>7, <1>8 DEF UInv

\* The task is gone: nothing is left that the numbers could stand for.
LEMMA IdleUInv ==
    ASSUME UInv, phase' \in {"off", "dead"}, Idle, LogOK', QueueOK',
           disk' \in State \cup {NoState}, SavedIsHanded'
    PROVE  UInv'
<1>1. ~Running' /\ phase' \in Phases
  BY DEF Running, Phases
<1>2. NothingSkipped' /\ ChannelsCounted'
  BY <1>1 DEF NothingSkipped, ChannelsCounted
<1>3. LoopOK'
  <2>1. <<>> \in Seq(Update)
    OBVIOUS
  <2> QED
    BY <1>1, <2>1 DEF LoopOK, Idle
<1> QED
  BY <1>2, <1>3 DEF UInv

LEMMA EndsUInv ==
    ASSUME UInv, Stop \/ Crash \/ FetchFails
    PROVE  UInv'
<1>0. QueueSize \in Nat
  BY BoundsAssumption
<1>1. LogOK'
  BY DEF UInv, LogOK, Stop, Crash, FetchFails
<1>2. QueueOK'
  <2>1. incoming' = incoming \/ incoming' = <<>>
    BY DEF Stop, Crash, FetchFails
  <2>2. CASE incoming' = incoming
    BY <2>2 DEF UInv, QueueOK
  <2>3. CASE incoming' = <<>>
    BY <1>0, <2>3 DEF QueueOK
  <2> QED
    BY <2>1, <2>2, <2>3
<1>3. CASE Crash \/ FetchFails
  <2>1. disk' = disk /\ UNCHANGED histVars /\ Idle /\ phase' \in {"off", "dead"}
    BY <1>3 DEF Crash, FetchFails
  <2>2. SavedIsHanded' /\ disk' \in State \cup {NoState}
    BY <2>1 DEF UInv, LoopOK, SavedIsHanded, histVars, Offered, fanned
  <2> QED
    BY <1>1, <1>2, <2>1, <2>2, IdleUInv
<1>4. CASE Stop
  <2>1. /\ Running /\ phase' = "off" /\ MaySave(state) /\ Idle
        /\ cut' = cut \cup {e \in acc : e[1] \in Account}
        /\ UNCHANGED <<Offered, excused, misled, dropped>>
    BY <1>4 DEF Stop, Running, Offered, fanned
  <2>2. state \in State /\ disk \in State \cup {NoState}
    BY <2>1 DEF UInv, LoopOK
  <2>3. Counted(state) \subseteq Offered' \cup excused' \cup misled' \cup cut'
    <3> SUFFICES ASSUME NEW e \in Counted(state)
                 PROVE  e \in Offered' \cup excused' \cup misled' \cup cut'
      OBVIOUS
    <3>1. e \in Offered \cup acc \cup excused \cup misled \cup cut
      BY <2>1 DEF UInv, NothingSkipped
    <3>2. e[1] \in Account
      BY CountedBox
    <3> QED
      BY <2>1, <3>1, <3>2
  <2>4. SavedIsHanded' /\ disk' \in State \cup {NoState}
    <3>1. CASE disk' = disk
      BY <2>1, <2>2, <3>1 DEF UInv, SavedIsHanded
    <3>2. CASE disk' = state
      BY <2>2, <2>3, <3>2 DEF SavedIsHanded
    <3> QED
      BY <2>1, <3>1, <3>2 DEF MaySave
  <2> QED
    BY <1>1, <1>2, <2>1, <2>4, IdleUInv
<1> QED
  BY <1>3, <1>4

LEMMA TakeUInv ==
    ASSUME UInv, TakeTooLong \/ TakeShort \/ TakeUpdates
    PROVE  UInv'
<1> DEFINE obj == Head(incoming)
<1>1. PICK f \in {"tooLong", "short", "updates"} :
         /\ Take(f)
         /\ (f = "tooLong" /\ TakeTooLong) \/ (f = "short" /\ TakeShort)
            \/ (f = "updates" /\ TakeUpdates)
  BY DEF TakeTooLong, TakeShort, TakeUpdates
<1>2. /\ obj \in Object /\ obj.form = f /\ QueueOK' /\ LogOK'
      /\ f = "short" => Len(obj.updates) = 1 /\ obj.updates[1][1] = "pts"
  BY <1>1, TakeOK
<1>3. /\ phase = "waiting" /\ Running
      /\ UNCHANGED <<log, chPts, page, excused, misled, cut>>
  BY <1>1 DEF Take, Running
<1>4. /\ acc = {} /\ page = {} /\ at = 0 /\ items = <<>> /\ state \in State
      /\ chPts \in [Channels -> Nat] /\ disk \in State \cup {NoState}
  BY <1>3 DEF UInv, LoopOK
<1>5. CASE TakeTooLong \/ (TakeShort /\ phase' = "common")
  <2>1. UNCHANGED <<state, items, at, acc, disk, Offered, dropped>> /\ phase' = "common"
    BY <1>5 DEF TakeTooLong, TakeShort, HandOut, Offered, fanned
  <2>2. HistoryKept /\ Running' /\ phase' \in Phases
    BY <1>3, <2>1 DEF HistoryKept, Running, Phases
  <2>3. NothingSkipped' /\ ChannelsCounted'
    BY <1>3, <2>1, <2>2, NothingKept, ChannelsKept
  <2>4. SavedIsHanded'
    BY <1>3, <2>1 DEF UInv, SavedIsHanded
  <2>5. LoopOK'
    <3>1. <<>> \in Seq(Update)
      OBVIOUS
    <3> QED
      BY <1>3, <1>4, <2>1, <2>2, <3>1 DEF LoopOK
  <2> QED
    BY <1>2, <2>3, <2>4, <2>5 DEF UInv
<1>6. CASE f = "short" /\ TakeShort /\ phase' # "common"
  <2> DEFINE u == Head(obj.updates)
  <2>1. /\ IsNextPts(u[2]) /\ state' = [state EXCEPT !.pts = u[2]] /\ HandOut({u})
        /\ UNCHANGED <<items, at, dropped>>
    BY <1>6 DEF TakeShort
  <2>2. obj.updates \in Seq(Update) /\ Len(obj.updates) = 1 /\ obj.updates[1][1] = "pts"
    BY <1>2, <1>6 DEF Object
  <2>3. u = obj.updates[1] /\ u \in Update
    BY <2>2, EmptySeq, LenProperties, HeadTailProperties
  <2>4. u = <<"pts", u[2]>> /\ u[2] = state.pts + 1
    BY <2>1, <2>2, <2>3 DEF Update, IsNextPts
  <2> HIDE DEF u
  <2>5. /\ state' \in State /\ state'.pts = state.pts + 1 /\ state'.qts = state.qts
    BY <1>4, <2>1, <2>4 DEF State
  <2>6. \A e \in Counted(state') : e \in Counted(state) \cup {u} \cup excused'
    <3>1. Events("pts", 0, state.pts + 1) \subseteq Events("pts", 0, state.pts) \cup {u}
      BY <1>4, <2>4, EventsNext DEF State
    <3> QED
      BY <2>5, <3>1 DEF Counted
  <2>7. HistoryKept
    BY <1>3, <2>1, FanOutOK DEF HistoryKept, HandOut
  <2> QED
    BY <1>2, <1>3, <1>4, <2>1, <2>5, <2>6, <2>7, HandOutOK DEF UInv
<1>7. CASE f = "updates" /\ TakeUpdates
  <2>1. NextHint(obj.updates, 0, {}, {}) /\ UNCHANGED <<state, disk, Offered>>
    BY <1>7 DEF TakeUpdates, Offered, fanned
  <2>2. obj.updates \in Seq(Update)
    BY <1>2 DEF Object
  <2>3. LoopOK' /\ Running' /\ HistoryKept
    BY <1>3, <1>4, <2>1, <2>2, NextHintOK
  <2>4. NothingSkipped' /\ ChannelsCounted'
    BY <1>3, <1>4, <2>1, <2>3, NothingKept, ChannelsKept
  <2>5. SavedIsHanded'
    BY <2>1, <2>3, <2>4, SaveOK
  <2> QED
    BY <1>2, <2>3, <2>4, <2>5 DEF UInv
<1> QED
  BY <1>1, <1>5, <1>6, <1>7

\* One update of the object is counted.
LEMMA CountUInv ==
    ASSUME UInv, CountUpdate
    PROVE  UInv'
<1> DEFINE u == Head(items)
           n == u[2]
<1>1. /\ phase = "counting" /\ items # <<>> /\ items' = Tail(items)
      /\ UNCHANGED <<log, incoming, phase, disk, rare, chPts, at, page,
                     Offered, excused, cut, dropped>>
  BY DEF CountUpdate, Offered, fanned
<1>2. /\ Running /\ items \in Seq(Update) /\ at = 0 /\ page = {} /\ state \in State
      /\ chPts \in [Channels -> Nat] /\ disk \in State \cup {NoState} /\ ~QtsGap(items)
  BY <1>1 DEF UInv, LoopOK, Running
<1>3. /\ u \in Update /\ items[1] = u /\ 1 \in DOMAIN items
      /\ items' \in Seq(Update)
      /\ \A i \in DOMAIN items' : i + 1 \in DOMAIN items /\ items'[i] = items[i + 1]
  <2>1. Len(items) \in Nat \ {0} /\ DOMAIN items = 1 .. Len(items)
    BY <1>1, <1>2, LenProperties, EmptySeq
  <2>2. /\ u = items[1] /\ items' \in Seq(Update) /\ Len(items') = Len(items) - 1
        /\ \A i \in 1 .. Len(items) - 1 : items'[i] = items[i + 1]
        /\ u \in Update
    BY <1>1, <1>2, HeadTailProperties
  <2>3. DOMAIN items' = 1 .. Len(items) - 1
    BY <2>2, LenProperties
  <2> QED
    BY <2>1, <2>2, <2>3
<1>4. u = <<u[1], n>> /\ n \in Nat
  BY <1>3 DEF Update
<1>5. ~IsHint(u) => u[1] \in Boxes
  BY <1>3 DEF Update, IsHint
<1>6. \/ UNCHANGED <<state, misled>> /\ acc \subseteq acc'
      \/ /\ ~IsHint(u) /\ u[1] = "qts" /\ acc' = acc \cup {u} /\ misled' = misled
         /\ state' = [state EXCEPT !.qts = IF n > @ THEN n ELSE @]
      \/ /\ ~IsHint(u) /\ u[1] # "qts" /\ IsNextPts(n) /\ acc' = acc \cup {u}
         /\ misled' = IF u[1] \in Channels THEN misled \cup {<<"pts", n>>} ELSE misled
         /\ state' = [state EXCEPT !.pts = n]
  BY DEF CountUpdate
<1>7. acc \subseteq acc' /\ HistoryKept
  BY <1>1, <1>6 DEF HistoryKept
<1> HIDE DEF u, n
<1>8. /\ state' \in State /\ state'.qts >= state.qts
      /\ NothingSkipped'
  <2>1. CASE state' = state
    BY <1>2, <1>7, <2>1, NothingKept DEF State
  <2>2. CASE /\ ~IsHint(u) /\ u[1] = "qts" /\ acc' = acc \cup {u} /\ misled' = misled
             /\ state' = [state EXCEPT !.qts = IF n > @ THEN n ELSE @]
    <3>1. n <= state.qts + 1
      BY <1>2, <1>3, <1>4, <2>2 DEF QtsGap, State, u, n
    <3>2. CASE n > state.qts
      <4>1. n = state.qts + 1 /\ u = <<"qts", state.qts + 1>>
        BY <1>2, <1>4, <2>2, <3>1, <3>2 DEF State
      <4>2. state' \in State /\ state'.pts = state.pts /\ state'.qts = state.qts + 1
        <5>1. state.pts \in Nat /\ state.qts \in Nat
          BY <1>2 DEF State
        <5>2. state' = [state EXCEPT !.qts = state.qts + 1]
          BY <2>2, <3>2, <4>1, <5>1
        <5> QED
          BY <1>2, <5>1, <5>2 DEF State
      <4>3. Events("qts", 0, state.qts + 1) \subseteq Events("qts", 0, state.qts) \cup {u}
        BY <1>2, <4>1, EventsNext DEF State
      <4>4. Counted(state') \subseteq Counted(state) \cup {u}
        BY <4>2, <4>3 DEF Counted
      <4>5. NothingSkipped'
        BY <1>2, <1>7, <2>2, <4>4 DEF UInv, NothingSkipped, HistoryKept
      <4> QED
        BY <1>2, <4>2, <4>5 DEF State
    <3>3. CASE ~(n > state.qts)
      <4>1. state' = state
        BY <1>2, <2>2, <3>3 DEF State
      <4> QED
        BY <1>2, <1>7, <4>1, NothingKept DEF State
    <3> QED
      BY <3>2, <3>3
  <2>3. CASE /\ ~IsHint(u) /\ u[1] # "qts" /\ IsNextPts(n) /\ acc' = acc \cup {u}
             /\ misled' = IF u[1] \in Channels THEN misled \cup {<<"pts", n>>} ELSE misled
             /\ state' = [state EXCEPT !.pts = n]
    <3>1. n = state.pts + 1
      BY <2>3 DEF IsNextPts
    <3>2. state' \in State /\ state'.pts = state.pts + 1 /\ state'.qts = state.qts
      BY <1>2, <2>3, <3>1 DEF State
    <3>3. <<"pts", state.pts + 1>> \in acc' \cup misled'
      <4>1. CASE u[1] \in Channels
        BY <2>3, <3>1, <4>1
      <4>2. CASE u[1] = "pts"
        BY <1>4, <2>3, <3>1, <4>2
      <4> QED
        BY <1>5, <2>3, <4>1, <4>2 DEF Boxes, Account
    <3>4. Events("pts", 0, state.pts + 1) \subseteq
             Events("pts", 0, state.pts) \cup {<<"pts", state.pts + 1>>}
      BY <1>2, EventsNext DEF State
    <3>5. Counted(state') \subseteq Counted(state) \cup acc' \cup misled'
      BY <3>2, <3>3, <3>4 DEF Counted
    <3>6. NothingSkipped'
      BY <1>2, <1>7, <3>5 DEF UInv, NothingSkipped, HistoryKept
    <3> QED
      BY <1>2, <3>2, <3>6 DEF State
  <2> QED
    BY <1>6, <2>1, <2>2, <2>3 DEF u, n
<1>9. ~QtsGap(items)'
  <2> SUFFICES ASSUME NEW i \in DOMAIN items', items'[i][1] = "qts"
               PROVE  ~(items'[i][2] > state'.qts + 1)
    BY DEF QtsGap
  <2>1. i + 1 \in DOMAIN items /\ items'[i] = items[i + 1]
    BY <1>3
  <2>2. items[i + 1] \in Update
    BY <1>2, <2>1, LenProperties, ElementOfSeq
  <2>3. items[i + 1][2] \in Nat
    BY <2>2 DEF Update
  <2>4. ~(items[i + 1][2] > state.qts + 1)
    BY <1>2, <2>1 DEF QtsGap
  <2> QED
    BY <1>2, <1>8, <2>1, <2>3, <2>4 DEF State
<1>10. LoopOK'
  BY <1>1, <1>2, <1>3, <1>8, <1>9 DEF LoopOK, Phases
<1>11. ChannelsCounted' /\ SavedIsHanded'
  BY <1>1, <1>2, <1>7, <1>8, ChannelsKept, SaveOK
<1>12. LogOK' /\ QueueOK'
  BY <1>1 DEF UInv, LogOK, QueueOK
<1> QED
  BY <1>8, <1>10, <1>11, <1>12 DEF UInv

LEMMA FinishUInv ==
    ASSUME UInv, FinishObject
    PROVE  UInv'
<1>1. /\ phase = "counting" /\ items = <<>> /\ state' = state /\ HandOut(acc)
      /\ UNCHANGED <<log, incoming, chPts, items, at, page, excused, misled,
                     cut, dropped>>
  BY DEF FinishObject
<1>2. Running /\ state \in State /\ at = 0 /\ page = {}
  BY <1>1 DEF UInv, LoopOK, Running
<1>3. HistoryKept
  BY <1>1, FanOutOK DEF HistoryKept, HandOut
<1>4. \A e \in Counted(state') : e \in Counted(state) \cup acc \cup excused'
  BY <1>1
<1>5. LoopOK' /\ NothingSkipped' /\ SavedIsHanded' /\ ChannelsCounted'
  BY <1>1, <1>2, <1>3, <1>4, HandOutOK
<1> QED
  BY <1>1, <1>5 DEF UInv, LogOK, QueueOK

\* The number of a channel goes to n, and what is between is on its way.
LEMMA ChannelMoves ==
    ASSUME UInv, HistoryKept, phase = "channel", NEW n \in Nat,
           chPts' = [chPts EXCEPT ![Fetched] = n],
           acc \cup page \cup Events(Fetched, Asked, n) \subseteq
              acc' \cup page' \cup Offered' \cup dropped' \cup excused'
    PROVE  ChannelsCounted'
<1> SUFFICES ASSUME NEW ch \in Channels
             PROVE  Events(ch, 1, chPts'[ch]) \subseteq
                       Offered' \cup acc' \cup page' \cup excused' \cup dropped'
  BY DEF ChannelsCounted
<1>1. chPts \in [Channels -> Nat] /\ Running /\ Fetched \in Channels
  BY DEF UInv, LoopOK, Running
<1>2. Events(ch, 1, chPts[ch]) \subseteq
         Offered' \cup acc' \cup page' \cup excused' \cup dropped'
  <2>1. Events(ch, 1, chPts[ch]) \subseteq Offered \cup acc \cup page \cup excused \cup dropped
    BY <1>1 DEF UInv, ChannelsCounted
  <2> QED
    BY <2>1 DEF HistoryKept
<1>3. CASE ch # Fetched
  BY <1>1, <1>2, <1>3
<1>4. CASE ch = Fetched
  <2>1. chPts'[ch] = n /\ chPts[ch] \in Nat
    BY <1>1, <1>4
  <2>2. CASE chPts[ch] = 0
    BY <1>4, <2>1, <2>2 DEF Asked
  <2>3. CASE chPts[ch] # 0
    <3>1. Events(ch, 1, n) \subseteq Events(ch, 1, chPts[ch]) \cup Events(ch, Asked, n)
      BY <1>4, <2>1, <2>3, EventsSplit DEF Asked
    <3> QED
      BY <1>2, <1>4, <2>1, <3>1
  <2> QED
    BY <2>2, <2>3
<1> QED
  BY <1>3, <1>4

\* A call of _fetch_channel_difference returns.
LEMMA EndFetchUInv ==
    ASSUME UInv, Fetching, NEW events, NEW lost, EndFetch(events, lost),
           \A e \in events : e[1] \in Channels, page \subseteq events \cup lost,
           excused' = excused,
           \/ chPts' = chPts
           \/ \E n \in Nat : /\ chPts' = [chPts EXCEPT ![Fetched] = n]
                             /\ Events(Fetched, Asked, n) \subseteq events
    PROVE  UInv'
<1>1. /\ phase = "channel" /\ Running
      /\ UNCHANGED <<log, incoming, state, disk, rare, Offered, misled, cut>>
  BY DEF Fetching, Running, Offered, fanned
<1>2. /\ items \in Seq(Update) /\ chPts \in [Channels -> Nat]
      /\ \A e \in acc : e[1] \in Channels
  BY <1>1 DEF UInv, LoopOK
<1>3. page' = {} /\ NextHint(items, at, acc \cup events, lost)
  BY DEF EndFetch
<1>4. \A e \in acc \cup events : e[1] \in Channels
  BY <1>2
<1>5. chPts' \in [Channels -> Nat]
  BY <1>2
<1>6. /\ LoopOK' /\ Running' /\ HistoryKept
      /\ (acc \cup events) \cup lost \subseteq acc' \cup dropped'
  BY <1>1, <1>2, <1>3, <1>4, <1>5, NextHintOK
<1>7. NothingSkipped'
  BY <1>1, <1>2, <1>6, NothingKept
<1>8. SavedIsHanded'
  BY <1>1, <1>6, <1>7, SaveOK
<1>9. ChannelsCounted'
  <2>1. CASE chPts' = chPts
    BY <1>1, <1>6, <2>1, ChannelsKept
  <2>2. CASE \E n \in Nat : /\ chPts' = [chPts EXCEPT ![Fetched] = n]
                            /\ Events(Fetched, Asked, n) \subseteq events
    BY <1>1, <1>6, <2>2, ChannelMoves
  <2> QED
    BY <2>1, <2>2
<1> QED
  BY <1>1, <1>6, <1>7, <1>8, <1>9 DEF UInv, LogOK, QueueOK

\* A page that is not the last one.
LEMMA PageUInv ==
    ASSUME UInv, Fetching, NEW n \in Nat, NEW events,
           chPts' = [chPts EXCEPT ![Fetched] = n],
           page' = page \cup events, \A e \in events : e[1] \in Channels,
           Events(Fetched, Asked, n) \subseteq events \cup excused',
           excused \subseteq excused', UNCHANGED <<phase, items, at, acc, dropped>>
    PROVE  UInv'
<1>1. /\ phase = "channel" /\ Running
      /\ UNCHANGED <<log, incoming, state, disk, rare, Offered, misled, cut>>
  BY DEF Fetching, Running, Offered, fanned
<1>2. HistoryKept /\ Running' /\ Fetched' = Fetched
  BY <1>1 DEF HistoryKept, Running, Fetched
<1>3. NothingSkipped'
  BY <1>1, <1>2, NothingKept
<1>4. SavedIsHanded'
  BY <1>1, <1>2, <1>3, SaveOK
<1>5. ChannelsCounted'
  BY <1>1, <1>2, ChannelMoves
<1>6. LoopOK'
  <2>1. chPts' \in [Channels -> Nat]
    BY DEF UInv, LoopOK
  <2> QED
    BY <1>1, <1>2, <2>1 DEF UInv, LoopOK
<1> QED
  BY <1>1, <1>3, <1>4, <1>5, <1>6 DEF UInv, LogOK, QueueOK

LEMMA ChannelUInv ==
    ASSUME UInv, ChannelEmpty \/ ChannelFinal \/ ChannelSlice \/ ChannelTooLong
                 \/ ChannelFails
    PROVE  UInv'
<1>1. Fetching /\ phase = "channel"
  BY DEF ChannelEmpty, ChannelFinal, ChannelSlice, ChannelTooLong, ChannelFails, Fetching
<1>2. /\ Fetched \in Channels /\ log[Fetched] \in Nat /\ Asked \in Nat
      /\ \A e \in page : e[1] \in Channels
  BY <1>1 DEF UInv, LoopOK, LogOK, Boxes, Asked
<1>3. \A i, j : \A e \in Events(Fetched, i, j) : e[1] \in Channels
  BY <1>2, EventsBox
<1>4. \A e \in Newest : e[1] \in Channels
  BY <1>2 DEF Newest
<1>5. CASE ChannelEmpty
  <2>1. Events(Fetched, Asked, log[Fetched]) = {}
    BY <1>2, <1>5 DEF ChannelEmpty, Events
  <2> QED
    BY <1>1, <1>2, <1>5, <2>1, EndFetchUInv DEF ChannelEmpty
<1>6. CASE ChannelFinal
  <2> DEFINE events == page \cup Events(Fetched, Asked, log[Fetched])
  <2>1. \A e \in events : e[1] \in Channels
    BY <1>2, <1>3
  <2>2. EndFetch(events, {}) /\ chPts' = [chPts EXCEPT ![Fetched] = log[Fetched]]
        /\ excused' = excused /\ page \subseteq events \cup {}
        /\ Events(Fetched, Asked, log[Fetched]) \subseteq events
    BY <1>6 DEF ChannelFinal
  <2> HIDE DEF events
  <2> QED
    BY <1>1, <1>2, <2>1, <2>2, EndFetchUInv
<1>7. CASE ChannelSlice
  <2>1. PICK n \in Asked + 1 .. log[Fetched] :
          /\ chPts' = [chPts EXCEPT ![Fetched] = n]
          /\ page' = page \cup Events(Fetched, Asked, n)
    BY <1>7 DEF ChannelSlice
  <2>2. n \in Nat /\ excused' = excused /\ UNCHANGED <<phase, items, at, acc, dropped>>
    BY <1>2, <1>7 DEF ChannelSlice
  <2> QED
    BY <1>1, <1>3, <2>1, <2>2, PageUInv
<1>8. CASE ChannelTooLong
  <2>1. CASE /\ chPts' = [chPts EXCEPT ![Fetched] = log[Fetched]]
             /\ page' = page \cup Newest
             /\ excused' = excused \cup Events(Fetched, Asked, log[Fetched])
             /\ UNCHANGED <<phase, items, at, acc, dropped>>
    BY <1>1, <1>2, <1>4, <2>1, PageUInv
  <2>2. CASE EndFetch(page \cup Newest, {}) /\ UNCHANGED <<chPts, excused>>
    <3> DEFINE events == page \cup Newest
    <3>1. (\A e \in events : e[1] \in Channels) /\ page \subseteq events \cup {}
      BY <1>2, <1>4
    <3>2. EndFetch(events, {})
      BY <2>2
    <3> HIDE DEF events
    <3> QED
      BY <1>1, <2>2, <3>1, <3>2, EndFetchUInv
  <2> QED
    BY <1>8, <2>1, <2>2 DEF ChannelTooLong
<1>9. CASE ChannelFails
  BY <1>1, <1>9, EndFetchUInv DEF ChannelFails
<1> QED
  BY <1>5, <1>6, <1>7, <1>8, <1>9

LEMMA DifferenceUInv ==
    ASSUME UInv, DiffEmpty \/ DiffAll \/ DiffSlice \/ DiffTooLong \/ GetState
    PROVE  UInv'
<1>1. /\ phase \in {"common", "resetting"} /\ Running
      /\ UNCHANGED <<log, incoming, chPts, items, at, page, misled, cut, dropped>>
  BY DEF DiffEmpty, DiffAll, DiffSlice, DiffTooLong, GetState, Differing, Running
<1>2. /\ state \in State /\ at = 0 /\ page = {} /\ items = <<>>
      /\ chPts \in [Channels -> Nat] /\ disk \in State \cup {NoState}
  BY <1>1 DEF UInv, LoopOK
<1>3. LogState \in State /\ Counted(LogState) \subseteq Counted(state) \cup Between(state, LogState)
  BY <1>2, LogStateOK, CountedSplit DEF UInv
<1>4. LogOK' /\ QueueOK'
  BY <1>1 DEF UInv, LogOK, QueueOK
<1>5. ASSUME NEW events, HandOut(events), acc \subseteq events, state' \in State,
             excused \subseteq excused',
             \A e \in Counted(state') : e \in Counted(state) \cup events \cup excused'
      PROVE  UInv'
  <2>1. HistoryKept
    BY <1>1, <1>5, FanOutOK DEF HistoryKept, HandOut
  <2>2. LoopOK' /\ NothingSkipped' /\ SavedIsHanded' /\ ChannelsCounted'
    BY <1>1, <1>2, <1>5, <2>1, HandOutOK
  <2> QED
    BY <1>4, <2>2 DEF UInv
<1>6. CASE DiffEmpty
  <2>1. state' = state /\ excused' = excused /\ HandOut(acc)
    BY <1>6 DEF DiffEmpty
  <2> QED
    BY <1>2, <1>5, <2>1
<1>7. CASE DiffAll
  <2> DEFINE events == acc \cup Between(state, LogState)
  <2>1. state' = LogState /\ excused' = excused /\ HandOut(events)
    BY <1>7 DEF DiffAll
  <2>2. \A e \in Counted(state') : e \in Counted(state) \cup events \cup excused'
    BY <1>3, <2>1
  <2> QED
    BY <1>3, <1>5, <2>1, <2>2
<1>8. CASE GetState
  <2>1. state' = LogState /\ excused' = excused \cup Between(state, LogState) /\ HandOut(acc)
    BY <1>8 DEF GetState
  <2>2. \A e \in Counted(state') : e \in Counted(state) \cup acc \cup excused'
    BY <1>3, <2>1
  <2> QED
    BY <1>3, <1>5, <2>1, <2>2
<1>9. CASE DiffTooLong \/ DiffSlice
  <2>1. /\ phase' \in {"common", "resetting"} /\ UNCHANGED <<disk, Offered, excused>>
        /\ state' \in State /\ acc \subseteq acc'
        /\ Counted(state') \subseteq Counted(state) \cup acc'
    <3>1. CASE DiffTooLong
      BY <1>2, <3>1 DEF DiffTooLong, Offered, fanned
    <3>2. CASE DiffSlice
      <4>1. PICK p \in state.pts .. log["pts"], q \in state.qts .. log["qts"] :
               state' = [pts |-> p, qts |-> q]
        BY <3>2 DEF DiffSlice
      <4>2. state' \in State
        BY <1>2, <4>1 DEF State
      <4>3. /\ acc' = acc \cup Between(state, state') /\ phase' = phase
            /\ UNCHANGED <<disk, Offered, excused>>
        BY <3>2 DEF DiffSlice, Offered, fanned
      <4> QED
        BY <1>1, <1>2, <4>2, <4>3, CountedSplit
    <3> QED
      BY <1>9, <3>1, <3>2
  <2>2. HistoryKept /\ Running' /\ phase' \in Phases
    BY <1>1, <2>1 DEF HistoryKept, Running, Phases
  <2>3. NothingSkipped'
    BY <1>1, <2>1, <2>2 DEF UInv, NothingSkipped, HistoryKept
  <2>4. SavedIsHanded' /\ ChannelsCounted'
    BY <1>1, <2>1, <2>2, <2>3, SaveOK, ChannelsKept
  <2>5. LoopOK'
    <3>1. <<>> \in Seq(Update)
      OBVIOUS
    <3> QED
      BY <1>1, <1>2, <2>1, <2>2, <3>1 DEF LoopOK
  <2> QED
    BY <1>4, <2>3, <2>4, <2>5 DEF UInv
<1> QED
  BY <1>6, <1>7, <1>8, <1>9

-----------------------------------------------------------------------------
LEMMA InitUInv == Init => UInv
<1> SUFFICES ASSUME Init PROVE UInv
  OBVIOUS
<1>1. LogOK
  BY DEF Init, LogOK
<1>2. QueueOK
  BY BoundsAssumption DEF Init, QueueOK
<1>3. LoopOK
  BY DEF Init, LoopOK, Phases, Running
<1>4. NothingSkipped /\ SavedIsHanded /\ ChannelsCounted
  BY DEF Init, NothingSkipped, SavedIsHanded, ChannelsCounted, Running
<1> QED
  BY <1>1, <1>2, <1>3, <1>4 DEF UInv

LEMMA NextUInv == UInv /\ [Next]_vars => UInv'
<1> SUFFICES ASSUME UInv, [Next]_vars PROVE UInv'
  OBVIOUS
<1>1. CASE UNCHANGED vars
  <2>1. LogOK' /\ QueueOK'
    BY <1>1 DEF vars, clientVars, UInv, LogOK, QueueOK
  <2> QED
    BY <1>1, <2>1, ServerUInv DEF vars, clientVars
<1> QED
  BY <1>1, ServerStepsUInv, StartUInv, EndsUInv, TakeUInv, CountUInv, FinishUInv,
     ChannelUInv, DifferenceUInv DEF Next, LoopSteps

LEMMA UInvAlways == Spec => []UInv
BY InitUInv, NextUInv, PTL DEF Spec

(***************************************************************************)
(* The engine's fields, the loop and the queue hold what they should at    *)
(* every await, for every size of the queue.                               *)
(***************************************************************************)
THEOREM UpdatesTypeCorrect == Spec => []TypeOK
<1>1. UInv => TypeOK
  <2> SUFFICES ASSUME UInv PROVE TypeOK
    OBVIOUS
  <2>1. acc # {} => phase \in {"channel", "counting", "common", "resetting"}
    BY DEF UInv, LoopOK, Phases
  <2>2. page # {} => phase = "channel"
    BY DEF UInv, LoopOK
  <2> QED
    BY <2>1, <2>2 DEF UInv, LogOK, QueueOK, LoopOK, TypeOK
<1> QED
  BY <1>1, UInvAlways, PTL

(***************************************************************************)
(* What the account's numbers stand for was put to the subscriber's queue, *)
(* full or not, or is on its way there: a number moves only by the next    *)
(* event, by a difference that holds what is between, or by a getState.    *)
(***************************************************************************)
THEOREM NothingSkippedCorrect == Spec => []NothingSkipped
BY UInvAlways, PTL DEF UInv

(***************************************************************************)
(* The numbers in the file never run ahead of what was put to the          *)
(* subscriber's queue, wherever the loop is stopped, dies or the process   *)
(* ends.                                                                   *)
(***************************************************************************)
THEOREM SavedIsHandedCorrect == Spec => []SavedIsHanded
BY UInvAlways, PTL DEF UInv

(***************************************************************************)
(* What a channel's number stands for was put to the subscriber's queue,   *)
(* is on its way, was skipped by the server or was given up by apply().    *)
(***************************************************************************)
THEOREM ChannelsCountedCorrect == Spec => []ChannelsCounted
BY UInvAlways, PTL DEF UInv

=============================================================================
