----------------------------- MODULE EntityCache -----------------------------
(***************************************************************************)
(* The client's cache of entities (client/entities.py): access hashes,     *)
(* usernames and phones learnt from every user and channel object that     *)
(* arrives, the tasks that resolve references with it (resolve_peer and    *)
(* prime_entities of client/mtproto.py, client/apis/_utils.py), and its    *)
(* file.  The server moves names and phones between entities meanwhile.    *)
(*                                                                         *)
(* A step runs from one await to the next.  The server answers a request   *)
(* in one step and the task handles the answer in a later one; the updates *)
(* loop ingests its objects between them.                                  *)
(***************************************************************************)
EXTENDS Integers, Sequences, FiniteSets, Functions

CONSTANTS
    UserIds, ChannelIds,  \* ids; a user and a channel may have the same one
    Names,                \* usernames, as normalize_username leaves them
    Phones,               \* phone numbers, as digits
    Tasks,                \* the caller's tasks
    Nobody,               \* the owner of a name or phone that is free
    NoFile,               \* there is no cache file
    MaxMoves,             \* bound: names and phones moved on the server
    MaxUpdates            \* bound: objects that come with updates

ASSUME ConstantsAssumption ==
    /\ UserIds \subseteq Nat /\ ChannelIds \subseteq Nat
    /\ MaxMoves \in Nat /\ MaxUpdates \in Nat

Users == {"user"} \X UserIds
Channels == {"channel"} \X ChannelIds
Peers == Users \cup Channels

ASSUME NobodyAssumption == Nobody \notin Peers

(* normalize_phone keeps a leading "+": the same number has two keys.      *)
PhoneKeys == {"+", "digits"} \X Phones

(* What resolve_peer and the forced resolve_username and resolve_phone are *)
(* given; a "bare" reference is an int.                                    *)
Refs == [by : {"peer"}, it : Peers, force : {FALSE}]
        \cup [by : {"bare"}, it : UserIds \cup ChannelIds, force : {FALSE}]
        \cup [by : {"name"}, it : Names, force : BOOLEAN]
        \cup [by : {"phone"}, it : PhoneKeys, force : BOOLEAN]

VARIABLES
    owner,     \* the server: who has a name
    line,      \* the server: who has a phone
    moves,     \* how often a name or a phone has moved
    updates,   \* objects in updates that have not been applied
    sent,      \* how many of them there have been
    cache,     \* the maps of EntityCache
    file,      \* the cache file, or NoFile
    open,      \* connected
    task,      \* of a task: where it is, the reference and the peer it has
    answer,    \* what the server has answered it, not yet handled
    current,   \* history: the owners of what a task asks since it asked
    ever,      \* history: pairs of a name or phone and an owner it has had
    unsaved    \* history: peers whose hash was learnt since a save or load
serverVars == <<owner, line, moves, ever>>
vars == <<serverVars, updates, sent, cache, file, open, task, answer, current,
          unsaved>>

NoPeer == <<"none", 0>>
NoRef == [by |-> "none", force |-> FALSE]
Idle == [pc |-> "idle", ref |-> NoRef, peer |-> NoPeer]
NoAnswer == <<>>
Empty == [hashes |-> {}, names |-> <<>>, phones |-> <<>>]

Init ==
    /\ owner \in [Names -> Peers \cup {Nobody}]
    /\ line \in [Phones -> Users \cup {Nobody}]
    /\ moves = 0 /\ sent = 0 /\ updates = <<>>
    /\ cache = Empty /\ file = NoFile /\ open = TRUE
    /\ task = [t \in Tasks |-> Idle]
    /\ answer = [t \in Tasks |-> NoAnswer]
    /\ current = [t \in Tasks |-> {}]
    /\ ever = {<<n, owner[n]>> : n \in Names} \cup {<<p, line[p]>> : p \in Phones}
    /\ unsaved = {}

-----------------------------------------------------------------------------
(* The cache.                                                              *)

\* A user or channel object: what the server says of it at this time.
Object(e, hashed) ==
    [peer |-> e, hashed |-> hashed,
     names |-> {n \in Names : owner[n] = e},
     phones |-> {p \in Phones : line[p] = e}]

\* Entries of f, overridden by the constant x on the keys.
Put(f, keys, x) == [k \in DOMAIN f \cup keys |-> IF k \in keys THEN x ELSE f[k]]

\* Variant: names are kept with the id alone, as if all were users'.
IngestAsUser(c, o) ==
    [hashes |-> IF o.hashed THEN c.hashes \cup {o.peer} ELSE c.hashes,
     names |-> Put(c.names, o.names, <<"user", o.peer[2]>>),
     phones |-> Put(c.phones, {"digits"} \X o.phones, o.peer)]

\* Variant: a phone is kept as it came, under no key of normalize_phone.
IngestRawPhone(c, o) ==
    [hashes |-> IF o.hashed THEN c.hashes \cup {o.peer} ELSE c.hashes,
     names |-> Put(c.names, o.names, o.peer),
     phones |-> Put(c.phones, o.phones, o.peer)]

(* ingest_users and ingest_chats: an object without an access hash leaves  *)
(* the known one; the names it has no longer stay where they are.          *)
Ingest(c, o) ==
    [hashes |-> IF o.hashed THEN c.hashes \cup {o.peer} ELSE c.hashes,
     names |-> Put(c.names, o.names, o.peer),
     phones |-> Put(c.phones, {"digits"} \X o.phones, o.peer)]

\* What the cache has for a reference: a set of at most one peer.
Cached(c, ref) ==
    CASE ref.by = "peer" -> {ref.it}
      [] ref.by = "bare" ->
            LET known == {e \in c.hashes : e[2] = ref.it} IN
            IF known \cap Users # {} THEN known \cap Users ELSE known
      [] ref.by = "name" ->
            IF ref.it \in DOMAIN c.names THEN {c.names[ref.it]} ELSE {}
      [] ref.by = "phone" ->
            IF ref.it \in DOMAIN c.phones THEN {c.phones[ref.it]} ELSE {}

\* Variant: the file is written before the objects are ingested.
SaveBefore(c) ==
    \/ file' = cache /\ unsaved' = {}
    \/ file' = file /\ unsaved' = unsaved \cup (c.hashes \ cache.hashes)

(* _persist_entities_cache: skipped within two seconds of the last one     *)
(* unless forced, and a failure is swallowed.  The file is replaced whole. *)
Save(c) ==
    \/ file' = c /\ unsaved' = {}
    \/ file' = file /\ unsaved' = unsaved \cup (c.hashes \ cache.hashes)

-----------------------------------------------------------------------------
(* resolve_input_peer: resolve_peer, then the InputPeer, priming once.     *)

\* Where the task is now, and what it asks the server if it does.
Goto(t, pc, ref, e, owners) ==
    /\ task' = [task EXCEPT ![t] = [pc |-> pc, ref |-> ref, peer |-> e]]
    /\ answer' = [answer EXCEPT ![t] = NoAnswer]
    /\ current' = [current EXCEPT ![t] = owners]
Fail(t) == Goto(t, "idle", NoRef, NoPeer, {})

\* input_peer: the hash of the peer must be known; else prime the cache.
Build(t, c, e) ==
    Goto(t, IF e \in c.hashes THEN "built" ELSE "priming", NoRef, e, {})

NowOwning(ref) ==
    CASE ref.by = "name" -> {owner[ref.it]}
      [] ref.by = "phone" -> {line[ref.it[2]]}
      [] OTHER -> {}

Resolve(t, ref) ==
    LET found == IF ref.force THEN {} ELSE Cached(cache, ref) IN
    /\ task[t].pc \in {"idle", "built"}
    /\ \/ \E e \in found : Build(t, cache, e)
       \/ found = {} /\ ref.by \in {"name", "phone"}
                     /\ Goto(t, "asking", ref, NoPeer, NowOwning(ref))
       \/ found = {} /\ ref.by = "bare" /\ Fail(t)
    /\ UNCHANGED <<serverVars, updates, sent, cache, file, open, unsaved>>

\* contacts.resolveUsername or resolvePhone: the owner and its object.
ServerResolves(t) ==
    /\ task[t].pc = "asking" /\ answer[t] = NoAnswer
    /\ \E e \in NowOwning(task[t].ref) \ {Nobody}, hashed \in BOOLEAN :
          answer' = [answer EXCEPT ![t] = <<Object(e, hashed)>>]
    /\ UNCHANGED <<serverVars, updates, sent, cache, file, open, task, current,
                   unsaved>>

\* messages.getDialogs: the objects of some dialogs.
ServerLists(t) ==
    /\ task[t].pc = "priming" /\ answer[t] = NoAnswer
    /\ \E e \in Peers : answer' = [answer EXCEPT ![t] = <<Object(e, TRUE)>>]
    /\ UNCHANGED <<serverVars, updates, sent, cache, file, open, task, current,
                   unsaved>>

\* Variant: an owner the cache has meanwhile is preferred to the answer's.
ResolvedLate(t) ==
    LET ref == task[t].ref
        c == Ingest(cache, answer[t][1])
    IN
    /\ task[t].pc = "asking" /\ answer[t] # NoAnswer
    /\ cache' = c
    /\ Save(c)
    /\ \E e \in IF Cached(cache, ref) = {} THEN {answer[t][1].peer}
                                         ELSE Cached(cache, ref) :
          Build(t, c, e)
    /\ UNCHANGED <<serverVars, updates, sent, open>>

\* The answer is ingested and kept under the key that was asked for.
Resolved(t) ==
    LET ref == task[t].ref
        o == answer[t][1]
        seen == Ingest(cache, o)
        c == IF ref.by = "name"
             THEN [seen EXCEPT !.names = Put(@, {ref.it}, o.peer)]
             ELSE [seen EXCEPT !.phones = Put(@, {ref.it}, o.peer)]
    IN
    /\ task[t].pc = "asking" /\ answer[t] # NoAnswer
    /\ ref.by = "phone" => o.peer \in Users
    /\ cache' = c
    /\ Save(c)
    /\ Build(t, c, o.peer)
    /\ UNCHANGED <<serverVars, updates, sent, open>>

\* prime_entities, saved by force; then input_peer decides.
Primed(t) ==
    LET c == Ingest(cache, answer[t][1])
        e == task[t].peer
    IN
    /\ task[t].pc = "priming" /\ answer[t] # NoAnswer
    /\ cache' = c
    /\ Save(c)
    /\ IF e \in c.hashes THEN Build(t, c, e) ELSE Fail(t)
    /\ UNCHANGED <<serverVars, updates, sent, open>>

\* An rpc_error, a name nobody has, a timeout.
RequestFails(t) ==
    /\ task[t].pc \in {"asking", "priming"}
    /\ Fail(t)
    /\ UNCHANGED <<serverVars, updates, sent, cache, file, open, unsaved>>

-----------------------------------------------------------------------------
\* The updates loop: the objects of an applied message, in order.
ServerUpdates ==
    /\ sent < MaxUpdates
    /\ sent' = sent + 1
    /\ \E e \in Peers, hashed \in BOOLEAN :
          updates' = Append(updates, Object(e, hashed))
    /\ UNCHANGED <<serverVars, cache, file, open, task, answer, current,
                   unsaved>>

IngestUpdate ==
    LET c == Ingest(cache, Head(updates)) IN
    /\ updates # <<>>
    /\ updates' = Tail(updates)
    /\ cache' = c
    /\ Save(c)
    /\ UNCHANGED <<serverVars, sent, open, task, answer, current>>

\* close() saves before it waits for the updates loop to end.
Close ==
    /\ open
    /\ open' = FALSE
    /\ Save(cache)
    /\ UNCHANGED <<serverVars, updates, sent, cache, task, answer, current>>

\* connect() replaces the cache by the file, if there is one that it can load.
Connect ==
    /\ ~open
    /\ open' = TRUE
    /\ \/ file # NoFile /\ cache' = file /\ unsaved' = {}
       \/ UNCHANGED <<cache, unsaved>>
    /\ UNCHANGED <<serverVars, updates, sent, file, task, answer, current>>

\* The process ends and starts again: the file is all it has.
Restart ==
    /\ open' = FALSE
    /\ cache' = Empty
    /\ task' = [t \in Tasks |-> Idle]
    /\ answer' = [t \in Tasks |-> NoAnswer]
    /\ current' = [t \in Tasks |-> {}]
    /\ updates' = <<>> /\ unsaved' = {}
    /\ UNCHANGED <<serverVars, sent, file>>

\* The server gives a name or a phone to another owner.
Moved(what, it, e) ==
    /\ moves < MaxMoves
    /\ moves' = moves + 1
    /\ ever' = ever \cup {<<it, e>>}
    /\ current' = [t \in Tasks |->
            IF task[t].pc = "asking" /\ task[t].ref.by = what
               /\ (IF what = "name" THEN task[t].ref.it
                                    ELSE task[t].ref.it[2]) = it
            THEN current[t] \cup {e} ELSE current[t]]
    /\ UNCHANGED <<updates, sent, cache, file, open, task, answer, unsaved>>

MoveName(n, e) ==
    owner' = [owner EXCEPT ![n] = e] /\ UNCHANGED line /\ Moved("name", n, e)
MovePhone(p, e) ==
    line' = [line EXCEPT ![p] = e] /\ UNCHANGED owner /\ Moved("phone", p, e)

Next ==
    \/ \E t \in Tasks :
        \/ \E ref \in Refs : Resolve(t, ref)
        \/ ServerResolves(t) \/ ServerLists(t)
        \/ Resolved(t) \/ Primed(t) \/ RequestFails(t)
    \/ ServerUpdates \/ IngestUpdate
    \/ Close \/ Connect \/ Restart
    \/ \E n \in Names, e \in Peers \cup {Nobody} : MoveName(n, e)
    \/ \E p \in Phones, e \in Users \cup {Nobody} : MovePhone(p, e)

Spec == Init /\ [][Next]_vars

-----------------------------------------------------------------------------
IsCache(c) ==
    /\ c.hashes \subseteq Peers
    /\ DOMAIN c.names \subseteq Names /\ Range(c.names) \subseteq Peers
    /\ DOMAIN c.phones \subseteq PhoneKeys /\ Range(c.phones) \subseteq Users

(* Whoever the cache or its file has under a name or a phone has owned it: *)
(* an entry may be stale, it never joins what did not belong together,     *)
(* though ids of users and of channels may be equal; and it is found under *)
(* a key that a look-up can ask for.                                       *)
EntriesWereTrue ==
    \A c \in {cache, file} \ {NoFile} :
        /\ IsCache(c)
        /\ \A n \in DOMAIN c.names : <<n, c.names[n]>> \in ever
        /\ \A k \in DOMAIN c.phones : <<k[2], c.phones[k]>> \in ever

(* A forced look-up returns someone who owned the name or the phone at     *)
(* some time between the question and the answer, whatever updates, moves  *)
(* and other look-ups came between.                                        *)
ForcedIsCurrent ==
    [][\A t \in Tasks :
        task[t].pc = "asking" /\ task[t].ref.force
        => task'[t].peer \in current[t] \cup {NoPeer}]_vars

(* What connect() loses of the known access hashes has been learnt since   *)
(* the last save that succeeded: replacing the cache loses nothing older.  *)
OnlyUnsavedIsLost ==
    [][open' => cache.hashes \ cache'.hashes \subseteq unsaved]_vars
=============================================================================
