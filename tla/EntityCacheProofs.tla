------------------------- MODULE EntityCacheProofs -------------------------
(***************************************************************************)
(* What the cache of entities keeps for every number of ids, names, phones *)
(* and tasks: entries that were true, forced look-ups that return an owner *)
(* of their time, and no loss of what a save has written.                  *)
(*                                                                         *)
(* EntriesWereTrue is not inductive: what is ingested comes from objects   *)
(* the server made earlier, in updates and in answers, and an answer is    *)
(* kept under the key that was asked for.  So the invariant follows the    *)
(* objects on their way: each says of its peer only what has been true     *)
(* (Pushed, Answers), the server's present is a part of what has been (Present), and  *)
(* an answer names somebody who had what was asked for since the question  *)
(* (Asked).  What the file may lack of the cache is Kept.                  *)
(***************************************************************************)
EXTENDS EntityCache, TLAPS

Objects == [peer : Peers, hashed : BOOLEAN,
            names : SUBSET Names, phones : SUBSET Phones]

\* An object says of its peer only what has been true.
TrueObject(o, had) ==
    /\ o \in Objects
    /\ \A n \in o.names : <<n, o.peer>> \in had
    /\ \A p \in o.phones : o.peer \in Users /\ <<p, o.peer>> \in had

\* Whoever a name or a phone is kept for has had it.
TrueNames(f, had) ==
    /\ DOMAIN f \subseteq Names
    /\ \A n \in DOMAIN f : f[n] \in Peers /\ <<n, f[n]>> \in had
TruePhones(f, had) ==
    /\ DOMAIN f \subseteq PhoneKeys
    /\ \A k \in DOMAIN f : f[k] \in Users /\ <<k[2], f[k]>> \in had
TrueCache(c, had) ==
    /\ c.hashes \subseteq Peers
    /\ TrueNames(c.names, had)
    /\ TruePhones(c.phones, had)

Present ==
    /\ owner \in [Names -> Peers \cup {Nobody}]
    /\ line \in [Phones -> Users \cup {Nobody}]
    /\ \A n \in Names : <<n, owner[n]>> \in ever
    /\ \A p \in Phones : <<p, line[p]>> \in ever

Caches == TrueCache(cache, ever) /\ (file = NoFile \/ TrueCache(file, ever))

\* Objects on their way to the cache.
Pushed ==
    /\ updates \in Seq(Objects)
    /\ \A i \in 1..Len(updates) : TrueObject(updates[i], ever)
Answers ==
    /\ answer = [t \in Tasks |-> answer[t]]
    /\ \A t \in Tasks : answer[t] # NoAnswer => TrueObject(answer[t][1], ever)

\* What a reference asks for is a name or a phone, and somebody's now.
Asks(ref) ==
    \/ ref.by = "name" /\ ref.it \in Names
    \/ ref.by = "phone" /\ ref.it \in PhoneKeys
Key(ref) == IF ref.by = "name" THEN ref.it ELSE ref.it[2]
OwnerOf(ref) == IF ref.by = "name" THEN owner[ref.it] ELSE line[ref.it[2]]

\* A task that asks, and the answer it has.
AskedBy(t) ==
    /\ Asks(task[t].ref)
    /\ task[t].peer = NoPeer
    /\ OwnerOf(task[t].ref) \in current[t]
    /\ answer[t] # NoAnswer =>
        /\ answer[t][1].peer \in current[t]
        /\ <<Key(task[t].ref), answer[t][1].peer>> \in ever

Asked ==
    /\ task = [t \in Tasks |-> task[t]]
    /\ current = [t \in Tasks |-> current[t]]
    /\ \A t \in Tasks : task[t].pc = "asking" => AskedBy(t)

Kept == file # NoFile => cache.hashes \ file.hashes \subseteq unsaved

EInv == Present /\ Caches /\ Pushed /\ Answers /\ Asked /\ Kept

-----------------------------------------------------------------------------
(* The operators.                                                          *)

\* What has been true stays so.
LEMMA TrueStays ==
    ASSUME NEW had, NEW more, had \subseteq more
    PROVE  /\ \A o : TrueObject(o, had) => TrueObject(o, more)
           /\ \A c : TrueCache(c, had) => TrueCache(c, more)
BY DEF TrueObject, TrueCache, TrueNames, TruePhones

\* What is put under names that its peer has had keeps the map true.
LEMMA PutNames ==
    ASSUME NEW had, NEW f, TrueNames(f, had), NEW ns \in SUBSET Names, NEW e \in Peers,
           \A n \in ns : <<n, e>> \in had
    PROVE  TrueNames(Put(f, ns, e), had)
BY DEF TrueNames, Put

LEMMA PutPhones ==
    ASSUME NEW had, NEW f, TruePhones(f, had), NEW ks \in SUBSET PhoneKeys, NEW e,
           \A k \in ks : e \in Users /\ <<k[2], e>> \in had
    PROVE  TruePhones(Put(f, ks, e), had)
BY DEF TruePhones, Put

\* What ingesting a true object leaves is true, and it forgets no hash.
LEMMA IngestTrue ==
    ASSUME NEW had, NEW c, TrueCache(c, had), NEW o, TrueObject(o, had)
    PROVE  TrueCache(Ingest(c, o), had) /\ c.hashes \subseteq Ingest(c, o).hashes
<1>1. o.peer \in Peers /\ o.names \in SUBSET Names /\ o.phones \subseteq Phones
  BY DEF TrueObject, Objects
<1>2. /\ Ingest(c, o).hashes \subseteq Peers
      /\ c.hashes \subseteq Ingest(c, o).hashes
  BY <1>1 DEF TrueCache, Ingest
<1>3. TrueNames(Put(c.names, o.names, o.peer), had)
  BY <1>1, PutNames DEF TrueCache, TrueObject
<1> DEFINE ks == {"digits"} \X o.phones
<1>5. ks \in SUBSET PhoneKeys
  BY <1>1 DEF PhoneKeys
<1>6. \A k \in ks : o.peer \in Users /\ <<k[2], o.peer>> \in had
  BY DEF TrueObject
<1>7. TruePhones(Put(c.phones, ks, o.peer), had)
  BY <1>5, <1>6, PutPhones DEF TrueCache
<1>8. /\ Ingest(c, o).names = Put(c.names, o.names, o.peer)
      /\ Ingest(c, o).phones = Put(c.phones, ks, o.peer)
  BY DEF Ingest
<1> QED BY <1>2, <1>3, <1>7, <1>8 DEF TrueCache

\* Whom the server has for what is asked has had it.
LEMMA OwningName ==
    ASSUME NEW ref, ref.by = "name"
    PROVE  NowOwning(ref) = {owner[ref.it]}
BY Zenon DEF NowOwning

LEMMA OwningPhone ==
    ASSUME NEW ref, ref.by = "phone"
    PROVE  NowOwning(ref) = {line[ref.it[2]]}
<1>1. ref.by # "name"
  BY SMT
<1> QED BY <1>1, Zenon DEF NowOwning

LEMMA Owning ==
    ASSUME NEW ref, Asks(ref)
    PROVE  NowOwning(ref) = {OwnerOf(ref)}
BY OwningName, OwningPhone DEF Asks, OwnerOf

LEMMA OwnersHadIt ==
    ASSUME Present, NEW ref, Asks(ref), OwnerOf(ref) # Nobody
    PROVE  OwnerOf(ref) \in Peers /\ <<Key(ref), OwnerOf(ref)>> \in ever
<1>1. CASE ref.by = "name"
  <2>1. ref.it \in Names
    BY <1>1 DEF Asks
  <2> QED BY <1>1, <2>1 DEF Present, OwnerOf, Key
<1>2. CASE ref.by = "phone"
  <2>1. ref.it[2] \in Phones
    BY <1>2 DEF Asks, PhoneKeys
  <2> QED BY <1>2, <2>1 DEF Present, Peers, OwnerOf, Key
<1> QED BY <1>1, <1>2 DEF Asks

\* What the server says of a peer is true.
LEMMA ObjectTrue ==
    ASSUME Present, NEW e \in Peers, NEW hashed \in BOOLEAN
    PROVE  TrueObject(Object(e, hashed), ever)
<1> DEFINE o == Object(e, hashed)
<1>1. /\ o.peer = e /\ o.names = {n \in Names : owner[n] = e}
      /\ o.phones = {p \in Phones : line[p] = e}
  BY DEF Object
<1>2. o \in Objects
  BY DEF Object, Objects
<1> HIDE DEF o
<1>3. \A n \in o.names : <<n, o.peer>> \in ever
  BY <1>1 DEF Present
<1>4. \A p \in o.phones : o.peer \in Users /\ <<p, o.peer>> \in ever
  BY <1>1, NobodyAssumption DEF Present
<1>5. TrueObject(o, ever)
  BY <1>2, <1>3, <1>4 DEF TrueObject
<1> QED BY <1>5 DEF o

-----------------------------------------------------------------------------
(* The steps.                                                              *)

LEMMA InitEInv == Init => EInv
<1> SUFFICES ASSUME Init PROVE EInv
  OBVIOUS
<1>1. Present
  BY DEF Init, Present
<1>2. Caches
  BY DEF Init, Caches, TrueCache, TrueNames, TruePhones, Empty
<1>3. Pushed /\ Answers
  BY DEF Init, Pushed, Answers
<1>4. Asked
  BY DEF Init, Asked, Idle
<1>5. Kept
  BY DEF Init, Kept
<1> QED BY <1>1, <1>2, <1>3, <1>4, <1>5 DEF EInv

\* A cache that has grown by true entries, saved or not.
LEMMA SaveKeeps ==
    ASSUME EInv, NEW c, TrueCache(c, ever), cache.hashes \subseteq c.hashes,
           cache' = c, Save(c), ever' = ever
    PROVE  Caches' /\ Kept'
<1>1. CASE file' = c /\ unsaved' = {}
  BY <1>1 DEF Caches, Kept
<1>2. CASE file' = file /\ unsaved' = unsaved \cup (c.hashes \ cache.hashes)
  BY <1>2 DEF EInv, Caches, Kept
<1> QED BY <1>1, <1>2 DEF Save

\* A task goes on: its answer has been handled, a question is a new one.
LEMMA GotoKeeps ==
    ASSUME EInv, NEW t \in Tasks, NEW pc, NEW ref, NEW e, NEW owners,
           Goto(t, pc, ref, e, owners), UNCHANGED serverVars,
           pc = "asking" => Asks(ref) /\ e = NoPeer /\ OwnerOf(ref) \in owners
    PROVE  Answers' /\ Asked'
<1> USE DEF serverVars
<1>1. /\ task' = [u \in Tasks |-> task'[u]]
      /\ answer' = [u \in Tasks |-> answer'[u]]
      /\ current' = [u \in Tasks |-> current'[u]]
      /\ task'[t] = [pc |-> pc, ref |-> ref, peer |-> e]
      /\ answer'[t] = NoAnswer /\ current'[t] = owners
      /\ \A u \in Tasks \ {t} :
            /\ task'[u] = task[u] /\ answer'[u] = answer[u]
            /\ current'[u] = current[u]
  BY DEF EInv, Answers, Asked, Goto
<1>2. Answers'
  BY <1>1 DEF EInv, Answers
<1>3. ASSUME NEW u \in Tasks, task'[u].pc = "asking" PROVE AskedBy(u)'
  <2>1. CASE u = t
    BY <2>1, <1>1, <1>3 DEF AskedBy, OwnerOf
  <2>2. CASE u # t
    BY <2>2, <1>1, <1>3 DEF AskedBy, OwnerOf, EInv, Asked
  <2> QED BY <2>1, <2>2
<1> QED BY <1>1, <1>2, <1>3 DEF Asked

LEMMA ResolveKeeps ==
    ASSUME EInv, NEW t \in Tasks, NEW ref \in Refs, Resolve(t, ref)
    PROVE  EInv'
<1>1. UNCHANGED <<serverVars, updates, cache, file, unsaved>>
  BY DEF Resolve
<1>2. Answers' /\ Asked'
  <2>1. CASE \E e : Build(t, cache, e)
    BY <2>1, <1>1, GotoKeeps DEF Build
  <2>2. CASE /\ ref.by \in {"name", "phone"}
             /\ Goto(t, "asking", ref, NoPeer, NowOwning(ref))
    <3>1. Asks(ref)
      BY <2>2 DEF Refs, Asks
    <3> QED BY <3>1, <2>2, <1>1, Owning, GotoKeeps
  <2>3. CASE Fail(t)
    BY <2>3, <1>1, GotoKeeps DEF Fail
  <2> QED BY <2>1, <2>2, <2>3 DEF Resolve
<1> QED BY <1>1, <1>2 DEF EInv, Present, Caches, Pushed, Kept, serverVars

LEMMA ServerResolvesKeeps ==
    ASSUME EInv, NEW t \in Tasks, ServerResolves(t)
    PROVE  EInv'
<1> DEFINE ref == task[t].ref
<1>1. /\ UNCHANGED <<serverVars, updates, cache, file, task, current, unsaved>>
      /\ task[t].pc = "asking"
  BY DEF ServerResolves
<1>2. AskedBy(t)
  BY <1>1 DEF EInv, Asked
<1>3. PICK e \in NowOwning(ref) \ {Nobody}, hashed \in BOOLEAN :
         answer' = [answer EXCEPT ![t] = <<Object(e, hashed)>>]
  BY DEF ServerResolves
<1>4. /\ e \in Peers /\ e = OwnerOf(ref) /\ e \in current[t]
      /\ <<Key(ref), e>> \in ever
  BY <1>2, <1>3, Owning, OwnersHadIt DEF EInv, AskedBy
<1> DEFINE o == Object(e, hashed)
<1>5. TrueObject(o, ever) /\ o.peer = e
  BY <1>4, ObjectTrue DEF EInv, Object
<1> HIDE DEF o
<1>6. /\ answer' = [u \in Tasks |-> answer'[u]]
      /\ answer'[t] = <<o>> /\ answer'[t][1] = o
      /\ \A u \in Tasks \ {t} : answer'[u] = answer[u]
  BY <1>3 DEF EInv, Answers, o
<1>7. Answers'
  BY <1>1, <1>5, <1>6 DEF EInv, Answers, serverVars
<1>8. ASSUME NEW u \in Tasks, task'[u].pc = "asking" PROVE AskedBy(u)'
  <2>1. CASE u = t
    <3> HIDE DEF ref
    <3>1. answer'[u][1].peer = e
      BY <2>1, <1>5, <1>6
    <3> QED BY <2>1, <3>1, <1>1, <1>2, <1>4
            DEF AskedBy, OwnerOf, Key, serverVars, ref
  <2>2. CASE u # t
    BY <2>2, <1>1, <1>6, <1>8 DEF AskedBy, OwnerOf, EInv, Asked, serverVars
  <2> QED BY <2>1, <2>2
<1>9. Asked'
  BY <1>1, <1>8 DEF EInv, Asked
<1> QED BY <1>1, <1>7, <1>9 DEF EInv, Present, Caches, Pushed, Kept, serverVars

LEMMA ServerListsKeeps ==
    ASSUME EInv, NEW t \in Tasks, ServerLists(t)
    PROVE  EInv'
<1>1. /\ UNCHANGED <<serverVars, updates, cache, file, task, current, unsaved>>
      /\ task[t].pc = "priming"
  BY DEF ServerLists
<1>2. PICK e \in Peers : answer' = [answer EXCEPT ![t] = <<Object(e, TRUE)>>]
  BY DEF ServerLists
<1> DEFINE o == Object(e, TRUE)
<1>3. TrueObject(o, ever)
  BY ObjectTrue DEF EInv
<1> HIDE DEF o
<1>4. /\ answer' = [u \in Tasks |-> answer'[u]]
      /\ answer'[t] = <<o>> /\ answer'[t][1] = o
      /\ \A u \in Tasks \ {t} : answer'[u] = answer[u]
  BY <1>2 DEF EInv, Answers, o
<1>5. Answers'
  BY <1>1, <1>3, <1>4 DEF EInv, Answers, serverVars
<1>6. ASSUME NEW u \in Tasks, task'[u].pc = "asking" PROVE AskedBy(u)'
  <2>1. u # t /\ task[u].pc = "asking"
    BY <1>1, <1>6
  <2> QED BY <2>1, <1>1, <1>4 DEF AskedBy, OwnerOf, EInv, Asked, serverVars
<1>7. Asked'
  BY <1>1, <1>6 DEF EInv, Asked
<1> QED BY <1>1, <1>5, <1>7 DEF EInv, Present, Caches, Pushed, Kept, serverVars

\* The answer that a task which asks has ingested.
LEMMA ResolvedKeeps ==
    ASSUME EInv, NEW t \in Tasks, Resolved(t)
    PROVE  EInv' /\ task'[t].peer \in current[t]
<1> DEFINE ref == task[t].ref
           o == answer[t][1]
           seen == Ingest(cache, o)
           named == [seen EXCEPT !.names = Put(@, {ref.it}, o.peer)]
           phoned == [seen EXCEPT !.phones = Put(@, {ref.it}, o.peer)]
           c == IF ref.by = "name" THEN named ELSE phoned
<1>1. /\ task[t].pc = "asking" /\ answer[t] # NoAnswer
      /\ ref.by = "phone" => o.peer \in Users
      /\ cache' = c /\ Save(c) /\ Build(t, c, o.peer)
      /\ UNCHANGED <<serverVars, updates>>
  BY DEF Resolved
<1>2. AskedBy(t) /\ TrueObject(o, ever)
  BY <1>1 DEF EInv, Asked, Answers
<1>3. /\ Asks(ref) /\ o.peer \in Peers /\ o.peer \in current[t]
      /\ <<Key(ref), o.peer>> \in ever
  BY <1>1, <1>2 DEF AskedBy, TrueObject, Objects
<1>4. TrueCache(seen, ever) /\ cache.hashes \subseteq seen.hashes
  BY <1>2, IngestTrue DEF EInv, Caches
<1>5. TrueCache(c, ever) /\ cache.hashes \subseteq c.hashes
  <2>1. CASE ref.by = "name"
    <3>1. /\ named.hashes = seen.hashes /\ named.phones = seen.phones
          /\ named.names = Put(seen.names, {ref.it}, o.peer)
      BY DEF Ingest
    <3>2. ref.it \in Names /\ <<ref.it, o.peer>> \in ever
      BY <2>1, <1>3 DEF Asks, Key
    <3>3. TrueNames(named.names, ever)
      BY <3>1, <3>2, <1>3, <1>4, PutNames DEF TrueCache
    <3>4. TrueCache(named, ever)
      BY <3>1, <3>3, <1>4 DEF TrueCache
    <3> QED BY <2>1, <3>1, <3>4, <1>4
  <2>2. CASE ref.by = "phone"
    <3>1. /\ phoned.hashes = seen.hashes /\ phoned.names = seen.names
          /\ phoned.phones = Put(seen.phones, {ref.it}, o.peer)
      BY DEF Ingest
    <3>2. /\ ref.it \in PhoneKeys /\ <<ref.it[2], o.peer>> \in ever
          /\ o.peer \in Users
      BY <2>2, <1>1, <1>3 DEF Asks, Key
    <3>3. TruePhones(phoned.phones, ever)
      BY <3>1, <3>2, <1>4, PutPhones DEF TrueCache
    <3>4. TrueCache(phoned, ever)
      BY <3>1, <3>3, <1>4 DEF TrueCache
    <3> QED BY <2>2, <3>1, <3>4, <1>4
  <2> QED BY <2>1, <2>2, <1>3 DEF Asks
<1> HIDE DEF c, ref, o
<1>6. ever' = ever
  BY <1>1 DEF serverVars
<1>7. Caches' /\ Kept'
  BY <1>1, <1>5, <1>6, SaveKeeps
<1>8. Answers' /\ Asked'
  BY <1>1, GotoKeeps DEF Build
<1>9. task'[t].peer \in current[t]
  BY <1>1, <1>3 DEF Build, Goto, EInv, Asked
<1> QED BY <1>1, <1>7, <1>8, <1>9 DEF EInv, Present, Pushed, serverVars

LEMMA PrimedKeeps ==
    ASSUME EInv, NEW t \in Tasks, Primed(t)
    PROVE  EInv'
<1> DEFINE c == Ingest(cache, answer[t][1])
           e == task[t].peer
<1>1. /\ answer[t] # NoAnswer
      /\ cache' = c /\ Save(c) /\ (Build(t, c, e) \/ Fail(t))
      /\ UNCHANGED <<serverVars, updates>>
  BY DEF Primed
<1>2. TrueObject(answer[t][1], ever)
  BY <1>1 DEF EInv, Answers
<1>3. TrueCache(c, ever) /\ cache.hashes \subseteq c.hashes
  BY <1>2, IngestTrue DEF EInv, Caches
<1> HIDE DEF c, e
<1>4. ever' = ever
  BY <1>1 DEF serverVars
<1>5. Caches' /\ Kept'
  BY <1>1, <1>3, <1>4, SaveKeeps
<1>6. Answers' /\ Asked'
  BY <1>1, GotoKeeps DEF Build, Fail
<1> QED BY <1>1, <1>5, <1>6 DEF EInv, Present, Pushed, serverVars

LEMMA RequestFailsKeeps ==
    ASSUME EInv, NEW t \in Tasks, RequestFails(t)
    PROVE  EInv' /\ task'[t].peer = NoPeer
<1>1. Fail(t) /\ UNCHANGED <<serverVars, updates, cache, file, unsaved>>
  BY DEF RequestFails
<1>2. Answers' /\ Asked'
  BY <1>1, GotoKeeps DEF Fail
<1>3. task'[t].peer = NoPeer
  BY <1>1 DEF Fail, Goto, EInv, Asked
<1> QED BY <1>1, <1>2, <1>3
        DEF EInv, Present, Caches, Pushed, Kept, serverVars

LEMMA ServerUpdatesKeeps ==
    ASSUME EInv, ServerUpdates
    PROVE  EInv'
<1>1. UNCHANGED <<serverVars, cache, file, task, answer, current, unsaved>>
  BY DEF ServerUpdates
<1>2. PICK e \in Peers, hashed \in BOOLEAN :
         updates' = Append(updates, Object(e, hashed))
  BY DEF ServerUpdates
<1> DEFINE o == Object(e, hashed)
<1>3. TrueObject(o, ever)
  BY ObjectTrue DEF EInv
<1>4. o \in Objects /\ updates' = Append(updates, o)
  BY <1>2, <1>3 DEF TrueObject
<1> HIDE DEF o
<1>5. /\ updates' \in Seq(Objects) /\ Len(updates') = Len(updates) + 1
      /\ \A i \in 1..Len(updates') :
            updates'[i] = IF i <= Len(updates) THEN updates[i] ELSE o
  BY <1>4 DEF EInv, Pushed
<1>6. Pushed'
  BY <1>1, <1>3, <1>5 DEF EInv, Pushed, serverVars
<1> QED BY <1>1, <1>6 DEF EInv, Present, Caches, Answers, Asked, AskedBy,
                          OwnerOf, Kept, serverVars

LEMMA IngestUpdateKeeps ==
    ASSUME EInv, IngestUpdate
    PROVE  EInv' /\ cache.hashes \subseteq cache'.hashes
<1> DEFINE o == Head(updates)
           c == Ingest(cache, o)
<1>1. /\ updates # <<>> /\ updates' = Tail(updates)
      /\ cache' = c /\ Save(c)
      /\ UNCHANGED <<serverVars, task, answer, current>>
  BY DEF IngestUpdate
<1>2. /\ Len(updates) \in Nat /\ 1 \in 1..Len(updates) /\ o = updates[1]
      /\ updates' \in Seq(Objects) /\ Len(updates') = Len(updates) - 1
      /\ \A i \in 1..Len(updates') :
            i + 1 \in 1..Len(updates) /\ updates'[i] = updates[i + 1]
  BY <1>1 DEF EInv, Pushed
<1>3. TrueObject(o, ever)
  BY <1>2 DEF EInv, Pushed
<1>4. TrueCache(c, ever) /\ cache.hashes \subseteq c.hashes
  BY <1>3, IngestTrue DEF EInv, Caches
<1> HIDE DEF c, o
<1>5. ever' = ever
  BY <1>1 DEF serverVars
<1>6. Caches' /\ Kept'
  BY <1>1, <1>4, <1>5, SaveKeeps
<1>7. Pushed'
  BY <1>2, <1>5 DEF EInv, Pushed
<1> QED BY <1>1, <1>4, <1>6, <1>7 DEF EInv, Present, Answers, Asked, AskedBy,
                                OwnerOf, serverVars

LEMMA CloseKeeps ==
    ASSUME EInv, Close
    PROVE  EInv'
<1>1. /\ Save(cache)
      /\ UNCHANGED <<serverVars, updates, cache, task, answer, current>>
  BY DEF Close
<1>2. Caches' /\ Kept'
  BY <1>1, SaveKeeps DEF EInv, Caches, serverVars
<1> QED BY <1>1, <1>2 DEF EInv, Present, Pushed, Answers, Asked, AskedBy,
                          OwnerOf, serverVars

LEMMA ConnectKeeps ==
    ASSUME EInv, Connect
    PROVE  EInv' /\ cache.hashes \ cache'.hashes \subseteq unsaved
BY DEF EInv, Connect, Present, Caches, Pushed, Answers, Asked, AskedBy,
       OwnerOf, Kept, serverVars

LEMMA RestartKeeps ==
    ASSUME EInv, Restart
    PROVE  EInv' /\ \A t \in Tasks : task'[t].peer = NoPeer
<1>1. Caches' /\ Kept'
  BY DEF EInv, Restart, Caches, Kept, Empty, TrueCache, TrueNames,
         TruePhones, serverVars
<1>2. Pushed' /\ Answers'
  BY DEF Restart, Pushed, Answers
<1>3. Asked' /\ \A t \in Tasks : task'[t].peer = NoPeer
  BY DEF Restart, Asked, Idle
<1> QED BY <1>1, <1>2, <1>3 DEF EInv, Present, Restart, serverVars

\* The server moves a name or a phone: the past grows, and with it what the
\* tasks that ask for it may be told.
LEMMA MovedKeeps ==
    ASSUME EInv, NEW what, NEW it, NEW e, Moved(what, it, e), Present',
           \A t \in Tasks : task[t].pc = "asking" =>
              \/ OwnerOf(task[t].ref)' = OwnerOf(task[t].ref)
              \/ /\ task[t].ref.by = what /\ OwnerOf(task[t].ref)' = e
                 /\ (IF what = "name" THEN task[t].ref.it
                                      ELSE task[t].ref.it[2]) = it
    PROVE  EInv'
<1>1. /\ ever \subseteq ever'
      /\ UNCHANGED <<updates, cache, file, task, answer, unsaved>>
  BY DEF Moved
<1>2. /\ current' = [t \in Tasks |-> current'[t]]
      /\ \A t \in Tasks : current[t] \subseteq current'[t]
  BY DEF Moved
<1>3. \A t \in Tasks :
         /\ task[t].pc = "asking" /\ task[t].ref.by = what
         /\ (IF what = "name" THEN task[t].ref.it ELSE task[t].ref.it[2]) = it
         => e \in current'[t]
  BY DEF Moved
<1>4. Caches' /\ Pushed' /\ Answers'
  BY <1>1, TrueStays DEF EInv, Caches, Pushed, Answers
<1>5. ASSUME NEW t \in Tasks, task'[t].pc = "asking" PROVE AskedBy(t)'
  <2>1. AskedBy(t)
    BY <1>1, <1>5 DEF EInv, Asked
  <2>2. OwnerOf(task[t].ref)' \in current'[t]
    BY <2>1, <1>1, <1>2, <1>3, <1>5 DEF AskedBy
  <2> QED BY <2>1, <2>2, <1>1, <1>2 DEF AskedBy
<1>6. Asked'
  BY <1>1, <1>2, <1>5 DEF EInv, Asked
<1> QED BY <1>1, <1>4, <1>6 DEF EInv, Kept

LEMMA MoveNameKeeps ==
    ASSUME EInv, NEW n \in Names, NEW e \in Peers \cup {Nobody}, MoveName(n, e)
    PROVE  EInv'
<1>1. /\ owner' = [owner EXCEPT ![n] = e] /\ line' = line
      /\ Moved("name", n, e) /\ task' = task
      /\ ever' = ever \cup {<<n, e>>}
  BY DEF MoveName, Moved
<1>2. Present'
  BY <1>1 DEF EInv, Present
<1>3. ASSUME NEW t \in Tasks, task[t].pc = "asking"
      PROVE  \/ OwnerOf(task[t].ref)' = OwnerOf(task[t].ref)
             \/ /\ task[t].ref.by = "name" /\ OwnerOf(task[t].ref)' = e
                /\ task[t].ref.it = n
  <2>1. Asks(task[t].ref)
    BY <1>3 DEF EInv, Asked, AskedBy
  <2> QED BY <2>1, <1>1 DEF Asks, OwnerOf, EInv, Present
<1> QED BY <1>1, <1>2, <1>3, MovedKeeps

LEMMA MovePhoneKeeps ==
    ASSUME EInv, NEW p \in Phones, NEW e \in Users \cup {Nobody}, MovePhone(p, e)
    PROVE  EInv'
<1>1. /\ line' = [line EXCEPT ![p] = e] /\ owner' = owner
      /\ Moved("phone", p, e) /\ task' = task
      /\ ever' = ever \cup {<<p, e>>}
  BY DEF MovePhone, Moved
<1>2. Present'
  BY <1>1 DEF EInv, Present
<1>3. ASSUME NEW t \in Tasks, task[t].pc = "asking"
      PROVE  \/ OwnerOf(task[t].ref)' = OwnerOf(task[t].ref)
             \/ /\ task[t].ref.by = "phone" /\ OwnerOf(task[t].ref)' = e
                /\ task[t].ref.it[2] = p
  <2>1. Asks(task[t].ref)
    BY <1>3 DEF EInv, Asked, AskedBy
  <2>2. task[t].ref.by = "phone" => task[t].ref.it[2] \in Phones
    BY <2>1 DEF Asks, PhoneKeys
  <2> QED BY <2>1, <2>2, <1>1 DEF Asks, OwnerOf, EInv, Present
<1> QED BY <1>1, <1>2, <1>3, MovedKeeps

-----------------------------------------------------------------------------
(* The theorems.                                                           *)

LEMMA StepEInv ==
    ASSUME EInv, [Next]_vars
    PROVE  EInv'
<1>1. ASSUME NEW t \in Tasks, NEW ref \in Refs, Resolve(t, ref) PROVE EInv'
  BY <1>1, ResolveKeeps
<1>2. ASSUME NEW t \in Tasks,
             \/ ServerResolves(t) \/ ServerLists(t) \/ Resolved(t)
             \/ Primed(t) \/ RequestFails(t)
      PROVE  EInv'
  BY <1>2, ServerResolvesKeeps, ServerListsKeeps, ResolvedKeeps, PrimedKeeps,
     RequestFailsKeeps
<1>3. CASE ServerUpdates \/ IngestUpdate \/ Close \/ Connect \/ Restart
  BY <1>3, ServerUpdatesKeeps, IngestUpdateKeeps, CloseKeeps, ConnectKeeps,
     RestartKeeps
<1>4. ASSUME NEW n \in Names, NEW e \in Peers \cup {Nobody}, MoveName(n, e)
      PROVE  EInv'
  BY <1>4, MoveNameKeeps
<1>5. ASSUME NEW p \in Phones, NEW e \in Users \cup {Nobody}, MovePhone(p, e)
      PROVE  EInv'
  BY <1>5, MovePhoneKeeps
<1>6. CASE UNCHANGED vars
  BY <1>6 DEF EInv, Present, Caches, Pushed, Answers, Asked, AskedBy, OwnerOf,
              Kept, vars, serverVars
<1> QED BY <1>1, <1>2, <1>3, <1>4, <1>5, <1>6 DEF Next

LEMMA EInvAlways == Spec => []EInv
<1>1. EInv /\ [Next]_vars => EInv'
  BY StepEInv
<1> QED BY InitEInv, <1>1, PTL DEF Spec

(* Whoever the cache or its file has under a name or a phone has owned it, *)
(* for all ids, names, phones and tasks: ingest_users, ingest_chats and    *)
(* the resolvers never join what did not belong together.                  *)
THEOREM EntriesCorrect == Spec => []EntriesWereTrue
<1>1. EInv => EntriesWereTrue
  <2>1. ASSUME NEW c, TrueCache(c, ever)
        PROVE  /\ IsCache(c)
               /\ \A n \in DOMAIN c.names : <<n, c.names[n]>> \in ever
               /\ \A k \in DOMAIN c.phones : <<k[2], c.phones[k]>> \in ever
    BY <2>1 DEF TrueCache, TrueNames, TruePhones, IsCache, Range
  <2>2. ASSUME EInv, NEW c \in {cache, file} \ {NoFile} PROVE TrueCache(c, ever)
    BY <2>2 DEF EInv, Caches
  <2> QED BY <2>1, <2>2 DEF EntriesWereTrue
<1> QED BY EInvAlways, <1>1, PTL

(* A forced look-up returns an owner of the time between its question and  *)
(* its answer: what updates and other tasks put into the cache meanwhile   *)
(* is not what it goes by.                                                 *)
THEOREM ForcedCorrect == Spec => ForcedIsCurrent
<1> DEFINE Forced ==
       \A t \in Tasks : task[t].pc = "asking" /\ task[t].ref.force
          => task'[t].peer \in current[t] \cup {NoPeer}
<1>1. ASSUME EInv, Next PROVE Forced
  <2> SUFFICES ASSUME NEW t \in Tasks, task[t].pc = "asking"
               PROVE  task'[t].peer \in current[t] \cup {NoPeer}
    OBVIOUS
  <2>1. task[t].peer = NoPeer
    BY <1>1 DEF EInv, Asked, AskedBy
  <2>2. task' = task => task'[t].peer = NoPeer
    BY <2>1
  <2>3. ASSUME NEW u \in Tasks, NEW pc, NEW ref, NEW e, NEW owners,
               Goto(u, pc, ref, e, owners), task[u].pc # "asking"
        PROVE  task'[t].peer = NoPeer
    BY <2>1, <2>3, <1>1 DEF EInv, Asked, Goto
  <2>4. ASSUME NEW u \in Tasks, NEW ref \in Refs, Resolve(u, ref)
        PROVE  task'[t].peer = NoPeer
    <3>1. task[u].pc # "asking"
      BY <2>4 DEF Resolve
    <3>2. \E pc, r, e, owners : Goto(u, pc, r, e, owners)
      BY <2>4 DEF Resolve, Build, Fail
    <3> QED BY <3>1, <3>2, <2>3
  <2>5. ASSUME NEW u \in Tasks, Primed(u) PROVE task'[t].peer = NoPeer
    <3>1. task[u].pc # "asking"
      BY <2>5 DEF Primed
    <3>2. \E pc, r, e, owners : Goto(u, pc, r, e, owners)
      BY <2>5 DEF Primed, Build, Fail
    <3> QED BY <3>1, <3>2, <2>3
  <2>6. ASSUME NEW u \in Tasks, Resolved(u) \/ RequestFails(u)
        PROVE  task'[t].peer \in current[t] \cup {NoPeer}
    <3>1. CASE u = t
      BY <3>1, <2>6, <1>1, ResolvedKeeps, RequestFailsKeeps
    <3>2. CASE u # t
      BY <3>2, <2>1, <2>6, <1>1
         DEF Resolved, RequestFails, Build, Fail, Goto, EInv, Asked
    <3> QED BY <3>1, <3>2
  <2>7. CASE Restart
    BY <2>7, <1>1, RestartKeeps
  <2> QED BY <1>1, <2>2, <2>4, <2>5, <2>6, <2>7
          DEF Next, ServerResolves, ServerLists, ServerUpdates, IngestUpdate,
              Close, Connect, MoveName, MovePhone, Moved
<1>2. EInv /\ [Next]_vars => [Forced]_vars
  BY <1>1
<1> QED BY EInvAlways, <1>2, PTL DEF Spec, ForcedIsCurrent

(* connect() loses no access hash that the last successful save has had:   *)
(* _persist_entities_cache skips and fails, the file is still a cache of   *)
(* everything but what has been learnt since.                              *)
THEOREM LostCorrect == Spec => OnlyUnsavedIsLost
<1> DEFINE Lost == open' => cache.hashes \ cache'.hashes \subseteq unsaved
<1>1. ASSUME EInv, Next PROVE Lost
  <2>1. ASSUME cache.hashes \subseteq cache'.hashes PROVE Lost
    BY <2>1
  <2>2. ASSUME NEW t \in Tasks, Resolved(t)
        PROVE  cache.hashes \subseteq cache'.hashes
    BY <2>2 DEF Resolved, Ingest
  <2>3. ASSUME NEW t \in Tasks, Primed(t)
        PROVE  cache.hashes \subseteq cache'.hashes
    BY <2>3 DEF Primed, Ingest
  <2>4. CASE IngestUpdate
    BY <2>1, <2>4, <1>1, IngestUpdateKeeps
  <2>5. CASE Connect
    BY <2>5, <1>1, ConnectKeeps
  <2>6. CASE Restart
    BY <2>6 DEF Restart
  <2>7. CASE cache' = cache
    BY <2>7
  <2> QED BY <1>1, <2>1, <2>2, <2>3, <2>4, <2>5, <2>6, <2>7
          DEF Next, Resolve, ServerResolves, ServerLists, RequestFails,
              ServerUpdates, Close, MoveName, MovePhone, Moved
<1>2. EInv /\ [Next]_vars => [Lost]_vars
  BY <1>1
<1> QED BY EInvAlways, <1>2, PTL DEF Spec, OnlyUnsavedIsLost

=============================================================================
