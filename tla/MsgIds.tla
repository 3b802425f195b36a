------------------------------- MODULE MsgIds -------------------------------
(***************************************************************************)
(* The stamping of outgoing MTProto messages: MsgIdGenerator (core/        *)
(* msg_id.py) hands out message ids, MtprotoState.next_seq_no (core/       *)
(* state.py) the sequence numbers, and the sender takes one of each for    *)
(* every encrypted message without awaiting in between                     *)
(* (rpc/sender.py, _send_new_attempt and _send_ack).  The key exchange     *)
(* takes ids alone, its messages being unencrypted.                        *)
(*                                                                         *)
(* The wall clock is an input: each call reads any value of Clocks, so it  *)
(* may stand still or be set back between two calls.  Ids of the server    *)
(* are signed 64-bit values, negative ones included.                       *)
(***************************************************************************)
EXTENDS Integers

CONSTANTS
    Clocks,     \* the readings of int(time.time() * 2^32)
    RemoteIds,  \* the ids the server may stamp its messages with
    MaxId       \* bound: no id above it is handed out

ASSUME ClocksAssumption == Clocks \subseteq Nat
ASSUME RemoteIdsAssumption == RemoteIds \subseteq Int
ASSUME MaxIdAssumption == MaxId \in Nat

VARIABLES
    last,     \* MsgIdGenerator._last
    seq,      \* MtprotoState._seq
    stamps,   \* history: the stamps of the encrypted messages
    issued,   \* history: every id handed out
    seen      \* history: every remote id observed

vars == <<last, seq, stamps, issued, seen>>

Stamp == [id : Nat, seqno : Nat, content : BOOLEAN]

(***************************************************************************)
(* x & ~3: the largest multiple of 4 that is not above x, also when x is   *)
(* negative.                                                               *)
(***************************************************************************)
Floor4(x) == x - (x % 4)

\* Variant: an id is only raised when the clock is behind, not when it stands.
NextIdUnbumped(now, l) == IF Floor4(now) < l THEN l + 4 ELSE Floor4(now)

\* The id next() returns when the clock reads now and _last is l.
NextId(now, l) == IF Floor4(now) <= l THEN l + 4 ELSE Floor4(now)

\* Variant: the last remote id is believed, a smaller or negative one too.
ObservedBlindly(r, l) == Floor4(r)

\* Variant: the ids of the server are not looked at.
ObservedNever(r, l) == l

\* _last after observe(r).
Observed(r, l) == IF Floor4(r) > l THEN Floor4(r) ELSE l

\* Variant: acks take the odd numbers.
SeqNoSwapped(n, content) == IF content THEN 2 * n ELSE 2 * n + 1

\* The sequence number of a message when n content-related ones precede it.
SeqNo(n, content) == IF content THEN 2 * n + 1 ELSE 2 * n

-----------------------------------------------------------------------------
Init ==
    /\ last = 0
    /\ seq = 0
    /\ stamps = {}
    /\ issued = {}
    /\ seen = {}

Observe(r) ==
    /\ last' = Observed(r, last)
    /\ seen' = seen \cup {r}
    /\ UNCHANGED <<seq, stamps, issued>>

\* next() for an unencrypted message of the key exchange.
StampPlain(now) ==
    /\ NextId(now, last) <= MaxId
    /\ last' = NextId(now, last)
    /\ issued' = issued \cup {NextId(now, last)}
    /\ UNCHANGED <<seq, stamps, seen>>

\* next() and next_seq_no() for one encrypted message.
StampEncrypted(now, content) ==
    /\ NextId(now, last) <= MaxId
    /\ last' = NextId(now, last)
    /\ issued' = issued \cup {NextId(now, last)}
    /\ stamps' = stamps \cup {[id |-> NextId(now, last),
                               seqno |-> SeqNo(seq, content),
                               content |-> content]}
    /\ seq' = IF content THEN seq + 1 ELSE seq
    /\ UNCHANGED seen

Next ==
    \/ \E r \in RemoteIds : Observe(r)
    \/ \E now \in Clocks : StampPlain(now)
    \/ \E now \in Clocks, content \in BOOLEAN : StampEncrypted(now, content)

Spec == Init /\ [][Next]_vars

-----------------------------------------------------------------------------
(***************************************************************************)
(* The state is well-typed: the generator's value stays a non-negative     *)
(* number whatever the clock and the server's ids are.                     *)
(***************************************************************************)
TypeOK ==
    /\ last \in Nat
    /\ seq \in Nat
    /\ stamps \subseteq Stamp
    /\ issued \subseteq Nat
    /\ seen \subseteq RemoteIds

(***************************************************************************)
(* Every step that is not an observation takes a new id from the           *)
(* generator, and that id is above every id issued before and above every  *)
(* id the client has seen the server use, also when the clock stands still *)
(* or is behind (MsgIdGenerator.next after any observe and next calls).    *)
(***************************************************************************)
FreshIds ==
    [][seen' = seen => /\ last' \in issued'
                       /\ \A i \in issued \cup seen : last' > i]_vars

(***************************************************************************)
(* Sequence numbers follow the ids (next_seq_no next to msg_id_gen.next):  *)
(* a later message never carries a smaller number, and a message after a   *)
(* content-related one carries a larger one.                               *)
(***************************************************************************)
SeqNosFollowIds ==
    \A a, b \in stamps :
        a.id < b.id => /\ a.seqno <= b.seqno
                       /\ a.content => a.seqno < b.seqno

(***************************************************************************)
(* One id is the id of one message: two stamps with the same id are the    *)
(* same stamp, so the id identifies the request an answer is for.          *)
(***************************************************************************)
IdsIdentifyMessages ==
    \A a, b \in stamps : a.id = b.id => a = b

(***************************************************************************)
(* Every id issued is divisible by 4 and _last is one of them or the floor *)
(* of an id seen: the strengthening the other properties rest on.          *)
(***************************************************************************)
LastIsBound ==
    /\ last % 4 = 0
    /\ \A i \in issued : i <= last /\ i % 4 = 0
    /\ \A r \in seen : Floor4(r) <= last
    /\ \A a \in stamps : a.id \in issued

=============================================================================
