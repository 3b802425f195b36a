----------------------------- MODULE RpcSender -----------------------------
(***************************************************************************)
(* MtprotoEncryptedSender (mtproto/rpc/sender.py): the tasks that run      *)
(* invoke_tl, the receiver task they share, the send lock, and the server  *)
(* at the other end of the connection.                                     *)
(*                                                                         *)
(* The program is one asyncio event loop: a step is what one task does     *)
(* between two points where it can be suspended.  Those are the send lock  *)
(* and the transport's drain, the wait for the answer, the flood sleep and *)
(* the read of the next packet.  The receiver handles one message of a     *)
(* packet per step, which adds interleavings and removes none.             *)
(*                                                                         *)
(* TcpTransport.send returns in the event-loop pass that hands the last    *)
(* byte to the socket, before an answer can be read, so the end of a send, *)
(* the arrival of the packet and the registration of the call are one      *)
(* step.                                                                   *)
(***************************************************************************)
EXTENDS Integers, Sequences, FiniteSets, Functions

CONSTANTS
    Calls,         \* the invocations of invoke_tl
    PingCalls,     \* those the server answers with a pong, not an rpc_result
    NoCall,        \* the "call" of a message that carries no request
    MaxFlood,      \* FloodWaitConfig.max_retries; 0 also when not enabled
    QueueSize,     \* maxsize of the incoming queue
    MaxRotations,  \* bound: how often the server changes its salt
    MaxExtra,      \* bound: messages the server sends unasked
    MaxBatch       \* bound: messages in one container

ASSUME CallsAssumption == NoCall \notin Calls /\ PingCalls \subseteq Calls
ASSUME BoundsAssumption ==
    /\ MaxFlood \in Nat /\ QueueSize \in Nat /\ MaxRotations \in Nat
    /\ MaxExtra \in Nat /\ MaxBatch \in Nat \ {0}

VARIABLES
    pc,        \* where the task of a call is
    floods,    \* flood_retries of the call
    fut,       \* the future of the call's current _PendingCall
    ids,       \* msg_ids of that _PendingCall; attempts is their number
    outcome,   \* what invoke_tl returned or raised
    pending,   \* _pending: message id -> call
    sent,      \* _sent: message id -> call (whose bytes it holds)
    lock,      \* the send lock: its holder first, then the waiting tasks
    lastId,    \* the last message id taken (module MsgIds)
    salt,      \* the client's server_salt, as a version number
    reader,    \* where the receiver task is
    batch,     \* messages of the current packet still to be handled
    needAck,   \* whether ack_ids is not empty
    queued,    \* number of messages in the incoming queue
    closed,    \* _closed
    inbound,   \* packets on their way to the client, each a sequence
    atServer,  \* requests the server has received and not decided about
    srvSalt,   \* the salt the server wants now
    extra,     \* how many unasked messages the server may still send
    executed,  \* history: the requests the server has executed
    written    \* history: the highest new id put on the wire

callVars == <<pc, floods, fut, ids, outcome>>
tableVars == <<pending, sent>>
readerVars == <<reader, batch, needAck, queued, closed>>
serverVars == <<atServer, srvSalt, extra, executed>>
wireVars == <<lock, lastId, written>>
vars == <<callVars, tableVars, wireVars, salt, readerVars, inbound, serverVars>>

-----------------------------------------------------------------------------
(* Message kinds and results.                                              *)

\* rpc_result; the extraction of req_msg_ids finds these in a bad payload.
ResultKinds == {"ok", "error", "flood", "longFlood", "badResult"}

\* Answers to one request: they carry its message id.
AnswerKinds == ResultKinds \cup {"pong", "badSalt", "badMsg", "resend"}

\* "service": acked and ignored; "acks": neither; "garbage": undecodable.
UnaskedKinds == {"newSession", "update", "service", "acks", "garbage"}

Undecodable == {"badResult", "garbage"}

Message == [kind : AnswerKinds \cup UnaskedKinds, req : Nat, salt : Nat]

Msg(kind, req, version) == [kind |-> kind, req |-> req, salt |-> version]

\* What a future holds once it is done.
Settled == {"ok", "error", "flood", "longFlood", "decode", "badMsg",
            "saltLimit", "crash", "cancelled"}

FutState == Settled \cup {"pending"}

Outcomes == {"none", "ok", "error", "flood", "decode", "badMsg", "saltLimit",
             "crash", "timeout", "sendError", "closed", "cancelled"}

(***************************************************************************)
(* A task in _send_inner_message: a call sending its own request, or the   *)
(* receiver sending a new attempt, the resend of an old message or an ack. *)
(* The packet is encrypted before the lock, so the salt is fixed here.     *)
(***************************************************************************)
JobKinds == {"call", "retry", "again", "ack"}
Job == [kind : JobKinds, id : Nat, call : Calls \cup {NoCall}, salt : Nat]

\* next() of the generator; observe() only widens the gap (see MsgIds).
NewId == lastId + 1

-----------------------------------------------------------------------------
(* Helpers shared by the tasks.                                            *)

\* Variant: a lock that serves the latest comer first.
EnterLockInFront(kind, c, version) ==
    /\ lastId' = NewId
    /\ lock' = <<[kind |-> kind, id |-> NewId, call |-> c,
                  salt |-> version]>> \o lock

\* msg_id_gen.next, encryption, and a place in the FIFO send lock.
EnterLock(kind, c, version) ==
    /\ lastId' = NewId
    /\ lock' = Append(lock, [kind |-> kind, id |-> NewId, call |-> c,
                             salt |-> version])

\* Remove the entries of the call with the given message ids.
_CleanupCall(mids) ==
    /\ pending' = Restrict(pending, DOMAIN pending \ mids)
    /\ sent' = Restrict(sent, DOMAIN sent \ mids)
\* Take the i-th task out of the lock's queue; the holder is the first.
Without(q, i) ==
    [j \in 1 .. Len(q) - 1 |-> IF j < i THEN q[j] ELSE q[j + 1]]

\* The packet of a task reaches the server, which keeps requests to decide.
Deliver(job) ==
    /\ atServer' = IF job.kind = "ack" THEN atServer
                   ELSE atServer \cup {[id |-> job.id, call |-> job.call,
                                        salt |-> job.salt]}
    /\ written' = IF job.kind = "again" THEN written ELSE job.id

(***************************************************************************)
(* A task in the lock's queue is cancelled.  The holder may already have   *)
(* written its packet and be waiting for the drain.                        *)
(***************************************************************************)
Withdraw(i) ==
    /\ lock' = Without(lock, i)
    /\ \/ i = 1 /\ Deliver(lock[1])
       \/ UNCHANGED <<atServer, written>>

\* The lines of _send_new_attempt after its await.
Register(c, id) ==
    /\ ids' = [ids EXCEPT ![c] = @ \cup {id}]
    /\ pending' = [m \in DOMAIN pending \cup {id} |->
                     IF m = id THEN c ELSE pending[m]]
    /\ sent' = [m \in DOMAIN sent \cup {id} |-> IF m = id THEN c ELSE sent[m]]

\* Whether a message id belongs to a call that still waits for its answer.
Awaited(m) == m \in DOMAIN pending /\ fut[pending[m]] = "pending"

\* Variant: the answer is given to every call that waits.
SettleAll(m, result) ==
    fut' = [c \in Calls |-> IF fut[c] = "pending" /\ pc[c] = "waiting"
                            THEN result ELSE fut[c]]

\* Variant: the future is not asked whether it is done.
SettleAgain(m, result) ==
    fut' = IF m \in DOMAIN pending
           THEN [fut EXCEPT ![pending[m]] = result] ELSE fut

\* Set the result or the exception of the call an answer is for, if any.
Settle(m, result) ==
    fut' = IF Awaited(m) THEN [fut EXCEPT ![pending[m]] = result] ELSE fut

Returns(c, result) ==
    /\ pc' = [pc EXCEPT ![c] = "done"]
    /\ outcome' = [outcome EXCEPT ![c] = result]

-----------------------------------------------------------------------------
Init ==
    /\ pc = [c \in Calls |-> "idle"]
    /\ floods = [c \in Calls |-> 0]
    /\ fut = [c \in Calls |-> "pending"]
    /\ ids = [c \in Calls |-> {}]
    /\ outcome = [c \in Calls |-> "none"]
    /\ pending = <<>>
    /\ sent = <<>>
    /\ lock = <<>>
    /\ lastId = 0
    /\ salt = 0
    /\ reader = "off"
    /\ batch = <<>>
    /\ needAck = FALSE
    /\ queued = 0
    /\ closed = FALSE
    /\ inbound = <<>>
    /\ atServer = {}
    /\ srvSalt = 0
    /\ extra = MaxExtra
    /\ executed = {}
    /\ written = 0

-----------------------------------------------------------------------------
(* The task of a call: invoke_tl, _invoke_tl_once, _send_new_attempt.      *)

\* One round of _invoke_tl_once begins: a fresh future, the request is sent.
BeginRound(c) ==
    /\ pc' = [pc EXCEPT ![c] = "sending"]
    /\ fut' = [fut EXCEPT ![c] = "pending"]
    /\ ids' = [ids EXCEPT ![c] = {}]
    /\ EnterLock("call", c, salt)

Invoke(c) ==
    /\ pc[c] = "idle"
    /\ ~closed
    /\ reader' = IF reader = "off" THEN "reading" ELSE reader
    /\ BeginRound(c)
    /\ UNCHANGED <<floods, outcome, tableVars, written, salt, batch, needAck,
                   queued, closed, inbound, serverVars>>

InvokeClosed(c) ==
    /\ pc[c] = "idle"
    /\ closed
    /\ Returns(c, "closed")
    /\ UNCHANGED <<floods, fut, ids, tableVars, wireVars, salt, readerVars,
                   inbound, serverVars>>

\* The holder of the lock is a call: its packet is out and it is registered.
CallSent ==
    /\ lock # <<>> /\ Head(lock).kind = "call"
    /\ lock' = Tail(lock)
    /\ Deliver(Head(lock))
    /\ Register(Head(lock).call, Head(lock).id)
    /\ pc' = [pc EXCEPT ![Head(lock).call] = "waiting"]
    /\ UNCHANGED <<floods, fut, outcome, lastId, salt, readerVars, inbound,
                   srvSalt, extra, executed>>

\* A send that raises: in the drain, when the packet may be out, or before.
MayDeliver(job) == Deliver(job) \/ UNCHANGED <<atServer, written>>

\* The transport raises in the task of a call: the exception leaves invoke_tl.
CallSendFails ==
    /\ lock # <<>> /\ Head(lock).kind = "call"
    /\ lock' = Tail(lock)
    /\ MayDeliver(Head(lock))
    /\ Returns(Head(lock).call, "sendError")
    /\ UNCHANGED <<floods, fut, ids, tableVars, lastId, salt, readerVars,
                   inbound, srvSalt, extra, executed>>

\* wait_for returns or raises what the future holds.
Resume(c) ==
    /\ pc[c] = "waiting"
    /\ fut[c] \in Settled \ {"flood", "longFlood"}
    /\ _CleanupCall(ids[c])
    /\ Returns(c, fut[c])
    /\ UNCHANGED <<floods, fut, ids, wireVars, salt, readerVars, inbound,
                   serverVars>>

\* Variant: the entries of the refused round are left in the tables.
SleepOnFloodUncleaned(c) ==
    /\ pc[c] = "waiting"
    /\ fut[c] = "flood"
    /\ floods[c] < MaxFlood
    /\ pc' = [pc EXCEPT ![c] = "sleeping"]
    /\ floods' = [floods EXCEPT ![c] = @ + 1]
    /\ UNCHANGED <<fut, ids, outcome, tableVars, wireVars, salt, readerVars,
                   inbound, serverVars>>

\* Variant: one flood retry more than max_retries.
SleepOnFloodOnceMore(c) ==
    /\ pc[c] = "waiting"
    /\ fut[c] = "flood"
    /\ floods[c] <= MaxFlood
    /\ _CleanupCall(ids[c])
    /\ pc' = [pc EXCEPT ![c] = "sleeping"]
    /\ floods' = [floods EXCEPT ![c] = @ + 1]
    /\ UNCHANGED <<fut, ids, outcome, wireVars, salt, readerVars, inbound,
                   serverVars>>

\* A flood error with a bearable wait is slept off and the request repeated,
SleepOnFlood(c) ==
    /\ pc[c] = "waiting"
    /\ fut[c] = "flood"
    /\ floods[c] < MaxFlood
    /\ _CleanupCall(ids[c])
    /\ pc' = [pc EXCEPT ![c] = "sleeping"]
    /\ floods' = [floods EXCEPT ![c] = @ + 1]
    /\ UNCHANGED <<fut, ids, outcome, wireVars, salt, readerVars, inbound,
                   serverVars>>

\* any other flood error is raised.
RaiseFlood(c) ==
    /\ pc[c] = "waiting"
    /\ \/ fut[c] = "longFlood"
       \/ fut[c] = "flood" /\ floods[c] >= MaxFlood
    /\ _CleanupCall(ids[c])
    /\ Returns(c, "flood")
    /\ UNCHANGED <<floods, fut, ids, wireVars, salt, readerVars, inbound,
                   serverVars>>

\* The sleep is over; _closed is not looked at again.
WakeUp(c) ==
    /\ pc[c] = "sleeping"
    /\ BeginRound(c)
    /\ UNCHANGED <<floods, outcome, tableVars, written, salt, readerVars,
                   inbound, serverVars>>

\* Variant: the retry the code means to make on the first timeout.
TimeoutWithRetry(c) ==
    /\ pc[c] = "waiting"
    /\ IF Cardinality(ids[c]) = 1 /\ fut[c] = "pending"
       THEN /\ EnterLock("call", c, salt)
            /\ pc' = [pc EXCEPT ![c] = "sending"]
            /\ UNCHANGED <<fut, outcome, tableVars>>
       ELSE /\ fut' = [fut EXCEPT ![c] = IF @ = "pending" THEN "cancelled"
                                         ELSE @]
            /\ _CleanupCall(ids[c])
            /\ Returns(c, "timeout")
            /\ UNCHANGED <<lock, lastId>>
    /\ UNCHANGED <<floods, ids, written, salt, readerVars, inbound, serverVars>>

\* Variant: no timer for a call the crash handler should have failed.
TimeoutWhileReading(c) ==
    /\ pc[c] = "waiting"
    /\ reader # "crashed"
    /\ fut' = [fut EXCEPT ![c] = IF @ = "pending" THEN "cancelled" ELSE @]
    /\ _CleanupCall(ids[c])
    /\ Returns(c, "timeout")
    /\ UNCHANGED <<floods, ids, wireVars, salt, readerVars, inbound,
                   serverVars>>

(***************************************************************************)
(* wait_for gives up.  It cancels the future first, so the branch that     *)
(* sends the request again while the future is not done is never taken.    *)
(* From Python 3.12 on the timer may also win against a future that is     *)
(* already done.                                                           *)
(***************************************************************************)
Timeout(c) ==
    /\ pc[c] = "waiting"
    /\ fut' = [fut EXCEPT ![c] = IF @ = "pending" THEN "cancelled" ELSE @]
    /\ _CleanupCall(ids[c])
    /\ Returns(c, "timeout")
    /\ UNCHANGED <<floods, ids, wireVars, salt, readerVars, inbound,
                   serverVars>>

\* The caller's task is cancelled while it waits for the answer,
CancelWaiting(c) ==
    /\ pc[c] = "waiting"
    /\ fut' = [fut EXCEPT ![c] = IF @ = "pending" THEN "cancelled" ELSE @]
    /\ _CleanupCall(ids[c])
    /\ Returns(c, "cancelled")
    /\ UNCHANGED <<floods, ids, wireVars, salt, readerVars, inbound,
                   serverVars>>

\* while it sends: the call is not registered yet,
CancelSending(c) ==
    /\ pc[c] = "sending"
    /\ \E i \in DOMAIN lock : /\ lock[i].kind = "call" /\ lock[i].call = c
                              /\ Withdraw(i)
    /\ fut' = [fut EXCEPT ![c] = "cancelled"]
    /\ Returns(c, "cancelled")
    /\ UNCHANGED <<floods, ids, tableVars, lastId, salt, readerVars, inbound,
                   srvSalt, extra, executed>>

\* or in the flood sleep.
CancelSleeping(c) ==
    /\ pc[c] = "sleeping"
    /\ Returns(c, "cancelled")
    /\ UNCHANGED <<floods, fut, ids, tableVars, wireVars, salt, readerVars,
                   inbound, serverVars>>

-----------------------------------------------------------------------------
(* The receiver task: _recv_loop and _handle_message.                      *)

Current == Head(batch)

\* The message is done with; all but acks are acknowledged at the packet's end.
NextMessage ==
    /\ batch' = Tail(batch)
    /\ needAck' = (needAck \/ Current.kind # "acks")

Handling(kinds) ==
    /\ reader = "handling"
    /\ batch # <<>>
    /\ Current.kind \in kinds

IsBad(packet) == \E i \in DOMAIN packet : packet[i].kind \in Undecodable

ReadPacket ==
    /\ reader = "reading"
    /\ inbound # <<>>
    /\ ~IsBad(Head(inbound))
    /\ inbound' = Tail(inbound)
    /\ batch' = Head(inbound)
    /\ needAck' = FALSE
    /\ reader' = "handling"
    /\ UNCHANGED <<callVars, tableVars, wireVars, salt, queued, closed,
                   serverVars>>

(***************************************************************************)
(* One undecodable message makes the packet undecodable.  Every rpc_result *)
(* in it fails its call; everything else in it is lost; it is acked.       *)
(***************************************************************************)
FailDecode(packet) ==
    LET related == {packet[i].req : i \in {j \in DOMAIN packet :
                                             packet[j].kind \in ResultKinds}}
        affected == {pending[m] : m \in related \cap DOMAIN pending}
    IN  fut' = [c \in Calls |-> IF c \in affected /\ fut[c] = "pending"
                                THEN "decode" ELSE fut[c]]

ReadBadPacket ==
    /\ reader = "reading"
    /\ inbound # <<>>
    /\ IsBad(Head(inbound))
    /\ inbound' = Tail(inbound)
    /\ FailDecode(Head(inbound))
    /\ EnterLock("ack", NoCall, salt)
    /\ reader' = "sending"
    /\ UNCHANGED <<pc, floods, ids, outcome, tableVars, written, salt, batch,
                   needAck, queued, closed, serverVars>>

\* Variant: a bad_msg_notification taken for an acknowledgement.
ResultOfLenient(kind) == IF kind \in {"pong", "badMsg"} THEN "ok" ELSE kind

\* What an answer does to the future of the call it is for.
ResultOf(kind) ==
    CASE kind = "pong" -> "ok"
      [] kind \in {"ok", "error", "flood", "longFlood", "badMsg"} -> kind

\* rpc_result, pong and bad_msg_notification.
HandleAnswer ==
    /\ Handling({"ok", "error", "flood", "longFlood", "pong", "badMsg"})
    /\ Settle(Current.req, ResultOf(Current.kind))
    /\ NextMessage
    /\ UNCHANGED <<pc, floods, ids, outcome, tableVars, wireVars, salt, reader,
                   queued, closed, inbound, serverVars>>

HandleNewSession ==
    /\ Handling({"newSession"})
    /\ salt' = Current.salt
    /\ NextMessage
    /\ UNCHANGED <<callVars, tableVars, wireVars, reader, queued, closed,
                   inbound, serverVars>>

\* Variant: the retry is encrypted before the new salt is stored.
RetryUnderOldSalt ==
    /\ Handling({"badSalt"})
    /\ Awaited(Current.req)
    /\ Cardinality(ids[pending[Current.req]]) < 2
    /\ salt' = Current.salt
    /\ EnterLock("retry", pending[Current.req], salt)
    /\ reader' = "sending"
    /\ NextMessage
    /\ UNCHANGED <<callVars, tableVars, written, queued, closed, inbound,
                   serverVars>>

\* bad_server_salt for a call on its first attempt: send it again,
RetryOnBadSalt ==
    /\ Handling({"badSalt"})
    /\ Awaited(Current.req)
    /\ Cardinality(ids[pending[Current.req]]) < 2
    /\ salt' = Current.salt
    /\ EnterLock("retry", pending[Current.req], Current.salt)
    /\ reader' = "sending"
    /\ NextMessage
    /\ UNCHANGED <<callVars, tableVars, written, queued, closed, inbound,
                   serverVars>>

\* for a call that has used its attempts, or for no waiting call.
HandleBadSalt ==
    /\ Handling({"badSalt"})
    /\ Awaited(Current.req) => Cardinality(ids[pending[Current.req]]) >= 2
    /\ salt' = Current.salt
    /\ Settle(Current.req, "saltLimit")
    /\ NextMessage
    /\ UNCHANGED <<pc, floods, ids, outcome, tableVars, wireVars, reader,
                   queued, closed, inbound, serverVars>>

\* msg_resend_req: the same message again, under today's salt,
ResendMessage ==
    /\ Handling({"resend"})
    /\ Current.req \in DOMAIN sent
    /\ lock' = Append(lock, [kind |-> "again", id |-> Current.req,
                             call |-> sent[Current.req], salt |-> salt])
    /\ reader' = "sending"
    /\ NextMessage
    /\ UNCHANGED <<callVars, tableVars, lastId, written, salt, queued, closed,
                   inbound, serverVars>>

\* unless the call is over.  Service messages need no handling.
IgnoreMessage ==
    /\ \/ Handling({"resend"}) /\ Current.req \notin DOMAIN sent
       \/ Handling({"service", "acks"})
    /\ NextMessage
    /\ UNCHANGED <<callVars, tableVars, wireVars, salt, reader, queued, closed,
                   inbound, serverVars>>

\* put_nowait: a full queue loses the update, which is acked all the same.
QueueUpdate ==
    /\ Handling({"update"})
    /\ queued' = IF queued < QueueSize THEN queued + 1 ELSE queued
    /\ NextMessage
    /\ UNCHANGED <<callVars, tableVars, wireVars, salt, reader, closed,
                   inbound, serverVars>>

\* The updates loop of the client takes from the queue.
TakeUpdate ==
    /\ queued > 0
    /\ queued' = queued - 1
    /\ UNCHANGED <<callVars, tableVars, wireVars, salt, reader, batch, needAck,
                   closed, inbound, serverVars>>

\* _send_ack after the last message; with nothing to ack it returns at once.
EndPacket ==
    /\ reader = "handling"
    /\ batch = <<>>
    /\ IF needAck
       THEN EnterLock("ack", NoCall, salt) /\ reader' = "sending"
       ELSE reader' = "reading" /\ UNCHANGED <<lock, lastId>>
    /\ needAck' = FALSE
    /\ UNCHANGED <<callVars, tableVars, written, salt, batch, queued, closed,
                   inbound, serverVars>>

\* The holder of the lock is the receiver: its packet is out.
RetrySent ==
    /\ lock # <<>> /\ Head(lock).kind = "retry"
    /\ lock' = Tail(lock)
    /\ Deliver(Head(lock))
    /\ Register(Head(lock).call, Head(lock).id)
    /\ reader' = "handling"
    /\ UNCHANGED <<pc, floods, fut, outcome, lastId, salt, batch, needAck,
                   queued, closed, inbound, srvSalt, extra, executed>>

ResendSent ==
    /\ lock # <<>> /\ Head(lock).kind = "again"
    /\ lock' = Tail(lock)
    /\ Deliver(Head(lock))
    /\ reader' = "handling"
    /\ UNCHANGED <<callVars, tableVars, lastId, salt, batch, needAck, queued,
                   closed, inbound, srvSalt, extra, executed>>

AckSent ==
    /\ lock # <<>> /\ Head(lock).kind = "ack"
    /\ lock' = Tail(lock)
    /\ Deliver(Head(lock))
    /\ reader' = "reading"
    /\ UNCHANGED <<callVars, tableVars, lastId, salt, batch, needAck, queued,
                   closed, inbound, srvSalt, extra, executed>>

\* Variant: the tables are emptied and the futures forgotten.
ForgetPending ==
    /\ fut' = fut
    /\ pending' = Restrict(pending, {})
    /\ sent' = Restrict(sent, {})
    /\ reader' = "crashed"
    /\ batch' = <<>>
    /\ needAck' = FALSE

(***************************************************************************)
(* The receiver ends on an exception.  It fails the calls in the table;    *)
(* nothing starts it again.                                                *)
(***************************************************************************)
FailPending ==
    /\ fut' = [c \in Calls |->
                 IF fut[c] = "pending" /\ \E m \in DOMAIN pending : pending[m] = c
                 THEN "crash" ELSE fut[c]]
    /\ pending' = Restrict(pending, {})
    /\ sent' = Restrict(sent, {})
    /\ reader' = "crashed"
    /\ batch' = <<>>
    /\ needAck' = FALSE

\* The transport or the decryption of a packet raises in the read,
ReaderReadFails ==
    /\ reader = "reading"
    /\ FailPending
    /\ UNCHANGED <<pc, floods, ids, outcome, wireVars, salt, queued, closed,
                   inbound, serverVars>>

\* or the transport raises in a send of the receiver's.
ReaderSendFails ==
    /\ lock # <<>> /\ Head(lock).kind # "call"
    /\ lock' = Tail(lock)
    /\ MayDeliver(Head(lock))
    /\ FailPending
    /\ UNCHANGED <<pc, floods, ids, outcome, lastId, salt, queued, closed,
                   inbound, srvSalt, extra, executed>>

-----------------------------------------------------------------------------
\* close(): the receiver is cancelled wherever it is; the calls are not told.
Close ==
    /\ ~closed
    /\ closed' = TRUE
    /\ reader' = "off"
    /\ batch' = <<>>
    /\ needAck' = FALSE
    /\ IF reader = "sending"
       THEN \E i \in DOMAIN lock : lock[i].kind # "call" /\ Withdraw(i)
       ELSE UNCHANGED <<lock, written, atServer>>
    /\ UNCHANGED <<callVars, tableVars, lastId, salt, queued, inbound, srvSalt,
                   extra, executed>>

-----------------------------------------------------------------------------
(* The server, as far as the code relies on it.                            *)

\* A message leaves alone or in the container that is being filled.
SendToClient(msg) ==
    \/ inbound' = Append(inbound, <<msg>>)
    \/ /\ inbound # <<>>
       /\ Len(inbound[Len(inbound)]) < MaxBatch
       /\ inbound' = [inbound EXCEPT ![Len(inbound)] = Append(@, msg)]

SuccessKind(c) == IF c \in PingCalls THEN "pong" ELSE "ok"

\* The request is executed; the client may be unable to decode the result.
ServerExecutes(r) ==
    /\ \E kind \in {SuccessKind(r.call), "badResult"} :
          SendToClient(Msg(kind, r.id, 0))
    /\ executed' = executed \cup {[id |-> r.id, call |-> r.call]}
    /\ atServer' = atServer \ {r}
    /\ UNCHANGED <<callVars, tableVars, wireVars, salt, readerVars, srvSalt,
                   extra>>

\* The request is refused: rpc_error, bad_msg_notification.
ServerRefuses(r) ==
    /\ \E kind \in {"error", "flood", "longFlood", "badMsg"} :
          SendToClient(Msg(kind, r.id, 0))
    /\ atServer' = atServer \ {r}
    /\ UNCHANGED <<callVars, tableVars, wireVars, salt, readerVars, srvSalt,
                   extra, executed>>

\* A message under an old salt may still be served, or is refused.
ServerRefusesSalt(r) ==
    /\ r.salt # srvSalt
    /\ SendToClient(Msg("badSalt", r.id, srvSalt))
    /\ atServer' = atServer \ {r}
    /\ UNCHANGED <<callVars, tableVars, wireVars, salt, readerVars, srvSalt,
                   extra, executed>>

\* The server has lost the message and asks for it again.
ServerWantsResend(r) ==
    /\ extra > 0
    /\ extra' = extra - 1
    /\ SendToClient(Msg("resend", r.id, 0))
    /\ atServer' = atServer \ {r}
    /\ UNCHANGED <<callVars, tableVars, wireVars, salt, readerVars, srvSalt,
                   executed>>

\* An answer that was not acked in time is sent once more.
ServerRepeats(e) ==
    /\ extra > 0
    /\ extra' = extra - 1
    /\ SendToClient(Msg(SuccessKind(e.call), e.id, 0))
    /\ UNCHANGED <<callVars, tableVars, wireVars, salt, readerVars, srvSalt,
                   executed, atServer>>

ServerUnasked(kind) ==
    /\ extra > 0
    /\ extra' = extra - 1
    /\ SendToClient(Msg(kind, 0, IF kind = "newSession" THEN srvSalt ELSE 0))
    /\ UNCHANGED <<callVars, tableVars, wireVars, salt, readerVars, srvSalt,
                   executed, atServer>>

ServerRotatesSalt ==
    /\ srvSalt < MaxRotations
    /\ srvSalt' = srvSalt + 1
    /\ UNCHANGED <<callVars, tableVars, wireVars, salt, readerVars, inbound,
                   atServer, extra, executed>>

-----------------------------------------------------------------------------
SendEnds == CallSent \/ CallSendFails \/ RetrySent \/ ResendSent \/ AckSent
            \/ ReaderSendFails

CallSteps(c) ==
    \/ Invoke(c) \/ InvokeClosed(c)
    \/ Resume(c) \/ SleepOnFlood(c) \/ RaiseFlood(c) \/ WakeUp(c) \/ Timeout(c)
    \/ CancelWaiting(c) \/ CancelSending(c) \/ CancelSleeping(c)

ReceiverSteps ==
    \/ ReadPacket \/ ReadBadPacket
    \/ HandleAnswer \/ HandleNewSession \/ RetryOnBadSalt \/ HandleBadSalt
    \/ ResendMessage \/ IgnoreMessage \/ QueueUpdate
    \/ EndPacket \/ ReaderReadFails

ServerSteps ==
    \/ \E r \in atServer : ServerExecutes(r) \/ ServerRefuses(r)
                           \/ ServerRefusesSalt(r) \/ ServerWantsResend(r)
    \/ \E e \in executed : ServerRepeats(e)
    \/ \E kind \in UnaskedKinds : ServerUnasked(kind)
    \/ ServerRotatesSalt

Next ==
    \/ \E c \in Calls : CallSteps(c)
    \/ SendEnds
    \/ ReceiverSteps
    \/ TakeUpdate
    \/ Close
    \/ ServerSteps

Spec == Init /\ [][Next]_vars

(***************************************************************************)
(* The event loop runs every task that can run, timers expire, and a send  *)
(* returns or raises.  Nothing is assumed of the server, the receiver or   *)
(* the callers.                                                            *)
(***************************************************************************)
Fairness ==
    /\ WF_vars(SendEnds)
    /\ \A c \in Calls :
          WF_vars(Resume(c) \/ SleepOnFlood(c) \/ RaiseFlood(c) \/ WakeUp(c)
                  \/ Timeout(c))

FairSpec == Spec /\ Fairness

-----------------------------------------------------------------------------
(***************************************************************************)
(* The state is well-typed: tables hold calls only, the lock holds tasks   *)
(* with their packets, futures and outcomes have the values of the code.   *)
(***************************************************************************)
TypeOK ==
    /\ pc \in [Calls -> {"idle", "sending", "waiting", "sleeping", "done"}]
    /\ floods \in [Calls -> 0 .. MaxFlood]
    /\ fut \in [Calls -> FutState]
    /\ ids \in [Calls -> SUBSET Nat]
    /\ outcome \in [Calls -> Outcomes]
    /\ pending \in [DOMAIN pending -> Calls] /\ DOMAIN pending \subseteq Nat
    /\ sent \in [DOMAIN sent -> Calls] /\ DOMAIN sent \subseteq Nat
    /\ lock \in Seq(Job)
    /\ lastId \in Nat
    /\ salt \in Nat
    /\ reader \in {"off", "reading", "handling", "sending", "crashed"}
    /\ batch \in Seq(Message)
    /\ needAck \in BOOLEAN
    /\ queued \in 0 .. QueueSize
    /\ closed \in BOOLEAN
    /\ inbound \in Seq(Seq(Message))
    /\ atServer \subseteq [id : Nat, call : Calls, salt : Nat]
    /\ srvSalt \in Nat
    /\ extra \in Nat
    /\ executed \subseteq [id : Nat, call : Calls]
    /\ written \in Nat

(***************************************************************************)
(* The server executes the request of an invoke_tl at most once, whatever  *)
(* is retried, resent, repeated, timed out or slept off in between: a new  *)
(* message id is only taken for a request the server has refused           *)
(* (_handle_message on bad_server_salt; invoke_tl on a flood error).       *)
(***************************************************************************)
AtMostOnce ==
    \A e, f \in executed : e.call = f.call => e = f

(***************************************************************************)
(* A call returns a result only when the server has executed that call's   *)
(* own request: the answers in flight are matched by req_msg_id, never by  *)
(* their order (_handle_message, rpc_result and pong).                     *)
(***************************************************************************)
ResultsAreEarned ==
    \A c \in Calls : outcome[c] = "ok" => \E e \in executed : e.call = c

(***************************************************************************)
(* A call that waits for its answer is in the table under every id it has  *)
(* used, so an answer that arrives cannot miss it.  (_send_new_attempt     *)
(* registers after an await; _cleanup_call and the crash handler remove.)  *)
(***************************************************************************)
WaitingIsRegistered ==
    \A c \in Calls :
        pc[c] = "waiting" /\ fut[c] = "pending" =>
            /\ ids[c] # {}
            /\ \A m \in ids[c] : m \in DOMAIN pending /\ pending[m] = c

(***************************************************************************)
(* What stays in the tables after a call has returned can do no harm to a  *)
(* future: an entry is that of a call that waits or whose future is done.  *)
(* (A retry of the receiver's may register a call that has timed out       *)
(* meanwhile.)  Both tables have the same entries.                         *)
(***************************************************************************)
EntriesAreLiveOrDead ==
    /\ sent = pending
    /\ \A m \in DOMAIN pending :
          \/ pc[pending[m]] = "waiting"
          \/ pc[pending[m]] = "done" /\ fut[pending[m]] # "pending"

(***************************************************************************)
(* "Retries once on bad_server_salt": a call fails with the retry limit    *)
(* only when the server has changed its salt at least twice, since the     *)
(* second attempt is encrypted under the salt the server has just told.    *)
(***************************************************************************)
SaltLimitNeedsTwoRotations ==
    \A c \in Calls : outcome[c] = "saltLimit" => srvSalt >= 2

(***************************************************************************)
(* New messages reach the wire in the order of their ids, as MTProto       *)
(* requires, although ids are taken before the send lock and by several    *)
(* tasks (_send_new_attempt, _send_ack, _send_inner_message).              *)
(***************************************************************************)
WireOrder == [][written' # written => written' > written]_vars

(***************************************************************************)
(* A future is settled once: a done future keeps its value until the task  *)
(* has begun another round with a new one.  (set_result on a done future   *)
(* would raise in the receiver and end it.)                                *)
(***************************************************************************)
SettledOnce ==
    [][\A c \in Calls :
          fut[c] # "pending" /\ fut'[c] # fut[c] =>
              pc[c] = "sleeping"]_vars

(***************************************************************************)
(* Every invoke_tl returns or raises, whether or not the server answers,   *)
(* the receiver lives or the sender is closed.                             *)
(***************************************************************************)
EveryCallReturns ==
    \A c \in Calls : pc[c] # "idle" ~> pc[c] = "done"

\* How the state of a call looks to its caller.
CallStatus(c) ==
    CASE pc[c] = "idle" -> "new"
      [] pc[c] \in {"sending", "waiting", "sleeping"} -> "open"
      [] pc[c] = "done" -> IF outcome[c] = "closed" THEN "refused"
                           ELSE IF outcome[c] = "ok" THEN "result"
                           ELSE "exception"

Contract == INSTANCE RpcContract
               WITH status <- [c \in Calls |-> CallStatus(c)],
                    served <- {e.call : e \in executed}

(***************************************************************************)
(* The sender implements the contract of an invocation (RpcContract): one  *)
(* end per call, one execution at most, none for a call refused by a       *)
(* closed sender, and a result only after the execution.                   *)
(***************************************************************************)
RespectsContract == Contract!Spec

-----------------------------------------------------------------------------
(* What the code's own messages say and the code does not do.              *)

(***************************************************************************)
(* "Timed out waiting for RPC result; retrying once": a call that fails on *)
(* a timeout has been sent twice.                                          *)
(***************************************************************************)
TimeoutRetriesOnce ==
    \A c \in Calls : outcome[c] = "timeout" => Cardinality(ids[c]) >= 2

=============================================================================
