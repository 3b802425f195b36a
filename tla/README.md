# TLA+ models of telecraft

`src/src/telecraft` is an asynchronous Telegram client in Python: an MTProto
transport, a key exchange, an encrypted RPC sender, an engine for updates, and
on top of them a client with an entity cache and a phone-call manager. This
directory models its core logic in TLA+, checks the models with TLC and proves
the most important invariants with TLAPS. Paths below are relative to
`src/src/telecraft`.

Everything runs on one asyncio event loop. A *step* of a model is therefore
what one task does between two points at which it may be suspended (`await` on
a lock, a drain, a future, a sleep or a queue). Between those points nothing
interleaves; at those points everything does.

## 1. Inventory

| component | state | operations | hard part |
|---|---|---|---|
| RPC sender, `mtproto/rpc/sender.py` | `_pending`, `_sent`, the futures, the send lock, `server_salt`, the receiver task, the incoming queue, `_closed` | `invoke_tl`, the receiver loop and its handlers, `_send_ack`, `close` | callers, retries and acks compete for one FIFO lock; the answer, the timer, a cancellation and a crash race |
| Message ids, `mtproto/core/msg_id.py`, `core/state.py` | `_last`, `_seq` | `next`, `observe`, `next_seq_no` | a clock that stands still or is set back; server ids ahead of it |
| Phone calls, `client/calls/manager.py`, `session.py`, `state.py` | `_sessions`, the sessions, the updates queue and task | `start`, `stop`, `call`, `accept`, `reject`, `hangup`, the updates loop | each operation awaits a request while updates about the same call are handled; handlers block the loop |
| Updates engine, `mtproto/updates/engine.py` | pts, qts, seq, date, pts per channel | `initialize`, `apply`, `getDifference`, `getChannelDifference` | gaps, paging, failures between pages |
| Updates storage, `mtproto/updates/storage.py` | a JSON file | load, save (temporary file and rename) | throttled saves, crash and restart |
| Raw client, `client/mtproto.py` | transport, sender, engine, the updates task, subscribers, `_did_init_connection` | `connect`, `close`, `start_updates`, `stop_updates`, `subscribe_updates`, the updates loop, `resolve_*`, `prime_entities` | failures and cancellations half-way through `connect` and `close`, two tasks that start and stop at once, loop death |
| Client facade, `client/client.py`, `client/apis/` | none of its own | forwards | order of closing |
| Entity cache, `client/entities.py`, `peers.py` | access hashes, names, phones | `ingest_*`, `input_*`, look-ups, load, save | names that move while a look-up waits, equal ids of users and channels, skipped saves |
| Key exchange, `mtproto/auth/`, `core/unencrypted.py` | nonces of the exchange | `exchange_auth_key` | answers that belong to nothing, small frames, the length of the key |
| Transport and framing, `mtproto/transport/` | a receive buffer | `send`, `recv`, `encode`, `decode_from_buffer` | frames cut anywhere |
| Session file, `mtproto/session/file.py` | a JSON file | load, save | replacing the file |
| TL codec, `tl/codec.py` | none | `dumps`, `loads` | length prefixes, flags |
| Schema compiler, `tl/parser.py`, `generator.py` | none | parsing, generation | none at run time |
| Cryptography, `mtproto/crypto/` | none | AES-IGE, RSA | arithmetic on bytes |

How they interact: the facade and the calls manager call `invoke_api` of the
raw client, which calls `invoke_tl` of the sender. The sender's receiver puts
what it cannot answer itself on the incoming queue. The client's updates loop
takes it from there, lets the engine apply it (which may call `invoke_api`
again), and fans the result out to the subscribers' queues, one of which is the
calls manager's.

What makes each of them correct:

* *sender*: a request is executed at most once however it is retried; an answer
  reaches the caller of its own request; new messages leave in the order of
  their ids; every caller gets an answer or an exception;
* *ids*: fresh, growing, divisible by 4, with sequence numbers in the same order;
* *calls*: a session never goes back, rings once, ends when its call ends, and
  says why;
* *updates*: nothing the server has counted is skipped, and after a restart the
  client continues where it was;
* *client*: whatever fails, no socket and no updates loop is left behind, the calls
  manager is fed by the updates loop while it runs, and the key the user has signed in
  with survives a crash;
* *entities*: what the cache joins has belonged together, and a look-up by force
  answers with an owner of that time;
* *transport and codec*: the objects that come out are those that went in, in
  their order, wherever the stream is cut and whoever gives up reading;
* *key exchange*: both sides end with the same bytes, or the client fails for a
  reason outside it.

`PROJECT.json` lists the hazards of each with their line in the code and the
properties that cover them.

## 2. Plan

Done, in this order: `MsgIds` (the ids everything is matched by), `RpcContract`
and `RpcSender` (the core), `CallSessions` (the largest user of requests and
updates), the proofs about `MsgIds` and `CallSessions`, `UpdatesEngine`,
`ClientLifecycle` (which composes the raw client, the facade and the calls
manager), `EntityCache`, `KeyExchange`, and `TlCodec` with `Wire`, which composes
codec, framing and transport. Then the proofs about `RpcSender` (types and wire
order, the safety of its tables, the contract and the salts), `UpdatesEngine`,
`EntityCache`, `ClientLifecycle` and `KeyExchange`. Last, `Framing` and `Transport`
were taken out of `Wire`, with `PacketPipe` for what they promise, so that it could be
proved that packets arrive whole and in order for any packets and any chunks.

Nothing of the plan is open. What could follow is in section 7.

No module that theorems are about uses a RECURSIVE operator; `TlCodec`, whose objects
hold objects, does, and stays with TLC.

## 3. The modules

### MsgIds

`last` is `MsgIdGenerator._last`, `seq` is `MtprotoState._seq`. `Observe` is
`observe`, `StampPlain` is `next` for the key exchange, `StampEncrypted` is the
pair of `next` and `next_seq_no` of `_send_new_attempt` and `_send_ack`, one
step since there is no `await` between them. The wall clock is an input: each
step reads any of `Clocks`. Server ids are any integers, as they are signed.
`stamps`, `issued` and `seen` are history.

### RpcContract

What `invoke_tl` promises, without messages or retries: an invocation is refused
at once or ends once, with a result or an exception; the server executes it at
most once, and before a result is returned. An exception leaves open whether
the request was executed. `RpcSender` implements it (`RespectsContract`).

### RpcSender

Tasks: one per call, and the receiver. The lock is the queue `lock`, its holder
first; `Job` is a packet that has been stamped and encrypted and waits to be
sent, on behalf of a caller, or of the receiver's retry, resend or ack.

| model | code |
|---|---|
| `Invoke`, `InvokeClosed`, `BeginRound` | `invoke_tl` up to the lock |
| `CallSent` | the end of `_send_inner_message` for a caller, and `_send_new_attempt` registering it |
| `Resume`, `RaiseFlood`, `SleepOnFlood`, `WakeUp`, `Timeout`, `Cancel*` | what a caller does with its future, its timer, its cancellation |
| `ReadPacket`, `ReadBadPacket`, `Handle*`, `ResendMessage`, `QueueUpdate`, `EndPacket` | `_recv_loop`, `_unwrap_received`, `_handle_message`, `_fail_decode_for_req_ids`, `_send_ack` |
| `CallSendFails`, `ReaderSendFails` | a send that raises, its packet written (`MayDeliver`) or not |
| `RetrySent`, `ResendSent`, `AckSent` | the receiver's own sends |
| `ReaderReadFails`, `FailPending` | the crash handler of `_recv_loop` |
| `Close` | `close` |
| `Server*`, `Deliver`, `SendToClient` | the server: executes, refuses, repeats, rotates its salt, asks for a resend, sends updates and undecodable messages, in containers or alone |

Choices worth knowing:

* the receiver handles one message of a container per step; this adds
  interleavings and removes none;
* `TcpTransport.send` returns in the pass of the event loop that hands the last
  byte to the socket, so an answer cannot be handled before the caller has
  registered: the end of a send, its arrival and the registration are one step,
  and the window between the write and the entry in `_pending` is not explored;
* a send that raises, and a holder of the lock that is cancelled, may or may not
  have written its packet;
* ids are a counter: `observe` only widens the gaps between ids (`MsgIds`
  checks the ids themselves);
* an answer that arrives in the same pass as the timer may win or lose
  (`asyncio.wait_for` of Python 3.12 returns the result in that case);
* the server may serve or refuse a request under a salt it has just replaced;
* `MaxFlood = 0` also stands for flood waiting switched off;
* payloads, the log, dumps and byte formats are left out; a payload is a kind
  (`ok`, `error`, `flood`, `badSalt`, `garbage`, ...) and the id it answers.

### CallSessions

A session is named by its call and by who made it, since `call()` replaces a
session the updates loop may have made. `state`, `reason`, `incoming` are the
attributes of `CallSession`, `table` is `_sessions`, `queue` is `_updates_q`,
`handling` the session whose handlers the loop awaits (a set of at most one),
`op` and `asking` the phases of the user's operations, `srv` the call as the
server has it. `ends`,
`announced`, `lost`, `ended`, `overtaken` are history.

`HandleRinging`, `HandleRequested`, `HandleProgress`, `HandleDiscarded` are the branches
of `_handle_update_phone_call` after `TakeUpdate`; `HandlerReturns` and `HandlerRaises`
end `_emit_incoming`. `AutoAccept` are calls whose handler awaits `session.accept()` -
then the loop waits for the requests of `accept`. `Discard`, `ServerDiscardsFor`,
`DiscardReturns`, `DiscardFails` are `reject` and `hangup`, `Accept` ... `AcceptFails`
are `accept`, `RequestCall`, `CallReturns`, `CallFails` are `call`. Requests are one
step at the server and one at the client, so the update about the effect may overtake
the answer. `MaxCalls` bounds the calls that begin. Signaling data, time stamps and
access hashes are left out. Ended sessions stay in `_sessions` for the life of the
manager, as in the code. One assumption is made of the loop's `except` branch: no update
that the codec produces makes `_handle_update_phone_call` raise.

### UpdatesEngine

The server keeps one numbered log per box: `pts`, `qts` and one for each channel. An
event is a box and its number; it counts one. `state` is `UpdatesEngine.state`, `chPts`
is `_channel_pts`, `items` is what is left of the object being applied, `at` the place
in it of the `updateChannel` whose difference is being fetched, `acc` is what `apply`
will return, `page` what the running `_fetch_channel_difference` has collected, `disk`
the file.

| model | code |
|---|---|
| `Start`, `Initialize`, `Stop`, `MaySave` | `start_updates`, `initialize`, `stop_updates`, the throttled or failing save |
| `TakeTooLong`, `TakeShort`, `TakeUpdates`, `CountUpdate`, `FinishObject`, `HandOut`, `FanOut` | the branches of `apply`, and the updates loop up to its save, with `_fanout_update` to a subscriber's queue that may be full |
| `Channel*`, `EndFetch`, `Proceed` | `_fetch_channel_difference` for each answer, and `apply` after it |
| `Diff*`, `GetState`, `FetchFails` | `_fetch_difference` for each answer; an exception ends the task |
| `ServerPublishes*`, `ServerRepeats`, `Push` | the server's pushes, lost on the way, dropped by a full queue, late or repeated |

`fanned`, a pair, and `excused`, `misled`, `cut` and `dropped` are history. `handed` are
the events that a subscriber's queue has taken. The others name what the code gives up,
so that the properties can say that the numbers run ahead of nothing else:

* `missed`: events that came to a full queue of a subscriber. `_fanout_update` drops
  them and the numbers are saved as if they had been delivered; the properties speak of
  what was `Offered`, taken or missed;

* `excused`: events skipped because the server said "too long" (`getState`, or the
  pts of a channel's dialog), and those before the first start;
* `misled`: numbers of the account taken by an event of a channel -
  `_apply_pts_from_update` compares the pts of every update with the account's,
  also of an update that carries a channel's number;
* `cut`: slices of a difference that were counted but not delivered when
  `stop_updates` cancelled the loop and saved its numbers;
* `dropped`: events of a channel that were fetched, and whose number was stored,
  when a later page failed or a gap in qts made `apply` return without them.

Left out: date and seq (stored and sent, never compared), users and chats, a
`pts_count` other than 1, two events of one box in an object, a
failing `getState` inside `start_updates`, an unreadable file (it is taken for no
file). The server answers as documented: a slice makes progress and "too long" is
said only to a client that is behind.

### ClientLifecycle

A connection is a number `g`, from its dial on: `sock[g]` its `TcpTransport`,
`sender[g]` its sender, `keyOf[g]` its authorization key. `cur` stands for
`_transport`, `_sender`, `_state` and `_incoming`, which are set in one step of
`connect` and cleared in one step of `close`; `didInit` is `_did_init_connection`,
`updTask` is `_updates_task`, `loops` the tasks that have ever run `_updates_loop`,
`feed` the queue each of them waits for, `engine` and `ready` the `_updates_engine` and
whether it is initialised, `file` and `saved` the session file and the updates file,
`calls` and `subbed` the calls manager and its subscription. `task[t]` is where a
caller's task waits.

| model | code |
|---|---|
| `Connect`, `Dialled`, `Exchanged`, `Initialised` and their failures, `SenderUndone`, `SocketUndone` | `MtprotoClient.connect`, one step per await, its `except` branch included |
| `AfterConnect`, `GotMe`, `Started` | `Client.connect`, `CallsManager.start` |
| `StartUpdates`, `GotState`, `StateFails`, `Ask`, `AskedFirst` | `start_updates`; `invoke_api` with its first request |
| `StopUpdates`, `StopEnds`, `FinishStop` | `stop_updates` |
| `Close`, `CloseStoppedUpdates`, `CloseSenderEnds`, `CloseSocketEnds`, `StopCalls`, `CallsStopped` | `MtprotoClient.close`, `Client.close`, `CallsManager.stop` |
| `Loop*` | `_updates_loop`, as far as the client's fields are concerned |
| `Cancel`, `Crash`, `SignIn` | the task is cancelled, the process ends, the user signs in |

A loop that ended has "died" of a request that failed in `apply`, is "broken" for want
of a connection or of an engine, or was "cancelled". A session file that cannot be
written makes `connect` or `close` raise; an updates file that cannot is passed over.

Operations overlap freely. Some overlaps do break things, and `mixed` records which
*misuse* has occurred (two connects at once, two starts, two stops or closes, a start
during a close, updates stopped under a running manager, a cancellation in the key
exchange or in the first request). A property names the misuses it does not survive;
`MaxMisuses` lets one of them happen, so that every property is also shown to survive
all the others. What the excluded ones do is in section 5.

### EntityCache

`cache` holds the maps of `EntityCache`: the peers whose access hash is known, and who
is under a name or a phone. `file` is the cache file. The server owns the truth
(`owner`, `line`) and moves names and phones. A task resolves a reference
(`Resolve`), asks the server or primes the cache (`ServerResolves`, `ServerLists`: the
server answers in one step; `Resolved`, `Primed`: the client handles it in a later
one), while the updates loop ingests objects (`IngestUpdate`). `Save` is the throttled
or failing save, `Close` and `Connect` save and reload (a file that cannot be
loaded leaves the cache as it is), `Restart` loses what is not in
the file. An object lists the names and phones its owner had when the server wrote it.
The value of an access hash never changes and is left out; so are basic chats, which
need none. `current`, `ever` and `unsaved` are history.

### KeyExchange

`pc` is the request the client waits in, `small` is `ignored_small`, `authKey` the bytes
of `dh_res.auth_key`. Each action reads one frame: `IgnoreSmall`, `ReadUnexpected`, or
the answer of the round (`GotResPq`, `GotDhParams`, `GotGen`), with every check of
`exchange_auth_key` that can fail and the next request. Numbers are real, over a small
prime; `Factorizations` is what `factorize_pq` may return, `Bytes` is
`_int_to_be_bytes`, whose length is the place of the highest byte that is not 0. RSA,
AES and SHA hand on what they are given; a hash is the value it is taken of. The server
is honest or, within `MaxFaults`, refuses, answers with another nonce, or sends a frame
that belongs to nothing; `QuickAck` sends frames too short to be an envelope.
`max_frames` (128) cannot be reached by small frames in the code, since the 65th raises;
every other frame ends the wait.

### Bytes and Framing

`Bytes` has the two directions of a little-endian number, `Digits` and `Number`.
`Framing` holds both framings as operators on sequences of bytes, chosen by `f`; where
`abridged.py` and `intermediate.py` have the same statements, a definition translates
both. `Encode` is `encode`, and `decode_from_buffer` is taken apart into what its header
says (`HeaderOf`), whether a whole frame is there (`HasFrame`), what is returned
(`FirstPacket`), what stays in the buffer (`AfterFrame`) and when it raises
(`DecodeRaises`).

### PacketPipe

What a connection promises, without bytes: packets go in at both ends and come out at
the other one by one, in order and once; a new connection starts empty. `Transport`
implements it (`RespectsPipe`).

### Transport

`TcpTransport` over a socket: `rxBuf` is `_rx_buf`, `toClient` and `toServer` the bytes
on their way. `recv` looks at its buffer first (`Recv`), and one step takes a chunk of any size
from the socket and returns a frame if there is a whole one (`ReadChunk`, `TakeFrame`).
`CancelRecv` is a reader that gives up, `ReadEnds` the error at the end of the stream;
`Close` and `CloseEnds` are the two halves of `close`; `ServerCloses` breaks the stream
anywhere. The client may connect again. Encryption, above, is left out. `sent`, `got`,
`asked`, `heard` and `conn` are history; the refinement mapping is the identity on them.

### TlCodec and Wire

`TlCodec` holds `TLWriter` and `TLReader` as operators on sequences of bytes: ints,
byte strings with both length forms and padding, flags, vectors, objects in objects,
and every failure of a read. A flags word has a bit when one of its parameters is given
(several may share it); `CanWrite` is false for what `dumps` refuses, a parameter that
is left out while its bit is set. A constructor is its list of parameters. `Wire` composes
it with `Transport`: the packets are serialized objects, and only objects that can be
written are sent (`Sendable`).

### MC modules and variants

The MC modules only name the sets the `.cfg` files use; `MCWire` holds the schema and
the objects of its instances. A definition commented *Variant* is a
plausible bug in the definition that follows it: no specification uses it, and
the run of its property finds the property violated when it is put in that
definition's place.

## 4. What the runs check

States are distinct states; with two workers the longest runs take two to three minutes.

| run | instance | shows |
|---|---|---|
| `msg_ids` | 4 clock readings (0, 6, 9, 17), 4 server ids (-3, 5, 10, 19), ids up to 28 | `TypeOK`, `FreshIds`, `SeqNosFollowIds` |
| `rpc_one` | 1 call, 1 flood wait, 2 salt changes, 1 unasked message, containers of 2, a queue of 1; 0.4M states | `TypeOK`, `AtMostOnce`, `EntriesAreLiveOrDead`, `SaltLimitNeedsTwoRotations`, `EveryCallReturns` |
| `rpc_two` | 2 calls, one a ping, 1 salt change, containers of 2; 2.4M states | `ResultsAreEarned`, `WaitingIsRegistered`, `WireOrder`, `SettledOnce`, and the refinement `RespectsContract` |
| `calls` | 2 incoming calls, one answered by hand and one by a handler that awaits `accept`, 1 outgoing; one of them begins; 2 repeated updates, 1 stop; 170k states | `AnnouncedOnce`, `NeverGoesBack`, `ReasonsStand`, `EndsAreExplained`, `EndsTakeEffect`, `QueuedEndsArrive`, `AcceptedInHandlerConnects` |
| `updates` | 1 channel, 2 events of pts, 2 of qts, 1 new one of the channel, a queue of 1, one repeated push, drop at a full queue, stop or crash; 1.4M states | `NothingSkipped`, `SavedIsHanded`, `ChannelsCounted`, `ShortMessagesArrive` |
| `client` | 2 tasks, 2 connections, 2 loops, 1 kind of misuse, 1 cancellation, 1 crash; 2.5M states | `NoSocketLeftBehind`, `LoopReadsTheConnection`, `CallsListen`, `OnlyLaterConnectionsAreBare`, `SignInsSurvive`, `CloseRunsThrough` |
| `entities` | a user and a channel of the same id, 1 name, 1 phone, 1 task, 1 move, 1 update; 2.0M states | `EntriesWereTrue`, `ForcedIsCurrent`, `OnlyUnsavedIsLost` |
| `key_exchange` | prime 11, bytes of 4 values, pq of 15 and 77, 3 fingerprints, 3 small frames against a limit of 1, 1 fault; 1.2M states | `KeysAgree`, `FailsOnlyForCause`, `EveryExchangeEnds` |
| `wire` | bytes of 4 values, words of 2 bytes, both framings, 6 objects, one of which cannot be written, 2 of them served and 1 sent on each of 2 connections, chunks of up to 4; 1.1M states | `ObjectsArriveInOrder`, `NothingHeldBack`, `DecodeNeverRaises`, and the refinement `RespectsPipe` |

The type invariants of `CallSessions` and `UpdatesEngine` are in no run: they are proved
(section 6), for any constants.

Why the bounds are enough. *Ids*: 4 and 5, 9 and 10 share a floor, and readings lie
below, between and above the server ids, so every branch of `next` and `observe` meets
every order. *Sender*: one call meets every path alone, among them two refusals for the
salt (the limit of attempts) and an answer repeated after each, and an unasked message
in a container with the answer, which may make both undecodable. The incoming queue of 1
is filled and not overrun: no property of the sender depends on it, and what an overrun
costs is checked in `updates`, as a push that is dropped. Two calls are the least at
which an answer, a decode failure or a place in the lock can be another's. A third call
adds a queue position, no new relation between a caller and the receiver. *Calls*: the
sessions of different calls share only the queue and the loop. What another call does to
a call is to fill the queue (its own repeated updates do that, the queue holds 2) and to
delay the loop (a step that is enabled may be late in any run), so one call at a time is
enough for what is checked; the theorems hold for any number of calls. Two repeated
updates let a kind come twice and a late one follow the end; one stop separates what is
queued before from what comes after a restart. The own user id is known in the runs; the
theorems of section 6 hold without it too. *Updates*: a gap takes two events of a box,
the first of them lost; a slice that is not the whole takes two; a page of a channel
before one that fails takes one event. The queue of 1 makes pushes drop. The boxes share
`acc`, the phase and the fate of an object, and one event in each of two boxes is enough
for one to lose or mislead the other. One stop or crash is followed by a start from the
file. *Client*: two tasks are the least that overlap, and a third repeats a relation of
two; two connections and two loops are one that was left and one that came after it.
*Entities*: one id for a user and a channel makes every confusion of the two visible;
one move and one update are enough for an answer, an object and the truth to differ
pairwise, and names do not interact with each other. *Key exchange*: 77 takes the
general factorization, 15 the division by small primes; 2 has order 10 modulo 11, so
every key occurs, among them keys with a leading zero byte; 3 small frames in one round
exceed the limit and spread over two rounds do not. *Wire*: the limit of a short frame
is 3 words and of a short string 2 bytes; packets and objects lie below, at and above
them, and one string is longer than its length can say; a flag and an optional number
share a bit, with both given, one, and the one `dumps` refuses; chunks end at every
place of a frame. A second frame is the least that a first one can damage, a second
connection the least that can meet the rest of a first.

### Fairness

`EveryCallReturns` assumes that a send ends (`SendEnds`: it returns or raises)
and that a caller whose future, timer or sleep is due is resumed - both are the
event loop's. It assumes nothing of the receiver or the server: the timer of
`_invoke_tl_once` is what ends a call nobody answers. The assumption about sends
is needed, because the timer starts only after the send: a peer that never reads
blocks `drain`, and with it the lock, without limit.

The liveness properties of `CallSessions` assume that the updates task runs when
it can, that handlers return, and that every request is answered or fails, which
is what `EveryCallReturns` shows of the sender. Nothing is assumed of the user or
of the server.

`ShortMessagesArrive` assumes that the updates task goes on: its awaits end, with an
answer or an exception, since `invoke_api` has a timeout (`EveryCallReturns`).
Stopping, crashing and starting are nobody's duty, so the property says nothing of
a loop that was stopped or has died.

`EveryExchangeEnds` assumes that `connect` arms the timer of its `wait_for` before the
first request and that the timer fires; nothing is assumed of the server.

`CHECK_DEADLOCK FALSE` is in the configurations where the system may stop: all calls
returned, all phone calls over, nobody asking the client for anything, or a bound
reached. `key_exchange` checks for deadlock, with a step for an exchange that is over.
`entities` checks for it too.

## 5. Where the code does not do what it says

Three runs are expected to find a violation. Each quotes a text of the repository.

* `rpc_timeout` - `mtproto/rpc/sender.py:324` logs "Timed out waiting for RPC
  result; retrying once". `asyncio.wait_for` has cancelled the future by then, so
  `not fut.done()` is false and the request is never sent again. (`AtMostOnce`
  would not hold if it were: its mutant is that retry.)
* `updates_inline` - the comment at `mtproto/updates/engine.py:139`, "pull
  channelDifference and inline its results". When the object also has a gap in qts,
  `apply` returns the account's difference without them, and the channel's pts is
  already stored, so they are not fetched again before a restart.
* `codec_flags` - the round trip that `test_object_roundtrip_input_peer_user` asserts
  of one object. `TLReader.read_object` reads all flags words first
  (`tl/codec.py:536`), `TLWriter` writes them where the schema has them. `wallPaper`,
  `wallPaperNoFile` and `poll` have their id before their flags and are misread
  (a `poll` is read by a reader of its own inside `messageMediaPoll` only).

What holds in spite of it is stated beside: `EveryCallReturns` (the timer also ends a
call that registers itself after the crash handler of `_recv_loop` has run),
`ReasonsStand` (only the user's own operation rewrites a reason), `NeverGoesBack` (the
state itself stays), `ObjectsArriveInOrder` (for all objects whose flags come first and
with no flag set by another field on its bit, and in spite of one that is misread).
`EndsTakeEffect` names its two exceptions: the end that arrives before `call()` has
returned is lost with the session it was recorded in, and a call whose first update is
its end stays IDLE.

Other behaviour a reader of the code may not expect; the properties are stated so that
it is visible in them, and it has no run of its own:

* *sender*: one undecodable message of a container fails the calls of all results in
  it, the well-formed ones too, although `sender.py:575` logs "failing only related
  requests";
* *calls*: a `hangup` or `reject` that returns after the session has ended rewrites its
  reason and calls its handlers again (`ENDED -> ENDED` is allowed), although a test is
  named `test_terminal_states_are_terminal`;
* *updates*: an update that comes to a full subscriber's queue is dropped without a
  word, and the saved numbers count it as seen;
* *client*: when the updates loop has died of a failed request, nobody is told: the
  calls manager goes on without updates (`CallsListen` names it), and every `close`
  raises the loop's exception before it closes anything; a `connect` whose first request
  fails keeps the closed connection, and the next `connect` returns at once; two
  connects at once leave the first one's socket open, as does a cancellation in the key
  exchange; two starts, or a start during a close, leave a loop that nobody stops; a
  `close` of the raw client under a running manager leaves the manager deaf;
  `_did_init_connection` is not reset, so that after a failed or cut first request on a
  second connection requests go out without `initConnection`; a cancelled first request
  leaves a usable connection whose key is not in the file; an exception of
  `Client.connect` behind the raw connect leaves the connection open;
* *entities*: a user shadows a channel with the same bare id; "phone:1555" is taken for
  an id, and "+1555" and "1555" are two keys, of which ingestion fills one;
* *key exchange*: the nonce in `resPQ` is not compared with the one sent; a key whose
  first byte is zero is shortened (`auth/dh.py`), its hash does not match and the
  exchange fails, once in 256 times; `dh_gen_retry` is not followed; besides the
  documented `AuthHandshakeError`, `DhError`, `PqFactorizationError` and
  `TransportError` may be raised;
* *codec*: the length of a string of 2^24 bytes or more is cut; of two parameters that
  share a bit (as in `account.password`), one given and one left out make `dumps` raise,
  and a flag that is not set reads as set when a field on its bit is given.

## 6. What is proved

For every value of the constants, under the assumptions of the modules.

*MsgIdsProofs* - from `Clocks \subseteq Nat` and `RemoteIds \subseteq Int`:
`TypeCorrect`, `StampsCorrect` (`SeqNosFollowIds` and `IdsIdentifyMessages`),
`FreshIdsCorrect`. That an id is fresh does not follow from types: the invariant
`IInv` adds that `_last` is divisible by 4, is at least every id issued and at
least the floor of every id seen (`LastIsBound`), that sequence numbers taken so
far are below twice the counter (`SeqIsBound`), and that ids order them
(`StampsOrdered`). Divisibility is what turns "above the floor of a server id"
into "above the server id": the next multiple of 4 after a floor is above it.

*CallSessionsProofs* - from the assumption that incoming and outgoing calls are
disjoint: `TypeCorrect`. Its invariant `TInv` adds to the types that the loop
awaits handlers of calls in the table only, that the session of `call()` does not
exist before `call()` has returned, and that operations run on existing sessions;
without these a step could write the state of a session that is absent. One lemma
per action, combined in `NextTInv`.

In the same module, on `TInv`: `ForwardCorrect` (`NeverGoesBack`), `ExplainedCorrect`
(`EndsAreExplained`), `ReasonsCorrect` (`ReasonsStand`), `AnnouncedCorrect`
(`AnnouncedOnce`) and `EndsCorrect` (`EndsTakeEffect`). `AnnouncedOnce` needs that a
call that has been announced has a session in the table that is past IDLE, so it
cannot ring again, and that while the own id is known no session of an outgoing call
is taken for an incoming one (`RInv`). `EndsTakeEffect` needs `OInv`: nobody has heard
of a call the server has not made (`Unheard`); updates that can ring come before the
end of their call in the queue, and none comes once the end was handled
(`RingsFirst`); the session that `call()` made is the one in the table and past IDLE,
and an end that came before it is noted as such (`Called`).

*RpcSenderProofs* - from `NoCall` being no call and the bounds being numbers:
`TypeCorrect` and `WireOrderCorrect` (`WireOrder`). `WireOrder` compares an id with the
last one written, so `TInv` adds to the types that no id in the tables, the lock, the
mail or the server is above the last one taken, and that the new packets in the lock
are in the order of their ids and above all that were written. Both survive a
withdrawal from the middle of the lock, by a lemma about queues that lose a member
(`WithoutThins`); the messages that are on their way are treated as one such queue of
places, from the rest of the packet being read to the last packet sent (`Moved`).

In the same module: `ExecutedAtMostOnce`, `EntriesCorrect`, `WaitingCorrect`,
`SettledOnceCorrect`, all from `RInv`. At-most-once is not inductive: a request that
has been executed must not be under way again, and what puts it under way again is
spread over the caller, the lock, the server and the receiver. `RInv` says whose turn
it is: at most one of them has the right to act on a call's request, as an own round
not yet sent, a job of the lock, a request at the server or a refusal in the mail, and
an execution ends the turns (`Turns`); an id never leads to another call than the one
it was taken for (`Owners`); and a call in the tables is waiting, or done with a
settled future (`Tables`).

Also in it: `ResultsCorrect` (`ResultsAreEarned`): a result on its way
has an execution of the same id behind it. `ContractCorrect`: `Init` maps to the
contract's, and each step of the sender to one of the contract's actions or a stutter
(`CallMoves` lists what a step may do to a call's place and outcome; the mapping is
that of `RpcSender`, from `pc`, `outcome` and `executed`). `SaltLimitCorrect`
(`SaltLimitNeedsTwoRotations`), from `Salts`: nobody knows a salt the server has not
had, the salts on their way never go back, and a call that has been sent twice was
last sent under a salt the server told - so its second refusal tells of a third one.

*UpdatesEngineProofs* - from "pts" and "qts" being no channels: `UpdatesTypeCorrect`,
`NothingSkippedCorrect`, `SavedIsHandedCorrect`, `ChannelsCountedCorrect`. The three
properties are inductive together with `LoopOK` and `QueueOK`, which say what is empty
at which await: what `apply` holds is empty while the loop waits, a page is only held
during a channel difference, a short object holds one event of the account. Without
them a stop could save numbers for events that are in no variable any more. The walk
over the `updateChannel`s of an object is the index `at`, not a filtered copy, which
the provers could not follow.

*EntityCacheProofs* - from `Nobody` being no peer: `EntriesCorrect`, `ForcedCorrect`,
`LostCorrect`. What enters the cache was made by the server earlier and has waited in
an update or an answer; `EInv` says that such an object states only what has been
true (`Pushed`, `Answers`), that the present owner of what a task asks for is among
those it may be told, and that its answer names one of them under the key it asked for
(`Asked`); `Kept` bounds what the file lacks by what was learnt since a save.

*ClientLifecycleProofs* - from the bounds being positive: the five invariants and the
action property of `ClientLifecycle`. What misuse does is part of the behaviours, so
each part of `LInv` names the kinds of it that it does not survive, and is shown to
survive all the others. `SocketsCorrect` (`NoSocketLeftBehind`) needs that a task that
dials is the only one to connect and finds no connection, that one task closes at a time
and its connection is not forgotten meanwhile, and that a socket that may be given up is
not open (`ConnInv`). `SignInsCorrect` (`SignInsSurvive`) needs that a connection on
which requests can be sent has the saved key, or will have once its first request is
answered, and that after a sign-in nobody exchanges another (`KeyInv`): it is why a
crash between the exchange and the save is harmless. `LoopCorrect`
(`LoopReadsTheConnection`) needs that a task that starts updates finds none running and
nobody who stops them, that a task that stops waits for the very loop there is, and that
a connection is not replaced while a loop reads from it (`LoopInv`).
`CallsListenCorrect` (`CallsListen`) needs that nobody closes while the manager is on
(`CallsInv`), and that the loop there is has a connection and an initialised engine and
is cancelled only by a task that waits for its end (`LoopSound`); what is left is the
loop that died of a failed request. `BareCorrect` (`OnlyLaterConnectionsAreBare`) and
`CloseCorrect` (`CloseRunsThrough`) follow from `BareInv` and `ConnInv`. The actions
share their parts (`Goto`, `Ask`, `StopBody`, ...), and so do the lemmas: what a part
does is said once (`...Does`), and what that means for a part of the invariant once for
each.

*KeyExchangeProofs* - `KeysAgreeCorrect` (`KeysAgree`), from nothing but the
declarations. The client compares the hash it is told with that of its own bytes, so
the hash on its way must be of the key that is stored: the request to store one is
sent once, no answer to it comes before, and none after replaces the key (`KInv`).
Frames lost, stray, foreign or too short change nothing of that.

In the same module, `FailuresCorrect` (`FailsOnlyForCause`), from the prime being prime,
the numbers to factorize being products of two primes, and the factors that are tried
first being prime. `HInv` says of an exchange without faults that it is between a
request and its answer or between the answer and its reader, that what is on its way is
what the other side expects, and that the small frames read and on their way in a round
are among those sent since the last answer - so that a round fails for its own small
frames only. That what is expected passes the checks is arithmetic: a divisor of a
product of two primes is one of them (`PrimeDivides`, `FactorsAreRight`), both sides
compute the same power (`PowersCommute`), and a number whose leading byte is not zero
has all its bytes (`BytesAreFull`). The inductions are over numbers, with a rule for
sets (`SetInduction`) derived from the library's well-founded orders, since the rules
for operators cannot be used; that the recursion of `Power` has a solution is part of
the proof (`PowerSteps`).

*TransportProofs* - from a byte having at least two values, the marker being a byte, a
header being at least one byte, no length below the sign bit needing more of them than
it has, packets being byte strings and a chunk being at least one byte:
`TransportRespectsPipe` (`RespectsPipe`), `TransportHoldsNothingBack`
(`NothingHeldBack`), `TransportDecodes` (`DecodeNeverRaises`). A packet need not be in
words or within the limit of its framing: `encode` refuses those that are not. The
invariant `IInv` says of each direction that the bytes buffered, followed by those in
the socket, are a beginning of the frames of the packets that were sent and not
returned, and all of them while the stream has not ended (`Carries`). A cut anywhere
leaves a beginning (`CarriesPrefix`), a send extends it (`CarriesAppend`), a packet that
is returned shortens it at the front (`CarriesNext`). Cutting a chunk off the socket
changes nothing (`Rejoin`), and this is why it matters that nothing that was read is
ever thrown away: with a buffer that a cancelled `recv` empties, or one that outlives
its connection, the invariant fails, and so do `DecodeNeverRaises` and `RespectsPipe` in
their mutants. What a beginning of a frame looks like to `decode_from_buffer` is the
theorem `FrameRead`: it has a whole frame exactly when it is as long as the frame, and
then the packet is the one that was encoded. That rests on arithmetic: the digits of a
length give the length back (`NumberOfDigits`), a short length is not the marker
(`HeaderRead`). `Number`, `Weight` and the places where frames end are recursions over
numbers; that they have solutions is `Recursion`.

Only model-checked:

* all liveness: `EveryCallReturns`, `QueuedEndsArrive`, `AcceptedInHandlerConnects`,
  `ShortMessagesArrive`, `EveryExchangeEnds` - fairness and ENABLED are out of the
  prover's reach;
* `ObjectsArriveInOrder` of `Wire`, the round trip of `TlCodec`: the codec is
  recursive over its data, and what a recursive definition computes for every input
  cannot be proved here. That the packets it writes arrive whole and in order is
  proved, of any packets.

## 7. What is not modelled

* The sign-in and the request wrappers of the raw client: each sends a request and
  returns its answer. Left out of `EntityCache` are the helpers that build an
  `InputUser` or `InputChannel` the way `resolve_input_peer` builds an `InputPeer`.
* Cryptography, primality and hashing, and the password check (`auth/srp.py`):
  arithmetic on byte strings and 2048-bit numbers, out of TLC's reach, covered by test
  vectors.
* Of the codec, the readers of polls and themes, which resynchronize on malformed
  input by guessing, and gzip. Containers and results are message kinds of `RpcSender`.
* The generated classes (most of the repository's lines) are data of the codec, and
  the schema compiler that writes them is a text transformation at build time.
* The contents of the JSON files and their validation; a file is one value, replaced
  whole, as the temporary file and the rename make it.
* The thin API wrappers and the command line tools: they keep no state.

## 8. Running

    tlc -workers 2 -config MCRpcSenderOne.cfg MCRpcSender
    tlapm MsgIdsProofs.tla

and so on: `PROJECT.json` pairs each `.cfg` with its module.
