---------------------------- MODULE KeyExchange -----------------------------
(***************************************************************************)
(* The exchange of the authorization key (mtproto/auth/handshake.py with   *)
(* auth/dh.py, auth/pq.py, auth/kdf.py, core/unencrypted.py): three        *)
(* requests, each answered by the first frame that is not a small one.     *)
(*                                                                         *)
(* The arithmetic is real, over a small prime and a small base for bytes.  *)
(* Encryption is left out: the other side reads what is encrypted for it.  *)
(* Server, network and the caller's timer are external.                    *)
(***************************************************************************)
EXTENDS Integers, Sequences, SequencesExt, FiniteSetsExt

CONSTANTS
    Prime, Generator, \* dh_prime and g of the server
    Base,             \* how many values a byte has
    KeyLength,        \* bytes of dh_prime
    SmallPrimes,      \* the factors that factorize_pq tries by division
    PqNumbers,        \* what the server asks the client to factorize
    Keyring,          \* fingerprints of the client's RSA keys, in order
    Fingerprints,     \* all fingerprints
    MaxSmall,         \* max_ignored_small_frames
    MaxFrames,        \* max_frames
    MaxQuick,         \* bound: small frames the server sends
    MaxFaults,        \* bound: faults of the server or the network
    None

IsPrime(n) == n > 1 /\ \A d \in 2..(n - 1) : n % d # 0
Ordered(p, q) == IF p < q THEN <<p, q>> ELSE <<q, p>>

ASSUME ConstantsAssumption ==
    /\ Prime \in Nat /\ IsPrime(Prime) /\ Generator \in 2..(Prime - 1)
    /\ Base \in Nat \ {0, 1} /\ KeyLength \in Nat \ {0}
    /\ Base^KeyLength > Prime
    /\ PqNumbers \subseteq Nat /\ SmallPrimes \subseteq Nat
    /\ \A s \in SmallPrimes : IsPrime(s)
    /\ \A n \in PqNumbers : \E p, q \in 2..n :
           p < q /\ p * q = n /\ IsPrime(p) /\ IsPrime(q)
    /\ Keyring \in Seq(Fingerprints)
    /\ {MaxSmall, MaxFrames, MaxQuick, MaxFaults} \subseteq Nat

VARIABLES
    pc,        \* the request the client waits in, or how the exchange ended
    small,     \* ignored_small of that request
    nonce,     \* st.nonce: what resPQ said it was
    authKey,   \* dh_res.auth_key
    toServer,  \* the request on its way, or None
    toClient,  \* the frames on their way
    server,    \* what the server has chosen, and the key it has stored
    answers,   \* how many requests the server has answered
    quick,     \* history: small frames sent after so many answers
    faults     \* history: what went wrong outside the client
clientVars == <<pc, small, nonce, authKey>>
vars == <<clientVars, toServer, toClient, server, answers, quick, faults>>

Waiting == {"pq", "dh", "set"}
Ended == {"done", "failed"}
OurNonce == 1
ForeignNonce == 2

(***************************************************************************)
(* Pure parts.                                                             *)
(***************************************************************************)
BigEndian(n, k) == [i \in 1..k |-> (n \div Base^(k - i)) % Base]

(* _int_to_be_bytes: as many bytes as the number has, or one.              *)
ByteLength(n) == Max({1} \cup {k \in 1..KeyLength : n \div Base^(k - 1) # 0})
Bytes(n) == BigEndian(n, ByteLength(n))

(* The server hashes the key at the length of the prime.                   *)
FullBytes(n) == BigEndian(n, KeyLength)

Power(b, e) ==
    LET power[i \in Nat] == IF i = 0 THEN 1 ELSE (power[i - 1] * b) % Prime
    IN  power[e]

(* new_nonce_hash of the key; the new nonce is the same on both sides.     *)
NonceHash(number, key) == <<number, key>>

(* _pollard_rho returns 2, 3, or any proper divisor.                       *)
Rho(n) == IF n % 2 = 0 THEN {2} ELSE IF n % 3 = 0 THEN {3}
          ELSE {d \in 2..(n - 1) : n % d = 0}
Refined(n) == IF IsPrime(n) THEN {n} ELSE Rho(n)

(* What factorize_pq may return; nothing when it raises.                   *)
Factorizations(n) ==
    LET small_ == {s \in SmallPrimes : n % s = 0}
        found == {x \in (2..n) \X Rho(n) : x[1] \in Refined(x[2])}
        pairs == UNION {{<<f[1], q>> : q \in Refined(n \div f[2])} : f \in found}
    IN  IF n <= 1 \/ IsPrime(n) THEN {}
        ELSE IF small_ # {} THEN {Ordered(Min(small_), n \div Min(small_))}
        ELSE {Ordered(f[1], f[2]) : f \in {g \in pairs : g[1] * g[2] = n}}

(* build_pq_inner_data: the inner data that a resPQ allows; it raises when *)
(* there is none.  The fingerprint it notes is chosen again by the caller. *)
InnerData(resPQ) ==
    {[nonce |-> resPQ.nonce, factors |-> x] :
        x \in {y \in Factorizations(resPQ.pq) : resPQ.offered # {}}}

Init ==
    /\ pc = "start" /\ small = 0 /\ nonce = None /\ authKey = None
    /\ toServer = None /\ toClient = <<>>
    /\ server \in [pq : PqNumbers, offered : SUBSET Fingerprints,
                   a : 1..(Prime - 1), key : {None}]
    /\ answers = 0 /\ quick = [r \in 0..3 |-> 0] /\ faults = {}

(***************************************************************************)
(* The client.                                                             *)
(***************************************************************************)
\* Variant: one count of small frames for the whole exchange.
RequestKeepsCount(round, req) ==
    pc' = round /\ UNCHANGED small /\ toServer' = req
(* _send_unencrypted_request begins: one frame out, nothing ignored yet.   *)
Request(round, req) == pc' = round /\ small' = 0 /\ toServer' = req
Fail == pc' = "failed" /\ UNCHANGED <<small, nonce, authKey, toServer>>

SendReqPq ==
    /\ pc = "start"
    /\ Request("pq", [kind |-> "reqPq"])
    /\ UNCHANGED <<nonce, authKey, toClient, server, answers, quick, faults>>

Arrived == IF toClient = <<>> THEN {} ELSE {Head(toClient)}

(* The next frame, taken by the request the client waits in.               *)
Reads(f) ==
    /\ pc \in Waiting
    /\ f = Head(toClient) /\ toClient' = Tail(toClient)
    /\ UNCHANGED <<server, answers, quick, faults>>

\* Variant: no limit.
IgnoreSmallEndless ==
    \E f \in Arrived :
        /\ Reads(f) /\ f.kind = "small"
        /\ small' = small + 1 /\ UNCHANGED <<pc, nonce, authKey, toServer>>
(* Too short for an envelope: skipped, up to a limit.                      *)
IgnoreSmall ==
    \E f \in Arrived :
        /\ Reads(f) /\ f.kind = "small"
        /\ IF small + 1 > MaxSmall \/ small + 1 >= MaxFrames
           THEN Fail
           ELSE small' = small + 1 /\ UNCHANGED <<pc, nonce, authKey, toServer>>

(* An envelope that does not parse, or an object of another step.          *)
Expected == [pq |-> {"resPQ"}, dh |-> {"dhOk"},
             set |-> {"genOk", "genRetry", "genFail"}]
ReadUnexpected ==
    \E f \in Arrived :
        Reads(f) /\ f.kind # "small" /\ f.kind \notin Expected[pc] /\ Fail

(* req_DH_params: the inner data under the key of a fingerprint.           *)
ReqDh(inner, fingerprint) ==
    [kind |-> "reqDh", nonce |-> inner.nonce, factors |-> inner.factors,
     fingerprint |-> fingerprint]

\* Variant: only the first fingerprint offered is looked up.
GotResPqFirstOffered ==
    \E f \in Arrived :
        /\ Reads(f) /\ pc = "pq" /\ f.kind = "resPQ"
        /\ IF InnerData(f) = {} \/ Min(f.offered) \notin Range(Keyring)
           THEN Fail
           ELSE \E inner \in InnerData(f) :
                    /\ Request("dh", ReqDh(inner, Min(f.offered)))
                    /\ nonce' = inner.nonce /\ UNCHANGED authKey
(* resPQ: its nonce is taken as it is; factorize, pick the first of the    *)
(* client's RSA keys that the server offers, send req_DH_params.           *)
GotResPq ==
    \E f \in Arrived :
        /\ Reads(f) /\ pc = "pq" /\ f.kind = "resPQ"
        /\ LET known == {i \in DOMAIN Keyring : Keyring[i] \in f.offered}
           IN  IF known = {} \/ InnerData(f) = {} THEN Fail
               ELSE \E inner \in InnerData(f) :
                        /\ Request("dh", ReqDh(inner, Keyring[Min(known)]))
                        /\ nonce' = inner.nonce /\ UNCHANGED authKey

(* server_DH_params_ok: compare the inner nonce, check g_a, draw b.        *)
GotDhParams ==
    \E f \in Arrived :
        /\ Reads(f) /\ pc = "dh" /\ f.kind = "dhOk"
        /\ IF f.nonce # nonce \/ f.ga <= 1 \/ f.ga >= Prime - 1 THEN Fail
           ELSE \E b \in 1..(Prime - 1) :
                    /\ authKey' = Bytes(Power(f.ga, b))
                    /\ Request("set", [kind |-> "setDh",
                                       gb |-> Power(Generator, b)])
                    /\ UNCHANGED nonce

\* Variant: the hash is not compared.
GotGenUnchecked ==
    \E f \in Arrived :
        /\ Reads(f) /\ pc = "set" /\ f.kind \in Expected["set"]
        /\ IF f.kind = "genOk"
           THEN pc' = "done" /\ UNCHANGED <<small, nonce, authKey, toServer>>
           ELSE Fail
(* dh_gen_ok with the hash of the key ends the exchange; every other       *)
(* answer is an error, dh_gen_retry with the right hash too.               *)
GotGen ==
    \E f \in Arrived :
        /\ Reads(f) /\ pc = "set" /\ f.kind \in Expected["set"]
        /\ IF f.kind = "genOk" /\ f.hash = NonceHash(1, authKey)
           THEN pc' = "done" /\ UNCHANGED <<small, nonce, authKey, toServer>>
           ELSE Fail

\* Variant: the timer is around the first request only.
TimeoutFirstOnly ==
    /\ pc = "pq" /\ Fail /\ faults' = faults \cup {"timeout"}
    /\ UNCHANGED <<toClient, server, answers, quick>>
(* asyncio.wait_for of connect() is around the whole exchange.             *)
Timeout ==
    /\ pc \in Waiting /\ Fail /\ faults' = faults \cup {"timeout"}
    /\ UNCHANGED <<toClient, server, answers, quick>>

(***************************************************************************)
(* The server and the network (external).                                  *)
(***************************************************************************)
Answer(f) ==
    /\ toServer' = None /\ toClient' = Append(toClient, f)
    /\ answers' = answers + 1 /\ UNCHANGED <<clientVars, quick>>

Asked(kind) == toServer # None /\ toServer.kind = kind

AnswerReqPq(n) ==
    /\ Asked("reqPq")
    /\ Answer([kind |-> "resPQ", nonce |-> n, pq |-> server.pq,
               offered |-> server.offered])
    /\ UNCHANGED server

(* req_DH_params is right: the nonces, the factors and the RSA key.        *)
RightReqDh ==
    /\ Asked("reqDh")
    /\ toServer.nonce = OurNonce /\ toServer.fingerprint \in server.offered
    /\ LET p == toServer.factors[1]  q == toServer.factors[2]
       IN  p < q /\ IsPrime(p) /\ IsPrime(q) /\ p * q = server.pq

AnswerReqDh(n) ==
    /\ RightReqDh
    /\ Answer([kind |-> "dhOk", nonce |-> n, ga |-> Power(Generator, server.a)])
    /\ UNCHANGED server

(* The server stores the key and says so, or it asks for another.          *)
AnswerSetDh(kind) ==
    LET key == FullBytes(Power(toServer.gb, server.a))
        number == CHOOSE i \in 1..3 : <<"genOk", "genRetry", "genFail">>[i] = kind
    IN  /\ Asked("setDh")
        /\ Answer([kind |-> kind, hash |-> NonceHash(number, key)])
        /\ server' = IF kind = "genOk" THEN [server EXCEPT !.key = key] ELSE server

ServerAnswers ==
    /\ \/ AnswerReqPq(OurNonce) \/ AnswerReqDh(OurNonce) \/ AnswerSetDh("genOk")
       \/ Asked("reqDh") /\ ~RightReqDh /\ UNCHANGED server
          /\ Answer([kind |-> "dhFail"])
    /\ UNCHANGED faults

(* Frames too short for an envelope, between the answers.                  *)
QuickAck ==
    /\ pc \in Waiting
    /\ FoldFunction(LAMBDA x, y : x + y, 0, quick) < MaxQuick
    /\ toClient' = Append(toClient, [kind |-> "small"])
    /\ quick' = [quick EXCEPT ![answers] = @ + 1]
    /\ UNCHANGED <<clientVars, toServer, server, answers, faults>>

ServerFails ==
    /\ Cardinality(faults) < MaxFaults
    /\ \/ /\ AnswerReqPq(ForeignNonce) \/ AnswerReqDh(ForeignNonce)
          /\ faults' = faults \cup {"foreign"}
       \/ /\ \E kind \in {"genRetry", "genFail"} : AnswerSetDh(kind)
          /\ faults' = faults \cup {"refused"}
       \/ /\ Asked("reqDh") /\ Answer([kind |-> "dhFail"]) /\ UNCHANGED server
          /\ faults' = faults \cup {"refused"}
       \/ /\ pc \in Waiting
          /\ \E f \in {[kind |-> "garbled"],
                       [kind |-> "resPQ", nonce |-> OurNonce, pq |-> server.pq,
                        offered |-> server.offered]} :
                 toClient' = Append(toClient, f)
          /\ faults' = faults \cup {"stray"}
          /\ UNCHANGED <<clientVars, toServer, server, answers, quick>>

ConnectionLost ==
    /\ pc \in Waiting /\ toClient = <<>> /\ Fail
    /\ faults' = faults \cup {"closed"}
    /\ UNCHANGED <<toClient, server, answers, quick>>

Over == pc \in Ended /\ UNCHANGED vars

Next ==
    \/ SendReqPq \/ IgnoreSmall \/ ReadUnexpected
    \/ GotResPq \/ GotDhParams \/ GotGen \/ Timeout
    \/ ServerAnswers \/ QuickAck \/ ServerFails \/ ConnectionLost \/ Over

(* connect() arms its timer at once and the event loop runs what is ready. *)
Spec == Init /\ [][Next]_vars /\ WF_vars(SendReqPq) /\ WF_vars(Timeout)

-----------------------------------------------------------------------------
(* A client that ends the exchange with a key has the very bytes that the  *)
(* server has stored, whatever went wrong on the way: a shorter encoding   *)
(* of the same number would encrypt nothing the server can read.           *)
KeysAgree == pc = "done" => authKey = server.key

(* The exchange fails only for something outside it: a fault, too many     *)
(* small frames in one request, no RSA key in common, an unusable g_a; or  *)
(* because the key has a leading zero byte, which _int_to_be_bytes drops   *)
(* and the server hashes.  And for too many small frames it does fail.     *)
FailsOnlyForCause ==
    /\ pc = "failed" =>
        \/ faults # {}
        \/ \E r \in 0..2 : quick[r] > MaxSmall \/ quick[r] >= MaxFrames
        \/ Range(Keyring) \cap server.offered = {}
        \/ Power(Generator, server.a) \in {1, Prime - 1}
        \/ answers = 3 /\ server.key[1] = 0
    /\ pc \in Waiting => small <= MaxSmall

(* Every exchange ends: no round of it can outlive the timer of connect(). *)
EveryExchangeEnds == <>(pc \in Ended)
=============================================================================
