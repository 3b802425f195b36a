---------------------------- MODULE MCRpcSender ----------------------------
(***************************************************************************)
(* TLC instances of RpcSender: one call with everything a call can meet,   *)
(* and two calls, one of them a ping, competing for the lock and the       *)
(* receiver.                                                               *)
(***************************************************************************)
EXTENDS RpcSender

CONSTANTS c1, c2

OneCall == {c1}
TwoCalls == {c1, c2}
NoPings == {}
OnePing == {c2}

=============================================================================
