------------------------------ MODULE MCMsgIds ------------------------------
(***************************************************************************)
(* TLC instance of MsgIds: a clock that stands still, jumps ahead and is   *)
(* set back, and server ids below, between and above the client's own, one *)
(* of them negative.                                                       *)
(***************************************************************************)
EXTENDS MsgIds

MCClocks == {0, 6, 9, 17}
MCRemoteIds == {-3, 5, 10, 19}

=============================================================================
