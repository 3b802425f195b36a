--------------------------- MODULE MCCallSessions ---------------------------
(***************************************************************************)
(* TLC instances of CallSessions: an incoming call answered by the user,   *)
(* one answered by its incoming handler, and an outgoing one.              *)
(***************************************************************************)
EXTENDS CallSessions

CONSTANTS i1, i2, o1

Rung == {i1, i2}
ByHandler == {i2}
Placed == {o1}
None == {}
=============================================================================
