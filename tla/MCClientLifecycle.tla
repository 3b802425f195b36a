------------------------- MODULE MCClientLifecycle -------------------------
(* TLC instances of ClientLifecycle: two tasks of one client, which are    *)
(* interchangeable.                                                        *)
EXTENDS ClientLifecycle, TLC

Interchangeable == Permutations(Tasks)
=============================================================================
