--------------------------- MODULE MCEntityCache ---------------------------
(* TLC instances of EntityCache: a user and a channel with the same id.    *)
EXTENDS EntityCache
=============================================================================
