-------------------------- MODULE MCUpdatesEngine --------------------------
(* TLC instances of UpdatesEngine: the account and one channel.            *)
EXTENDS UpdatesEngine
=============================================================================
