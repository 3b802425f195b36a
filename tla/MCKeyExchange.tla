--------------------------- MODULE MCKeyExchange ----------------------------
(* TLC instance of KeyExchange: a prime of two "bytes" and three RSA keys. *)
EXTENDS KeyExchange

MCKeyring == <<3, 2>>
=============================================================================
