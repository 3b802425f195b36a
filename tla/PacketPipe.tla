----------------------------- MODULE PacketPipe -----------------------------
(***************************************************************************)
(* What a connection promises, without bytes, frames or chunks: packets go *)
(* in at both ends, and come out at the other one by one, whole, in their  *)
(* order and once.  A connection may end with packets still in it, which   *)
(* never come out of the next one.                                         *)
(***************************************************************************)
EXTENDS Integers, Sequences

CONSTANT Packets

VARIABLES
    conn,         \* number of the connection
    sent,         \* packets the server has sent on it
    got,          \* packets the client has taken out
    asked,        \* packets the client has sent on it
    heard         \* packets the server has taken out
vars == <<conn, sent, got, asked, heard>>

Init == conn = 0 /\ sent = <<>> /\ got = <<>> /\ asked = <<>> /\ heard = <<>>

NewConnection ==
    /\ conn' = conn + 1
    /\ sent' = <<>> /\ got' = <<>> /\ asked' = <<>> /\ heard' = <<>>

ServerPuts(p) == sent' = Append(sent, p) /\ UNCHANGED <<conn, got, asked, heard>>
ClientPuts(p) == asked' = Append(asked, p) /\ UNCHANGED <<conn, sent, got, heard>>

ClientTakes ==
    /\ Len(got) < Len(sent)
    /\ got' = Append(got, sent[Len(got) + 1])
    /\ UNCHANGED <<conn, sent, asked, heard>>
ServerTakes ==
    /\ Len(heard) < Len(asked)
    /\ heard' = Append(heard, asked[Len(heard) + 1])
    /\ UNCHANGED <<conn, sent, got, asked>>

Next ==
    \/ NewConnection
    \/ \E p \in Packets : ServerPuts(p) \/ ClientPuts(p)
    \/ ClientTakes \/ ServerTakes

Spec == Init /\ [][Next]_vars
=============================================================================
