------------------------------ MODULE Transport -----------------------------
(***************************************************************************)
(* A connection (transport/tcp.py): packets are framed, written to a       *)
(* socket, cut into chunks anyhow, and put together again by               *)
(* TcpTransport.recv, whose caller may give up waiting at any time.        *)
(* Encryption, above, hands on packets and is left out.  The server frames *)
(* like the code and is external, as is TCP.                               *)
(*                                                                         *)
(* A step runs from one await to the next: recv() awaits only reader.read, *)
(* and what that returns is in _rx_buf before anything else can happen.    *)
(***************************************************************************)
EXTENDS Framing

CONSTANTS
    Framings,     \* the framings to try
    Packets,      \* packets that are sent
    ChunkSize,    \* the most bytes that reader.read returns (4096)
    MaxSends,     \* bound: packets the client sends on a connection
    MaxServed,    \* bound: packets the server sends on it
    MaxConns      \* bound: connections

ASSUME TransportAssumption ==
    /\ Framings \subseteq Kinds /\ Packets \subseteq Seq(Byte)
    /\ ChunkSize \in Nat \ {0}

VARIABLES
    framing,    \* of the transport
    conn,       \* history: number of the connection
    state,      \* of the connection; "closing" while close() waits
    rxBuf,      \* _rx_buf
    recv,       \* the task in recv(): "idle" or "reading"
    toClient,   \* bytes in the socket that reader.read can return
    eof,        \* whether the stream ends after them
    toServer,   \* bytes for the server, the header first
    sent,       \* history: packets the server has sent on this connection
    got,        \* history: what recv() has returned on it
    asked,      \* history: packets the client has sent on it
    heard       \* history: what the server has read of them
connVars == <<framing, conn>>
inVars == <<rxBuf, recv, toClient, eof, sent, got>>
outVars == <<toServer, asked, heard>>
vars == <<connVars, state, inVars, outVars>>

Init ==
    /\ framing \in Framings
    /\ conn = 0 /\ state = "closed"
    /\ rxBuf = <<>> /\ recv = "idle" /\ toClient = <<>> /\ eof = FALSE
    /\ toServer = <<>> /\ sent = <<>> /\ got = <<>> /\ asked = <<>>
    /\ heard = <<>>

(***************************************************************************)
(* TcpTransport.                                                           *)
(***************************************************************************)
(* connect(): a new socket, the header of the framing first.               *)
Connect ==
    /\ state = "closed" /\ conn < MaxConns
    /\ conn' = conn + 1 /\ state' = "open"
    /\ toServer' = ConnectHeader(framing) /\ toClient' = <<>> /\ eof' = FALSE
    /\ sent' = <<>> /\ got' = <<>> /\ asked' = <<>> /\ heard' = <<>>
    /\ UNCHANGED <<framing, rxBuf, recv>>

(* send(): one frame, or an error and nothing written.  Until close() has   *)
(* ended there are still a reader and a writer.                            *)
Send(p) ==
    /\ state # "closed" /\ Len(asked) < MaxSends
    /\ IF CanEncode(framing, p)
       THEN toServer' = toServer \o Encode(framing, p) /\ asked' = Append(asked, p)
       ELSE UNCHANGED <<toServer, asked>>
    /\ UNCHANGED <<connVars, state, inVars, heard>>

\* One whole frame is returned, or the wait begins or goes on.
TakeFrame(b) ==
    IF HasFrame(framing, b)
    THEN /\ rxBuf' = AfterFrame(framing, b) /\ recv' = "idle"
         /\ got' = Append(got, FirstPacket(framing, b))
    ELSE rxBuf' = b /\ recv' = "reading" /\ UNCHANGED got

\* Variant: recv() reads before it has looked at the buffer.
RecvReadsFirst ==
    /\ state # "closed" /\ recv = "idle"
    /\ recv' = "reading" /\ UNCHANGED <<rxBuf, got>>
    /\ UNCHANGED <<connVars, state, toClient, eof, sent, outVars>>
\* recv() looks at the buffer before and after every read.
Recv ==
    /\ state # "closed" /\ recv = "idle" /\ TakeFrame(rxBuf)
    /\ UNCHANGED <<connVars, state, toClient, eof, sent, outVars>>

ReadChunk ==
    /\ recv = "reading" /\ toClient # <<>>
    /\ \E n \in 1..Len(toClient) :
           /\ n <= ChunkSize
           /\ TakeFrame(rxBuf \o SubSeq(toClient, 1, n))
           /\ toClient' = SubSeq(toClient, n + 1, Len(toClient))
    /\ UNCHANGED <<connVars, state, eof, sent, outVars>>

(* The end of the stream is an error, also in the middle of a frame.       *)
ReadEnds ==
    /\ recv = "reading" /\ toClient = <<>> /\ eof
    /\ recv' = "idle"
    /\ UNCHANGED <<connVars, state, rxBuf, toClient, eof, sent, got, outVars>>

\* Variant: what has been read is a local of recv().
CancelRecvDropping ==
    /\ recv = "reading" /\ recv' = "idle" /\ rxBuf' = <<>>
    /\ UNCHANGED <<connVars, state, toClient, eof, sent, got, outVars>>
(* The task that waits in recv() is cancelled, or its wait_for times out.  *)
CancelRecv ==
    /\ recv = "reading" /\ recv' = "idle"
    /\ UNCHANGED <<connVars, state, rxBuf, toClient, eof, sent, got, outVars>>

(* close(): the socket is closed, which ends a pending read; what the      *)
(* reader has taken from it can still be read ...                          *)
Close ==
    /\ state = "open" /\ state' = "closing" /\ eof' = TRUE
    /\ \E n \in 0..Len(toClient) : toClient' = SubSeq(toClient, 1, n)
    /\ UNCHANGED <<connVars, rxBuf, recv, sent, got, outVars>>

\* Variant: the buffer outlives the connection.
CloseEndsUncleared ==
    /\ state = "closing" /\ recv = "idle" /\ state' = "closed"
    /\ UNCHANGED <<connVars, inVars, outVars>>
(* ... and after wait_closed the buffer is cleared.                        *)
CloseEnds ==
    /\ state = "closing" /\ recv = "idle" /\ state' = "closed"
    /\ rxBuf' = <<>>
    /\ UNCHANGED <<connVars, recv, toClient, eof, sent, got, outVars>>

(***************************************************************************)
(* The server (external).                                                  *)
(***************************************************************************)
ServerSends(p) ==
    /\ state = "open" /\ ~eof /\ Len(sent) < MaxServed /\ CanEncode(framing, p)
    /\ toClient' = toClient \o Encode(framing, p) /\ sent' = Append(sent, p)
    /\ UNCHANGED <<connVars, state, rxBuf, recv, eof, got, outVars>>

(* It breaks the connection, and a part of what it sent may be lost.       *)
ServerCloses ==
    /\ state = "open" /\ ~eof /\ eof' = TRUE
    /\ \E n \in 0..Len(toClient) : toClient' = SubSeq(toClient, 1, n)
    /\ UNCHANGED <<connVars, state, rxBuf, recv, sent, got, outVars>>

(* It drops the connection header and reads one frame.                     *)
ServerReads ==
    LET skip == IF heard = <<>> THEN Len(ConnectHeader(framing)) ELSE 0
        b == SubSeq(toServer, skip + 1, Len(toServer))
    IN  /\ state # "closed" /\ HasFrame(framing, b)
        /\ heard' = Append(heard, FirstPacket(framing, b))
        /\ toServer' = AfterFrame(framing, b)
        /\ UNCHANGED <<connVars, state, inVars, asked>>

Next ==
    \/ Connect \/ (\E p \in Packets : Send(p)) \/ Recv \/ ReadChunk \/ ReadEnds
    \/ CancelRecv \/ Close \/ CloseEnds
    \/ (\E p \in Packets : ServerSends(p)) \/ ServerCloses \/ ServerReads

Spec == Init /\ [][Next]_vars

-----------------------------------------------------------------------------
(* However the stream is cut, whoever gives up waiting, and whatever was   *)
(* left of an earlier connection, recv() returns the packets the server    *)
(* has sent on this one, whole, in their order and once each; and the      *)
(* server reads the client's.                                              *)
Pipe == INSTANCE PacketPipe
RespectsPipe == Pipe!Spec

(* Nothing stays behind: a task waits in recv() only while the buffer has  *)
(* no whole frame, and when the socket is empty too, everything the server *)
(* has sent has been returned.                                             *)
NothingHeldBack ==
    recv = "reading" =>
        /\ ~HasFrame(framing, rxBuf)
        /\ toClient = <<>> /\ ~eof => Len(got) = Len(sent)

(* Whatever chunk is read next, decode_from_buffer finds no length that is *)
(* negative or not in words: neither of its errors can come from a cut, a  *)
(* cancelled read or an earlier connection.                                *)
DecodeNeverRaises ==
    state # "closed" =>
        \A n \in 0..Len(toClient) :
            ~DecodeRaises(framing, rxBuf \o SubSeq(toClient, 1, n))
=============================================================================
