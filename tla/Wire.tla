-------------------------------- MODULE Wire --------------------------------
(***************************************************************************)
(* A connection end to end: TL objects are serialized (TlCodec), sent as   *)
(* packets (Transport), and what recv() returns is deserialized.           *)
(***************************************************************************)
EXTENDS TlCodec, Transport

CONSTANT Objects  \* objects that are sent

(* What dumps() raises for is not sent.                                    *)
Sendable == {o \in Objects : Writable(o)}

ASSUME WireAssumption == Packets = {Dumps(o) : o \in Sendable}

-----------------------------------------------------------------------------
(* The fields that survive: all of them, unless a string is longer than    *)
(* its length can say, a field is written before its object's flags, which *)
(* TLReader reads first, or a flag is FALSE whose bit another field sets.  *)
FlagsFirst(c) ==
    \A i, j \in DOMAIN Params[c] :
        i < j /\ Params[c][j].type.kind = "#" =>
            Params[c][i].type.kind \in {"#", "true"}
TooLong(o) ==
    \E p \in Range(Params[o.con]) :
        /\ p.type.kind = "bytes" /\ o.fields[p.name] # None
        /\ Len(o.fields[p.name]) >= Weight[PrefixBytes]
FlagShared(o) ==
    \E p \in Range(Params[o.con]) :
        /\ p.type.kind = "true" /\ ~Present(o, p)
        /\ BitSet(FlagsOf(o, p.flags), p.bit)
Plain(o) == FlagsFirst(o.con) /\ ~TooLong(o) /\ ~FlagShared(o)

(* A packet holds the object that was serialized.                         *)
Holds(packet, o) ==
    LET r == Loads(packet) IN r.ok /\ r.value = o /\ r.rest = <<>>

(* What is serialized to each packet.                                      *)
ObjectsOf == [p \in Packets |-> {o \in Sendable : Dumps(o) = p}]

(* Each packet holds the object that the other side has sent in its place, *)
(* if that is plain.                                                       *)
Matches(packets, source) ==
    /\ Len(packets) <= Len(source)
    /\ \A i \in DOMAIN packets : \A o \in ObjectsOf[source[i]] :
           Plain(o) => Holds(packets[i], o)

(* However the stream is cut, whoever gives up waiting, and whatever was   *)
(* left of an earlier connection, what recv() returns deserializes to the  *)
(* objects that the server has sent on this one, in their order; and what  *)
(* the server reads, to the client's.                                      *)
ObjectsArriveInOrder == Matches(got, sent) /\ Matches(heard, asked)

(* What was written is what is read, for every object of the schema: the   *)
(* round trip that test_tl_codec_roundtrip.py asserts of one.              *)
ObjectsRoundTrip ==
    \A i \in DOMAIN got : \A o \in ObjectsOf[sent[i]] : Holds(got[i], o)
=============================================================================
