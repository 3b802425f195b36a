------------------------------- MODULE Framing ------------------------------
(***************************************************************************)
(* The two framings of mtproto/transport: abridged.py and intermediate.py. *)
(* A packet is a sequence of bytes, a frame a header that says how long    *)
(* the packet is and the packet after it.  f is the kind of framing.       *)
(***************************************************************************)
EXTENDS Bytes

CONSTANTS
    Marker,       \* the abridged length that says a longer one follows (127)
    MarkerBytes,  \* bytes of the longer one (3)
    HeaderBytes,  \* bytes of the intermediate length (4)
    HeaderSign    \* lengths from here on are negative (2^31)

ASSUME FramingAssumption ==
    /\ Marker \in Byte /\ MarkerBytes \in Nat \ {0}
    /\ HeaderBytes \in Nat \ {0}
    /\ HeaderSign \in Nat /\ HeaderSign <= Weight[HeaderBytes]

Kinds == {"abridged", "intermediate"}

ConnectHeader(f) == IF f = "abridged" THEN <<Base - 1>>
                    ELSE [i \in 1..HeaderBytes |-> Base - 2]

(* A packet is whole words within a limit; encode raises for any other.    *)
Words(p) == Len(p) \div Align
CanEncode(f, p) ==
    /\ Len(p) % Align = 0
    /\ IF f = "abridged" THEN Words(p) < Weight[MarkerBytes]
       ELSE Len(p) < HeaderSign

\* Variant: the marker is taken for a length as well.
AbridgedFrameShortAtMarker(p) ==
    IF Words(p) <= Marker THEN <<Words(p)>> \o p
    ELSE <<Marker>> \o Digits(Words(p), MarkerBytes) \o p

\* A short length in words, or the marker and a longer one.
AbridgedFrame(p) ==
    IF Words(p) < Marker THEN <<Words(p)>> \o p
    ELSE <<Marker>> \o Digits(Words(p), MarkerBytes) \o p

\* The length in bytes.
IntermediateFrame(p) == Digits(Len(p), HeaderBytes) \o p

Encode(f, p) ==
    IF f = "abridged" THEN AbridgedFrame(p) ELSE IntermediateFrame(p)

(* How many bytes of header a buffer starts with, and of payload after it. *)
NoHeader == [header |-> 0, payload |-> 0]
AbridgedHeader(b) ==
    IF b = <<>> THEN NoHeader
    ELSE IF b[1] # Marker THEN [header |-> 1, payload |-> b[1] * Align]
    ELSE IF Len(b) < 1 + MarkerBytes THEN NoHeader
    ELSE [header |-> 1 + MarkerBytes,
          payload |-> Number(SubSeq(b, 2, 1 + MarkerBytes)) * Align]
IntermediateHeader(b) ==
    IF Len(b) < HeaderBytes THEN NoHeader
    ELSE [header |-> HeaderBytes, payload |-> Number(SubSeq(b, 1, HeaderBytes))]
HeaderOf(f, b) ==
    IF f = "abridged" THEN AbridgedHeader(b) ELSE IntermediateHeader(b)

\* Variant: a frame that ends with the buffer has to wait for a byte more.
HasFrameAndMore(f, b) ==
    LET h == HeaderOf(f, b) IN h.header > 0 /\ Len(b) > h.header + h.payload
(* decode_from_buffer has a whole frame; what it returns and what it       *)
(* leaves in the buffer: the same statements in abridged.py and in         *)
(* intermediate.py.                                                        *)
HasFrame(f, b) ==
    LET h == HeaderOf(f, b) IN h.header > 0 /\ Len(b) >= h.header + h.payload
FirstPacket(f, b) ==
    LET h == HeaderOf(f, b) IN SubSeq(b, h.header + 1, h.header + h.payload)
AfterFrame(f, b) ==
    LET h == HeaderOf(f, b) IN SubSeq(b, h.header + h.payload + 1, Len(b))

(* The intermediate decode_from_buffer raises: the length is negative, or  *)
(* the whole frame is there and not in words.                              *)
DecodeRaises(f, b) ==
    LET h == HeaderOf(f, b)
    IN  /\ f = "intermediate" /\ h.header > 0
        /\ \/ h.payload >= HeaderSign
           \/ HasFrame(f, b) /\ h.payload % Align # 0
=============================================================================
