------------------------------ MODULE TlCodec -------------------------------
(***************************************************************************)
(* The TL serialization (tl/codec.py): what TLWriter writes for an object  *)
(* and what TLReader reads from bytes, over a small base.  A constructor   *)
(* is its list of parameters, as in the TL_PARAMS of tl/generated.         *)
(* Longs, doubles, int128, int256, strings and Bool are written like int   *)
(* or bytes; the readers of single types (polls, themes, containers) are   *)
(* not modelled.                                                           *)
(***************************************************************************)
EXTENDS Bytes, SequencesExt, FiniteSetsExt

CONSTANTS
    ShortLimit,   \* the length byte that says a longer length follows (254)
    PrefixBytes,  \* bytes of the longer length (3)
    VectorId,     \* VECTOR_CONSTRUCTOR_ID
    Cid,          \* TL_ID of each constructor
    Params,       \* TL_PARAMS of each constructor
    None

ASSUME CodecAssumption ==
    /\ Base > ShortLimit /\ ShortLimit > 0
    /\ DOMAIN Cid = DOMAIN Params
    /\ \A c \in DOMAIN Cid : Cid[c] # VectorId /\ Cid[c] \in 0..(Weight[Align] - 1)

(* Types: kinds "int", "bytes", "#", "true", "object", and "vector" of a   *)
(* type.  A parameter has a name, a type, and for flags.N?T the name of    *)
(* the flags parameter and the bit.                                        *)
Optional(p) == p.flags # None

BitSet(n, bit) == (n \div 2^bit) % 2 = 1
Pad(n) == [i \in 1..((Align - (n % Align)) % Align) |-> 0]

(***************************************************************************)
(* TLWriter.                                                               *)
(***************************************************************************)
WriteInt(n) == Digits(n, Align)

\* Variant: the limit itself is written as a length.
WriteBytesShortAtLimit(d) ==
    IF Len(d) <= ShortLimit THEN <<Len(d)>> \o d \o Pad(1 + Len(d))
    ELSE <<ShortLimit>> \o Digits(Len(d), PrefixBytes) \o d
         \o Pad(1 + PrefixBytes + Len(d))
(* The length is cut to PrefixBytes when it has more.                      *)
WriteBytes(d) ==
    IF Len(d) < ShortLimit THEN <<Len(d)>> \o d \o Pad(1 + Len(d))
    ELSE <<ShortLimit>> \o Digits(Len(d), PrefixBytes) \o d
         \o Pad(1 + PrefixBytes + Len(d))

(* Every flags parameter is computed from the fields that are there; some  *)
(* share a bit.                                                            *)
Present(o, p) ==
    IF p.type.kind = "true" THEN o.fields[p.name] = TRUE
    ELSE o.fields[p.name] # None
FlagsOf(o, name) ==
    LET bits == {p.bit : p \in {q \in Range(Params[o.con]) :
                                  q.flags = name /\ Present(o, q)}}
    IN  MapThenSumSet(LAMBDA bit : 2^bit, bits)

(* A field is left out when its bit is clear, whatever has set the bit.    *)
LeftOut(o, p) ==
    \/ p.type.kind = "true"
    \/ Optional(p) /\ ~BitSet(FlagsOf(o, p.flags), p.bit)

(* write_value takes no None, and an int must fit: else dumps() raises.    *)
RECURSIVE CanWrite(_, _)
CanWrite(t, v) ==
    /\ v # None
    /\ CASE t.kind = "int" -> v \in 0..(Weight[Align] - 1)
         [] t.kind = "bytes" -> TRUE
         [] t.kind = "vector" -> \A i \in DOMAIN v : CanWrite(t.of, v[i])
         [] t.kind = "object" ->
                \A p \in Range(Params[v.con]) :
                    p.type.kind = "#" \/ LeftOut(v, p)
                        \/ CanWrite(p.type, v.fields[p.name])
Writable(o) == CanWrite([kind |-> "object"], o)

RECURSIVE WriteValue(_, _)
WriteParam(o, p) ==
    CASE (p.type.kind = "#") -> WriteInt(FlagsOf(o, p.name))
      [] LeftOut(o, p) -> <<>>
      [] OTHER -> WriteValue(p.type, o.fields[p.name])
WriteObject(o) ==
    WriteInt(Cid[o.con])
    \o FlattenSeq([i \in DOMAIN Params[o.con] |-> WriteParam(o, Params[o.con][i])])
WriteValue(t, v) ==
    CASE t.kind = "int" -> WriteInt(v)
      [] t.kind = "bytes" -> WriteBytes(v)
      [] t.kind = "vector" ->
             WriteInt(VectorId) \o WriteInt(Len(v))
             \o FlattenSeq([i \in DOMAIN v |-> WriteValue(t.of, v[i])])
      [] t.kind = "object" -> WriteObject(v)

(***************************************************************************)
(* TLReader: a value and what is left, or nothing when it raises.          *)
(***************************************************************************)
Raised == [ok |-> FALSE, value |-> None, rest |-> <<>>]
Read(v, rest) == [ok |-> TRUE, value |-> v, rest |-> rest]

Take(d, n) ==
    IF Len(d) < n THEN Raised
    ELSE Read(SubSeq(d, 1, n), SubSeq(d, n + 1, Len(d)))

ReadInt(d) ==
    LET r == Take(d, Align) IN IF r.ok THEN Read(Number(r.value), r.rest) ELSE r

(* The bytes, then the padding after them.                                 *)
ReadCounted(d, n, before) ==
    LET r == Take(d, n)
        p == Take(r.rest, Len(Pad(before + n)))
    IN  IF r.ok /\ p.ok THEN Read(r.value, p.rest) ELSE Raised
ReadBytes(d) ==
    IF d = <<>> THEN Raised
    ELSE IF d[1] < ShortLimit THEN ReadCounted(Tail(d), d[1], 1)
    ELSE LET n == Take(Tail(d), PrefixBytes)
         IN  IF n.ok THEN ReadCounted(n.rest, Number(n.value), 1 + PrefixBytes)
             ELSE Raised

RECURSIVE ReadValue(_, _), ReadItems(_, _, _)
ReadItems(t, n, d) ==
    IF n = 0 THEN Read(<<>>, d)
    ELSE LET first == ReadValue(t, d)
             others == ReadItems(t, n - 1, first.rest)
         IN  IF first.ok /\ others.ok
             THEN Read(<<first.value>> \o others.value, others.rest) ELSE Raised

ReadVector(t, d) ==
    LET cid == ReadInt(d)
        count == ReadInt(cid.rest)
    IN  IF cid.ok /\ cid.value = VectorId /\ count.ok
        THEN ReadItems(t, count.value, count.rest) ELSE Raised

\* Variant: a flag that stands for a value is always true.
FieldPresentIfTrue(p, flags, d) ==
    IF Optional(p) /\ p.type.kind # "true" /\ ~BitSet(flags[p.flags], p.bit)
    THEN Read(None, d)
    ELSE IF p.type.kind = "true" THEN Read(TRUE, d)
    ELSE ReadValue(p.type, d)
(* One field; the flags have been read before all fields.                  *)
Field(p, flags, d) ==
    IF Optional(p) /\ ~BitSet(flags[p.flags], p.bit)
    THEN Read(IF p.type.kind = "true" THEN FALSE ELSE None, d)
    ELSE IF p.type.kind = "true" THEN Read(TRUE, d)
    ELSE ReadValue(p.type, d)
With(fields, name, r) ==
    IF r.ok THEN Read(fields @@ (name :> r.value), r.rest) ELSE Raised

ReadParams(c, d) ==
    LET flagsOf == SelectSeq(Params[c], LAMBDA p : p.type.kind = "#")
        others == SelectSeq(Params[c], LAMBDA p : p.type.kind # "#")
        flags == FoldLeft(LAMBDA r, p :
                              IF r.ok THEN With(r.value, p.name, ReadInt(r.rest))
                              ELSE r, Read(<<>>, d), flagsOf)
    IN  FoldLeft(LAMBDA r, p :
                     IF r.ok
                     THEN With(r.value, p.name, Field(p, flags.value, r.rest))
                     ELSE r, flags, others)

ReadObject(d) ==
    LET cid == ReadInt(d)
        known == {c \in DOMAIN Cid : cid.ok /\ Cid[c] = cid.value}
    IN  IF known = {} THEN Raised
        ELSE LET c == CHOOSE c \in known : TRUE
                 r == ReadParams(c, cid.rest)
             IN  IF r.ok THEN Read([con |-> c, fields |-> r.value], r.rest)
                 ELSE Raised
ReadValue(t, d) ==
    CASE t.kind = "int" -> ReadInt(d)
      [] t.kind = "bytes" -> ReadBytes(d)
      [] t.kind = "vector" -> ReadVector(t.of, d)
      [] t.kind = "object" -> ReadObject(d)

Dumps(o) == WriteObject(o)
Loads(d) == ReadObject(d)
=============================================================================
