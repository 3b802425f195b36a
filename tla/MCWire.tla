------------------------------- MODULE MCWire -------------------------------
(***************************************************************************)
(* TLC instances of Wire with words of two bytes and bytes of four values: *)
(* objects with strings on both sides of the limits, flags, vectors and    *)
(* objects in objects; and one whose id comes before its flags.            *)
(***************************************************************************)
EXTENDS Wire

Plainly(name, kind) ==
    [name |-> name, type |-> [kind |-> kind], flags |-> None, bit |-> 0]
Flagged(name, kind, bit) ==
    [name |-> name, type |-> [kind |-> kind], flags |-> "flags", bit |-> bit]

MCParams ==
    [ping |-> <<>>,
     text |-> <<Plainly("body", "bytes")>>,
     note |-> <<Plainly("flags", "#"), Flagged("silent", "true", 0),
                Flagged("quote", "true", 1), Flagged("reply", "int", 1),
                Plainly("body", "object")>>,
     list |-> <<[name |-> "ids", type |-> [kind |-> "vector",
                                           of |-> [kind |-> "bytes"]],
                 flags |-> None, bit |-> 0]>>,
     wallPaper |-> <<Plainly("id", "int"), Plainly("flags", "#"),
                     Flagged("settings", "int", 2), Plainly("slug", "bytes")>>]
MCCid == [ping |-> 3, text |-> 1, note |-> 2, list |-> 4, wallPaper |-> 5]

Ping == [con |-> "ping", fields |-> <<>>]
Text(n) == [con |-> "text", fields |-> [body |-> [i \in 1..n |-> i % 4]]]
List == [con |-> "list", fields |-> [ids |-> <<<<3>>, <<1, 2>>>>]]
\* quote and reply share a bit: both set, only one set, and the None that
\* the writer refuses.
NoteOf(quote, reply) ==
    [con |-> "note", fields |-> [flags |-> 2, silent |-> FALSE, quote |-> quote,
                                 reply |-> reply, body |-> List]]
Notes == {NoteOf(TRUE, 7), NoteOf(FALSE, 7), NoteOf(TRUE, None)}
WallPaper == [con |-> "wallPaper",
              fields |-> [id |-> 6, flags |-> 4, settings |-> 9, slug |-> <<1>>]]

SentObjects == {Ping, Text(2), Text(5)} \cup Notes
WallPapers == {WallPaper}

\* Serialized once, and not whenever an action asks for the packets.
Serialized == {Dumps(o) : o \in {x \in SentObjects : Writable(x)}}
SentPackets == Serialized
WallPaperPackets == {Dumps(o) : o \in WallPapers}
=============================================================================
