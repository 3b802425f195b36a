-------------------------------- MODULE Bytes -------------------------------
(***************************************************************************)
(* Bytes and words, over a small base: what the codec and the framings     *)
(* share.                                                                  *)
(***************************************************************************)
EXTENDS Integers, Sequences

CONSTANTS
    Base,         \* values of a byte (256)
    Align         \* bytes of an int, and of a word (4)

ASSUME BytesAssumption == Base \in Nat \ {0, 1} /\ Align \in Nat \ {0}

Byte == 0..(Base - 1)

\* What a digit with k digits before it counts: Base^k.
Weight[k \in Nat] == IF k = 0 THEN 1 ELSE Base * Weight[k - 1]

(* Little endian, and back.                                                *)
Digits(n, k) == [i \in 1..k |-> (n \div Weight[i - 1]) % Base]
Number(d) ==
    LET upTo[i \in 0..Len(d)] ==
            IF i = 0 THEN 0 ELSE upTo[i - 1] + d[i] * Weight[i - 1]
    IN  upTo[Len(d)]
=============================================================================
