------------------------------- MODULE Words --------------------------------
(***************************************************************************)
(* The machine words of the kernels (uint64_t in src/jit/compiler.cpp) as  *)
(* numbers, and their bits.  The powers of two are a recursive function,   *)
(* which the proofs can unfold; they cannot unfold 2^n.                    *)
(***************************************************************************)
EXTENDS Integers

CONSTANT W          \* the width of a word in bits: 64 in the code

ASSUME WAssumption == W \in Nat \ {0}

Bits == 0 .. W - 1

Power2[n \in Nat] == IF n = 0 THEN 1 ELSE 2 * Power2[n - 1]

Word == 0 .. Power2[W] - 1

BitOf(v, b) == (v \div Power2[b]) % 2

Truth(p) == IF p THEN 1 ELSE 0

BitsOf(v) == {b \in Bits : BitOf(v, b) = 1}

\* The numbers that the lowest and the highest n bits of a set of bits stand
\* for.
Lowest(S) ==
    LET v[n \in 0 .. W] ==
            IF n = 0 THEN 0
            ELSE v[n - 1] + IF n - 1 \in S THEN Power2[n - 1] ELSE 0
    IN  v

Highest(S) ==
    LET v[n \in 0 .. W] ==
            IF n = 0 THEN 0 ELSE 2 * v[n - 1] + Truth(W - n \in S)
    IN  v

WordOf(S) == Lowest(S)[W]
=============================================================================
