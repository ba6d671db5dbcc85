-------------------------- MODULE ThresholdKernel ---------------------------
(***************************************************************************)
(* JitCompiler::compile_comparison (src/jit/compiler.cpp): the kernel of   *)
(* ApexEngine::set_logic, "field > threshold" on one block of bit planes.  *)
(*                                                                         *)
(* The 64 comparisons are unrolled from bit W - 1 down to bit 0; the       *)
(* threshold is burnt into the code as the choice between two instruction  *)
(* groups.  A word is the function from bit numbers to bits, a register    *)
(* the set of lanes whose bit is 1.                                        *)
(***************************************************************************)
EXTENDS Words

CONSTANT Block      \* the rows of a block: 64 in the code

VARIABLES
    threshold,      \* the argument of set_logic
    value,          \* the gathered column: lane -> word
    pc,             \* "run", or "returned"
    bit,            \* the bit the next instruction group is about
    gt_mask, eq_mask,
    x0              \* the return value

threshold_vars == <<threshold, value, pc, bit, gt_mask, eq_mask, x0>>

BitWord == [Bits -> {0, 1}]

Plane(b) == {l \in Block : value[l][b] = 1}

ThresholdInit ==
    /\ threshold \in BitWord
    /\ value \in [Block -> BitWord]
    /\ pc = "run"
    /\ bit = W - 1
    /\ gt_mask = {}
    /\ eq_mask = Block
    /\ x0 = {}

\* The group emitted for a 0 bit: and, orr, bic.
ThresholdBit0 ==
    /\ pc = "run"
    /\ bit >= 0
    /\ threshold[bit] = 0
    /\ gt_mask' = gt_mask \cup (eq_mask \cap Plane(bit))
    /\ eq_mask' = eq_mask \ Plane(bit)
    /\ bit' = bit - 1
    /\ UNCHANGED <<threshold, value, pc, x0>>

\* Mutant: bic for a 1 bit too.
ThresholdBit1Clears ==
    /\ pc = "run"
    /\ bit >= 0
    /\ threshold[bit] = 1
    /\ eq_mask' = eq_mask \ Plane(bit)
    /\ bit' = bit - 1
    /\ UNCHANGED <<threshold, value, pc, gt_mask, x0>>

\* The group emitted for a 1 bit: GT cannot change.
ThresholdBit1 ==
    /\ pc = "run"
    /\ bit >= 0
    /\ threshold[bit] = 1
    /\ eq_mask' = eq_mask \cap Plane(bit)
    /\ bit' = bit - 1
    /\ UNCHANGED <<threshold, value, pc, gt_mask, x0>>

ThresholdReturn ==
    /\ pc = "run"
    /\ bit = -1
    /\ x0' = gt_mask
    /\ pc' = "returned"
    /\ UNCHANGED <<threshold, value, bit, gt_mask, eq_mask>>

ThresholdFinished == pc = "returned" /\ UNCHANGED threshold_vars

ThresholdNext ==
    \/ ThresholdBit0
    \/ ThresholdBit1
    \/ ThresholdReturn
    \/ ThresholdFinished

ThresholdSpec == ThresholdInit /\ [][ThresholdNext]_threshold_vars

-----------------------------------------------------------------------------
(* Properties.                                                             *)

\* The registers are masks of the block's lanes and the bit counter stays in
\* the word.
ThresholdTypeOK ==
    /\ threshold \in BitWord
    /\ value \in [Block -> BitWord]
    /\ pc \in {"run", "returned"}
    /\ bit \in -1 .. W - 1
    /\ gt_mask \in SUBSET Block
    /\ eq_mask \in SUBSET Block
    /\ x0 \in SUBSET Block

\* Words x and y agree on every bit above b.
EqualAbove(x, y, b) == \A c \in Bits : c > b => x[c] = y[c]

\* The highest bit above b on which x and y differ is 1 in x.
GreaterAbove(x, y, b) ==
    \E c \in Bits : c > b /\ x[c] = 1 /\ y[c] = 0 /\ EqualAbove(x, y, c)

\* After each instruction group GT holds exactly the lanes the bits seen so
\* far decide for "greater" and EQ exactly those still undecided, although
\* the two groups update them in different ways (lines 141-161).
PrefixDecides ==
    /\ gt_mask = {l \in Block : GreaterAbove(value[l], threshold, bit)}
    /\ eq_mask = {l \in Block : EqualAbove(value[l], threshold, bit)}

\* What PrefixDecides makes of the mask that is returned, a step of the proof of
\* the next property: the lanes whose word is greater than the threshold in the
\* order of the highest differing bit.
MaskIsGreater ==
    pc = "returned" =>
        x0 = {l \in Block : GreaterAbove(value[l], threshold, -1)}

\* The number a word stands for.
Number(x) == WordOf({b \in Bits : x[b] = 1})

\* Two different groups of instructions, chosen bit by bit from the threshold
\* alone (lines 141-161), add up to one comparison: the kernel selects the rows
\* with field > threshold as unsigned integers.
MaskIsNumericGreater ==
    pc = "returned" =>
        x0 = {l \in Block : Number(value[l]) > Number(threshold)}
=============================================================================
