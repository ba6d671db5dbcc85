----------------------------- MODULE BitSlicer ------------------------------
(***************************************************************************)
(* BitSlicer::slice (src/compute/bit_slicer.cpp): the in-place transpose   *)
(* that turns a column of N words into N bit planes.                       *)
(*                                                                         *)
(* Stage5 .. Stage0 are the same loop with stride and shift 32 .. 1.  A    *)
(* word is the set of its 1 bits.  One step is the butterfly of one pair   *)
(* of words; the vector code does several at once, on disjoint pairs.      *)
(***************************************************************************)
EXTENDS Integers, FiniteSets

CONSTANTS
    N,              \* the number of words and of bits: 64 in the code
    Columns         \* the columns sliced

Index == 0 .. N - 1

Xor(S, T) == (S \ T) \cup (T \ S)

ASSUME SizeAssumption == N \in {2, 4, 8, 16, 32, 64}
ASSUME ColumnsAssumption == Columns \subseteq [Index -> SUBSET Index]

VARIABLES
    in,             \* the column before the call
    A,              \* the buffer
    stride,         \* 2^5 .. 2^0, by stage; 0 when Transpose64x64 returns
    k               \* the loop counter: the lower word of the pair

vars == <<in, A, stride, k>>

\* memcpy(out, in): usually in and out are the same buffer.
Init ==
    /\ in \in Columns
    /\ A = in
    /\ stride = N \div 2
    /\ k = 0

\* vmask: the lower half of every group of 2 * stride bits.
LowHalf == {b \in Index : b % (2 * stride) < stride}

ShiftRight(S) == {b - stride : b \in {c \in S : c >= stride}}

ShiftLeft(S) == {b + stride : b \in {c \in S : c + stride < N}}

\* Mutant: the shifted word is not masked.
DeltaUnmasked == Xor(ShiftRight(A[k]), A[k + stride])

\* The bits in which the two off-diagonal quarters of a pair differ.
Delta == Xor(ShiftRight(A[k]), A[k + stride]) \cap LowHalf

\* Mutant: the word behind the next block.
NextWordTooFar == IF (k + 1) % (2 * stride) = stride THEN k + 2 + stride ELSE k + 1

\* The next lower word: over the upper half of a block to the next block.
NextWord == IF (k + 1) % (2 * stride) = stride THEN k + 1 + stride ELSE k + 1

Butterfly ==
    /\ stride > 0
    /\ k < N
    /\ A' = [A EXCEPT ![k] = Xor(@, ShiftLeft(Delta)),
                      ![k + stride] = Xor(@, Delta)]
    /\ k' = NextWord
    /\ UNCHANGED <<in, stride>>

\* Mutant: Stage0 is missing.
NextStageStops ==
    /\ stride > 0
    /\ k >= N
    /\ stride' = IF stride = 2 THEN 0 ELSE stride \div 2
    /\ k' = 0
    /\ UNCHANGED <<in, A>>

NextStage ==
    /\ stride > 0
    /\ k >= N
    /\ stride' = stride \div 2
    /\ k' = 0
    /\ UNCHANGED <<in, A>>

Finished == stride = 0 /\ UNCHANGED vars

Next ==
    \/ Butterfly
    \/ NextStage
    \/ Finished

Spec == Init /\ [][Next]_vars

-----------------------------------------------------------------------------
(* Properties.                                                             *)

\* The buffer holds N words of N bits.
TypeOK ==
    /\ in \in [Index -> SUBSET Index]
    /\ A \in [Index -> SUBSET Index]
    /\ stride \in 0 .. N \div 2
    /\ k \in 0 .. N

\* Word r after the stages of strides above s: in every group of s words the
\* s-by-s squares are in their transposed place, each not yet transposed
\* itself.
Arranged(r, s) ==
    {b \in Index :
        (r \div s) * s + (b % s) \in in[(b \div s) * s + (r % s)]}

\* The butterfly of the pair of word r is done in the current stage.
PairDone(r) == IF r % (2 * stride) < stride THEN r < k ELSE r - stride < k

\* In the middle of a stage the pairs done are arranged in squares of the
\* current stride and the others still in squares of twice that size: the
\* in-place update never reads a word it has already replaced.
HalfTransposed ==
    stride > 0 =>
        \A r \in Index :
            A[r] = Arranged(r, IF PairDone(r) THEN stride ELSE 2 * stride)

\* Bit r of word b goes to bit b of word r: plane r holds bit r of every row,
\* with row b in lane b.
Transposed ==
    stride = 0 => \A r \in Index : A[r] = {b \in Index : r \in in[b]}
=============================================================================
