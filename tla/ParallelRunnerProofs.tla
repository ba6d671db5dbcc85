------------------------ MODULE ParallelRunnerProofs ------------------------
(***************************************************************************)
(* What a call of ParallelRunner::run returns, for every block size, every *)
(* number of rows and of threads and every interleaving.                   *)
(*                                                                         *)
(* Lemmas on the arithmetic of the partition; the inductive invariant      *)
(* (IInv) and its preservation by every step; the properties that follow   *)
(* from it; the refinement of MatchCount.                                  *)
(***************************************************************************)
EXTENDS ParallelRunner, FiniteSetTheorems, TLAPS

\* Multiplication by a natural number is monotone.
LEMMA MulMonotone ==
    ASSUME NEW a \in Nat, NEW b \in Nat, NEW c \in Nat, a <= b
    PROVE  a * c <= b * c
  OBVIOUS

\* Products of natural numbers are natural numbers.
LEMMA MulNat ==
    ASSUME NEW a \in Nat, NEW b \in Nat
    PROVE  a * b \in Nat
  OBVIOUS

\* The next multiple of c: the start of the next range.
LEMMA MulStep ==
    ASSUME NEW a \in Nat, NEW c \in Nat
    PROVE  (a + 1) * c = a * c + c
  OBVIOUS

\* The quotient and the remainder of an integer division.
LEMMA DivBounds ==
    ASSUME NEW a \in Nat, NEW b \in Nat \ {0}
    PROVE  /\ a \div b \in Nat
           /\ (a \div b) * b <= a
           /\ a < (a \div b) * b + b
  OBVIOUS

\* RoundUp(n) is the least multiple of Block that is not below n.
LEMMA RoundUpFacts ==
    ASSUME NEW n \in Nat
    PROVE  /\ RoundUp(n) \in Nat
           /\ n <= RoundUp(n)
           /\ RoundUp(n) < n + Block
           /\ \E q \in Nat : RoundUp(n) = q * Block
  <1> DEFINE m == n + Block - 1
             q == m \div Block
  <1>1. m \in Nat /\ Block \in Nat \ {0}
    BY BlockAssumption
  <1>2. q \in Nat /\ q * Block <= m /\ m < q * Block + Block
    BY <1>1, DivBounds
  <1>3. q * Block \in Nat
    BY <1>1, <1>2, MulNat
  <1>4. RoundUp(n) = q * Block
    BY DEF RoundUp
  <1> HIDE DEF q
  <1>5. n <= q * Block /\ q * Block < n + Block
    BY <1>1, <1>2, <1>3
  <1> QED
    BY <1>2, <1>3, <1>4, <1>5

\* A block that begins before n ends before RoundUp(n): a partial last block
\* is the only one that passes the end of the range.
LEMMA NextBlockWithinRoundUp ==
    ASSUME NEW n \in Nat, NEW k \in Nat, k * Block < n
    PROVE  k * Block + Block <= RoundUp(n)
  <1>1. PICK q \in Nat : RoundUp(n) = q * Block
    BY RoundUpFacts
  <1>2. Block \in Nat /\ n <= q * Block
    BY <1>1, RoundUpFacts, BlockAssumption
  <1>3. q * Block \in Nat /\ k * Block \in Nat
    BY <1>2, MulNat
  <1>4. ~(q <= k)
    <2>1. ASSUME q <= k PROVE FALSE
      <3>1. q * Block <= k * Block
        BY <1>2, <2>1, MulMonotone
      <3> QED
        BY <1>2, <1>3, <3>1
    <2> QED BY <2>1
  <1>5. (k + 1) * Block <= q * Block
    BY <1>2, <1>4, MulMonotone
  <1> QED
    BY <1>1, <1>2, <1>5, MulStep

-----------------------------------------------------------------------------
(* The partition.                                                          *)

\* At least one worker is planned, whatever num_threads is.
LEMMA ThreadsFacts ==
    ASSUME num_threads \in Int
    PROVE  Threads \in Nat \ {0}
  BY DEF Threads

\* A range is a positive number of whole blocks, and one block or no more
\* than an equal share of the rows.
LEMMA RowsPerThreadFacts ==
    ASSUME num_threads \in Int, total_rows \in Nat
    PROVE  /\ RowsPerThread \in Nat \ {0}
           /\ \E q \in Nat : RowsPerThread = q * Block
           /\ \/ RowsPerThread = Block
              \/ Threads * RowsPerThread <= total_rows
  <1> DEFINE a == total_rows \div Threads
             b == a \div Block
  <1>1. Block \in Nat \ {0} /\ Threads \in Nat \ {0}
    BY BlockAssumption, ThreadsFacts
  <1>2. a \in Nat /\ a * Threads <= total_rows
    BY <1>1, DivBounds
  <1> HIDE DEF a
  <1>3. b \in Nat /\ b * Block <= a
    BY <1>1, <1>2, DivBounds
  <1> HIDE DEF b
  <1>4. RowsPerThread = IF b * Block = 0 THEN Block ELSE b * Block
    BY DEF RowsPerThread, b, a
  <1>5. b * Block \in Nat
    BY <1>1, <1>3, MulNat
  <1>6. (b * Block) * Threads <= a * Threads
    BY <1>1, <1>2, <1>3, <1>5, MulMonotone
  <1>7. (b * Block) * Threads = Threads * (b * Block)
    BY <1>1, <1>5
  <1>8. Threads * (b * Block) <= total_rows
    BY <1>1, <1>2, <1>5, <1>6, <1>7, MulNat
  <1>9. Block = 1 * Block
    BY <1>1
  <1> QED
    BY <1>1, <1>3, <1>4, <1>5, <1>8, <1>9

\* Ranges start on block boundaries.
LEMMA StartFacts ==
    ASSUME num_threads \in Int, total_rows \in Nat, NEW i \in Nat
    PROVE  /\ Start(i) \in Nat
           /\ Start(i + 1) = Start(i) + RowsPerThread
           /\ \E k \in Nat : Start(i) = k * Block
           /\ i = 0 => Start(i) = 0
  <1>1. PICK q \in Nat : RowsPerThread = q * Block
    BY RowsPerThreadFacts
  <1>2. RowsPerThread \in Nat /\ Block \in Nat
    BY RowsPerThreadFacts, BlockAssumption
  <1>3. Start(i) \in Nat
    BY <1>2, MulNat DEF Start
  <1>4. Start(i + 1) = Start(i) + RowsPerThread
    BY <1>2, MulStep DEF Start
  <1>5. i * (q * Block) = (i * q) * Block
    BY <1>2
  <1>6. Start(i) = (i * q) * Block /\ i * q \in Nat
    BY <1>1, <1>5, MulNat DEF Start
  <1>7. 0 * RowsPerThread = 0
    BY <1>2
  <1> QED
    BY <1>3, <1>4, <1>6, <1>7 DEF Start

\* A later worker starts at or behind the end of an earlier one.
LEMMA StartMonotone ==
    ASSUME num_threads \in Int, total_rows \in Nat,
           NEW i \in Nat, NEW j \in Nat, i < j
    PROVE  Start(i) + RowsPerThread <= Start(j)
  <1>1. RowsPerThread \in Nat
    BY RowsPerThreadFacts
  <1>2. (i + 1) * RowsPerThread <= j * RowsPerThread
    BY <1>1, MulMonotone
  <1> QED
    BY <1>1, <1>2, StartFacts DEF Start

\* Where a started worker's range ends, and that it ends before the next one
\* begins.
LEMMA EndFacts ==
    ASSUME num_threads \in Int, total_rows \in Nat,
           NEW i \in ThreadIds, Start(i) < total_rows
    PROVE  /\ End(i) \in Nat
           /\ Start(i) < End(i)
           /\ End(i) <= RoundUp(total_rows)
           /\ i # Threads - 1 => End(i) = Start(i + 1)
  <1>1. Threads \in Nat \ {0} /\ i \in Nat
    BY ThreadsFacts DEF ThreadIds
  <1>2. /\ Start(i) \in Nat
        /\ RowsPerThread \in Nat \ {0}
        /\ Start(i + 1) = Start(i) + RowsPerThread
        /\ total_rows <= RoundUp(total_rows)
        /\ RoundUp(total_rows) \in Nat
    BY <1>1, StartFacts, RowsPerThreadFacts, RoundUpFacts
  <1>3. CASE i = Threads - 1
    BY <1>2, <1>3 DEF End
  <1>4. CASE i # Threads - 1
    <2>1. End(i) = Start(i) + RowsPerThread
      BY <1>4 DEF End
    <2>2. CASE RowsPerThread = Block
      <3>1. PICK k \in Nat : Start(i) = k * Block
        BY <1>1, StartFacts
      <3> QED
        BY <1>1, <1>2, <1>4, <2>1, <2>2, <3>1, NextBlockWithinRoundUp
    <2>3. CASE Threads * RowsPerThread <= total_rows
      <3>1. (i + 1) * RowsPerThread <= Threads * RowsPerThread
        BY <1>1, <1>2, MulMonotone DEF ThreadIds
      <3>2. (i + 1) * RowsPerThread = Start(i) + RowsPerThread
        BY <1>2 DEF Start
      <3>3. Threads * RowsPerThread \in Nat
        BY <1>1, <1>2, MulNat
      <3> QED
        BY <1>2, <1>4, <2>1, <2>3, <3>1, <3>2, <3>3
    <2> QED
      BY <2>2, <2>3, RowsPerThreadFacts
  <1> QED
    BY <1>3, <1>4

-----------------------------------------------------------------------------
(* The inductive invariant.                                                *)

\* Where the calling thread's counters stand at each point of run.
MainInv ==
    /\ pc = "entry" => t = 0 /\ threads = 0
    /\ pc = "spawn" => t = threads
    /\ pc = "join" => t <= threads /\ \A i \in 0 .. t - 1 : Exited(i)
    /\ pc \in {"spawn", "join", "aggregate"} => total_rows > 0
    /\ pc = "returned" /\ total_rows = 0 => threads = 0
    /\ pc \in {"join", "aggregate", "returned"} /\ total_rows > 0 =>
           threads = Threads \/ Start(threads) >= total_rows
    /\ pc \in {"aggregate", "returned"} =>
           \A i \in ThreadIds : i < threads => Exited(i)

\* The end of the last block of worker i.
LaneEnd(i) == Start(i) + RoundUp(End(i) - Start(i))

\* The hit lanes of worker i below row.
Lanes(i, row) == {r \in Start(i) .. row - 1 : LaneHit(r, End(i))}

\* What worker i has counted so far, and what its result slot holds.
WorkerInv(i) ==
    /\ Started(i) <=> i < threads
    /\ Started(i) =>
           /\ Start(i) < total_rows
           /\ worker[i].end = End(i)
           /\ \E k \in Nat : worker[i].row = Start(i) + k * Block
           /\ worker[i].row <= LaneEnd(i)
           /\ worker[i].total_matches = Cardinality(Lanes(i, worker[i].row))
    /\ worker[i].st = "idle" => worker[i].end = 0
    /\ worker[i].st = "started" => worker[i].row = Start(i)
    /\ worker[i].st = "done" =>
           results[i] = Cardinality(LaneHits(i))
    /\ worker[i].st # "done" => results[i] = 0

\* The hit lanes of the workers below k that ran to their end.
DoneLanes(k) == UNION {LaneHits(i) : i \in {j \in Done : j < k}}

\* What the sum holds at each point of run.
SumInv ==
    /\ pc \in {"entry", "spawn", "join"} => total = 0
    /\ pc = "aggregate" => total = Cardinality(DoneLanes(t))
    /\ pc = "returned" => total = Cardinality(DoneLanes(Threads))

\* The inductive invariant.
IInv ==
    /\ TypeOK
    /\ MainInv
    /\ \A i \in ThreadIds : WorkerInv(i)
    /\ SumInv

-----------------------------------------------------------------------------
\* The partition and the lanes depend on the arguments and rows only.
LEMMA Frozen ==
    ASSUME UNCHANGED inputs
    PROVE  /\ Threads' = Threads
           /\ ThreadIds' = ThreadIds
           /\ \A i : /\ Start(i)' = Start(i)
                     /\ End(i)' = End(i)
                     /\ LaneEnd(i)' = LaneEnd(i)
                     /\ LaneHits(i)' = LaneHits(i)
           /\ \A i, row : Lanes(i, row)' = Lanes(i, row)
           /\ RoundUp(total_rows)' = RoundUp(total_rows)
  <1>1. /\ total_rows' = total_rows /\ num_threads' = num_threads
        /\ match' = match /\ zeroMatch' = zeroMatch
    BY DEF inputs
  <1>2. Threads' = Threads
    BY <1>1 DEF Threads
  <1>3. RowsPerThread' = RowsPerThread
    BY <1>1, <1>2 DEF RowsPerThread
  <1>4. \A i : Start(i)' = Start(i)
    BY <1>3 DEF Start
  <1>5. \A i : End(i)' = End(i)
    BY <1>1, <1>2, <1>3, <1>4 DEF End
  <1>6. \A i : LaneEnd(i)' = LaneEnd(i)
    BY <1>4, <1>5 DEF LaneEnd, RoundUp
  <1>7. \A i : LaneHits(i)' = LaneHits(i)
    BY <1>1, <1>4, <1>5 DEF LaneHits, LaneHit, RoundUp
  <1>8. \A i, row : Lanes(i, row)' = Lanes(i, row)
    BY <1>1, <1>4, <1>5 DEF Lanes, LaneHit
  <1> QED
    BY <1>1, <1>2, <1>4, <1>5, <1>6, <1>7, <1>8 DEF ThreadIds, RoundUp

\* No step changes the arguments or the rows.
LEMMA InputsUnchanged ==
    ASSUME [Next]_vars
    PROVE  UNCHANGED inputs
  BY DEF Next, Main, Worker, Finished, Enter, ThrowsInNoexcept, SpawnThread,
         SpawnEnd, Join, JoinEnd, Aggregate, Return, WorkerAlloc,
         WorkerAllocFails, WorkerBlock, WorkerReturn, vars

\* What the type invariant says of the pieces the other lemmas use.
LEMMA TypeFacts ==
    ASSUME TypeOK
    PROVE  /\ total_rows \in Nat
           /\ num_threads \in Int
           /\ Threads \in Nat \ {0}
           /\ Block \in Nat \ {0}
  BY RowsAssumption, ThreadsAssumption, BlockAssumption, ThreadsFacts DEF TypeOK

-----------------------------------------------------------------------------
(* Lanes.                                                                  *)

\* Only one multiple of Block lies within a block's length from n.
LEMMA UniqueMultiple ==
    ASSUME NEW n \in Nat, NEW a \in Nat, NEW b \in Nat,
           n <= a * Block, a * Block < n + Block,
           n <= b * Block, b * Block < n + Block
    PROVE  a = b
  <1>1. Block \in Nat
    BY BlockAssumption
  <1>2. /\ a * Block \in Nat
        /\ b * Block \in Nat
        /\ (a + 1) * Block = a * Block + Block
        /\ (b + 1) * Block = b * Block + Block
    BY <1>1, MulNat, MulStep
  <1>3. ASSUME a < b PROVE FALSE
    <2>1. (a + 1) * Block <= b * Block
      BY <1>1, <1>3, MulMonotone
    <2> QED
      BY <1>1, <1>2, <2>1
  <1>4. ASSUME b < a PROVE FALSE
    <2>1. (b + 1) * Block <= a * Block
      BY <1>1, <1>4, MulMonotone
    <2> QED
      BY <1>1, <1>2, <2>1
  <1> QED
    BY <1>3, <1>4

\* Rounding up commutes with moving by whole blocks.
LEMMA RoundUpShift ==
    ASSUME NEW k \in Nat, NEW n \in Nat
    PROVE  RoundUp(k * Block + n) = k * Block + RoundUp(n)
  <1> DEFINE m == k * Block + n
  <1>1. Block \in Nat /\ k * Block \in Nat /\ m \in Nat
    BY BlockAssumption, MulNat
  <1>2. PICK p \in Nat : RoundUp(n) = p * Block
    BY RoundUpFacts
  <1>3. n <= p * Block /\ p * Block < n + Block
    BY <1>2, RoundUpFacts
  <1>4. (k + p) * Block = k * Block + p * Block
    BY <1>1
  <1>5. p * Block \in Nat /\ k + p \in Nat
    BY <1>1, MulNat
  <1>6. m <= (k + p) * Block /\ (k + p) * Block < m + Block
    BY <1>1, <1>3, <1>4, <1>5
  <1>7. RoundUp(m) = (k + p) * Block
    <2> HIDE DEF m
    <2>1. PICK q \in Nat : RoundUp(m) = q * Block
      BY <1>1, RoundUpFacts
    <2>2. m <= q * Block /\ q * Block < m + Block
      BY <1>1, <2>1, RoundUpFacts
    <2>3. q = k + p
      BY <1>1, <1>5, <1>6, <2>2, UniqueMultiple
    <2> QED
      BY <2>1, <2>3
  <1> QED
    BY <1>2, <1>4, <1>7

\* A multiple of Block is its own RoundUp.
LEMMA RoundUpMultiple ==
    ASSUME NEW q \in Nat
    PROVE  RoundUp(q * Block) = q * Block
  <1>1. Block \in Nat \ {0} /\ q * Block \in Nat
    BY BlockAssumption, MulNat
  <1>2. PICK p \in Nat : RoundUp(q * Block) = p * Block
    BY <1>1, RoundUpFacts
  <1>3. q * Block <= p * Block /\ p * Block < q * Block + Block
    BY <1>1, <1>2, RoundUpFacts
  <1>4. p = q
    BY <1>1, <1>3, UniqueMultiple
  <1> QED
    BY <1>2, <1>4

\* The lanes of a worker end where those of the next one begin, the last
\* worker's at the buffer's end rounded up to a block.
LEMMA LaneEndFacts ==
    ASSUME num_threads \in Int, total_rows \in Nat,
           NEW i \in ThreadIds, Start(i) < total_rows
    PROVE  /\ LaneEnd(i) \in Nat
           /\ \E q \in Nat : LaneEnd(i) = Start(i) + q * Block
           /\ End(i) <= LaneEnd(i)
           /\ LaneEnd(i) < End(i) + Block
           /\ LaneEnd(i) <= RoundUp(total_rows)
           /\ i # Threads - 1 => LaneEnd(i) = Start(i + 1)
           /\ i = Threads - 1 => LaneEnd(i) = RoundUp(total_rows)
  <1>1. Block \in Nat \ {0} /\ i \in Nat /\ Threads \in Nat \ {0}
    BY BlockAssumption, ThreadsFacts DEF ThreadIds
  <1>2. /\ Start(i) \in Nat /\ End(i) \in Nat /\ Start(i) < End(i)
        /\ End(i) <= RoundUp(total_rows)
        /\ i # Threads - 1 => End(i) = Start(i + 1)
        /\ Start(i + 1) = Start(i) + RowsPerThread
    BY <1>1, StartFacts, EndFacts
  <1> DEFINE d == End(i) - Start(i)
  <1>3. d \in Nat /\ End(i) = Start(i) + d
    BY <1>2
  <1>4. LaneEnd(i) = Start(i) + RoundUp(d)
    BY DEF LaneEnd
  <1> HIDE DEF d
  <1>5. /\ RoundUp(d) \in Nat /\ d <= RoundUp(d) /\ RoundUp(d) < d + Block
        /\ \E q \in Nat : RoundUp(d) = q * Block
    BY <1>3, RoundUpFacts
  <1>6. ASSUME i # Threads - 1 PROVE LaneEnd(i) = Start(i + 1)
    <2>1. PICK q \in Nat : RowsPerThread = q * Block
      BY RowsPerThreadFacts
    <2>2. d = q * Block
      BY <1>2, <1>3, <1>6, <2>1, RowsPerThreadFacts
    <2> QED
      BY <1>2, <1>4, <2>1, <2>2, RoundUpMultiple
  <1>7. ASSUME i = Threads - 1 PROVE LaneEnd(i) = RoundUp(total_rows)
    <2>1. PICK k \in Nat : Start(i) = k * Block
      BY <1>1, StartFacts
    <2>2. total_rows = k * Block + d
      BY <1>2, <1>3, <1>7, <2>1 DEF End
    <2> QED
      BY <1>3, <1>4, <2>1, <2>2, RoundUpShift
  <1>8. LaneEnd(i) <= RoundUp(total_rows)
    BY <1>2, <1>6, <1>7, RoundUpFacts
  <1> QED
    BY <1>1, <1>2, <1>3, <1>4, <1>5, <1>6, <1>7, <1>8

\* Intervals, and the sets of rows taken from them, are finite.
LEMMA FiniteInterval ==
    ASSUME NEW a \in Int, NEW b \in Int, NEW S \in SUBSET (a .. b)
    PROVE  IsFiniteSet(S) /\ Cardinality(S) \in Nat
  <1>1. IsFiniteSet(a .. b)
    BY FS_Interval
  <1> QED
    BY <1>1, FS_Subset, FS_CardinalityType

\* The cardinality of a disjoint union is the sum.
LEMMA DisjointCardinality ==
    ASSUME NEW S, NEW T, IsFiniteSet(S), IsFiniteSet(T), S \cap T = {}
    PROVE  Cardinality(S \cup T) = Cardinality(S) + Cardinality(T)
  <1>1. Cardinality(S \cup T) =
            Cardinality(S) + Cardinality(T) - Cardinality(S \cap T)
    BY FS_Union
  <1>2. Cardinality(S \cap T) = 0
    BY FS_EmptySet
  <1>3. Cardinality(S) \in Nat /\ Cardinality(T) \in Nat
    BY FS_CardinalityType
  <1> QED
    BY <1>1, <1>2, <1>3

\* The block at row adds its hit lanes to those below row.
LEMMA BlockAdds ==
    ASSUME NEW i, Start(i) \in Nat, NEW row \in Nat, Start(i) <= row
    PROVE  /\ Cardinality(Lanes(i, row)) \in Nat
           /\ Cardinality(BlockMask(row, End(i))) \in Nat
           /\ Cardinality(Lanes(i, row + Block)) =
                  Cardinality(Lanes(i, row))
                      + Cardinality(BlockMask(row, End(i)))
  <1> DEFINE S == Lanes(i, row)
             T == BlockMask(row, End(i))
  <1>1. Block \in Nat \ {0}
    BY BlockAssumption
  <1>2. S \in SUBSET (Start(i) .. row - 1)
    BY DEF Lanes
  <1>3. T \in SUBSET (row .. row + Block - 1)
    BY DEF BlockMask
  <1>4. /\ IsFiniteSet(S) /\ Cardinality(S) \in Nat
        /\ IsFiniteSet(T) /\ Cardinality(T) \in Nat
    <2>1. row - 1 \in Int /\ Start(i) \in Int /\ row \in Int
            /\ row + Block - 1 \in Int
      BY <1>1
    <2> HIDE DEF S, T
    <2> QED
      BY <1>2, <1>3, <2>1, FiniteInterval
  <1>5. S \cap T = {}
    BY <1>1, <1>2, <1>3
  <1>6. Lanes(i, row + Block) = S \cup T
    <2> DEFINE A == Start(i) .. row - 1
               B == row .. row + Block - 1
    <2>1. Start(i) .. (row + Block) - 1 = A \cup B
      BY <1>1
    <2>2. S = {r \in A : LaneHit(r, End(i))}
      BY DEF Lanes
    <2>3. T = {r \in B : LaneHit(r, End(i))}
      BY DEF BlockMask
    <2>4. Lanes(i, row + Block) =
              {r \in Start(i) .. (row + Block) - 1 : LaneHit(r, End(i))}
      BY DEF Lanes
    <2> HIDE DEF A, B, S, T
    <2> QED
      BY <2>1, <2>2, <2>3, <2>4
  <1> HIDE DEF S, T
  <1>7. Cardinality(S \cup T) = Cardinality(S) + Cardinality(T)
    BY <1>4, <1>5, DisjointCardinality
  <1> QED
    BY <1>4, <1>6, <1>7 DEF S, T

-----------------------------------------------------------------------------
(* The invariant is inductive.                                             *)

\* The call starts in the invariant.
LEMMA InitIInv == Init => IInv
  <1> SUFFICES ASSUME Init PROVE IInv
    OBVIOUS
  <1>1. Threads \in Nat \ {0}
    BY ThreadsAssumption, ThreadsFacts DEF Init
  <1>2. TypeOK
    BY <1>1 DEF Init, TypeOK, ThreadIds, idle
  <1>3. MainInv
    BY DEF Init, MainInv
  <1>4. ASSUME NEW i \in ThreadIds PROVE WorkerInv(i)
    BY <1>1, <1>4 DEF Init, WorkerInv, Started, idle, ThreadIds
  <1>5. SumInv
    BY DEF Init, SumInv
  <1> QED
    BY <1>2, <1>3, <1>4, <1>5 DEF IInv

\* Every step keeps the types.
LEMMA TypeStep == IInv /\ [Next]_vars => TypeOK'
  <1> SUFFICES ASSUME IInv, [Next]_vars PROVE TypeOK'
    OBVIOUS
  <1>1. TypeOK /\ MainInv
    BY DEF IInv
  <1>2. /\ total_rows \in Nat /\ num_threads \in Int
        /\ Threads \in Nat \ {0} /\ Block \in Nat \ {0}
    BY <1>1, TypeFacts
  <1>3. UNCHANGED inputs
    BY InputsUnchanged
  <1>4. /\ Threads' = Threads /\ ThreadIds' = ThreadIds
        /\ RoundUp(total_rows)' = RoundUp(total_rows)
    BY <1>3, Frozen
  <1> DEFINE Workers == [ThreadIds ->
           [st : {"idle", "started", "loop", "done", "failed"},
            row : Nat, end : Nat, total_matches : Nat]]
             Points == {"entry", "spawn", "join", "aggregate", "returned",
                        "terminated"}
  <1>5. SUFFICES /\ pc' \in Points
                 /\ t' \in 0 .. Threads
                 /\ threads' \in 0 .. Threads
                 /\ worker' \in Workers
                 /\ results' \in [ThreadIds -> Nat]
                 /\ total' \in Nat
    BY <1>1, <1>3, <1>4 DEF TypeOK, inputs
  <1>6. /\ pc \in Points /\ t \in 0 .. Threads /\ threads \in 0 .. Threads
        /\ worker \in Workers /\ results \in [ThreadIds -> Nat]
        /\ total \in Nat
    BY <1>1 DEF TypeOK
  <1> HIDE DEF Workers, Points
  <1>7. CASE Enter
    BY <1>6, <1>7 DEF Enter, Points
  <1>8. CASE ThrowsInNoexcept
    BY <1>6, <1>8 DEF ThrowsInNoexcept, Points
  <1>9. CASE SpawnThread
    <2>1. t \in ThreadIds /\ t \in Nat
      BY <1>2, <1>6, <1>9 DEF SpawnThread, ThreadIds
    <2>2. Start(t) \in Nat /\ End(t) \in Nat
      BY <1>2, <1>9, <2>1, StartFacts, EndFacts DEF SpawnThread
    <2>3. worker' \in Workers
      BY <1>6, <1>9, <2>1, <2>2 DEF SpawnThread, Workers
    <2>4. t' \in 0 .. Threads /\ threads' \in 0 .. Threads
      BY <1>1, <1>2, <1>6, <1>9 DEF SpawnThread, MainInv
    <2> QED
      BY <1>6, <1>9, <2>3, <2>4 DEF SpawnThread
  <1>10. CASE SpawnEnd
    BY <1>2, <1>6, <1>10 DEF SpawnEnd, Points
  <1>11. CASE Join
    BY <1>2, <1>6, <1>11 DEF Join
  <1>12. CASE JoinEnd
    BY <1>2, <1>6, <1>12 DEF JoinEnd, Points
  <1>13. CASE Aggregate
    <2>1. results[t] \in Nat
      BY <1>2, <1>6, <1>13 DEF Aggregate, ThreadIds
    <2> QED
      BY <1>2, <1>6, <1>13, <2>1 DEF Aggregate
  <1>14. CASE Return
    BY <1>6, <1>14 DEF Return, Points
  <1>15. ASSUME NEW i \in ThreadIds, Worker(i)
         PROVE  /\ UNCHANGED main
                /\ worker' \in Workers
                /\ results' \in [ThreadIds -> Nat]
    <2>1. CASE WorkerAlloc(i)
      BY <1>6, <2>1 DEF WorkerAlloc, Workers
    <2>2. CASE WorkerAllocFails(i)
      BY <1>6, <2>2 DEF WorkerAllocFails, Workers
    <2>3. CASE WorkerBlock(i)
      <3> DEFINE c == Cardinality(BlockMask(worker[i].row, worker[i].end))
      <3>1. c \in Nat
        <4> DEFINE a == worker[i].row
                   b == worker[i].row + Block - 1
                   S == BlockMask(worker[i].row, worker[i].end)
        <4>1. a \in Int /\ b \in Int
          BY <1>2, <1>6 DEF Workers
        <4>2. S \in SUBSET (a .. b)
          BY DEF BlockMask
        <4> HIDE DEF a, b, S
        <4>3. Cardinality(S) \in Nat
          BY <4>1, <4>2, FiniteInterval
        <4> QED
          BY <4>3 DEF S
      <3> DEFINE x == worker[i].row + Block
                 y == worker[i].total_matches + c
                 w == [worker[i] EXCEPT !.row = x, !.total_matches = y]
      <3>2. worker' = [worker EXCEPT ![i] = w]
        BY <1>6, <2>3 DEF WorkerBlock, Workers
      <3> HIDE DEF c
      <3>3. w \in [st : {"idle", "started", "loop", "done", "failed"},
                   row : Nat, end : Nat, total_matches : Nat]
        <4>1. x \in Nat /\ y \in Nat
          BY <1>2, <1>6, <3>1 DEF Workers
        <4> HIDE DEF x, y
        <4> QED
          BY <1>6, <4>1 DEF Workers
      <3> HIDE DEF w
      <3>4. worker' \in Workers
        BY <1>6, <3>2, <3>3 DEF Workers
      <3> QED
        BY <1>6, <2>3, <3>4 DEF WorkerBlock
    <2>4. CASE WorkerReturn(i)
      BY <1>6, <2>4 DEF WorkerReturn, Workers
    <2> QED
      BY <1>15, <2>1, <2>2, <2>3, <2>4 DEF Worker
  <1>16. CASE UNCHANGED vars
    BY <1>6, <1>16 DEF vars, main
  <1> QED
    BY <1>6, <1>7, <1>8, <1>9, <1>10, <1>11, <1>12, <1>13, <1>14, <1>15, <1>16
    DEF Next, Main, Finished, main

\* A step of a worker changes neither the calling thread nor another worker's
\* record or slot.
LEMMA WorkerEffect ==
    ASSUME TypeOK, NEW i \in ThreadIds, Worker(i)
    PROVE  /\ UNCHANGED main
           /\ pc # "terminated"
           /\ \A j \in ThreadIds : j # i =>
                  worker'[j] = worker[j] /\ results'[j] = results[j]
           /\ worker[i].st \in {"started", "loop"}
           /\ worker'[i].st # "idle"
  <1>1. CASE WorkerAlloc(i)
    BY <1>1 DEF WorkerAlloc, TypeOK, Alive
  <1>2. CASE WorkerAllocFails(i)
    BY <1>2 DEF WorkerAllocFails, TypeOK, Alive
  <1>3. CASE WorkerBlock(i)
    BY <1>3 DEF WorkerBlock, TypeOK, Alive
  <1>4. CASE WorkerReturn(i)
    BY <1>4 DEF WorkerReturn, TypeOK, Alive
  <1> QED
    BY <1>1, <1>2, <1>3, <1>4 DEF Worker

\* Every step keeps the calling thread's counters in place.
LEMMA MainStep == IInv /\ [Next]_vars => MainInv'
  <1> SUFFICES ASSUME IInv, [Next]_vars PROVE MainInv'
    OBVIOUS
  <1>1. TypeOK /\ MainInv /\ \A i \in ThreadIds : WorkerInv(i)
    BY DEF IInv
  <1>2. /\ total_rows \in Nat /\ num_threads \in Int
        /\ Threads \in Nat \ {0}
    BY <1>1, TypeFacts
  <1>3. /\ Threads' = Threads /\ ThreadIds' = ThreadIds
        /\ total_rows' = total_rows
        /\ \A i : Start(i)' = Start(i)
    BY InputsUnchanged, Frozen DEF inputs
  <1>4. /\ pc \in {"entry", "spawn", "join", "aggregate", "returned",
                   "terminated"}
        /\ t \in 0 .. Threads /\ threads \in 0 .. Threads
        /\ t' \in 0 .. Threads /\ threads' \in 0 .. Threads
    BY <1>1, <1>3, TypeStep DEF TypeOK
  <1>5. CASE Enter
    <2>1. /\ t = 0 /\ threads = 0 /\ t' = 0 /\ threads' = 0
          /\ pc' \in {"returned", "spawn"}
          /\ pc' = "returned" <=> total_rows = 0
      BY <1>1, <1>5 DEF MainInv, Enter
    <2>2. \A i \in ThreadIds : ~(i < 0)
      BY <1>2 DEF ThreadIds
    <2> QED
      BY <1>2, <1>3, <2>1, <2>2 DEF MainInv
  <1>6. CASE ThrowsInNoexcept
    BY <1>6 DEF MainInv, ThrowsInNoexcept
  <1>7. CASE SpawnThread
    BY <1>1, <1>3, <1>7 DEF MainInv, SpawnThread
  <1>8. CASE SpawnEnd
    <2>1. /\ pc' = "join" /\ t' = 0 /\ threads' = threads /\ t = threads
          /\ t = Threads \/ Start(t) >= total_rows
      BY <1>1, <1>8 DEF SpawnEnd, MainInv
    <2>2. total_rows > 0
      BY <1>1, <1>8 DEF MainInv, SpawnEnd
    <2> QED
      BY <1>2, <1>3, <1>4, <2>1, <2>2 DEF MainInv
  <1>9. CASE Join
    BY <1>1, <1>2, <1>3, <1>4, <1>9 DEF MainInv, Join, Exited
  <1>10. CASE JoinEnd
    BY <1>1, <1>2, <1>3, <1>4, <1>10 DEF MainInv, JoinEnd, Exited, ThreadIds
  <1>11. CASE Aggregate
    BY <1>1, <1>2, <1>3, <1>4, <1>11 DEF MainInv, Aggregate, Exited
  <1>12. CASE Return
    BY <1>1, <1>2, <1>3, <1>4, <1>12 DEF MainInv, Return, Exited
  <1>13. ASSUME NEW i \in ThreadIds, Worker(i) PROVE MainInv'
    <2>1. /\ UNCHANGED main
          /\ \A j \in ThreadIds : j # i => worker'[j] = worker[j]
          /\ ~Exited(i)
      BY <1>1, <1>13, WorkerEffect DEF Exited
    <2>2. \A j \in ThreadIds : Exited(j) => Exited(j)'
      BY <2>1 DEF Exited
    <2>3. \A j \in 0 .. t - 1 : j \in ThreadIds
      BY <1>2, <1>4 DEF ThreadIds
    <2> QED
      BY <1>1, <1>2, <1>3, <1>4, <2>1, <2>2, <2>3 DEF MainInv, main
  <1>14. CASE UNCHANGED vars
    BY <1>1, <1>3, <1>14 DEF MainInv, vars, main, Exited
  <1> QED
    BY <1>5, <1>6, <1>7, <1>8, <1>9, <1>10, <1>11, <1>12, <1>13, <1>14
    DEF Next, Main, Finished

\* A worker whose state does not change keeps its part of the invariant.
LEMMA WorkerInvFrame ==
    ASSUME NEW i \in ThreadIds, WorkerInv(i), UNCHANGED inputs,
           worker'[i] = worker[i], results'[i] = results[i],
           i < threads' <=> i < threads
    PROVE  WorkerInv(i)'
  <1>1. /\ Start(i)' = Start(i) /\ End(i)' = End(i)
        /\ LaneEnd(i)' = LaneEnd(i) /\ LaneHits(i)' = LaneHits(i)
        /\ \A row : Lanes(i, row)' = Lanes(i, row)
        /\ total_rows' = total_rows
    BY Frozen DEF inputs
  <1>2. Lanes(i, worker[i].row)' = Lanes(i, worker[i].row)
    <2>1. Lanes(i, worker[i].row)' =
              {r \in Start(i)' .. worker'[i].row - 1 : LaneHit(r, End(i))'}
      BY DEF Lanes
    <2>2. \A r : LaneHit(r, End(i))' = LaneHit(r, End(i))
      BY <1>1 DEF inputs, LaneHit
    <2> QED
      BY <1>1, <2>1, <2>2 DEF Lanes
  <1> QED
    BY <1>1, <1>2 DEF WorkerInv, Started

\* No lane is counted at the start of a range, all of them at its end.
LEMMA LanesAtEnds ==
    ASSUME num_threads \in Int, total_rows \in Nat,
           NEW i \in ThreadIds, Start(i) < total_rows
    PROVE  /\ Cardinality(Lanes(i, Start(i))) = 0
           /\ Lanes(i, LaneEnd(i)) = LaneHits(i)
           /\ IsFiniteSet(LaneHits(i))
           /\ Cardinality(LaneHits(i)) \in Nat
           /\ LaneHits(i) \subseteq Start(i) .. LaneEnd(i) - 1
  <1>1. i \in Nat /\ Start(i) \in Nat /\ LaneEnd(i) \in Nat
    BY StartFacts, LaneEndFacts, ThreadsFacts DEF ThreadIds
  <1>2. Lanes(i, Start(i)) = {}
    BY <1>1 DEF Lanes
  <1>3. Lanes(i, LaneEnd(i)) = LaneHits(i)
    <2>1. (Start(i) + RoundUp(End(i) - Start(i))) - 1 =
              Start(i) + RoundUp(End(i) - Start(i)) - 1
      BY <1>1, EndFacts, RoundUpFacts
    <2> QED
      BY <2>1 DEF Lanes, LaneHits, LaneEnd
  <1>4. Lanes(i, LaneEnd(i)) \subseteq Start(i) .. LaneEnd(i) - 1
    BY DEF Lanes
  <1>5. Start(i) \in Int /\ LaneEnd(i) - 1 \in Int
    BY <1>1
  <1>6. Cardinality(Lanes(i, Start(i))) = 0
    BY <1>2, FS_EmptySet
  <1>7. LaneHits(i) \in SUBSET (Start(i) .. LaneEnd(i) - 1)
    BY <1>3, <1>4
  <1>8. IsFiniteSet(LaneHits(i)) /\ Cardinality(LaneHits(i)) \in Nat
    BY <1>5, <1>7, FiniteInterval
  <1> QED
    BY <1>3, <1>6, <1>7, <1>8

\* Every step keeps the workers' counts exact.
LEMMA WorkerStep ==
    ASSUME IInv, [Next]_vars, NEW i \in ThreadIds
    PROVE  WorkerInv(i)'
  <1>1. TypeOK /\ MainInv /\ WorkerInv(i)
    BY DEF IInv
  <1>2. /\ total_rows \in Nat /\ num_threads \in Int
        /\ Threads \in Nat \ {0} /\ Block \in Nat \ {0}
        /\ i \in Nat /\ Start(i) \in Nat
    BY <1>1, TypeFacts, StartFacts DEF ThreadIds
  <1>3. /\ UNCHANGED inputs
        /\ Start(i)' = Start(i) /\ End(i)' = End(i)
        /\ LaneEnd(i)' = LaneEnd(i) /\ LaneHits(i)' = LaneHits(i)
        /\ \A row : Lanes(i, row)' = Lanes(i, row)
        /\ total_rows' = total_rows
    BY InputsUnchanged, Frozen DEF inputs
  <1>4. CASE UNCHANGED <<threads, worker, results>>
    BY <1>1, <1>3, <1>4, WorkerInvFrame
  <1>5. CASE SpawnThread
    <2>1. t = threads /\ t \in ThreadIds /\ Start(t) < total_rows
      BY <1>1, <1>2, <1>5 DEF SpawnThread, MainInv, TypeOK, ThreadIds
    <2>2. CASE i # t
      <3>1. worker'[i] = worker[i] /\ results' = results
        BY <1>1, <1>5, <2>2 DEF SpawnThread, TypeOK
      <3>2. i < threads' <=> i < threads
        BY <1>1, <1>2, <1>5, <2>1, <2>2 DEF SpawnThread, TypeOK
      <3> QED
        BY <1>1, <1>3, <3>1, <3>2, WorkerInvFrame
    <2>3. CASE i = t
      <3>1. /\ worker'[i] = [st |-> "started", row |-> Start(i),
                             end |-> End(i), total_matches |-> 0]
            /\ results' = results
            /\ threads' = threads + 1
        BY <1>1, <1>5, <2>3 DEF SpawnThread, TypeOK
      <3>2. results[i] = 0
        BY <1>1, <2>1, <2>3, <1>2 DEF WorkerInv, Started
      <3>3. i < threads'
        BY <1>2, <2>1, <2>3, <3>1
      <3>4. Start(i) < total_rows /\ Start(i) <= LaneEnd(i)
        BY <1>2, <2>1, <2>3, LaneEndFacts, EndFacts
      <3>5. Start(i) = Start(i) + 0 * Block
        BY <1>2
      <3>6. Cardinality(Lanes(i, worker[i].row))' = 0
        <4>1. Lanes(i, worker[i].row)' = Lanes(i, Start(i))
          <5>1. Lanes(i, worker[i].row)' =
                    {r \in Start(i)' .. worker'[i].row - 1 :
                        LaneHit(r, End(i))'}
            BY DEF Lanes
          <5>2. \A r : LaneHit(r, End(i))' = LaneHit(r, End(i))
            BY <1>3 DEF inputs, LaneHit
          <5> QED
            BY <1>3, <3>1, <5>1, <5>2 DEF Lanes
        <4> QED
          BY <1>2, <3>4, <4>1, LanesAtEnds
      <3> QED
        BY <1>2, <1>3, <3>1, <3>2, <3>3, <3>4, <3>5, <3>6
        DEF WorkerInv, Started
    <2> QED
      BY <2>2, <2>3
  <1>6. ASSUME NEW j \in ThreadIds, Worker(j), j # i
        PROVE  WorkerInv(i)'
    BY <1>1, <1>3, <1>6, WorkerEffect, WorkerInvFrame DEF main
  <1>7. ASSUME Worker(i) PROVE WorkerInv(i)'
    <2>1. /\ UNCHANGED main /\ Started(i)
          /\ worker[i].st \in {"started", "loop"}
      BY <1>1, <1>7, WorkerEffect DEF Started
    <2>2. /\ i < threads /\ threads' = threads
          /\ Start(i) < total_rows
          /\ worker[i].end = End(i)
          /\ worker[i].row <= LaneEnd(i)
          /\ worker[i].total_matches = Cardinality(Lanes(i, worker[i].row))
          /\ results[i] = 0
      BY <1>1, <2>1 DEF WorkerInv, main
    <2>3. PICK k \in Nat : worker[i].row = Start(i) + k * Block
      BY <1>1, <2>1 DEF WorkerInv
    <2>4. worker[i].row \in Nat
      BY <1>1 DEF TypeOK
    <2>5. k * Block \in Nat
      BY <1>2, MulNat
    <2>6. \A row : worker'[i].row = row =>
              Lanes(i, worker[i].row)' = Lanes(i, row)
      <3>1. Lanes(i, worker[i].row)' =
                {r \in Start(i)' .. worker'[i].row - 1 : LaneHit(r, End(i))'}
        BY DEF Lanes
      <3>2. \A r : LaneHit(r, End(i))' = LaneHit(r, End(i))
        BY <1>3 DEF inputs, LaneHit
      <3> QED
        BY <1>3, <3>1, <3>2 DEF Lanes
    <2>7. CASE WorkerAlloc(i) \/ WorkerAllocFails(i)
      <3>1. /\ worker'[i].st \in {"loop", "failed"}
            /\ worker'[i].row = worker[i].row
            /\ worker'[i].end = worker[i].end
            /\ worker'[i].total_matches = worker[i].total_matches
            /\ results'[i] = 0
        BY <1>1, <2>2, <2>7 DEF WorkerAlloc, WorkerAllocFails, TypeOK
      <3>2. Lanes(i, worker[i].row)' = Lanes(i, worker[i].row)
        BY <2>6, <3>1
      <3> QED
        BY <1>3, <2>2, <2>3, <3>1, <3>2 DEF WorkerInv, Started
    <2>8. CASE WorkerBlock(i)
      <3> DEFINE c == Cardinality(BlockMask(worker[i].row, worker[i].end))
      <3>1. /\ worker'[i].st = "loop"
            /\ worker'[i].row = worker[i].row + Block
            /\ worker'[i].end = worker[i].end
            /\ worker'[i].total_matches = worker[i].total_matches + c
            /\ results'[i] = 0
            /\ worker[i].row < worker[i].end
        BY <1>1, <2>2, <2>8 DEF WorkerBlock, TypeOK
      <3>2. Lanes(i, worker[i].row)' = Lanes(i, worker[i].row + Block)
        BY <2>6, <3>1
      <3>3. c = Cardinality(BlockMask(worker[i].row, End(i)))
        BY <2>2
      <3> HIDE DEF c
      <3>4. Start(i) <= worker[i].row
        BY <1>2, <2>3, <2>5
      <3>5. worker'[i].total_matches = Cardinality(Lanes(i, worker[i].row))'
        BY <1>2, <2>2, <2>4, <3>1, <3>2, <3>3, <3>4, BlockAdds
      <3>6. worker'[i].row = Start(i) + (k + 1) * Block /\ k + 1 \in Nat
        BY <1>2, <2>3, <2>5, <3>1, MulStep
      <3>7. worker'[i].row <= LaneEnd(i)
        <4>1. /\ End(i) \in Nat /\ Start(i) < End(i)
              /\ End(i) - Start(i) \in Nat
          BY <1>2, <2>2, EndFacts
        <4>2. k * Block < End(i) - Start(i)
          BY <1>2, <2>2, <2>3, <2>5, <3>1, <4>1
        <4>3. k * Block + Block <= RoundUp(End(i) - Start(i))
          BY <4>1, <4>2, NextBlockWithinRoundUp
        <4> QED
          BY <1>2, <2>3, <2>5, <3>1, <4>1, <4>3, RoundUpFacts DEF LaneEnd
      <3> QED
        BY <1>3, <2>2, <3>1, <3>5, <3>6, <3>7 DEF WorkerInv, Started
    <2>9. CASE WorkerReturn(i)
      <3>1. /\ worker'[i].st = "done"
            /\ worker'[i].row = worker[i].row
            /\ worker'[i].end = worker[i].end
            /\ worker'[i].total_matches = worker[i].total_matches
            /\ results'[i] = worker[i].total_matches
            /\ worker[i].row >= worker[i].end
        BY <1>1, <2>9 DEF WorkerReturn, TypeOK
      <3>2. Lanes(i, worker[i].row)' = Lanes(i, worker[i].row)
        BY <2>6, <3>1
      <3>3. worker[i].row = LaneEnd(i)
        <4>1. PICK q \in Nat : LaneEnd(i) = Start(i) + q * Block
          BY <1>2, <2>2, LaneEndFacts
        <4>2. q * Block \in Nat /\ (k + 1) * Block = k * Block + Block
          BY <1>2, MulNat, MulStep
        <4>3. LaneEnd(i) < End(i) + Block /\ End(i) \in Nat
          BY <1>2, <2>2, LaneEndFacts, EndFacts
        <4>4. ~(k + 1 <= q)
          <5>1. ASSUME k + 1 <= q PROVE FALSE
            <6>1. (k + 1) * Block <= q * Block
              BY <1>2, <5>1, MulMonotone
            <6> QED
              BY <1>2, <2>2, <2>3, <2>5, <3>1, <4>1, <4>2, <4>3, <6>1
          <5> QED BY <5>1
        <4>5. q * Block <= k * Block
          BY <1>2, <4>4, MulMonotone
        <4> QED
          BY <1>2, <2>2, <2>3, <2>5, <4>1, <4>2, <4>5
      <3>4. results'[i] = Cardinality(LaneHits(i))
        BY <1>2, <2>2, <3>1, <3>3, LanesAtEnds
      <3> QED
        BY <1>3, <2>2, <2>3, <3>1, <3>2, <3>4 DEF WorkerInv, Started
    <2> QED
      BY <1>7, <2>7, <2>8, <2>9 DEF Worker
  <1>8. CASE Main /\ ~SpawnThread
    BY <1>4, <1>8
    DEF Main, Enter, SpawnEnd, Join, JoinEnd, Aggregate, Return
  <1>9. CASE ThrowsInNoexcept \/ Finished \/ UNCHANGED vars
    BY <1>4, <1>9 DEF ThrowsInNoexcept, Finished, vars, main
  <1> QED
    BY <1>5, <1>6, <1>7, <1>8, <1>9 DEF Next

\* Lanes of different workers are different lanes.
LEMMA LaneHitsDisjoint ==
    ASSUME num_threads \in Int, total_rows \in Nat,
           NEW i \in ThreadIds, NEW j \in ThreadIds, i < j,
           Start(i) < total_rows, Start(j) < total_rows
    PROVE  /\ LaneEnd(i) <= Start(j)
           /\ LaneHits(i) \cap LaneHits(j) = {}
  <1>1. i \in Nat /\ j \in Nat /\ i # Threads - 1
    BY ThreadsFacts DEF ThreadIds
  <1>2. LaneEnd(i) = Start(i + 1) /\ LaneEnd(i) \in Nat
    BY <1>1, LaneEndFacts
  <1>3. Start(i + 1) <= Start(j)
    BY <1>1, StartFacts, StartMonotone
  <1>4. /\ LaneHits(i) \subseteq Start(i) .. LaneEnd(i) - 1
        /\ LaneHits(j) \subseteq Start(j) .. LaneEnd(j) - 1
        /\ Start(i) \in Nat /\ Start(j) \in Nat /\ LaneEnd(j) \in Nat
    BY <1>1, LanesAtEnds, StartFacts, LaneEndFacts
  <1> QED
    BY <1>2, <1>3, <1>4

\* The hit lanes of workers that start in the buffer are a finite set.
LEMMA LanesInBuffer ==
    ASSUME num_threads \in Int, total_rows \in Nat, NEW S \in SUBSET ThreadIds,
           \A i \in S : Start(i) < total_rows
    PROVE  /\ IsFiniteSet(UNION {LaneHits(i) : i \in S})
           /\ Cardinality(UNION {LaneHits(i) : i \in S}) \in Nat
  <1> DEFINE U == UNION {LaneHits(i) : i \in S}
  <1>1. RoundUp(total_rows) \in Nat
    BY RoundUpFacts
  <1>2. ASSUME NEW i \in S PROVE LaneHits(i) \subseteq 0 .. RoundUp(total_rows) - 1
    <2>1. i \in ThreadIds /\ i \in Nat /\ Start(i) < total_rows
      BY ThreadsFacts DEF ThreadIds
    <2>2. /\ LaneHits(i) \subseteq Start(i) .. LaneEnd(i) - 1
          /\ LaneEnd(i) <= RoundUp(total_rows)
          /\ LaneEnd(i) \in Nat /\ Start(i) \in Nat
      BY <2>1, LanesAtEnds, LaneEndFacts, StartFacts
    <2> QED
      BY <1>1, <2>2
  <1>3. U \in SUBSET (0 .. RoundUp(total_rows) - 1)
    BY <1>2
  <1>4. 0 \in Int /\ RoundUp(total_rows) - 1 \in Int
    BY <1>1
  <1> HIDE DEF U
  <1>5. IsFiniteSet(U) /\ Cardinality(U) \in Nat
    BY <1>3, <1>4, FiniteInterval
  <1> QED
    BY <1>5 DEF U

\* A number is below the next one exactly when it is below or equal.
LEMMA BelowNext ==
    ASSUME NEW k \in Nat
    PROVE  \A j \in Nat : j < k + 1 <=> (j < k \/ j = k)
  OBVIOUS

\* Adding slot k to the sum adds the lanes of worker k to the lanes counted.
LEMMA AggregateAdds ==
    ASSUME IInv, NEW k \in ThreadIds
    PROVE  Cardinality(DoneLanes(k + 1)) = Cardinality(DoneLanes(k)) + results[k]
  <1>1. TypeOK /\ \A i \in ThreadIds : WorkerInv(i)
    BY DEF IInv
  <1>2. total_rows \in Nat /\ num_threads \in Int
    BY <1>1, TypeFacts
  <1>3. k \in Nat /\ ThreadIds \subseteq Nat
    BY <1>2, ThreadsFacts DEF ThreadIds
  <1> DEFINE D == {j \in Done : j < k}
             D1 == {j \in Done : j < k + 1}
             U == UNION {LaneHits(i) : i \in D}
  <1>4. D \in SUBSET ThreadIds /\ \A i \in D : Start(i) < total_rows
    BY <1>1 DEF Done, WorkerInv, Started
  <1>5. DoneLanes(k) = U
    BY DEF DoneLanes
  <1>6. IsFiniteSet(U) /\ Cardinality(U) \in Nat
    <2> HIDE DEF D
    <2> QED
      BY <1>2, <1>4, LanesInBuffer
  <1>9. \A j \in Done : j < k + 1 <=> (j < k \/ j = k)
    <2>1. Done \subseteq Nat
      BY <1>3, Zenon DEF Done
    <2> QED
      BY <1>3, <2>1, BelowNext, Zenon
  <1>7. CASE k \in Done
    <2>1. D1 = D \cup {k}
      <3>1. k < k + 1
        BY <1>3
      <3> QED
        BY <1>9, <1>7, <3>1, Zenon
    <2>2. DoneLanes(k + 1) = U \cup LaneHits(k)
      <3>1. DoneLanes(k + 1) = UNION {LaneHits(i) : i \in D1}
        BY DEF DoneLanes
      <3> HIDE DEF D1, D
      <3> QED
        BY <2>1, <3>1
    <2>3. /\ worker[k].st = "done" /\ Start(k) < total_rows
          /\ results[k] = Cardinality(LaneHits(k))
      BY <1>1, <1>7 DEF Done, WorkerInv, Started
    <2>4. IsFiniteSet(LaneHits(k))
      BY <1>2, <2>3, LanesAtEnds
    <2>5. U \cap LaneHits(k) = {}
      <3>1. ASSUME NEW i \in D PROVE LaneHits(i) \cap LaneHits(k) = {}
        <4>1. i \in ThreadIds /\ i < k /\ Start(i) < total_rows
          BY <1>4
        <4> QED
          BY <1>2, <2>3, <4>1, LaneHitsDisjoint
      <3> QED
        BY <3>1
    <2> HIDE DEF U
    <2> QED
      BY <1>5, <1>6, <2>2, <2>3, <2>4, <2>5, DisjointCardinality
  <1>8. CASE k \notin Done
    <2>1. D1 = D
      BY <1>9, <1>8, Zenon
    <2>2. DoneLanes(k + 1) = U
      <3>1. DoneLanes(k + 1) = UNION {LaneHits(i) : i \in D1}
        BY DEF DoneLanes
      <3> HIDE DEF D1, D
      <3> QED
        BY <2>1, <3>1
    <2>3. results[k] = 0
      BY <1>1, <1>8 DEF Done, WorkerInv
    <2> HIDE DEF U
    <2> QED
      BY <1>5, <1>6, <2>2, <2>3
  <1> QED
    BY <1>7, <1>8

\* Every step keeps the sum equal to the lanes of the slots added.
LEMMA SumStep == IInv /\ [Next]_vars => SumInv'
  <1> SUFFICES ASSUME IInv, [Next]_vars PROVE SumInv'
    OBVIOUS
  <1>1. TypeOK /\ MainInv /\ SumInv /\ \A i \in ThreadIds : WorkerInv(i)
    BY DEF IInv
  <1>2. /\ total_rows \in Nat /\ num_threads \in Int
        /\ Threads \in Nat \ {0}
    BY <1>1, TypeFacts
  <1>3. /\ Threads' = Threads /\ ThreadIds' = ThreadIds
        /\ \A i : LaneHits(i)' = LaneHits(i)
    BY InputsUnchanged, Frozen
  <1>4. pc \in {"entry", "spawn", "join", "aggregate", "returned",
                "terminated"}
    BY <1>1 DEF TypeOK
  <1>5. ASSUME UNCHANGED worker
        PROVE  \A k : DoneLanes(k)' = DoneLanes(k)
    BY <1>3, <1>5 DEF DoneLanes, Done
  <1>6. CASE Enter
    <2>1. Done = {}
      BY <1>1, <1>2, <1>6 DEF Enter, MainInv, Done, WorkerInv, Started, ThreadIds
    <2>2. DoneLanes(Threads) = {}
      BY <2>1 DEF DoneLanes
    <2>3. DoneLanes(Threads)' = {}
      <3>1. Done' = {}
        BY <1>3, <1>6, <2>1 DEF Enter, Done
      <3> QED
        BY <3>1 DEF DoneLanes
    <2> QED
      BY <1>1, <1>6, <2>3, FS_EmptySet DEF Enter, SumInv
  <1>7. CASE ThrowsInNoexcept
    BY <1>7 DEF ThrowsInNoexcept, SumInv
  <1>8. CASE SpawnThread \/ SpawnEnd \/ Join
    BY <1>1, <1>8 DEF SpawnThread, SpawnEnd, Join, SumInv
  <1>9. CASE JoinEnd
    <2>1. DoneLanes(t)' = {}
      <3>1. {j \in Done' : j < 0} = {}
        BY <1>2, <1>3 DEF Done, ThreadIds
      <3> QED
        BY <1>9, <3>1 DEF JoinEnd, DoneLanes
    <2> QED
      BY <1>1, <1>9, <2>1, FS_EmptySet DEF JoinEnd, SumInv
  <1>10. CASE Aggregate
    <2>1. t \in ThreadIds
      BY <1>1, <1>2, <1>10 DEF Aggregate, TypeOK, ThreadIds
    <2>2. Cardinality(DoneLanes(t + 1)) = Cardinality(DoneLanes(t)) + results[t]
      BY <2>1, AggregateAdds
    <2>3. DoneLanes(t)' = DoneLanes(t + 1)
      BY <1>3, <1>10 DEF Aggregate, DoneLanes, Done
    <2> QED
      BY <1>1, <1>10, <2>2, <2>3 DEF Aggregate, SumInv
  <1>11. CASE Return
    <2>1. DoneLanes(Threads)' = DoneLanes(t)
      BY <1>3, <1>11 DEF Return, DoneLanes, Done
    <2> QED
      BY <1>1, <1>11, <2>1 DEF Return, SumInv
  <1>12. ASSUME NEW i \in ThreadIds, Worker(i) PROVE SumInv'
    <2>1. /\ UNCHANGED main /\ i < threads /\ ~Exited(i)
          /\ pc # "terminated"
      BY <1>1, <1>12, WorkerEffect DEF WorkerInv, Started, Exited
    <2>2. pc \in {"entry", "spawn", "join"}
      BY <1>1, <1>4, <2>1 DEF MainInv
    <2> QED
      BY <1>1, <2>1, <2>2 DEF SumInv, main
  <1>13. CASE UNCHANGED vars
    <2>1. DoneLanes(t)' = DoneLanes(t) /\ DoneLanes(Threads)' = DoneLanes(Threads)
      BY <1>3, <1>13 DEF vars, main, DoneLanes, Done
    <2> QED
      BY <1>1, <1>13, <2>1 DEF vars, main, SumInv
  <1> QED
    BY <1>6, <1>7, <1>8, <1>9, <1>10, <1>11, <1>12, <1>13
    DEF Next, Main, Finished

\* The inductive invariant holds in every state of every call: types, the
\* counters of the calling thread, the count of each worker so far, the sum.
THEOREM Invariance == Spec => []IInv
  <1>1. Init => IInv
    BY InitIInv
  <1>2. IInv /\ [Next]_vars => IInv'
    <2> SUFFICES ASSUME IInv, [Next]_vars PROVE IInv'
      OBVIOUS
    <2>1. TypeOK' /\ MainInv' /\ SumInv'
      BY TypeStep, MainStep, SumStep
    <2>2. \A i \in ThreadIds : WorkerInv(i)'
      BY WorkerStep
    <2>3. ThreadIds' = ThreadIds
      BY InputsUnchanged, Frozen
    <2> QED
      BY <2>1, <2>2, <2>3 DEF IInv
  <1> QED
    BY <1>1, <1>2, PTL DEF Spec

-----------------------------------------------------------------------------
(* The properties, for every block size, row count and thread count.       *)

\* Every variable of a call of run keeps its type.
THEOREM TypeCorrect == Spec => []TypeOK
  BY Invariance, PTL DEF IInv

\* Disjoint ranges follow from the invariant and the arithmetic of the
\* partition.
LEMMA ImpliesDisjoint == IInv => DisjointRanges
  <1> SUFFICES ASSUME IInv, NEW i \in ThreadIds, NEW j \in ThreadIds,
                      i < j, Started(i), Started(j)
               PROVE  worker[i].end <= Start(j) /\ worker[i].row <= Start(j)
    BY DEF DisjointRanges
  <1>1. TypeOK /\ WorkerInv(i) /\ WorkerInv(j)
    BY DEF IInv
  <1>2. total_rows \in Nat /\ num_threads \in Int
    BY <1>1, TypeFacts
  <1>3. /\ Start(i) < total_rows /\ Start(j) < total_rows
        /\ worker[i].end = End(i) /\ worker[i].row <= LaneEnd(i)
    BY <1>1 DEF WorkerInv
  <1>4. /\ LaneEnd(i) <= Start(j) /\ End(i) <= LaneEnd(i)
        /\ LaneEnd(i) \in Nat /\ End(i) \in Nat
    BY <1>2, <1>3, LaneHitsDisjoint, LaneEndFacts, EndFacts
  <1>5. j \in Nat /\ worker[i].row \in Nat
    BY <1>1, TypeFacts DEF ThreadIds, TypeOK
  <1>6. Start(j) \in Nat
    BY <1>2, <1>5, StartFacts
  <1> QED
    BY <1>3, <1>4, <1>5, <1>6

\* No row is given to two workers, whatever the sizes.
THEOREM RangesAreDisjoint == Spec => []DisjointRanges
  BY Invariance, ImpliesDisjoint, PTL

\* Row r lies in the range of some worker the partition starts.
LEMMA RowHasWorker ==
    ASSUME IInv, pc \in {"join", "aggregate", "returned"},
           NEW r \in 0 .. total_rows - 1
    PROVE  \E i \in 0 .. threads - 1 :
               Started(i) /\ Start(i) <= r /\ r < worker[i].end
  <1>1. TypeOK /\ MainInv /\ \A i \in ThreadIds : WorkerInv(i)
    BY DEF IInv
  <1>2. /\ total_rows \in Nat /\ num_threads \in Int
        /\ Threads \in Nat \ {0} /\ threads \in 0 .. Threads
        /\ r \in Nat /\ r < total_rows
    BY <1>1, TypeFacts DEF TypeOK
  <1>3. threads = Threads \/ Start(threads) >= total_rows
    BY <1>1, <1>2 DEF MainInv
  <1>4. RowsPerThread \in Nat \ {0}
    BY <1>2, RowsPerThreadFacts
  <1> DEFINE q == r \div RowsPerThread
  <1>5. /\ q \in Nat
        /\ q * RowsPerThread <= r
        /\ r < q * RowsPerThread + RowsPerThread
    BY <1>2, <1>4, DivBounds
  <1> HIDE DEF q
  <1>6. Start(q) \in Nat /\ Start(q) <= r /\ r < Start(q) + RowsPerThread
    BY <1>2, <1>5, StartFacts DEF Start
  <1>7. ASSUME NEW i \in ThreadIds, i < threads
        PROVE  /\ i \in 0 .. threads - 1
               /\ Started(i)
               /\ worker[i].end = End(i)
    BY <1>1, <1>2, <1>7 DEF WorkerInv, ThreadIds
  <1>8. CASE q < threads
    <2>1. q \in ThreadIds
      BY <1>2, <1>5, <1>8 DEF ThreadIds
    <2>2. r < End(q)
      BY <1>2, <1>6 DEF End
    <2> QED
      BY <1>6, <1>7, <1>8, <2>1, <2>2
  <1>9. CASE q >= threads
    <2>1. threads = Threads
      <3>1. ASSUME Start(threads) >= total_rows PROVE FALSE
        <4>1. threads * RowsPerThread <= q * RowsPerThread
          BY <1>2, <1>4, <1>5, <1>9, MulMonotone
        <4>2. Start(threads) \in Nat
          BY <1>2, StartFacts
        <4> QED
          BY <1>2, <1>6, <3>1, <4>1, <4>2 DEF Start
      <3> QED
        BY <1>3, <3>1
    <2> DEFINE i == Threads - 1
    <2>2. i \in ThreadIds /\ i \in Nat /\ i < threads /\ i < q
      BY <1>2, <1>5, <1>9, <2>1 DEF ThreadIds
    <2>3. Start(i) + RowsPerThread <= Start(q) /\ Start(i) \in Nat
      BY <1>2, <1>5, <2>2, StartMonotone, StartFacts
    <2>4. Start(i) <= r /\ r < End(i)
      BY <1>2, <1>4, <1>6, <2>3 DEF End
    <2> HIDE DEF i
    <2> QED
      BY <1>7, <2>2, <2>4
  <1> QED
    BY <1>2, <1>5, <1>8, <1>9

\* Every row of the buffer is given to a worker, whatever the sizes.
THEOREM RowsAreAssigned == Spec => []EveryRowAssigned
  <1>1. IInv => EveryRowAssigned
    BY RowHasWorker DEF EveryRowAssigned
  <1> QED
    BY <1>1, Invariance, PTL

\* A range passes the end of the buffer by less than a block, whatever the
\* sizes.
THEOREM OverrunIsBounded == Spec => []OverrunWithinLastBlock
  <1>1. ASSUME IInv PROVE OverrunWithinLastBlock
    <2>1. TypeOK /\ \A i \in ThreadIds : WorkerInv(i)
      BY <1>1 DEF IInv
    <2>2. total_rows \in Nat /\ num_threads \in Int
      BY <2>1, TypeFacts
    <2>3. ASSUME NEW i \in ThreadIds
          PROVE  worker[i].end <= RoundUp(total_rows)
      <3>1. CASE Started(i)
        BY <2>1, <2>2, <3>1, EndFacts DEF WorkerInv
      <3>2. CASE ~Started(i)
        BY <2>1, <2>2, <3>2, RoundUpFacts DEF WorkerInv, Started
      <3> QED
        BY <3>1, <3>2
    <2> QED
      BY <2>3 DEF OverrunWithinLastBlock
  <1>2. IInv => OverrunWithinLastBlock
    BY <1>1
  <1> QED
    BY <1>2, Invariance, PTL

\* The unlocked result slots are never read while a worker still runs.
THEOREM SlotsReadAfterJoin == Spec => []JoinedBeforeAggregate
  <1>1. IInv => JoinedBeforeAggregate
    BY DEF IInv, MainInv, WorkerInv, JoinedBeforeAggregate
  <1> QED
    BY <1>1, Invariance, PTL

\* When every slot has been added the sum is over all workers.
LEMMA AllDoneLanes == ASSUME TypeOK PROVE
    DoneLanes(Threads) = UNION {LaneHits(i) : i \in Done}
  <1>1. \A i \in Done : i < Threads
    BY TypeFacts DEF Done, ThreadIds
  <1>2. {j \in Done : j < Threads} = Done
    BY <1>1
  <1> QED
    BY <1>2 DEF DoneLanes

\* run returns the number of hit lanes of the workers that did not fail, for
\* every block size, row count, thread count and interleaving.
THEOREM ReturnValue == Spec => []ReturnsLaneHits
  <1>1. IInv => ReturnsLaneHits
    BY AllDoneLanes DEF IInv, SumInv, ReturnsLaneHits
  <1> QED
    BY <1>1, Invariance, PTL

\* Workers that all ran to their ends, none behind the buffer, have together
\* seen the lanes of the serial scan.
LEMMA SurvivorsCoverBuffer ==
    ASSUME IInv, pc = "returned", ~Overruns,
           \A i \in ThreadIds : worker[i].st # "failed"
    PROVE  UNION {LaneHits(i) : i \in Done} = SerialLanes
  <1>1. TypeOK /\ MainInv /\ \A i \in ThreadIds : WorkerInv(i)
    BY DEF IInv
  <1>2. /\ total_rows \in Nat /\ num_threads \in Int
        /\ Threads \in Nat \ {0} /\ Block \in Nat \ {0}
        /\ threads \in 0 .. Threads
        /\ RoundUp(total_rows) \in Nat /\ total_rows <= RoundUp(total_rows)
    BY <1>1, TypeFacts, RoundUpFacts DEF TypeOK
  <1>3. ASSUME NEW i \in ThreadIds, Started(i)
        PROVE  /\ i \in Done /\ i \in Nat
               /\ Start(i) \in Nat /\ End(i) \in Nat /\ LaneEnd(i) \in Nat
               /\ Start(i) < total_rows /\ End(i) <= total_rows
               /\ worker[i].end = End(i) /\ Start(i) < End(i)
               /\ End(i) <= LaneEnd(i)
               /\ LaneEnd(i) <= RoundUp(total_rows)
               /\ i # Threads - 1 =>
                      LaneEnd(i) = Start(i + 1) /\ End(i) = Start(i + 1)
               /\ i = Threads - 1 =>
                      LaneEnd(i) = RoundUp(total_rows) /\ End(i) = total_rows
               /\ LaneHits(i) = Lanes(i, LaneEnd(i))
    <2>1. i \in Nat /\ i \in Done /\ Start(i) < total_rows
            /\ worker[i].end = End(i)
      <3>1. Exited(i) /\ i \in Nat
        BY <1>1, <1>2, <1>3 DEF MainInv, WorkerInv, ThreadIds
      <3> QED
        BY <1>1, <1>3, <3>1 DEF Exited, Done, WorkerInv
    <2>2. Start(i) \in Nat /\ End(i) \in Nat /\ End(i) <= total_rows
      <3>1. Start(i) \in Nat
        BY <1>2, <2>1, StartFacts
      <3>2. End(i) \in Nat
        BY <1>2, <2>1, EndFacts
      <3>3. ~(worker[i].end > total_rows)
        BY Zenon DEF Overruns
      <3> QED
        BY <1>2, <2>1, <3>1, <3>2, <3>3
    <2>3. LaneHits(i) = Lanes(i, LaneEnd(i))
      BY <1>2, <2>1, LanesAtEnds
    <2>4. /\ LaneEnd(i) \in Nat /\ Start(i) < End(i)
          /\ End(i) <= LaneEnd(i) /\ LaneEnd(i) <= RoundUp(total_rows)
          /\ i # Threads - 1 => LaneEnd(i) = Start(i + 1)
          /\ i = Threads - 1 => LaneEnd(i) = RoundUp(total_rows)
      BY <1>2, <2>1, <2>2, LaneEndFacts, EndFacts
    <2>5. /\ i # Threads - 1 => End(i) = Start(i + 1)
          /\ i = Threads - 1 => End(i) = total_rows
      BY <1>2, <2>1, <2>2, EndFacts DEF End
    <2> QED
      BY <2>1, <2>2, <2>3, <2>4, <2>5
  <1>4. ASSUME NEW i \in Done, NEW r \in LaneHits(i)
        PROVE  r \in SerialLanes
    <2>1. i \in ThreadIds /\ Started(i)
      BY DEF Done, Started
    <2>2. r \in Start(i) .. LaneEnd(i) - 1 /\ LaneHit(r, End(i))
      BY <1>3, <2>1 DEF Lanes
    <2>3. r \in 0 .. RoundUp(total_rows) - 1
      BY <1>2, <1>3, <2>1, <2>2
    <2>4. LaneHit(r, total_rows)
      <3>1. CASE i = Threads - 1
        BY <1>3, <2>1, <2>2, <3>1
      <3>2. CASE i # Threads - 1
        <4>1. r < End(i) /\ r < total_rows
          BY <1>2, <1>3, <2>1, <2>2, <3>2
        <4> QED
          BY <2>2, <4>1 DEF LaneHit
      <3> QED
        BY <3>1, <3>2
    <2> QED
      BY <2>3, <2>4 DEF SerialLanes
  <1>5. ASSUME NEW r \in SerialLanes
        PROVE  \E i \in Done : r \in LaneHits(i)
    <2>1. /\ r \in Nat /\ r < RoundUp(total_rows)
          /\ LaneHit(r, total_rows)
      BY <1>2 DEF SerialLanes
    <2>2. CASE r < total_rows
      <3>1. r \in 0 .. total_rows - 1
        BY <1>2, <2>1, <2>2
      <3>2. PICK i \in 0 .. threads - 1 :
                Started(i) /\ Start(i) <= r /\ r < worker[i].end
        BY <3>1, RowHasWorker
      <3>3. i \in ThreadIds
        BY <1>2, <3>2 DEF ThreadIds
      <3>4. r \in Start(i) .. LaneEnd(i) - 1
        BY <1>3, <2>1, <3>2, <3>3
      <3>5. LaneHit(r, End(i))
        BY <1>3, <2>1, <2>2, <3>2, <3>3 DEF LaneHit
      <3> QED
        BY <1>3, <3>2, <3>3, <3>4, <3>5 DEF Lanes
    <2>3. CASE r >= total_rows
      <3>1. total_rows # 0
        <4>1. RoundUp(0 * Block) = 0 * Block
          BY RoundUpMultiple
        <4>2. 0 * Block = 0
          BY <1>2
        <4> QED
          BY <2>1, <4>1, <4>2
      <3>2. total_rows - 1 \in 0 .. total_rows - 1
        BY <1>2, <3>1
      <3>3. PICK i \in 0 .. threads - 1 :
                /\ Started(i) /\ Start(i) <= total_rows - 1
                /\ total_rows - 1 < worker[i].end
        BY <3>2, RowHasWorker
      <3>4. i \in ThreadIds
        BY <1>2, <3>3 DEF ThreadIds
      <3>5. End(i) = total_rows
        BY <1>2, <1>3, <3>3, <3>4
      <3>6. i = Threads - 1
        <4>1. ASSUME i # Threads - 1 PROVE FALSE
          <5>1. End(i) = Start(i + 1) /\ i + 1 \in Nat
            BY <1>3, <3>3, <3>4, <4>1
          <5>2. PICK k \in Nat : Start(i + 1) = k * Block
            BY <1>2, <5>1, StartFacts
          <5>3. RoundUp(total_rows) = total_rows
            BY <3>5, <5>1, <5>2, RoundUpMultiple
          <5> QED
            BY <1>2, <2>1, <2>3, <5>3
        <4> QED BY <4>1
      <3>7. r \in Start(i) .. LaneEnd(i) - 1
        BY <1>2, <1>3, <2>1, <2>3, <3>3, <3>4, <3>6
      <3>8. LaneHit(r, End(i))
        BY <2>1, <3>5
      <3> QED
        BY <1>3, <3>3, <3>4, <3>7, <3>8 DEF Lanes
    <2> QED
      BY <1>2, <2>1, <2>2, <2>3
  <1> QED
    BY <1>4, <1>5

\* When no worker fails and no range overruns the buffer, the parallel call
\* returns what the serial scan returns, for every size and interleaving.
THEOREM ParallelEqualsSerial == Spec => []AgreesWithSerial
  <1>1. IInv => AgreesWithSerial
    BY SurvivorsCoverBuffer, AllDoneLanes DEF IInv, SumInv, AgreesWithSerial
  <1> QED
    BY <1>1, Invariance, PTL

-----------------------------------------------------------------------------
(* run implements MatchCount.                                              *)

Lost == \E i \in ThreadIds : worker[i].st = "failed"

\* The value returned is exact when nothing was lost and never too large.
ReturnedInBounds ==
    pc = "returned" =>
        IF Lost THEN total \in 0 .. Cardinality(ScanLanes)
                ELSE total = Cardinality(ScanLanes)

\* The bounds on the returned value follow from the invariant.
LEMMA ImpliesReturnedInBounds == IInv => ReturnedInBounds
  <1> SUFFICES ASSUME IInv, pc = "returned"
               PROVE  IF Lost THEN total \in 0 .. Cardinality(ScanLanes)
                              ELSE total = Cardinality(ScanLanes)
    BY DEF ReturnedInBounds
  <1>1. TypeOK /\ MainInv /\ \A i \in ThreadIds : WorkerInv(i)
    BY DEF IInv
  <1>2. /\ total_rows \in Nat /\ num_threads \in Int
        /\ Threads \in Nat \ {0} /\ threads \in 0 .. Threads
    BY <1>1, TypeFacts DEF TypeOK
  <1> DEFINE P == {j \in ThreadIds : Start(j) < total_rows}
             A == UNION {LaneHits(i) : i \in Done}
             B == UNION {LaneHits(i) : i \in P}
  <1>3. P \in SUBSET ThreadIds /\ \A i \in P : Start(i) < total_rows
    OBVIOUS
  <1>4. Done \subseteq P
    BY <1>1 DEF Done, WorkerInv, Started
  <1>5. IsFiniteSet(B) /\ Cardinality(B) \in Nat
    <2> HIDE DEF P
    <2> QED
      BY <1>2, <1>3, LanesInBuffer
  <1>6. A \in SUBSET B
    BY <1>4
  <1>7. B = ScanLanes
    BY DEF ScanLanes
  <1>8. total = Cardinality(A)
    BY <1>1, AllDoneLanes DEF IInv, SumInv
  <1>9. ASSUME ~Lost PROVE P = Done
    <2>1. ASSUME NEW j \in P PROVE j \in Done
      <3>1. j \in Nat /\ j < Threads /\ Start(j) < total_rows
              /\ j \in ThreadIds
        BY <1>2 DEF ThreadIds
      <3>2. j < threads
        <4>1. ASSUME threads <= j PROVE FALSE
          <5>1. threads # Threads
            BY <1>2, <3>1, <4>1
          <5>2. Start(j) \in Nat /\ total_rows > 0
            BY <1>2, <3>1, StartFacts
          <5>3. Start(threads) >= total_rows
            BY <1>1, <5>1, <5>2 DEF MainInv
          <5>4. RowsPerThread \in Nat /\ threads \in Nat
            BY <1>2, RowsPerThreadFacts
          <5>5. Start(threads) <= Start(j) /\ Start(threads) \in Nat
            BY <1>2, <3>1, <4>1, <5>4, MulMonotone, StartFacts DEF Start
          <5> QED
            BY <1>2, <3>1, <5>2, <5>3, <5>5
        <4> QED
          BY <1>2, <3>1, <4>1
      <3>3. Exited(j)
        BY <1>1, <3>1, <3>2 DEF MainInv
      <3> QED
        BY <1>9, <3>1, <3>3 DEF Exited, Lost, Done
    <2> QED
      BY <1>4, <2>1
  <1>10. CASE Lost
    <2> HIDE DEF A, B
    <2>1. Cardinality(A) <= Cardinality(B) /\ Cardinality(A) \in Nat
      BY <1>5, <1>6, FS_Subset, FS_CardinalityType
    <2> QED
      BY <1>5, <1>7, <1>8, <1>10, <2>1
  <1>11. CASE ~Lost
    <2>1. A = B
      BY <1>9, <1>11
    <2> QED
      BY <1>7, <1>8, <1>11, <2>1
  <1> QED
    BY <1>10, <1>11

\* The number of hit lanes of a scan is a natural number.
LEMMA ScanLanesFinite == TypeOK => Cardinality(ScanLanes) \in Nat
  <1> SUFFICES ASSUME TypeOK PROVE Cardinality(ScanLanes) \in Nat
    OBVIOUS
  <1> DEFINE P == {j \in ThreadIds : Start(j) < total_rows}
  <1>1. P \in SUBSET ThreadIds /\ \A i \in P : Start(i) < total_rows
    OBVIOUS
  <1>2. ScanLanes = UNION {LaneHits(i) : i \in P}
    BY DEF ScanLanes
  <1> HIDE DEF P
  <1> QED
    BY <1>1, <1>2, TypeFacts, LanesInBuffer

\* Every step of the call is a step of the one-step count, or changes nothing
\* of it.
LEMMA RefinesStep ==
    ASSUME IInv, [Next]_vars, ReturnedInBounds'
    PROVE  [Abstract!Next]_(Abstract!mvars)
  <1> DEFINE hits == Cardinality(ScanLanes)
             status == IF pc \in {"returned", "terminated"}
                           THEN pc ELSE "running"
             answer == IF pc = "returned" THEN total ELSE 0
  <1>1. TypeOK /\ MainInv /\ \A i \in ThreadIds : WorkerInv(i)
    BY DEF IInv
  <1>2. /\ hits' = hits /\ ThreadIds' = ThreadIds
    <2>1. ScanLanes' = ScanLanes
      BY InputsUnchanged, Frozen DEF ScanLanes, inputs
    <2> QED
      BY <2>1, InputsUnchanged, Frozen
  <1>3. /\ Abstract!mvars = <<hits, status, answer, Lost>>
        /\ Abstract!mvars' = <<hits', status', answer', Lost'>>
    BY DEF Abstract!mvars, Lost
  <1>4. CASE UNCHANGED <<pc, total, Lost>>
    BY <1>2, <1>4 DEF Abstract!mvars, Lost
  <1>5. CASE Enter \/ Return
    <2>1. pc \in {"entry", "aggregate"} /\ worker' = worker
      BY <1>5 DEF Enter, Return
    <2>2. Lost' = Lost
      BY <1>2, <2>1 DEF Lost
    <2>3. CASE pc' = "returned"
      <3>1. IF Lost' THEN total' \in 0 .. hits' ELSE total' = hits'
        BY <2>3 DEF ReturnedInBounds
      <3> HIDE DEF hits
      <3>2. /\ status = "running" /\ status' = "returned"
            /\ IF Lost THEN answer' \in 0 .. hits ELSE answer' = hits
        BY <1>2, <2>1, <2>2, <2>3, <3>1
      <3>3. Abstract!Answer
        BY <1>2, <2>2, <3>2 DEF Abstract!Answer, Lost, hits
      <3> QED
        BY <3>3 DEF Abstract!Next
    <2>4. CASE pc' # "returned"
      <3>1. status' = status /\ answer' = answer
        BY <1>5, <2>1, <2>4 DEF Enter, Return
      <3> HIDE DEF hits, status, answer
      <3>2. Abstract!mvars' = Abstract!mvars
        BY <1>2, <1>3, <2>2, <3>1
      <3> QED
        BY <3>2
    <2> QED
      BY <2>3, <2>4
  <1>6. CASE ThrowsInNoexcept
    <2>1. /\ pc \in {"entry", "spawn"} /\ pc' = "terminated"
          /\ worker' = worker
      BY <1>6 DEF ThrowsInNoexcept
    <2>2. Lost' = Lost
      BY <1>2, <2>1 DEF Lost
    <2>3. Abstract!Terminate
      BY <1>2, <2>1, <2>2 DEF Abstract!Terminate, Lost
    <2> QED
      BY <2>3 DEF Abstract!Next
  <1>7. CASE SpawnThread
    <2>1. t \in ThreadIds /\ worker[t].st = "idle"
      BY <1>1, <1>7, TypeFacts
      DEF SpawnThread, TypeOK, MainInv, WorkerInv, Started, ThreadIds
    <2>2. \A i \in ThreadIds :
              worker'[i].st = "failed" <=> worker[i].st = "failed"
      BY <1>1, <1>7, <2>1 DEF SpawnThread, TypeOK
    <2>3. Lost' = Lost
      BY <1>2, <2>2 DEF Lost
    <2>4. pc' = pc /\ total' = total
      BY <1>7 DEF SpawnThread
    <2> QED
      BY <1>4, <2>3, <2>4
  <1>8. CASE SpawnEnd \/ Join \/ JoinEnd \/ Aggregate
    <2>1. /\ pc \in {"spawn", "join", "aggregate"}
          /\ pc' \in {"join", "aggregate"}
          /\ worker' = worker
      BY <1>8 DEF SpawnEnd, Join, JoinEnd, Aggregate
    <2>2. Lost' = Lost
      BY <1>2, <2>1 DEF Lost
    <2>3. status' = status /\ answer' = answer
      BY <2>1
    <2> HIDE DEF hits, status, answer
    <2>4. Abstract!mvars' = Abstract!mvars
      BY <1>2, <1>3, <2>2, <2>3
    <2> QED
      BY <2>4
  <1>9. ASSUME NEW i \in ThreadIds, Worker(i)
        PROVE  [Abstract!Next]_(Abstract!mvars)
    <2>1. /\ UNCHANGED main
          /\ \A j \in ThreadIds : j # i => worker'[j] = worker[j]
          /\ worker[i].st \in {"started", "loop"}
          /\ pc # "terminated"
      BY <1>1, <1>9, WorkerEffect
    <2>2. pc # "returned"
      BY <1>1, <2>1 DEF MainInv, WorkerInv, Started, Exited
    <2>3. pc' = pc /\ total' = total
      BY <2>1 DEF main
    <2>4. CASE worker'[i].st = "failed"
      <3>1. Lost'
        BY <1>2, <2>4 DEF Lost
      <3>2. Abstract!LoseWork
        BY <1>2, <2>1, <2>2, <2>3, <3>1 DEF Abstract!LoseWork, Lost
      <3> QED
        BY <3>2 DEF Abstract!Next
    <2>5. CASE worker'[i].st # "failed"
      <3>1. Lost' = Lost
        BY <1>2, <2>1, <2>5 DEF Lost
      <3> QED
        BY <1>4, <2>3, <3>1
    <2> QED
      BY <2>4, <2>5
  <1>10. CASE UNCHANGED vars
    <2>1. Lost' = Lost
      BY <1>2, <1>10 DEF vars, Lost
    <2> QED
      BY <1>4, <1>10, <2>1 DEF vars, main
  <1> QED
    BY <1>5, <1>6, <1>7, <1>8, <1>9, <1>10 DEF Next, Main, Finished

\* A call of run answers once: exactly when no worker failed, never too high
\* otherwise, whatever the sizes and the interleaving.
THEOREM Refinement == Spec => ImplementsMatchCount
  <1>1. Init => Abstract!Init
    <2> SUFFICES ASSUME Init PROVE Abstract!Init
      OBVIOUS
    <2>1. Cardinality(ScanLanes) \in Nat
      BY InitIInv, ScanLanesFinite DEF IInv
    <2>2. \A i \in ThreadIds : worker[i].st # "failed"
      BY DEF Init, idle
    <2> QED
      BY <2>1, <2>2 DEF Init, Abstract!Init
  <1>2. IInv /\ [Next]_vars /\ ReturnedInBounds'
            => [Abstract!Next]_(Abstract!mvars)
    BY RefinesStep
  <1>3. Spec => []ReturnedInBounds
    BY Invariance, ImpliesReturnedInBounds, PTL
  <1> QED
    BY <1>1, <1>2, <1>3, Invariance, PTL
    DEF Spec, ImplementsMatchCount, Abstract!Spec
=============================================================================
