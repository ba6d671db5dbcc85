--------------------------- MODULE ParallelRunner ---------------------------
(***************************************************************************)
(* One call of compute::ParallelRunner::run (src/compute/                  *)
(* parallel_runner.cpp): the calling thread cuts the row range into static *)
(* ranges, starts a worker per range, joins them all and adds their        *)
(* cache-line padded result slots.                                         *)
(*                                                                         *)
(* A row is abstracted to one bit, "the kernel matches this row".  Rows    *)
(* from total_rows on are memory behind the caller's buffer: they have a   *)
(* bit too, since a worker whose range reaches there gathers them.  A lane *)
(* beyond a worker's range is gathered as zeros; whether the kernel        *)
(* matches all-zero fields is zeroMatch.  Ranges start on a block          *)
(* boundary, so a row has the same lane in every partition and one bit per *)
(* row is enough even for a kernel that treats its lanes differently.      *)
(***************************************************************************)
EXTENDS Integers, FiniteSets

CONSTANTS
    Block,          \* rows per kernel call: 64 in the code
    RowCounts,      \* the values of the argument total_rows (a size_t)
    ThreadArgs      \* the values of the argument num_threads (an int)

ASSUME BlockAssumption == Block \in Nat \ {0}
ASSUME RowsAssumption == RowCounts \subseteq Nat
ASSUME ThreadsAssumption == ThreadArgs \subseteq Int

VARIABLES
    total_rows, num_threads,    \* the arguments of run
    match,          \* the rows, in the buffer or behind it, that match
    zeroMatch,      \* whether an all-zero row matches
    pc,             \* where the calling thread is
    t,              \* its loop counter
    threads,        \* threads.size(): the workers started so far
    worker,         \* the workers, by index
    results,        \* the padded result slots
    total           \* the sum the call returns

inputs == <<total_rows, num_threads, match, zeroMatch>>
main == <<pc, t, threads, total>>
vars == <<inputs, main, worker, results>>

-----------------------------------------------------------------------------
(* The partition of the rows.                                              *)

RoundUp(n) == ((n + Block - 1) \div Block) * Block

\* num_threads after "if (num_threads <= 0) num_threads = 1".
Threads == IF num_threads <= 0 THEN 1 ELSE num_threads

ThreadIds == 0 .. Threads - 1

\* Mutant: the ranges are not cut on block boundaries.
RowsPerThreadUnaligned ==
    IF total_rows \div Threads = 0 THEN Block ELSE total_rows \div Threads

RowsPerThread ==
    LET rows_per_thread == ((total_rows \div Threads) \div Block) * Block
    IN  IF rows_per_thread = 0 THEN Block ELSE rows_per_thread

Start(i) == i * RowsPerThread

\* Mutant: the last worker does not take the remainder.
EndNoRemainder(i) == Start(i) + RowsPerThread

\* Mutant: end taken as inclusive.
EndInclusive(i) ==
    IF i = Threads - 1 THEN total_rows ELSE Start(i) + RowsPerThread + 1

End(i) ==
    IF i = Threads - 1 THEN total_rows ELSE Start(i) + RowsPerThread

-----------------------------------------------------------------------------
(* What a kernel call sees.                                                *)

\* The lane of row r holds the row when it lies in the range and zeros
\* otherwise.
LaneHit(r, end) == IF r < end THEN r \in match ELSE zeroMatch

\* Mutant: the first row of the next block is seen too.
BlockMaskOneMore(row, end) == {r \in row .. row + Block : LaneHit(r, end)}

\* The match mask of the kernel call on the block that begins at row.
BlockMask(row, end) == {r \in row .. row + Block - 1 : LaneHit(r, end)}

-----------------------------------------------------------------------------
idle == [st |-> "idle", row |-> 0, end |-> 0, total_matches |-> 0]

Init ==
    /\ total_rows \in RowCounts
    /\ num_threads \in ThreadArgs
    /\ match \in SUBSET (0 .. RoundUp(total_rows) - 1)
    /\ zeroMatch \in BOOLEAN
    /\ pc = "entry"
    /\ t = 0
    /\ threads = 0
    /\ worker = [i \in ThreadIds |-> idle]
    /\ results = [i \in ThreadIds |-> 0]
    /\ total = 0

(* The calling thread.                                                     *)

\* The early return on an empty input, or the result slots are allocated.
Enter ==
    /\ pc = "entry"
    /\ pc' = IF total_rows = 0 THEN "returned" ELSE "spawn"
    /\ UNCHANGED <<inputs, t, threads, worker, results, total>>

\* std::vector or std::thread throws inside a noexcept function.
ThrowsInNoexcept ==
    /\ \/ pc = "entry" /\ total_rows > 0
       \/ pc = "spawn" /\ t < Threads /\ Start(t) < total_rows
    /\ pc' = "terminated"
    /\ UNCHANGED <<inputs, t, threads, worker, results, total>>

SpawnThread ==
    /\ pc = "spawn"
    /\ t < Threads
    /\ Start(t) < total_rows
    /\ worker' = [worker EXCEPT ![t] =
           [st |-> "started", row |-> Start(t), end |-> End(t),
            total_matches |-> 0]]
    /\ threads' = threads + 1
    /\ t' = t + 1
    /\ UNCHANGED <<inputs, pc, results, total>>

\* The loop ends, or "if (start >= total_rows) break".
SpawnEnd ==
    /\ pc = "spawn"
    /\ t = Threads \/ Start(t) >= total_rows
    /\ pc' = "join"
    /\ t' = 0
    /\ UNCHANGED <<inputs, threads, worker, results, total>>

Exited(i) == worker[i].st \in {"done", "failed"}

\* Mutant: the last thread is left running.
JoinSkipsLast ==
    /\ pc = "join"
    /\ t < threads
    /\ t = threads - 1 \/ Exited(t)
    /\ t' = t + 1
    /\ UNCHANGED <<inputs, pc, threads, worker, results, total>>

Join ==
    /\ pc = "join"
    /\ t < threads
    /\ Exited(t)
    /\ t' = t + 1
    /\ UNCHANGED <<inputs, pc, threads, worker, results, total>>

JoinEnd ==
    /\ pc = "join"
    /\ t = threads
    /\ pc' = "aggregate"
    /\ t' = 0
    /\ UNCHANGED <<inputs, threads, worker, results, total>>

\* Mutant: = in place of +=.
AggregateAssigns ==
    /\ pc = "aggregate"
    /\ t < Threads
    /\ total' = results[t]
    /\ t' = t + 1
    /\ UNCHANGED <<inputs, pc, threads, worker, results>>

Aggregate ==
    /\ pc = "aggregate"
    /\ t < Threads
    /\ total' = total + results[t]
    /\ t' = t + 1
    /\ UNCHANGED <<inputs, pc, threads, worker, results>>

Return ==
    /\ pc = "aggregate"
    /\ t = Threads
    /\ pc' = "returned"
    /\ UNCHANGED <<inputs, t, threads, worker, results, total>>

(* A worker, worker_thread in the code.  It writes only its own slot.      *)

Alive(i) == pc # "terminated" /\ i \in ThreadIds

\* posix_memalign and the memset of the scratchpad.
WorkerAlloc(i) ==
    /\ Alive(i)
    /\ worker[i].st = "started"
    /\ worker' = [worker EXCEPT ![i].st = "loop"]
    /\ UNCHANGED <<inputs, main, results>>

WorkerAllocFails(i) ==
    /\ Alive(i)
    /\ worker[i].st = "started"
    /\ worker' = [worker EXCEPT ![i].st = "failed"]
    /\ results' = [results EXCEPT ![i] = 0]
    /\ UNCHANGED <<inputs, main>>

\* Mutant: a worker never leaves its loop when its range is no multiple of Block.
WorkerReturnOnlyAtEnd(i) ==
    /\ Alive(i)
    /\ worker[i].st = "loop"
    /\ worker[i].row = worker[i].end
    /\ worker' = [worker EXCEPT ![i].st = "done"]
    /\ results' = [results EXCEPT ![i] = worker[i].total_matches]
    /\ UNCHANGED <<inputs, main>>

\* One iteration: gather, slice, run the kernel, add the mask's popcount.
WorkerBlock(i) ==
    /\ Alive(i)
    /\ worker[i].st = "loop"
    /\ worker[i].row < worker[i].end
    /\ worker' = [worker EXCEPT
           ![i].row = @ + Block,
           ![i].total_matches =
               @ + Cardinality(BlockMask(worker[i].row, worker[i].end))]
    /\ UNCHANGED <<inputs, main, results>>

WorkerReturn(i) ==
    /\ Alive(i)
    /\ worker[i].st = "loop"
    /\ worker[i].row >= worker[i].end
    /\ worker' = [worker EXCEPT ![i].st = "done"]
    /\ results' = [results EXCEPT ![i] = worker[i].total_matches]
    /\ UNCHANGED <<inputs, main>>

-----------------------------------------------------------------------------
Main ==
    \/ Enter
    \/ SpawnThread
    \/ SpawnEnd
    \/ Join
    \/ JoinEnd
    \/ Aggregate
    \/ Return

Worker(i) ==
    \/ WorkerAlloc(i)
    \/ WorkerAllocFails(i)
    \/ WorkerBlock(i)
    \/ WorkerReturn(i)

\* The call is over; nothing happens any more.
Finished ==
    /\ pc = "terminated" \/ pc = "returned"
    /\ UNCHANGED vars

Next ==
    \/ Main
    \/ ThrowsInNoexcept
    \/ \E i \in ThreadIds : Worker(i)
    \/ Finished

Spec == Init /\ [][Next]_vars

\* The indices any call in this model can use.
WorkerIds == {0} \cup UNION {0 .. n - 1 : n \in ThreadArgs}

\* The operating system runs every runnable thread, and thread creation and
\* kernels terminate; nothing makes an exception or a failure happen.
FairSpec ==
    /\ Spec
    /\ WF_vars(Main)
    /\ \A i \in WorkerIds : WF_vars(Worker(i))

-----------------------------------------------------------------------------
(* Properties.                                                             *)

\* Every variable of the call and of its workers has its type.
TypeOK ==
    /\ total_rows \in RowCounts
    /\ num_threads \in ThreadArgs
    /\ match \in SUBSET (0 .. RoundUp(total_rows) - 1)
    /\ zeroMatch \in BOOLEAN
    /\ pc \in {"entry", "spawn", "join", "aggregate", "returned",
               "terminated"}
    /\ t \in 0 .. Threads
    /\ threads \in 0 .. Threads
    /\ worker \in [ThreadIds ->
           [st : {"idle", "started", "loop", "done", "failed"},
            row : Nat, end : Nat, total_matches : Nat]]
    /\ results \in [ThreadIds -> Nat]
    /\ total \in Nat

Started(i) == worker[i].st # "idle"

\* No row is given to two workers: the range of an earlier worker ends before
\* the range of a later one begins (the split of run, lines 138-139), and a
\* worker past its first blocks has not run into its neighbour's rows.
DisjointRanges ==
    \A i, j \in ThreadIds :
        i < j /\ Started(i) /\ Started(j) =>
            /\ worker[i].end <= Start(j)
            /\ worker[i].row <= Start(j)

\* Once the spawn loop is left, by its condition or by its break, every row of
\* the buffer lies in the range of a worker that was started.
EveryRowAssigned ==
    pc \in {"join", "aggregate", "returned"} =>
        \A r \in 0 .. total_rows - 1 :
            \E i \in 0 .. threads - 1 :
                Started(i) /\ Start(i) <= r /\ r < worker[i].end

\* The range of a worker that is not the last may pass the end of the buffer
\* (line 139 does not clamp it), but never the end of the buffer's last block.
OverrunWithinLastBlock ==
    \A i \in ThreadIds : worker[i].end <= RoundUp(total_rows)

\* The result slots are read only after their writers have exited: no worker
\* is running when the sum is formed, although the slots have no lock.
JoinedBeforeAggregate ==
    pc \in {"aggregate", "returned"} =>
        \A i \in ThreadIds : Started(i) => Exited(i)

\* The lanes worker i counts when it runs to the end of its range.
LaneHits(i) ==
    {r \in Start(i) .. Start(i) + RoundUp(End(i) - Start(i)) - 1 :
        LaneHit(r, End(i))}

Done == {i \in ThreadIds : worker[i].st = "done"}

\* Whatever the interleaving, the value run returns counts every hit lane of
\* every worker that did not fail exactly once, and nothing else.
ReturnsLaneHits ==
    pc = "returned" =>
        total = Cardinality(UNION {LaneHits(i) : i \in Done})

Overruns == \E i \in ThreadIds : worker[i].end > total_rows

\* What ApexEngine::execute counts on the same buffer: whole blocks, the last
\* one filled up with zeros.
SerialLanes == {r \in 0 .. RoundUp(total_rows) - 1 : LaneHit(r, total_rows)}

\* run agrees with the serial scan of ApexEngine::execute when no worker
\* failed and no range passes the end of the buffer.
AgreesWithSerial ==
    pc = "returned" /\ ~Overruns
        /\ (\A i \in ThreadIds : worker[i].st # "failed") =>
            total = Cardinality(SerialLanes)

\* No worker reads past the rows the caller passed: run is documented as
\* "Execute the JIT kernel across `total_rows`" (parallel_runner.hpp:22).
WithinTotalRows == ~Overruns

\* Every call ends: the joins never wait for ever.
Terminates == <>(pc \in {"returned", "terminated"})

\* The lanes of the whole scan: the workers the partition calls for, each to
\* the end of its range.
ScanLanes ==
    UNION {LaneHits(i) : i \in {j \in ThreadIds : Start(j) < total_rows}}

Abstract == INSTANCE MatchCount WITH
    hits <- Cardinality(ScanLanes),
    status <- IF pc \in {"returned", "terminated"} THEN pc ELSE "running",
    answer <- IF pc = "returned" THEN total ELSE 0,
    lost <- \E i \in ThreadIds : worker[i].st = "failed"

\* run implements the one-step count of MatchCount: one answer, exact unless a
\* worker failed, never above the number of hits, never changed afterwards.
ImplementsMatchCount == Abstract!Spec
=============================================================================
