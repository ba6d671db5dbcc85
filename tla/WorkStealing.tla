----------------------------- MODULE WorkStealing -----------------------------
(***************************************************************************)
(* parallel_runner_with_results (benchmarks/bench_apex_final.cpp), the     *)
(* other way this repository shares a scan out to threads: chunks are      *)
(* claimed from an atomic counter, counts are merged into an atomic sum,   *)
(* and the masks of the first and the last chunk are put into result slots *)
(* claimed from a second counter, for a spot check after the join.  The    *)
(* loop of examples/trading/main.cpp (lines 327-385) is the same without   *)
(* the slots.                                                              *)
(*                                                                         *)
(* A row is abstracted to whether its price is above the threshold; the    *)
(* mask of a chunk is then the set of its matching rows.                   *)
(***************************************************************************)
EXTENDS Integers, FiniteSets, Sequences

CONSTANTS
    Block,          \* kChunkSize: 64 in the code
    RowCounts,      \* the values of the argument num_rows (a size_t)
    ThreadArgs      \* the values of the argument num_threads (an int)

ASSUME StealingAssumption ==
    Block \in Nat \ {0} /\ RowCounts \subseteq Nat /\ ThreadArgs \subseteq Int

VARIABLES
    num_rows, num_threads,  \* the arguments
    match,                  \* the rows above the threshold
    pc, t,                  \* the calling thread and its loop counter
    kernel,                 \* the compiled kernel: "none", "ok" or "nullptr"
    chunk_counter, total_matches, chunk_results_idx,    \* the atomics
    chunk_results,          \* the slots, by index
    worker                  \* the workers, by index

inputs == <<num_rows, num_threads, match>>
main == <<pc, t, kernel>>
atomics == <<chunk_counter, total_matches, chunk_results_idx>>
vars == <<inputs, main, atomics, chunk_results, worker>>

ThreadIds == 0 .. num_threads - 1

\* Rows behind the last whole chunk are not scanned.
num_chunks == num_rows \div Block

Rows(chunk) == chunk * Block .. chunk * Block + Block - 1

Mask(chunk) == match \cap Rows(chunk)

\* A value-initialised ChunkResult.
EmptyResult == [chunk_id |-> 0, result_mask |-> {}]

NoResults == [i \in 0 .. num_chunks - 1 |-> EmptyResult]

\* at is the chunk being scanned, or the slot claimed.
idle == [st |-> "idle", at |-> 0, local_matches |-> 0, local_chunks |-> <<>>]

Init ==
    /\ num_rows \in RowCounts
    /\ num_threads \in ThreadArgs
    /\ match \in SUBSET (0 .. num_rows - 1)
    /\ pc = "entry" /\ t = 0 /\ kernel = "none"
    /\ chunk_counter = 0 /\ total_matches = 0 /\ chunk_results_idx = 0
    /\ chunk_results = NoResults
    /\ worker = [i \in ThreadIds |-> idle]

Over == pc \in {"returned", "terminated"}

-----------------------------------------------------------------------------
(* The calling thread.                                                     *)

Compile ==
    /\ pc = "entry"
    /\ kernel' \in {"ok", "nullptr"}
    /\ pc' = IF kernel' = "ok" THEN "spawn" ELSE "no_kernel"
    /\ UNCHANGED <<inputs, t, atomics, chunk_results, worker>>

\* return {0, {}}
ReturnNothing ==
    /\ pc = "no_kernel"
    /\ pc' = "returned"
    /\ chunk_results' = <<>>
    /\ UNCHANGED <<inputs, t, kernel, atomics, worker>>

Spawn ==
    /\ pc = "spawn"
    /\ t < num_threads
    /\ worker' = [worker EXCEPT ![t].st = "fetch"]
    /\ t' = t + 1
    /\ UNCHANGED <<inputs, pc, kernel, atomics, chunk_results>>

SpawnEnd ==
    /\ pc = "spawn"
    /\ t >= num_threads
    /\ pc' = "join" /\ t' = 0
    /\ UNCHANGED <<inputs, kernel, atomics, chunk_results, worker>>

\* The result slots cannot be allocated, std::thread throws, push_back does in a
\* worker, or the result slots cannot be copied into what is returned:
\* std::terminate, as no caller catches.
Throws ==
    /\ \/ pc = "entry"
       \/ pc = "spawn" /\ t < num_threads
       \/ pc = "join" /\ t >= num_threads /\ num_chunks > 0
       \/ ~Over /\ \E i \in ThreadIds : worker[i].st = "scan"
    /\ pc' = "terminated"
    /\ UNCHANGED <<inputs, t, kernel, atomics, chunk_results, worker>>

\* Mutant: the last thread is not joined.
JoinAllButLast ==
    /\ pc = "join"
    /\ t < num_threads
    /\ t = num_threads - 1 \/ worker[t].st = "done"
    /\ t' = t + 1
    /\ UNCHANGED <<inputs, pc, kernel, atomics, chunk_results, worker>>

Join ==
    /\ pc = "join"
    /\ t < num_threads
    /\ worker[t].st = "done"
    /\ t' = t + 1
    /\ UNCHANGED <<inputs, pc, kernel, atomics, chunk_results, worker>>

Return ==
    /\ pc = "join"
    /\ t >= num_threads
    /\ pc' = "returned"
    /\ UNCHANGED <<inputs, t, kernel, atomics, chunk_results, worker>>

-----------------------------------------------------------------------------
(* A worker.                                                               *)

At(i, st) == pc # "terminated" /\ worker[i].st = st

\* Mutant: chunk_counter is read and incremented in two steps, and another
\* worker comes between them.
FetchChunkTwice(i) ==
    /\ At(i, "fetch")
    /\ worker' = [worker EXCEPT
           ![i].at = chunk_counter,
           ![i].st = IF chunk_counter < num_chunks THEN "scan" ELSE "merge"]
    /\ chunk_counter' \in {chunk_counter, chunk_counter + 1}
    /\ UNCHANGED <<inputs, main, total_matches, chunk_results_idx,
                   chunk_results>>

\* Mutant: continue in place of break.
FetchChunkContinues(i) ==
    /\ At(i, "fetch")
    /\ worker' = [worker EXCEPT
           ![i].at = chunk_counter,
           ![i].st = IF chunk_counter < num_chunks THEN "scan" ELSE "fetch"]
    /\ chunk_counter' = IF chunk_counter < num_chunks THEN chunk_counter + 1
                        ELSE chunk_counter
    /\ UNCHANGED <<inputs, main, total_matches, chunk_results_idx,
                   chunk_results>>

\* fetch_add on chunk_counter; the loop is left behind the last chunk.
FetchChunk(i) ==
    /\ At(i, "fetch")
    /\ worker' = [worker EXCEPT
           ![i].at = chunk_counter,
           ![i].st = IF chunk_counter < num_chunks THEN "scan" ELSE "merge"]
    /\ chunk_counter' = chunk_counter + 1
    /\ UNCHANGED <<inputs, main, total_matches, chunk_results_idx,
                   chunk_results>>

\* What the scan of a chunk adds to local_chunks.
Kept(chunk) ==
    IF chunk = 0 \/ chunk = num_chunks - 1
    THEN <<[chunk_id |-> chunk, result_mask |-> Mask(chunk)]>>
    ELSE <<>>

\* Load, slice, run the kernel, count.
ScanChunk(i) ==
    /\ At(i, "scan")
    /\ worker' = [worker EXCEPT ![i] =
           [st |-> "fetch", at |-> @.at,
            local_matches |-> @.local_matches + Cardinality(Mask(@.at)),
            local_chunks |-> @.local_chunks \o Kept(@.at)]]
    /\ UNCHANGED <<inputs, main, atomics, chunk_results>>

MergeMatches(i) ==
    /\ At(i, "merge")
    /\ total_matches' = total_matches + worker[i].local_matches
    /\ worker' = [worker EXCEPT ![i].st = "merge_chunks"]
    /\ UNCHANGED <<inputs, main, chunk_counter, chunk_results_idx,
                   chunk_results>>

\* Mutant: the slot is the number of the thread.
ClaimOwnSlot(i) ==
    /\ At(i, "merge_chunks")
    /\ worker[i].local_chunks # <<>>
    /\ worker' = [worker EXCEPT ![i].st = "store", ![i].at = i]
    /\ chunk_results_idx' = chunk_results_idx + 1
    /\ UNCHANGED <<inputs, main, chunk_counter, total_matches, chunk_results>>

\* fetch_add on chunk_results_idx.
ClaimSlot(i) ==
    /\ At(i, "merge_chunks")
    /\ worker[i].local_chunks # <<>>
    /\ worker' = [worker EXCEPT ![i].st = "store",
                                ![i].at = chunk_results_idx]
    /\ chunk_results_idx' = chunk_results_idx + 1
    /\ UNCHANGED <<inputs, main, chunk_counter, total_matches, chunk_results>>

\* A result whose slot does not exist is dropped.
StoreResult(i) ==
    /\ At(i, "store")
    /\ chunk_results' =
           IF worker[i].at < num_chunks
           THEN [chunk_results EXCEPT
                    ![worker[i].at] = Head(worker[i].local_chunks)]
           ELSE chunk_results
    /\ worker' = [worker EXCEPT ![i].st = "merge_chunks",
                                ![i].local_chunks = Tail(@)]
    /\ UNCHANGED <<inputs, main, atomics>>

WorkerEnd(i) ==
    /\ At(i, "merge_chunks")
    /\ worker[i].local_chunks = <<>>
    /\ worker' = [worker EXCEPT ![i].st = "done"]
    /\ UNCHANGED <<inputs, main, atomics, chunk_results>>

-----------------------------------------------------------------------------
Main == Compile \/ ReturnNothing \/ Spawn \/ SpawnEnd \/ Join \/ Return

Worker(i) ==
    \/ FetchChunk(i)
    \/ ScanChunk(i)
    \/ MergeMatches(i)
    \/ ClaimSlot(i)
    \/ StoreResult(i)
    \/ WorkerEnd(i)

Finished == Over /\ UNCHANGED vars

Next ==
    \/ Main
    \/ Throws
    \/ \E i \in ThreadIds : Worker(i)
    \/ Finished

\* The indices any call in this model can use.
WorkerIds == UNION {0 .. n - 1 : n \in ThreadArgs}

\* The operating system runs every runnable thread.  An atomic fetch_add takes
\* no lock, so a worker's step is enabled until the worker is done.
Spec ==
    /\ Init /\ [][Next]_vars
    /\ WF_vars(Main)
    /\ \A i \in WorkerIds : WF_vars(i \in ThreadIds /\ Worker(i))

-----------------------------------------------------------------------------
(* Properties.                                                             *)

Results == [chunk_id : Nat, result_mask : SUBSET (0 .. num_rows - 1)]

WorkerStates ==
    [st : {"idle", "fetch", "scan", "merge", "merge_chunks", "store", "done"},
     at : Nat, local_matches : Nat, local_chunks : Seq(Results)]

\* Every variable of the call and of its workers has its type.
TypeOK ==
    /\ num_rows \in Nat /\ num_threads \in Int
    /\ match \subseteq 0 .. num_rows - 1
    /\ pc \in {"entry", "no_kernel", "spawn", "join", "returned", "terminated"}
    /\ t \in Nat
    /\ kernel \in {"none", "ok", "nullptr"}
    /\ chunk_counter \in Nat /\ total_matches \in Nat
    /\ chunk_results_idx \in Nat
    /\ chunk_results \in [DOMAIN chunk_results -> Results]
    /\ worker \in [ThreadIds -> WorkerStates]

Scanning == {i \in ThreadIds : worker[i].st = "scan"}

\* No chunk is being scanned by two workers, although nothing but the relaxed
\* fetch_add of line 92 keeps them apart.
ClaimsAreExclusive ==
    \A i, j \in Scanning : i # j => worker[i].at # worker[j].at

\* The rows parallel_runner_with_results can see.
Scanned == match \cap 0 .. num_chunks * Block - 1

Ran == kernel = "ok" /\ num_threads > 0

\* verify_chunk_results: the mask in the first slot with this id.
Lookup(id) ==
    LET slots == {i \in DOMAIN chunk_results : chunk_results[i].chunk_id = id}
    IN  IF slots = {} THEN {}
        ELSE chunk_results[CHOOSE i \in slots : \A j \in slots : i <= j]
                 .result_mask

\* The spot check finds the masks of the first and the last chunk whichever
\* worker kept them and in whichever order they were merged: an unused slot,
\* which carries the id 0, never hides them.
SpotCheckFinds ==
    pc = "returned" /\ Ran /\ num_chunks > 0 =>
        /\ Lookup(0) = Mask(0)
        /\ Lookup(num_chunks - 1) = Mask(num_chunks - 1)

\* Every call ends: chunks run out and the joins never wait for ever.
Terminates == <>Over

Abstract == INSTANCE MatchCount WITH
    hits <- Cardinality(Scanned),
    status <- IF Over THEN pc ELSE "running",
    answer <- IF pc = "returned" THEN total_matches ELSE 0,
    lost <- kernel # "none" /\ ~Ran

\* The work-stealing scan implements the one-step count of MatchCount, as the
\* static partition of ParallelRunner does: one answer, exact unless there was
\* no kernel or no thread, whoever claims which chunk and in whatever order the
\* counts are merged.
ImplementsMatchCount == Abstract!Spec
=============================================================================
