------------------------- MODULE WorkStealingProofs -------------------------
(***************************************************************************)
(* What the work-stealing scan returns, for every chunk size, every number *)
(* of rows and of threads and every interleaving: no chunk is scanned by   *)
(* two workers, the sum is the one-step count of MatchCount, and the spot  *)
(* check finds the masks of the first and the last chunk.                  *)
(***************************************************************************)
EXTENDS WorkStealing, FiniteSetTheorems, TLAPS

-----------------------------------------------------------------------------
(* Chunks.                                                                 *)

\* The first row of a later chunk lies behind the last row of an earlier one.
LEMMA ChunksApart ==
    ASSUME NEW c \in Nat, NEW d \in Nat, c < d
    PROVE  c * Block + Block <= d * Block /\ c * Block \in Nat
  <1>1. Block \in Nat /\ c + 1 <= d
    BY StealingAssumption
  <1>2. (c + 1) * Block <= d * Block
    BY <1>1
  <1>3. (c + 1) * Block = c * Block + Block
    BY <1>1
  <1>4. c * Block \in Nat
    BY <1>1
  <1> QED
    BY <1>2, <1>3, <1>4

\* Chunks have no row in common.
LEMMA RowsDisjoint ==
    ASSUME NEW c \in Nat, NEW d \in Nat, c # d
    PROVE  Rows(c) \cap Rows(d) = {}
  <1>1. c * Block \in Int /\ d * Block \in Int /\ Block \in Nat
    BY StealingAssumption
  <1>2. CASE c < d
    BY <1>1, <1>2, ChunksApart DEF Rows
  <1>3. CASE d < c
    BY <1>1, <1>3, ChunksApart DEF Rows
  <1> QED
    BY <1>2, <1>3

\* The quotient and the remainder of an integer division.
LEMMA DivBounds ==
    ASSUME NEW a \in Nat, NEW b \in Nat \ {0}
    PROVE  /\ a \div b \in Nat
           /\ (a \div b) * b <= a
           /\ a < (a \div b) * b + b
  OBVIOUS

\* Every row below the end of the last whole chunk lies in a chunk.
LEMMA RowHasChunk ==
    ASSUME NEW n \in Nat, NEW r \in 0 .. n * Block - 1
    PROVE  \E c \in 0 .. n - 1 : r \in Rows(c)
  <1> DEFINE c == r \div Block
  <1>1. Block \in Nat \ {0} /\ r \in Nat /\ n * Block \in Nat
    BY StealingAssumption
  <1>2. c \in Nat /\ c * Block <= r /\ r < c * Block + Block
    BY <1>1, DivBounds
  <1> HIDE DEF c
  <1>3. c * Block \in Nat
    BY <1>1, <1>2
  <1>4. c < n
    <2>1. ASSUME n <= c PROVE FALSE
      <3>1. n * Block <= c * Block
        BY <1>1, <1>2, <2>1
      <3> QED
        BY <1>1, <1>2, <1>3, <3>1
    <2> QED
      BY <1>2, <2>1
  <1>5. r \in Rows(c)
    BY <1>1, <1>2, <1>3 DEF Rows
  <1> QED
    BY <1>2, <1>4, <1>5

\* The rows of a chunk among the first n end before n * Block.
LEMMA RowInRange ==
    ASSUME NEW n \in Nat, NEW c \in 0 .. n - 1, NEW r \in Rows(c)
    PROVE  r \in 0 .. n * Block - 1
  <1>1. Block \in Nat \ {0} /\ c \in Nat /\ c < n /\ n * Block \in Nat
    BY StealingAssumption
  <1>2. c * Block + Block <= n * Block /\ c * Block \in Nat
    BY <1>1, ChunksApart
  <1> QED
    BY <1>1, <1>2 DEF Rows

\* The matching rows of a set of chunks.
HitsOf(C) == UNION {Mask(c) : c \in C}

\* They are finitely many.
LEMMA HitsFinite ==
    ASSUME TypeOK, NEW C
    PROVE  IsFiniteSet(HitsOf(C)) /\ Cardinality(HitsOf(C)) \in Nat
  <1>1. IsFiniteSet(0 .. num_rows - 1)
    <2>1. 0 \in Int /\ num_rows - 1 \in Int
      BY DEF TypeOK
    <2> QED
      BY <2>1, FS_Interval
  <1>2. HitsOf(C) \subseteq 0 .. num_rows - 1
    BY DEF HitsOf, Mask, TypeOK
  <1> QED
    BY <1>1, <1>2, FS_Subset, FS_CardinalityType

\* So are those of one chunk.
LEMMA MaskFinite ==
    ASSUME TypeOK, NEW c
    PROVE  IsFiniteSet(Mask(c)) /\ Cardinality(Mask(c)) \in Nat
  <1>1. HitsOf({c}) = Mask(c)
    BY DEF HitsOf
  <1> QED
    BY <1>1, HitsFinite

\* The cardinality of a disjoint union is the sum.
LEMMA DisjointCardinality ==
    ASSUME NEW S, NEW T, IsFiniteSet(S), IsFiniteSet(T), S \cap T = {}
    PROVE  Cardinality(S \cup T) = Cardinality(S) + Cardinality(T)
  <1>1. Cardinality(S \cap T) = 0
    BY FS_EmptySet
  <1>2. Cardinality(S) \in Nat /\ Cardinality(T) \in Nat
    BY FS_CardinalityType
  <1>3. Cardinality(S \cup T) =
            Cardinality(S) + Cardinality(T) - Cardinality(S \cap T)
    BY FS_Union
  <1> QED
    BY <1>1, <1>2, <1>3

\* The counts of disjoint sets of chunks add up.
LEMMA HitsAdd ==
    ASSUME TypeOK, NEW C \in SUBSET Nat, NEW D \in SUBSET Nat, C \cap D = {}
    PROVE  Cardinality(HitsOf(C \cup D)) =
               Cardinality(HitsOf(C)) + Cardinality(HitsOf(D))
  <1>1. HitsOf(C \cup D) = HitsOf(C) \cup HitsOf(D)
    BY DEF HitsOf
  <1>2. HitsOf(C) \cap HitsOf(D) = {}
    <2>1. ASSUME NEW r \in HitsOf(C) \cap HitsOf(D) PROVE FALSE
      <3>1. PICK c \in C : r \in Rows(c)
        BY DEF HitsOf, Mask
      <3>2. PICK d \in D : r \in Rows(d)
        BY DEF HitsOf, Mask
      <3> QED
        BY <3>1, <3>2, RowsDisjoint
    <2> QED
      BY <2>1
  <1>3. /\ IsFiniteSet(HitsOf(C)) /\ IsFiniteSet(HitsOf(D))
        /\ Cardinality(HitsOf(C)) \in Nat /\ Cardinality(HitsOf(D)) \in Nat
    BY HitsFinite
  <1>4. Cardinality(HitsOf(C) \cup HitsOf(D)) =
            Cardinality(HitsOf(C)) + Cardinality(HitsOf(D))
    BY <1>2, <1>3, DisjointCardinality
  <1> QED
    BY <1>1, <1>4

\* All whole chunks together hold the rows the call can see.
LEMMA HitsOfAll ==
    ASSUME TypeOK
    PROVE  HitsOf(0 .. num_chunks - 1) = Scanned
  <1>1. num_chunks \in Nat
    BY StealingAssumption, DivBounds DEF TypeOK, num_chunks
  <1>2. ASSUME NEW r \in HitsOf(0 .. num_chunks - 1) PROVE r \in Scanned
    <2>1. PICK c \in 0 .. num_chunks - 1 : r \in match /\ r \in Rows(c)
      BY DEF HitsOf, Mask
    <2> QED
      BY <1>1, <2>1, RowInRange DEF Scanned
  <1>3. ASSUME NEW r \in Scanned PROVE r \in HitsOf(0 .. num_chunks - 1)
    <2>1. PICK c \in 0 .. num_chunks - 1 : r \in Rows(c)
      BY <1>1, RowHasChunk DEF Scanned
    <2> QED
      BY <2>1 DEF Scanned, HitsOf, Mask
  <1> QED
    BY <1>2, <1>3

-----------------------------------------------------------------------------
(* The inductive invariant.                                                *)

Started(i) == worker[i].st # "idle"

Done(i) == worker[i].st = "done"

\* Which kernel there is, and which workers run, at each point of the call.
MainInv ==
    /\ pc = "entry" => kernel = "none" /\ t = 0
    /\ pc = "no_kernel" => kernel = "nullptr"
    /\ pc = "spawn" => kernel = "ok"
    /\ pc = "join" => kernel = "ok"
    /\ pc = "returned" => kernel # "none"
    /\ kernel # "ok" => t = 0 /\ \A i \in ThreadIds : ~Started(i)
    /\ pc = "spawn" => \A i \in ThreadIds : Started(i) <=> i < t
    /\ pc = "join" => \A i \in ThreadIds : i < t => Done(i)
    /\ pc = "returned" /\ kernel = "ok" => \A i \in ThreadIds : Done(i)
    /\ \A i \in ThreadIds :
           worker[i].st = "store" => worker[i].local_chunks # <<>>

\* Workers that found no chunk left.
Left(i) == worker[i].st \in {"merge", "merge_chunks", "store", "done"}

\* Claims are below the counter and differ.
ClaimInv ==
    /\ \A i \in Scanning :
        worker[i].at < chunk_counter /\ worker[i].at < num_chunks
    /\ \A i \in ThreadIds : Left(i) => chunk_counter >= num_chunks
    /\ ClaimsAreExclusive

\* Workers whose count is in the sum.
Merged(i) == worker[i].st \in {"merge_chunks", "store", "done"}

Chunks == 0 .. num_chunks - 1

Having(f, v) == {c \in Chunks : f[c] = v}

\* f tells where the count of a chunk is: with worker f[c], in the sum if f[c]
\* is -2, nowhere yet if it is -1.
Counted(f) ==
    /\ \A c \in Chunks : f[c] # -1 => c < chunk_counter
    /\ \A c \in Chunks : f[c] = -1 /\ c < chunk_counter =>
           \E i \in Scanning : worker[i].at = c
    /\ \A i \in Scanning : f[worker[i].at] = -1
    /\ total_matches = Cardinality(HitsOf(Having(f, -2)))
    /\ \A i \in ThreadIds :
        IF Merged(i) THEN Having(f, i) = {}
        ELSE worker[i].local_matches = Cardinality(HitsOf(Having(f, i)))

CountInv == \E f \in [Chunks -> ThreadIds \cup {-1, -2}] : Counted(f)

\* The inductive invariant.
IInv == TypeOK /\ MainInv /\ ClaimInv /\ CountInv

\* The arguments stay, and what is defined by them.
LEMMA Frozen ==
    ASSUME [Next]_vars
    PROVE  /\ UNCHANGED inputs
           /\ num_threads' = num_threads
           /\ ThreadIds' = ThreadIds
           /\ num_chunks' = num_chunks
           /\ Chunks' = Chunks
           /\ \A C : HitsOf(C)' = HitsOf(C)
           /\ \A f, v : Having(f, v)' = Having(f, v)
           /\ Scanned' = Scanned
  <1>1. UNCHANGED inputs
    BY DEF Next, Main, Worker, Finished, Compile, ReturnNothing, Spawn,
           SpawnEnd, Join, Return, Throws, FetchChunk, ScanChunk,
           MergeMatches, ClaimSlot, StoreResult, WorkerEnd, vars
  <1>2. num_rows' = num_rows /\ num_threads' = num_threads /\ match' = match
    BY <1>1 DEF inputs
  <1> QED
    BY <1>1, <1>2 DEF ThreadIds, num_chunks, Chunks, HitsOf, Mask, Having,
                      Scanned

\* What the scan of a chunk changes.
LEMMA ScanEffect ==
    ASSUME TypeOK, NEW i \in ThreadIds, ScanChunk(i)
    PROVE  /\ worker'[i].st = "fetch"
           /\ worker'[i].local_matches =
                  worker[i].local_matches + Cardinality(Mask(worker[i].at))
           /\ \A j \in ThreadIds : j # i => worker'[j] = worker[j]
  <1> DEFINE w == [st |-> "fetch", at |-> worker[i].at,
                   local_matches |-> worker[i].local_matches
                                        + Cardinality(Mask(worker[i].at)),
                   local_chunks |-> worker[i].local_chunks
                                       \o Kept(worker[i].at)]
  <1>1. worker' = [worker EXCEPT ![i] = w]
    BY DEF ScanChunk
  <1>2. /\ w.st = "fetch"
        /\ w.local_matches =
               worker[i].local_matches + Cardinality(Mask(worker[i].at))
    OBVIOUS
  <1> HIDE DEF w
  <1>3. worker'[i] = w /\ \A j \in ThreadIds : j # i => worker'[j] = worker[j]
    BY <1>1 DEF TypeOK
  <1> QED
    BY <1>2, <1>3

\* A worker's step touches nothing of the calling thread or of another worker.
LEMMA WorkerEffect ==
    ASSUME TypeOK, MainInv, NEW i \in ThreadIds, Worker(i)
    PROVE  /\ UNCHANGED <<inputs, main>>
           /\ \A j \in ThreadIds : j # i => worker'[j] = worker[j]
           /\ pc \in {"spawn", "join"} /\ kernel = "ok"
           /\ Started(i) /\ ~Done(i) /\ Started(i)'
  <1>1. UNCHANGED <<inputs, main>> /\ Started(i) /\ ~Done(i)
    BY DEF Worker, FetchChunk, ScanChunk, MergeMatches, ClaimSlot, StoreResult,
           WorkerEnd, At, Started, Done
  <1>2. Started(i)' /\ \A j \in ThreadIds : j # i => worker'[j] = worker[j]
    <2>1. CASE FetchChunk(i) \/ MergeMatches(i)
      BY <2>1 DEF FetchChunk, MergeMatches, TypeOK, WorkerStates, Started
    <2>2. CASE ScanChunk(i)
      BY <2>2, ScanEffect DEF Started
    <2>3. CASE ClaimSlot(i) \/ StoreResult(i) \/ WorkerEnd(i)
      BY <2>3 DEF ClaimSlot, StoreResult, WorkerEnd, TypeOK, WorkerStates,
                  Started
    <2> QED
      BY <2>1, <2>2, <2>3 DEF Worker
  <1>3. pc # "terminated"
    BY DEF Worker, FetchChunk, ScanChunk, MergeMatches, ClaimSlot, StoreResult,
           WorkerEnd, At
  <1> QED
    BY <1>1, <1>2, <1>3 DEF MainInv, TypeOK

\* Calls start in the invariant.
LEMMA InitIInv == Init => IInv
  <1> SUFFICES ASSUME Init PROVE IInv
    OBVIOUS
  <1>1. num_chunks \in Nat /\ num_rows \in Nat /\ num_threads \in Int
    BY StealingAssumption, DivBounds DEF Init, num_chunks
  <1>2. TypeOK
    <2>1. EmptyResult \in Results
      BY DEF EmptyResult, Results
    <2>2. /\ chunk_results \in [0 .. num_chunks - 1 -> Results]
          /\ DOMAIN chunk_results = 0 .. num_chunks - 1
      BY <2>1 DEF Init, NoResults
    <2>3. idle \in WorkerStates
      BY DEF idle, WorkerStates
    <2>4. worker \in [ThreadIds -> WorkerStates]
      BY <2>3 DEF Init
    <2> QED
      BY <1>1, <2>2, <2>4 DEF Init, TypeOK
  <1>3. MainInv
    BY DEF Init, MainInv, Started, idle
  <1>4. ClaimInv
    BY DEF Init, ClaimInv, ClaimsAreExclusive, Scanning, Left, idle
  <1>5. CountInv
    <2> DEFINE f == [c \in Chunks |-> -1]
    <2>1. f \in [Chunks -> ThreadIds \cup {-1, -2}]
      OBVIOUS
    <2>2. \A v \in Int : v # -1 => Having(f, v) = {}
      BY DEF Having
    <2>3. \A c \in Chunks : f[c] = -1 /\ ~(c < chunk_counter)
      BY <1>1 DEF Init, Chunks
    <2> HIDE DEF f
    <2>4. Cardinality(HitsOf({})) = 0
      BY FS_EmptySet DEF HitsOf
    <2>5. ThreadIds \subseteq Nat
      BY <1>1 DEF ThreadIds
    <2>6. Having(f, -2) = {} /\ \A i \in ThreadIds : Having(f, i) = {}
      BY <2>2, <2>5
    <2>7. Counted(f)
      BY <2>3, <2>4, <2>6 DEF Counted, Init, Scanning, Merged, idle
    <2> QED
      BY <2>1, <2>7 DEF CountInv
  <1> QED
    BY <1>2, <1>3, <1>4, <1>5 DEF IInv

\* Every step keeps the types.
LEMMA TypeStep == TypeOK /\ MainInv /\ [Next]_vars => TypeOK'
  <1> SUFFICES ASSUME TypeOK, MainInv, [Next]_vars PROVE TypeOK'
    OBVIOUS
  <1>1. /\ num_rows' = num_rows /\ match' = match
        /\ num_threads' = num_threads /\ ThreadIds' = ThreadIds
        /\ Results' = Results /\ WorkerStates' = WorkerStates
    BY Frozen DEF inputs, Results, WorkerStates
  <1>2. CASE UNCHANGED vars
    BY <1>1, <1>2 DEF TypeOK, vars, main, atomics
  <1>3. CASE Compile \/ SpawnEnd \/ Join \/ Return \/ Throws
    BY <1>1, <1>3 DEF TypeOK, Compile, SpawnEnd, Join, Return, Throws, main,
                      atomics
  <1>4. CASE ReturnNothing
    <2>1. <<>> \in [DOMAIN <<>> -> Results]
      OBVIOUS
    <2> QED
      BY <1>1, <1>4, <2>1 DEF TypeOK, ReturnNothing, atomics
  <1>5. CASE Spawn
    <2>1. worker' \in [ThreadIds -> WorkerStates]
      BY <1>5 DEF TypeOK, Spawn, WorkerStates
    <2> QED
      BY <1>1, <1>5, <2>1 DEF TypeOK, Spawn, atomics
  <1>6. ASSUME NEW i \in ThreadIds, FetchChunk(i) PROVE TypeOK'
    <2>1. worker' \in [ThreadIds -> WorkerStates]
      BY ZenonT(30), <1>6 DEF TypeOK, FetchChunk, WorkerStates
    <2> QED
      BY <1>1, <1>6, <2>1 DEF TypeOK, FetchChunk, main
  <1>7. ASSUME NEW i \in ThreadIds, ScanChunk(i) PROVE TypeOK'
    <2> DEFINE c == worker[i].at
               n == Cardinality(Mask(c))
    <2>1. c \in Nat /\ n \in Nat
      BY MaskFinite DEF TypeOK, WorkerStates
    <2>2. Kept(c) \in Seq(Results)
      <3>1. Mask(c) \in SUBSET (0 .. num_rows - 1)
        BY DEF Mask, TypeOK
      <3>2. [chunk_id |-> c, result_mask |-> Mask(c)] \in Results
        BY <2>1, <3>1 DEF Results
      <3> QED
        BY <3>2 DEF Kept
    <2> HIDE DEF n
    <2>3. worker[i].local_chunks \o Kept(c) \in Seq(Results)
      BY <2>2 DEF TypeOK, WorkerStates
    <2>4. worker' \in [ThreadIds -> WorkerStates]
      <3> DEFINE w == [st |-> "fetch", at |-> c,
                       local_matches |-> worker[i].local_matches + n,
                       local_chunks |-> worker[i].local_chunks \o Kept(c)]
      <3>1. worker' = [worker EXCEPT ![i] = w]
        BY <1>7 DEF ScanChunk, n
      <3>2. worker[i].local_matches \in Nat
        BY DEF TypeOK, WorkerStates
      <3>3. w \in WorkerStates
        BY <2>1, <2>3, <3>2 DEF WorkerStates
      <3> HIDE DEF w
      <3> QED
        BY <3>1, <3>3 DEF TypeOK
    <2> QED
      BY <1>1, <1>7, <2>4 DEF TypeOK, ScanChunk, main, atomics
  <1>8. ASSUME NEW i \in ThreadIds, MergeMatches(i) \/ WorkerEnd(i)
        PROVE  TypeOK'
    <2>1. worker' \in [ThreadIds -> WorkerStates]
      BY ZenonT(30), <1>8 DEF TypeOK, MergeMatches, WorkerEnd, WorkerStates
    <2>2. worker[i].local_matches \in Nat
      BY DEF TypeOK, WorkerStates
    <2> QED
      BY <1>1, <1>8, <2>1, <2>2
      DEF TypeOK, MergeMatches, WorkerEnd, main, atomics
  <1>9. ASSUME NEW i \in ThreadIds, ClaimSlot(i) PROVE TypeOK'
    <2>1. worker' \in [ThreadIds -> WorkerStates]
      BY <1>9 DEF TypeOK, ClaimSlot, WorkerStates
    <2> QED
      BY <1>1, <1>9, <2>1 DEF TypeOK, ClaimSlot, main
  <1>10. ASSUME NEW i \in ThreadIds, StoreResult(i) PROVE TypeOK'
    <2>1. worker[i].local_chunks \in Seq(Results)
      BY DEF TypeOK, WorkerStates
    <2>2. worker[i].local_chunks # <<>>
      BY <1>10 DEF StoreResult, At, MainInv
    <2>3. /\ Head(worker[i].local_chunks) \in Results
          /\ Tail(worker[i].local_chunks) \in Seq(Results)
      BY <2>1, <2>2
    <2>4. worker' \in [ThreadIds -> WorkerStates]
      BY SMTT(30), <1>10, <2>3 DEF TypeOK, StoreResult, WorkerStates
    <2>5. chunk_results' \in [DOMAIN chunk_results' -> Results]
      BY <1>10, <2>3 DEF TypeOK, StoreResult
    <2> QED
      BY <1>1, <1>10, <2>4, <2>5 DEF TypeOK, StoreResult, main, atomics
  <1> QED
    BY <1>2, <1>3, <1>4, <1>5, <1>6, <1>7, <1>8, <1>9, <1>10
    DEF Next, Main, Worker, Finished

\* Every step keeps the calling thread and the workers in step.
LEMMA MainStep == TypeOK /\ MainInv /\ [Next]_vars => MainInv'
  <1> SUFFICES ASSUME TypeOK, MainInv, [Next]_vars PROVE MainInv'
    OBVIOUS
  <1>1. num_threads' = num_threads /\ ThreadIds' = ThreadIds
    BY Frozen
  <1>2. ThreadIds \subseteq Nat /\ \A i \in ThreadIds : i < num_threads
    BY DEF ThreadIds, TypeOK
  <1>3. CASE UNCHANGED vars
    BY <1>1, <1>3 DEF MainInv, Started, Done, vars, main
  <1>4. CASE Compile \/ ReturnNothing \/ Throws
    BY <1>1, <1>4 DEF MainInv, Started, Done, Compile, ReturnNothing, Throws,
                      Over, TypeOK
  <1>5. CASE Spawn
    <2>1. t \in ThreadIds /\ pc = "spawn" /\ kernel = "ok"
      BY <1>5 DEF Spawn, ThreadIds, TypeOK, MainInv
    <2>2. \A i \in ThreadIds : i # t => worker'[i] = worker[i]
      BY <1>5 DEF Spawn, TypeOK
    <2>3. worker'[t].st = "fetch"
      BY <1>5, <2>1 DEF Spawn, TypeOK, WorkerStates
    <2>4. \A i \in ThreadIds : i < t + 1 <=> (i < t \/ i = t)
      BY <1>2 DEF TypeOK
    <2> QED
      BY <1>1, <1>5, <2>1, <2>2, <2>3, <2>4
      DEF MainInv, Started, Done, Spawn
  <1>6. CASE SpawnEnd \/ Return
    BY <1>1, <1>2, <1>6 DEF MainInv, Started, Done, SpawnEnd, Return, TypeOK
  <1>7. CASE Join
    <2>1. \A i \in ThreadIds : i < t + 1 <=> (i < t \/ i = t)
      BY <1>2 DEF TypeOK
    <2> QED
      BY <1>1, <1>7, <2>1 DEF MainInv, Started, Done, Join
  <1>8. ASSUME NEW i \in ThreadIds, Worker(i) PROVE MainInv'
    <2>1. /\ UNCHANGED <<pc, t, kernel>>
          /\ \A j \in ThreadIds : j # i => worker'[j] = worker[j]
          /\ pc \in {"spawn", "join"} /\ kernel = "ok"
          /\ Started(i) /\ ~Done(i) /\ Started(i)'
      BY <1>8, WorkerEffect DEF main
    <2>2. worker'[i].st = "store" => worker'[i].local_chunks # <<>>
      <3>1. CASE FetchChunk(i) \/ MergeMatches(i)
        BY <3>1 DEF FetchChunk, MergeMatches, TypeOK, WorkerStates
      <3>2. CASE ScanChunk(i)
        BY <3>2, ScanEffect
      <3>3. CASE ClaimSlot(i) \/ StoreResult(i) \/ WorkerEnd(i)
        BY <3>3 DEF ClaimSlot, StoreResult, WorkerEnd, TypeOK, WorkerStates
      <3> QED
        BY <1>8, <3>1, <3>2, <3>3 DEF Worker
    <2> QED
      BY <1>1, <2>1, <2>2 DEF MainInv, Started, Done
  <1> QED
    BY <1>3, <1>4, <1>5, <1>6, <1>7, <1>8 DEF Next, Main, Finished

\* The calling thread never touches a claim.
LEMMA MainKeepsClaims ==
    ASSUME TypeOK, MainInv, Main \/ Throws \/ UNCHANGED vars
    PROVE  /\ UNCHANGED <<chunk_counter, total_matches>>
           /\ \A i \in ThreadIds :
                /\ worker'[i].at = worker[i].at
                /\ worker'[i].local_matches = worker[i].local_matches
                /\ \/ worker'[i].st = worker[i].st
                   \/ worker[i].st = "idle" /\ worker'[i].st = "fetch"
  <1>1. CASE Spawn
    <2>1. t \in ThreadIds /\ worker[t].st = "idle"
      BY <1>1 DEF Spawn, ThreadIds, TypeOK, MainInv, Started
    <2> QED
      BY <1>1, <2>1 DEF Spawn, TypeOK, WorkerStates, atomics
  <1>2. CASE Compile \/ ReturnNothing \/ SpawnEnd \/ Join \/ Return \/ Throws
    BY <1>2 DEF Compile, ReturnNothing, SpawnEnd, Join, Return, Throws, atomics
  <1>3. CASE UNCHANGED vars
    BY <1>3 DEF vars, atomics
  <1> QED
    BY <1>1, <1>2, <1>3 DEF Main

\* What a worker's step does to its claim and its count.
LEMMA WorkerCases ==
    ASSUME TypeOK, NEW i \in ThreadIds, Worker(i)
    PROVE  LET w == worker[i]  v == worker'[i] IN
           \/ /\ w.st = "fetch" /\ v.st = "scan"
              /\ v.at = chunk_counter /\ chunk_counter < num_chunks
              /\ chunk_counter' = chunk_counter + 1
              /\ v.local_matches = w.local_matches
              /\ total_matches' = total_matches
           \/ /\ w.st = "fetch" /\ v.st = "merge"
              /\ chunk_counter >= num_chunks
              /\ chunk_counter' = chunk_counter + 1
              /\ v.local_matches = w.local_matches
              /\ total_matches' = total_matches
           \/ /\ w.st = "scan" /\ v.st = "fetch"
              /\ chunk_counter' = chunk_counter
              /\ v.local_matches =
                     w.local_matches + Cardinality(Mask(w.at))
              /\ total_matches' = total_matches
           \/ /\ w.st = "merge" /\ v.st = "merge_chunks"
              /\ chunk_counter' = chunk_counter
              /\ total_matches' = total_matches + w.local_matches
           \/ /\ Merged(i) /\ v.st \in {"merge_chunks", "store", "done"}
              /\ chunk_counter' = chunk_counter
              /\ total_matches' = total_matches
  <1>0. num_chunks \in Nat /\ chunk_counter \in Nat
    BY StealingAssumption, DivBounds DEF TypeOK, num_chunks
  <1>1. CASE FetchChunk(i)
    BY <1>0, <1>1 DEF FetchChunk, At, TypeOK, WorkerStates
  <1>2. CASE ScanChunk(i)
    BY <1>2, ScanEffect DEF ScanChunk, At, atomics
  <1>3. CASE MergeMatches(i)
    BY <1>3 DEF MergeMatches, At, TypeOK, WorkerStates
  <1>4. CASE ClaimSlot(i) \/ StoreResult(i) \/ WorkerEnd(i)
    BY <1>4 DEF ClaimSlot, StoreResult, WorkerEnd, At, TypeOK, WorkerStates,
                Merged, atomics
  <1> QED
    BY <1>1, <1>2, <1>3, <1>4 DEF Worker

\* Every step keeps the claims apart.
LEMMA ClaimStep == TypeOK /\ MainInv /\ ClaimInv /\ [Next]_vars => ClaimInv'
  <1> SUFFICES ASSUME TypeOK, MainInv, ClaimInv, [Next]_vars PROVE ClaimInv'
    OBVIOUS
  <1>1. ThreadIds' = ThreadIds /\ num_chunks' = num_chunks
    BY Frozen
  <1>2. /\ num_chunks \in Nat /\ chunk_counter \in Nat
        /\ \A i \in ThreadIds : worker[i].at \in Nat
    BY StealingAssumption, DivBounds DEF TypeOK, num_chunks, WorkerStates
  <1>3. CASE Main \/ Throws \/ UNCHANGED vars
    <2>1. chunk_counter' = chunk_counter /\ Scanning' = Scanning
      BY <1>1, <1>3, MainKeepsClaims DEF Scanning
    <2>2. \A i \in ThreadIds : worker'[i].at = worker[i].at
                                 /\ Left(i)' = Left(i)
      BY <1>3, MainKeepsClaims DEF Left
    <2> QED
      BY <1>1, <2>1, <2>2 DEF ClaimInv, ClaimsAreExclusive, Scanning
  <1>4. ASSUME NEW i \in ThreadIds, Worker(i) PROVE ClaimInv'
    <2>1. \A j \in ThreadIds : j # i => worker'[j] = worker[j]
      BY <1>4, WorkerEffect
    <2> DEFINE w == worker[i]
               v == worker'[i]
    <2>2. \/ /\ w.st = "fetch" /\ v.st = "scan"
             /\ v.at = chunk_counter /\ chunk_counter < num_chunks
             /\ chunk_counter' = chunk_counter + 1
          \/ /\ w.st = "fetch" /\ v.st = "merge"
             /\ chunk_counter >= num_chunks
             /\ chunk_counter' = chunk_counter + 1
          \/ /\ w.st = "scan" /\ v.st = "fetch"
             /\ chunk_counter' = chunk_counter
          \/ /\ Left(i) /\ v.st \in {"merge_chunks", "store", "done"}
             /\ chunk_counter' = chunk_counter
      BY <1>4, WorkerCases DEF Left, Merged
    <2>3. /\ chunk_counter <= chunk_counter'
          /\ Scanning' \subseteq Scanning \cup {i}
          /\ v.st = "scan" => v.at = chunk_counter
                 /\ chunk_counter' = chunk_counter + 1 /\ v.at < num_chunks
          /\ Left(i)' => chunk_counter >= num_chunks
      BY <1>1, <1>2, <2>1, <2>2 DEF Scanning, Left, ClaimInv
    <2>4. chunk_counter' \in Nat
      BY <1>2, <2>2
    <2>5. \A j \in Scanning' :
              worker'[j].at < chunk_counter' /\ worker'[j].at < num_chunks
      BY <1>1, <1>2, <2>1, <2>3, <2>4 DEF Scanning, ClaimInv
    <2>6. \A j \in ThreadIds : Left(j)' => chunk_counter' >= num_chunks
      BY <1>2, <2>1, <2>3, <2>4 DEF Left, ClaimInv
    <2>7. ClaimsAreExclusive'
      <3>1. SUFFICES ASSUME NEW j \in Scanning', NEW k \in Scanning', j # k,
                            worker'[j].at = worker'[k].at
                     PROVE  FALSE
        BY DEF ClaimsAreExclusive
      <3>2. CASE j # i /\ k # i
        BY <2>1, <2>3, <3>1, <3>2, <1>1
        DEF ClaimInv, ClaimsAreExclusive, Scanning
      <3>3. CASE j = i
        BY <1>1, <1>2, <2>1, <2>3, <3>1, <3>3 DEF ClaimInv, Scanning
      <3>4. CASE k = i
        BY <1>1, <1>2, <2>1, <2>3, <3>1, <3>4 DEF ClaimInv, Scanning
      <3> QED
        BY <3>2, <3>3, <3>4
    <2> QED
      BY <1>1, <2>5, <2>6, <2>7 DEF ClaimInv
  <1> QED
    BY <1>3, <1>4 DEF Next, Finished

Functions == [Chunks -> ThreadIds \cup {-1, -2}]

\* What has to be shown of a function after a step.
LEMMA CountedNext ==
    ASSUME [Next]_vars, NEW g \in Functions,
           \A c \in Chunks : g[c] # -1 => c < chunk_counter',
           \A c \in Chunks : g[c] = -1 /\ c < chunk_counter' =>
               \E i \in ThreadIds :
                   worker'[i].st = "scan" /\ worker'[i].at = c,
           \A i \in ThreadIds :
               worker'[i].st = "scan" => g[worker'[i].at] = -1,
           total_matches' = Cardinality(HitsOf(Having(g, -2))),
           \A i \in ThreadIds :
               IF worker'[i].st \in {"merge_chunks", "store", "done"}
               THEN Having(g, i) = {}
               ELSE worker'[i].local_matches =
                        Cardinality(HitsOf(Having(g, i)))
    PROVE  CountInv'
  <1>1. /\ ThreadIds' = ThreadIds /\ Chunks' = Chunks
        /\ \A C : HitsOf(C)' = HitsOf(C)
        /\ \A f, v : Having(f, v)' = Having(f, v)
    BY Frozen
  <1>2. (\A c \in Chunks : g[c] # -1 => c < chunk_counter)'
    BY <1>1
  <1>3. (\A c \in Chunks : g[c] = -1 /\ c < chunk_counter =>
             \E i \in Scanning : worker[i].at = c)'
    BY <1>1 DEF Scanning
  <1>4. (\A i \in Scanning : g[worker[i].at] = -1)'
    BY <1>1 DEF Scanning
  <1>5. (total_matches = Cardinality(HitsOf(Having(g, -2))))'
    <2>1. HitsOf(Having(g, -2))' = HitsOf(Having(g, -2))
      <3>1. HitsOf(Having(g, -2))' = UNION {Mask(c)' : c \in Having(g, -2)'}
        BY DEF HitsOf
      <3>2. HitsOf(Having(g, -2)) = HitsOf(Having(g, -2)')
        BY <1>1
      <3> QED
        BY <1>1, <3>1, <3>2 DEF HitsOf
    <2> QED
      BY <2>1
  <1>6. (\A i \in ThreadIds :
            IF Merged(i) THEN Having(g, i) = {}
            ELSE worker[i].local_matches = Cardinality(HitsOf(Having(g, i))))'
    <2>1. SUFFICES ASSUME NEW i \in ThreadIds
                   PROVE  (IF Merged(i) THEN Having(g, i) = {}
                           ELSE worker[i].local_matches =
                                    Cardinality(HitsOf(Having(g, i))))'
      BY <1>1
    <2>2. HitsOf(Having(g, i))' = HitsOf(Having(g, i))
      BY Frozen DEF HitsOf, Having, Mask, inputs
    <2> QED
      BY <1>1, <2>2 DEF Merged
  <1> QED
    BY <1>1, <1>2, <1>3, <1>4, <1>5, <1>6 DEF CountInv, Counted, Functions

\* The calling thread keeps every count.
LEMMA CountMain ==
    ASSUME TypeOK, MainInv, CountInv, [Next]_vars,
           Main \/ Throws \/ UNCHANGED vars
    PROVE  CountInv'
  <1>1. PICK f \in Functions : Counted(f)
    BY DEF CountInv, Functions
  <1>2. /\ UNCHANGED <<chunk_counter, total_matches>>
        /\ \A i \in ThreadIds :
             /\ worker'[i].at = worker[i].at
             /\ worker'[i].local_matches = worker[i].local_matches
             /\ worker'[i].st = "scan" <=> worker[i].st = "scan"
             /\ worker'[i].st \in {"merge_chunks", "store", "done"}
                    <=> Merged(i)
    BY MainKeepsClaims DEF Merged
  <1> QED
    BY <1>1, <1>2, CountedNext DEF Counted, Scanning

\* A worker that claims a chunk, leaves the loop or stores its results.
LEMMA CountKept ==
    ASSUME TypeOK, MainInv, ClaimInv, [Next]_vars,
           NEW f \in Functions, Counted(f),
           NEW i \in ThreadIds, Worker(i),
           worker[i].st # "scan", worker[i].st # "merge"
    PROVE  CountInv'
  <1>1. \A j \in ThreadIds : j # i => worker'[j] = worker[j]
    BY WorkerEffect
  <1>2. num_chunks \in Nat /\ chunk_counter \in Nat
    BY StealingAssumption, DivBounds DEF TypeOK, num_chunks
  <1> DEFINE w == worker[i]
             v == worker'[i]
  <1>3. \/ /\ w.st = "fetch" /\ v.st = "scan"
           /\ v.at = chunk_counter /\ chunk_counter < num_chunks
           /\ chunk_counter' = chunk_counter + 1
           /\ v.local_matches = w.local_matches
        \/ /\ w.st = "fetch" /\ v.st = "merge"
           /\ chunk_counter >= num_chunks
           /\ chunk_counter' = chunk_counter + 1
           /\ v.local_matches = w.local_matches
        \/ /\ Merged(i) /\ v.st \in {"merge_chunks", "store", "done"}
           /\ chunk_counter' = chunk_counter
    BY WorkerCases
  <1>4. total_matches' = total_matches
    BY WorkerCases
  <1>5. \A c \in Chunks : f[c] # -1 => c < chunk_counter'
    BY <1>2, <1>3 DEF Counted, Chunks
  <1>6. \A c \in Chunks : f[c] = -1 /\ c < chunk_counter' =>
            \E j \in ThreadIds : worker'[j].st = "scan" /\ worker'[j].at = c
    <2>1. SUFFICES ASSUME NEW c \in Chunks, f[c] = -1, c < chunk_counter'
                   PROVE  \E j \in ThreadIds :
                              worker'[j].st = "scan" /\ worker'[j].at = c
      OBVIOUS
    <2>2. CASE c < chunk_counter
      <3>1. PICK j \in Scanning : worker[j].at = c
        BY <2>1, <2>2 DEF Counted
      <3> QED
        BY <1>1, <3>1 DEF Scanning
    <2>3. CASE ~(c < chunk_counter)
      <3>1. c = chunk_counter /\ v.st = "scan" /\ v.at = chunk_counter
        BY <1>2, <1>3, <2>1, <2>3 DEF Chunks
      <3> QED
        BY <3>1
    <2> QED
      BY <2>2, <2>3
  <1>7. \A j \in ThreadIds : worker'[j].st = "scan" => f[worker'[j].at] = -1
    <2>1. ASSUME v.st = "scan" PROVE f[v.at] = -1
      <3>1. v.at = chunk_counter /\ chunk_counter \in Chunks
        BY <1>2, <1>3, <2>1 DEF Chunks
      <3> QED
        BY <1>2, <3>1 DEF Counted
    <2> QED
      BY <1>1, <2>1 DEF Counted, Scanning
  <1>8. \A j \in ThreadIds :
            IF worker'[j].st \in {"merge_chunks", "store", "done"}
            THEN Having(f, j) = {}
            ELSE worker'[j].local_matches = Cardinality(HitsOf(Having(f, j)))
    BY <1>1, <1>3 DEF Counted, Merged
  <1> QED
    BY <1>4, <1>5, <1>6, <1>7, <1>8, CountedNext DEF Counted

\* A worker that has scanned a chunk counts it.
LEMMA CountScanned ==
    ASSUME TypeOK, MainInv, ClaimInv, [Next]_vars,
           NEW f \in Functions, Counted(f),
           NEW i \in ThreadIds, Worker(i), worker[i].st = "scan"
    PROVE  CountInv'
  <1> DEFINE c == worker[i].at
             g == [f EXCEPT ![c] = i]
  <1>1. \A j \in ThreadIds : j # i => worker'[j] = worker[j]
    BY WorkerEffect
  <1>2. /\ num_chunks \in Nat /\ chunk_counter \in Nat
        /\ ThreadIds \subseteq Nat
    BY StealingAssumption, DivBounds DEF TypeOK, num_chunks, ThreadIds
  <1>3. /\ worker'[i].st = "fetch" /\ chunk_counter' = chunk_counter
        /\ worker'[i].local_matches =
               worker[i].local_matches + Cardinality(Mask(c))
        /\ total_matches' = total_matches
    BY WorkerCases DEF Merged
  <1>4. c \in Chunks /\ c < chunk_counter /\ f[c] = -1
    BY <1>2 DEF ClaimInv, Scanning, Chunks, TypeOK, WorkerStates, Counted
  <1>5. g \in Functions /\ g[c] = i /\ \A d \in Chunks : d # c => g[d] = f[d]
    BY <1>4 DEF Functions
  <1> HIDE DEF g
  <1>6. /\ Having(g, i) = Having(f, i) \cup {c}
        /\ Having(f, i) \cap {c} = {}
        /\ Having(g, -2) = Having(f, -2)
        /\ \A j \in ThreadIds : j # i => Having(g, j) = Having(f, j)
    BY <1>2, <1>4, <1>5 DEF Having
  <1>7. \A d \in Chunks : g[d] # -1 => d < chunk_counter'
    BY <1>3, <1>4, <1>5 DEF Counted
  <1>8. \A d \in Chunks : g[d] = -1 /\ d < chunk_counter' =>
            \E j \in ThreadIds : worker'[j].st = "scan" /\ worker'[j].at = d
    <2>1. SUFFICES ASSUME NEW d \in Chunks, g[d] = -1, d < chunk_counter'
                   PROVE  \E j \in ThreadIds :
                              worker'[j].st = "scan" /\ worker'[j].at = d
      OBVIOUS
    <2>2. d # c
      BY <1>2, <1>5, <2>1
    <2>3. PICK j \in Scanning : worker[j].at = d
      BY <1>3, <1>5, <2>1, <2>2 DEF Counted
    <2> QED
      BY <1>1, <2>2, <2>3 DEF Scanning
  <1>9. \A j \in ThreadIds : worker'[j].st = "scan" => g[worker'[j].at] = -1
    <2>1. SUFFICES ASSUME NEW j \in ThreadIds, worker'[j].st = "scan"
                   PROVE  g[worker'[j].at] = -1
      OBVIOUS
    <2>2. j # i /\ worker'[j] = worker[j]
      BY <1>1, <1>3, <2>1
    <2>3. worker[j].at # c /\ worker[j].at \in Chunks /\ f[worker[j].at] = -1
      BY SMTT(30), <1>2, <2>1, <2>2 DEF ClaimInv, ClaimsAreExclusive, Scanning, Chunks,
                              TypeOK, WorkerStates, Counted
    <2> QED
      BY <1>5, <2>2, <2>3
  <1>10. worker'[i].local_matches = Cardinality(HitsOf(Having(g, i)))
    <2>1. /\ Having(f, i) \in SUBSET Nat /\ {c} \in SUBSET Nat
          /\ HitsOf({c}) = Mask(c)
      BY <1>4 DEF Having, Chunks, HitsOf
    <2>2. Cardinality(HitsOf(Having(f, i) \cup {c})) =
              Cardinality(HitsOf(Having(f, i))) + Cardinality(HitsOf({c}))
      BY <1>6, <2>1, HitsAdd
    <2>3. worker[i].local_matches = Cardinality(HitsOf(Having(f, i)))
      BY DEF Counted, Merged
    <2> QED
      BY <1>3, <1>6, <2>1, <2>2, <2>3
  <1>11. \A j \in ThreadIds :
            IF worker'[j].st \in {"merge_chunks", "store", "done"}
            THEN Having(g, j) = {}
            ELSE worker'[j].local_matches = Cardinality(HitsOf(Having(g, j)))
    BY <1>1, <1>3, <1>6, <1>10 DEF Counted, Merged
  <1>12. total_matches' = Cardinality(HitsOf(Having(g, -2)))
    BY <1>3, <1>6 DEF Counted
  <1> QED
    BY <1>5, <1>7, <1>8, <1>9, <1>11, <1>12, CountedNext

\* A worker that merges its count moves all its chunks into the sum.
LEMMA CountMerged ==
    ASSUME TypeOK, MainInv, ClaimInv, [Next]_vars,
           NEW f \in Functions, Counted(f),
           NEW i \in ThreadIds, Worker(i), worker[i].st = "merge"
    PROVE  CountInv'
  <1> DEFINE g == [d \in Chunks |-> IF f[d] = i THEN -2 ELSE f[d]]
  <1>1. \A j \in ThreadIds : j # i => worker'[j] = worker[j]
    BY WorkerEffect
  <1>2. ThreadIds \subseteq Nat /\ num_chunks \in Nat
    BY StealingAssumption, DivBounds DEF TypeOK, ThreadIds, num_chunks
  <1>3. /\ worker'[i].st = "merge_chunks" /\ chunk_counter' = chunk_counter
        /\ total_matches' = total_matches + worker[i].local_matches
    BY WorkerCases DEF Merged
  <1>4. /\ g \in Functions
        /\ \A d \in Chunks : g[d] = IF f[d] = i THEN -2 ELSE f[d]
    BY DEF Functions
  <1> HIDE DEF g
  <1>5. /\ Having(g, -2) = Having(f, -2) \cup Having(f, i)
        /\ Having(f, -2) \cap Having(f, i) = {}
        /\ Having(g, i) = {}
        /\ \A j \in ThreadIds : j # i => Having(g, j) = Having(f, j)
    BY <1>2, <1>4 DEF Having
  <1>6. \A d \in Chunks : g[d] = -1 <=> f[d] = -1
    BY <1>2, <1>4
  <1>7. \A d \in Chunks : g[d] # -1 => d < chunk_counter'
    BY <1>3, <1>6 DEF Counted
  <1>8. \A d \in Chunks : g[d] = -1 /\ d < chunk_counter' =>
            \E j \in ThreadIds : worker'[j].st = "scan" /\ worker'[j].at = d
    BY <1>1, <1>3, <1>6 DEF Counted, Scanning
  <1>9. \A j \in ThreadIds : worker'[j].st = "scan" => g[worker'[j].at] = -1
    <2>1. SUFFICES ASSUME NEW j \in ThreadIds, worker'[j].st = "scan"
                   PROVE  g[worker'[j].at] = -1
      OBVIOUS
    <2>2. worker'[j] = worker[j]
      BY <1>1, <1>3, <2>1
    <2>3. worker[j].at \in Chunks /\ f[worker[j].at] = -1
      BY SMTT(30), <1>2, <2>1, <2>2 DEF ClaimInv, Scanning, Chunks, TypeOK, WorkerStates,
                        Counted
    <2> QED
      BY <1>6, <2>2, <2>3
  <1>10. total_matches' = Cardinality(HitsOf(Having(g, -2)))
    <2>1. Having(f, -2) \in SUBSET Nat /\ Having(f, i) \in SUBSET Nat
      BY DEF Having, Chunks
    <2>2. Cardinality(HitsOf(Having(f, -2) \cup Having(f, i))) =
              Cardinality(HitsOf(Having(f, -2)))
                  + Cardinality(HitsOf(Having(f, i)))
      BY <1>5, <2>1, HitsAdd
    <2>3. /\ worker[i].local_matches = Cardinality(HitsOf(Having(f, i)))
          /\ total_matches = Cardinality(HitsOf(Having(f, -2)))
      BY DEF Counted, Merged
    <2> QED
      BY <1>3, <1>5, <2>2, <2>3
  <1>11. \A j \in ThreadIds :
            IF worker'[j].st \in {"merge_chunks", "store", "done"}
            THEN Having(g, j) = {}
            ELSE worker'[j].local_matches = Cardinality(HitsOf(Having(g, j)))
    BY <1>1, <1>3, <1>5 DEF Counted, Merged
  <1> QED
    BY <1>4, <1>7, <1>8, <1>9, <1>10, <1>11, CountedNext

\* The invariant is inductive.
LEMMA Inductive == IInv /\ [Next]_vars => IInv'
  <1> SUFFICES ASSUME IInv, [Next]_vars PROVE IInv'
    OBVIOUS
  <1>1. TypeOK /\ MainInv /\ ClaimInv /\ CountInv
    BY DEF IInv
  <1>2. TypeOK' /\ MainInv' /\ ClaimInv'
    BY <1>1, TypeStep, MainStep, ClaimStep
  <1>3. CASE Main \/ Throws \/ UNCHANGED vars
    BY <1>1, <1>2, <1>3, CountMain DEF IInv
  <1>4. ASSUME NEW i \in ThreadIds, Worker(i) PROVE IInv'
    <2>1. PICK f \in Functions : Counted(f)
      BY <1>1 DEF CountInv, Functions
    <2>2. CountInv'
      BY <1>1, <1>4, <2>1, CountKept, CountScanned, CountMerged
    <2> QED
      BY <1>2, <2>2 DEF IInv
  <1> QED
    BY <1>3, <1>4 DEF Next, Finished

\* Every reachable state satisfies the invariant.
THEOREM Invariance == Spec => []IInv
  BY InitIInv, Inductive, PTL DEF Spec

-----------------------------------------------------------------------------
(* What follows.                                                           *)

\* The variables of the call and of its workers keep their types.
THEOREM TypeCorrect == Spec => []TypeOK
  <1>1. IInv => TypeOK
    BY DEF IInv
  <1> QED
    BY <1>1, Invariance, PTL

\* The relaxed fetch_add alone keeps any number of workers apart: no chunk is
\* being scanned by two of them.
THEOREM ExclusiveClaims == Spec => []ClaimsAreExclusive
  <1>1. IInv => ClaimsAreExclusive
    BY DEF IInv, ClaimInv
  <1> QED
    BY <1>1, Invariance, PTL

-----------------------------------------------------------------------------
(* The scan implements MatchCount.                                         *)

Lost == kernel # "none" /\ ~Ran

\* When the call has returned, all counts are in the sum, unless there was no
\* kernel or no thread.
ReturnedInBounds ==
    pc = "returned" =>
        IF Lost THEN total_matches \in 0 .. Cardinality(Scanned)
                ELSE total_matches = Cardinality(Scanned)

\* The bounds follow from the invariant.
LEMMA ImpliesReturnedInBounds == IInv => ReturnedInBounds
  <1> SUFFICES ASSUME IInv, pc = "returned"
               PROVE  IF Lost THEN total_matches \in 0 .. Cardinality(Scanned)
                              ELSE total_matches = Cardinality(Scanned)
    BY DEF ReturnedInBounds
  <1>1. TypeOK /\ MainInv /\ ClaimInv
    BY DEF IInv
  <1>2. PICK f \in Functions : Counted(f)
    BY DEF IInv, CountInv, Functions
  <1>3. num_chunks \in Nat /\ ThreadIds \subseteq Nat
    BY <1>1, StealingAssumption, DivBounds DEF TypeOK, num_chunks, ThreadIds
  <1>4. Cardinality(Scanned) \in Nat /\ IsFiniteSet(Scanned)
    BY <1>1, HitsOfAll, HitsFinite
  <1>5. total_matches = Cardinality(HitsOf(Having(f, -2)))
    BY <1>2 DEF Counted
  <1>6. CASE Lost
    <2>1. HitsOf(Having(f, -2)) \subseteq Scanned
      BY <1>1, HitsOfAll DEF HitsOf, Having, Chunks
    <2>2. /\ Cardinality(HitsOf(Having(f, -2))) <= Cardinality(Scanned)
          /\ Cardinality(HitsOf(Having(f, -2))) \in Nat
      BY <1>1, <1>4, <2>1, FS_Subset, HitsFinite
    <2> QED
      BY <1>4, <1>5, <1>6, <2>2
  <1>7. CASE ~Lost
    <2>1. kernel = "ok" /\ 0 \in ThreadIds
      BY <1>1, <1>7 DEF Lost, Ran, MainInv, ThreadIds, TypeOK
    <2>2. \A i \in ThreadIds : worker[i].st = "done"
      BY <1>1, <2>1 DEF MainInv, Done
    <2>3. chunk_counter >= num_chunks /\ chunk_counter \in Nat
      BY <1>1, <2>1, <2>2 DEF ClaimInv, Left, TypeOK
    <2>4. \A c \in Chunks : f[c] = -2
      <3>1. SUFFICES ASSUME NEW c \in Chunks PROVE f[c] = -2
        OBVIOUS
      <3>2. f[c] # -1
        BY <1>2, <1>3, <2>2, <2>3 DEF Counted, Scanning, Chunks
      <3>3. \A i \in ThreadIds : Having(f, i) = {}
        BY <1>2, <2>2 DEF Counted, Merged
      <3>4. f[c] \notin ThreadIds
        BY <3>3 DEF Having
      <3> QED
        BY <3>2, <3>4 DEF Functions
    <2>5. Having(f, -2) = Chunks
      BY <2>4 DEF Having
    <2> QED
      BY <1>1, <1>5, <1>7, <2>5, HitsOfAll DEF Chunks
  <1> QED
    BY <1>6, <1>7

\* Every step of the call is a step of the one-step count, or changes nothing
\* of it.
LEMMA RefinesStep ==
    ASSUME IInv, [Next]_vars, ReturnedInBounds'
    PROVE  [Abstract!Next]_(Abstract!mvars)
  <1> DEFINE hits == Cardinality(Scanned)
             status == IF Over THEN pc ELSE "running"
             answer == IF pc = "returned" THEN total_matches ELSE 0
  <1>1. TypeOK /\ MainInv
    BY DEF IInv
  <1>2. hits' = hits /\ num_threads' = num_threads
    BY Frozen
  <1>3. /\ Abstract!mvars = <<hits, status, answer, Lost>>
        /\ Abstract!mvars' = <<hits', status', answer', Lost'>>
    BY DEF Abstract!mvars, Lost
  <1>4. CASE /\ UNCHANGED kernel /\ status' = status /\ answer' = answer
    <2>1. Lost' = Lost
      BY <1>2, <1>4 DEF Lost, Ran
    <2> HIDE DEF hits, status, answer
    <2> QED
      BY <1>2, <1>3, <1>4, <2>1
  <1>5. CASE Compile
    <2>1. /\ pc = "entry" /\ kernel = "none"
          /\ pc' \in {"spawn", "no_kernel"} /\ kernel' # "none"
      BY <1>1, <1>5 DEF Compile, MainInv
    <2>2. status = "running" /\ status' = status /\ answer' = answer
      BY <2>1 DEF Over
    <2>3. CASE Lost'
      <3>1. Abstract!LoseWork
        BY <1>2, <2>2, <2>3 DEF Abstract!LoseWork, Lost, Over
      <3> QED
        BY <3>1 DEF Abstract!Next
    <2>4. CASE ~Lost'
      <3>1. Lost' = Lost
        BY <2>1, <2>4 DEF Lost
      <3> HIDE DEF hits, status, answer
      <3> QED
        BY <1>2, <1>3, <2>2, <3>1
    <2> QED
      BY <2>3, <2>4
  <1>6. CASE ReturnNothing \/ Return
    <2>1. /\ pc \in {"no_kernel", "join"} /\ pc' = "returned"
          /\ kernel' = kernel
      BY <1>6 DEF ReturnNothing, Return
    <2>2. Lost' = Lost
      BY <1>2, <2>1 DEF Lost, Ran
    <2>3. IF Lost' THEN total_matches' \in 0 .. hits'
                   ELSE total_matches' = hits'
      BY <2>1 DEF ReturnedInBounds
    <2> HIDE DEF hits
    <2>4. /\ status = "running" /\ status' = "returned"
          /\ IF Lost THEN answer' \in 0 .. hits ELSE answer' = hits
      BY <1>2, <2>1, <2>2, <2>3 DEF Over
    <2>5. Abstract!Answer
      BY <1>2, <2>2, <2>4 DEF Abstract!Answer, Lost, hits
    <2> QED
      BY <2>5 DEF Abstract!Next
  <1>7. CASE Throws
    <2>1. pc \notin {"returned", "terminated"} /\ pc' = "terminated"
            /\ kernel' = kernel
      BY <1>1, <1>7 DEF Throws, Over
    <2>2. Lost' = Lost
      BY <1>2, <2>1 DEF Lost, Ran
    <2>3. Abstract!Terminate
      BY <1>2, <2>1, <2>2 DEF Abstract!Terminate, Lost, Over
    <2> QED
      BY <2>3 DEF Abstract!Next
  <1>8. CASE Spawn \/ SpawnEnd \/ Join
    <2>1. /\ pc \in {"spawn", "join"} /\ pc' \in {"spawn", "join"}
          /\ kernel' = kernel
      BY <1>8 DEF Spawn, SpawnEnd, Join
    <2> QED
      BY <1>4, <2>1 DEF Over
  <1>9. ASSUME NEW i \in ThreadIds, Worker(i)
        PROVE  [Abstract!Next]_(Abstract!mvars)
    <2>1. UNCHANGED <<pc, kernel>> /\ pc \in {"spawn", "join"}
      BY <1>1, <1>9, WorkerEffect DEF main
    <2> QED
      BY <1>4, <2>1 DEF Over
  <1>10. CASE UNCHANGED vars
    BY <1>4, <1>10 DEF vars, main, atomics, Over
  <1> QED
    BY <1>5, <1>6, <1>7, <1>8, <1>9, <1>10 DEF Next, Main, Finished

\* The work-stealing scan answers once, exactly unless there was no kernel or
\* no thread, for every size, number of threads and interleaving.
THEOREM Refinement == Spec => ImplementsMatchCount
  <1>1. Init => Abstract!Init
    <2> SUFFICES ASSUME Init PROVE Abstract!Init
      OBVIOUS
    <2>1. Cardinality(Scanned) \in Nat
      BY InitIInv, HitsOfAll, HitsFinite DEF IInv
    <2> QED
      BY <2>1 DEF Init, Abstract!Init, Over
  <1>2. IInv /\ [Next]_vars /\ ReturnedInBounds'
            => [Abstract!Next]_(Abstract!mvars)
    BY RefinesStep
  <1>3. Spec => []ReturnedInBounds
    BY Invariance, ImpliesReturnedInBounds, PTL
  <1> QED
    BY <1>1, <1>2, <1>3, Invariance, PTL
    DEF Spec, ImplementsMatchCount, Abstract!Spec

-----------------------------------------------------------------------------
(* The spot check.                                                         *)

\* The chunks whose masks are kept, and what is kept of one.
Ends == {0, num_chunks - 1}

Result(c) == [chunk_id |-> c, result_mask |-> Mask(c)]

Busy(c) == \E i \in Scanning : worker[i].at = c

LocalPos(i) == 1 .. Len(worker[i].local_chunks)

\* g[c] is the slot claimed for the mask of chunk c, -1 before that.  The slot
\* exists and has the mask, or a worker is about to store it there.
ClaimedSlots(g) ==
    \A c \in Ends : g[c] # -1 =>
        /\ c < chunk_counter /\ ~Busy(c)
        /\ g[c] < chunk_results_idx /\ g[c] < num_chunks
        /\ \/ chunk_results[g[c]] = Result(c)
           \/ \E i \in ThreadIds : /\ worker[i].st = "store"
                                   /\ worker[i].at = g[c]
                                   /\ Head(worker[i].local_chunks) = Result(c)

\* No slot is claimed in vain, and none for two chunks.
SlotsUsed(g) ==
    /\ \A s \in 0 .. chunk_results_idx - 1 : \E c \in Ends : g[c] = s
    /\ \A c, d \in Ends : g[c] = g[d] /\ g[c] # -1 => c = d

\* What a worker holds is the mask of an end that has been scanned and has no
\* slot, but for the one it is about to store.
HeldResults(g) ==
    \A i \in ThreadIds : \A k \in LocalPos(i) : \E c \in Ends :
        /\ worker[i].local_chunks[k] = Result(c)
        /\ c < chunk_counter /\ ~Busy(c)
        /\ g[c] = IF worker[i].st = "store" /\ k = 1 THEN worker[i].at ELSE -1

\* No mask is held twice.
HeldOnce ==
    \A i, j \in ThreadIds : \A k \in LocalPos(i), m \in LocalPos(j) :
        worker[i].local_chunks[k] = worker[j].local_chunks[m] => i = j /\ k = m

\* No mask of a claimed chunk is lost.
NoneLost(g) ==
    \A c \in Ends : c < chunk_counter /\ g[c] = -1 =>
        \/ Busy(c)
        \/ \E i \in ThreadIds : \E k \in LocalPos(i) :
               worker[i].local_chunks[k] = Result(c)

\* Slots not claimed are as they were allocated.
Unclaimed ==
    /\ \A s \in DOMAIN chunk_results :
           s >= chunk_results_idx => chunk_results[s] = EmptyResult
    /\ DOMAIN chunk_results = 0 .. num_chunks - 1

Placed(g) ==
    /\ ClaimedSlots(g)
    /\ SlotsUsed(g)
    /\ HeldResults(g)
    /\ HeldOnce
    /\ NoneLost(g)
    /\ Unclaimed

Slots == [Ends -> Nat \cup {-1}]

\* Each of the two masks is somewhere until the call returns.
SlotInv ==
    num_chunks > 0 /\ kernel # "nullptr" =>
        /\ \E g \in Slots : Placed(g)
        /\ \A i \in ThreadIds : Done(i) => worker[i].local_chunks = <<>>

\* The ends and their masks stay.
LEMMA EndsFrozen ==
    ASSUME [Next]_vars
    PROVE  /\ Ends' = Ends /\ ThreadIds' = ThreadIds /\ num_chunks' = num_chunks
           /\ \A c : Result(c)' = Result(c)
           /\ Slots' = Slots
  <1>1. ThreadIds' = ThreadIds /\ num_chunks' = num_chunks /\ match' = match
    BY Frozen DEF inputs
  <1> QED
    BY <1>1 DEF Ends, Result, Mask, Slots

\* A result tells its chunk.
LEMMA ResultsDiffer == \A c, d : Result(c) = Result(d) => c = d
  <1> SUFFICES ASSUME NEW c, NEW d, Result(c) = Result(d) PROVE c = d
    OBVIOUS
  <1>1. Result(c).chunk_id = c /\ Result(d).chunk_id = d
    BY DEF Result
  <1> QED
    BY <1>1

LEMMA EndsAreChunks ==
    ASSUME TypeOK, num_chunks > 0
    PROVE  /\ num_chunks \in Nat \ {0} /\ chunk_counter \in Nat
           /\ chunk_results_idx \in Nat
           /\ \A c \in Ends : c \in Nat /\ c < num_chunks
           /\ \A i \in ThreadIds : /\ worker[i].local_chunks \in Seq(Results)
                                   /\ Len(worker[i].local_chunks) \in Nat
                                   /\ worker[i].at \in Nat
  <1>1. num_chunks \in Nat
    BY StealingAssumption, DivBounds DEF TypeOK, num_chunks
  <1> QED
    BY <1>1 DEF TypeOK, WorkerStates, Ends

\* What a worker's step does to the results.
LEMMA SlotCases ==
    ASSUME TypeOK, MainInv, NEW i \in ThreadIds, Worker(i)
    PROVE  LET w == worker[i]  v == worker'[i] IN
           \/ /\ w.st = "fetch" /\ v.st = "scan"
              /\ v.at = chunk_counter /\ chunk_counter' = chunk_counter + 1
              /\ v.local_chunks = w.local_chunks
              /\ UNCHANGED <<chunk_results_idx, chunk_results>>
           \/ /\ w.st = "fetch" /\ v.st = "merge"
              /\ chunk_counter >= num_chunks
              /\ chunk_counter' = chunk_counter + 1
              /\ v.local_chunks = w.local_chunks
              /\ UNCHANGED <<chunk_results_idx, chunk_results>>
           \/ /\ w.st = "scan" /\ v.st = "fetch"
              /\ v.local_chunks = w.local_chunks \o Kept(w.at)
              /\ UNCHANGED <<chunk_counter, chunk_results_idx, chunk_results>>
           \/ /\ w.st = "merge" /\ v.st = "merge_chunks"
              /\ v.local_chunks = w.local_chunks
              /\ UNCHANGED <<chunk_counter, chunk_results_idx, chunk_results>>
           \/ /\ w.st = "merge_chunks" /\ v.st = "store"
              /\ w.local_chunks # <<>> /\ v.local_chunks = w.local_chunks
              /\ v.at = chunk_results_idx
              /\ chunk_results_idx' = chunk_results_idx + 1
              /\ UNCHANGED <<chunk_counter, chunk_results>>
           \/ /\ w.st = "store" /\ v.st = "merge_chunks"
              /\ w.local_chunks # <<>> /\ v.local_chunks = Tail(w.local_chunks)
              /\ chunk_results' =
                     IF w.at < num_chunks
                     THEN [chunk_results EXCEPT ![w.at] = Head(w.local_chunks)]
                     ELSE chunk_results
              /\ UNCHANGED <<chunk_counter, chunk_results_idx>>
           \/ /\ w.st = "merge_chunks" /\ v.st = "done"
              /\ w.local_chunks = <<>> /\ v.local_chunks = <<>>
              /\ UNCHANGED <<chunk_counter, chunk_results_idx, chunk_results>>
  <1>0. num_chunks \in Nat /\ chunk_counter \in Nat
    BY StealingAssumption, DivBounds DEF TypeOK, num_chunks
  <1>1. CASE FetchChunk(i)
    <2>1. /\ chunk_counter' = chunk_counter + 1 /\ worker[i].st = "fetch"
          /\ UNCHANGED <<chunk_results_idx, chunk_results>>
          /\ worker'[i].local_chunks = worker[i].local_chunks
          /\ worker'[i].at = chunk_counter
          /\ worker'[i].st = IF chunk_counter < num_chunks THEN "scan" ELSE "merge"
      BY <1>1 DEF FetchChunk, At, TypeOK, WorkerStates
    <2>2. chunk_counter < num_chunks \/ chunk_counter >= num_chunks
      BY <1>0
    <2> QED
      BY <2>1, <2>2
  <1>2. CASE ScanChunk(i)
    <2> DEFINE w == [st |-> "fetch", at |-> worker[i].at,
                     local_matches |-> worker[i].local_matches
                                          + Cardinality(Mask(worker[i].at)),
                     local_chunks |-> worker[i].local_chunks
                                         \o Kept(worker[i].at)]
    <2>1. worker' = [worker EXCEPT ![i] = w]
      BY <1>2 DEF ScanChunk
    <2>2. /\ w.st = "fetch"
          /\ w.local_chunks = worker[i].local_chunks \o Kept(worker[i].at)
      OBVIOUS
    <2> HIDE DEF w
    <2>3. worker'[i] = w
      BY <2>1 DEF TypeOK
    <2> QED
      BY <1>2, <2>2, <2>3 DEF ScanChunk, At, atomics
  <1>3. CASE MergeMatches(i)
    BY <1>3 DEF MergeMatches, At, TypeOK, WorkerStates
  <1>4. CASE ClaimSlot(i)
    BY <1>4 DEF ClaimSlot, At, TypeOK, WorkerStates
  <1>6. CASE WorkerEnd(i)
    BY <1>6 DEF WorkerEnd, At, TypeOK, WorkerStates, atomics
  <1>5. CASE StoreResult(i)
    <2>1. worker[i].st = "store" /\ worker[i].local_chunks # <<>>
      BY <1>5 DEF StoreResult, At, MainInv
    <2>2. /\ worker'[i].st = "merge_chunks"
          /\ worker'[i].local_chunks = Tail(worker[i].local_chunks)
      BY <1>5 DEF StoreResult, TypeOK, WorkerStates
    <2>3. /\ chunk_results' = IF worker[i].at < num_chunks
                              THEN [chunk_results EXCEPT
                                       ![worker[i].at] =
                                           Head(worker[i].local_chunks)]
                              ELSE chunk_results
          /\ UNCHANGED <<chunk_counter, chunk_results_idx>>
      BY <1>5 DEF StoreResult, atomics
    <2> QED
      BY <2>1, <2>2, <2>3
  <1> QED
    BY <1>1, <1>2, <1>3, <1>4, <1>5, <1>6 DEF Worker

\* A step that touches no result and no slot.
LEMMA PlacedKept ==
    ASSUME [Next]_vars, NEW g, Placed(g),
           \A c \in Ends : c < chunk_counter' <=> c < chunk_counter,
           \A c \in Ends : Busy(c)' <=> Busy(c),
           UNCHANGED <<chunk_results_idx, chunk_results>>,
           \A i \in ThreadIds :
               /\ worker'[i].local_chunks = worker[i].local_chunks
               /\ worker'[i].st = "store" <=> worker[i].st = "store"
               /\ worker[i].st = "store" => worker'[i].at = worker[i].at
    PROVE  Placed(g)'
  <1>1. /\ Ends' = Ends /\ ThreadIds' = ThreadIds /\ num_chunks' = num_chunks
        /\ \A c : Result(c)' = Result(c)
        /\ \A i \in ThreadIds : LocalPos(i)' = LocalPos(i)
    BY EndsFrozen DEF LocalPos
  <1>2. ClaimedSlots(g)'
    BY <1>1 DEF Placed, ClaimedSlots
  <1>3. SlotsUsed(g)'
    BY <1>1 DEF Placed, SlotsUsed
  <1>4. HeldResults(g)'
    BY <1>1 DEF Placed, HeldResults
  <1>5. HeldOnce'
    BY <1>1 DEF Placed, HeldOnce
  <1>6. NoneLost(g)'
    BY <1>1 DEF Placed, NoneLost
  <1>7. Unclaimed'
    BY <1>1 DEF Placed, Unclaimed, EmptyResult
  <1> QED
    BY <1>2, <1>3, <1>4, <1>5, <1>6, <1>7 DEF Placed

\* A chunk is claimed.
LEMMA PlacedFetch ==
    ASSUME [Next]_vars, TypeOK, num_chunks > 0, NEW g, Placed(g),
           NEW i \in ThreadIds,
           \A j \in ThreadIds : j # i => worker'[j] = worker[j],
           worker[i].st = "fetch", worker'[i].st = "scan",
           worker'[i].at = chunk_counter, chunk_counter' = chunk_counter + 1,
           worker'[i].local_chunks = worker[i].local_chunks,
           UNCHANGED <<chunk_results_idx, chunk_results>>
    PROVE  Placed(g)'
  <1>1. /\ Ends' = Ends /\ ThreadIds' = ThreadIds /\ num_chunks' = num_chunks
        /\ \A c : Result(c)' = Result(c)
        /\ \A j \in ThreadIds : LocalPos(j)' = LocalPos(j)
    BY EndsFrozen DEF LocalPos
  <1>2. chunk_counter \in Nat /\ \A c \in Ends : c \in Nat
    BY EndsAreChunks
  <1>3. \A c \in Ends : Busy(c)' <=> Busy(c) \/ c = chunk_counter
    BY <1>1 DEF Busy, Scanning
  <1>4. \A c \in Ends : c < chunk_counter' <=> c < chunk_counter \/ c = chunk_counter
    BY <1>2
  <1>5. \A j \in ThreadIds : /\ worker'[j].local_chunks = worker[j].local_chunks
                             /\ worker'[j].st = "store" <=> worker[j].st = "store"
                             /\ worker[j].st = "store" => worker'[j].at = worker[j].at
    OBVIOUS
  <1>6. \A c \in Ends : c < chunk_counter /\ ~Busy(c) =>
            c < chunk_counter' /\ ~Busy(c)'
    BY <1>2, <1>3, <1>4
  <1>7. ClaimedSlots(g)'
    BY <1>1, <1>5, <1>6 DEF Placed, ClaimedSlots
  <1>8. SlotsUsed(g)'
    BY <1>1 DEF Placed, SlotsUsed
  <1>9. HeldResults(g)'
    BY <1>1, <1>5, <1>6 DEF Placed, HeldResults
  <1>10. HeldOnce'
    BY <1>1, <1>5 DEF Placed, HeldOnce
  <1>11. NoneLost(g)'
    BY <1>1, <1>3, <1>4, <1>5 DEF Placed, NoneLost
  <1>12. Unclaimed'
    BY <1>1 DEF Placed, Unclaimed, EmptyResult
  <1> QED
    BY <1>7, <1>8, <1>9, <1>10, <1>11, <1>12 DEF Placed

\* An end has been scanned: its mask is held from now on.
LEMMA PlacedScan ==
    ASSUME [Next]_vars, TypeOK, ClaimInv, num_chunks > 0,
           NEW g \in Slots, Placed(g),
           NEW i \in ThreadIds,
           \A j \in ThreadIds : j # i => worker'[j] = worker[j],
           worker[i].st = "scan", worker'[i].st = "fetch",
           NEW e \in Ends, e = worker[i].at,
           worker'[i].local_chunks = Append(worker[i].local_chunks, Result(e)),
           UNCHANGED <<chunk_counter, chunk_results_idx, chunk_results>>
    PROVE  Placed(g)'
  <1> DEFINE n == Len(worker[i].local_chunks)
             s == worker[i].local_chunks
             u == worker'[i].local_chunks
  <1>1. /\ Ends' = Ends /\ ThreadIds' = ThreadIds /\ num_chunks' = num_chunks
        /\ \A c : Result(c)' = Result(c)
        /\ \A j \in ThreadIds : j # i => LocalPos(j)' = LocalPos(j)
    BY EndsFrozen DEF LocalPos
  <1>2. /\ n \in Nat
        /\ LocalPos(i) = 1 .. n /\ LocalPos(i)' = 1 .. n + 1
        /\ \A k \in 1 .. n : u[k] = s[k]
        /\ u[n + 1] = Result(e)
    <2>1. s \in Seq(Results) /\ u = Append(s, Result(e))
      BY EndsAreChunks
    <2> HIDE DEF s, u
    <2>2. /\ Len(s) \in Nat /\ Len(u) = Len(s) + 1
          /\ \A k \in 1 .. Len(s) : u[k] = s[k]
          /\ u[Len(s) + 1] = Result(e)
      BY <2>1
    <2> QED
      BY <2>2 DEF LocalPos, s, u
  <1>20. ASSUME NEW j \in ThreadIds, NEW k \in LocalPos(j)
         PROVE  /\ k \in LocalPos(j)'
                /\ worker'[j].local_chunks[k] = worker[j].local_chunks[k]
    <2>1. CASE j = i
      <3>1. k \in 1 .. n /\ k \in 1 .. n + 1
        BY <1>2, <1>20, <2>1
      <3> QED
        BY <1>2, <2>1, <3>1
    <2>2. CASE j # i
      BY <1>1, <1>20, <2>2
    <2> QED
      BY <2>1, <2>2
  <1>21. ASSUME NEW j \in ThreadIds, NEW k \in LocalPos(j)', ~(j = i /\ k = n + 1)
         PROVE  k \in LocalPos(j)
    <2>1. CASE j = i
      <3>1. k \in 1 .. n + 1 /\ k # n + 1
        BY <1>2, <1>21, <2>1
      <3>2. k \in 1 .. n
        BY <1>2, <3>1
      <3> QED
        BY <1>2, <2>1, <3>2
    <2>2. CASE j # i
      BY <1>1, <1>21, <2>2
    <2> QED
      BY <2>1, <2>2
  <1>3. e < chunk_counter /\ Busy(e)
    BY DEF ClaimInv, Scanning, Busy
  <1>4. ~Busy(e)'
    BY <1>1 DEF Busy, Scanning, ClaimInv, ClaimsAreExclusive
  <1>5. \A c \in Ends : c # e => (Busy(c)' <=> Busy(c))
    BY <1>1 DEF Busy, Scanning
  <1>6. g[e] = -1
    BY <1>3 DEF Placed, ClaimedSlots
  <1>7. \A j \in ThreadIds : \A k \in LocalPos(j) :
            worker[j].local_chunks[k] # Result(e)
    BY <1>3, ResultsDiffer DEF Placed, HeldResults
  <1> HIDE DEF n, s, u
  <1>8. ClaimedSlots(g)'
    <2>1. SUFFICES ASSUME NEW c \in Ends, g[c] # -1
                   PROVE  /\ c < chunk_counter /\ ~Busy(c)'
                          /\ g[c] < chunk_results_idx /\ g[c] < num_chunks
                          /\ \/ chunk_results[g[c]] = Result(c)
                             \/ \E j \in ThreadIds :
                                   /\ worker'[j].st = "store"
                                   /\ worker'[j].at = g[c]
                                   /\ Head(worker'[j].local_chunks) = Result(c)
      BY <1>1 DEF ClaimedSlots
    <2>2. /\ c < chunk_counter /\ ~Busy(c)
          /\ g[c] < chunk_results_idx /\ g[c] < num_chunks
          /\ \/ chunk_results[g[c]] = Result(c)
             \/ \E j \in ThreadIds : /\ worker[j].st = "store"
                                     /\ worker[j].at = g[c]
                                     /\ Head(worker[j].local_chunks) = Result(c)
      BY <2>1 DEF Placed, ClaimedSlots
    <2>3. c # e
      BY <1>6, <2>1
    <2> QED
      BY <1>5, <2>2, <2>3
  <1>9. SlotsUsed(g)'
    BY <1>1 DEF Placed, SlotsUsed
  <1>10. HeldResults(g)'
    <2>1. SUFFICES ASSUME NEW j \in ThreadIds, NEW k \in LocalPos(j)'
                   PROVE  \E c \in Ends :
                              /\ worker'[j].local_chunks[k] = Result(c)
                              /\ c < chunk_counter /\ ~Busy(c)'
                              /\ g[c] = IF worker'[j].st = "store" /\ k = 1
                                        THEN worker'[j].at ELSE -1
      BY <1>1 DEF HeldResults
    <2>2. CASE j = i /\ k = n + 1
      BY <1>2, <1>3, <1>4, <1>6, <2>2 DEF u
    <2>3. CASE ~(j = i /\ k = n + 1)
      <3>1. k \in LocalPos(j) /\ worker'[j].local_chunks[k] = worker[j].local_chunks[k]
        BY <1>20, <1>21, <2>1, <2>3
      <3>2. PICK c \in Ends :
                /\ worker[j].local_chunks[k] = Result(c)
                /\ c < chunk_counter /\ ~Busy(c)
                /\ g[c] = IF worker[j].st = "store" /\ k = 1
                          THEN worker[j].at ELSE -1
        BY <3>1 DEF Placed, HeldResults
      <3>3. c # e
        BY <1>7, <3>1, <3>2
      <3> QED
        BY <1>5, <3>1, <3>2, <3>3
    <2> QED
      BY <2>2, <2>3
  <1>11. HeldOnce'
    <2>1. SUFFICES ASSUME NEW j \in ThreadIds, NEW h \in ThreadIds,
                          NEW k \in LocalPos(j)', NEW m \in LocalPos(h)',
                          worker'[j].local_chunks[k] = worker'[h].local_chunks[m]
                   PROVE  j = h /\ k = m
      BY <1>1 DEF HeldOnce
    <2>2. ASSUME NEW a \in ThreadIds, NEW b \in LocalPos(a)'
          PROVE  \/ a = i /\ b = n + 1 /\ worker'[a].local_chunks[b] = Result(e)
                 \/ /\ b \in LocalPos(a)
                    /\ worker'[a].local_chunks[b] = worker[a].local_chunks[b]
                    /\ worker'[a].local_chunks[b] # Result(e)
      BY SMTT(30), <1>2, <1>7, <1>20, <1>21, <2>2 DEF u
    <2> QED
      BY <2>1, <2>2 DEF Placed, HeldOnce
  <1>12. NoneLost(g)'
    <2>1. SUFFICES ASSUME NEW c \in Ends, c < chunk_counter, g[c] = -1, ~Busy(c)'
                   PROVE  \E j \in ThreadIds : \E k \in LocalPos(j)' :
                              worker'[j].local_chunks[k] = Result(c)
      BY <1>1 DEF NoneLost
    <2>2. CASE c = e
      <3>1. n + 1 \in LocalPos(i)'
        BY <1>2
      <3> QED
        BY <1>2, <2>2, <3>1 DEF u
    <2>3. CASE c # e
      <3>1. PICK j \in ThreadIds : \E k \in LocalPos(j) :
                worker[j].local_chunks[k] = Result(c)
        BY <1>5, <2>1, <2>3 DEF Placed, NoneLost
      <3>2. PICK k \in LocalPos(j) : worker[j].local_chunks[k] = Result(c)
        BY <3>1
      <3>3. k \in LocalPos(j)' /\ worker'[j].local_chunks[k] = worker[j].local_chunks[k]
        BY <1>20
      <3> QED
        BY <3>2, <3>3
    <2> QED
      BY <2>2, <2>3
  <1>13. Unclaimed'
    BY <1>1 DEF Placed, Unclaimed, EmptyResult
  <1> QED
    BY <1>8, <1>9, <1>10, <1>11, <1>12, <1>13 DEF Placed

\* A slot is claimed for the first mask a worker holds.
LEMMA PlacedClaim ==
    ASSUME [Next]_vars, TypeOK, num_chunks > 0,
           NEW g \in Slots, Placed(g),
           NEW i \in ThreadIds,
           \A j \in ThreadIds : j # i => worker'[j] = worker[j],
           worker[i].st = "merge_chunks", worker'[i].st = "store",
           worker[i].local_chunks # <<>>,
           worker'[i].local_chunks = worker[i].local_chunks,
           worker'[i].at = chunk_results_idx,
           chunk_results_idx' = chunk_results_idx + 1,
           UNCHANGED <<chunk_counter, chunk_results>>
    PROVE  \E f \in Slots : Placed(f)'
  <1>1. /\ Ends' = Ends /\ ThreadIds' = ThreadIds /\ num_chunks' = num_chunks
        /\ \A c : Result(c)' = Result(c)
        /\ \A j \in ThreadIds : LocalPos(j)' = LocalPos(j)
        /\ \A j \in ThreadIds : worker'[j].local_chunks = worker[j].local_chunks
    BY EndsFrozen DEF LocalPos
  <1>2. /\ num_chunks \in Nat \ {0} /\ chunk_results_idx \in Nat
        /\ \A c \in Ends : c \in Nat /\ c < num_chunks
        /\ \A c \in Ends : g[c] \in Nat \cup {-1}
    BY EndsAreChunks DEF Slots
  <1>3. \A c \in Ends : Busy(c)' <=> Busy(c)
    BY <1>1 DEF Busy, Scanning
  <1>4. /\ 1 \in LocalPos(i)
        /\ Head(worker[i].local_chunks) = worker[i].local_chunks[1]
    <2>1. worker[i].local_chunks \in Seq(Results)
      BY EndsAreChunks
    <2>2. Len(worker[i].local_chunks) \in Nat /\ Len(worker[i].local_chunks) # 0
      BY <2>1
    <2> QED
      BY <2>1, <2>2 DEF LocalPos
  <1>5. PICK c \in Ends : /\ worker[i].local_chunks[1] = Result(c)
                          /\ c < chunk_counter /\ ~Busy(c)
                          /\ g[c] = -1
    <2>1. PICK c \in Ends : /\ worker[i].local_chunks[1] = Result(c)
                            /\ c < chunk_counter /\ ~Busy(c)
                            /\ g[c] = IF worker[i].st = "store" /\ 1 = 1
                                      THEN worker[i].at ELSE -1
      BY <1>4 DEF Placed, HeldResults
    <2> QED
      BY <2>1
  <1>6. \A d \in Ends : g[d] # chunk_results_idx
    BY <1>2 DEF Placed, ClaimedSlots
  <1>7. chunk_results_idx < num_chunks
    <2>1. ASSUME chunk_results_idx >= num_chunks PROVE FALSE
      <3>1. 0 < chunk_results_idx
        BY <1>2, <2>1
      <3>2. PICK d \in Ends : g[d] = 0
        BY <1>2, <3>1 DEF Placed, SlotsUsed
      <3>3. d # c /\ num_chunks # 1
        BY <1>5, <3>2 DEF Ends
      <3>4. 1 \in 0 .. chunk_results_idx - 1
        BY <1>2, <2>1, <3>3
      <3>5. PICK e \in Ends : g[e] = 1
        BY <3>4 DEF Placed, SlotsUsed
      <3> QED
        BY <1>5, <3>2, <3>3, <3>5 DEF Ends
    <2> QED
      BY <1>2, <2>1
  <1>8. PICK f \in Slots : /\ f[c] = chunk_results_idx
                           /\ \A d \in Ends : d # c => f[d] = g[d]
    <2> DEFINE f == [g EXCEPT ![c] = chunk_results_idx]
    <2>1. /\ f \in Slots /\ f[c] = chunk_results_idx
          /\ \A d \in Ends : d # c => f[d] = g[d]
      BY <1>2, <1>5 DEF Slots
    <2> HIDE DEF f
    <2> QED
      BY <2>1
  <1>9. ClaimedSlots(f)'
    <2>1. SUFFICES ASSUME NEW d \in Ends, f[d] # -1
                   PROVE  /\ d < chunk_counter /\ ~Busy(d)'
                          /\ f[d] < chunk_results_idx' /\ f[d] < num_chunks
                          /\ \/ chunk_results[f[d]] = Result(d)
                             \/ \E j \in ThreadIds :
                                   /\ worker'[j].st = "store"
                                   /\ worker'[j].at = f[d]
                                   /\ Head(worker'[j].local_chunks) = Result(d)
      BY <1>1 DEF ClaimedSlots
    <2>2. CASE d = c
      BY <1>1, <1>2, <1>3, <1>4, <1>5, <1>7, <1>8, <2>2
    <2>3. CASE d # c
      <3>1. /\ d < chunk_counter /\ ~Busy(d)
            /\ g[d] < chunk_results_idx /\ g[d] < num_chunks
            /\ \/ chunk_results[g[d]] = Result(d)
               \/ \E j \in ThreadIds : /\ worker[j].st = "store"
                                       /\ worker[j].at = g[d]
                                       /\ Head(worker[j].local_chunks) = Result(d)
        BY <1>8, <2>1, <2>3 DEF Placed, ClaimedSlots
      <3>2. f[d] = g[d] /\ g[d] < chunk_results_idx'
        BY <1>2, <1>8, <2>3, <3>1
      <3> QED
        BY <1>3, <3>1, <3>2
    <2> QED
      BY <2>2, <2>3
  <1>10. SlotsUsed(f)'
    <2>1. ASSUME NEW s \in 0 .. chunk_results_idx' - 1
          PROVE  \E d \in Ends : f[d] = s
      <3>1. CASE s = chunk_results_idx
        BY <1>8, <3>1
      <3>2. CASE s # chunk_results_idx
        <4>1. s \in 0 .. chunk_results_idx - 1
          BY <1>2, <2>1, <3>2
        <4>2. PICK d \in Ends : g[d] = s
          BY <4>1 DEF Placed, SlotsUsed
        <4>3. d # c
          BY <1>5, <4>1, <4>2
        <4> QED
          BY <1>8, <4>2, <4>3
      <3> QED
        BY <3>1, <3>2
    <2>2. ASSUME NEW d \in Ends, NEW e \in Ends, f[d] = f[e], f[d] # -1
          PROVE  d = e
      BY <1>6, <1>8, <2>2 DEF Placed, SlotsUsed
    <2> QED
      BY <1>1, <2>1, <2>2 DEF SlotsUsed
  <1>11. HeldResults(f)'
    <2>1. SUFFICES ASSUME NEW j \in ThreadIds, NEW k \in LocalPos(j)
                   PROVE  \E d \in Ends :
                              /\ worker'[j].local_chunks[k] = Result(d)
                              /\ d < chunk_counter /\ ~Busy(d)'
                              /\ f[d] = IF worker'[j].st = "store" /\ k = 1
                                        THEN worker'[j].at ELSE -1
      BY <1>1 DEF HeldResults
    <2>2. CASE j = i /\ k = 1
      BY <1>1, <1>3, <1>5, <1>8, <2>2
    <2>3. CASE ~(j = i /\ k = 1)
      <3>1. PICK d \in Ends :
                /\ worker[j].local_chunks[k] = Result(d)
                /\ d < chunk_counter /\ ~Busy(d)
                /\ g[d] = IF worker[j].st = "store" /\ k = 1
                          THEN worker[j].at ELSE -1
        BY <2>1 DEF Placed, HeldResults
      <3>2. worker[j].local_chunks[k] # worker[i].local_chunks[1]
        BY <1>4, <2>1, <2>3 DEF Placed, HeldOnce
      <3>3. d # c
        BY <1>5, <3>1, <3>2
      <3>4. (worker'[j].st = "store" /\ k = 1) <=> (worker[j].st = "store" /\ k = 1)
        BY <2>3
      <3>5. worker[j].st = "store" => worker'[j].at = worker[j].at
        OBVIOUS
      <3> QED
        BY <1>1, <1>3, <1>8, <3>1, <3>3, <3>4, <3>5
    <2> QED
      BY <2>2, <2>3
  <1>12. HeldOnce'
    BY <1>1 DEF Placed, HeldOnce
  <1>13. NoneLost(f)'
    <2>1. SUFFICES ASSUME NEW d \in Ends, d < chunk_counter, f[d] = -1
                   PROVE  \/ Busy(d)'
                          \/ \E j \in ThreadIds : \E k \in LocalPos(j) :
                                 worker'[j].local_chunks[k] = Result(d)
      BY <1>1 DEF NoneLost
    <2>2. d # c /\ g[d] = -1
      BY <1>2, <1>8, <2>1
    <2> QED
      BY <1>1, <1>3, <2>1, <2>2 DEF Placed, NoneLost
  <1>14. Unclaimed'
    BY <1>1, <1>2 DEF Placed, Unclaimed, EmptyResult
  <1>15. Placed(f)'
    BY <1>9, <1>10, <1>11, <1>12, <1>13, <1>14 DEF Placed
  <1>16. Slots' = Slots
    BY EndsFrozen
  <1> QED
    BY <1>8, <1>15, <1>16

\* A mask is stored in its slot.
LEMMA PlacedStore ==
    ASSUME [Next]_vars, TypeOK, num_chunks > 0,
           NEW g \in Slots, Placed(g),
           NEW i \in ThreadIds,
           \A j \in ThreadIds : j # i => worker'[j] = worker[j],
           worker[i].st = "store", worker'[i].st = "merge_chunks",
           worker[i].local_chunks # <<>>,
           worker'[i].local_chunks = Tail(worker[i].local_chunks),
           chunk_results' = IF worker[i].at < num_chunks
                            THEN [chunk_results EXCEPT
                                     ![worker[i].at] =
                                         Head(worker[i].local_chunks)]
                            ELSE chunk_results,
           UNCHANGED <<chunk_counter, chunk_results_idx>>
    PROVE  Placed(g)'
  <1> DEFINE n == Len(worker[i].local_chunks)
             at == worker[i].at
  <1>1. /\ Ends' = Ends /\ ThreadIds' = ThreadIds /\ num_chunks' = num_chunks
        /\ \A c : Result(c)' = Result(c)
        /\ \A j \in ThreadIds : j # i => LocalPos(j)' = LocalPos(j)
    BY EndsFrozen DEF LocalPos
  <1>2. /\ num_chunks \in Nat \ {0} /\ chunk_results_idx \in Nat
        /\ \A c \in Ends : c \in Nat /\ c < num_chunks
        /\ \A c \in Ends : g[c] \in Nat \cup {-1}
        /\ at \in Nat
    BY EndsAreChunks DEF Slots
  <1>3. \A c \in Ends : Busy(c)' <=> Busy(c)
    BY <1>1 DEF Busy, Scanning
  <1>4. /\ n \in Nat \ {0}
        /\ LocalPos(i) = 1 .. n /\ LocalPos(i)' = 1 .. n - 1
        /\ Head(worker[i].local_chunks) = worker[i].local_chunks[1]
        /\ \A k \in 1 .. n - 1 :
               worker'[i].local_chunks[k] = worker[i].local_chunks[k + 1]
    <2>1. worker[i].local_chunks \in Seq(Results)
      BY EndsAreChunks
    <2>2. PICK s \in Seq(Results) : s = worker[i].local_chunks
      BY <2>1
    <2>3. /\ s # <<>> /\ Len(s) \in Nat \ {0} /\ Len(Tail(s)) = Len(s) - 1
          /\ Head(s) = s[1]
          /\ \A k \in 1 .. Len(s) - 1 : Tail(s)[k] = s[k + 1]
      BY <2>2
    <2> QED
      BY <2>2, <2>3 DEF LocalPos
  <1>5. PICK c \in Ends : /\ worker[i].local_chunks[1] = Result(c)
                          /\ c < chunk_counter /\ ~Busy(c)
                          /\ g[c] = at
    <2>1. 1 \in LocalPos(i)
      BY <1>4
    <2>2. PICK c \in Ends : /\ worker[i].local_chunks[1] = Result(c)
                            /\ c < chunk_counter /\ ~Busy(c)
                            /\ g[c] = IF worker[i].st = "store" /\ 1 = 1
                                      THEN worker[i].at ELSE -1
      BY <2>1 DEF Placed, HeldResults
    <2> QED
      BY <2>2
  <1>6. at < chunk_results_idx /\ at < num_chunks
    BY <1>2, <1>5 DEF Placed, ClaimedSlots
  <1>7. /\ DOMAIN chunk_results = 0 .. num_chunks - 1
        /\ at \in DOMAIN chunk_results
    BY <1>2, <1>6 DEF Placed, Unclaimed
  <1>8. /\ chunk_results' = [chunk_results EXCEPT ![at] = Result(c)]
        /\ DOMAIN chunk_results' = DOMAIN chunk_results
        /\ chunk_results'[at] = Result(c)
        /\ \A s \in DOMAIN chunk_results :
               s # at => chunk_results'[s] = chunk_results[s]
    BY <1>4, <1>5, <1>6, <1>7
  <1>20. ASSUME NEW j \in ThreadIds, NEW k \in LocalPos(j)'
         PROVE  \E m \in LocalPos(j) :
                    /\ worker'[j].local_chunks[k] = worker[j].local_chunks[m]
                    /\ m = IF j = i THEN k + 1 ELSE k
                    /\ k \in Int
    <2>1. CASE j = i
      <3>1. k \in 1 .. n - 1
        BY <1>4, <1>20, <2>1
      <3>2. k + 1 \in 1 .. n /\ k \in Int
        BY <1>4, <3>1
      <3> QED
        BY <1>4, <2>1, <3>1, <3>2
    <2>2. CASE j # i
      <3>1. k \in LocalPos(j) /\ k \in Int
        BY <1>1, <1>20, <2>2 DEF LocalPos
      <3> QED
        BY <1>1, <2>2, <3>1
    <2> QED
      BY <2>1, <2>2
  <1>21. ASSUME NEW j \in ThreadIds, NEW m \in LocalPos(j), ~(j = i /\ m = 1)
         PROVE  \E k \in LocalPos(j)' :
                    worker'[j].local_chunks[k] = worker[j].local_chunks[m]
    <2>1. CASE j = i
      <3>1. m \in 1 .. n /\ m # 1
        BY <1>4, <1>21, <2>1
      <3>2. m - 1 \in 1 .. n - 1 /\ (m - 1) + 1 = m
        BY <1>4, <3>1
      <3> QED
        BY ZenonT(30), <1>4, <2>1, <3>2
    <2>2. CASE j # i
      BY <1>1, <1>21, <2>2
    <2> QED
      BY <2>1, <2>2
  <1> HIDE DEF n, at
  <1>9. ClaimedSlots(g)'
    <2>1. SUFFICES ASSUME NEW d \in Ends, g[d] # -1
                   PROVE  /\ d < chunk_counter /\ ~Busy(d)'
                          /\ g[d] < chunk_results_idx /\ g[d] < num_chunks
                          /\ \/ chunk_results'[g[d]] = Result(d)
                             \/ \E j \in ThreadIds :
                                   /\ worker'[j].st = "store"
                                   /\ worker'[j].at = g[d]
                                   /\ Head(worker'[j].local_chunks) = Result(d)
      BY <1>1 DEF ClaimedSlots
    <2>2. /\ d < chunk_counter /\ ~Busy(d)
          /\ g[d] < chunk_results_idx /\ g[d] < num_chunks
          /\ \/ chunk_results[g[d]] = Result(d)
             \/ \E j \in ThreadIds : /\ worker[j].st = "store"
                                     /\ worker[j].at = g[d]
                                     /\ Head(worker[j].local_chunks) = Result(d)
      BY <2>1 DEF Placed, ClaimedSlots
    <2>3. CASE d = c
      BY <1>3, <1>5, <1>8, <2>2, <2>3
    <2>4. CASE d # c
      <3>1. g[d] # at
        BY <1>5, <2>1, <2>4 DEF Placed, SlotsUsed
      <3>2. g[d] \in DOMAIN chunk_results
        BY <1>2, <1>7, <2>1, <2>2
      <3>3. chunk_results'[g[d]] = chunk_results[g[d]]
        BY <1>8, <3>1, <3>2
      <3> QED
        BY <1>3, <2>2, <3>1, <3>3 DEF at
    <2> QED
      BY <2>3, <2>4
  <1>10. SlotsUsed(g)'
    BY <1>1 DEF Placed, SlotsUsed
  <1>11. HeldResults(g)'
    <2>1. SUFFICES ASSUME NEW j \in ThreadIds, NEW k \in LocalPos(j)'
                   PROVE  \E d \in Ends :
                              /\ worker'[j].local_chunks[k] = Result(d)
                              /\ d < chunk_counter /\ ~Busy(d)'
                              /\ g[d] = IF worker'[j].st = "store" /\ k = 1
                                        THEN worker'[j].at ELSE -1
      BY <1>1 DEF HeldResults
    <2>2. PICK m \in LocalPos(j) :
              /\ worker'[j].local_chunks[k] = worker[j].local_chunks[m]
              /\ m = IF j = i THEN k + 1 ELSE k
              /\ k \in Int
      BY <1>20, <2>1
    <2>3. PICK d \in Ends :
              /\ worker[j].local_chunks[m] = Result(d)
              /\ d < chunk_counter /\ ~Busy(d)
              /\ g[d] = IF worker[j].st = "store" /\ m = 1
                        THEN worker[j].at ELSE -1
      BY <2>2 DEF Placed, HeldResults
    <2>4. CASE j = i
      <3>1. m # 1
        <4>1. k \in 1 .. n - 1
          BY <1>4, <2>1, <2>4
        <4> QED
          BY <1>4, <2>2, <2>4, <4>1
      <3> QED
        BY <1>3, <2>2, <2>3, <2>4, <3>1
    <2>5. CASE j # i
      BY <1>3, <2>2, <2>3, <2>5
    <2> QED
      BY <2>4, <2>5
  <1>12. HeldOnce'
    <2>1. SUFFICES ASSUME NEW j \in ThreadIds, NEW h \in ThreadIds,
                          NEW k \in LocalPos(j)', NEW m \in LocalPos(h)',
                          worker'[j].local_chunks[k] = worker'[h].local_chunks[m]
                   PROVE  j = h /\ k = m
      BY <1>1 DEF HeldOnce
    <2>2. PICK a \in LocalPos(j) :
              /\ worker'[j].local_chunks[k] = worker[j].local_chunks[a]
              /\ a = IF j = i THEN k + 1 ELSE k
              /\ k \in Int
      BY <1>20, <2>1
    <2>3. PICK b \in LocalPos(h) :
              /\ worker'[h].local_chunks[m] = worker[h].local_chunks[b]
              /\ b = IF h = i THEN m + 1 ELSE m
              /\ m \in Int
      BY <1>20, <2>1
    <2>4. j = h /\ a = b
      <3>1. worker[j].local_chunks[a] = worker[h].local_chunks[b]
        BY <2>1, <2>2, <2>3
      <3>2. HeldOnce
        BY DEF Placed
      <3> QED
        BY <3>1, <3>2 DEF HeldOnce
    <2> QED
      BY <2>2, <2>3, <2>4
  <1>13. NoneLost(g)'
    <2>1. SUFFICES ASSUME NEW d \in Ends, d < chunk_counter, g[d] = -1, ~Busy(d)
                   PROVE  \E j \in ThreadIds : \E k \in LocalPos(j)' :
                              worker'[j].local_chunks[k] = Result(d)
      BY <1>1, <1>3 DEF NoneLost
    <2>2. PICK j \in ThreadIds : \E m \in LocalPos(j) :
              worker[j].local_chunks[m] = Result(d)
      BY <2>1 DEF Placed, NoneLost
    <2>3. PICK m \in LocalPos(j) : worker[j].local_chunks[m] = Result(d)
      BY <2>2
    <2>4. d # c
      BY <1>2, <1>5, <2>1
    <2>5. ~(j = i /\ m = 1)
      BY <1>5, <2>3, <2>4, ResultsDiffer
    <2> QED
      BY <1>21, <2>3, <2>5
  <1>14. Unclaimed'
    <2>1. ASSUME NEW s \in DOMAIN chunk_results, s >= chunk_results_idx
          PROVE  chunk_results'[s] = EmptyResult
      <3>1. s # at
        BY <1>2, <1>6, <1>7, <2>1
      <3> QED
        BY <1>8, <2>1, <3>1 DEF Placed, Unclaimed
    <2> QED
      BY <1>1, <1>7, <1>8, <2>1 DEF Unclaimed, EmptyResult
  <1> QED
    BY <1>9, <1>10, <1>11, <1>12, <1>13, <1>14 DEF Placed

\* The calling thread touches no result and no slot, but to return nothing.
LEMMA MainKeepsResults ==
    ASSUME TypeOK, MainInv, Main \/ Throws \/ UNCHANGED vars,
           kernel' # "nullptr"
    PROVE  /\ kernel # "nullptr"
           /\ UNCHANGED <<chunk_results_idx, chunk_results>>
           /\ \A i \in ThreadIds :
                  worker'[i].local_chunks = worker[i].local_chunks
  <1>1. CASE Compile
    BY <1>1 DEF Compile, MainInv, atomics
  <1>2. CASE ReturnNothing
    BY <1>2 DEF ReturnNothing, MainInv
  <1>3. CASE Spawn
    <2>1. \A i \in ThreadIds : worker'[i].local_chunks = worker[i].local_chunks
      BY <1>3 DEF Spawn, TypeOK, WorkerStates
    <2> QED
      BY <1>3, <2>1 DEF Spawn, atomics
  <1>4. CASE SpawnEnd \/ Join \/ Return \/ Throws
    BY <1>4 DEF SpawnEnd, Join, Return, Throws, atomics
  <1>5. CASE UNCHANGED vars
    BY <1>5 DEF vars, main, atomics
  <1> QED
    BY <1>1, <1>2, <1>3, <1>4, <1>5 DEF Main

\* Nothing is claimed at the start.
LEMMA SlotInit == Init => SlotInv
  <1> SUFFICES ASSUME Init, num_chunks > 0 PROVE SlotInv
    BY DEF SlotInv
  <1>1. num_chunks \in Nat
    BY StealingAssumption, DivBounds DEF Init, num_chunks
  <1>2. PICK g \in Slots : \A c \in Ends : g[c] = -1
    <2> DEFINE g == [c \in Ends |-> -1]
    <2>1. g \in Slots /\ \A c \in Ends : g[c] = -1
      BY DEF Slots
    <2> HIDE DEF g
    <2> QED
      BY <2>1
  <1>3. \A i \in ThreadIds : /\ worker[i].local_chunks = <<>>
                             /\ worker[i].st = "idle"
                             /\ LocalPos(i) = {}
    <2>1. \A i \in ThreadIds : worker[i] = idle
      BY DEF Init
    <2>2. idle.local_chunks = <<>> /\ idle.st = "idle"
      BY DEF idle
    <2>3. 1 .. Len(<<>>) = {}
      OBVIOUS
    <2> QED
      BY <2>1, <2>2, <2>3 DEF LocalPos
  <1>4. /\ chunk_counter = 0 /\ chunk_results_idx = 0
        /\ chunk_results = NoResults
    BY DEF Init
  <1>5. ClaimedSlots(g)
    BY <1>2 DEF ClaimedSlots
  <1>6. SlotsUsed(g)
    <2>1. \A s \in 0 .. chunk_results_idx - 1 : FALSE
      BY <1>4
    <2> QED
      BY <1>2, <2>1 DEF SlotsUsed
  <1>7. HeldResults(g) /\ HeldOnce
    BY <1>3 DEF HeldResults, HeldOnce
  <1>8. NoneLost(g)
    <2>1. \A c \in Ends : ~(c < 0)
      BY <1>1 DEF Ends
    <2> QED
      BY <1>4, <2>1 DEF NoneLost
  <1>9. Unclaimed
    BY <1>4 DEF Unclaimed, NoResults
  <1> QED
    BY <1>2, <1>3, <1>5, <1>6, <1>7, <1>8, <1>9 DEF SlotInv, Placed

\* A worker's step leaves every mask somewhere.
LEMMA SlotWorker ==
    ASSUME [Next]_vars, TypeOK, MainInv, ClaimInv, num_chunks > 0,
           NEW g \in Slots, Placed(g),
           NEW i \in ThreadIds, Worker(i)
    PROVE  \E f \in Slots : Placed(f)'
  <1> DEFINE w == worker[i]
             v == worker'[i]
  <1>1. /\ \A j \in ThreadIds : j # i => worker'[j] = worker[j]
        /\ ThreadIds' = ThreadIds /\ Ends' = Ends /\ Slots' = Slots
    BY WorkerEffect, EndsFrozen
  <1>2. /\ num_chunks \in Nat \ {0} /\ chunk_counter \in Nat
        /\ \A c \in Ends : c \in Nat /\ c < num_chunks
        /\ w.local_chunks \in Seq(Results)
    BY EndsAreChunks
  <1>3. ASSUME v.local_chunks = w.local_chunks,
               UNCHANGED <<chunk_results_idx, chunk_results>>,
               v.st # "store", w.st # "store",
               \A c \in Ends : c < chunk_counter' <=> c < chunk_counter,
               \A c \in Ends : Busy(c)' <=> Busy(c)
        PROVE  Placed(g)'
    <2>1. \A j \in ThreadIds :
               /\ worker'[j].local_chunks = worker[j].local_chunks
               /\ worker'[j].st = "store" <=> worker[j].st = "store"
               /\ worker[j].st = "store" => worker'[j].at = worker[j].at
      BY <1>1, <1>3
    <2> QED
      BY <1>3, <2>1, PlacedKept
  <1>4. ASSUME v.st # "scan", w.st # "scan"
        PROVE  \A c \in Ends : Busy(c)' <=> Busy(c)
    BY <1>1, <1>4 DEF Busy, Scanning
  <1>5. CASE w.st = "fetch" /\ v.st = "scan"
    <2>1. /\ v.at = chunk_counter /\ chunk_counter' = chunk_counter + 1
          /\ v.local_chunks = w.local_chunks
          /\ UNCHANGED <<chunk_results_idx, chunk_results>>
      BY <1>5, SlotCases
    <2>2. Placed(g)'
      BY <1>1, <1>5, <2>1, PlacedFetch
    <2> QED
      BY <1>1, <2>2
  <1>6. CASE w.st = "fetch" /\ v.st = "merge"
    <2>1. /\ chunk_counter >= num_chunks /\ chunk_counter' = chunk_counter + 1
          /\ v.local_chunks = w.local_chunks
          /\ UNCHANGED <<chunk_results_idx, chunk_results>>
      BY <1>6, SlotCases
    <2>2. \A c \in Ends : c < chunk_counter' <=> c < chunk_counter
      BY <1>2, <2>1
    <2>3. Placed(g)'
      BY <1>3, <1>4, <1>6, <2>1, <2>2
    <2> QED
      BY <1>1, <2>3
  <1>7. CASE w.st = "scan" /\ v.st = "fetch"
    <2>1. /\ v.local_chunks = w.local_chunks \o Kept(w.at)
          /\ UNCHANGED <<chunk_counter, chunk_results_idx, chunk_results>>
      BY <1>7, SlotCases
    <2>2. CASE w.at \in Ends
      <3>1. Kept(w.at) = <<Result(w.at)>>
        BY <2>2 DEF Kept, Result, Ends
      <3>2. v.local_chunks = Append(w.local_chunks, Result(w.at))
        <4>1. PICK s \in Seq(Results) : s = w.local_chunks
          BY <1>2
        <4>2. PICK r : r = Result(w.at)
          OBVIOUS
        <4>3. s \o <<r>> = Append(s, r)
          OBVIOUS
        <4> QED
          BY <2>1, <3>1, <4>1, <4>2, <4>3
      <3>3. PICK e \in Ends : e = w.at
        BY <2>2
      <3>4. Placed(g)'
        BY <1>1, <1>7, <2>1, <3>2, <3>3, PlacedScan
      <3> QED
        BY <1>1, <3>4
    <2>3. CASE w.at \notin Ends
      <3>1. Kept(w.at) = <<>>
        BY <2>3 DEF Kept, Ends
      <3>2. v.local_chunks = w.local_chunks
        <4>1. PICK s \in Seq(Results) : s = w.local_chunks
          BY <1>2
        <4>2. s \o <<>> = s
          OBVIOUS
        <4> QED
          BY <2>1, <3>1, <4>1, <4>2
      <3>3. \A c \in Ends : Busy(c)' <=> Busy(c)
        BY <1>1, <1>7, <2>3 DEF Busy, Scanning
      <3>4. Placed(g)'
        BY <1>3, <1>7, <2>1, <3>2, <3>3
      <3> QED
        BY <1>1, <3>4
    <2> QED
      BY <2>2, <2>3
  <1>8. CASE w.st = "merge" /\ v.st = "merge_chunks"
    <2>1. /\ v.local_chunks = w.local_chunks
          /\ UNCHANGED <<chunk_counter, chunk_results_idx, chunk_results>>
      BY <1>8, SlotCases
    <2>2. Placed(g)'
      BY <1>3, <1>4, <1>8, <2>1
    <2> QED
      BY <1>1, <2>2
  <1>9. CASE w.st = "merge_chunks" /\ v.st = "store"
    <2>1. /\ w.local_chunks # <<>> /\ v.local_chunks = w.local_chunks
          /\ v.at = chunk_results_idx
          /\ chunk_results_idx' = chunk_results_idx + 1
          /\ UNCHANGED <<chunk_counter, chunk_results>>
      BY <1>9, SlotCases
    <2> QED
      BY <1>1, <1>9, <2>1, PlacedClaim
  <1>10. CASE w.st = "store" /\ v.st = "merge_chunks"
    <2>1. /\ w.local_chunks # <<>> /\ v.local_chunks = Tail(w.local_chunks)
          /\ chunk_results' =
                 IF w.at < num_chunks
                 THEN [chunk_results EXCEPT ![w.at] = Head(w.local_chunks)]
                 ELSE chunk_results
          /\ UNCHANGED <<chunk_counter, chunk_results_idx>>
      BY <1>10, SlotCases
    <2>2. Placed(g)'
      BY <1>1, <1>10, <2>1, PlacedStore
    <2> QED
      BY <1>1, <2>2
  <1>11. CASE w.st = "merge_chunks" /\ v.st = "done"
    <2>1. /\ v.local_chunks = w.local_chunks
          /\ UNCHANGED <<chunk_counter, chunk_results_idx, chunk_results>>
      BY <1>11, SlotCases
    <2>2. Placed(g)'
      BY <1>3, <1>4, <1>11, <2>1
    <2> QED
      BY <1>1, <2>2
  <1> QED
    BY <1>5, <1>6, <1>7, <1>8, <1>9, <1>10, <1>11, SlotCases

\* Every step leaves every mask somewhere.
LEMMA SlotStep == IInv /\ SlotInv /\ [Next]_vars => SlotInv'
  <1> SUFFICES ASSUME IInv, SlotInv, [Next]_vars,
                      num_chunks > 0, kernel' # "nullptr"
               PROVE  /\ \E f \in Slots : Placed(f)'
                      /\ \A i \in ThreadIds :
                             Done(i)' => worker'[i].local_chunks = <<>>
    BY EndsFrozen DEF SlotInv, Done
  <1>1. TypeOK /\ MainInv /\ ClaimInv
    BY DEF IInv
  <1>2. CASE Main \/ Throws \/ UNCHANGED vars
    <2>1. /\ kernel # "nullptr"
          /\ UNCHANGED <<chunk_results_idx, chunk_results, chunk_counter>>
          /\ \A i \in ThreadIds :
                 /\ worker'[i].local_chunks = worker[i].local_chunks
                 /\ worker'[i].at = worker[i].at
                 /\ \/ worker'[i].st = worker[i].st
                    \/ worker[i].st = "idle" /\ worker'[i].st = "fetch"
      BY <1>1, <1>2, MainKeepsResults, MainKeepsClaims
    <2>2. PICK g \in Slots : Placed(g)
      BY <2>1 DEF SlotInv
    <2>3. \A i \in ThreadIds : Done(i) => worker[i].local_chunks = <<>>
      BY <2>1 DEF SlotInv
    <2>4. ThreadIds' = ThreadIds /\ Slots' = Slots
      BY EndsFrozen
    <2>5. \A c \in Ends : Busy(c)' <=> Busy(c)
      BY <2>1, <2>4 DEF Busy, Scanning
    <2>6. Placed(g)'
      BY <2>1, <2>2, <2>5, PlacedKept
    <2> QED
      BY <2>1, <2>3, <2>4, <2>6 DEF Done
  <1>3. ASSUME NEW i \in ThreadIds, Worker(i)
        PROVE  /\ \E f \in Slots : Placed(f)'
               /\ \A j \in ThreadIds :
                      Done(j)' => worker'[j].local_chunks = <<>>
    <2>1. /\ kernel = "ok"
          /\ \A j \in ThreadIds : j # i => worker'[j] = worker[j]
      BY <1>1, <1>3, WorkerEffect
    <2>2. PICK g \in Slots : Placed(g)
      BY <2>1 DEF SlotInv
    <2>3. \A j \in ThreadIds : Done(j) => worker[j].local_chunks = <<>>
      BY <2>1 DEF SlotInv
    <2>4. \E f \in Slots : Placed(f)'
      BY <1>1, <1>3, <2>2, SlotWorker
    <2>5. worker'[i].st = "done" => worker'[i].local_chunks = <<>>
      BY <1>1, <1>3, SlotCases
    <2> QED
      BY <2>1, <2>3, <2>4, <2>5 DEF Done
  <1> QED
    BY <1>2, <1>3 DEF Next, Finished

\* After the join both masks lie in their slots, and no slot before a mask's
\* carries its chunk's number: the first and the last chunk are found.
LEMMA FoundAfterJoin ==
    ASSUME IInv, SlotInv, pc = "returned", Ran, num_chunks > 0,
           NEW id \in Ends
    PROVE  Lookup(id) = Mask(id)
  <1>1. TypeOK /\ MainInv /\ ClaimInv
    BY DEF IInv
  <1>2. PICK g \in Slots : Placed(g)
    BY DEF SlotInv, Ran
  <1>3. /\ num_chunks \in Nat \ {0} /\ chunk_counter \in Nat
        /\ chunk_results_idx \in Nat
        /\ \A c \in Ends : c \in Nat /\ c < num_chunks
        /\ \A c \in Ends : g[c] \in Nat \cup {-1}
    BY <1>1, EndsAreChunks DEF Slots
  <1>4. 0 \in ThreadIds
    BY <1>1 DEF Ran, ThreadIds, TypeOK
  <1>5. \A i \in ThreadIds : /\ worker[i].st = "done"
                             /\ worker[i].local_chunks = <<>>
                             /\ LocalPos(i) = {}
    <2>1. \A i \in ThreadIds : Done(i)
      BY <1>1 DEF Ran, MainInv
    <2>2. \A i \in ThreadIds : worker[i].local_chunks = <<>>
      BY <2>1 DEF SlotInv, Ran
    <2>3. 1 .. Len(<<>>) = {}
      OBVIOUS
    <2> QED
      BY <2>1, <2>2, <2>3 DEF Done, LocalPos
  <1>6. chunk_counter >= num_chunks
    BY <1>1, <1>4, <1>5 DEF ClaimInv, Left
  <1>7. \A c \in Ends : c < chunk_counter /\ ~Busy(c)
    BY <1>3, <1>5, <1>6 DEF Busy, Scanning
  <1>8. \A c \in Ends : /\ g[c] # -1
                        /\ g[c] < chunk_results_idx /\ g[c] < num_chunks
                        /\ chunk_results[g[c]] = Result(c)
    <2>1. \A c \in Ends : g[c] # -1
      BY <1>2, <1>5, <1>7 DEF Placed, NoneLost
    <2> QED
      BY <1>2, <1>5, <2>1 DEF Placed, ClaimedSlots
  <1> DEFINE slots == {s \in DOMAIN chunk_results :
                           chunk_results[s].chunk_id = id}
  <1>9. DOMAIN chunk_results = 0 .. num_chunks - 1
    BY <1>2 DEF Placed, Unclaimed
  <1>10. \A c : Result(c).chunk_id = c /\ Result(c).result_mask = Mask(c)
    BY DEF Result
  <1>11. g[id] \in slots
    BY <1>3, <1>8, <1>9, <1>10
  <1>12. \A s \in slots : g[id] <= s
    <2>1. SUFFICES ASSUME NEW s \in slots, s < g[id] PROVE FALSE
      BY <1>3, <1>8, <1>9
    <2>2. s \in 0 .. chunk_results_idx - 1
      BY <1>3, <1>8, <1>9, <2>1
    <2>3. PICK d \in Ends : g[d] = s
      BY <1>2, <2>2 DEF Placed, SlotsUsed
    <2>4. d = id
      BY <1>8, <1>10, <2>1, <2>3
    <2> QED
      BY <1>3, <2>1, <2>3, <2>4
  <1>13. slots \subseteq Int
    BY <1>9
  <1> HIDE DEF slots
  <1>14. (CHOOSE i \in slots : \A j \in slots : i <= j) = g[id]
    <2>1. \E i \in slots : \A j \in slots : i <= j
      BY <1>11, <1>12
    <2>2. PICK m : m = CHOOSE i \in slots : \A j \in slots : i <= j
      OBVIOUS
    <2>3. m \in slots /\ \A j \in slots : m <= j
      BY <2>1, <2>2
    <2>4. PICK s \in slots : s = g[id]
      BY <1>11
    <2>5. m \in Int /\ s \in Int /\ m <= s /\ s <= m
      BY <1>12, <1>13, <2>3, <2>4
    <2>6. m = s
      BY <2>5
    <2> QED
      BY <2>2, <2>4, <2>6
  <1>15. Lookup(id) = chunk_results[g[id]].result_mask
    BY <1>11, <1>14 DEF Lookup, slots
  <1> QED
    BY <1>8, <1>10, <1>15

\* The spot check finds the masks of the first and the last chunk for every
\* number of rows and of workers and every order of the merges: no unused slot,
\* and no slot of the other chunk, hides them.
THEOREM SpotCheckRight == Spec => []SpotCheckFinds
  <1>1. IInv /\ SlotInv => SpotCheckFinds
    <2>1. 0 \in Ends /\ num_chunks - 1 \in Ends
      BY DEF Ends
    <2> QED
      BY <2>1, FoundAfterJoin DEF SpotCheckFinds
  <1>2. Init => SlotInv
    BY SlotInit
  <1>3. IInv /\ SlotInv /\ [Next]_vars => SlotInv'
    BY SlotStep
  <1>4. Spec => []SlotInv
    BY <1>2, <1>3, Invariance, PTL DEF Spec
  <1> QED
    BY <1>1, <1>4, Invariance, PTL
=============================================================================
