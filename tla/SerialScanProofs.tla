--------------------------- MODULE SerialScanProofs ---------------------------
(***************************************************************************)
(* Calls of execute on one engine, for every number of callers, chunk      *)
(* size, logic and data: as long as no other caller is inside a chunk at   *)
(* the same time, the engine's shared buffers hold the rows of the chunk a *)
(* kernel is called for, and the sum is exact.                             *)
(***************************************************************************)
EXTENDS SerialScan, FiniteSetTheorems, TLAPS

-----------------------------------------------------------------------------
(* Steps of a call.                                                        *)

OthersGoOn(c) == \A d \in Callers \ {c} : call'[d] = call[d]

SameCall(c) ==
    /\ call'[c].id = call[c].id /\ call'[c].chunk = call[c].chunk
    /\ call'[c].row_count = call[c].row_count
    /\ call'[c].match = call[c].match
    /\ call'[c].total_matches = call[c].total_matches

\* A step within a chunk.
Works(c, pc, i) ==
    /\ call'[c].pc = pc /\ call'[c].i = i
    /\ SameCall(c) /\ OthersGoOn(c)
    /\ UNCHANGED fixed

LEMMA ConstantTypes ==
    /\ Block \in Nat /\ Block >= 1 /\ GatherBytes \in Nat /\ MaxFields \in Nat
    /\ \A l \in Logics :
        /\ Len(l.fields) \in Nat /\ Len(l.fields) <= MaxFields
        /\ DOMAIN l.fields = 1 .. Len(l.fields)
  BY ScanAssumption

\* A fresh call.
LEMMA IdleType == Idle \in CallStates
  BY ConstantTypes DEF Idle, CallStates

LEMMA CallFields ==
    ASSUME NEW k \in CallStates
    PROVE  /\ k.pc \in {"idle", "loop", "gather", "slice", "point"}
           /\ k.id \in Nat /\ k.row_count \in Nat /\ k.match \in SUBSET Nat
           /\ k.chunk \in Nat /\ k.i \in 1 .. MaxFields + 1
           /\ k.total_matches \in Nat /\ k.reach \in Nat
  BY DEF CallStates

\* A call that goes on with the next pc and field.
LEMMA WorksEffect ==
    ASSUME TypeOK, NEW c \in Callers,
           NEW pc \in {"idle", "loop", "gather", "slice", "point"},
           NEW i \in 1 .. MaxFields + 1,
           call' = [call EXCEPT ![c] = [call[c] EXCEPT !.pc = pc, !.i = i]],
           UNCHANGED fixed
    PROVE  /\ call' \in [Callers -> CallStates]
           /\ Works(c, pc, i) /\ call'[c].reach = call[c].reach
  <1>1. PICK k : k = call[c]
    OBVIOUS
  <1>2. k \in CallStates
    BY <1>1 DEF TypeOK
  <1>3. PICK j : j = [k EXCEPT !.pc = pc]
    OBVIOUS
  <1>4. j \in CallStates /\ j.pc = pc
    BY <1>2, <1>3 DEF CallStates
  <1>5. /\ j.id = k.id /\ j.chunk = k.chunk /\ j.row_count = k.row_count
        /\ j.match = k.match /\ j.total_matches = k.total_matches
        /\ j.reach = k.reach
    BY <1>2, <1>3 DEF CallStates
  <1>6. PICK m : m = [j EXCEPT !.i = i]
    OBVIOUS
  <1>7. m \in CallStates /\ m.i = i
    BY <1>4, <1>6 DEF CallStates
  <1>8. /\ m.pc = j.pc /\ m.id = j.id /\ m.chunk = j.chunk
        /\ m.row_count = j.row_count /\ m.match = j.match
        /\ m.total_matches = j.total_matches /\ m.reach = j.reach
    BY <1>4, <1>6 DEF CallStates
  <1>9. call' = [call EXCEPT ![c] = m]
    BY <1>1, <1>3, <1>6
  <1> QED
    BY <1>1, <1>4, <1>5, <1>7, <1>8, <1>9
    DEF TypeOK, Works, SameCall, OthersGoOn

\* The larger of two numbers.
LEMMA MaxOfTwo ==
    ASSUME NEW a \in Nat, NEW b \in Nat
    PROVE  Max({a, b}) \in {a, b} /\ a <= Max({a, b}) /\ b <= Max({a, b})
  <1>1. \E x \in {a, b} : \A y \in {a, b} : x >= y
    OBVIOUS
  <1>2. Max({a, b}) \in {a, b} /\ \A y \in {a, b} : Max({a, b}) >= y
    BY <1>1 DEF Max
  <1> QED
    BY <1>2

LEMMA MinOfTwo ==
    ASSUME NEW a \in Nat, NEW b \in Nat
    PROVE  Min({a, b}) \in {a, b} /\ Min({a, b}) <= a /\ Min({a, b}) <= b
  <1>1. \E x \in {a, b} : \A y \in {a, b} : x <= y
    OBVIOUS
  <1>2. Min({a, b}) \in {a, b} /\ \A y \in {a, b} : Min({a, b}) <= y
    BY <1>1 DEF Min
  <1> QED
    BY <1>2

\* The rows of a chunk.
LEMMA HitsFinite ==
    ASSUME TypeOK, NEW c \in Callers, NEW n \in Nat
    PROVE  /\ ChunkHits(call[c], n) \subseteq
                  n * Block .. n * Block + Block - 1
           /\ IsFiniteSet(ChunkHits(call[c], n))
  <1>1. PICK a \in Nat : a = n * Block
    BY ConstantTypes
  <1>2. IsFiniteSet(a .. a + Block - 1)
    BY <1>1, ConstantTypes, FS_Interval
  <1>3. ChunkHits(call[c], n) \subseteq a .. a + Block - 1
    BY <1>1 DEF ChunkHits
  <1> QED
    BY <1>1, <1>2, <1>3, FS_Subset

\* Where a call that is inside a chunk goes on.
LEMMA EnterEffect ==
    ASSUME TypeOK, NEW c \in Callers, Enter(c)
    PROVE  /\ call' \in [Callers -> CallStates]
           /\ call'[c].pc = "loop" /\ OthersGoOn(c)
           /\ call'[c].total_matches = 0 /\ call'[c].chunk = 0
           /\ call'[c].reach = 0
  <1>1. PICK d \in Data :
            call' = [call EXCEPT ![c] =
                [pc |-> "loop", id |-> calls + 1, row_count |-> d.row_count,
                 match |-> d.match, chunk |-> 0, i |-> 1, total_matches |-> 0,
                 reach |-> 0]]
    BY DEF Enter
  <1> DEFINE k ==
          [pc |-> "loop", id |-> calls + 1, row_count |-> d.row_count,
           match |-> d.match, chunk |-> 0, i |-> 1, total_matches |-> 0,
           reach |-> 0]
  <1>2. /\ k \in CallStates /\ k.pc = "loop" /\ k.total_matches = 0
        /\ k.chunk = 0 /\ k.reach = 0
    BY ScanAssumption, ConstantTypes DEF CallStates, TypeOK
  <1>3. call' = [call EXCEPT ![c] = k]
    BY <1>1
  <1> HIDE DEF k
  <1> QED
    BY <1>2, <1>3 DEF TypeOK, OthersGoOn

LEMMA IdleEffect ==
    ASSUME TypeOK, NEW c \in Callers, AllocFails(c) \/ Return(c)
    PROVE  /\ call' \in [Callers -> CallStates]
           /\ call'[c] = Idle /\ OthersGoOn(c)
  <1>1. call' = [call EXCEPT ![c] = Idle]
    BY DEF AllocFails, Return
  <1> QED
    BY <1>1, IdleType DEF TypeOK, OthersGoOn

LEMMA BeginEffect ==
    ASSUME TypeOK, NEW c \in Callers, BeginChunk(c)
    PROVE  /\ call' \in [Callers -> CallStates]
           /\ Works(c, "gather", 1) /\ call'[c].reach = call[c].reach
  <1>1. /\ call' = [call EXCEPT ![c] =
                       [call[c] EXCEPT !.pc = "gather", !.i = 1]]
        /\ UNCHANGED fixed
    BY DEF BeginChunk
  <1>2. 1 \in 1 .. MaxFields + 1
    BY ConstantTypes
  <1> QED
    BY <1>1, <1>2, WorksEffect

\* The last row gathered is one of the call's.
LEMMA LastRowType ==
    ASSUME TypeOK, NEW c \in Callers,
           call[c].chunk * Block < call[c].row_count
    PROVE  LastRow(call[c]) \in 0 .. call[c].row_count - 1
  <1>1. /\ call[c].row_count \in Nat /\ call[c].chunk \in Nat
    BY DEF TypeOK, CallStates
  <1>2. PICK a \in Nat : a = call[c].chunk * Block
    BY <1>1, ConstantTypes
  <1>3. a + Block \in Nat
    BY <1>2, ConstantTypes
  <1>4. /\ LastRow(call[c]) = Min({call[c].row_count, a + Block}) - 1
    BY <1>2 DEF LastRow
  <1>5. Min({call[c].row_count, a + Block}) \in {call[c].row_count, a + Block}
        /\ Min({call[c].row_count, a + Block}) <= call[c].row_count
    BY <1>1, <1>3, MinOfTwo
  <1>6. a < call[c].row_count
    BY <1>2
  <1>7. call[c].row_count >= 1 /\ a + Block >= 1
    BY <1>1, <1>6, ConstantTypes
  <1> QED
    BY <1>1, <1>3, <1>4, <1>5, <1>7

\* Inside a chunk the call has rows left.
RowsLeft ==
    \A c \in Callers : InChunk(c) => call[c].chunk * Block < call[c].row_count

LEMMA GatherEffect ==
    ASSUME TypeOK, RowsLeft, NEW c \in Callers, Gather(c)
    PROVE  /\ call' \in [Callers -> CallStates]
           /\ Works(c, IF logic.mode = "BIT_SLICED" THEN "slice" ELSE "point",
                    call[c].i)
           /\ LastRow(call[c]) \in 0 .. call[c].row_count - 1
           /\ LET last == LastRow(call[c]) * logic.stride
                            + logic.fields[call[c].i].offset + GatherBytes
              IN  last \in Nat /\ call'[c].reach = Max({call[c].reach, last})
  <1>1. PICK k : k = call[c]
    OBVIOUS
  <1>2. k \in CallStates
    BY <1>1 DEF TypeOK
  <1>3. PICK pc : pc = IF logic.mode = "BIT_SLICED" THEN "slice" ELSE "point"
    OBVIOUS
  <1>4. LastRow(call[c]) \in 0 .. call[c].row_count - 1
    BY LastRowType DEF Gather, At, InChunk, RowsLeft
  <1>5. PICK last : last = LastRow(call[c]) * logic.stride
                            + logic.fields[call[c].i].offset + GatherBytes
    OBVIOUS
  <1>6. last \in Nat
    <2>1. LastRow(call[c]) \in Nat
      BY <1>4
    <2>2. logic.stride \in Nat
      BY ScanAssumption DEF TypeOK
    <2>3. logic.fields[call[c].i].offset \in Nat
      <3>1. /\ call[c].i \in 1 .. Len(logic.fields)
            /\ logic.fields[call[c].i] # Null
        BY <1>1, <1>2, CallFields, ConstantTypes DEF Gather, TypeOK
      <3>2. logic.fields \in Seq(Fields \cup {Null})
        BY ScanAssumption DEF TypeOK
      <3>3. logic.fields[call[c].i] \in Fields
        BY <3>1, <3>2
      <3> QED
        BY <3>3 DEF Fields
    <2>4. LastRow(call[c]) * logic.stride \in Nat
      BY <2>1, <2>2
    <2> QED
      BY <1>5, <2>3, <2>4, ConstantTypes
  <1>7. PICK r : r = Max({k.reach, last})
    OBVIOUS
  <1>8. r \in Nat
    BY <1>2, <1>6, <1>7, CallFields, MaxOfTwo
  <1>9. PICK j : j = [k EXCEPT !.pc = pc]
    OBVIOUS
  <1>10. j \in CallStates /\ j.pc = pc
    BY <1>2, <1>3, <1>9 DEF CallStates
  <1>11. /\ j.id = k.id /\ j.chunk = k.chunk /\ j.row_count = k.row_count
         /\ j.match = k.match /\ j.total_matches = k.total_matches /\ j.i = k.i
    BY <1>2, <1>9 DEF CallStates
  <1>12. PICK m : m = [j EXCEPT !.reach = r]
    OBVIOUS
  <1>13. m \in CallStates /\ m.reach = r
    BY <1>8, <1>10, <1>12 DEF CallStates
  <1>14. /\ m.pc = j.pc /\ m.id = j.id /\ m.chunk = j.chunk /\ m.i = j.i
         /\ m.row_count = j.row_count /\ m.match = j.match
         /\ m.total_matches = j.total_matches
    BY <1>10, <1>12 DEF CallStates
  <1>15. call' = [call EXCEPT ![c] = m]
    BY <1>1, <1>3, <1>5, <1>7, <1>9, <1>12 DEF Gather
  <1>16. UNCHANGED fixed
    BY DEF Gather
  <1>17. /\ call' \in [Callers -> CallStates] /\ call'[c] = m
         /\ OthersGoOn(c)
    BY <1>13, <1>15 DEF TypeOK, OthersGoOn
  <1> QED
    BY <1>1, <1>3, <1>4, <1>5, <1>6, <1>7, <1>10, <1>11, <1>13, <1>14, <1>16,
       <1>17 DEF Works, SameCall

LEMMA GatherNullEffect ==
    ASSUME TypeOK, NEW c \in Callers, GatherNull(c)
    PROVE  /\ call' \in [Callers -> CallStates]
           /\ Works(c, "gather", call[c].i + 1)
           /\ call'[c].reach = call[c].reach
  <1>1. call[c].i + 1 \in 1 .. MaxFields + 1
    <2>1. call[c].i \in 1 .. MaxFields + 1
      BY CallFields DEF TypeOK
    <2> QED
      BY <2>1, ConstantTypes DEF GatherNull, TypeOK
  <1>2. /\ call' = [call EXCEPT ![c] =
                       [call[c] EXCEPT !.pc = call[c].pc, !.i = call[c].i + 1]]
        /\ call[c].pc = "gather" /\ UNCHANGED fixed
    BY DEF GatherNull, At, TypeOK, CallStates
  <1> QED
    BY <1>1, <1>2, WorksEffect

LEMMA SliceEffect ==
    ASSUME TypeOK, NEW c \in Callers, Slice(c)
    PROVE  /\ call' \in [Callers -> CallStates]
           /\ Works(c, "point", call[c].i)
           /\ call'[c].reach = call[c].reach
  <1>1. PICK k : k = call[c]
    OBVIOUS
  <1>2. k \in CallStates
    BY <1>1 DEF TypeOK
  <1>3. PICK j : j = [k EXCEPT !.pc = "point"]
    OBVIOUS
  <1>4. j \in CallStates /\ j.pc = "point"
    BY <1>2, <1>3 DEF CallStates
  <1>5. /\ j.id = k.id /\ j.chunk = k.chunk /\ j.row_count = k.row_count
        /\ j.match = k.match /\ j.total_matches = k.total_matches
        /\ j.reach = k.reach /\ j.i = k.i
    BY <1>2, <1>3 DEF CallStates
  <1>6. call' = [call EXCEPT ![c] = j] /\ UNCHANGED fixed
    BY <1>1, <1>3 DEF Slice
  <1> QED
    BY <1>1, <1>4, <1>5, <1>6 DEF TypeOK, Works, SameCall, OthersGoOn

LEMMA PointEffect ==
    ASSUME TypeOK, NEW c \in Callers, Point(c),
           call[c].i <= Len(logic.fields)
    PROVE  /\ call' \in [Callers -> CallStates]
           /\ Works(c, "gather", call[c].i + 1)
           /\ call'[c].reach = call[c].reach
  <1>1. call[c].i + 1 \in 1 .. MaxFields + 1
    <2>1. call[c].i \in 1 .. MaxFields + 1
      BY CallFields DEF TypeOK
    <2> QED
      BY <2>1, ConstantTypes DEF TypeOK
  <1>2. /\ call' = [call EXCEPT ![c] =
                       [call[c] EXCEPT !.pc = "gather", !.i = call[c].i + 1]]
        /\ UNCHANGED fixed
    BY DEF Point
  <1> QED
    BY <1>1, <1>2, WorksEffect

\* The kernel's count is added and the next chunk is on.
LEMMA ReturnsEffect ==
    ASSUME TypeOK, NEW c \in Callers, KernelReturns(c)
    PROVE  /\ call' \in [Callers -> CallStates]
           /\ call'[c].pc = "loop" /\ OthersGoOn(c) /\ UNCHANGED fixed
           /\ call'[c].chunk = call[c].chunk + 1
           /\ call'[c].match = call[c].match
           /\ call'[c].row_count = call[c].row_count
           /\ call'[c].reach = call[c].reach
           /\ \E n \in Counts(c) :
                  call'[c].total_matches = call[c].total_matches + n
  <1>1. PICK n \in Counts(c) :
            call' = [call EXCEPT ![c] = [call[c] EXCEPT
                !.pc = "loop", !.chunk = call[c].chunk + 1,
                !.total_matches = call[c].total_matches + n]]
    BY DEF KernelReturns
  <1>2. PICK k : k = call[c]
    OBVIOUS
  <1>3. k \in CallStates
    BY <1>2 DEF TypeOK
  <1>4. PICK h : h = [k EXCEPT !.pc = "loop"]
    OBVIOUS
  <1>5. h \in CallStates /\ h.pc = "loop"
    BY <1>3, <1>4 DEF CallStates
  <1>6. /\ h.id = k.id /\ h.chunk = k.chunk /\ h.row_count = k.row_count
        /\ h.match = k.match /\ h.total_matches = k.total_matches
        /\ h.reach = k.reach
    BY <1>3, <1>4 DEF CallStates
  <1>7. PICK j : j = [h EXCEPT !.chunk = k.chunk + 1]
    OBVIOUS
  <1>8. j \in CallStates /\ j.chunk = k.chunk + 1
    BY <1>3, <1>5, <1>7 DEF CallStates
  <1>9. /\ j.pc = h.pc /\ j.id = h.id /\ j.row_count = h.row_count
        /\ j.match = h.match /\ j.total_matches = h.total_matches
        /\ j.reach = h.reach
    BY <1>5, <1>7 DEF CallStates
  <1>10. PICK m : m = [j EXCEPT !.total_matches = k.total_matches + n]
    OBVIOUS
  <1>11. n \in Nat
    <2>1. CASE n \in 0 .. Block
      BY <2>1, ConstantTypes
    <2>2. CASE n = Cardinality(ChunkHits(call[c], call[c].chunk))
      <3>1. call[c].chunk \in Nat
        BY <1>2, <1>3, CallFields
      <3>2. IsFiniteSet(ChunkHits(call[c], call[c].chunk))
        BY <3>1, HitsFinite
      <3> QED
        BY <2>2, <3>2, FS_CardinalityType
    <2> QED
      BY <1>1, <2>1, <2>2 DEF Counts
  <1>12. m \in CallStates /\ m.total_matches = k.total_matches + n
    BY <1>3, <1>8, <1>10, <1>11 DEF CallStates
  <1>13. /\ m.pc = j.pc /\ m.id = j.id /\ m.row_count = j.row_count
         /\ m.match = j.match /\ m.chunk = j.chunk /\ m.reach = j.reach
    BY <1>8, <1>10 DEF CallStates
  <1>14. call' = [call EXCEPT ![c] = m]
    BY <1>1, <1>2, <1>4, <1>7, <1>10
  <1>15. /\ call' \in [Callers -> CallStates] /\ call'[c] = m
         /\ OthersGoOn(c)
    BY <1>12, <1>14 DEF TypeOK, OthersGoOn
  <1>16. UNCHANGED fixed
    BY DEF KernelReturns
  <1> QED
    BY <1>2, <1>5, <1>6, <1>8, <1>9, <1>12, <1>13, <1>15, <1>16

-----------------------------------------------------------------------------
(* Types, and the rows that are left.                                      *)

LEMMA InitType == Init => TypeOK /\ RowsLeft
  <1> SUFFICES ASSUME Init PROVE TypeOK /\ RowsLeft
    OBVIOUS
  <1>1. call \in [Callers -> CallStates]
    BY IdleType DEF Init
  <1>2. RowsLeft
    BY DEF Init, Idle, RowsLeft, InChunk
  <1> QED
    BY <1>1, <1>2, ConstantTypes, ScanAssumption DEF Init, TypeOK, Indices

\* The chunk of a call does not move while it is processed.
LEMMA WorksRows ==
    ASSUME TypeOK, RowsLeft, NEW c \in Callers, NEW pc, NEW i, InChunk(c),
           Works(c, pc, i)
    PROVE  RowsLeft'
  BY DEF RowsLeft, InChunk, Works, SameCall, OthersGoOn

LEMMA OutRows ==
    ASSUME TypeOK, RowsLeft, NEW c \in Callers, OthersGoOn(c),
           call'[c].pc \in {"idle", "loop"}
    PROVE  RowsLeft'
  BY DEF RowsLeft, InChunk, OthersGoOn

\* The field a call is at, from its gathering to its plane pointer.
FieldThere ==
    \A c \in Callers :
        call[c].pc \in {"slice", "point"} =>
            /\ call[c].i \in 1 .. Len(logic.fields)
            /\ logic.fields[call[c].i] # Null
            /\ call[c].pc = "slice" => logic.mode = "BIT_SLICED"

TypeInv == TypeOK /\ RowsLeft /\ FieldThere

LEMMA WorksField ==
    ASSUME TypeOK, FieldThere, NEW c \in Callers, NEW pc, NEW i,
           OthersGoOn(c), UNCHANGED logic,
           call'[c].pc \in {"slice", "point"} =>
               /\ call'[c].i \in 1 .. Len(logic.fields)
               /\ logic.fields[call'[c].i] # Null
               /\ call'[c].pc = "slice" => logic.mode = "BIT_SLICED"
    PROVE  FieldThere'
  BY DEF FieldThere, OthersGoOn

LEMMA TypeStep == TypeInv /\ [Next]_vars => TypeInv'
  <1> SUFFICES ASSUME TypeInv, [Next]_vars PROVE TypeInv'
    OBVIOUS
  <1> USE DEF TypeInv
  <1>1. CASE UNCHANGED vars
    BY <1>1 DEF vars, fixed, engine, TypeOK, RowsLeft, InChunk, FieldThere
  <1>2. CASE Configure
    BY <1>2 DEF Configure, engine, TypeOK, RowsLeft, InChunk, FieldThere
  <1>3. ASSUME NEW c \in Callers, Enter(c) PROVE TypeInv'
    <2>1. TypeOK'
      <3>1. call' \in [Callers -> CallStates]
        BY <1>3, EnterEffect
      <3>2. MaxCalls \in Nat
        BY ScanAssumption
      <3>3. calls' \in 0 .. MaxCalls
        BY <1>3, <3>2 DEF Enter, TypeOK
      <3> QED
        BY <1>3, <3>1, <3>3 DEF Enter, TypeOK, fixed, engine
    <2>2. RowsLeft'
      BY <1>3, EnterEffect, OutRows
    <2>3. FieldThere'
      BY <1>3, EnterEffect, WorksField DEF Enter, fixed
    <2> QED
      BY <2>1, <2>2, <2>3
  <1>4. ASSUME NEW c \in Callers, AllocFails(c) \/ Return(c) PROVE TypeInv'
    <2>1. call'[c].pc = "idle" /\ OthersGoOn(c)
          /\ call' \in [Callers -> CallStates]
      BY <1>4, IdleEffect DEF Idle
    <2>2. UNCHANGED <<fixed, engine, disturbed, crashed, calls>>
      BY <1>4 DEF AllocFails, Return
    <2>3. RowsLeft' /\ FieldThere'
      BY <2>1, <2>2, OutRows, WorksField DEF fixed
    <2> QED
      BY <2>1, <2>2, <2>3 DEF TypeOK, fixed, engine
  <1>5. ASSUME NEW c \in Callers, BeginChunk(c) PROVE TypeInv'
    <2>1. /\ Works(c, "gather", 1) /\ call' \in [Callers -> CallStates]
          /\ call[c].chunk * Block < call[c].row_count
      BY <1>5, BeginEffect DEF BeginChunk
    <2>2. RowsLeft'
      BY <2>1 DEF RowsLeft, InChunk, Works, SameCall, OthersGoOn
    <2>3. FieldThere'
      BY <2>1, WorksField DEF Works, fixed
    <2> QED
      BY <1>5, <2>1, <2>2, <2>3 DEF BeginChunk, TypeOK, fixed
  <1>6. ASSUME NEW c \in Callers, Gather(c) PROVE TypeInv'
    <2>1. PICK pc \in {"slice", "point"} :
              /\ Works(c, pc, call[c].i) /\ call' \in [Callers -> CallStates]
              /\ pc = "slice" => logic.mode = "BIT_SLICED"
      BY <1>6, GatherEffect
    <2>2. /\ call[c].i \in 1 .. Len(logic.fields)
          /\ logic.fields[call[c].i] # Null /\ InChunk(c)
      BY <1>6, CallFields, ConstantTypes DEF Gather, At, InChunk, TypeOK
    <2>3. RowsLeft'
      BY <2>1, <2>2, WorksRows
    <2>4. FieldThere'
      BY <2>1, <2>2, WorksField DEF Works, fixed
    <2>5. DOMAIN field_buffers' = Indices
      BY <1>6 DEF Gather, TypeOK
    <2> QED
      BY <1>6, <2>1, <2>3, <2>4, <2>5 DEF Gather, TypeOK, fixed
  <1>7. ASSUME NEW c \in Callers, GatherNull(c) PROVE TypeInv'
    <2>1. /\ Works(c, "gather", call[c].i + 1) /\ InChunk(c)
          /\ call' \in [Callers -> CallStates]
      BY <1>7, GatherNullEffect DEF GatherNull, At, InChunk
    <2>2. RowsLeft'
      BY <2>1, WorksRows
    <2>3. FieldThere'
      BY <2>1, WorksField DEF Works, fixed
    <2> QED
      BY <1>7, <2>1, <2>2, <2>3 DEF GatherNull, TypeOK, fixed
  <1>8. ASSUME NEW c \in Callers, Slice(c) PROVE TypeInv'
    <2>1. /\ Works(c, "point", call[c].i) /\ InChunk(c)
          /\ call' \in [Callers -> CallStates]
      BY <1>8, SliceEffect DEF Slice, At, InChunk
    <2>2. RowsLeft'
      BY <2>1, WorksRows
    <2>3. FieldThere'
      BY <1>8, <2>1, WorksField DEF Slice, At, FieldThere, Works, fixed
    <2>4. DOMAIN field_buffers' = Indices
      BY <1>8 DEF Slice, TypeOK
    <2> QED
      BY <1>8, <2>1, <2>2, <2>3, <2>4 DEF Slice, TypeOK, fixed
  <1>9. ASSUME NEW c \in Callers, Point(c) PROVE TypeInv'
    <2>1. call[c].i \in 1 .. Len(logic.fields) /\ Len(logic.fields) \in Nat
          /\ Len(logic.fields) <= MaxFields
      BY <1>9, ConstantTypes DEF Point, At, FieldThere, TypeOK
    <2>2. /\ Works(c, "gather", call[c].i + 1) /\ InChunk(c)
          /\ call' \in [Callers -> CallStates]
      <3>1. call[c].i <= Len(logic.fields)
        BY <2>1
      <3>2. InChunk(c)
        BY <1>9 DEF Point, At, InChunk
      <3> QED
        BY <1>9, <3>1, <3>2, PointEffect
    <2>3. RowsLeft'
      BY <2>2, WorksRows
    <2>4. FieldThere'
      BY <2>2, WorksField DEF Works, fixed
    <2>5. call[c].i \in Indices
      BY <2>1, ConstantTypes DEF Indices
    <2> QED
      BY <1>9, <2>2, <2>3, <2>4, <2>5 DEF Point, TypeOK, fixed
  <1>10. ASSUME NEW c \in Callers, KernelReturns(c) PROVE TypeInv'
    <2>1. /\ call' \in [Callers -> CallStates]
          /\ call'[c].pc = "loop" /\ OthersGoOn(c) /\ UNCHANGED fixed
      BY <1>10, ReturnsEffect
    <2>2. RowsLeft' /\ FieldThere'
      BY <2>1, OutRows, WorksField DEF fixed
    <2> QED
      BY <1>10, <2>1, <2>2 DEF KernelReturns, TypeOK, fixed, engine
  <1>11. ASSUME NEW c \in Callers, KernelFaults(c) PROVE TypeInv'
    BY <1>11 DEF KernelFaults, TypeOK, RowsLeft, InChunk, FieldThere, fixed,
                 engine
  <1> QED
    BY <1>1, <1>2, <1>3, <1>4, <1>5, <1>6, <1>7, <1>8, <1>9, <1>10, <1>11
    DEF Next, Finished, Step

-----------------------------------------------------------------------------
(* What an undisturbed call finds in the engine.                           *)

Undisturbed(c) == c \notin disturbed /\ InChunk(c)

Alone(c) == Undisturbed(c) => \A d \in Callers \ {c} : ~InChunk(d)

\* Behind the plane pointer of field j lie the rows of c's chunk.
Has(c, j) ==
    /\ field_buffers[j] = Required(call[c], j)
    /\ Expr => j \in field_planes_array

\* What c has set up so far, and nothing else has a plane.
Filled(c) ==
    Undisturbed(c) =>
        /\ \A j \in 1 .. Len(logic.fields) :
               j < call[c].i /\ logic.fields[j] # Null => Has(c, j)
        /\ Expr => \A j \in field_planes_array :
               j \in 1 .. Len(logic.fields) /\ j < call[c].i
                   /\ logic.fields[j] # Null
        /\ call[c].pc = "slice" =>
               field_buffers[call[c].i] = Content(call[c], "raw")
        /\ call[c].pc = "point" =>
               field_buffers[call[c].i] = Required(call[c], call[c].i)

FillInv == \A c \in Callers : Alone(c) /\ Filled(c)

LEMMA FillInit == Init => FillInv
  BY DEF Init, Idle, FillInv, Alone, Filled, Undisturbed, InChunk

\* A call that is in no chunk has nothing to find.
LEMMA OutFill ==
    ASSUME NEW c \in Callers, ~InChunk(c)' PROVE Alone(c)' /\ Filled(c)'
  BY DEF Alone, Filled, Undisturbed

\* A step of d that leaves the engine's memory alone keeps what others have set
\* up.
LEMMA OthersFill ==
    ASSUME FillInv, NEW d \in Callers, NEW c \in Callers \ {d},
           OthersGoOn(d), UNCHANGED <<logic, engine>>,
           InChunk(d)' => InChunk(d),
           c \in disturbed => c \in disturbed'
    PROVE  Alone(c)' /\ Filled(c)'
  <1>1. call'[c] = call[c] /\ \A e \in Callers \ {d} : call'[e] = call[e]
    BY DEF OthersGoOn
  <1>2. Alone(c)'
    BY <1>1 DEF FillInv, Alone, Undisturbed, InChunk
  <1>3. Filled(c)'
    BY <1>1 DEF FillInv, Filled, Undisturbed, InChunk, Has, Required, Content,
                Expr, engine
  <1> QED
    BY <1>2, <1>3

\* A step of d inside a chunk: no other call in a chunk is undisturbed.
LEMMA InsideFill ==
    ASSUME FillInv, NEW d \in Callers, NEW c \in Callers \ {d},
           OthersGoOn(d), InChunk(d), UNCHANGED disturbed
    PROVE  Alone(c)' /\ Filled(c)'
  <1>1. ~Undisturbed(c)
    BY DEF FillInv, Alone
  <1>2. ~Undisturbed(c)'
    BY <1>1 DEF Undisturbed, InChunk, OthersGoOn
  <1> QED
    BY <1>2 DEF Alone, Filled

\* While a call works in its chunk the others stay out of theirs.
LEMMA WorksAlone ==
    ASSUME FillInv, NEW c \in Callers, NEW pc, NEW i, Works(c, pc, i),
           InChunk(c), UNCHANGED disturbed
    PROVE  Alone(c)'
  BY DEF FillInv, Alone, Undisturbed, InChunk, Works, OthersGoOn

\* What a kernel must find does not depend on how far the call is.
LEMMA RequiredStays ==
    ASSUME NEW c \in Callers, SameCall(c), UNCHANGED logic
    PROVE  \A j : Required(call[c], j)' = Required(call[c], j)
  BY DEF SameCall, Required

\* What is set up stays if its buffer and its pointer do.
LEMMA HasStays ==
    ASSUME FillInv, NEW c \in Callers, Undisturbed(c), SameCall(c),
           UNCHANGED logic, NEW j \in 1 .. Len(logic.fields),
           j < call[c].i, logic.fields[j] # Null,
           field_buffers'[j] = field_buffers[j],
           j \in field_planes_array => j \in field_planes_array'
    PROVE  Has(c, j)'
  <1>1. Has(c, j)
    BY DEF FillInv, Filled
  <1>2. Required(call[c], j)' = Required(call[c], j)
    BY RequiredStays
  <1> QED
    BY <1>1, <1>2 DEF Has, Expr

LEMMA GatherFill ==
    ASSUME TypeInv, FillInv, NEW c \in Callers, Gather(c)
    PROVE  Filled(c)'
  <1>1. PICK i : i = call[c].i
    OBVIOUS
  <1>2. PICK pc : pc = IF logic.mode = "BIT_SLICED" THEN "slice" ELSE "point"
    OBVIOUS
  <1>3. Works(c, pc, i)
    BY <1>1, <1>2, GatherEffect DEF TypeInv
  <1>4. /\ i \in 1 .. Len(logic.fields) /\ i \in Indices
        /\ Len(logic.fields) \in Nat
    BY <1>1, CallFields, ConstantTypes DEF Gather, TypeInv, TypeOK, Indices
  <1>5. /\ field_buffers'[i] = Content(call[c], "raw")
        /\ \A j \in Indices \ {i} : field_buffers'[j] = field_buffers[j]
        /\ UNCHANGED <<logic, field_planes_array, disturbed>>
    BY <1>1, <1>4 DEF Gather, fixed, TypeInv, TypeOK
  <1>6. SUFFICES ASSUME Undisturbed(c)' PROVE Filled(c)'
    BY DEF Filled
  <1>7. Undisturbed(c) /\ call'[c].i = i /\ SameCall(c) /\ call'[c].pc = pc
    BY <1>3, <1>5, <1>6 DEF Undisturbed, InChunk, Gather, At, Works
  <1>8. \A j \in 1 .. Len(logic.fields) :
            j < i /\ logic.fields[j] # Null => Has(c, j)'
    <2>1. \A j \in 1 .. Len(logic.fields) :
              j < i => j \in Indices \ {i}
      BY <1>4, ConstantTypes DEF Indices, TypeInv, TypeOK
    <2> QED
      BY <1>1, <1>5, <1>7, <2>1, HasStays
  <1>9. field_buffers'[i] = Content(call[c], "raw")'
    BY <1>1, <1>5, <1>7 DEF Content, SameCall
  <1>10. logic.mode # "BIT_SLICED" =>
             Content(call[c], "raw")' = Required(call[c], i)'
    BY <1>1, <1>5, <1>7 DEF Content, Required
  <1>11. (Expr => \A j \in field_planes_array :
             j \in 1 .. Len(logic.fields) /\ j < call[c].i
                 /\ logic.fields[j] # Null)'
    BY <1>1, <1>5, <1>7 DEF FillInv, Filled, Expr
  <1> QED
    BY <1>2, <1>5, <1>7, <1>8, <1>9, <1>10, <1>11 DEF Filled

LEMMA GatherNullFill ==
    ASSUME TypeInv, FillInv, NEW c \in Callers, GatherNull(c)
    PROVE  Filled(c)'
  <1>1. PICK i : i = call[c].i
    OBVIOUS
  <1>2. Works(c, "gather", i + 1)
    BY <1>1, GatherNullEffect DEF TypeInv
  <1>3. /\ i \in 1 .. Len(logic.fields) /\ Len(logic.fields) \in Nat
        /\ logic.fields[i] = Null
    BY <1>1, CallFields, ConstantTypes DEF GatherNull, TypeInv, TypeOK
  <1>4. /\ field_planes_array' = field_planes_array \ {i}
        /\ UNCHANGED <<logic, field_buffers, disturbed>>
    BY <1>1 DEF GatherNull, fixed
  <1>5. SUFFICES ASSUME Undisturbed(c)' PROVE Filled(c)'
    BY DEF Filled
  <1>6. /\ Undisturbed(c) /\ call'[c].i = i + 1 /\ SameCall(c)
        /\ call'[c].pc = "gather"
    BY <1>2, <1>4, <1>5 DEF Undisturbed, InChunk, GatherNull, At, Works
  <1>7. \A j \in 1 .. Len(logic.fields) :
            j < i + 1 /\ logic.fields[j] # Null => Has(c, j)'
    <2>1. \A j \in 1 .. Len(logic.fields) :
              j < i + 1 /\ logic.fields[j] # Null => j < i /\ j # i
      BY <1>3
    <2> QED
      BY <1>1, <1>4, <1>6, <2>1, HasStays
  <1>8. (Expr => \A j \in field_planes_array :
            j \in 1 .. Len(logic.fields) /\ j < call[c].i
                /\ logic.fields[j] # Null)'
    BY <1>1, <1>3, <1>4, <1>6 DEF FillInv, Filled, Expr
  <1> QED
    BY <1>4, <1>6, <1>7, <1>8 DEF Filled

LEMMA SliceFill ==
    ASSUME TypeInv, FillInv, NEW c \in Callers, Slice(c)
    PROVE  Filled(c)'
  <1>1. PICK i : i = call[c].i
    OBVIOUS
  <1>2. Works(c, "point", i)
    BY <1>1, SliceEffect DEF TypeInv
  <1>3. /\ i \in 1 .. Len(logic.fields) /\ i \in Indices
        /\ Len(logic.fields) \in Nat /\ logic.mode = "BIT_SLICED"
    BY <1>1, ConstantTypes DEF Slice, At, TypeInv, TypeOK, FieldThere, Indices
  <1>4. /\ field_buffers'[i] = Transposed(field_buffers[i])
        /\ \A j \in Indices \ {i} : field_buffers'[j] = field_buffers[j]
        /\ UNCHANGED <<logic, field_planes_array, disturbed>>
    BY <1>1, <1>3 DEF Slice, fixed, TypeInv, TypeOK
  <1>5. SUFFICES ASSUME Undisturbed(c)' PROVE Filled(c)'
    BY DEF Filled
  <1>6. /\ Undisturbed(c) /\ call'[c].i = i /\ SameCall(c)
        /\ call'[c].pc = "point" /\ call[c].pc = "slice"
    BY <1>2, <1>4, <1>5 DEF Undisturbed, InChunk, Slice, At, Works
  <1>7. \A j \in 1 .. Len(logic.fields) :
            j < i /\ logic.fields[j] # Null => Has(c, j)'
    <2>1. \A j \in 1 .. Len(logic.fields) :
              j < i => j \in Indices \ {i}
      BY <1>3, ConstantTypes DEF Indices, TypeInv, TypeOK
    <2> QED
      BY <1>1, <1>4, <1>6, <2>1, RequiredStays DEF FillInv, Filled, Has, Expr
  <1>8. field_buffers[i] = Content(call[c], "raw")
    BY <1>1, <1>6 DEF FillInv, Filled
  <1>9. Transposed(Content(call[c], "raw")) = Required(call[c], i)
    BY <1>1, <1>3 DEF Transposed, Content, Required
  <1>10. field_buffers'[i] = Required(call[c], i)'
    <2>1. Required(call[c], i)' = Required(call[c], i)
      BY <1>4, <1>6, RequiredStays
    <2> QED
      BY <1>4, <1>8, <1>9, <2>1
  <1>11. (Expr => \A j \in field_planes_array :
             j \in 1 .. Len(logic.fields) /\ j < call[c].i
                 /\ logic.fields[j] # Null)'
    BY <1>1, <1>4, <1>6 DEF FillInv, Filled, Expr
  <1> QED
    BY <1>4, <1>6, <1>7, <1>10, <1>11 DEF Filled

LEMMA PointFill ==
    ASSUME TypeInv, FillInv, NEW c \in Callers, Point(c)
    PROVE  Filled(c)'
  <1>1. PICK i : i = call[c].i
    OBVIOUS
  <1>2. /\ i \in 1 .. Len(logic.fields) /\ Len(logic.fields) \in Nat
        /\ logic.fields[i] # Null
    BY <1>1, ConstantTypes DEF Point, At, TypeInv, TypeOK, FieldThere
  <1>3. Works(c, "gather", i + 1)
    BY <1>1, <1>2, PointEffect DEF TypeInv
  <1>4. /\ field_planes_array' = IF Expr THEN field_planes_array \cup {i}
                                 ELSE field_planes_array
        /\ UNCHANGED <<logic, field_buffers, disturbed>>
    BY <1>1 DEF Point, fixed
  <1>5. SUFFICES ASSUME Undisturbed(c)' PROVE Filled(c)'
    BY DEF Filled
  <1>6. /\ Undisturbed(c) /\ call'[c].i = i + 1 /\ SameCall(c)
        /\ call'[c].pc = "gather" /\ call[c].pc = "point"
    BY <1>3, <1>4, <1>5 DEF Undisturbed, InChunk, Point, At, Works
  <1>7. \A j \in 1 .. Len(logic.fields) :
            j < i + 1 /\ logic.fields[j] # Null => Has(c, j)'
    <2>1. \A j \in 1 .. Len(logic.fields) : j < i + 1 => j < i \/ j = i
      BY <1>2
    <2> QED
      BY <1>1, <1>4, <1>6, <2>1, RequiredStays DEF FillInv, Filled, Has, Expr
  <1>8. (Expr => \A j \in field_planes_array :
            j \in 1 .. Len(logic.fields) /\ j < call[c].i
                /\ logic.fields[j] # Null)'
    BY <1>1, <1>2, <1>4, <1>6 DEF FillInv, Filled, Expr
  <1> QED
    BY <1>4, <1>6, <1>7, <1>8 DEF Filled

\* A step of d: what every call has set up.
LEMMA FillStep == TypeInv /\ FillInv /\ [Next]_vars => FillInv'
  <1> SUFFICES ASSUME TypeInv, FillInv, [Next]_vars PROVE FillInv'
    OBVIOUS
  <1>1. CASE UNCHANGED vars
    BY <1>1 DEF vars, fixed, engine, FillInv, Alone, Filled, Undisturbed,
                InChunk, Has, Required, Content, Expr
  <1>2. CASE Configure
    <2>1. \A c \in Callers : ~InChunk(c)'
      BY <1>2 DEF Configure, InChunk
    <2> QED
      BY <2>1, OutFill DEF FillInv
  <1>3. ASSUME NEW d \in Callers, NEW c \in Callers,
               Enter(d) \/ AllocFails(d) \/ Step(d)
        PROVE  Alone(c)' /\ Filled(c)'
    <2>1. CASE Enter(d) \/ AllocFails(d) \/ Return(d) \/ KernelReturns(d)
      <3>1. call'[d].pc \in {"idle", "loop"} /\ OthersGoOn(d)
        BY <2>1, EnterEffect, IdleEffect, ReturnsEffect DEF Idle, TypeInv
      <3>2. ~InChunk(d)'
        BY <3>1 DEF InChunk
      <3>3. UNCHANGED <<logic, engine>> /\ disturbed' \in {disturbed,
                                                           disturbed \ {d}}
        BY <2>1 DEF Enter, AllocFails, Return, KernelReturns, fixed
      <3> QED
        BY <3>1, <3>2, <3>3, OutFill, OthersFill
    <2>2. CASE BeginChunk(d)
      <3> DEFINE others == {e \in Callers \ {d} : InChunk(e)}
      <3>1. /\ Works(d, "gather", 1)
            /\ disturbed' = IF others = {} THEN disturbed
                            ELSE disturbed \cup others \cup {d}
            /\ field_planes_array' = IF Expr THEN {} ELSE field_planes_array
            /\ UNCHANGED logic
        BY <2>2, BeginEffect DEF BeginChunk, TypeInv, fixed
      <3>2. CASE c = d
        <4>1. Alone(c)'
          BY <3>1, <3>2 DEF Alone, Undisturbed, InChunk, Works, OthersGoOn
        <4>2. call'[c].i = 1 /\ call'[c].pc = "gather"
          BY <3>1, <3>2 DEF Works
        <4>3. Expr' => field_planes_array' = {}
          BY <3>1 DEF Expr
        <4>4. Len(logic'.fields) \in Nat
          BY <3>1, ConstantTypes DEF TypeInv, TypeOK
        <4> QED
          BY <4>1, <4>2, <4>3, <4>4 DEF Filled
      <3>3. CASE c # d
        <4>1. ~Undisturbed(c)'
          BY <3>1, <3>3 DEF Undisturbed, InChunk, Works, OthersGoOn
        <4> QED
          BY <4>1 DEF Alone, Filled
      <3> QED
        BY <3>2, <3>3
    <2>3. CASE Gather(d) \/ GatherNull(d) \/ Slice(d) \/ Point(d)
      <3>1. /\ InChunk(d) /\ UNCHANGED disturbed
            /\ \E pc, i : Works(d, pc, i)
        <4>1. InChunk(d) /\ UNCHANGED disturbed
          BY <2>3 DEF Gather, GatherNull, Slice, Point, At, InChunk
        <4>2. CASE Point(d)
          <5>1. call[d].i <= Len(logic.fields)
            BY <4>2, ConstantTypes
            DEF Point, At, TypeInv, TypeOK, FieldThere
          <5> QED
            BY <4>1, <4>2, <5>1, PointEffect DEF TypeInv
        <4> QED
          BY <2>3, <4>1, <4>2, GatherEffect, GatherNullEffect, SliceEffect
          DEF TypeInv
      <3>2. CASE c = d
        BY <2>3, <3>1, <3>2, WorksAlone, GatherFill, GatherNullFill, SliceFill,
           PointFill
      <3>3. CASE c # d
        BY <3>1, <3>3, InsideFill DEF Works
      <3> QED
        BY <3>2, <3>3
    <2>4. CASE KernelFaults(d)
      BY <2>4 DEF KernelFaults, fixed, engine, FillInv, Alone, Filled,
                  Undisturbed, InChunk, Has, Required, Content, Expr
    <2> QED
      BY <1>3, <2>1, <2>2, <2>3, <2>4 DEF Step
  <1> QED
    BY <1>1, <1>2, <1>3 DEF Next, Finished, FillInv

-----------------------------------------------------------------------------
(* The sum.                                                                *)

Behind(k) == UNION {ChunkHits(k, n) : n \in 0 .. k.chunk - 1}

LEMMA Product ==
    ASSUME NEW a \in Nat, NEW b \in Nat, a < b
    PROVE  a * Block + Block <= b * Block
  <1>1. PICK d \in Nat : b = a + 1 + d
    <2>1. b - a - 1 \in Nat /\ b = a + 1 + (b - a - 1)
      OBVIOUS
    <2> QED
      BY <2>1
  <1>2. b * Block = a * Block + Block + d * Block
    BY <1>1, ConstantTypes
  <1>3. a * Block \in Nat /\ d * Block \in Nat
    BY ConstantTypes
  <1> QED
    BY <1>2, <1>3, ConstantTypes

\* The chunks behind a call and the one it is at have no row in common.
LEMMA BehindNext ==
    ASSUME TypeOK, NEW c \in Callers,
           NEW H, H = ChunkHits(call[c], call[c].chunk)
    PROVE  /\ IsFiniteSet(Behind(call[c])) /\ IsFiniteSet(H)
           /\ Behind(call[c]) \cap H = {}
           /\ Cardinality(Behind(call[c]) \cup H) =
                  Cardinality(Behind(call[c])) + Cardinality(H)
  <1>1. PICK k : k = call[c]
    OBVIOUS
  <1>2. k.chunk \in Nat
    BY <1>1, CallFields DEF TypeOK
  <1>3. PICK a \in Nat : a = k.chunk * Block
    BY <1>2, ConstantTypes
  <1>4. Behind(k) \subseteq 0 .. a - 1
    <2>1. SUFFICES ASSUME NEW n \in 0 .. k.chunk - 1, NEW r \in ChunkHits(k, n)
                   PROVE  r \in 0 .. a - 1
      BY DEF Behind
    <2>2. n \in Nat /\ n < k.chunk
      BY <1>2
    <2>3. n * Block + Block <= a
      BY <1>2, <1>3, <2>2, Product
    <2>4. PICK b \in Nat : b = n * Block
      BY <2>2, ConstantTypes
    <2>5. r \in b .. b + Block - 1
      BY <2>4 DEF ChunkHits
    <2>6. b + Block <= a
      BY <2>3, <2>4
    <2> QED
      BY <2>5, <2>6, ConstantTypes
  <1>5. IsFiniteSet(0 .. a - 1)
    BY FS_Interval
  <1>6. IsFiniteSet(Behind(k))
    BY <1>4, <1>5, FS_Subset
  <1>7. H \subseteq a .. a + Block - 1 /\ IsFiniteSet(H)
    BY <1>1, <1>2, <1>3, HitsFinite
  <1>8. Behind(k) \cap H = {}
    BY <1>4, <1>7, ConstantTypes
  <1>9. Cardinality(Behind(k) \cup H) =
            Cardinality(Behind(k)) + Cardinality(H)
            - Cardinality(Behind(k) \cap H)
    BY <1>6, <1>7, FS_Union
  <1>10. Cardinality(Behind(k) \cap H) = 0
    BY <1>8, FS_EmptySet
  <1>11. Cardinality(Behind(k)) \in Nat /\ Cardinality(H) \in Nat
    BY <1>6, <1>7, FS_CardinalityType
  <1> QED
    BY <1>1, <1>6, <1>7, <1>8, <1>9, <1>10, <1>11

SumOf(c) ==
    c \notin disturbed =>
        call[c].total_matches = Cardinality(Behind(call[c]))

SumInv == \A c \in Callers : SumOf(c)

LEMMA StartSum ==
    ASSUME NEW c \in Callers, call[c].chunk = 0, call[c].total_matches = 0
    PROVE  SumOf(c)
  <1>1. Behind(call[c]) = {}
    BY DEF Behind
  <1> QED
    BY <1>1, FS_EmptySet DEF SumOf

LEMMA SumInit == Init => SumInv
  BY StartSum DEF Init, Idle, SumInv

\* Hits depend on the data of the call only.
LEMMA SameSum ==
    ASSUME NEW c \in Callers, SumOf(c), SameCall(c), UNCHANGED zeroMatch,
           c \in disturbed => c \in disturbed'
    PROVE  SumOf(c)'
  <1>1. \A n : ChunkHits(call[c], n)' = ChunkHits(call[c], n)
    BY DEF SameCall, ChunkHits, LaneHit
  <1>2. Behind(call[c])' = Behind(call[c])
    BY <1>1 DEF SameCall, Behind
  <1> QED
    BY <1>2 DEF SumOf, SameCall

\* An undisturbed kernel has every plane it reads.
LEMMA SeesAll ==
    ASSUME TypeInv, FillInv, NEW c \in Callers, Undisturbed(c), AtKernel(c),
           ~NullPlaneRead
    PROVE  SeesOwnRows(c)
  <1>1. Len(logic.fields) \in Nat /\ call[c].i \in Nat
        /\ DOMAIN logic.fields = 1 .. Len(logic.fields)
    BY ConstantTypes, CallFields DEF TypeInv, TypeOK
  <1>2. ASSUME NEW i \in logic.reads
        PROVE  i \in 1 .. Len(logic.fields) /\ logic.fields[i] # Null
    <2>1. CASE Expr
      BY <1>2, <2>1 DEF NullPlaneRead, FillInv, Filled
    <2>2. CASE logic.path = "legacy"
      BY <1>1, <1>2, <2>2, ScanAssumption DEF TypeInv, TypeOK
    <2> QED
      BY <2>1, <2>2, ScanAssumption DEF Expr, TypeInv, TypeOK
  <1>3. \A i \in logic.reads : i <= Len(logic.fields) /\ i < call[c].i
    BY <1>1, <1>2 DEF AtKernel
  <1>4. \A i \in logic.reads : Has(c, i)
    BY <1>2, <1>3 DEF FillInv, Filled
  <1> QED
    BY <1>3, <1>4 DEF SeesOwnRows, Has

\* A step of d outside its chunks, or within one, leaves every sum alone.
LEMMA OthersSum ==
    ASSUME SumInv, NEW d \in Callers, NEW c \in Callers \ {d}, OthersGoOn(d),
           UNCHANGED zeroMatch, c \in disturbed => c \in disturbed'
    PROVE  SumOf(c)'
  <1>1. call'[c] = call[c]
    BY DEF OthersGoOn
  <1>2. SumOf(c) /\ SameCall(c)
    BY <1>1 DEF SumInv, SameCall
  <1> QED
    BY <1>2, SameSum

LEMMA ReturnsSum ==
    ASSUME TypeInv, FillInv, SumInv, NEW c \in Callers, KernelReturns(c)
    PROVE  SumOf(c)'
  <1>1. /\ call'[c].chunk = call[c].chunk + 1
        /\ call'[c].match = call[c].match
        /\ call'[c].row_count = call[c].row_count
        /\ UNCHANGED fixed /\ UNCHANGED disturbed
        /\ \E n \in Counts(c) :
               call'[c].total_matches = call[c].total_matches + n
    BY ReturnsEffect DEF TypeInv, KernelReturns
  <1>2. SUFFICES ASSUME c \notin disturbed
                 PROVE  call'[c].total_matches = Cardinality(Behind(call[c])')
    BY <1>1 DEF SumOf
  <1>3. Undisturbed(c)
    BY <1>2 DEF Undisturbed, KernelReturns, AtKernel, At, InChunk
  <1>4. SeesOwnRows(c)
    BY <1>3, SeesAll DEF KernelReturns
  <1>5. PICK H : H = ChunkHits(call[c], call[c].chunk)
    OBVIOUS
  <1>6. call'[c].total_matches = call[c].total_matches + Cardinality(H)
    BY <1>1, <1>2, <1>4, <1>5 DEF Counts
  <1>7. call[c].total_matches = Cardinality(Behind(call[c]))
    BY <1>2 DEF SumInv, SumOf
  <1>8. Behind(call[c])' = Behind(call[c]) \cup H
    <2>1. \A n : ChunkHits(call[c], n)' = ChunkHits(call[c], n)
      BY <1>1 DEF ChunkHits, LaneHit, fixed
    <2>2. PICK m \in Nat : m = call[c].chunk
      BY CallFields DEF TypeInv, TypeOK
    <2>3. 0 .. call'[c].chunk - 1 = (0 .. m - 1) \cup {m}
      BY <1>1, <2>2
    <2> QED
      BY <1>5, <2>1, <2>2, <2>3 DEF Behind
  <1> QED
    BY <1>5, <1>6, <1>7, <1>8, BehindNext DEF TypeInv

LEMMA SumStep == TypeInv /\ FillInv /\ SumInv /\ [Next]_vars => SumInv'
  <1> SUFFICES ASSUME TypeInv, FillInv, SumInv, [Next]_vars,
                      NEW c \in Callers
               PROVE  SumOf(c)'
    BY DEF SumInv
  <1>1. CASE UNCHANGED vars \/ Configure
    <2>1. UNCHANGED <<zeroMatch, call, disturbed>>
      BY <1>1 DEF vars, fixed, Configure
    <2> QED
      BY <2>1, SameSum DEF SumInv, SameCall
  <1>2. ASSUME NEW d \in Callers, Enter(d) \/ AllocFails(d) \/ Step(d)
        PROVE  SumOf(c)'
    <2>1. CASE Enter(d) \/ AllocFails(d) \/ Return(d)
      <3>1. /\ OthersGoOn(d)
            /\ call'[d].chunk = 0 /\ call'[d].total_matches = 0
        BY <2>1, EnterEffect, IdleEffect DEF Idle, TypeInv
      <3>2. UNCHANGED zeroMatch /\ disturbed' \in {disturbed, disturbed \ {d}}
        BY <2>1 DEF Enter, AllocFails, Return, fixed
      <3>3. CASE c = d
        <4>1. Behind(call[c])' = {}
          BY <3>1, <3>3 DEF Behind
        <4> QED
          BY <3>1, <3>3, <4>1, FS_EmptySet DEF SumOf
      <3> QED
        BY <3>1, <3>2, <3>3, OthersSum
    <2>2. CASE KernelReturns(d)
      <3>1. OthersGoOn(d) /\ UNCHANGED <<zeroMatch, disturbed>>
        BY <2>2, ReturnsEffect DEF TypeInv, KernelReturns, fixed
      <3> QED
        BY <2>2, <3>1, ReturnsSum, OthersSum
    <2>3. CASE BeginChunk(d) \/ Gather(d) \/ GatherNull(d) \/ Slice(d)
                 \/ Point(d)
      <3>1. \E pc, i : Works(d, pc, i)
        <4>1. CASE Point(d)
          <5>1. call[d].i <= Len(logic.fields)
            BY <4>1, ConstantTypes
            DEF Point, At, TypeInv, TypeOK, FieldThere
          <5> QED
            BY <4>1, <5>1, PointEffect DEF TypeInv
        <4> QED
          BY <2>3, <4>1, BeginEffect, GatherEffect, GatherNullEffect,
             SliceEffect DEF TypeInv
      <3>2. SameCall(d) /\ OthersGoOn(d) /\ UNCHANGED zeroMatch
        BY <3>1 DEF Works, fixed
      <3>3. c \in disturbed => c \in disturbed'
        BY <2>3 DEF BeginChunk, Gather, GatherNull, Slice, Point
      <3> QED
        BY <3>2, <3>3, SameSum, OthersSum DEF SumInv
    <2>4. CASE KernelFaults(d)
      BY <2>4, SameSum DEF KernelFaults, fixed, SumInv, SameCall
    <2> QED
      BY <1>2, <2>1, <2>2, <2>3, <2>4 DEF Step
  <1> QED
    BY <1>1, <1>2 DEF Next, Finished

-----------------------------------------------------------------------------
(* What is read behind the rows.                                           *)

Reach(c) ==
    /\ call[c].pc = "idle" => call[c].reach = 0
    /\ call[c].reach > call[c].row_count * logic.stride =>
           \E w \in Widths :
               call[c].reach <=
                   call[c].row_count * logic.stride + GatherBytes - w

ReachInv == \A c \in Callers : Reach(c)

LEMMA EndType ==
    ASSUME NEW k \in CallStates, NEW l \in Logics
    PROVE  k.row_count * l.stride \in Nat
  <1>1. k.row_count \in Nat /\ l.stride \in Nat
    BY CallFields, ScanAssumption
  <1> QED
    BY <1>1

LEMMA ReachInit == Init => ReachInv
  <1> SUFFICES ASSUME Init, NEW c \in Callers PROVE Reach(c)
    BY DEF ReachInv
  <1>1. call[c] \in CallStates /\ call[c].reach = 0 /\ logic \in Logics
    BY IdleType DEF Init, Idle
  <1>2. call[c].row_count * logic.stride \in Nat
    BY <1>1, EndType
  <1> QED
    BY <1>1, <1>2 DEF Reach

\* A call that has gathered nothing.
LEMMA NoReach ==
    ASSUME TypeInv', NEW c \in Callers, call'[c].reach = 0
    PROVE  Reach(c)'
  <1>1. call'[c] \in CallStates /\ logic' \in Logics
    BY DEF TypeInv, TypeOK
  <1>2. call'[c].row_count * logic'.stride \in Nat
    BY <1>1, EndType
  <1> QED
    BY <1>2 DEF Reach

\* The bytes gathered for a field of a row end before the next row's field.
LEMMA FieldEnd ==
    ASSUME NEW rows \in Nat, NEW last \in 0 .. rows - 1, NEW stride \in Nat,
           NEW offset \in Nat, NEW width \in Nat, offset + width <= stride
    PROVE  last * stride + offset + GatherBytes
               <= rows * stride + GatherBytes - width
  <1>1. PICK d \in Nat : rows = last + 1 + d
    <2>1. rows - last - 1 \in Nat /\ rows = last + 1 + (rows - last - 1)
      OBVIOUS
    <2> QED
      BY <2>1
  <1>2. rows * stride = last * stride + stride + d * stride
    BY <1>1
  <1>3. last * stride \in Nat /\ d * stride \in Nat
    OBVIOUS
  <1> QED
    BY <1>2, <1>3, ConstantTypes

LEMMA GatherReach ==
    ASSUME TypeInv, TypeInv', ReachInv, NEW c \in Callers, Gather(c)
    PROVE  Reach(c)'
  <1>1. PICK i : i = call[c].i
    OBVIOUS
  <1>2. /\ i \in DOMAIN logic.fields /\ logic.fields[i] # Null
        /\ i \in 1 .. Len(logic.fields)
    BY <1>1, CallFields, ConstantTypes DEF Gather, TypeInv, TypeOK
  <1>3. PICK f : f = logic.fields[i]
    OBVIOUS
  <1>4. f \in Fields /\ f.offset + f.width <= logic.stride
    <2>1. logic.fields \in Seq(Fields \cup {Null})
      BY ScanAssumption DEF TypeInv, TypeOK
    <2> QED
      BY <1>2, <1>3, <2>1, ScanAssumption DEF TypeInv, TypeOK
  <1>5. f.offset \in Nat /\ f.width \in Nat /\ logic.stride \in Nat
    BY <1>4, ScanAssumption, ConstantTypes DEF Fields, TypeInv, TypeOK
  <1>6. PICK last : last = LastRow(call[c]) * logic.stride + f.offset
                               + GatherBytes
    OBVIOUS
  <1>7. /\ LastRow(call[c]) \in 0 .. call[c].row_count - 1 /\ last \in Nat
        /\ call'[c].reach = Max({call[c].reach, last})
        /\ call'[c].pc # "idle" /\ SameCall(c) /\ UNCHANGED logic
    BY <1>1, <1>3, <1>6, GatherEffect DEF TypeInv, Works, fixed
  <1>8. call[c].row_count \in Nat /\ call[c].reach \in Nat
    BY CallFields DEF TypeInv, TypeOK
  <1>9. PICK end : end = call[c].row_count * logic.stride
    OBVIOUS
  <1>10. last <= end + GatherBytes - f.width
    BY <1>4, <1>5, <1>6, <1>7, <1>8, <1>9, FieldEnd
  <1>11. f.width \in Widths
    BY <1>2, <1>3 DEF Widths
  <1>12. call'[c].reach \in {call[c].reach, last}
    BY <1>7, <1>8, MaxOfTwo
  <1>13. Widths' = Widths
    BY <1>7 DEF Widths
  <1>14. call'[c].reach > end =>
             \E w \in Widths : call'[c].reach <= end + GatherBytes - w
    BY <1>9, <1>10, <1>11, <1>12 DEF ReachInv, Reach
  <1> QED
    BY <1>7, <1>9, <1>13, <1>14 DEF Reach, SameCall

\* A call whose rows and reach stay.
LEMMA SameReach ==
    ASSUME ReachInv, NEW c \in Callers, UNCHANGED logic,
           call'[c].reach = call[c].reach,
           call'[c].row_count = call[c].row_count,
           call'[c].pc = "idle" => call[c].pc = "idle"
    PROVE  Reach(c)'
  BY DEF ReachInv, Reach, Widths

LEMMA ReachStep ==
    TypeInv /\ TypeInv' /\ ReachInv /\ [Next]_vars => ReachInv'
  <1> SUFFICES ASSUME TypeInv, TypeInv', ReachInv, [Next]_vars,
                      NEW c \in Callers
               PROVE  Reach(c)'
    BY DEF ReachInv
  <1>1. CASE UNCHANGED vars
    BY <1>1, SameReach DEF vars, fixed
  <1>2. CASE Configure
    <2>1. call'[c].reach = 0
      BY <1>2 DEF Configure, ReachInv, Reach
    <2> QED
      BY <2>1, NoReach
  <1>3. ASSUME NEW d \in Callers, Enter(d) \/ AllocFails(d) \/ Step(d)
        PROVE  Reach(c)'
    <2>1. CASE Enter(d) \/ AllocFails(d) \/ Return(d)
      <3>1. OthersGoOn(d) /\ call'[d].reach = 0 /\ UNCHANGED logic
        BY <2>1, EnterEffect, IdleEffect
        DEF Idle, TypeInv, Enter, AllocFails, Return, fixed
      <3>2. CASE c = d
        BY <3>1, <3>2, NoReach
      <3>3. CASE c # d
        BY <3>1, <3>3, SameReach DEF OthersGoOn
      <3> QED
        BY <3>2, <3>3
    <2>2. CASE Gather(d)
      <3>1. OthersGoOn(d) /\ UNCHANGED logic
        BY <2>2, GatherEffect DEF TypeInv, Works, fixed
      <3> QED
        BY <2>2, <3>1, GatherReach, SameReach DEF OthersGoOn
    <2>3. CASE BeginChunk(d) \/ GatherNull(d) \/ Slice(d) \/ Point(d)
      <3>1. /\ \E pc, i : Works(d, pc, i) /\ pc # "idle"
            /\ call'[d].reach = call[d].reach
        <4>1. CASE Point(d)
          <5>1. call[d].i <= Len(logic.fields)
            BY <4>1, ConstantTypes
            DEF Point, At, TypeInv, TypeOK, FieldThere
          <5> QED
            BY <4>1, <5>1, PointEffect DEF TypeInv
        <4> QED
          BY <2>3, <4>1, BeginEffect, GatherNullEffect, SliceEffect DEF TypeInv
      <3>2. /\ call'[d].row_count = call[d].row_count /\ call'[d].pc # "idle"
            /\ OthersGoOn(d) /\ UNCHANGED logic
        BY <3>1 DEF Works, SameCall, fixed
      <3> QED
        BY <3>1, <3>2, SameReach DEF OthersGoOn
    <2>4. CASE KernelReturns(d)
      <3>1. /\ call'[d].row_count = call[d].row_count /\ call'[d].pc # "idle"
            /\ call'[d].reach = call[d].reach
            /\ OthersGoOn(d) /\ UNCHANGED logic
        BY <2>4, ReturnsEffect DEF TypeInv, fixed
      <3> QED
        BY <3>1, SameReach DEF OthersGoOn
    <2>5. CASE KernelFaults(d)
      BY <2>5, SameReach DEF KernelFaults, fixed
    <2> QED
      BY <1>3, <2>1, <2>2, <2>3, <2>4, <2>5 DEF Step
  <1> QED
    BY <1>1, <1>2, <1>3 DEF Next, Finished

-----------------------------------------------------------------------------
(* The inductive invariant: the calls and what they have left to do are    *)
(* well formed, an undisturbed call finds what it has set up, its sum is   *)
(* that of the chunks behind it, and the reads stay near the rows.         *)

IInv == TypeInv /\ FillInv /\ SumInv /\ ReachInv

\* The inductive invariant holds in every state of every behaviour of the
\* calls of execute on one engine (engine.cpp:89-174).
THEOREM Invariance == Spec => []IInv
  <1>1. Init => IInv
    <2>1. Init => TypeInv
      BY InitType DEF TypeInv, FieldThere, Init, Idle
    <2> QED
      BY <2>1, FillInit, SumInit, ReachInit DEF IInv
  <1>2. IInv /\ [Next]_vars => IInv'
    BY TypeStep, FillStep, SumStep, ReachStep DEF IInv
  <1> QED
    BY <1>1, <1>2, PTL DEF Spec

\* The engine's shared memory and the state of the calls keep their types
\* (include/apex/engine.hpp:78-79, engine.cpp:142-174).
THEOREM TypeCorrect == Spec => []TypeOK
  <1>1. IInv => TypeOK
    BY DEF IInv, TypeInv
  <1> QED
    BY <1>1, Invariance, PTL

\* For any number of callers, any chunk size and any logic: a kernel whose
\* call's chunks were not overlapped finds its own rows behind every plane it
\* reads (engine.cpp:111-137).
THEOREM KernelSeesOwn == Spec => []KernelSeesOwnChunk
  <1>1. IInv => KernelSeesOwnChunk
    <2> SUFFICES ASSUME IInv, NEW c \in Callers, c \notin disturbed,
                        AtKernel(c), NEW i \in Known
                 PROVE  Has(c, i)
      BY DEF KernelSeesOwnChunk, Has
    <2>1. Undisturbed(c)
      BY DEF Undisturbed, AtKernel, At, InChunk
    <2>2. /\ i \in 1 .. MaxFields /\ i <= Len(logic.fields)
          /\ logic.fields[i] # Null /\ Len(logic.fields) \in Nat
      BY ScanAssumption, ConstantTypes DEF Known, IInv, TypeInv, TypeOK
    <2>3. i \in 1 .. Len(logic.fields) /\ i < call[c].i
      BY <2>2, CallFields DEF AtKernel, IInv, TypeInv, TypeOK
    <2> QED
      BY <2>1, <2>2, <2>3 DEF IInv, FillInv, Filled
  <1> QED
    BY <1>1, Invariance, PTL

\* For any number of rows and callers: the sum of a call whose chunks were not
\* overlapped counts the matches of the chunks behind it, each once
\* (engine.cpp:161-171).
THEOREM SumExact == Spec => []SumIsExact
  <1>1. IInv => SumIsExact
    BY DEF IInv, SumInv, SumOf, SumIsExact, Behind
  <1> QED
    BY <1>1, Invariance, PTL

\* For any layout of fields within the stride: the gather reads behind the rows
\* no more bytes than a field lacks to GatherBytes (engine.cpp:93-104).
THEOREM OverReadSmall == Spec => []OverReadBounded
  <1>1. IInv => OverReadBounded
    BY DEF IInv, ReachInv, Reach, OverReadBounded
  <1> QED
    BY <1>1, Invariance, PTL

=============================================================================
