------------------------------ MODULE SerialScan ------------------------------
(***************************************************************************)
(* ApexEngine::execute with process_chunk_expr and gather_field            *)
(* (src/api/engine.cpp), called by several threads on one engine.  The     *)
(* gather buffers and the array of plane pointers belong to the engine     *)
(* (include/apex/engine.hpp:78-79) and are not locked: two chunks that are *)
(* processed at the same time overwrite each other's.  The scratchpad and  *)
(* the sum belong to the call.                                             *)
(*                                                                         *)
(* The content of a gather buffer is the rows it was filled from: which    *)
(* call's, which chunk, which field, and whether they have been turned     *)
(* into planes.  What a kernel returns is exact for the rows of its own    *)
(* chunk; once two chunks overlapped, a data race, it is any mask.         *)
(***************************************************************************)
EXTENDS Integers, Sequences, FiniteSets, FiniteSetsExt

CONSTANTS
    Callers,        \* threads that call execute
    Block,          \* rows of a chunk: 64
    GatherBytes,    \* bytes memcpy takes from a row: 8
    MaxFields,      \* gather buffers of an engine: 8
    Null,           \* a field the schema does not know
    Logics,         \* [path, mode, stride, fields, reads], see MCSerialScan
    Data,           \* what is scanned: [row_count, match: the rows that match]
    MaxCalls        \* bound on the calls explored

Fields == [offset : Nat, width : 1 .. GatherBytes]

\* Fields lie within a row and are at most GatherBytes wide; set_logic leaves
\* with a field it does not know.
ASSUME ScanAssumption ==
    /\ Block \in Nat \ {0} /\ GatherBytes \in Nat \ {0}
    /\ MaxFields \in Nat /\ MaxCalls \in Nat
    /\ \A d \in Data : d.row_count \in Nat /\ d.match \subseteq Nat
    /\ \A l \in Logics :
        /\ l.path \in {"legacy", "expr"}
        /\ l.fields \in Seq(Fields \cup {Null}) /\ Len(l.fields) <= MaxFields
        /\ l.reads \subseteq 1 .. MaxFields
        /\ l.stride \in Nat
        /\ \A i \in DOMAIN l.fields :
            l.fields[i] # Null =>
                l.fields[i].offset + l.fields[i].width <= l.stride
        /\ l.path = "legacy" =>
            \A i \in l.reads : i \in DOMAIN l.fields /\ l.fields[i] # Null

VARIABLES
    logic,          \* the logic that is configured
    zeroMatch,      \* whether the kernel matches a row of zeros
    field_buffers,  \* the gather buffers
    field_planes_array, \* which plane pointers are set; i to buffer i
    call,           \* what every caller is doing
    disturbed,      \* history: callers one of whose chunks was overlapped
    crashed,        \* a null plane was read
    calls

engine == <<field_buffers, field_planes_array>>
fixed == <<logic, zeroMatch>>
vars == <<fixed, engine, call, disturbed, crashed, calls>>

Indices == 1 .. MaxFields

\* Never written, or by an engine that is gone.
Junk == [call |-> 0, chunk |-> 0, field |-> Null, form |-> "raw"]

Idle == [pc |-> "idle", id |-> 0, row_count |-> 0, match |-> {}, chunk |-> 0,
         i |-> 1, total_matches |-> 0, reach |-> 0]

Init ==
    /\ logic \in Logics
    /\ zeroMatch \in BOOLEAN
    /\ field_buffers = [i \in Indices |-> Junk]
    /\ field_planes_array = {}
    /\ call = [c \in Callers |-> Idle]
    /\ disturbed = {}
    /\ crashed = FALSE
    /\ calls = 0

\* set_expression or set_logic between two calls.
Configure ==
    /\ ~crashed /\ calls < MaxCalls
    /\ \A c \in Callers : call[c].pc = "idle"
    /\ logic' \in Logics \ {logic}
    /\ UNCHANGED <<zeroMatch, engine, call, disturbed, crashed, calls>>

-----------------------------------------------------------------------------
(* The rows of a call.                                                     *)

LaneHit(r, k) == IF r < k.row_count THEN r \in k.match ELSE zeroMatch

\* The lanes of chunk n that match; the lanes behind the last row hold zeros.
ChunkHits(k, n) ==
    {r \in n * Block .. n * Block + Block - 1 : LaneHit(r, k)}

\* Inside process_chunk_expr, or the body of the legacy loop.
InChunk(c) == call[c].pc \in {"gather", "slice", "point"}

At(c, pc) == ~crashed /\ call[c].pc = pc

Expr == logic.path = "expr"

-----------------------------------------------------------------------------
(* execute                                                                 *)

Enter(c) ==
    /\ At(c, "idle")
    /\ calls < MaxCalls
    /\ calls' = calls + 1
    /\ \E d \in Data :
        call' = [call EXCEPT ![c] =
            [pc |-> "loop", id |-> calls + 1, row_count |-> d.row_count,
             match |-> d.match, chunk |-> 0, i |-> 1, total_matches |-> 0,
             reach |-> 0]]
    /\ disturbed' = disturbed \ {c}
    /\ UNCHANGED <<fixed, engine, crashed>>

\* posix_memalign fails: the call returns 0.
AllocFails(c) ==
    /\ At(c, "loop")
    /\ Expr /\ call[c].chunk = 0
    /\ call' = [call EXCEPT ![c] = Idle]
    /\ UNCHANGED <<fixed, engine, disturbed, crashed, calls>>

\* The memset of the plane array; the history notes an overlap.
BeginChunk(c) ==
    /\ At(c, "loop")
    /\ call[c].chunk * Block < call[c].row_count
    /\ field_planes_array' = IF Expr THEN {} ELSE field_planes_array
    /\ call' = [call EXCEPT ![c] = [@ EXCEPT !.pc = "gather", !.i = 1]]
    /\ LET others == {d \in Callers \ {c} : InChunk(d)}
       IN  disturbed' =
               IF others = {} THEN disturbed ELSE disturbed \cup others \cup {c}
    /\ UNCHANGED <<fixed, field_buffers, crashed, calls>>

\* Mutant: a full block is gathered from the last chunk too.
LastRowOfBlock(k) == k.chunk * Block + Block - 1

\* The last row gathered, rows_to_gather of them.
LastRow(k) == Min({k.row_count, k.chunk * Block + Block}) - 1

Content(k, form) ==
    [call |-> k.id, chunk |-> k.chunk, field |-> logic.fields[k.i],
     form |-> form]

\* Mutant: a buffer that holds this field of a chunk of this number is kept.
GatherCached(c) ==
    LET k == call[c]
        kept == /\ field_buffers[k.i].field = logic.fields[k.i]
                /\ field_buffers[k.i].chunk = k.chunk
    IN  /\ At(c, "gather")
        /\ k.i <= Len(logic.fields) /\ logic.fields[k.i] # Null
        /\ field_buffers' = IF kept THEN field_buffers
               ELSE [field_buffers EXCEPT ![k.i] = Content(k, "raw")]
        /\ call' = [call EXCEPT
               ![c].pc = IF logic.mode = "BIT_SLICED" /\ ~kept THEN "slice"
                         ELSE "point"]
        /\ UNCHANGED <<fixed, field_planes_array, disturbed, crashed, calls>>

\* GatherBytes bytes of every row from the field's offset on, whatever the
\* field's width.
Gather(c) ==
    LET k == call[c]
    IN  /\ At(c, "gather")
        /\ k.i <= Len(logic.fields) /\ logic.fields[k.i] # Null
        /\ field_buffers' = [field_buffers EXCEPT ![k.i] = Content(k, "raw")]
        /\ call' = [call EXCEPT ![c] = [@ EXCEPT
               !.pc = IF logic.mode = "BIT_SLICED" THEN "slice" ELSE "point",
               !.reach = Max({k.reach, LastRow(k) * logic.stride
                                  + logic.fields[k.i].offset + GatherBytes})]]
        /\ UNCHANGED <<fixed, field_planes_array, disturbed, crashed, calls>>

GatherNull(c) ==
    LET k == call[c]
    IN  /\ At(c, "gather")
        /\ k.i <= Len(logic.fields) /\ logic.fields[k.i] = Null
        /\ field_planes_array' = field_planes_array \ {k.i}
        /\ call' = [call EXCEPT ![c].i = k.i + 1]
        /\ UNCHANGED <<fixed, field_buffers, disturbed, crashed, calls>>

\* Transposing twice gives the rows back.
Transposed(content) ==
    [content EXCEPT !.form = IF @ = "raw" THEN "planes" ELSE "raw"]

\* Mutant: always the first buffer.
SliceFirst(c) ==
    /\ At(c, "slice")
    /\ field_buffers' = [field_buffers EXCEPT ![1] = Transposed(@)]
    /\ call' = [call EXCEPT ![c].pc = "point"]
    /\ UNCHANGED <<fixed, field_planes_array, disturbed, crashed, calls>>

\* slicer_.slice, in place.
Slice(c) ==
    /\ At(c, "slice")
    /\ field_buffers' = [field_buffers EXCEPT ![call[c].i] = Transposed(@)]
    /\ call' = [call EXCEPT ![c].pc = "point"]
    /\ UNCHANGED <<fixed, field_planes_array, disturbed, crashed, calls>>

\* The legacy path hands its only buffer to the kernel without the array.
Point(c) ==
    /\ At(c, "point")
    /\ field_planes_array' = IF Expr THEN field_planes_array \cup {call[c].i}
                             ELSE field_planes_array
    /\ call' = [call EXCEPT ![c] =
           [@ EXCEPT !.pc = "gather", !.i = call[c].i + 1]]
    /\ UNCHANGED <<fixed, field_buffers, disturbed, crashed, calls>>

\* All planes are set up: the kernel is called.
AtKernel(c) == At(c, "gather") /\ call[c].i > Len(logic.fields)

NullPlaneRead == Expr /\ \E i \in logic.reads : i \notin field_planes_array

KernelFaults(c) ==
    /\ AtKernel(c)
    /\ NullPlaneRead
    /\ crashed' = TRUE
    /\ UNCHANGED <<fixed, engine, call, disturbed, calls>>

\* What a buffer must hold for the kernel to see the rows of its chunk.
Required(k, i) ==
    [call |-> k.id, chunk |-> k.chunk, field |-> logic.fields[i],
     form |-> IF logic.mode = "BIT_SLICED" THEN "planes" ELSE "raw"]

SeesOwnRows(c) ==
    \A i \in logic.reads :
        /\ i <= Len(logic.fields)
        /\ field_buffers[i] = Required(call[c], i)

\* The population counts the kernel's mask may have.
Counts(c) ==
    IF SeesOwnRows(c) /\ c \notin disturbed
    THEN {Cardinality(ChunkHits(call[c], call[c].chunk))}
    ELSE 0 .. Block

\* The popcount is added.
KernelReturns(c) ==
    /\ AtKernel(c) /\ ~NullPlaneRead
    /\ \E n \in Counts(c) :
        call' = [call EXCEPT ![c] = [@ EXCEPT
            !.pc = "loop", !.chunk = call[c].chunk + 1,
            !.total_matches = call[c].total_matches + n]]
    /\ UNCHANGED <<fixed, engine, disturbed, crashed, calls>>

\* total_matches is returned.
Return(c) ==
    /\ At(c, "loop")
    /\ call[c].chunk * Block >= call[c].row_count
    /\ call' = [call EXCEPT ![c] = Idle]
    /\ UNCHANGED <<fixed, engine, disturbed, crashed, calls>>

-----------------------------------------------------------------------------
Step(c) ==
    \/ BeginChunk(c)
    \/ Gather(c)
    \/ GatherNull(c)
    \/ Slice(c)
    \/ Point(c)
    \/ KernelFaults(c)
    \/ KernelReturns(c)
    \/ Return(c)

\* The process is gone, or the calls of the model are used up.
Finished ==
    /\ crashed \/ (calls = MaxCalls /\ \A c \in Callers : call[c].pc = "idle")
    /\ UNCHANGED vars

Next ==
    \/ Configure
    \/ \E c \in Callers : Enter(c) \/ AllocFails(c) \/ Step(c)
    \/ Finished

Spec == Init /\ [][Next]_vars

-----------------------------------------------------------------------------
(* Properties.                                                             *)

CallStates ==
    [pc : {"idle", "loop", "gather", "slice", "point"}, id : Nat,
     row_count : Nat, match : SUBSET Nat, chunk : Nat, i : 1 .. MaxFields + 1,
     total_matches : Nat, reach : Nat]

\* The shared buffers and the local state of the calls have their types.
TypeOK ==
    /\ logic \in Logics
    /\ DOMAIN field_buffers = Indices
    /\ field_planes_array \subseteq Indices
    /\ call \in [Callers -> CallStates]
    /\ disturbed \subseteq Callers
    /\ calls \in 0 .. MaxCalls

Known == {i \in logic.reads : i <= Len(logic.fields) /\ logic.fields[i] # Null}

\* However dirty earlier calls, earlier logics or overlapping calls have left
\* buffers and plane array: a kernel finds the rows of its own chunk behind
\* every plane it reads, gathered for its own call and sliced exactly once in
\* bit-sliced mode and not at all in scalar mode, unless the processing of one
\* of this call's chunks was overlapped by another's (engine.cpp:111-137).
KernelSeesOwnChunk ==
    \A c \in Callers \ disturbed :
        AtKernel(c) =>
            \A i \in Known :
                /\ field_buffers[i] = Required(call[c], i)
                /\ Expr => i \in field_planes_array

\* Calls of several threads may overlap as long as their chunks do not: the sum
\* of every such call is at any time the exact count of the rows and padding
\* lanes of the chunks behind it, and so is what it returns
\* (engine.cpp:161-171).
SumIsExact ==
    \A c \in Callers \ disturbed :
        call[c].total_matches =
            Cardinality(UNION {ChunkHits(call[c], n) :
                                   n \in 0 .. call[c].chunk - 1})

Widths == {logic.fields[i].width : i \in
              {j \in DOMAIN logic.fields : logic.fields[j] # Null}}

\* The gather reads behind the caller's rows at most the bytes that a field
\* lacks to GatherBytes (engine.cpp:93-104): nothing if all are 64 bits wide,
\* and only from the last row.
OverReadBounded ==
    \A c \in Callers :
        LET end == call[c].row_count * logic.stride
        IN  call[c].reach > end =>
                \E w \in Widths : call[c].reach <= end + GatherBytes - w

=============================================================================
