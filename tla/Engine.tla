------------------------------- MODULE Engine -------------------------------
(***************************************************************************)
(* ApexEngine (src/api/engine.cpp) with its SchemaRegistry (src/core/      *)
(* registry.cpp), called through the C API (src/api/apex_c_api.cpp) or     *)
(* directly: what is configured, and what an execution then runs on which  *)
(* bytes.                                                                  *)
(*                                                                         *)
(* An expression is abstracted to the fields it loads, in the order of     *)
(* their indices, and the indices its bit-sliced kernel reads; the kernel  *)
(* compiled from it is named by it.  What the kernel computes is the       *)
(* subject of BitSlicedKernel, ScalarKernel and ThresholdKernel, how rows  *)
(* are shared out of ParallelRunner.                                       *)
(*                                                                         *)
(* Every call allocates.  What the C API allocates for itself it also      *)
(* catches; the engine's own functions are noexcept, so an exception in    *)
(* one of them ends the process (std::terminate).                          *)
(***************************************************************************)
EXTENDS Integers, Sequences, SequencesExt

CONSTANTS
    Schemas,        \* schema names
    Names,          \* field names
    Layouts,        \* what may be registered: [stride, offset: name -> Nat]
    Exprs,          \* [fields: a sequence of names, reads: indices]
    MaxFields,      \* field buffers of an engine: 8
    MaxCalls        \* bound on the number of calls explored

ASSUME EngineAssumption ==
    /\ MaxFields \in Nat \ {0} /\ MaxCalls \in Nat
    /\ \A e \in Exprs :
        e.fields \in Seq(Names) /\ e.reads \subseteq DOMAIN e.fields

VARIABLES
    registry,           \* schemas_: schema -> its entry, at most one ever
    schema_metadata,    \* schema -> the stride of its row
    compiled_logic,     \* schema -> [field, kernel], from set_logic
    expr_logic,         \* schema -> [kernel, fields, mode]
    result,             \* what the last call did
    registrations,      \* history: schema -> the layouts registered for it
    misused,            \* history: a logic was stored that cannot be run
    terminated,         \* std::terminate was called
    calls

config == <<registry, schema_metadata, compiled_logic, expr_logic>>
history == <<registrations, misused>>
vars == <<config, result, history, terminated, calls>>

Modes == {"BIT_SLICED", "SCALAR"}

Null == [schema |-> "none"]

Put(f, x, v) == [y \in DOMAIN f \cup {x} |-> IF y = x THEN v ELSE f[y]]

\* A descriptor's address: which entry of the registry it lies in.
Pointer(s, name) == [schema |-> s, name |-> name, entry |-> registry[s].entry]

\* SchemaRegistry::get_field.
GetField(s, name) ==
    IF s \in DOMAIN registry /\ name \in DOMAIN registry[s].offset
    THEN Pointer(s, name)
    ELSE Null

Offset(p) == registry[p.schema].offset[p.name]

Idle == [call |-> "none"]

Call ==
    /\ ~terminated
    /\ calls < MaxCalls /\ calls' = calls + 1

\* The call comes back.
Returns == terminated' = terminated

\* Mutant: the functions of the engine are not noexcept, and the C API's
\* catch (...) returns -1.
ThrowsToCaller == terminated' = terminated

\* A bad_alloc inside a function of the engine.
Throws == terminated' = TRUE

Init ==
    /\ registry = <<>>
    /\ schema_metadata = <<>>
    /\ compiled_logic = <<>>
    /\ expr_logic = <<>>
    /\ result = Idle
    /\ registrations = [s \in Schemas |-> <<>>]
    /\ misused = FALSE
    /\ terminated = FALSE
    /\ calls = 0

-----------------------------------------------------------------------------
(* Configuration.                                                          *)

Entry(s, layout) ==
    [entry |-> Len(registrations[s]) + 1, offset |-> layout.offset]

\* Mutant: schemas_[name] = ... in place of emplace.
RegistryReplaces(s, layout) == Put(registry, s, Entry(s, layout))

\* emplace leaves an entry that is there as it is.
RegistryAfter(s, layout) ==
    IF s \in DOMAIN registry THEN registry
    ELSE Put(registry, s, Entry(s, layout))

RegisterSchema(s, layout) ==
    /\ Call
    /\ registry' = RegistryAfter(s, layout)
    /\ schema_metadata' = Put(schema_metadata, s, layout.stride)
    /\ registrations' = [registrations EXCEPT ![s] = Append(@, layout)]
    /\ result' = Idle /\ Returns
    /\ UNCHANGED <<compiled_logic, expr_logic, misused>>

\* The two maps are changed one after the other, and either may fail.
RegisterSchemaThrows(s, layout) ==
    /\ Call
    /\ registry' \in {registry, RegistryAfter(s, layout)}
    /\ result' = Idle /\ Throws
    /\ UNCHANGED <<schema_metadata, compiled_logic, expr_logic, history>>

\* A null argument, or the C API cannot convert the descriptors: -1.
CallRefused ==
    /\ Call
    /\ result' = Idle /\ Returns
    /\ UNCHANGED <<config, history>>

\* The field is unknown: nothing happens.
SetLogicIgnored(s, name) ==
    /\ Call
    /\ GetField(s, name) = Null
    /\ result' = Idle /\ Returns
    /\ UNCHANGED <<config, history>>

\* compile_comparison may fail; its nullptr is stored all the same.
SetLogic(s, name) ==
    /\ Call
    /\ GetField(s, name) # Null
    /\ \E kernel \in {"threshold", "nullptr"} :
        /\ compiled_logic' = Put(compiled_logic, s,
               [field |-> GetField(s, name), kernel |-> kernel])
        /\ misused' = (misused \/ kernel = "nullptr")
    /\ result' = Idle /\ Returns
    /\ UNCHANGED <<registry, schema_metadata, expr_logic, registrations>>

\* set_logic and set_expression change their map at the very end: the key, the
\* vector of fields or the map's entry cannot be allocated.
SetThrows ==
    /\ Call
    /\ result' = Idle /\ Throws
    /\ UNCHANGED <<config, history>>

FirstOf(n) == 1 .. (IF n < MaxFields THEN n ELSE MaxFields)

\* collect_fields: slot i is for field index i; an unknown name leaves it null.
Collected(s, e) ==
    [i \in FirstOf(Len(e.fields)) |-> GetField(s, e.fields[i])]

\* Mutant: the vector is cut after the last index instead of behind it.
TrimShort(fields) ==
    LET known == {i \in DOMAIN fields : fields[i] # Null}
    IN  SubSeq(fields, 1, IF known = {} THEN 0 ELSE Max(known) - 1)

\* Mutant: every null is removed.
TrimAll(fields) == SelectSeq(fields, LAMBDA p : p # Null)

\* Trailing nulls are removed, nulls before a known field stay.
Trim(fields) ==
    LET known == {i \in DOMAIN fields : fields[i] # Null}
    IN  SubSeq(fields, 1, IF known = {} THEN 0 ELSE Max(known))

\* The compiler's limits: the scalar compiler has none.
Compiles(e, mode) == mode = "BIT_SLICED" => Len(e.fields) <= MaxFields

\* Cannot be run: a field of it has no descriptor.
Incomplete(s, e) ==
    \E i \in DOMAIN e.fields : i > MaxFields \/ GetField(s, e.fields[i]) = Null

SetExpression(s, e, mode) ==
    /\ Call
    /\ Compiles(e, mode)
    /\ expr_logic' = Put(expr_logic, s,
           [kernel |-> e, fields |-> Trim(Collected(s, e)), mode |-> mode])
    /\ misused' = (misused \/ Incomplete(s, e))
    /\ result' = Idle /\ Returns
    /\ UNCHANGED <<registry, schema_metadata, compiled_logic, registrations>>

\* The compiler returns nullptr, by a limit or because JitRuntime::add fails:
\* what was configured before stays, and apex_set_logic returns 0 all the same.
SetExpressionFails(s, e, mode) ==
    /\ Call
    /\ result' = Idle /\ Returns
    /\ UNCHANGED <<config, history>>

-----------------------------------------------------------------------------
(* Execution.  An outcome says which kernel ran, in which mode, and where  *)
(* its fields were gathered from.                                          *)

Zero == [status |-> "zero"]

\* A null pointer is followed, or a plane behind the array is read.
Undefined == [status |-> "undefined"]

Ran(s, logic) ==
    [status |-> "ran", schema |-> s, kernel |-> logic.kernel,
     mode |-> logic.mode, stride |-> schema_metadata[s],
     offsets |-> [i \in {j \in DOMAIN logic.fields : logic.fields[j] # Null}
                      |-> Offset(logic.fields[i])]]

\* The indices of the field planes the kernel reads.
Reads(logic) ==
    IF logic.mode = "SCALAR" THEN DOMAIN logic.kernel.fields
    ELSE logic.kernel.reads

NullPlaneRead(logic) ==
    \E i \in Reads(logic) : i > Len(logic.fields) \/ logic.fields[i] = Null

\* process_chunk_expr passes a null plane for a null field.
SerialOutcome(s, rows) ==
    CASE s \notin DOMAIN schema_metadata -> Zero
      [] s \in DOMAIN schema_metadata /\ rows = 0 -> Zero
      [] OTHER -> IF NullPlaneRead(expr_logic[s]) THEN Undefined
                  ELSE Ran(s, expr_logic[s])

\* ParallelRunner::run: its workers follow every field pointer.
ParallelOutcome(s, rows) ==
    CASE s \notin DOMAIN schema_metadata -> Zero
      [] s \in DOMAIN schema_metadata /\ rows = 0 -> Zero
      [] OTHER -> IF NullPlaneRead(expr_logic[s])
                       \/ Contains(expr_logic[s].fields, Null)
                  THEN Undefined
                  ELSE Ran(s, expr_logic[s])

\* The kernel of set_logic takes one plane.
LegacyOutcome(s, rows) ==
    LET logic == compiled_logic[s]
    IN  CASE s \notin DOMAIN schema_metadata -> Zero
          [] s \in DOMAIN schema_metadata /\ rows = 0 -> Zero
          [] OTHER -> IF logic.kernel = "nullptr" THEN Undefined
                      ELSE Ran(s, [kernel |-> logic.kernel,
                                   mode |-> "LEGACY",
                                   fields |-> <<logic.field>>])

\* apex_execute returns 0 for Zero, otherwise the kernels' count.
Executed(call, outcome) == [call |-> call, outcome |-> outcome]

\* expr_logic_.begin(): the order of an unordered_map is unspecified.
Execute(rows) ==
    /\ Call /\ Returns
    /\ \E s \in DOMAIN expr_logic :
        result' = Executed("execute", SerialOutcome(s, rows))
    /\ UNCHANGED <<config, history>>

\* posix_memalign fails.
ExecuteAllocFails(rows) ==
    /\ Call /\ Returns
    /\ \E s \in DOMAIN expr_logic : s \in DOMAIN schema_metadata
    /\ result' = Executed("execute", Zero)
    /\ UNCHANGED <<config, history>>

ExecuteParallel(rows) ==
    /\ Call /\ Returns
    /\ \E s \in DOMAIN expr_logic :
        result' = Executed("execute_parallel", ParallelOutcome(s, rows))
    /\ UNCHANGED <<config, history>>

\* The vector of fields cannot be copied.
ExecuteParallelThrows ==
    /\ Call
    /\ \E s \in DOMAIN expr_logic : s \in DOMAIN schema_metadata
    /\ result' = Idle /\ Throws
    /\ UNCHANGED <<config, history>>

\* The fall-back of execute, and of execute_parallel, to set_logic's kernel.
ExecuteLegacy(rows) ==
    /\ Call /\ Returns
    /\ DOMAIN expr_logic = {}
    /\ \E s \in DOMAIN compiled_logic :
        result' = Executed("execute", LegacyOutcome(s, rows))
    /\ UNCHANGED <<config, history>>

ExecuteNothing(rows) ==
    /\ Call /\ Returns
    /\ DOMAIN expr_logic = {} /\ DOMAIN compiled_logic = {}
    /\ result' = Executed("execute", Zero)
    /\ UNCHANGED <<config, history>>

-----------------------------------------------------------------------------
Configure(s) ==
    \/ \E layout \in Layouts :
        RegisterSchema(s, layout) \/ RegisterSchemaThrows(s, layout)
    \/ CallRefused
    \/ SetThrows
    \/ \E name \in Names : SetLogicIgnored(s, name) \/ SetLogic(s, name)
    \/ \E e \in Exprs, mode \in Modes :
        SetExpression(s, e, mode) \/ SetExpressionFails(s, e, mode)

Run(rows) ==
    \/ Execute(rows)
    \/ ExecuteAllocFails(rows)
    \/ ExecuteParallel(rows)
    \/ ExecuteParallelThrows
    \/ ExecuteLegacy(rows)
    \/ ExecuteNothing(rows)

Finished == (terminated \/ calls = MaxCalls) /\ UNCHANGED vars

Next ==
    \/ \E s \in Schemas : Configure(s)
    \/ \E rows \in {0, 1} : Run(rows)
    \/ Finished

Spec == Init /\ [][Next]_vars

-----------------------------------------------------------------------------
(* Properties.                                                             *)

\* The maps of the engine hold schemas and entries of their type.
TypeOK ==
    /\ DOMAIN registry \subseteq Schemas
    /\ DOMAIN schema_metadata \subseteq Schemas
    /\ DOMAIN compiled_logic \subseteq Schemas
    /\ \A s \in DOMAIN expr_logic :
        /\ expr_logic[s].kernel \in Exprs
        /\ expr_logic[s].mode \in Modes
        /\ Len(expr_logic[s].fields) <= MaxFields
    /\ misused \in BOOLEAN /\ terminated \in BOOLEAN
    /\ calls \in 0 .. MaxCalls

Valid(p) ==
    /\ p.schema \in DOMAIN registry
    /\ p.name \in DOMAIN registry[p.schema].offset
    /\ p.entry = registry[p.schema].entry

\* The raw descriptor pointers kept in compiled_logic_ and expr_logic_ stay
\* valid whatever is registered after them: an entry of the registry is never
\* replaced (registry.cpp:20, engine.cpp:34, engine.cpp:77).
PointersStayValid ==
    /\ \A s \in DOMAIN compiled_logic : Valid(compiled_logic[s].field)
    /\ \A s \in DOMAIN expr_logic : \A i \in DOMAIN expr_logic[s].fields :
        expr_logic[s].fields[i] # Null => Valid(expr_logic[s].fields[i])

Executions == {"execute", "execute_parallel"}

\* A kernel that runs gathers, in every mode and for every field index it reads,
\* the bytes the first registration of its schema gives the name the index was
\* handed out for, with the stride of the last one: of one layout if the schema
\* was registered once, and a mixture of two otherwise (engine.cpp:23-24).
RunReadsRegistered ==
    result.call \in Executions /\ result.outcome.status = "ran" =>
        LET r == result.outcome
            layouts == registrations[r.schema]
        IN  /\ layouts # <<>>
            /\ r.stride = layouts[Len(layouts)].stride
            /\ r.mode \in Modes =>
                \A i \in DOMAIN r.offsets :
                    /\ r.kernel.fields[i] \in DOMAIN layouts[1].offset
                    /\ r.offsets[i] = layouts[1].offset[r.kernel.fields[i]]

\* An execution follows a null pointer or leaves an array only if a logic was
\* stored earlier that could not be run: a field unknown at that time, more
\* fields than buffers in scalar mode, or a failed compile_comparison.
\* Registering the schema afterwards does not mend it.
UndefinedOnlyIfMisused ==
    result.call \in Executions /\ result.outcome.status = "undefined" =>
        misused

\* Logics that have found a field of their schema.
Resolved ==
    DOMAIN compiled_logic \cup
        {s \in DOMAIN expr_logic : \E i \in DOMAIN expr_logic[s].fields :
            expr_logic[s].fields[i] # Null}

\* Wherever an allocation fails, a process that goes on has no schema with
\* fields but no stride, or a stride but no fields, although the two are stored
\* one after the other (engine.cpp:23-24): a logic that found one of its fields
\* is never answered with a silent 0 for want of a stride.
RegisteredWhole ==
    ~terminated =>
        /\ DOMAIN registry = DOMAIN schema_metadata
        /\ Resolved \subseteq DOMAIN schema_metadata

=============================================================================
