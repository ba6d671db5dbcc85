----------------------------- MODULE EngineProofs -----------------------------
(***************************************************************************)
(* The engine's configuration, for every set of schemas, layouts and       *)
(* expressions: the pointers it keeps stay valid, a run reads what was     *)
(* registered, and no schema is left half registered.                      *)
(***************************************************************************)
EXTENDS Engine, SequenceTheorems, NaturalsInduction, WellFoundedInduction,
        TLAPS

-----------------------------------------------------------------------------
(* Maps and vectors.                                                       *)

\* A bounded set of indices has a last one.
LEMMA LastIndex ==
    ASSUME NEW n \in Nat, NEW S \in SUBSET (1 .. n), S # {}
    PROVE  Max(S) \in S /\ \A i \in S : i <= Max(S)
  <1> DEFINE T == {m \in Nat : \A i \in S : i <= m}
  <1>1. T \subseteq Nat /\ n \in T
    OBVIOUS
  <1>2. PICK m \in T : \A k \in T : ~ (<<k, m>> \in OpToRel(<, Nat))
    BY <1>1, NatLessThanWellFounded, WFMin
  <1>3. m \in S
    <2>1. SUFFICES ASSUME m \notin S PROVE FALSE
      OBVIOUS
    <2>2. m - 1 \in T
      <3>1. \A i \in S : i \in Int /\ i >= 1 /\ i <= m /\ i # m
        BY <2>1
      <3>2. m \in Nat /\ m >= 1
        <4>1. PICK i \in S : TRUE
          OBVIOUS
        <4>2. m \in Nat
          OBVIOUS
        <4> HIDE DEF T
        <4> QED
          BY <3>1, <4>1, <4>2
      <3>3. \A i \in S : i <= m - 1
        BY <3>1, <3>2
      <3> QED
        BY <3>2, <3>3
    <2>3. <<m - 1, m>> \in OpToRel(<, Nat)
      BY <2>2, <1>1 DEF OpToRel
    <2> QED
      BY <1>2, <2>2, <2>3
  <1>4. \E x \in S : \A y \in S : x >= y
    BY <1>3
  <1>5. Max(S) \in S /\ \A y \in S : Max(S) >= y
    BY <1>4 DEF Max
  <1> QED
    BY <1>5

\* What is left after the trailing nulls are removed is a prefix, the whole
\* vector if there are none.
LEMMA TrimEffect ==
    ASSUME NEW E, NEW f \in Seq(E)
    PROVE  /\ Trim(f) \in Seq(E)
           /\ Len(Trim(f)) <= Len(f)
           /\ \A i \in 1 .. Len(Trim(f)) : Trim(f)[i] = f[i]
           /\ (\A i \in 1 .. Len(f) : f[i] # Null) => Len(Trim(f)) = Len(f)
  <1> DEFINE known == {i \in DOMAIN f : f[i] # Null}
             n == IF known = {} THEN 0 ELSE Max(known)
  <1>1. DOMAIN f = 1 .. Len(f) /\ Len(f) \in Nat
    OBVIOUS
  <1>2. /\ n \in 0 .. Len(f)
        /\ \A i \in known : i <= n
    <2>1. known \in SUBSET (1 .. Len(f))
      BY <1>1
    <2>2. CASE known = {}
      BY <1>1, <2>2
    <2>3. CASE known # {}
      <3>1. Max(known) \in known /\ \A i \in known : i <= Max(known)
        BY ONLY <1>1, <2>1, <2>3, LastIndex
      <3> QED
        BY <1>1, <2>1, <2>3, <3>1
    <2> QED
      BY <2>2, <2>3
  <1>3. Trim(f) = SubSeq(f, 1, n)
    BY DEF Trim
  <1>4. (\A i \in 1 .. Len(f) : f[i] # Null) => n = Len(f)
    <2>1. SUFFICES ASSUME \A i \in 1 .. Len(f) : f[i] # Null
                   PROVE  n = Len(f)
      OBVIOUS
    <2>2. CASE Len(f) = 0
      BY <1>2, <2>2
    <2>3. CASE Len(f) # 0
      <3>1. Len(f) \in known
        BY <1>1, <2>1, <2>3
      <3>2. n \in 0 .. Len(f) /\ Len(f) <= n
        BY <1>2, <3>1
      <3>3. \A l, m \in Nat : m \in 0 .. l /\ l <= m => m = l
        OBVIOUS
      <3>4. n \in Nat
        BY <1>2
      <3> QED
        BY ONLY <1>1, <3>2, <3>3, <3>4
    <2> QED
      BY <2>2, <2>3
  <1> HIDE DEF n
  <1>5. /\ SubSeq(f, 1, n) \in Seq(E)
        /\ Len(SubSeq(f, 1, n)) = n
        /\ \A i \in 1 .. n : SubSeq(f, 1, n)[i] = f[i]
    BY <1>1, <1>2
  <1> QED
    BY <1>2, <1>3, <1>4, <1>5

\* collect_fields hands out a slot for every index the engine has a buffer for.
LEMMA CollectedEffect ==
    ASSUME NEW s, NEW e \in Exprs
    PROVE  \E E : /\ Collected(s, e) \in Seq(E)
                  /\ Len(Collected(s, e)) <= Len(e.fields)
                  /\ Len(Collected(s, e)) <= MaxFields
                  /\ Len(e.fields) <= MaxFields =>
                         Len(Collected(s, e)) = Len(e.fields)
                  /\ \A i \in 1 .. Len(Collected(s, e)) :
                         Collected(s, e)[i] = GetField(s, e.fields[i])
  <1> DEFINE n == IF Len(e.fields) < MaxFields THEN Len(e.fields)
                  ELSE MaxFields
             E == {GetField(s, e.fields[i]) : i \in 1 .. n}
  <1>1. n \in Nat /\ n <= Len(e.fields) /\ n <= MaxFields
        /\ (Len(e.fields) <= MaxFields => n = Len(e.fields))
    BY EngineAssumption
  <1>2. FirstOf(Len(e.fields)) = 1 .. n
    BY DEF FirstOf
  <1>3. Collected(s, e) = [i \in 1 .. n |-> GetField(s, e.fields[i])]
    BY <1>2 DEF Collected
  <1> HIDE DEF n
  <1>4. Collected(s, e) \in Seq(E) /\ Len(Collected(s, e)) = n
    BY <1>1, <1>3
  <1>5. \A i \in 1 .. n : Collected(s, e)[i] = GetField(s, e.fields[i])
    BY <1>3
  <1> HIDE DEF E
  <1> QED
    BY <1>1, <1>4, <1>5

-----------------------------------------------------------------------------
(* The registry and what was registered.                                   *)

\* The first layout of a schema is the one its fields come from; the stride is
\* that of the last one.
SchemaInv(s) ==
    /\ s \in DOMAIN registry <=> Len(registrations[s]) # 0
    /\ s \in DOMAIN schema_metadata <=> Len(registrations[s]) # 0
    /\ Len(registrations[s]) # 0 =>
        /\ registry[s].offset = registrations[s][1].offset
        /\ schema_metadata[s] = registrations[s][Len(registrations[s])].stride

RegInv ==
    /\ registrations \in [Schemas -> Seq(Layouts)]
    /\ DOMAIN registry \subseteq Schemas
    /\ DOMAIN schema_metadata \subseteq Schemas
    /\ misused \in BOOLEAN
    /\ terminated \in BOOLEAN
    /\ calls \in 0 .. MaxCalls
    /\ terminated \/ \A s \in Schemas : SchemaInv(s)

\* An entry of the registry stays as it is.
RegistryKept ==
    \A s \in DOMAIN registry :
        s \in DOMAIN registry' /\ registry'[s] = registry[s]

\* A descriptor pointer kept in a logic of s for the field named name.
Points(p, s, name) == p.schema = s /\ p.name = name /\ Valid(p)

LEMMA PointsStays ==
    ASSUME NEW p, NEW s, NEW name, Points(p, s, name), RegistryKept
    PROVE  Points(p, s, name)'
  BY DEF Points, Valid, RegistryKept

LEMMA GetFieldPoints ==
    ASSUME NEW s, NEW name, GetField(s, name) # Null
    PROVE  Points(GetField(s, name), s, name)
  BY DEF GetField, Pointer, Points, Valid

\* An entry that is there stays, another is added.
LEMMA RegistryAfterKeeps ==
    ASSUME NEW s, NEW layout, registry' = RegistryAfter(s, layout)
    PROVE  /\ RegistryKept
           /\ DOMAIN registry' = DOMAIN registry \cup {s}
           /\ s \notin DOMAIN registry =>
                  registry'[s].offset = layout.offset
  <1> DEFINE entry == Entry(s, layout)
  <1>1. entry.offset = layout.offset
    BY DEF Entry
  <1>2. CASE s \in DOMAIN registry
    BY <1>2 DEF RegistryAfter, RegistryKept
  <1>3. CASE s \notin DOMAIN registry
    <2>1. registry' = Put(registry, s, entry)
      BY <1>3 DEF RegistryAfter
    <2> HIDE DEF entry
    <2> QED
      BY <1>1, <1>3, <2>1 DEF Put, RegistryKept
  <1> QED
    BY <1>2, <1>3

LEMMA RegisterEffect ==
    ASSUME RegInv, NEW s \in Schemas, NEW layout \in Layouts,
           RegisterSchema(s, layout)
    PROVE  RegInv' /\ RegistryKept
  <1>1. /\ RegistryKept
        /\ DOMAIN registry' = DOMAIN registry \cup {s}
        /\ s \notin DOMAIN registry => registry'[s].offset = layout.offset
    BY RegistryAfterKeeps DEF RegisterSchema
  <1>2. /\ DOMAIN schema_metadata' = DOMAIN schema_metadata \cup {s}
        /\ schema_metadata'[s] = layout.stride
        /\ \A r \in DOMAIN schema_metadata \ {s} :
               schema_metadata'[r] = schema_metadata[r]
    <2>1. schema_metadata' = Put(schema_metadata, s, layout.stride)
      BY DEF RegisterSchema
    <2> QED
      BY <2>1 DEF Put
  <1>3. PICK n \in Nat : n = Len(registrations[s])
    BY DEF RegInv
  <1>4. /\ registrations' \in [Schemas -> Seq(Layouts)]
        /\ Len(registrations'[s]) = n + 1
        /\ registrations'[s][n + 1] = layout
        /\ n # 0 => registrations'[s][1] = registrations[s][1]
        /\ \A r \in Schemas \ {s} : registrations'[r] = registrations[r]
    BY <1>3 DEF RegisterSchema, RegInv
  <1>5. /\ calls' \in 0 .. MaxCalls /\ misused' \in BOOLEAN
        /\ terminated' \in BOOLEAN /\ ~terminated
    BY EngineAssumption DEF RegisterSchema, Call, Returns, RegInv
  <1>6. \A r \in Schemas : SchemaInv(r)
    BY <1>5 DEF RegInv
  <1>7. SchemaInv(s)'
    <2>1. s \in DOMAIN registry' /\ s \in DOMAIN schema_metadata'
          /\ Len(registrations'[s]) # 0
      BY <1>1, <1>2, <1>4
    <2>2. schema_metadata'[s] =
              registrations'[s][Len(registrations'[s])].stride
      BY <1>2, <1>4
    <2>3. CASE n = 0
      <3>1. registry'[s].offset = layout.offset
        BY <1>1, <1>3, <1>6, <2>3 DEF SchemaInv
      <3> QED
        BY <1>4, <2>1, <2>2, <2>3, <3>1 DEF SchemaInv
    <2>4. CASE n # 0
      <3>1. /\ s \in DOMAIN registry
            /\ registry[s].offset = registrations[s][1].offset
        BY <1>3, <1>6, <2>4 DEF SchemaInv
      <3>2. registry'[s] = registry[s]
        BY <1>1, <3>1 DEF RegistryKept
      <3> QED
        BY <1>4, <2>1, <2>2, <2>4, <3>1, <3>2 DEF SchemaInv
    <2> QED
      BY <2>3, <2>4
  <1>8. ASSUME NEW r \in Schemas, r # s PROVE SchemaInv(r)'
    <2>1. registrations'[r] = registrations[r]
      BY <1>4, <1>8
    <2>2. r \in DOMAIN registry' <=> r \in DOMAIN registry
      BY <1>1, <1>8
    <2>3. r \in DOMAIN schema_metadata' <=> r \in DOMAIN schema_metadata
      BY <1>2, <1>8
    <2>4. r \in DOMAIN registry => registry'[r] = registry[r]
      BY <1>1 DEF RegistryKept
    <2>5. r \in DOMAIN schema_metadata =>
              schema_metadata'[r] = schema_metadata[r]
      BY <1>2, <1>8
    <2> QED
      BY <1>6, <2>1, <2>2, <2>3, <2>4, <2>5 DEF SchemaInv
  <1>9. /\ DOMAIN registry' \subseteq Schemas
        /\ DOMAIN schema_metadata' \subseteq Schemas
    BY <1>1, <1>2 DEF RegInv
  <1> QED
    BY <1>1, <1>4, <1>5, <1>7, <1>8, <1>9 DEF RegInv

\* The process has ended, so a half-made registration does no harm.
LEMMA RegisterThrowsEffect ==
    ASSUME RegInv, NEW s \in Schemas, NEW layout \in Layouts,
           RegisterSchemaThrows(s, layout)
    PROVE  RegInv' /\ RegistryKept
  <1>1. /\ terminated' = TRUE
        /\ UNCHANGED <<schema_metadata, registrations, misused>>
    BY DEF RegisterSchemaThrows, Throws, history
  <1>2. /\ RegistryKept
        /\ DOMAIN registry' \subseteq DOMAIN registry \cup {s}
    <2>1. CASE registry' = registry
      BY <2>1 DEF RegistryKept
    <2>2. CASE registry' = RegistryAfter(s, layout)
      BY <2>2, RegistryAfterKeeps
    <2> QED
      BY <2>1, <2>2 DEF RegisterSchemaThrows
  <1>3. calls' \in 0 .. MaxCalls
    BY EngineAssumption DEF RegisterSchemaThrows, Call, RegInv
  <1> QED
    BY <1>1, <1>2, <1>3 DEF RegInv

-----------------------------------------------------------------------------
(* The logics.                                                             *)

FieldsOf(s, logic) ==
    /\ logic.kernel \in Exprs /\ logic.mode \in Modes
    /\ DOMAIN logic.fields = 1 .. Len(logic.fields)
    /\ Len(logic.fields) \in Nat
    /\ Len(logic.fields) <= MaxFields
    /\ Len(logic.fields) <= Len(logic.kernel.fields)
    /\ \A i \in DOMAIN logic.fields :
        logic.fields[i] # Null =>
            Points(logic.fields[i], s, logic.kernel.fields[i])

\* Every field of the expression is there.
Complete(logic) ==
    /\ Len(logic.fields) = Len(logic.kernel.fields)
    /\ \A i \in DOMAIN logic.fields : logic.fields[i] # Null

LogicInv ==
    /\ DOMAIN expr_logic \subseteq Schemas
    /\ DOMAIN compiled_logic \subseteq Schemas
    /\ \A s \in DOMAIN expr_logic :
        /\ FieldsOf(s, expr_logic[s])
        /\ misused \/ Complete(expr_logic[s])
    /\ \A s \in DOMAIN compiled_logic :
        /\ compiled_logic[s].field.schema = s
        /\ Valid(compiled_logic[s].field)
        /\ misused \/ compiled_logic[s].kernel # "nullptr"

\* What set_expression stores.
LEMMA StoredExpression ==
    ASSUME NEW s \in Schemas, NEW e \in Exprs, NEW mode \in Modes, NEW logic,
           logic = [kernel |-> e, fields |-> Trim(Collected(s, e)),
                    mode |-> mode]
    PROVE  FieldsOf(s, logic) /\ (Incomplete(s, e) \/ Complete(logic))
  <1> DEFINE fields == Collected(s, e)
  <1>1. /\ logic.kernel = e /\ logic.fields = Trim(fields)
        /\ logic.mode = mode
    OBVIOUS
  <1>2. PICK E : /\ fields \in Seq(E)
                 /\ Len(fields) <= Len(e.fields)
                 /\ Len(fields) <= MaxFields
                 /\ Len(e.fields) <= MaxFields => Len(fields) = Len(e.fields)
                 /\ \A i \in 1 .. Len(fields) :
                        fields[i] = GetField(s, e.fields[i])
    BY CollectedEffect
  <1> HIDE DEF fields
  <1>3. /\ Trim(fields) \in Seq(E)
        /\ Len(Trim(fields)) <= Len(fields)
        /\ \A i \in 1 .. Len(Trim(fields)) : Trim(fields)[i] = fields[i]
        /\ (\A i \in 1 .. Len(fields) : fields[i] # Null) =>
               Len(Trim(fields)) = Len(fields)
    BY <1>2, TrimEffect
  <1>4. /\ e.fields \in Seq(Names) /\ Len(e.fields) \in Nat
        /\ DOMAIN e.fields = 1 .. Len(e.fields) /\ MaxFields \in Nat
    BY EngineAssumption
  <1>5. /\ Len(Trim(fields)) \in Nat /\ Len(fields) \in Nat
        /\ DOMAIN Trim(fields) = 1 .. Len(Trim(fields))
    BY <1>2, <1>3
  <1>6. \A i \in 1 .. Len(Trim(fields)) :
            i \in 1 .. Len(fields) /\ Trim(fields)[i] = GetField(s, e.fields[i])
    BY <1>2, <1>3, <1>5
  <1>7. FieldsOf(s, logic)
    <2>1. /\ Len(Trim(fields)) <= MaxFields
          /\ Len(Trim(fields)) <= Len(e.fields)
      BY <1>2, <1>3, <1>4, <1>5
    <2>2. \A i \in 1 .. Len(Trim(fields)) :
              Trim(fields)[i] # Null => Points(Trim(fields)[i], s, e.fields[i])
      BY <1>6, GetFieldPoints
    <2> QED
      BY <1>1, <1>5, <2>1, <2>2 DEF FieldsOf
  <1>8. ASSUME ~Incomplete(s, e) PROVE Complete(logic)
    <2>1. \A i \in 1 .. Len(e.fields) :
              i <= MaxFields /\ GetField(s, e.fields[i]) # Null
      BY <1>4, <1>8 DEF Incomplete
    <2>2. Len(e.fields) <= MaxFields
      BY <1>4, <2>1
    <2>3. Len(fields) = Len(e.fields)
      BY <1>2, <2>2
    <2>4. \A i \in 1 .. Len(fields) : fields[i] # Null
      BY <1>2, <2>1, <2>3
    <2>5. Len(Trim(fields)) = Len(fields)
      BY <1>3, <2>4
    <2> QED
      BY <1>1, <1>3, <1>5, <2>3, <2>4, <2>5 DEF Complete
  <1> QED
    BY <1>7, <1>8

LEMMA LogicsStay ==
    ASSUME LogicInv, RegistryKept, UNCHANGED <<compiled_logic, expr_logic>>,
           misused => misused'
    PROVE  LogicInv'
  <1>1. \A s \in DOMAIN expr_logic : FieldsOf(s, expr_logic[s])'
    BY PointsStays DEF LogicInv, FieldsOf
  <1>2. \A s \in DOMAIN compiled_logic : Valid(compiled_logic[s].field)'
    BY DEF LogicInv, Valid, RegistryKept
  <1> QED
    BY <1>1, <1>2 DEF LogicInv, Complete

-----------------------------------------------------------------------------
(* Runs.                                                                   *)

\* The last call's outcome, if it was an execution.
ResultInv == RunReadsRegistered /\ UndefinedOnlyIfMisused

\* Every outcome of a run is zero, an undefined one of a misused engine, or that
\* of a kernel with the fields of its schema.
RanRight(o) ==
    o.status = "ran" =>
        /\ registrations[o.schema] # <<>>
        /\ o.stride =
               registrations[o.schema][Len(registrations[o.schema])].stride
        /\ o.mode \in Modes =>
            \A i \in DOMAIN o.offsets :
                /\ o.kernel.fields[i] \in
                       DOMAIN registrations[o.schema][1].offset
                /\ o.offsets[i] = registrations[o.schema][1].offset[
                                      o.kernel.fields[i]]

Right(o) == RanRight(o) /\ (o.status = "undefined" => misused)

LEMMA RightResult ==
    ASSUME NEW call, NEW o, Right(o), result' = Executed(call, o),
           UNCHANGED history
    PROVE  ResultInv'
  <1>1. result'.outcome = o
    BY DEF Executed
  <1> QED
    BY <1>1 DEF ResultInv, RunReadsRegistered, UndefinedOnlyIfMisused, Right,
                RanRight, history

LEMMA ZeroIsRight == Right(Zero)
  BY DEF Right, RanRight, Zero

LEMMA UndefinedIsRight == misused => Right(Undefined)
  BY DEF Right, RanRight, Undefined

\* The stride a run finds is that of the last registration.
LEMMA StrideFound ==
    ASSUME RegInv, ~terminated, NEW s \in Schemas, s \in DOMAIN schema_metadata
    PROVE  /\ registrations[s] # <<>>
           /\ registry[s].offset = registrations[s][1].offset
           /\ schema_metadata[s] =
                  registrations[s][Len(registrations[s])].stride
  <1>1. SchemaInv(s)
    BY DEF RegInv
  <1>2. Len(registrations[s]) # 0
    BY <1>1 DEF SchemaInv
  <1> QED
    BY <1>1, <1>2 DEF SchemaInv

\* A kernel of an expression reads what was registered.
LEMMA RanIsRight ==
    ASSUME RegInv, ~terminated, NEW s \in Schemas,
           s \in DOMAIN schema_metadata, NEW logic, FieldsOf(s, logic)
    PROVE  Right(Ran(s, logic))
  <1> DEFINE known == {j \in DOMAIN logic.fields : logic.fields[j] # Null}
             offsets == [i \in known |-> Offset(logic.fields[i])]
             o == Ran(s, logic)
  <1>1. /\ o.status = "ran" /\ o.schema = s /\ o.kernel = logic.kernel
        /\ o.stride = schema_metadata[s] /\ o.offsets = offsets
    BY DEF Ran
  <1>2. ASSUME NEW i \in known
        PROVE  /\ logic.kernel.fields[i] \in DOMAIN registrations[s][1].offset
               /\ offsets[i] =
                      registrations[s][1].offset[logic.kernel.fields[i]]
    <2>1. Points(logic.fields[i], s, logic.kernel.fields[i])
      BY DEF FieldsOf
    <2>2. offsets[i] = Offset(logic.fields[i])
      OBVIOUS
    <2> QED
      BY <2>1, <2>2, StrideFound DEF Points, Valid, Offset
  <1>3. DOMAIN offsets = known
    OBVIOUS
  <1> HIDE DEF o, offsets
  <1>4. Right(o)
    BY <1>1, <1>2, <1>3, StrideFound DEF Right, RanRight
  <1> QED
    BY <1>4 DEF o

\* The kernel of set_logic has no field indices.
LEMMA LegacyIsRight ==
    ASSUME RegInv, ~terminated, NEW s \in Schemas,
           s \in DOMAIN schema_metadata, NEW kernel, NEW fields
    PROVE  Right(Ran(s, [kernel |-> kernel, mode |-> "LEGACY",
                         fields |-> fields]))
  <1> DEFINE logic == [kernel |-> kernel, mode |-> "LEGACY", fields |-> fields]
             o == Ran(s, logic)
  <1>1. logic.mode = "LEGACY"
    OBVIOUS
  <1> HIDE DEF logic
  <1>2. /\ o.status = "ran" /\ o.schema = s /\ o.mode = "LEGACY"
        /\ o.stride = schema_metadata[s]
    BY <1>1 DEF Ran
  <1> HIDE DEF o
  <1>3. Right(o)
    BY <1>2, StrideFound DEF Right, RanRight, Modes
  <1> QED
    BY <1>3 DEF o, logic

\* An expression whose fields are all there has a plane for every index its
\* kernel reads.
LEMMA CompleteRuns ==
    ASSUME NEW s, NEW logic, FieldsOf(s, logic), Complete(logic)
    PROVE  ~NullPlaneRead(logic) /\ ~Contains(logic.fields, Null)
  <1>1. Reads(logic) \subseteq DOMAIN logic.kernel.fields
    BY EngineAssumption DEF FieldsOf, Reads
  <1>2. DOMAIN logic.kernel.fields = 1 .. Len(logic.kernel.fields)
    BY EngineAssumption DEF FieldsOf
  <1>3. ~NullPlaneRead(logic)
    BY <1>1, <1>2 DEF FieldsOf, Complete, NullPlaneRead
  <1>4. ~Contains(logic.fields, Null)
    BY DEF FieldsOf, Complete, Contains
  <1> QED
    BY <1>3, <1>4

\* The step of a run that comes back has a right outcome.
LEMMA RunStep ==
    ASSUME RegInv, LogicInv, NEW rows \in {0, 1}, Run(rows),
           ~ExecuteParallelThrows
    PROVE  ResultInv'
  <1>0. ~terminated
    BY DEF Run, Execute, ExecuteAllocFails, ExecuteParallel, ExecuteLegacy,
           ExecuteNothing, Call
  <1>1. ASSUME NEW s \in DOMAIN expr_logic
        PROVE  Right(SerialOutcome(s, rows)) /\ Right(ParallelOutcome(s, rows))
    <2>1. /\ s \in Schemas /\ FieldsOf(s, expr_logic[s])
          /\ misused \/ Complete(expr_logic[s])
      BY DEF LogicInv
    <2>2. s \in DOMAIN schema_metadata => Right(Ran(s, expr_logic[s]))
      BY <1>0, <2>1, RanIsRight
    <2>3. \/ misused
          \/ /\ ~NullPlaneRead(expr_logic[s])
             /\ ~Contains(expr_logic[s].fields, Null)
      BY <2>1, CompleteRuns
    <2> QED
      BY <2>2, <2>3, ZeroIsRight, UndefinedIsRight
      DEF SerialOutcome, ParallelOutcome
  <1>2. ASSUME NEW s \in DOMAIN compiled_logic
        PROVE  Right(LegacyOutcome(s, rows))
    <2>1. s \in Schemas /\ (misused \/ compiled_logic[s].kernel # "nullptr")
      BY DEF LogicInv
    <2> QED
      BY <1>0, <2>1, LegacyIsRight, ZeroIsRight, UndefinedIsRight
      DEF LegacyOutcome
  <1>3. \E call, o : Right(o) /\ result' = Executed(call, o)
    <2>1. CASE Execute(rows)
      BY <1>1, <2>1 DEF Execute
    <2>2. CASE ExecuteParallel(rows)
      BY <1>1, <2>2 DEF ExecuteParallel
    <2>3. CASE ExecuteLegacy(rows)
      BY <1>2, <2>3 DEF ExecuteLegacy
    <2>4. CASE ExecuteAllocFails(rows) \/ ExecuteNothing(rows)
      BY <2>4, ZeroIsRight DEF ExecuteAllocFails, ExecuteNothing
    <2> QED
      BY <2>1, <2>2, <2>3, <2>4 DEF Run
  <1>4. UNCHANGED history
    BY DEF Run, Execute, ExecuteAllocFails, ExecuteParallel, ExecuteLegacy,
           ExecuteNothing
  <1> QED
    BY <1>3, <1>4, RightResult

-----------------------------------------------------------------------------
(* The theorems.                                                           *)

IInv == RegInv /\ LogicInv /\ ResultInv

LEMMA InitHolds == Init => IInv
  <1> SUFFICES ASSUME Init PROVE IInv
    OBVIOUS
  <1>1. /\ DOMAIN registry = {} /\ DOMAIN schema_metadata = {}
        /\ DOMAIN compiled_logic = {} /\ DOMAIN expr_logic = {}
    BY DEF Init
  <1>2. registrations \in [Schemas -> Seq(Layouts)]
    BY DEF Init
  <1>3. \A s \in Schemas : Len(registrations[s]) = 0
    BY DEF Init
  <1>4. RegInv
    <2>1. misused \in BOOLEAN /\ terminated \in BOOLEAN
      BY Zenon DEF Init
    <2>2. calls \in 0 .. MaxCalls
      BY EngineAssumption DEF Init
    <2>3. \A s \in Schemas : SchemaInv(s)
      BY <1>1, <1>3 DEF SchemaInv
    <2>4. /\ DOMAIN registry \subseteq Schemas
          /\ DOMAIN schema_metadata \subseteq Schemas
      BY <1>1
    <2> QED
      BY <1>2, <2>1, <2>2, <2>3, <2>4, Zenon DEF RegInv
  <1>5. LogicInv
    BY <1>1 DEF LogicInv
  <1>6. ResultInv
    BY DEF Init, Idle, ResultInv, RunReadsRegistered, UndefinedOnlyIfMisused,
           Executions
  <1> QED
    BY <1>4, <1>5, <1>6 DEF IInv

\* No outcome to speak of after a call that is not an execution.
LEMMA IdleResult == result' = Idle => ResultInv'
  BY DEF Idle, ResultInv, RunReadsRegistered, UndefinedOnlyIfMisused, Executions

\* The registry is not touched by anything but a registration.
LEMMA RegStays ==
    ASSUME RegInv, Call, misused' \in BOOLEAN, Returns \/ Throws,
           UNCHANGED <<registry, schema_metadata, registrations>>
    PROVE  RegInv' /\ RegistryKept
  <1>1. calls' \in 0 .. MaxCalls
    BY EngineAssumption DEF RegInv, Call
  <1>2. terminated' \in BOOLEAN /\ (terminated => terminated')
    BY DEF RegInv, Returns, Throws
  <1>3. \A s \in Schemas : SchemaInv(s) => SchemaInv(s)'
    BY DEF SchemaInv
  <1> QED
    BY <1>1, <1>2, <1>3 DEF RegInv, RegistryKept

LEMMA SetLogicStep ==
    ASSUME RegInv, LogicInv, NEW s \in Schemas, NEW name, SetLogic(s, name)
    PROVE  RegInv' /\ LogicInv'
  <1>1. PICK kernel \in {"threshold", "nullptr"} :
            /\ compiled_logic' = Put(compiled_logic, s,
                   [field |-> GetField(s, name), kernel |-> kernel])
            /\ misused' = (misused \/ kernel = "nullptr")
    BY DEF SetLogic
  <1>0. PICK p : p = GetField(s, name)
    OBVIOUS
  <1> DEFINE logic == [field |-> p, kernel |-> kernel]
  <1>2. logic.field = p /\ logic.kernel = kernel
    OBVIOUS
  <1>3. /\ DOMAIN compiled_logic' = DOMAIN compiled_logic \cup {s}
        /\ compiled_logic'[s] = logic
        /\ \A r \in DOMAIN compiled_logic \ {s} :
               compiled_logic'[r] = compiled_logic[r]
    <2>1. compiled_logic' = Put(compiled_logic, s, logic)
      BY <1>0, <1>1
    <2> HIDE DEF logic
    <2> QED
      BY <2>1 DEF Put
  <1> HIDE DEF logic
  <1>4. misused' \in BOOLEAN /\ (misused => misused')
        /\ (kernel = "nullptr" => misused')
    BY <1>1
  <1>5. RegInv' /\ RegistryKept
    BY <1>4, RegStays DEF SetLogic
  <1>6. Points(p, s, name)
    BY <1>0, GetFieldPoints DEF SetLogic
  <1>7. Points(p, s, name)'
    BY <1>5, <1>6, PointsStays
  <1>8. \A r \in DOMAIN compiled_logic' :
            /\ compiled_logic'[r].field.schema = r
            /\ Valid(compiled_logic[r].field)'
            /\ misused' \/ compiled_logic'[r].kernel # "nullptr"
    <2>1. ASSUME NEW r \in DOMAIN compiled_logic', r # s
          PROVE  /\ compiled_logic'[r].field.schema = r
                 /\ Valid(compiled_logic[r].field)'
                 /\ misused' \/ compiled_logic'[r].kernel # "nullptr"
      BY <1>3, <1>4, <1>5, <2>1 DEF LogicInv, Valid, RegistryKept
    <2>2. /\ compiled_logic'[s].field.schema = s
          /\ Valid(compiled_logic[s].field)'
          /\ misused' \/ compiled_logic'[s].kernel # "nullptr"
      BY <1>2, <1>3, <1>4, <1>7 DEF Points, Valid
    <2> QED
      BY <2>1, <2>2
  <1>9. \A r \in DOMAIN expr_logic : FieldsOf(r, expr_logic[r])'
    BY <1>5, PointsStays DEF LogicInv, FieldsOf, SetLogic
  <1> QED
    BY <1>3, <1>4, <1>5, <1>8, <1>9 DEF LogicInv, Complete, SetLogic

LEMMA SetExpressionStep ==
    ASSUME RegInv, LogicInv, NEW s \in Schemas, NEW e \in Exprs,
           NEW mode \in Modes, SetExpression(s, e, mode)
    PROVE  RegInv' /\ LogicInv'
  <1> DEFINE logic == [kernel |-> e, fields |-> Trim(Collected(s, e)),
                       mode |-> mode]
  <1>1. FieldsOf(s, logic) /\ (Incomplete(s, e) \/ Complete(logic))
    BY StoredExpression
  <1>2. expr_logic' = Put(expr_logic, s, logic)
    BY DEF SetExpression
  <1> HIDE DEF logic
  <1>3. /\ DOMAIN expr_logic' = DOMAIN expr_logic \cup {s}
        /\ expr_logic'[s] = logic
        /\ \A r \in DOMAIN expr_logic \ {s} : expr_logic'[r] = expr_logic[r]
    BY <1>2 DEF Put
  <1>4. misused' \in BOOLEAN /\ (misused => misused')
        /\ (Incomplete(s, e) => misused')
    BY DEF SetExpression
  <1>5. RegInv' /\ RegistryKept
    BY <1>4, RegStays DEF SetExpression
  <1>6. ASSUME NEW r \in DOMAIN expr_logic'
        PROVE  /\ FieldsOf(r, expr_logic[r])'
               /\ misused' \/ Complete(expr_logic[r])'
    <2>1. CASE r = s
      BY <1>1, <1>3, <1>4, <1>5, <2>1, PointsStays DEF FieldsOf, Complete
    <2>2. CASE r # s
      BY <1>3, <1>4, <1>5, <2>2, PointsStays DEF LogicInv, FieldsOf, Complete
    <2> QED
      BY <2>1, <2>2
  <1>7. \A r \in DOMAIN compiled_logic : Valid(compiled_logic[r].field)'
    BY <1>5 DEF LogicInv, Valid, RegistryKept, SetExpression
  <1> QED
    BY <1>3, <1>4, <1>5, <1>6, <1>7 DEF LogicInv, SetExpression

\* Every call keeps the invariant.
LEMMA StepHolds == IInv /\ [Next]_vars => IInv'
  <1> SUFFICES ASSUME IInv, [Next]_vars PROVE IInv'
    OBVIOUS
  <1> USE DEF IInv
  <1>1. CASE UNCHANGED vars
    <2>1. UNCHANGED <<config, result, history, terminated, calls>>
      BY <1>1 DEF vars
    <2>2. RegInv'
      BY <2>1 DEF config, history, RegInv, SchemaInv
    <2>3. LogicInv'
      BY <2>1, LogicsStay DEF config, history, RegistryKept
    <2>4. ResultInv'
      BY <2>1 DEF history, ResultInv, RunReadsRegistered,
                  UndefinedOnlyIfMisused
    <2> QED
      BY <2>2, <2>3, <2>4
  <1>2. ASSUME Call, Returns \/ Throws, UNCHANGED <<config, history>>
        PROVE  RegInv' /\ LogicInv'
    <2>1. RegInv' /\ RegistryKept
      BY <1>2, RegStays DEF config, history, RegInv
    <2> QED
      BY <1>2, <2>1, LogicsStay DEF config, history
  <1>3. ASSUME NEW s \in Schemas, Configure(s) PROVE IInv'
    <2>1. ResultInv'
      BY <1>3, IdleResult
      DEF Configure, RegisterSchema, RegisterSchemaThrows, CallRefused,
          SetLogicIgnored, SetLogic, SetThrows, SetExpression,
          SetExpressionFails
    <2>2. ASSUME NEW layout \in Layouts, RegisterSchema(s, layout)
          PROVE  RegInv' /\ LogicInv'
      BY <2>2, RegisterEffect, LogicsStay DEF RegisterSchema
    <2>3. ASSUME NEW layout \in Layouts, RegisterSchemaThrows(s, layout)
          PROVE  RegInv' /\ LogicInv'
      BY <2>3, RegisterThrowsEffect, LogicsStay
      DEF RegisterSchemaThrows, history
    <2>4. ASSUME \/ CallRefused \/ SetThrows
                 \/ \E name \in Names : SetLogicIgnored(s, name)
                 \/ \E e \in Exprs, mode \in Modes :
                        SetExpressionFails(s, e, mode)
          PROVE  RegInv' /\ LogicInv'
      <3>1. Call /\ (Returns \/ Throws) /\ UNCHANGED <<config, history>>
        BY <2>4 DEF CallRefused, SetThrows, SetLogicIgnored,
                    SetExpressionFails
      <3> QED
        BY <1>2, <3>1
    <2> QED
      BY <1>3, <2>1, <2>2, <2>3, <2>4, SetLogicStep, SetExpressionStep
      DEF Configure
  <1>4. ASSUME NEW rows \in {0, 1}, Run(rows) PROVE IInv'
    <2>1. Call /\ (Returns \/ Throws) /\ UNCHANGED <<config, history>>
      BY <1>4 DEF Run, Execute, ExecuteAllocFails, ExecuteParallel,
                  ExecuteParallelThrows, ExecuteLegacy, ExecuteNothing
    <2>2. CASE ExecuteParallelThrows
      BY <1>2, <2>1, <2>2, IdleResult DEF ExecuteParallelThrows
    <2>3. CASE ~ExecuteParallelThrows
      BY <1>2, <1>4, <2>1, <2>3, RunStep
    <2> QED
      BY <2>2, <2>3
  <1> QED
    BY <1>1, <1>3, <1>4 DEF Next, Finished

\* The invariant holds from the first state on.
THEOREM Invariance == Spec => []IInv
  BY InitHolds, StepHolds, PTL DEF Spec

\* The maps of the engine (include/apex/engine.hpp:52-79) keep their types.
THEOREM TypeCorrect == Spec => []TypeOK
  <1>1. IInv => TypeOK
    BY DEF IInv, RegInv, LogicInv, FieldsOf, TypeOK
  <1> QED
    BY <1>1, Invariance, PTL

\* For every sequence of registrations and logics: no descriptor pointer kept
\* in a logic ever dangles (registry.cpp:20, engine.cpp:34, engine.cpp:77).
THEOREM PointersSafe == Spec => []PointersStayValid
  <1>1. IInv => PointersStayValid
    BY DEF IInv, LogicInv, FieldsOf, Points, PointersStayValid
  <1> QED
    BY <1>1, Invariance, PTL

\* For every sequence of registrations: a kernel that runs reads every field
\* where the first layout of its schema has it, row by row at the stride of the
\* last (engine.cpp:20-25, engine.cpp:85-104, engine.cpp:139-172).
THEOREM LayoutsRead == Spec => []RunReadsRegistered
  <1>1. IInv => RunReadsRegistered
    BY DEF IInv, ResultInv
  <1> QED
    BY <1>1, Invariance, PTL

\* For every expression: a run follows a null pointer or leaves an array only
\* if a logic was stored that could not be run (engine.cpp:28-79).
THEOREM UndefinedMisused == Spec => []UndefinedOnlyIfMisused
  <1>1. IInv => UndefinedOnlyIfMisused
    BY DEF IInv, ResultInv
  <1> QED
    BY <1>1, Invariance, PTL

\* Whichever allocation fails: as long as the process lives every schema has
\* both its fields and its stride, so that no logic that found a field is
\* answered with 0 for want of a stride (engine.cpp:20-25).
THEOREM RegistrationWhole == Spec => []RegisteredWhole
  <1>1. IInv => RegisteredWhole
    <2> SUFFICES ASSUME IInv, ~terminated PROVE
            /\ DOMAIN registry = DOMAIN schema_metadata
            /\ Resolved \subseteq DOMAIN schema_metadata
      BY DEF RegisteredWhole
    <2>1. \A s \in Schemas : SchemaInv(s)
      BY DEF IInv, RegInv
    <2>2. DOMAIN registry = DOMAIN schema_metadata
      BY <2>1 DEF IInv, RegInv, SchemaInv
    <2>3. \A s \in DOMAIN compiled_logic : s \in DOMAIN registry
      BY DEF IInv, LogicInv, Valid
    <2>4. ASSUME NEW s \in DOMAIN expr_logic,
                 NEW i \in DOMAIN expr_logic[s].fields,
                 expr_logic[s].fields[i] # Null
          PROVE  s \in DOMAIN registry
      BY <2>4 DEF IInv, LogicInv, FieldsOf, Points, Valid
    <2> QED
      BY <2>2, <2>3, <2>4 DEF Resolved
  <1> QED
    BY <1>1, Invariance, PTL
=============================================================================
