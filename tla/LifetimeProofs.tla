---------------------------- MODULE LifetimeProofs ----------------------------
(***************************************************************************)
(* Ownership of engines, for every number of threads, objects and          *)
(* addresses: no freed engine is used and none is left behind, unless a    *)
(* Java object was destroyed under a running call; objects one thread      *)
(* keeps to itself do not lose their constants; calls from Python do not   *)
(* overlap.                                                                *)
(***************************************************************************)
EXTENDS Lifetime, TLAPS

-----------------------------------------------------------------------------
(* Types.                                                                  *)

\* A call of any binding begins with a well-formed record.
LEMMA BegunType ==
    ASSUME TypeOK, NEW t \in Threads, NEW o \in Objects, NEW op \in Ops,
           NEW root \in Trees \cup {Null},
           NEW mode \in {"BIT_SLICED", "SCALAR", "none"},
           Begun(t, o, op, root, mode)
    PROVE  work' \in [Threads -> WorkStates]
  <1> DEFINE w == [pc |-> EntryPoint(o, op), op |-> op, obj |-> o,
                   handle |-> object[o].handle, root |-> root, mode |-> mode]
  <1>0. EntryPoint(o, op) \in {"tested", "called"}
    BY DEF EntryPoint
  <1>1. w \in WorkStates
    BY <1>0 DEF TypeOK, WorkStates, ObjectStates
  <1>2. work' = [work EXCEPT ![t] = w]
    BY DEF Begun
  <1> HIDE DEF w
  <1> QED
    BY <1>1, <1>2 DEF TypeOK

\* The arguments of a call come from the trees there are.
LEMMA PassedOnCases ==
    ASSUME TypeOK, NEW t \in Threads, NEW o \in Objects,
           NEW op \in Ops \ {"destroy"}, PassedOn(t, o, op)
    PROVE  \E root \in Trees \cup {Null},
              mode \in {"BIT_SLICED", "SCALAR", "none"} :
                  /\ Begun(t, o, op, root, mode)
                  /\ op = "set_logic" => mode # "none"
  <1>1. PICK a \in Arguments(op) : Begun(t, o, op, a[1], a[2])
    BY DEF PassedOn
  <1>2. /\ a[1] \in Trees \cup {Null}
        /\ a[2] \in {"BIT_SLICED", "SCALAR", "none"}
        /\ op = "set_logic" => a[2] # "none"
    <2>1. CASE op = "set_logic"
      <3>1. Arguments(op) = roots \X {"BIT_SLICED", "SCALAR"}
        BY <2>1 DEF Arguments
      <3> QED
        BY <1>1, <3>1 DEF TypeOK
    <2>2. CASE op \in {"register_schema", "execute"}
      <3>1. Arguments(op) = {<<Null, "none">>}
        BY <2>2 DEF Arguments
      <3> QED
        BY <1>1, <2>2, <3>1
    <2> QED
      BY <2>1, <2>2 DEF Ops
  <1> QED
    BY <1>1, <1>2

\* A thread between calls.
LEMMA IdleType == Idle \in WorkStates
  BY DEF Idle, WorkStates

\* What a thread's call leaves when it is done.
LEMMA DoneEffect ==
    ASSUME TypeOK, NEW t \in Threads, Done(t)
    PROVE  /\ work' \in [Threads -> WorkStates]
           /\ work'[t].pc = "idle" /\ work'[t].obj = Null
           /\ \A u \in Threads \ {t} : work'[u] = work[u]
  <1>1. Idle.pc = "idle" /\ Idle.obj = Null
    BY DEF Idle
  <1>2. work' = [work EXCEPT ![t] = Idle]
    BY DEF Done
  <1> QED
    BY <1>1, <1>2, IdleType DEF TypeOK

\* A call that gets on keeps its record.
LEMMA MovedType ==
    ASSUME TypeOK, NEW t \in Threads, NEW pc \in {"inside", "destroyed"},
           work' = [work EXCEPT ![t].pc = pc]
    PROVE  work' \in [Threads -> WorkStates]
  <1>1. work[t] \in WorkStates
    BY DEF TypeOK
  <1>2. PICK w : w = [work[t] EXCEPT !.pc = pc]
    OBVIOUS
  <1>3. w = [pc |-> pc, op |-> work[t].op, obj |-> work[t].obj,
             handle |-> work[t].handle, root |-> work[t].root,
             mode |-> work[t].mode]
    BY <1>1, <1>2 DEF WorkStates
  <1>4. w \in WorkStates
    BY <1>1, <1>3 DEF WorkStates
  <1>5. work' = [work EXCEPT ![t] = w]
    BY <1>2 DEF TypeOK
  <1> QED
    BY <1>4, <1>5 DEF TypeOK

\* What the start of a call changes.
LEMMA BegunEffect ==
    ASSUME TypeOK, NEW t \in Threads, NEW o \in Objects, NEW op, NEW root,
           NEW mode, Begun(t, o, op, root, mode)
    PROVE  /\ work'[t].pc = EntryPoint(o, op)
           /\ work'[t].op = op /\ work'[t].mode = mode
           /\ work'[t].obj = o /\ work'[t].handle = object[o].handle
           /\ \A u \in Threads \ {t} : work'[u] = work[u]
  <1> DEFINE w == [pc |-> EntryPoint(o, op), op |-> op, obj |-> o,
                   handle |-> object[o].handle, root |-> root, mode |-> mode]
  <1>1. work' = [work EXCEPT ![t] = w]
    BY DEF Begun
  <1>2. /\ w.pc = EntryPoint(o, op) /\ w.op = op /\ w.mode = mode /\ w.obj = o
        /\ w.handle = object[o].handle
    OBVIOUS
  <1> HIDE DEF w
  <1>3. work'[t] = w /\ \A u \in Threads \ {t} : work'[u] = work[u]
    BY <1>1 DEF TypeOK
  <1> QED
    BY <1>2, <1>3

\* Objects, engines and calls start with their types.
LEMMA InitType == Init => TypeOK
  <1> SUFFICES ASSUME Init PROVE TypeOK
    OBVIOUS
  <1>1. nodes \in [Threads -> 0 .. MaxNodes]
    BY LifetimeAssumption DEF Init
  <1>2. object \in [Objects -> ObjectStates]
    BY DEF Init, ObjectStates
  <1>3. [Fresh EXCEPT !.live = FALSE] \in EngineStates
    BY DEF Fresh, EngineStates
  <1>4. engine \in [Engines -> EngineStates]
    BY <1>3 DEF Init
  <1>5. work \in [Threads -> WorkStates]
    BY IdleType DEF Init
  <1>6. callers \in [Objects -> SUBSET Threads]
    BY DEF Init
  <1> QED
    BY <1>1, <1>2, <1>4, <1>5, <1>6 DEF Init, TypeOK

\* Only a tree that is there gets into apex_set_logic.
ArgInv == \A t \in Threads :
    work[t].op = "set_logic" =>
        /\ work[t].mode # "none"
        /\ At(t, "inside") => work[t].root # Null

Busy(t) == work[t].pc # "idle"

ObjectInv(o) ==
    /\ object[o].st = "none" => object[o].handle = Null
    /\ Binding[o] # "java" /\ object[o].st = "live" => object[o].handle # Null

\* A call works on an object that was there, with the handle it had; a wrapper
\* that is destroyed has gone out of reach.
CallInv(t) ==
    Busy(t) =>
        /\ work[t].obj \in Objects
        /\ object[work[t].obj].st # "none"
        /\ object[work[t].obj].handle \in {work[t].handle, Null}
        /\ work[t].pc = "destroyed" => work[t].op = "destroy"
        /\ work[t].op = "destroy" /\ Binding[work[t].obj] # "java" =>
               object[work[t].obj].st = "gone"
        /\ work[t].pc = "inside" => work[t].handle # Null

ObjInv ==
    /\ \A o \in Objects : ObjectInv(o)
    /\ \A t \in Threads : CallInv(t)

\* Calls on objects: what a binding's step does.
LEMMA CallType ==
    ASSUME TypeOK, NEW t \in Threads, NEW o \in Objects,
           \/ \E op \in Ops \ {"destroy"} :
               JavaCall(t, o, op) \/ CxxCall(t, o, op) \/ PyCall(t, o, op)
           \/ JavaDestroy(t, o) \/ CxxDestructor(t, o) \/ PyDestructor(t, o)
    PROVE  /\ work' \in [Threads -> WorkStates]
           /\ callers' \in [Objects -> SUBSET Threads]
           /\ UNCHANGED <<memory, engine>>
  <1>1. ASSUME NEW op \in Ops \ {"destroy"}, Begin(t, o, op)
        PROVE  /\ work' \in [Threads -> WorkStates]
               /\ callers' \in [Objects -> SUBSET Threads]
               /\ UNCHANGED <<memory, engine>>
    <2>1. PICK root \in Trees \cup {Null},
               mode \in {"BIT_SLICED", "SCALAR", "none"} :
                   /\ Begun(t, o, op, root, mode)
                   /\ op = "set_logic" => mode # "none"
      BY <1>1, PassedOnCases DEF Begin
    <2>2. callers' \in [Objects -> SUBSET Threads]
      BY <1>1 DEF Begin, TypeOK
    <2> QED
      BY <1>1, <2>1, <2>2, BegunType DEF Begin
  <1>2. CASE JavaDestroy(t, o) \/ Destructor(t, o)
    <2>1. /\ Begun(t, o, "destroy", Null, "none")
          /\ UNCHANGED <<memory, engine, callers>>
      BY <1>2 DEF JavaDestroy, Destructor, history
    <2> QED
      BY <2>1, BegunType DEF Ops, TypeOK
  <1> QED
    BY <1>1, <1>2 DEF JavaCall, CxxCall, PyCall, CxxDestructor, PyDestructor

\* Every step keeps the types.
LEMMA TypeStep == TypeOK /\ ArgInv /\ ObjInv /\ [Next]_vars => TypeOK'
  <1> SUFFICES ASSUME TypeOK, ArgInv, ObjInv, [Next]_vars PROVE TypeOK'
    OBVIOUS
  <1>1. CASE UNCHANGED vars
    BY <1>1 DEF TypeOK, vars, memory, history
  <1>2. SUFFICES ASSUME NEW t \in Threads, Step(t) PROVE TypeOK'
    BY <1>1 DEF Next, Finished
  <1>3. CASE ThreadEnds(t)
    BY <1>3 DEF TypeOK, ThreadEnds, history
  <1>4. ASSUME NEW tree \in {"universal", "simple"}, CreateLogic(t, tree)
        PROVE  TypeOK'
    <2>1. NodesAfter(nodes[t], tree) \in 0 .. MaxNodes
      BY LifetimeAssumption DEF NodesAfter, Cost, TypeOK
    <2>2. nodes' \in [Threads -> 0 .. MaxNodes]
      BY <1>4, <2>1 DEF CreateLogic, TypeOK
    <2>3. [tree |-> tree, by |-> t] \in Trees
      BY DEF Trees
    <2>4. roots' \subseteq Trees \cup {Null}
      BY <1>4, <2>3 DEF CreateLogic, TypeOK
    <2> QED
      BY <1>4, <2>2, <2>4 DEF CreateLogic, TypeOK, history
  <1>5. ASSUME NEW o \in Objects, Bindings(t, o) PROVE TypeOK'
    <2>1. CASE New(t, o)
      <3>1. Fresh \in EngineStates
        BY DEF Fresh, EngineStates
      <3>2. \A e \in Engines : [st |-> "live", handle |-> e] \in ObjectStates
        BY DEF ObjectStates
      <3>3. engine' \in [Engines -> EngineStates]
        BY <2>1, <3>1 DEF New, Create, TypeOK
      <3>4. object' \in [Objects -> ObjectStates]
        BY <2>1, <3>2 DEF New, Create, TypeOK
      <3> QED
        BY <2>1, <3>3, <3>4 DEF New, TypeOK, memory, history
    <2>2. CASE JavaCollect(o)
      BY <2>2 DEF JavaCollect, TypeOK, ObjectStates, memory, history
    <2>3. ASSUME ~New(t, o), ~JavaCollect(o) PROVE TypeOK'
      <3>1. /\ work' \in [Threads -> WorkStates]
            /\ callers' \in [Objects -> SUBSET Threads]
            /\ UNCHANGED <<memory, engine>>
        BY <1>5, <2>3, CallType DEF Bindings
      <3>2. object' \in [Objects -> ObjectStates]
        BY <1>5, <2>3 DEF Bindings, JavaCall, CxxCall, PyCall, Begin,
            JavaDestroy, CxxDestructor, PyDestructor, Destructor, TypeOK,
            ObjectStates
      <3> QED
        BY <3>1, <3>2 DEF TypeOK, memory
    <2> QED
      BY <2>1, <2>2, <2>3
  <1>6. CASE Native(t)
    <2>1. CASE Refuse(t) \/ Execute(t)
      BY <2>1, DoneEffect DEF Refuse, Execute, TypeOK, memory, history
    <2>2. CASE Enter(t)
      <3>1. work' \in [Threads -> WorkStates]
        BY <2>2, MovedType DEF Enter
      <3> QED
        BY <2>2, <3>1 DEF Enter, TypeOK, memory
    <2>3. CASE Register(t)
      <3>1. engine' \in [Engines -> EngineStates]
        BY <2>3 DEF Register, TypeOK, EngineStates
      <3> QED
        BY <2>3, <3>1, DoneEffect DEF Register, TypeOK, memory, history
    <2>4. CASE SetLogic(t)
      <3> DEFINE k == Compiled(t)
      <3>1. engine' \in [Engines -> EngineStates]
        <4>1. /\ work[t].root \in Trees
              /\ work[t].mode \in {"BIT_SLICED", "SCALAR"}
          BY <2>4 DEF SetLogic, Leave, At, ArgInv, TypeOK, WorkStates
        <4>2. k \in KernelsOfTrees
          BY <4>1 DEF Compiled, Trees, KernelsOfTrees
        <4>3. \/ engine' = engine
              \/ engine' = [engine EXCEPT ![work[t].handle].logic = k]
          BY <2>4 DEF SetLogic
        <4> HIDE DEF k
        <4> QED
          BY <4>2, <4>3 DEF TypeOK, EngineStates
      <3> QED
        BY <2>4, <3>1, DoneEffect DEF SetLogic, TypeOK, memory, history
    <2>5. CASE Destroy(t)
      <3>1. engine' \in [Engines -> EngineStates]
        BY <2>5 DEF Destroy, Freed, TypeOK, EngineStates
      <3>2. work' = [work EXCEPT ![t].pc = "destroyed"]
        BY <2>5 DEF Destroy
      <3>3. work' \in [Threads -> WorkStates]
        BY <3>2, MovedType
      <3> QED
        BY <2>5, <3>1, <3>3 DEF Destroy, TypeOK, memory, history
    <2>6. CASE Destroyed(t)
      <3>1. object' \in [Objects -> ObjectStates]
        BY <2>6 DEF Destroyed, Cleared, TypeOK, ObjectStates
      <3>2. work' \in [Threads -> WorkStates]
        BY <2>6, DoneEffect DEF Destroyed
      <3> QED
        BY <2>6, <3>1, <3>2 DEF Destroyed, TypeOK, memory, history
    <2>7. CASE UsesFreedEngine(t) \/ ReadsFreedTree(t)
                 \/ ReadsFreedConstants(t)
      BY <2>7 DEF UsesFreedEngine, ReadsFreedTree, ReadsFreedConstants, Fault,
                  TypeOK, memory, history
    <2>8. CASE JavaPassesHandle(t)
      <3>1. object[work[t].obj].handle \in Engines \cup {Null}
        BY <2>8 DEF JavaPassesHandle, At, ObjInv, CallInv, Busy, TypeOK,
                    ObjectStates
      <3>2. PICK h \in Engines \cup {Null} :
                work' = [work EXCEPT ![t].pc = "called", ![t].handle = h]
        BY <2>8, <3>1 DEF JavaPassesHandle
      <3>3. work[t] \in WorkStates
        BY DEF TypeOK
      <3>4. PICK w : w = [work[t] EXCEPT !.pc = "called", !.handle = h]
        OBVIOUS
      <3>5. w = [pc |-> "called", op |-> work[t].op, obj |-> work[t].obj,
                 handle |-> h, root |-> work[t].root, mode |-> work[t].mode]
        BY <3>3, <3>4 DEF WorkStates
      <3>6. w \in WorkStates
        BY <3>3, <3>5 DEF WorkStates
      <3>7. work' = [work EXCEPT ![t] = w]
        BY <3>2, <3>4 DEF TypeOK
      <3>8. work' \in [Threads -> WorkStates]
        BY <3>6, <3>7 DEF TypeOK
      <3> QED
        BY <2>8, <3>8 DEF JavaPassesHandle, TypeOK, memory, history
    <2>9. CASE DestroyNothing(t)
      <3>1. work' \in [Threads -> WorkStates]
        BY <2>9, MovedType DEF DestroyNothing
      <3> QED
        BY <2>9, <3>1 DEF DestroyNothing, TypeOK, memory, history
    <2> QED
      BY <1>6, <2>1, <2>2, <2>3, <2>4, <2>5, <2>6, <2>7, <2>8, <2>9 DEF Native
  <1> QED
    BY <1>2, <1>3, <1>4, <1>5, <1>6 DEF Step

\* Arguments stay what they were when the call got in.
LEMMA ArgStep == TypeOK /\ ArgInv /\ [Next]_vars => ArgInv'
  <1> SUFFICES ASSUME TypeOK, ArgInv, [Next]_vars PROVE ArgInv'
    OBVIOUS
  <1>1. CASE UNCHANGED work
    BY <1>1 DEF ArgInv, At
  <1>2. ASSUME NEW t \in Threads, Done(t) PROVE ArgInv'
    <2>1. work' = [work EXCEPT ![t] = Idle] /\ Idle.op = "none"
      BY <1>2 DEF Done, Idle
    <2> QED
      BY <2>1 DEF ArgInv, At, TypeOK
  <1>3. ASSUME NEW t \in Threads, NEW o \in Objects, NEW op \in Ops,
               NEW root, NEW mode, Begun(t, o, op, root, mode),
               op = "set_logic" => mode # "none"
        PROVE  ArgInv'
    BY <1>3, BegunEffect DEF EntryPoint, ArgInv, At
  <1>4. ASSUME NEW t \in Threads, NEW o \in Objects, Bindings(t, o)
        PROVE  ArgInv'
    <2>1. ASSUME NEW op \in Ops \ {"destroy"}, Begin(t, o, op)
          PROVE  ArgInv'
      <3>1. PassedOn(t, o, op)
        BY <2>1 DEF Begin
      <3>2. PICK root \in Trees \cup {Null},
                 mode \in {"BIT_SLICED", "SCALAR", "none"} :
                     /\ Begun(t, o, op, root, mode)
                     /\ op = "set_logic" => mode # "none"
        BY <3>1, PassedOnCases
      <3> QED
        BY <3>2, <1>3
    <2>2. CASE JavaDestroy(t, o) \/ Destructor(t, o)
      BY <2>2, <1>3 DEF JavaDestroy, Destructor, Ops
    <2>3. CASE New(t, o) \/ JavaCollect(o)
      BY <2>3, <1>1 DEF New, JavaCollect
    <2> QED
      BY <1>4, <2>1, <2>2, <2>3 DEF Bindings, JavaCall, CxxCall, PyCall,
          CxxDestructor, PyDestructor
  <1>5. ASSUME NEW t \in Threads, Native(t) PROVE ArgInv'
    <2>1. CASE Enter(t)
      BY <2>1 DEF Enter, Refused, ArgInv, At, TypeOK
    <2>2. CASE Destroy(t)
      BY <2>2 DEF Destroy, ArgInv, At, TypeOK
    <2>3. CASE JavaPassesHandle(t)
      <3>1. PICK h :
                work' = [work EXCEPT ![t].pc = "called", ![t].handle = h]
        BY <2>3 DEF JavaPassesHandle
      <3>2. /\ work'[t].op = work[t].op /\ work'[t].mode = work[t].mode
            /\ work'[t].pc = "called"
            /\ \A u \in Threads \ {t} : work'[u] = work[u]
        BY <3>1 DEF TypeOK, WorkStates
      <3> QED
        BY <3>2 DEF ArgInv, At
    <2>4. CASE DestroyNothing(t)
      BY <2>4 DEF DestroyNothing, ArgInv, At, TypeOK
    <2> QED
      BY <1>1, <1>2, <1>5, <2>1, <2>2, <2>3, <2>4
      DEF Native, Refuse, Register, SetLogic, Execute, Destroyed,
          UsesFreedEngine, ReadsFreedTree, ReadsFreedConstants, Fault
  <1>6. CASE UNCHANGED vars
    BY <1>1, <1>6 DEF vars
  <1> QED
    BY <1>1, <1>4, <1>5, <1>6 DEF Next, Finished, Step, ThreadEnds, CreateLogic

-----------------------------------------------------------------------------
(* What a step does, as far as ownership is concerned.                     *)

OthersGoOn(t) == \A u \in Threads \ {t} : work'[u] = work[u]

OthersStay(o) == \A p \in Objects \ {o} : object'[p] = object[p]

SameEngines == \A e \in Engines : engine'[e].live = engine[e].live

\* Nothing about objects, engines and calls changes.
Skips ==
    /\ UNCHANGED <<object, work, history>>
    /\ SameEngines
    /\ fault' = fault \/ fault'.kind # "engine"

Collects(o) ==
    /\ Binding[o] = "java"
    /\ object[o].st = "live" /\ object'[o].st = "collected"
    /\ object'[o].handle = object[o].handle /\ OthersStay(o)
    /\ UNCHANGED <<engine, work, fault, history>>

Creates(o, e) ==
    /\ object[o].st = "none" /\ ~engine[e].live
    /\ object'[o].st = "live" /\ object'[o].handle = e /\ OthersStay(o)
    /\ engine'[e].live
    /\ \A x \in Engines \ {e} : engine'[x].live = engine[x].live
    /\ UNCHANGED <<work, fault, history>>

Starts(t, o, op) ==
    /\ work[t].pc = "idle" /\ object[o].st = "live"
    /\ work'[t].pc = EntryPoint(o, op)
    /\ work'[t].op = op /\ work'[t].obj = o
    /\ work'[t].handle = object[o].handle /\ OthersGoOn(t)
    /\ Binding[o] = "python" => LockFree
    /\ UNCHANGED <<engine, fault, conflicted>>

Calls(t, o, op) ==
    /\ Starts(t, o, op) /\ UNCHANGED object
    /\ raced' = {} =>
        /\ raced = {}
        /\ Binding[o] = "java" => \A u \in Users(o) : work[u].op # "destroy"

JavaDestroys(t, o) ==
    /\ Starts(t, o, "destroy") /\ UNCHANGED object
    /\ Binding[o] = "java" /\ object[o].handle # Null
    /\ raced' = {} => raced = {} /\ Users(o) = {}

Destructs(t, o) ==
    /\ Starts(t, o, "destroy") /\ Binding[o] # "java"
    /\ Users(o) = {}
    /\ object'[o].st = "gone" /\ object'[o].handle = object[o].handle
    /\ OthersStay(o)
    /\ UNCHANGED raced

\* A call other than destroy ends.
Ends(t) ==
    /\ work[t].op # "destroy" /\ work[t].pc # "destroyed"
    /\ work'[t].pc = "idle" /\ work'[t].obj = Null /\ OthersGoOn(t)
    /\ UNCHANGED <<object, fault, history>>
    /\ SameEngines

\* The record of t's call changes its pc only.
Moves(t, pc) ==
    /\ work'[t].pc = pc /\ work'[t].op = work[t].op
    /\ work'[t].obj = work[t].obj /\ work'[t].handle = work[t].handle
    /\ OthersGoOn(t)

Enters(t) ==
    /\ work[t].pc = "called" /\ work[t].op # "destroy"
    /\ work[t].handle # Null /\ Moves(t, "inside")
    /\ UNCHANGED <<object, engine, fault, raced>>
    /\ conflicted' = conflicted \cup
           (IF Inside(work[t].handle, t) = {} THEN {}
            ELSE {work[t].obj} \cup
                 {work[u].obj : u \in Inside(work[t].handle, t)})

Destroys(t) ==
    /\ work[t].pc = "called" /\ work[t].op = "destroy"
    /\ work[t].handle \in Engines /\ Moves(t, "destroyed")
    /\ ~engine'[work[t].handle].live
    /\ \A x \in Engines \ {work[t].handle} : engine'[x].live = engine[x].live
    /\ UNCHANGED <<object, fault, history>>

\* The handle of a call is read again.
Rereads(t) ==
    /\ work[t].pc = "tested" /\ work'[t].pc = "called"
    /\ work'[t].op = work[t].op /\ work'[t].obj = work[t].obj
    /\ work'[t].handle = object[work[t].obj].handle
    /\ OthersGoOn(t)
    /\ UNCHANGED <<object, engine, fault, history>>

DestroysNothing(t) ==
    /\ work[t].pc = "called" /\ work[t].op = "destroy"
    /\ work[t].handle = Null /\ Moves(t, "destroyed")
    /\ UNCHANGED <<object, engine, fault, history>>

Clears(t) ==
    /\ work[t].pc = "destroyed"
    /\ work'[t].pc = "idle" /\ work'[t].obj = Null /\ OthersGoOn(t)
    /\ work[t].obj \in Objects =>
        /\ object'[work[t].obj].handle = Null
        /\ object'[work[t].obj].st = object[work[t].obj].st
    /\ OthersStay(work[t].obj)
    /\ UNCHANGED <<engine, fault, history>>

Faults(t) ==
    /\ UsesFreedEngine(t)
    /\ UNCHANGED <<object, engine, work, history>>

Effect ==
    \/ Skips
    \/ \E o \in Objects : Collects(o)
    \/ \E o \in Objects, e \in Engines : Creates(o, e)
    \/ \E t \in Threads, o \in Objects :
        \/ \E op \in Ops \ {"destroy"} : Calls(t, o, op)
        \/ JavaDestroys(t, o)
        \/ Destructs(t, o)
    \/ \E t \in Threads :
        \/ Ends(t) \/ Enters(t) \/ Destroys(t) \/ Clears(t) \/ Faults(t)
        \/ Rereads(t) \/ DestroysNothing(t)

\* A call on a Java object that is being destroyed marks it as raced.
LEMMA StartEffect ==
    ASSUME TypeOK, NEW t \in Threads, NEW o \in Objects, NEW op, NEW root,
           NEW mode, Begun(t, o, op, root, mode), Call(t),
           object[o].st = "live", Binding[o] = "python" => LockFree,
           UNCHANGED <<engine, fault, conflicted>>
    PROVE  Starts(t, o, op)
  BY BegunEffect DEF Starts, Call, OthersGoOn

LEMMA CallEffect ==
    ASSUME TypeOK, NEW t \in Threads, NEW o \in Objects, Bindings(t, o)
    PROVE  Effect
  <1>1. ASSUME NEW op \in Ops \ {"destroy"}, Begin(t, o, op),
               Binding[o] = "python" => LockFree
        PROVE  Starts(t, o, op) /\ UNCHANGED object
    <2>1. PassedOn(t, o, op) /\ Call(t) /\ object[o].st = "live"
          /\ UNCHANGED <<engine, fault, conflicted>> /\ UNCHANGED object
      BY <1>1 DEF Begin
    <2>2. PICK root \in Trees \cup {Null},
               mode \in {"BIT_SLICED", "SCALAR", "none"} :
                   Begun(t, o, op, root, mode)
      BY <2>1, PassedOnCases
    <2> QED
      BY <1>1, <2>1, <2>2, StartEffect
  <1>2. CASE New(t, o)
    <2>1. CASE UNCHANGED <<engine, object>>
      BY <1>2, <2>1 DEF New, Effect, Skips, SameEngines, history
    <2>2. CASE Create(o)
      <3>1. PICK e \in Engines :
                /\ ~engine[e].live
                /\ engine' = [engine EXCEPT ![e] = Fresh]
                /\ object' = [object EXCEPT ![o] = [st |-> "live",
                                                    handle |-> e]]
        BY <2>2 DEF Create
      <3>2. Fresh.live
        BY DEF Fresh
      <3>3. Creates(o, e)
        BY <1>2, <3>1, <3>2 DEF New, Creates, OthersStay, TypeOK, history
      <3> QED
        BY <3>3 DEF Effect
    <2> QED
      BY <1>2, <2>1, <2>2 DEF New
  <1>3. ASSUME NEW op \in Ops \ {"destroy"},
               JavaCall(t, o, op) \/ CxxCall(t, o, op) \/ PyCall(t, o, op)
        PROVE  Effect
    <2>1. Starts(t, o, op) /\ UNCHANGED object
      BY <1>1, <1>3 DEF JavaCall, CxxCall, PyCall
    <2>2. Calls(t, o, op)
      BY <1>3, <2>1 DEF Calls, JavaCall, CxxCall, PyCall
    <2> QED
      BY <2>2 DEF Effect
  <1>4. CASE JavaDestroy(t, o)
    <2>1. Starts(t, o, "destroy")
      BY <1>4, StartEffect DEF JavaDestroy
    <2>2. JavaDestroys(t, o)
      BY <1>4, <2>1 DEF JavaDestroy, JavaDestroys
    <2> QED
      BY <2>2 DEF Effect
  <1>5. CASE JavaCollect(o)
    <2>1. Collects(o)
      BY <1>5 DEF JavaCollect, Collects, OthersStay, TypeOK, ObjectStates,
                  history
    <2> QED
      BY <2>1 DEF Effect
  <1>6. CASE CxxDestructor(t, o) \/ PyDestructor(t, o)
    <2>1. Starts(t, o, "destroy")
      BY <1>6, StartEffect DEF CxxDestructor, PyDestructor, Destructor, history
    <2>2. Destructs(t, o)
      BY <1>6, <2>1 DEF CxxDestructor, PyDestructor, Destructor, Destructs,
                        OthersStay, TypeOK, ObjectStates, history
    <2> QED
      BY <2>2 DEF Effect
  <1> QED
    BY <1>2, <1>3, <1>4, <1>5, <1>6 DEF Bindings

LEMMA NativeEffect ==
    ASSUME TypeOK, NEW t \in Threads, Native(t)
    PROVE  Effect
  <1>1. CASE Refuse(t) \/ Register(t) \/ SetLogic(t) \/ Execute(t)
    <2>1. Done(t) /\ UNCHANGED <<object, fault, history>>
      BY <1>1 DEF Refuse, Register, SetLogic, Execute
    <2>2. SameEngines
      <3>1. CASE UNCHANGED engine
        BY <3>1 DEF SameEngines
      <3>2. CASE Register(t)
        BY <3>2 DEF Register, SameEngines, TypeOK, EngineStates
      <3>3. CASE engine' = [engine EXCEPT ![work[t].handle].logic = Compiled(t)]
        BY <3>3 DEF SameEngines, TypeOK, EngineStates
      <3> QED
        BY <1>1, <3>1, <3>2, <3>3 DEF Refuse, SetLogic, Execute
    <2>3. work[t].op # "destroy" /\ work[t].pc # "destroyed"
      BY <1>1 DEF Refuse, Register, SetLogic, Execute, Leave, At
    <2>4. Ends(t)
      BY <2>1, <2>2, <2>3, DoneEffect DEF Ends, OthersGoOn
    <2> QED
      BY <2>4 DEF Effect
  <1>2. CASE Enter(t)
    <2>1. Moves(t, "inside")
      BY <1>2 DEF Enter, Moves, OthersGoOn, TypeOK, WorkStates
    <2>2. Enters(t)
      BY <1>2, <2>1 DEF Enter, Enters, At, Refused
    <2> QED
      BY <2>2 DEF Effect
  <1>3. CASE Destroy(t)
    <2>1. Moves(t, "destroyed")
      BY <1>3 DEF Destroy, Moves, OthersGoOn, TypeOK, WorkStates
    <2>2. work[t].handle \in Engines
      BY <1>3 DEF Destroy, Gone, TypeOK, WorkStates
    <2>3. Destroys(t)
      BY <1>3, <2>1, <2>2 DEF Destroy, Destroys, At, Freed, TypeOK,
                              EngineStates, history
    <2> QED
      BY <2>3 DEF Effect
  <1>4. CASE Destroyed(t)
    <2>1. /\ work[t].obj \in Objects =>
                /\ object'[work[t].obj].handle = Null
                /\ object'[work[t].obj].st = object[work[t].obj].st
          /\ OthersStay(work[t].obj)
      BY <1>4 DEF Destroyed, Cleared, OthersStay, TypeOK, ObjectStates
    <2>2. Clears(t)
      BY <1>4, <2>1, DoneEffect DEF Destroyed, Clears, At, OthersGoOn
    <2> QED
      BY <2>2 DEF Effect
  <1>5. CASE UsesFreedEngine(t)
    BY <1>5 DEF Faults, UsesFreedEngine, Fault, Effect
  <1>6. CASE ReadsFreedTree(t) \/ ReadsFreedConstants(t)
    <2>1. fault'.kind # "engine"
      BY <1>6 DEF ReadsFreedTree, ReadsFreedConstants, Fault
    <2> QED
      BY <1>6, <2>1 DEF ReadsFreedTree, ReadsFreedConstants, Fault, Effect,
                        Skips, SameEngines
  <1>7. CASE JavaPassesHandle(t)
    <2>1. Rereads(t)
      BY <1>7 DEF JavaPassesHandle, Rereads, OthersGoOn, At, TypeOK, WorkStates
    <2> QED
      BY <2>1 DEF Effect
  <1>8. CASE DestroyNothing(t)
    <2>1. Moves(t, "destroyed")
      BY <1>8 DEF DestroyNothing, Moves, OthersGoOn, TypeOK, WorkStates
    <2>2. DestroysNothing(t)
      BY <1>8, <2>1 DEF DestroyNothing, DestroysNothing, At
    <2> QED
      BY <2>2 DEF Effect
  <1> QED
    BY <1>1, <1>2, <1>3, <1>4, <1>5, <1>6, <1>7, <1>8 DEF Native

LEMMA StepEffect == TypeOK /\ [Next]_vars => Effect
  <1> SUFFICES ASSUME TypeOK, [Next]_vars PROVE Effect
    OBVIOUS
  <1>1. CASE UNCHANGED vars
    BY <1>1 DEF vars, Effect, Skips, SameEngines
  <1>2. ASSUME NEW t \in Threads, ThreadEnds(t)
                   \/ \E tree \in {"universal", "simple"} : CreateLogic(t, tree)
        PROVE  Effect
    BY <1>2 DEF ThreadEnds, CreateLogic, Effect, Skips, SameEngines
  <1> QED
    BY <1>1, <1>2, CallEffect, NativeEffect DEF Next, Finished, Step

-----------------------------------------------------------------------------
(* Calls and their objects, whatever has been raced.                       *)

LEMMA ObjInit == Init => ObjInv
  BY DEF Init, ObjInv, ObjectInv, CallInv, Busy, Idle

LEMMA ObjStep ==
    ASSUME TypeOK, TypeOK', ObjInv, Effect
    PROVE  ObjInv'
  <1>1. CASE Skips
    BY <1>1 DEF Skips, ObjInv, ObjectInv, CallInv, Busy
  <1>2. ASSUME NEW o \in Objects, Collects(o) PROVE ObjInv'
    BY <1>2 DEF Collects, OthersStay, ObjInv, ObjectInv, CallInv, Busy
  <1>3. ASSUME NEW o \in Objects, NEW e \in Engines, Creates(o, e)
        PROVE  ObjInv'
    BY <1>3, LifetimeAssumption
    DEF Creates, OthersStay, ObjInv, ObjectInv, CallInv, Busy
  <1>4. ASSUME NEW t \in Threads, NEW o \in Objects,
               NEW op \in Ops \ {"destroy"}, Calls(t, o, op)
        PROVE  ObjInv'
    BY <1>4 DEF Calls, Starts, EntryPoint, OthersGoOn, ObjInv, ObjectInv,
                CallInv, Busy
  <1>5. ASSUME NEW t \in Threads, NEW o \in Objects, JavaDestroys(t, o)
        PROVE  ObjInv'
    BY <1>5 DEF JavaDestroys, Starts, EntryPoint, OthersGoOn, ObjInv,
                ObjectInv, CallInv, Busy
  <1>6. ASSUME NEW t \in Threads, NEW o \in Objects, Destructs(t, o)
        PROVE  ObjInv'
    BY <1>6 DEF Destructs, Starts, EntryPoint, OthersGoOn, OthersStay, ObjInv,
                ObjectInv, CallInv, Busy
  <1>7. ASSUME NEW t \in Threads, Ends(t) PROVE ObjInv'
    BY <1>7 DEF Ends, OthersGoOn, ObjInv, ObjectInv, CallInv, Busy
  <1>8. ASSUME NEW t \in Threads, Enters(t) PROVE ObjInv'
    BY <1>8 DEF Enters, Moves, OthersGoOn, ObjInv, ObjectInv, CallInv, Busy
  <1>9. ASSUME NEW t \in Threads, Destroys(t) PROVE ObjInv'
    BY <1>9 DEF Destroys, Moves, OthersGoOn, ObjInv, ObjectInv, CallInv, Busy
  <1>10. ASSUME NEW t \in Threads, Clears(t) PROVE ObjInv'
    <2>1. /\ work[t].obj \in Objects
          /\ Binding[work[t].obj] # "java" => object[work[t].obj].st = "gone"
      BY <1>10 DEF Clears, ObjInv, CallInv, Busy
    <2>2. \A o \in Objects : ObjectInv(o)'
      BY <1>10, <2>1 DEF Clears, OthersStay, ObjInv, ObjectInv
    <2>3. \A u \in Threads : CallInv(u)'
      BY <1>10, <2>1 DEF Clears, OthersStay, OthersGoOn, ObjInv, CallInv, Busy
    <2> QED
      BY <2>2, <2>3 DEF ObjInv
  <1>11. ASSUME NEW t \in Threads, Faults(t) PROVE ObjInv'
    BY <1>11 DEF Faults, ObjInv, ObjectInv, CallInv, Busy
  <1>12. ASSUME NEW t \in Threads, Rereads(t) PROVE ObjInv'
    BY <1>12 DEF Rereads, OthersGoOn, ObjInv, ObjectInv, CallInv, Busy
  <1>13. ASSUME NEW t \in Threads, DestroysNothing(t) PROVE ObjInv'
    BY <1>13 DEF DestroysNothing, Moves, OthersGoOn, ObjInv, ObjectInv, CallInv,
                 Busy
  <1> QED
    BY <1>1, <1>2, <1>3, <1>4, <1>5, <1>6, <1>7, <1>8, <1>9, <1>10, <1>11,
       <1>12, <1>13
    DEF Effect

-----------------------------------------------------------------------------
(* No engine is left behind.                                               *)

\* The owner of a live engine: o has its handle, nobody has freed it for o, and
\* if o is out of reach then its destructor has yet to free it.
Owns(o, e) ==
    /\ object[o].handle = e
    /\ \A u \in Threads :
           work[u].obj = o => work[u].pc # "destroyed"
    /\ object[o].st = "gone" =>
           \E u \in Threads : /\ work[u].obj = o /\ work[u].op = "destroy"
                              /\ work[u].pc = "called"

OwnInv == \A e \in Engines : engine[e].live => \E o \in Objects : Owns(o, e)

LEMMA OwnInit == Init => OwnInv
  BY DEF Init, OwnInv, Fresh

\* An owner stays one unless a call frees its engine.
LEMMA OwnStep ==
    ASSUME TypeOK, ObjInv, OwnInv, Effect
    PROVE  OwnInv'
  <1>1. SUFFICES ASSUME NEW e \in Engines, engine'[e].live
                 PROVE  \E o \in Objects : Owns(o, e)'
    BY DEF OwnInv
  <1>2. ASSUME NEW o \in Objects, Creates(o, e)
        PROVE  \E p \in Objects : Owns(p, e)'
    <2>1. \A u \in Threads : work[u].obj = o => work[u].pc # "destroyed"
      BY <1>2 DEF Creates, ObjInv, CallInv, Busy
    <2>2. Owns(o, e)'
      BY <1>2, <2>1 DEF Creates, Owns
    <2> QED
      BY <2>2
  <1>3. SUFFICES ASSUME NEW o \in Objects, Owns(o, e), engine[e].live,
                        \A p \in Objects : ~Creates(p, e)
                 PROVE  Owns(o, e)'
    <2>1. ASSUME \A p \in Objects : ~Creates(p, e) PROVE engine[e].live
      BY <1>1, <2>1 DEF Effect, Skips, Collects, Creates, Calls, JavaDestroys,
        Destructs, Starts, Ends, Enters, Destroys, Clears, Faults, Rereads,
        DestroysNothing, SameEngines
    <2> QED
      BY <1>2, <2>1 DEF OwnInv
  <1>4. CASE Skips
    BY <1>3, <1>4 DEF Skips, Owns
  <1>5. ASSUME NEW p \in Objects, Collects(p) PROVE Owns(o, e)'
    BY <1>3, <1>5 DEF Collects, OthersStay, Owns
  <1>6. ASSUME NEW p \in Objects, NEW x \in Engines, Creates(p, x)
        PROVE  Owns(o, e)'
    <2>1. x # e
      BY <1>3, <1>6
    <2>2. p # o
      BY <1>3, <1>6, LifetimeAssumption DEF Creates, Owns, ObjInv, ObjectInv
    <2> QED
      BY <1>3, <1>6, <2>1, <2>2 DEF Creates, OthersStay, Owns
  <1>7. ASSUME NEW t \in Threads, NEW p \in Objects, NEW op, Starts(t, p, op),
               \/ UNCHANGED object
               \/ Destructs(t, p) /\ op = "destroy"
        PROVE  Owns(o, e)'
    <2>1. \A u \in Threads :
              work'[u].obj = o => work'[u].pc # "destroyed"
      BY <1>3, <1>7 DEF Starts, EntryPoint, OthersGoOn, Owns
    <2>2. object'[o].handle = e
      BY <1>3, <1>7 DEF Destructs, OthersStay, Owns
    <2>3. ASSUME object'[o].st = "gone"
          PROVE  \E u \in Threads :
                     /\ work'[u].obj = o /\ work'[u].op = "destroy"
                     /\ work'[u].pc = "called"
      <3>1. CASE object[o].st = "gone"
        BY <1>3, <1>7, <3>1 DEF Starts, OthersGoOn, Owns
      <3>2. CASE object[o].st # "gone"
        BY <1>7, <2>3, <3>2 DEF Starts, EntryPoint, Destructs, OthersStay
      <3> QED
        BY <3>1, <3>2
    <2> QED
      BY <2>1, <2>2, <2>3 DEF Owns
  <1>8. ASSUME NEW t \in Threads, Ends(t) PROVE Owns(o, e)'
    BY <1>3, <1>8 DEF Ends, OthersGoOn, Owns
  <1>9. ASSUME NEW t \in Threads, Enters(t) PROVE Owns(o, e)'
    BY <1>3, <1>9 DEF Enters, Moves, OthersGoOn, Owns
  <1>10. ASSUME NEW t \in Threads, Destroys(t) PROVE Owns(o, e)'
    <2>1. work[t].handle # e
      BY <1>1, <1>10 DEF Destroys
    <2>2. work[t].obj # o
      BY <1>3, <1>10, <2>1, LifetimeAssumption
      DEF Destroys, Owns, ObjInv, CallInv, Busy
    <2> QED
      BY <1>3, <1>10, <2>2 DEF Destroys, Moves, OthersGoOn, Owns
  <1>11. ASSUME NEW t \in Threads, Clears(t) PROVE Owns(o, e)'
    <2>1. work[t].obj # o
      BY <1>3, <1>11 DEF Clears, Owns
    <2> QED
      BY <1>3, <1>11, <2>1 DEF Clears, OthersStay, OthersGoOn, Owns
  <1>12. ASSUME NEW t \in Threads, Faults(t) PROVE Owns(o, e)'
    BY <1>3, <1>12 DEF Faults, Owns
  <1>13. ASSUME NEW t \in Threads, Rereads(t) PROVE Owns(o, e)'
    BY <1>3, <1>13 DEF Rereads, OthersGoOn, Owns
  <1>14. ASSUME NEW t \in Threads, DestroysNothing(t) PROVE Owns(o, e)'
    <2>1. work[t].obj # o
      BY <1>3, <1>14, LifetimeAssumption
      DEF DestroysNothing, Owns, ObjInv, CallInv, Busy
    <2> QED
      BY <1>3, <1>14, <2>1 DEF DestroysNothing, Moves, OthersGoOn, Owns
  <1> QED
    BY <1>4, <1>5, <1>6, <1>7, <1>8, <1>9, <1>10, <1>11, <1>12, <1>13, <1>14
    DEF Effect, Calls, JavaDestroys, Destructs

-----------------------------------------------------------------------------
(* Handles, as long as no Java object was destroyed under a call.          *)

\* The handle a call read is still its object's, and the call that destroys an
\* object is the only one on it.
UserInv ==
    raced = {} => \A t \in Threads :
        Busy(t) =>
            /\ work[t].handle = object[work[t].obj].handle
            /\ work[t].op = "destroy" =>
                \A u \in Threads :
                    Busy(u) /\ work[u].obj = work[t].obj => u = t

LEMMA UserInit == Init => UserInv
  BY DEF Init, UserInv, Busy, Idle

LEMMA UserStep ==
    ASSUME TypeOK, ObjInv, UserInv, Effect
    PROVE  UserInv'
  <1>1. CASE Skips
    BY <1>1 DEF Skips, UserInv, Busy, history
  <1>2. ASSUME NEW o \in Objects, Collects(o) PROVE UserInv'
    BY <1>2 DEF Collects, OthersStay, UserInv, Busy, ObjInv, CallInv, history
  <1>3. ASSUME NEW o \in Objects, NEW e \in Engines, Creates(o, e)
        PROVE  UserInv'
    BY <1>3 DEF Creates, OthersStay, UserInv, Busy, ObjInv, CallInv, history
  <1>4. ASSUME NEW t \in Threads, NEW o \in Objects,
               NEW op \in Ops \ {"destroy"}, Calls(t, o, op)
        PROVE  UserInv'
    <2>1. SUFFICES ASSUME raced' = {} PROVE UserInv'
      BY DEF UserInv
    <2>2. ASSUME NEW u \in Threads, Busy(u), work[u].obj = o
          PROVE  work[u].op # "destroy"
      <3>1. CASE Binding[o] = "java"
        BY <1>4, <2>1, <2>2, <3>1 DEF Calls, Users, Busy
      <3>2. CASE Binding[o] # "java"
        BY <1>4, <2>2, <3>2 DEF Calls, Starts, ObjInv, CallInv
      <3> QED
        BY <3>1, <3>2
    <2> QED
      BY <1>4, <2>1, <2>2 DEF Calls, Starts, OthersGoOn, UserInv, Busy
  <1>5. ASSUME NEW t \in Threads, NEW o \in Objects, JavaDestroys(t, o)
        PROVE  UserInv'
    BY <1>5 DEF JavaDestroys, Starts, OthersGoOn, UserInv, Busy, Users
  <1>6. ASSUME NEW t \in Threads, NEW o \in Objects, Destructs(t, o)
        PROVE  UserInv'
    BY <1>6 DEF Destructs, Starts, OthersGoOn, OthersStay, UserInv, Busy, Users,
                ObjInv, CallInv
  <1>7. ASSUME NEW t \in Threads, Ends(t) PROVE UserInv'
    BY <1>7 DEF Ends, OthersGoOn, UserInv, Busy, history
  <1>8. ASSUME NEW t \in Threads, Enters(t) PROVE UserInv'
    BY <1>8 DEF Enters, Moves, OthersGoOn, UserInv, Busy
  <1>9. ASSUME NEW t \in Threads, Destroys(t) PROVE UserInv'
    BY <1>9 DEF Destroys, Moves, OthersGoOn, UserInv, Busy, history
  <1>10. ASSUME NEW t \in Threads, Clears(t) PROVE UserInv'
    <2>1. SUFFICES ASSUME raced = {} PROVE UserInv'
      BY <1>10 DEF Clears, UserInv, history
    <2>2. ASSUME NEW u \in Threads, Busy(u), u # t
          PROVE  work[u].obj # work[t].obj
      BY <1>10, <2>1, <2>2 DEF Clears, UserInv, ObjInv, CallInv, Busy
    <2> QED
      BY <1>10, <2>1, <2>2
      DEF Clears, OthersStay, OthersGoOn, UserInv, ObjInv, CallInv, Busy
  <1>11. ASSUME NEW t \in Threads, Faults(t) PROVE UserInv'
    BY <1>11 DEF Faults, UserInv, Busy, history
  <1>12. ASSUME NEW t \in Threads, Rereads(t) PROVE UserInv'
    BY <1>12 DEF Rereads, OthersGoOn, UserInv, Busy, history
  <1>13. ASSUME NEW t \in Threads, DestroysNothing(t) PROVE UserInv'
    BY <1>13 DEF DestroysNothing, Moves, OthersGoOn, UserInv, Busy, history
  <1> QED
    BY <1>1, <1>2, <1>3, <1>4, <1>5, <1>6, <1>7, <1>8, <1>9, <1>10, <1>11,
       <1>12, <1>13
    DEF Effect

LEMMA HandlesInit == Init => HandlesAreOwned
  BY DEF Init, HandlesAreOwned, NoFault

\* An object has its engine to itself, or has freed it and not yet forgotten it.
Owned(o) ==
    \/ object[o].handle = Null
    \/ BeingDestroyed(o)
    \/ /\ engine[object[o].handle].live
       /\ \A p \in Objects \ {o} :
              object[p].handle = object[o].handle => BeingDestroyed(p)

\* Objects being destroyed stay so while no call clears a handle.
LEMMA BeingDestroyedStays ==
    ASSUME \A t \in Threads : work[t].pc = "destroyed" =>
               work'[t].pc = "destroyed" /\ work'[t].obj = work[t].obj,
           NEW o \in Objects, BeingDestroyed(o)
    PROVE  BeingDestroyed(o)'
  BY DEF BeingDestroyed, Users, At

LEMMA OwnedStays ==
    ASSUME TypeOK, NEW o \in Objects, Owned(o),
           \A t \in Threads : work[t].pc = "destroyed" =>
               work'[t].pc = "destroyed" /\ work'[t].obj = work[t].obj,
           \A p \in Objects : object'[p].handle = object[p].handle,
           SameEngines
    PROVE  Owned(o)'
  <1>1. \A p \in Objects : BeingDestroyed(p) => BeingDestroyed(p)'
    BY BeingDestroyedStays
  <1> QED
    BY <1>1 DEF Owned, SameEngines, TypeOK, ObjectStates

LEMMA HandlesStep ==
    ASSUME TypeOK, ObjInv, UserInv, HandlesAreOwned, Effect
    PROVE  HandlesAreOwned'
  <1>1. SUFFICES ASSUME raced = {}
                 PROVE  fault'.kind # "engine" /\ \A o \in Objects : Owned(o)'
    BY DEF HandlesAreOwned, Owned, Effect, Skips, Collects, Creates, Calls,
           JavaDestroys, Destructs, Ends, Enters, Destroys, Clears, Faults,
           Rereads, DestroysNothing, history
  <1>2. fault.kind # "engine" /\ \A o \in Objects : Owned(o)
    BY <1>1 DEF HandlesAreOwned, Owned
  <1>3. ASSUME NEW t \in Threads, Faults(t) PROVE FALSE
    <2> DEFINE o == work[t].obj
    <2>1. /\ o \in Objects /\ work[t].handle = object[o].handle
          /\ work[t].pc # "destroyed" /\ work[t].handle # Null
      BY <1>1, <1>3 DEF Faults, UsesFreedEngine, Refused, At, ObjInv, CallInv,
                        UserInv, Busy
    <2>2. ~BeingDestroyed(o)
      BY <1>1, <1>3, <2>1 DEF Faults, UsesFreedEngine, BeingDestroyed, Users,
                              At, ObjInv, CallInv, UserInv, Busy
    <2>3. engine[work[t].handle].live
      BY <1>2, <2>1, <2>2 DEF Owned
    <2> QED
      BY <1>3, <2>1, <2>3 DEF Faults, UsesFreedEngine, Gone
  <1>4. fault'.kind # "engine"
    BY <1>2, <1>3 DEF Effect, Skips, Collects, Creates, Calls, JavaDestroys,
                      Destructs, Starts, Ends, Enters, Destroys, Clears,
                      Rereads, DestroysNothing
  <1>5. SUFFICES ASSUME NEW o \in Objects PROVE Owned(o)'
    BY <1>4
  <1>6. CASE Skips \/ \E p \in Objects : Collects(p)
    BY <1>2, <1>6, OwnedStays DEF Skips, Collects, OthersStay, SameEngines
  <1>7. ASSUME NEW p \in Objects, NEW e \in Engines, Creates(p, e)
        PROVE  Owned(o)'
    <2>1. \A q \in Objects : BeingDestroyed(q) => BeingDestroyed(q)'
      BY <1>7, BeingDestroyedStays DEF Creates
    <2>2. \A q \in Objects : object[q].handle = e => BeingDestroyed(q)
      BY <1>2, <1>7, LifetimeAssumption DEF Creates, Owned
    <2>3. CASE o = p
      BY <1>7, <2>1, <2>2, <2>3 DEF Creates, OthersStay, Owned
    <2>4. CASE o # p
      <3>1. object'[o].handle = object[o].handle
        BY <1>7, <2>4 DEF Creates, OthersStay
      <3>2. CASE object[o].handle = Null \/ BeingDestroyed(o)
        BY <2>1, <3>1, <3>2 DEF Owned
      <3>3. CASE object[o].handle # Null /\ ~BeingDestroyed(o)
        <4>1. object[o].handle \in Engines \ {e}
          BY <2>2, <3>3 DEF TypeOK, ObjectStates
        <4> QED
          BY <1>2, <1>7, <2>1, <3>1, <3>3, <4>1 DEF Creates, OthersStay, Owned
      <3> QED
        BY <3>2, <3>3
    <2> QED
      BY <2>3, <2>4
  <1>8. ASSUME NEW t \in Threads, NEW p \in Objects, NEW op, Starts(t, p, op),
               UNCHANGED object \/ Destructs(t, p)
        PROVE  Owned(o)'
    <2>1. \A q \in Objects : object'[q].handle = object[q].handle
      BY <1>8 DEF Destructs, OthersStay
    <2> QED
      BY <1>2, <1>8, <2>1, OwnedStays
      DEF Starts, EntryPoint, OthersGoOn, SameEngines
  <1>9. ASSUME NEW t \in Threads, Ends(t) \/ Enters(t) PROVE Owned(o)'
    BY <1>2, <1>9, OwnedStays DEF Ends, Enters, Moves, OthersGoOn, SameEngines
  <1>12. ASSUME NEW t \in Threads, Rereads(t) \/ DestroysNothing(t)
         PROVE  Owned(o)'
    BY <1>2, <1>12, OwnedStays
    DEF Rereads, DestroysNothing, Moves, OthersGoOn, SameEngines
  <1>10. ASSUME NEW t \in Threads, Destroys(t) PROVE Owned(o)'
    <2>0. PICK d \in Objects : d = work[t].obj
      BY <1>10 DEF Destroys, ObjInv, CallInv, Busy
    <2>1. /\ work[t].handle = object[d].handle
          /\ work[t].handle \in Engines /\ work[t].handle # Null
      BY <1>1, <1>10, <2>0, LifetimeAssumption
      DEF Destroys, ObjInv, CallInv, UserInv, Busy
    <2>2. ~BeingDestroyed(d)
      BY <1>1, <1>10, <2>0, <2>1
      DEF Destroys, BeingDestroyed, Users, At, ObjInv, CallInv, UserInv, Busy
    <2>3. BeingDestroyed(d)'
      BY <1>10, <2>0 DEF Destroys, Moves, BeingDestroyed, Users, At
    <2>4. \A q \in Objects : BeingDestroyed(q) => BeingDestroyed(q)'
      BY <1>10, BeingDestroyedStays DEF Destroys, Moves, OthersGoOn
    <2>5. \A q \in Objects \ {d} :
              object[q].handle = work[t].handle => BeingDestroyed(q)
      BY <1>2, <2>1, <2>2 DEF Owned
    <2>6. CASE o = d
      BY <2>3, <2>6 DEF Owned
    <2>7. CASE o # d /\ object[o].handle = work[t].handle
      BY <2>4, <2>5, <2>7 DEF Owned
    <2>8. CASE object[o].handle # work[t].handle
      <3>1. object[o].handle \in Engines \cup {Null}
        BY DEF TypeOK, ObjectStates
      <3> QED
        BY <1>2, <1>10, <2>4, <2>8, <3>1 DEF Destroys, Owned
    <2> QED
      BY <2>6, <2>7, <2>8
  <1>11. ASSUME NEW t \in Threads, Clears(t) PROVE Owned(o)'
    <2> DEFINE d == work[t].obj
    <2>1. d \in Objects /\ object'[d].handle = Null
      BY <1>11 DEF Clears, ObjInv, CallInv, Busy
    <2>2. CASE o = d
      BY <2>1, <2>2 DEF Owned
    <2>3. CASE o # d
      <3>1. \A q \in Objects \ {d} :
                BeingDestroyed(q) => BeingDestroyed(q)'
        BY <1>11 DEF Clears, OthersGoOn, BeingDestroyed, Users, At
      <3>2. \A q \in Objects \ {d} : object'[q] = object[q]
        BY <1>11 DEF Clears, OthersStay
      <3>3. CASE object[o].handle = Null \/ BeingDestroyed(o)
        BY <2>3, <3>1, <3>2, <3>3 DEF Owned
      <3>4. CASE object[o].handle # Null /\ ~BeingDestroyed(o)
        <4>1. /\ engine'[object[o].handle].live
              /\ \A q \in Objects \ {o} :
                     object[q].handle = object[o].handle => BeingDestroyed(q)
          BY <1>2, <1>11, <3>4 DEF Clears, Owned
        <4>2. \A q \in Objects \ {o} :
                  object'[q].handle = object[o].handle => BeingDestroyed(q)'
          BY <2>1, <3>1, <3>2, <3>4, <4>1
        <4> QED
          BY <2>3, <3>2, <4>1, <4>2 DEF Owned
      <3> QED
        BY <3>3, <3>4
    <2> QED
      BY <2>2, <2>3
  <1> QED
    BY <1>3, <1>6, <1>7, <1>8, <1>9, <1>10, <1>11, <1>12
    DEF Effect, Calls, JavaDestroys, Destructs

-----------------------------------------------------------------------------
(* The interpreter lock.                                                   *)

\* At most one thread is in a call on a Python object.
PyInv ==
    \A t, u \in Threads :
        /\ work[t].obj # Null /\ Binding[work[t].obj] = "python"
        /\ work[u].obj # Null /\ Binding[work[u].obj] = "python"
        => t = u

LEMMA PyInit == Init => PyInv
  BY DEF Init, PyInv, Idle

LEMMA PyStep ==
    ASSUME PyInv, ObjInv, Effect
    PROVE  PyInv'
  <1>1. CASE UNCHANGED work
    BY <1>1 DEF PyInv
  <1>2. ASSUME NEW t \in Threads, NEW o \in Objects, NEW op, Starts(t, o, op)
        PROVE  PyInv'
    BY <1>2 DEF Starts, OthersGoOn, LockFree, PyInv
  <1>3. ASSUME NEW t \in Threads,
               \/ Ends(t) \/ Clears(t) \/ Enters(t) \/ Destroys(t)
               \/ Rereads(t) \/ DestroysNothing(t)
        PROVE  PyInv'
    BY <1>3 DEF Ends, Clears, Enters, Destroys, Rereads, DestroysNothing, Moves,
                OthersGoOn, PyInv
  <1> QED
    BY <1>1, <1>2, <1>3 DEF Effect, Skips, Collects, Creates, Calls,
        JavaDestroys, Destructs, Faults

LEMMA ConflictInit == Init => PythonCallsDoNotOverlap
  BY DEF Init, PythonCallsDoNotOverlap

\* Two threads are inside one engine only through the same object.
LEMMA ConflictStep ==
    ASSUME TypeOK, ObjInv, UserInv, HandlesAreOwned, PyInv,
           PythonCallsDoNotOverlap, Effect
    PROVE  PythonCallsDoNotOverlap'
  <1>1. ASSUME NEW t \in Threads, Enters(t) PROVE PythonCallsDoNotOverlap'
    <2>1. SUFFICES ASSUME raced = {},
                          NEW u \in Inside(work[t].handle, t)
                   PROVE  /\ Binding[work[t].obj] # "python"
                          /\ Binding[work[u].obj] # "python"
      BY <1>1 DEF Enters, PythonCallsDoNotOverlap
    <2>2. /\ u \in Threads /\ u # t
          /\ work[u].pc = "inside" /\ work[u].handle = work[t].handle
      BY DEF Inside, At
    <2>3. /\ Busy(t) /\ Busy(u)
          /\ work[t].obj \in Objects /\ work[u].obj \in Objects
          /\ object[work[t].obj].handle = work[t].handle
          /\ object[work[u].obj].handle = work[t].handle
      BY <1>1, <2>1, <2>2 DEF Enters, ObjInv, CallInv, UserInv, Busy
    <2>4. ~BeingDestroyed(work[t].obj) /\ ~BeingDestroyed(work[u].obj)
      BY <1>1, <2>1, <2>2, <2>3 DEF Enters, BeingDestroyed, Users, At, ObjInv,
                                    CallInv, UserInv, Busy
    <2>5. work[t].obj = work[u].obj
      BY <1>1, <2>1, <2>3, <2>4 DEF Enters, HandlesAreOwned
    <2> QED
      BY <2>2, <2>3, <2>5, LifetimeAssumption DEF PyInv
  <1> QED
    BY <1>1 DEF Effect, Skips, Collects, Creates, Calls, JavaDestroys,
        Destructs, Starts, Ends, Destroys, Clears, Faults, Rereads,
        DestroysNothing, history, PythonCallsDoNotOverlap

-----------------------------------------------------------------------------
(* Kernels and the threads whose constants they read.                      *)

\* Threads in a call are alive, and callers remembers those in a method.
CallerInv ==
    \A t \in Threads :
        Busy(t) =>
            /\ t \in alive
            /\ work[t].op # "destroy" => t \in callers[work[t].obj]

\* The kernel an object has was compiled by a thread that called it.
KernelOf(o) == engine[object[o].handle].logic

KernelOwn(o) ==
    object[o].handle = Null \/ BeingDestroyed(o) \/ KernelOf(o) = Null
        \/ KernelOf(o).by \in callers[o]

KernelInv == raced = {} => \A o \in Objects : KernelOwn(o)

LEMMA KernelInit == Init => CallerInv /\ KernelInv
  BY DEF Init, CallerInv, Busy, Idle, KernelInv, KernelOwn

\* Histories only grow.
LEMMA HistoryGrows ==
    ASSUME TypeOK, NEW t \in Threads, Step(t)
    PROVE  /\ raced' = {} => raced = {}
           /\ \A o \in Objects : callers[o] \subseteq callers'[o]
  <1>1. ASSUME NEW o \in Objects, Bindings(t, o)
        PROVE  /\ raced' = {} => raced = {}
               /\ \A p \in Objects : callers[p] \subseteq callers'[p]
    <2>1. raced' = {} => raced = {}
      BY <1>1 DEF Bindings, New, JavaCall, JavaDestroy, JavaCollect, CxxCall,
          PyCall, CxxDestructor, PyDestructor, Destructor, history
    <2>2. ASSUME NEW op, Begin(t, o, op), NEW p \in Objects
          PROVE  callers[p] \subseteq callers'[p]
      BY <2>2 DEF Begin, TypeOK
    <2>3. ASSUME UNCHANGED callers, NEW p \in Objects
          PROVE  callers[p] \subseteq callers'[p]
      BY <2>3
    <2>4. \A p \in Objects : callers[p] \subseteq callers'[p]
      BY <1>1, <2>2, <2>3 DEF Bindings, New, JavaCall, JavaDestroy, JavaCollect,
          CxxCall, PyCall, CxxDestructor, PyDestructor, Destructor, history
    <2> QED
      BY <2>1, <2>4
  <1>2. CASE ~\E o \in Objects : Bindings(t, o)
    <2>1. UNCHANGED <<callers, raced>>
      BY <1>2 DEF Step, ThreadEnds, CreateLogic, Native, JavaPassesHandle,
          Refuse, Enter, Register, SetLogic, Execute, Destroy, DestroyNothing,
          Destroyed, UsesFreedEngine, ReadsFreedTree, ReadsFreedConstants, Fault,
          history
    <2> QED
      BY <2>1
  <1> QED
    BY <1>1, <1>2

LEMMA CallerStep ==
    ASSUME TypeOK, ObjInv, CallerInv, NEW t \in Threads, Step(t)
    PROVE  CallerInv'
  <1>1. ASSUME UNCHANGED alive,
               \A u \in Threads :
                   \/ work'[u].pc = "idle"
                   \/ /\ work[u].pc # "idle" /\ work'[u].op = work[u].op
                      /\ work'[u].obj = work[u].obj
        PROVE  CallerInv'
    <2>1. \A u \in Threads : Busy(u) => work[u].obj \in Objects
      BY DEF ObjInv, CallInv
    <2> QED
      BY <1>1, <2>1, HistoryGrows DEF CallerInv, Busy
  <1>2. ASSUME NEW o \in Objects, NEW op, t \in alive, UNCHANGED alive,
               work'[t].op = op, work'[t].obj = o,
               \A u \in Threads \ {t} : work'[u] = work[u],
               op # "destroy" => t \in callers'[o]
        PROVE  CallerInv'
    <2>1. \A u \in Threads : Busy(u) => work[u].obj \in Objects
      BY DEF ObjInv, CallInv
    <2> QED
      BY <1>2, <2>1, HistoryGrows DEF CallerInv, Busy
  <1>3. CASE ThreadEnds(t)
    BY <1>3 DEF ThreadEnds, At, CallerInv, Busy, history
  <1>4. ASSUME NEW tree \in {"universal", "simple"}, CreateLogic(t, tree)
        PROVE  CallerInv'
    BY <1>4 DEF CreateLogic, CallerInv, Busy, history
  <1>5. ASSUME NEW o \in Objects, Bindings(t, o) PROVE CallerInv'
    <2>1. ASSUME NEW op \in Ops \ {"destroy"}, Begin(t, o, op)
          PROVE  CallerInv'
      <3>1. PICK root \in Trees \cup {Null},
                 mode \in {"BIT_SLICED", "SCALAR", "none"} :
                     Begun(t, o, op, root, mode)
        BY <2>1, PassedOnCases DEF Begin
      <3>2. t \in callers'[o]
        BY <2>1 DEF Begin, TypeOK
      <3>3. t \in alive /\ UNCHANGED alive
        BY <2>1 DEF Begin, Call, memory
      <3> QED
        BY <1>2, <3>1, <3>2, <3>3, BegunEffect
    <2>2. CASE JavaDestroy(t, o) \/ Destructor(t, o)
      <3>1. /\ Begun(t, o, "destroy", Null, "none")
            /\ t \in alive /\ UNCHANGED alive
        BY <2>2 DEF JavaDestroy, Destructor, Call, memory
      <3> QED
        BY <1>2, <3>1, BegunEffect
    <2>3. CASE New(t, o) \/ JavaCollect(o)
      BY <2>3 DEF New, JavaCollect, CallerInv, Busy, memory, history
    <2> QED
      BY <1>5, <2>1, <2>2, <2>3 DEF Bindings, JavaCall, CxxCall, PyCall,
          CxxDestructor, PyDestructor
  <1>6. CASE Native(t)
    <2>1. UNCHANGED alive
      BY <1>6 DEF Native, JavaPassesHandle, Refuse, Enter, Register, SetLogic,
          Execute, Destroy, DestroyNothing, Destroyed, UsesFreedEngine,
          ReadsFreedTree, ReadsFreedConstants, Fault, memory
    <2>2. ASSUME Done(t) PROVE CallerInv'
      BY <1>1, <2>1, <2>2, DoneEffect
    <2>3. ASSUME work[t].pc # "idle",
                 work' = [work EXCEPT ![t].pc = "inside"]
                     \/ work' = [work EXCEPT ![t].pc = "destroyed"]
          PROVE  CallerInv'
      <3>1. \A u \in Threads :
                /\ work'[u].op = work[u].op /\ work'[u].obj = work[u].obj
                /\ work'[u].pc = "idle" \/ u = t \/ work[u].pc = work'[u].pc
        BY <2>3 DEF TypeOK, WorkStates
      <3> QED
        BY <1>1, <2>1, <2>3, <3>1
    <2>4. CASE JavaPassesHandle(t)
      <3>1. Rereads(t)
        BY <2>4 DEF JavaPassesHandle, Rereads, OthersGoOn, At, TypeOK, WorkStates
      <3>2. \A u \in Threads :
                \/ work'[u].pc = "idle"
                \/ /\ work[u].pc # "idle" /\ work'[u].op = work[u].op
                   /\ work'[u].obj = work[u].obj
        BY <3>1 DEF Rereads, OthersGoOn
      <3> QED
        BY <1>1, <2>1, <3>2
    <2>5. ASSUME UNCHANGED work PROVE CallerInv'
      BY <1>1, <2>1, <2>5
    <2> QED
      BY <1>6, <2>2, <2>3, <2>4, <2>5
      DEF Native, Refuse, Enter, Register, SetLogic, Execute, Destroy,
          DestroyNothing, Destroyed, UsesFreedEngine, ReadsFreedTree,
          ReadsFreedConstants, Fault, Leave, At
  <1> QED
    BY <1>3, <1>4, <1>5, <1>6 DEF Step

\* Steps that neither give an object a handle nor an engine a kernel.
LEMMA KernelStays ==
    ASSUME KernelInv, raced' = {} => raced = {},
           \A o \in Objects :
               /\ callers[o] \subseteq callers'[o]
               /\ object'[o].handle \in {object[o].handle, Null}
               /\ object'[o].handle # Null /\ BeingDestroyed(o) =>
                      BeingDestroyed(o)'
               /\ object'[o].handle # Null =>
                      engine'[object[o].handle].logic = KernelOf(o)
    PROVE  KernelInv'
  BY DEF KernelInv, KernelOwn, KernelOf

\* A thread compiles for the object whose method it is in.
LEMMA KernelStep ==
    ASSUME TypeOK, ObjInv, UserInv, HandlesAreOwned, CallerInv, KernelInv,
           NEW t \in Threads, Step(t)
    PROVE  KernelInv'
  <1>1. /\ raced' = {} => raced = {}
        /\ \A o \in Objects : callers[o] \subseteq callers'[o]
    BY HistoryGrows
  <1>2. ASSUME \A o \in Objects : object'[o].handle = object[o].handle,
               \A u \in Threads : work[u].pc = "destroyed" =>
                   work'[u].pc = "destroyed" /\ work'[u].obj = work[u].obj,
               \A e \in Engines : engine'[e].logic = engine[e].logic
        PROVE  KernelInv'
    <2>1. \A o \in Objects : BeingDestroyed(o) => BeingDestroyed(o)'
      BY <1>2, BeingDestroyedStays
    <2>2. ASSUME NEW o \in Objects, object[o].handle # Null
          PROVE  engine'[object[o].handle].logic = KernelOf(o)
      BY <1>2, <2>2 DEF KernelOf, TypeOK, ObjectStates
    <2> QED
      BY <1>1, <1>2, <2>1, <2>2, KernelStays
  <1>3. CASE ThreadEnds(t) \/ \E tree \in {"universal", "simple"} :
                                 CreateLogic(t, tree)
    BY <1>2, <1>3 DEF ThreadEnds, CreateLogic
  <1>4. ASSUME NEW o \in Objects, New(t, o), Create(o) PROVE KernelInv'
    <2>1. SUFFICES ASSUME raced = {}, NEW p \in Objects PROVE KernelOwn(p)'
      BY <1>1 DEF KernelInv
    <2>2. PICK e \in Engines :
              /\ ~engine[e].live
              /\ engine' = [engine EXCEPT ![e] = Fresh]
              /\ object' = [object EXCEPT ![o] = [st |-> "live", handle |-> e]]
      BY <1>4 DEF Create
    <2>3. \A q \in Objects : BeingDestroyed(q) => BeingDestroyed(q)'
      BY <1>4, BeingDestroyedStays DEF New
    <2>4. CASE p = o
      <3>1. engine'[e].logic = Null /\ object'[p].handle = e
        BY <2>2, <2>4 DEF Fresh, TypeOK
      <3> QED
        BY <3>1 DEF KernelOwn, KernelOf
    <2>5. CASE p # o
      <3>1. object'[p] = object[p] /\ callers'[p] = callers[p]
        BY <1>4, <2>2, <2>5 DEF New, TypeOK, history
      <3>2. CASE object[p].handle = Null \/ BeingDestroyed(p)
        BY <2>3, <3>1, <3>2 DEF KernelOwn
      <3>3. CASE object[p].handle # Null /\ ~BeingDestroyed(p)
        <4>1. object[p].handle \in Engines \ {e}
          BY <2>1, <2>2, <3>3 DEF HandlesAreOwned, TypeOK, ObjectStates
        <4>2. engine'[object[p].handle] = engine[object[p].handle]
          BY <2>2, <4>1 DEF TypeOK
        <4> QED
          BY <2>1, <3>1, <3>3, <4>2 DEF KernelInv, KernelOwn, KernelOf
      <3> QED
        BY <3>2, <3>3
    <2> QED
      BY <2>4, <2>5
  <1>5. ASSUME NEW o \in Objects, Bindings(t, o) PROVE KernelInv'
    <2>1. CASE New(t, o) /\ ~Create(o)
      BY <1>2, <2>1 DEF New
    <2>2. CASE JavaCollect(o)
      <3>1. \A p \in Objects : object'[p].handle = object[p].handle
        BY <2>2 DEF JavaCollect, TypeOK, ObjectStates
      <3> QED
        BY <1>2, <2>2, <3>1 DEF JavaCollect
    <2>3. CASE ~New(t, o) /\ ~JavaCollect(o)
      <3>1. PICK op \in Ops : Starts(t, o, op)
                \/ \E root, mode : Begun(t, o, op, root, mode) /\ At(t, "idle")
        BY <1>5, <2>3, PassedOnCases DEF Bindings, JavaCall, CxxCall, PyCall,
            JavaDestroy, CxxDestructor, PyDestructor, Destructor, Begin, Call,
            At, Ops
      <3>2. \A u \in Threads : work[u].pc = "destroyed" =>
                work'[u].pc = "destroyed" /\ work'[u].obj = work[u].obj
        BY <3>1, BegunEffect DEF Starts, OthersGoOn, At
      <3>3. UNCHANGED engine
        BY <1>5, <2>3 DEF Bindings, JavaCall, CxxCall, PyCall, JavaDestroy,
            CxxDestructor, PyDestructor, Destructor, Begin
      <3>4. \A p \in Objects : object'[p].handle = object[p].handle
        BY <1>5, <2>3 DEF Bindings, JavaCall, CxxCall, PyCall, JavaDestroy,
            CxxDestructor, PyDestructor, Destructor, Begin, TypeOK, ObjectStates
      <3> QED
        BY <1>2, <3>2, <3>3, <3>4
    <2> QED
      BY <1>4, <1>5, <2>1, <2>2, <2>3
  <1>6. CASE Native(t)
    <2>1. ASSUME ~At(t, "destroyed"), Done(t), UNCHANGED object,
                 \A e \in Engines : engine'[e].logic = engine[e].logic
          PROVE  KernelInv'
      BY <1>2, <2>1, DoneEffect DEF At
    <2>2. CASE Refuse(t) \/ Execute(t)
      BY <2>1, <2>2 DEF Refuse, Execute, Leave, At
    <2>3. CASE Register(t)
      <3>1. \A e \in Engines : engine'[e].logic = engine[e].logic
        BY <2>3 DEF Register, TypeOK, EngineStates
      <3> QED
        BY <2>1, <2>3, <3>1 DEF Register, Leave, At
    <2>4. CASE SetLogic(t)
      <3>1. PICK d \in Objects, e \in Engines :
                /\ d = work[t].obj /\ e = work[t].handle
                /\ t \in callers[d]
        BY <2>4, LifetimeAssumption DEF SetLogic, Leave, Gone, At, CallerInv,
            Busy, ObjInv, CallInv, TypeOK, WorkStates
      <3>2. CASE engine' = engine
        BY <2>1, <2>4, <3>2 DEF SetLogic, Leave, At
      <3>3. CASE engine' = [engine EXCEPT ![e].logic = Compiled(t)]
        <4>1. SUFFICES ASSUME raced = {}, NEW o \in Objects
                       PROVE  KernelOwn(o)'
          BY <1>1 DEF KernelInv
        <4>2. UNCHANGED <<object, callers>> /\ ~At(t, "destroyed")
          BY <2>4 DEF SetLogic, Leave, At, history
        <4>3. BeingDestroyed(o) => BeingDestroyed(o)'
          BY <2>4, <4>2, DoneEffect, BeingDestroyedStays DEF SetLogic, At
        <4>4. CASE object[o].handle # e
          <5>1. object[o].handle = Null
                    \/ engine'[object[o].handle] = engine[object[o].handle]
            BY <3>3, <4>4 DEF TypeOK, ObjectStates
          <5> QED
            BY <4>1, <4>2, <4>3, <5>1 DEF KernelInv, KernelOwn, KernelOf
        <4>5. CASE object[o].handle = e
          <5>1. object[d].handle = e /\ ~BeingDestroyed(d)
            BY <2>4, <3>1, <4>1 DEF SetLogic, Leave, At, UserInv, Busy, ObjInv,
                CallInv, BeingDestroyed, Users
          <5>2. o = d \/ BeingDestroyed(o)
            BY <4>1, <4>5, <5>1, LifetimeAssumption DEF HandlesAreOwned
          <5>3. engine'[e].logic.by = t
            BY <3>3 DEF Compiled, TypeOK, EngineStates
          <5> QED
            BY <3>1, <4>2, <4>3, <4>5, <5>2, <5>3 DEF KernelOwn, KernelOf
        <4> QED
          BY <4>4, <4>5
      <3> QED
        BY <2>4, <3>1, <3>2, <3>3 DEF SetLogic
    <2>5. CASE Enter(t) \/ DestroyNothing(t) \/ JavaPassesHandle(t)
      <3>1. \A u \in Threads : work[u].pc = "destroyed" =>
                work'[u].pc = "destroyed" /\ work'[u].obj = work[u].obj
        BY <2>5 DEF Enter, DestroyNothing, JavaPassesHandle, At, TypeOK,
                    WorkStates
      <3> QED
        BY <1>2, <2>5, <3>1 DEF Enter, DestroyNothing, JavaPassesHandle
    <2>6. CASE Destroy(t)
      <3>1. \A u \in Threads : work[u].pc = "destroyed" =>
                work'[u].pc = "destroyed" /\ work'[u].obj = work[u].obj
        BY <2>6 DEF Destroy, At, TypeOK, WorkStates
      <3>2. \A e \in Engines : engine'[e].logic = engine[e].logic
        BY <2>6 DEF Destroy, Freed, TypeOK, EngineStates
      <3> QED
        BY <1>2, <2>6, <3>1, <3>2 DEF Destroy
    <2>7. CASE Destroyed(t)
      <3>1. PICK d \in Objects : d = work[t].obj
        BY <2>7 DEF Destroyed, At, ObjInv, CallInv, Busy
      <3>2. /\ object'[d].handle = Null
            /\ \A o \in Objects \ {d} : object'[o] = object[o]
        BY <2>7, <3>1 DEF Destroyed, Cleared, TypeOK, ObjectStates
      <3>3. \A o \in Objects \ {d} : BeingDestroyed(o) => BeingDestroyed(o)'
        BY <2>7, <3>1, DoneEffect DEF Destroyed, BeingDestroyed, Users, At
      <3>4. UNCHANGED engine
        BY <2>7 DEF Destroyed
      <3> QED
        BY <1>1, <3>2, <3>3, <3>4, KernelStays DEF KernelOf
    <2>8. CASE UsesFreedEngine(t) \/ ReadsFreedTree(t)
                 \/ ReadsFreedConstants(t)
      BY <1>2, <2>8
      DEF UsesFreedEngine, ReadsFreedTree, ReadsFreedConstants, Fault
    <2> QED
      BY <1>6, <2>2, <2>3, <2>4, <2>5, <2>6, <2>7, <2>8 DEF Native
  <1> QED
    BY <1>3, <1>5, <1>6 DEF Step

\* A kernel whose thread has ended is run by another thread.
LEMMA ConfinedStep ==
    ASSUME TypeOK, ObjInv, UserInv, CallerInv, KernelInv, fault = NoFault,
           NEW t \in Threads, Step(t)
    PROVE  ConfinedObjectsKeepConstants'
  <1>1. CASE ReadsFreedConstants(t)
    <2>1. SUFFICES ASSUME raced = {}
                   PROVE  \E u, v \in callers'[fault'.obj] : u # v
      BY <1>1 DEF ReadsFreedConstants, Fault, history,
                  ConfinedObjectsKeepConstants
    <2>2. PICK d \in Objects : d = work[t].obj
      BY <1>1 DEF ReadsFreedConstants, Leave, At, ObjInv, CallInv, Busy
    <2>3. /\ At(t, "inside") /\ work[t].op = "execute"
          /\ fault'.obj = d /\ UNCHANGED callers
      BY <1>1, <2>2 DEF ReadsFreedConstants, Leave, Fault, history
    <2>4. /\ object[d].handle = work[t].handle /\ object[d].handle # Null
          /\ ~BeingDestroyed(d)
      BY <2>1, <2>2, <2>3 DEF At, UserInv, Busy, ObjInv, CallInv,
                              BeingDestroyed, Users
    <2>5. KernelOf(d) # Null /\ KernelOf(d).by \notin alive
      BY <1>1, <2>4 DEF ReadsFreedConstants, FreedConstants, KernelOf
    <2>6. KernelOf(d).by \in callers[d]
      BY <2>1, <2>4, <2>5 DEF KernelInv, KernelOwn
    <2>7. t \in alive /\ t \in callers[d]
      BY <2>2, <2>3 DEF CallerInv, Busy, At
    <2> QED
      BY <2>3, <2>5, <2>6, <2>7
  <1>2. CASE ~ReadsFreedConstants(t)
    <2>1. fault'.kind # "const"
      <3>1. CASE UNCHANGED fault
        BY <3>1 DEF NoFault
      <3>2. CASE UsesFreedEngine(t) \/ ReadsFreedTree(t)
        BY <3>2 DEF UsesFreedEngine, ReadsFreedTree, Fault
      <3> QED
        BY <1>2, <3>1, <3>2 DEF Step, ThreadEnds, CreateLogic, Bindings, New,
            JavaCall, JavaDestroy, JavaCollect, CxxCall, CxxDestructor, PyCall,
            PyDestructor, Destructor, Begin, Native, JavaPassesHandle, Refuse,
            Enter, Register, SetLogic, Execute, Destroy, DestroyNothing,
            Destroyed
    <2> QED
      BY <2>1 DEF ConfinedObjectsKeepConstants
  <1> QED
    BY <1>1, <1>2

\* The three together, over any step.
LEMMA ConstantsStep ==
    ASSUME TypeOK, ObjInv, UserInv, HandlesAreOwned, CallerInv, KernelInv,
           ConfinedObjectsKeepConstants, [Next]_vars
    PROVE  CallerInv' /\ KernelInv' /\ ConfinedObjectsKeepConstants'
  <1>1. CASE UNCHANGED vars
    <2>1. UNCHANGED <<alive, object, engine, work, fault, callers, raced>>
      BY <1>1 DEF vars, memory, history
    <2>2. CallerInv'
      BY <2>1 DEF CallerInv, Busy
    <2>3. KernelInv'
      BY <2>1 DEF KernelInv, KernelOwn, KernelOf, BeingDestroyed, Users, At
    <2>4. ConfinedObjectsKeepConstants'
      BY <2>1 DEF ConfinedObjectsKeepConstants
    <2> QED
      BY <2>2, <2>3, <2>4
  <1>2. ASSUME NEW t \in Threads, Step(t), fault = NoFault
        PROVE  CallerInv' /\ KernelInv' /\ ConfinedObjectsKeepConstants'
    BY <1>2, CallerStep, KernelStep, ConfinedStep
  <1> QED
    BY <1>1, <1>2 DEF Next, Finished

-----------------------------------------------------------------------------
(* The theorems.                                                           *)

IInv ==
    /\ TypeOK /\ ArgInv
    /\ ObjInv /\ OwnInv
    /\ UserInv /\ HandlesAreOwned
    /\ PyInv /\ PythonCallsDoNotOverlap
    /\ CallerInv /\ KernelInv /\ ConfinedObjectsKeepConstants

\* The invariant holds from the first state on: every step of the C API and of
\* its bindings keeps it.
THEOREM Invariance == Spec => []IInv
  <1>1. Init => IInv
    <2>1. Init => ArgInv
      BY DEF Init, ArgInv, Idle
    <2>2. Init => ConfinedObjectsKeepConstants
      BY DEF Init, NoFault, ConfinedObjectsKeepConstants
    <2> QED
      BY <2>1, <2>2, InitType, ObjInit, OwnInit, UserInit, HandlesInit, PyInit,
         ConflictInit, KernelInit DEF IInv
  <1>2. IInv /\ [Next]_vars => IInv'
    BY TypeStep, ArgStep, StepEffect, ObjStep, OwnStep, UserStep, HandlesStep,
       PyStep, ConflictStep, ConstantsStep DEF IInv
  <1> QED
    BY <1>1, <1>2, PTL DEF Spec

\* Threads, trees, objects, engines and calls keep their types
\* (src/api/apex_c_api.cpp:14-108), whatever the bindings do.
THEOREM TypeCorrect == Spec => []TypeOK
  <1>1. IInv => TypeOK
    BY DEF IInv
  <1> QED
    BY <1>1, Invariance, PTL

\* For every number of threads, objects and addresses: unless some Java object
\* was destroyed while a call on it was on its way (ApexEngine.java:20-25), no
\* engine is used after apex_destroy or freed twice, and no two objects share
\* one.
THEOREM HandlesSafe == Spec => []HandlesAreOwned
  <1>1. IInv => HandlesAreOwned
    BY DEF IInv
  <1> QED
    BY <1>1, Invariance, PTL

\* Every live engine has an object that can still free it or a destructor about
\* to (Apex.hpp:25-29, apex_c_api.cpp:24-28).
THEOREM NothingLeftBehind == Spec => []LiveEnginesHaveOwners
  <1>1. IInv => LiveEnginesHaveOwners
    BY DEF IInv, OwnInv, Owns, LiveEnginesHaveOwners, Users, At
  <1> QED
    BY <1>1, Invariance, PTL

\* Calls on the engine of a Python object never overlap: the interpreter lock is
\* held over them (bindings/python/apex_pybind.cpp), and no other object has the
\* engine.
THEOREM PythonIsSerial == Spec => []PythonCallsDoNotOverlap
  <1>1. IInv => PythonCallsDoNotOverlap
    BY DEF IInv
  <1> QED
    BY <1>1, Invariance, PTL

\* For every number of threads, objects and addresses: a kernel loses the
\* constants it reads (compiler.cpp:71, apex_c_api.cpp:75-84) only on an object
\* that at least two threads have called, unless a raced Java destroy has mixed
\* engines up.
THEOREM ConfinedKeep == Spec => []ConfinedObjectsKeepConstants
  <1>1. IInv => ConfinedObjectsKeepConstants
    BY DEF IInv
  <1> QED
    BY <1>1, Invariance, PTL
=============================================================================
