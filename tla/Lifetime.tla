------------------------------- MODULE Lifetime -------------------------------
(***************************************************************************)
(* Who owns an engine, and how long what it points to lives: the C API     *)
(* (src/api/apex_c_api.cpp) under the Java binding (bindings/java), the    *)
(* C++ wrapper (include/apex/Apex.hpp) and the Python binding              *)
(* (bindings/python), called by threads that come to an end.               *)
(*                                                                         *)
(* A Java object is destroyed by a method that any thread may call at any  *)
(* time, also twice; its handle is tested, read again for the native call  *)
(* and cleared after it.  A wrapper is destroyed by its destructor, once   *)
(* and when nobody uses it any more, which is the duty of its C++ caller   *)
(* and done by reference counts in Python.  Python holds its interpreter   *)
(* lock over every call.  The trees a thread built and the constants it    *)
(* compiled are thread_local and end with it (jit.cpp:12, compiler.cpp:71).*)
(*                                                                         *)
(* The memory of a freed engine may be handed out again.  Faults are the   *)
(* uses of memory that is gone; the model ends with the first.             *)
(***************************************************************************)
EXTENDS Integers, FiniteSets

CONSTANTS
    Threads,
    Objects,
    Binding,        \* object -> "java", "cxx" or "python"
    Engines,        \* addresses of engines
    Null,           \* a null pointer
    MaxNodes,       \* nodes in a thread's pool: 128
    MaxCalls        \* bound on the calls explored

ASSUME LifetimeAssumption ==
    /\ Binding \in [Objects -> {"java", "cxx", "python"}]
    /\ Null \notin Engines \cup Objects
    /\ MaxNodes \in Nat /\ MaxCalls \in Nat

VARIABLES
    alive,          \* the threads that have not ended
    nodes,          \* how many nodes of its pool a thread has used
    roots,          \* pointers to trees: Null or [tree, by]
    object,         \* [st, handle]
    engine,         \* [live, schema, logic]
    work,           \* what every thread is doing
    fault,          \* the first use of memory that is gone
    callers,        \* history: object -> the threads that called its methods
    raced,          \* history: Java objects with a call that overlapped destroy
    conflicted,     \* history: objects two of whose native calls overlapped
    calls

memory == <<alive, nodes, roots>>
history == <<callers, raced, conflicted>>
vars == <<memory, object, engine, work, fault, history, calls>>

Ops == {"register_schema", "set_logic", "execute", "destroy"}

NoFault == [kind |-> "none"]

Idle == [pc |-> "idle", op |-> "none", obj |-> Null, handle |-> Null,
         root |-> Null, mode |-> "none"]

Fresh == [live |-> TRUE, schema |-> FALSE, logic |-> Null]

Init ==
    /\ alive = Threads
    /\ nodes = [t \in Threads |-> 0]
    /\ roots = {}
    /\ object = [o \in Objects |-> [st |-> "none", handle |-> Null]]
    /\ engine = [e \in Engines |-> [Fresh EXCEPT !.live = FALSE]]
    /\ work = [t \in Threads |-> Idle]
    /\ fault = NoFault
    /\ callers = [o \in Objects |-> {}]
    /\ raced = {}
    /\ conflicted = {}
    /\ calls = 0

\* A thread of the caller's program starts a call.
Call(t) ==
    /\ t \in alive /\ work[t].pc = "idle"
    /\ calls < MaxCalls /\ calls' = calls + 1

\* Threads with a call on o.
Users(o) == {t \in Threads : work[t].pc # "idle" /\ work[t].obj = o}

At(t, pc) == work[t].pc = pc

Done(t) == work' = [work EXCEPT ![t] = Idle]

-----------------------------------------------------------------------------
(* Threads and their pools.                                                *)

\* The destructors of g_pool and g_const_pool run.
ThreadEnds(t) ==
    /\ t \in alive /\ At(t, "idle")
    /\ alive' = alive \ {t}
    /\ UNCHANGED <<nodes, roots, object, engine, work, fault, history, calls>>

\* The builders called by the two functions that make a tree.
Cost(tree) == IF tree = "universal" THEN 5 ELSE 3

NodesAfter(n, tree) ==
    IF n + Cost(tree) > MaxNodes THEN MaxNodes ELSE n + Cost(tree)

\* The root is built last: it is nullptr unless every node was there.
CreateLogic(t, tree) ==
    /\ Call(t)
    /\ nodes' = [nodes EXCEPT ![t] = NodesAfter(@, tree)]
    /\ roots' = roots \cup
           {IF nodes[t] + Cost(tree) <= MaxNodes
            THEN [tree |-> tree, by |-> t] ELSE Null}
    /\ UNCHANGED <<alive, object, engine, work, fault, history>>

-----------------------------------------------------------------------------
(* The objects of the bindings.                                            *)

\* Mutant: the lock is released over the native call.
LockFreeReleased == TRUE

\* The interpreter lock: no other Python call is on its way.
LockFree == \A u \in Threads :
    work[u].obj # Null => Binding[work[u].obj] # "python"

\* apex_create: `new`, at any address that is free.
Create(o) ==
    \E e \in {x \in Engines : ~engine[x].live} :
        /\ engine' = [engine EXCEPT ![e] = Fresh]
        /\ object' = [object EXCEPT ![o] = [st |-> "live", handle |-> e]]

\* apex_create returned nullptr: the constructor throws, there is no object.
New(t, o) ==
    /\ Call(t)
    /\ object[o].st = "none"
    /\ Binding[o] = "python" => LockFree
    /\ Create(o) \/ UNCHANGED <<engine, object>>
    /\ UNCHANGED <<memory, work, fault, history>>

\* Only ApexEngine.destroy tests the handle before it calls.
EntryPoint(o, op) ==
    IF Binding[o] = "java" /\ op = "destroy" THEN "tested" ELSE "called"

Begun(t, o, op, root, mode) ==
    work' = [work EXCEPT ![t] =
        [pc |-> EntryPoint(o, op), op |-> op, obj |-> o,
         handle |-> object[o].handle, root |-> root, mode |-> mode]]

\* The arguments of a call other than destroy.
Arguments(op) ==
    CASE op = "set_logic" -> roots \X {"BIT_SLICED", "SCALAR"}
      [] op \in {"register_schema", "execute"} -> {<<Null, "none">>}

\* What a method, in Java the native one it calls, hands to the C function: the
\* object's handle and its own arguments, converted.
PassedOn(t, o, op) ==
    \E a \in Arguments(op) : Begun(t, o, op, a[1], a[2])

Begin(t, o, op) ==
    /\ Call(t)
    /\ object[o].st = "live"
    /\ PassedOn(t, o, op)
    /\ callers' = [callers EXCEPT ![o] = @ \cup {t}]
    /\ UNCHANGED <<memory, object, engine, fault, conflicted>>

\* Any method at any time: this.handle is read here and used later.
JavaCall(t, o, op) ==
    /\ Binding[o] = "java"
    /\ Begin(t, o, op)
    /\ raced' = IF \E u \in Users(o) : work[u].op = "destroy"
                THEN raced \cup {o} ELSE raced

\* ApexEngine.destroy: nothing if the handle is 0.
JavaDestroy(t, o) ==
    /\ Binding[o] = "java"
    /\ Call(t)
    /\ object[o].st = "live" /\ object[o].handle # Null
    /\ Begun(t, o, "destroy", Null, "none")
    /\ raced' = IF Users(o) = {} THEN raced ELSE raced \cup {o}
    /\ UNCHANGED <<memory, object, engine, fault, callers, conflicted>>

\* The handle is read a second time; another destroy may have cleared it.
JavaPassesHandle(t) ==
    /\ At(t, "tested")
    /\ work' = [work EXCEPT ![t].pc = "called",
                            ![t].handle = object[work[t].obj].handle]
    /\ UNCHANGED <<memory, object, engine, fault, history, calls>>

\* There is no finalizer: an object nobody refers to any more is collected,
\* destroyed or not.
JavaCollect(o) ==
    /\ Binding[o] = "java"
    /\ object[o].st = "live" /\ Users(o) = {}
    /\ object' = [object EXCEPT ![o].st = "collected"]
    /\ UNCHANGED <<memory, engine, work, fault, history, calls>>

\* The C++ wrapper's methods.
CxxCall(t, o, op) ==
    /\ Binding[o] = "cxx"
    /\ Begin(t, o, op)
    /\ UNCHANGED raced

\* A destructor: the object is out of reach when it begins.
Destructor(t, o) ==
    /\ Call(t)
    /\ object[o].st = "live" /\ Users(o) = {}
    /\ object' = [object EXCEPT ![o].st = "gone"]
    /\ Begun(t, o, "destroy", Null, "none")
    /\ UNCHANGED <<memory, engine, fault, history>>

CxxDestructor(t, o) == Binding[o] = "cxx" /\ Destructor(t, o)

PyCall(t, o, op) ==
    /\ Binding[o] = "python" /\ LockFree
    /\ Begin(t, o, op)
    /\ UNCHANGED raced

PyDestructor(t, o) == Binding[o] = "python" /\ LockFree /\ Destructor(t, o)

-----------------------------------------------------------------------------
(* The C API.                                                              *)

\* -1 for a null pointer, and the bindings throw; apex_destroy does nothing.
Refused(t) ==
    \/ work[t].handle = Null
    \/ work[t].op = "set_logic" /\ work[t].root = Null

Refuse(t) ==
    /\ At(t, "called") /\ work[t].op # "destroy"
    /\ Refused(t)
    /\ Done(t)
    /\ UNCHANGED <<memory, object, engine, fault, history, calls>>

\* Threads inside a function of the engine's, t aside.
Inside(e, t) == {u \in Threads \ {t} : At(u, "inside") /\ work[u].handle = e}

Gone(t) == work[t].handle = Null \/ ~engine[work[t].handle].live

Fault(f) ==
    /\ fault' = f
    /\ UNCHANGED <<memory, object, engine, work, history, calls>>

\* The engine the handle stands for is no longer there, when the call begins
\* or before it ends; also a second delete.
UsesFreedEngine(t) ==
    /\ At(t, "called") \/ At(t, "inside")
    /\ ~(At(t, "called") /\ Refused(t))
    /\ Gone(t)
    /\ Fault([kind |-> "engine"])

Enter(t) ==
    /\ At(t, "called") /\ work[t].op # "destroy"
    /\ ~Refused(t) /\ ~Gone(t)
    /\ work' = [work EXCEPT ![t].pc = "inside"]
    /\ conflicted' = conflicted \cup
           (IF Inside(work[t].handle, t) = {} THEN {}
            ELSE {work[t].obj} \cup
                 {work[u].obj : u \in Inside(work[t].handle, t)})
    /\ UNCHANGED <<memory, object, engine, fault, callers, raced, calls>>

Leave(t, op) ==
    /\ At(t, "inside") /\ work[t].op = op
    /\ ~Gone(t)

\* apex_register_schema
Register(t) ==
    /\ Leave(t, "register_schema")
    /\ engine' = [engine EXCEPT ![work[t].handle].schema = TRUE]
    /\ Done(t)
    /\ UNCHANGED <<memory, object, fault, history, calls>>

\* Kernels that load planes from the constant pool of the thread that compiled
\* them: scalar kernels have their constants in the code, and the universal
\* tree has none.
KeepsConstants(logic) == logic.tree = "simple" /\ logic.mode = "BIT_SLICED"

\* Mutant: the kernel keeps the address of the constant in the tree's node.
CompiledInPlace(t) == [tree |-> work[t].root.tree, mode |-> work[t].mode,
                       by |-> work[t].root.by]

\* The compiler copies constants to the pool of the thread it runs on.
Compiled(t) == [tree |-> work[t].root.tree, mode |-> work[t].mode, by |-> t]

\* apex_set_logic; a compiler that fails leaves the logic as it is.
SetLogic(t) ==
    /\ Leave(t, "set_logic")
    /\ work[t].root.by \in alive
    /\ engine' \in
           {engine, [engine EXCEPT ![work[t].handle].logic = Compiled(t)]}
    /\ Done(t)
    /\ UNCHANGED <<memory, object, fault, history, calls>>

\* The tree ended with the thread that built it.
ReadsFreedTree(t) ==
    /\ Leave(t, "set_logic")
    /\ work[t].root.by \notin alive
    /\ Fault([kind |-> "tree"])

\* A kernel runs if a schema and a logic are there; 0 otherwise.
FreedConstants(e) ==
    /\ engine[e].schema /\ engine[e].logic # Null
    /\ KeepsConstants(engine[e].logic)
    /\ engine[e].logic.by \notin alive

\* apex_execute
Execute(t) ==
    /\ Leave(t, "execute")
    /\ ~FreedConstants(work[t].handle)
    /\ Done(t)
    /\ UNCHANGED <<memory, object, engine, fault, history, calls>>

ReadsFreedConstants(t) ==
    /\ Leave(t, "execute")
    /\ FreedConstants(work[t].handle)
    /\ Fault([kind |-> "const", obj |-> work[t].obj])

\* Mutant: the handle is cleared before it is passed to apex_destroy.
FreedNothing(e) == engine

Freed(e) == [engine EXCEPT ![e].live = FALSE]

\* apex_destroy
Destroy(t) ==
    /\ At(t, "called") /\ work[t].op = "destroy"
    /\ ~Gone(t)
    /\ engine' = Freed(work[t].handle)
    /\ work' = [work EXCEPT ![t].pc = "destroyed"]
    /\ UNCHANGED <<memory, object, fault, history, calls>>

\* apex_destroy of a null pointer.
DestroyNothing(t) ==
    /\ At(t, "called") /\ work[t].op = "destroy"
    /\ work[t].handle = Null
    /\ work' = [work EXCEPT ![t].pc = "destroyed"]
    /\ UNCHANGED <<memory, object, engine, fault, history, calls>>

\* Mutant: destroy leaves the handle.
ClearedNever(o) == object[o]

Cleared(o) == [object[o] EXCEPT !.handle = Null]

\* ApexEngine.destroy sets the handle to 0; the others have none left.
Destroyed(t) ==
    /\ At(t, "destroyed")
    /\ object' = [object EXCEPT ![work[t].obj] = Cleared(work[t].obj)]
    /\ Done(t)
    /\ UNCHANGED <<memory, engine, fault, history, calls>>

-----------------------------------------------------------------------------
Bindings(t, o) ==
    \/ New(t, o)
    \/ \E op \in Ops \ {"destroy"} :
        JavaCall(t, o, op) \/ CxxCall(t, o, op) \/ PyCall(t, o, op)
    \/ JavaDestroy(t, o)
    \/ JavaCollect(o)
    \/ CxxDestructor(t, o)
    \/ PyDestructor(t, o)

Native(t) ==
    \/ JavaPassesHandle(t)
    \/ Refuse(t)
    \/ Enter(t)
    \/ Register(t)
    \/ SetLogic(t)
    \/ Execute(t)
    \/ Destroy(t)
    \/ DestroyNothing(t)
    \/ Destroyed(t)
    \/ UsesFreedEngine(t)
    \/ ReadsFreedTree(t)
    \/ ReadsFreedConstants(t)

Step(t) ==
    \/ ThreadEnds(t)
    \/ \E tree \in {"universal", "simple"} : CreateLogic(t, tree)
    \/ \E o \in Objects : Bindings(t, o)
    \/ Native(t)

Finished ==
    /\ fault # NoFault \/ \A t \in Threads : At(t, "idle")
    /\ UNCHANGED vars

Next ==
    \/ fault = NoFault /\ \E t \in Threads : Step(t)
    \/ Finished

Spec == Init /\ [][Next]_vars

-----------------------------------------------------------------------------
(* Properties.                                                             *)

Trees == [tree : {"universal", "simple"}, by : Threads]

KernelsOfTrees ==
    [tree : {"universal", "simple"}, mode : {"BIT_SLICED", "SCALAR"},
     by : Threads]

ObjectStates == [st : {"none", "live", "collected", "gone"},
                 handle : Engines \cup {Null}]

EngineStates == [live : BOOLEAN, schema : BOOLEAN,
                 logic : KernelsOfTrees \cup {Null}]

WorkStates == [pc : {"idle", "tested", "called", "inside", "destroyed"},
               op : Ops \cup {"none"}, obj : Objects \cup {Null},
               handle : Engines \cup {Null}, root : Trees \cup {Null},
               mode : {"BIT_SLICED", "SCALAR", "none"}]

\* Threads, trees, objects, engines and calls have their types.
TypeOK ==
    /\ alive \subseteq Threads
    /\ nodes \in [Threads -> 0 .. MaxNodes]
    /\ roots \subseteq Trees \cup {Null}
    /\ object \in [Objects -> ObjectStates]
    /\ engine \in [Engines -> EngineStates]
    /\ work \in [Threads -> WorkStates]
    /\ callers \in [Objects -> SUBSET Threads]

BeingDestroyed(o) == \E u \in Users(o) : At(u, "destroyed")

\* However threads interleave, calls follow a destroy and memory is handed out
\* again: unless some Java object was destroyed while another call on it was on
\* its way (ApexEngine.java:20-25, apex_c_api.cpp:24-28), no engine is used
\* after its end or freed twice, and an object with a handle owns a live engine
\* that no other object has.
HandlesAreOwned ==
    raced = {} =>
        /\ fault.kind # "engine"
        /\ \A o \in Objects :
            object[o].handle = Null \/ BeingDestroyed(o)
                \/ /\ engine[object[o].handle].live
                   /\ \A p \in Objects \ {o} :
                        object[p].handle = object[o].handle => BeingDestroyed(p)

\* No engine is left behind: the owner of a live engine can still free it, is
\* freeing it, or is a Java object collected without a destroy.
LiveEnginesHaveOwners ==
    \A e \in Engines : engine[e].live =>
        \E o \in Objects :
            /\ object[o].handle = e
            /\ object[o].st = "gone" =>
                \E u \in Users(o) : work[u].op = "destroy" /\ At(u, "called")

\* A kernel can lose its constants only on an object that several threads have
\* called (compiler.cpp:71): an object that one thread keeps to itself runs on
\* its own constants, whichever thread built the tree, whatever other objects
\* and their threads do, and though its engine may lie where a freed one lay.
\* The exception are engines mixed up by a raced Java destroy.
ConfinedObjectsKeepConstants ==
    raced = {} /\ fault.kind = "const" =>
        \E t, u \in callers[fault.obj] : t # u

\* Two native calls on the engine of a Python object never overlap, unless a
\* raced Java destroy has mixed engines up: what SerialScan says of callers that
\* were not disturbed holds for every call from Python.
PythonCallsDoNotOverlap ==
    raced = {} => \A o \in conflicted : Binding[o] # "python"
=============================================================================
