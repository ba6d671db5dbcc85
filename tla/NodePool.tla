------------------------------- MODULE NodePool -------------------------------
(***************************************************************************)
(* The builder's pool of IR nodes (include/apex/jit/ir.hpp:57-70 and       *)
(* src/jit/jit.cpp) and the two walks set_expression makes over a tree     *)
(* built from it: the analysis of the compiler, which numbers the fields   *)
(* (src/jit/compiler.cpp:209-289), and collect_fields, which looks the     *)
(* numbers up again afterwards (src/api/engine.cpp:46-67).                 *)
(*                                                                         *)
(* Between numbering the fields and emitting the code that uses the        *)
(* numbers, and again before the second walk, other callers may run.       *)
(*                                                                         *)
(* Nodes are never freed.  alloc hands them out in order until they run    *)
(* out; reset starts again at the first one, and a builder then sets only  *)
(* the pointers its kind has.  Callers may hold on to nodes across a reset *)
(* and may hand one tree to several engines, from several threads.         *)
(***************************************************************************)
EXTENDS Integers, Sequences, SequencesExt, FiniteSets

CONSTANTS
    MaxNodes,       \* MAX_NODES: 128 in the code
    Names,          \* field names
    Callers,        \* threads or engines that call set_expression
    NoName,         \* the name in a node never used
    BuiltKinds,     \* the kinds built besides LOAD
    MaxFields,      \* field slots of an engine: 8 in the code
    MaxCalls        \* bound on the resets and compilations explored

ASSUME PoolAssumption ==
    /\ MaxNodes \in Nat /\ MaxCalls \in Nat /\ MaxFields \in Nat
    /\ BuiltKinds \subseteq {"NOT", "GT", "SELECT"}

VARIABLES
    storage,        \* the nodes, from 1 on; pointers are indices, 0 is nullptr
    field_idx,      \* their field_idx: the number of a LOAD node's field
    next_idx,       \* how many of them are handed out
    epoch,          \* how many times the pool was reset
    handles,        \* pointers the builders returned: [node, old], old if the
                    \* node was not handed out again since the last reset
    setter,         \* what every caller of set_expression is doing
    diverged,       \* a walk ran in a circle until the stack was used up
    usedStale,      \* history: a builder was given an old pointer
    interfered,     \* history: callers whose numbers or tree another caller
                    \* may have changed between the two walks
    calls

pool == <<storage, field_idx, next_idx, epoch, handles>>
history == <<usedStale, interfered>>
vars == <<pool, setter, diverged, history, calls>>

Nodes == 1 .. MaxNodes

Blank == [kind |-> "LOAD", name |-> NoName, left |-> 0, right |-> 0,
          cond |-> 0]

\* The pointers a kind has; NOT stands for LSL and LSR too, GT for the other
\* binary kinds, LOAD for CONST.
Operands(kind) ==
    CASE kind = "LOAD" -> {}
      [] kind = "NOT" -> {"left"}
      [] kind = "GT" -> {"left", "right"}
      [] kind = "SELECT" -> {"left", "right", "cond"}

Unset == [st |-> "idle", root |-> 0, kernel |-> <<>>, fields |-> <<>>]

Init ==
    /\ storage = [n \in Nodes |-> Blank]
    /\ field_idx = [n \in Nodes |-> 0]
    /\ next_idx = 0
    /\ epoch = 0
    /\ handles = {}
    /\ setter = [c \in Callers |-> Unset]
    /\ diverged = FALSE
    /\ usedStale = FALSE
    /\ interfered = {}
    /\ calls = 0

-----------------------------------------------------------------------------
(* What the walks follow.                                                  *)

\* The analysis follows every pointer of every kind.
Followed ==
    [n \in Nodes |->
        {storage[n].left, storage[n].right, storage[n].cond} \ {0}]

\* Mutant: cond is never followed.
CollectFollowedNoCond ==
    [n \in Nodes |-> {storage[n].left, storage[n].right} \ {0}]

\* collect_fields follows cond under a SELECT only.
CollectFollowed ==
    [n \in Nodes |->
        ({storage[n].left, storage[n].right} \cup
            (IF storage[n].kind = "SELECT" THEN {storage[n].cond} ELSE {}))
        \ {0}]

\* The nodes at most d steps below root.
Below(root, edges) ==
    LET level[d \in 0 .. MaxNodes] ==
            IF d = 0 THEN {root} \ {0}
            ELSE level[d - 1] \cup UNION {edges[n] : n \in level[d - 1]}
    IN  level[MaxNodes]

Circular(root) ==
    \E n \in Below(root, Followed) :
        \E m \in Followed[n] : n \in Below(m, Followed)

\* The names the LOAD nodes among the given ones have for every slot: those of
\* the nodes that carry its index.
InSlots(nodes) ==
    [i \in 1 .. MaxFields |->
        {storage[n].name :
            n \in {m \in nodes : storage[m].kind = "LOAD" /\ field_idx[m] = i}}]

-----------------------------------------------------------------------------
(* The builders.                                                           *)

\* Between the two walks of set_expression.
Underway == {"numbered", "compiled"}

Full == next_idx >= MaxNodes

\* Bound: once an old pointer was built into a tree nothing more is built.
Explored == ~usedStale

\* A node handed out again has the address it had before.
Holding(n) ==
    {h \in handles : h.node # n} \cup {[node |-> n, old |-> FALSE]}

\* alloc returns nullptr and so does the builder.
BuilderFails ==
    /\ Full /\ Explored
    /\ handles' = Holding(0)
    /\ UNCHANGED <<storage, field_idx, next_idx, epoch, setter, diverged,
                   history, calls>>

\* Mutant: alloc returns the node before the one it takes.
NextNodeBefore == IF next_idx = 0 THEN 1 ELSE next_idx

NextNode == next_idx + 1

\* Mutant: a binary builder sets its left operand only.
AssignedHalf(node, kind, args) ==
    [kind |-> kind, name |-> node.name,
     left |-> IF "left" \in Operands(kind) THEN args.left ELSE node.left,
     right |-> node.right, cond |-> node.cond]

\* A builder leaves the pointers its kind does not have as they are.
Assigned(node, kind, args) ==
    LET Operand(p) == IF p \in Operands(kind) THEN args[p] ELSE node[p]
    IN  [kind |-> kind, name |-> node.name, left |-> Operand("left"),
         right |-> Operand("right"), cond |-> Operand("cond")]

\* The history notes which trees between their two walks lose a node.
Returned ==
    /\ next_idx' = next_idx + 1
    /\ handles' = Holding(NextNode)
    /\ interfered' = interfered \cup
           {c \in Callers : setter[c].st \in Underway
                               /\ NextNode \in Below(setter[c].root, Followed)}
    /\ UNCHANGED <<field_idx, epoch, setter, diverged, calls>>

Load(name) ==
    /\ ~Full /\ Explored
    /\ storage' = [storage EXCEPT ![NextNode] =
           [Assigned(@, "LOAD", <<>>) EXCEPT !.name = name]]
    /\ usedStale' = usedStale
    /\ Returned

\* Not, GT and Select; the arguments are whatever builders returned before.
Build(kind) ==
    /\ ~Full /\ Explored
    /\ \E args \in [Operands(kind) -> handles] :
        /\ storage' = [storage EXCEPT ![NextNode] =
               Assigned(@, kind, [p \in Operands(kind) |-> args[p].node])]
        /\ usedStale' = (usedStale
               \/ \E p \in Operands(kind) : args[p].old)
    /\ Returned

\* NodePool::reset
Reset ==
    /\ calls < MaxCalls /\ Explored
    /\ calls' = calls + 1
    /\ next_idx' = 0
    /\ epoch' = epoch + 1
    /\ handles' = {[h EXCEPT !.old = TRUE] : h \in handles}
    /\ UNCHANGED <<storage, field_idx, setter, diverged, history>>

-----------------------------------------------------------------------------
(* The two walks.                                                          *)

IR == INSTANCE ExprIR WITH W <- 1

\* load_nodes: left, right, cond, then the node.  A node is listed for every
\* path to it; the analysis visits it once, but a name listed again gets no new
\* number.
LoadNodes(root) ==
    LET post[d \in 0 .. MaxNodes] ==
            [n \in 0 .. MaxNodes |->
                IF d = 0 \/ n = 0 THEN <<>>
                ELSE post[d - 1][storage[n].left]
                         \o post[d - 1][storage[n].right]
                         \o post[d - 1][storage[n].cond]
                         \o IF storage[n].kind = "LOAD" THEN <<n>> ELSE <<>>]
    IN  post[MaxNodes][root]

\* field_to_idx: the names in the order of their indices.
FieldOrder(root) ==
    LET loads == LoadNodes(root)
    IN  IR!Dedup([k \in DOMAIN loads |-> storage[loads[k]].name])

\* The index of a node's field, counted from 1 here.
FieldIndex(root, n) ==
    CHOOSE i \in DOMAIN FieldOrder(root) : FieldOrder(root)[i] = storage[n].name

\* Mutant: a node that has a number keeps it.
NumberedOnce(root) ==
    [n \in Nodes |->
        IF Contains(LoadNodes(root), n) /\ field_idx[n] = 0
        THEN FieldIndex(root, n) ELSE field_idx[n]]

\* The LOAD nodes get the index of their field.
Numbered(root) ==
    [n \in Nodes |->
        IF Contains(LoadNodes(root), n)
        THEN FieldIndex(root, n) ELSE field_idx[n]]

\* The same as far as the nodes before the first with a field too many.
NumberedUntilRefused(root) ==
    LET loads == LoadNodes(root)
        before == {k \in DOMAIN loads : \A j \in 1 .. k :
                       FieldIndex(root, loads[j]) <= MaxFields}
    IN  [n \in Nodes |->
            IF \E k \in before : loads[k] = n
            THEN FieldIndex(root, n) ELSE field_idx[n]]

\* Other callers that are between their walks.
Between(c) == {d \in Callers \ {c} : setter[d].st \in Underway}

\* compile_expression or compile_scalar_expression up to the emission; nullptr
\* is refused before.  Only compile_scalar_expression takes more than MaxFields
\* fields.  The loop over the LOAD nodes is one step: two such loops at the same
\* time race on the numbers and are left out.
Number(c, root) ==
    /\ setter[c].st = "idle" /\ calls < MaxCalls
    /\ root # 0 /\ ~Circular(root)
    /\ field_idx' = Numbered(root)
    /\ setter' = [setter EXCEPT ![c] =
           [st |-> "numbered", root |-> root, kernel |-> <<>>, fields |-> <<>>]]
    /\ interfered' = (interfered \ {c}) \cup Between(c)
    /\ calls' = calls + 1
    /\ UNCHANGED <<storage, next_idx, epoch, handles, diverged, usedStale>>

\* The emission reads the numbers again from the LOAD nodes; a kernel that
\* cannot be made ends the call.
Emit(c) ==
    /\ setter[c].st = "numbered"
    /\ \/ /\ setter' = [setter EXCEPT ![c] =
                 [st |-> "compiled", root |-> @.root,
                  kernel |-> InSlots(Below(@.root, Followed)),
                  fields |-> <<>>]]
          /\ interfered' = interfered
       \/ /\ setter' = [setter EXCEPT ![c] = Unset]
          /\ interfered' = interfered \ {c}
    /\ UNCHANGED <<pool, diverged, usedStale, calls>>

\* compile_expression gives up at the first node with a field too many; the
\* nodes before it are numbered.
RefuseFields(c, root) ==
    /\ setter[c].st = "idle" /\ calls < MaxCalls
    /\ root # 0 /\ ~Circular(root)
    /\ Len(FieldOrder(root)) > MaxFields
    /\ field_idx' = NumberedUntilRefused(root)
    /\ interfered' = (interfered \ {c}) \cup Between(c)
    /\ calls' = calls + 1
    /\ UNCHANGED <<storage, next_idx, epoch, handles, setter, diverged,
                   usedStale>>

CompileDiverges(c, root) ==
    /\ setter[c].st = "idle" /\ calls < MaxCalls
    /\ Circular(root)
    /\ diverged' = TRUE
    /\ calls' = calls + 1
    /\ UNCHANGED <<pool, setter, history>>

\* The names stored into the slots, of which the last one stays.
Collected(root) == InSlots(Below(root, CollectFollowed))

\* collect_fields and the entry in expr_logic_.
Collect(c) ==
    /\ setter[c].st = "compiled"
    /\ setter' = [setter EXCEPT ![c] =
           [st |-> "set", root |-> @.root, kernel |-> @.kernel,
            fields |-> Collected(@.root)]]
    /\ UNCHANGED <<pool, diverged, history, calls>>

\* The engine is free for the next expression.
Again(c) ==
    /\ setter[c].st = "set"
    /\ setter' = [setter EXCEPT ![c] = Unset]
    /\ interfered' = interfered \ {c}
    /\ UNCHANGED <<pool, diverged, usedStale, calls>>

-----------------------------------------------------------------------------
Builders ==
    \/ BuilderFails
    \/ \E name \in Names : Load(name)
    \/ \E kind \in BuiltKinds : Build(kind)
    \/ Reset

SetExpression(c) ==
    \/ \E h \in handles :
        \/ Number(c, h.node)
        \/ RefuseFields(c, h.node)
        \/ CompileDiverges(c, h.node)
    \/ Emit(c)
    \/ Collect(c)
    \/ Again(c)

\* The stack is used up, or the bounds are reached.
Stopped ==
    /\ diverged \/ calls = MaxCalls
    /\ UNCHANGED vars

Next ==
    \/ ~diverged /\ (Builders \/ \E c \in Callers : SetExpression(c))
    \/ Stopped

Spec == Init /\ [][Next]_vars

-----------------------------------------------------------------------------
(* Properties.                                                             *)

NodeStates ==
    [kind : {"LOAD", "NOT", "GT", "SELECT"}, name : Names \cup {NoName},
     left : 0 .. MaxNodes, right : 0 .. MaxNodes, cond : 0 .. MaxNodes]

\* The pool, the pointers into it and the callers' trees have their types.
TypeOK ==
    /\ storage \in [Nodes -> NodeStates]
    /\ DOMAIN field_idx = Nodes /\ DOMAIN setter = Callers
    /\ next_idx \in 0 .. MaxNodes
    /\ epoch \in Nat /\ calls \in Nat
    /\ handles \subseteq [node : 0 .. MaxNodes, old : BOOLEAN]
    /\ \A c \in Callers : setter[c].root \in 0 .. MaxNodes
    /\ usedStale \in BOOLEAN /\ diverged \in BOOLEAN

\* Every pointer of every node, of its kind or left over from an earlier use,
\* leads to a node further down in the pool, also after resets, as long as no
\* builder is given a node from before the last reset (ir.hpp:62-67).
PointersDescend ==
    ~usedStale => \A n \in Nodes : Followed[n] \subseteq 1 .. n - 1

\* The recursion of the analysis (compiler.cpp:217-227), which marks a node
\* only after its children, ends on every tree; it runs into a circle only if a
\* node from before a reset was built into a tree.
AnalysisEnds == diverged => usedStale

\* When the pool runs out in the middle of a tree, the builders yield nullptr
\* for its root as well: no node that was handed out since the last reset
\* lacks an operand, although no builder checks what it is given.
NoHalfBuiltTree ==
    ~usedStale =>
        \A n \in 1 .. next_idx : \A p \in Operands(storage[n].kind) :
            storage[n][p] # 0

\* While the pool was never reset both walks see the same nodes below every
\* node, although they follow different pointers (compiler.cpp:224-226,
\* engine.cpp:60-64).
WalksAgree ==
    epoch = 0 =>
        \A n \in Nodes : Below(n, Followed) = Below(n, CollectFollowed)

\* No two fields share a slot, neither in the kernel nor in what collect_fields
\* stores; a slot never gets a field other than the one the kernel reads there,
\* and gets it unless the pool was reset.  This holds however often the nodes
\* were numbered for other roots before: the numbers are kept in the shared
\* nodes and read twice more, and are right as long as nobody compiles, or
\* rebuilds a node of the tree, between numbering and collecting
\* (compiler.cpp:288, compiler.cpp:389, engine.cpp:52).
FieldsMatchKernel ==
    \A c \in Callers \ interfered :
        setter[c].st = "set" =>
            \A i \in 1 .. MaxFields :
                LET read == setter[c].kernel[i]
                    stored == setter[c].fields[i]
                IN  /\ \A x, y \in read : x = y
                    /\ stored \subseteq read
                    /\ epoch = 0 => stored = read
=============================================================================
