---------------------------- MODULE NodePoolProofs ----------------------------
(***************************************************************************)
(* The trees in the builder's pool and the two walks over them, for every  *)
(* number of nodes and names, every sequence of builders, resets and       *)
(* compilations, and any number of callers.                                *)
(*                                                                         *)
(* First the shape of the trees (IInv): pointers lead down, and no tree    *)
(* lacks an operand.  Then what the walks compute: the levels of Below and *)
(* the lists of LoadNodes and Dedup are recursive functions, shown to      *)
(* exist and to have the values meant before anything is said of them.     *)
(* Last the numbers of the fields (WalkInv), which survive in the shared   *)
(* nodes until the kernel is made and until the second walk unless         *)
(* somebody interferes.                                                    *)
(***************************************************************************)
EXTENDS NodePool, FiniteSetTheorems, WellFoundedInduction, TLAPS

\* What builders handed out since the last reset: nodes in use, and nullptr
\* only once the pool is full.
HandlesInv ==
    \A h \in handles : ~h.old =>
        h.node <= next_idx /\ (h.node = 0 => Full)

\* The names a kernel for the tree below root reads at every index.
NamesRead(root) == InSlots(Below(root, Followed))

\* The inductive invariant.
IInv ==
    /\ TypeOK
    /\ PointersDescend
    /\ NoHalfBuiltTree
    /\ ~usedStale => HandlesInv

\* The pointers a node of a kind has.
LEMMA OperandsFacts ==
    /\ Operands("LOAD") = {}
    /\ Operands("NOT") = {"left"}
    /\ Operands("GT") = {"left", "right"}
    /\ Operands("SELECT") = {"left", "right", "cond"}
  BY DEF Operands

\* No kind has others.
LEMMA OperandsOfNode ==
    ASSUME NEW node \in NodeStates
    PROVE  Operands(node.kind) \subseteq {"left", "right", "cond"}
  BY OperandsFacts DEF NodeStates

\* What descending means, pointer by pointer.
LEMMA FollowedFacts ==
    ASSUME TypeOK, NEW n \in Nodes
    PROVE  Followed[n] \subseteq 1 .. n - 1 <=>
               \A p \in {"left", "right", "cond"} : storage[n][p] < n
  <1>1. /\ storage[n].left \in Nat /\ storage[n].right \in Nat
        /\ storage[n].cond \in Nat /\ n \in Nat \ {0}
    BY PoolAssumption DEF TypeOK, NodeStates, Nodes
  <1>2. Followed[n] =
            {storage[n].left, storage[n].right, storage[n].cond} \ {0}
    BY DEF Followed
  <1>3. Followed[n] \subseteq 1 .. n - 1 <=>
            /\ storage[n].left < n
            /\ storage[n].right < n
            /\ storage[n].cond < n
    BY <1>1, <1>2
  <1> QED
    BY <1>3

\* A pointer handed out is one more handle.
LEMMA HoldingType ==
    ASSUME TypeOK, NEW n \in 0 .. MaxNodes
    PROVE  Holding(n) \subseteq [node : 0 .. MaxNodes, old : BOOLEAN]
  <1>1. [node |-> n, old |-> FALSE] \in [node : 0 .. MaxNodes, old : BOOLEAN]
    OBVIOUS
  <1> QED
    BY <1>1 DEF Holding, TypeOK

\* Pools begin in the invariant.
LEMMA InitIInv == Init => IInv
  <1> SUFFICES ASSUME Init PROVE IInv
    OBVIOUS
  <1>1. MaxNodes \in Nat
    BY PoolAssumption
  <1>2. Blank \in NodeStates
    BY <1>1 DEF Blank, NodeStates
  <1>3. TypeOK
    <2>1. Unset.root = 0
      BY DEF Unset
    <2>2. \A c \in Callers : setter[c] = Unset
      BY DEF Init
    <2>3. \A c \in Callers : setter[c].root \in 0 .. MaxNodes
      BY <1>1, <2>1, <2>2
    <2>4. storage \in [Nodes -> NodeStates]
      BY <1>2 DEF Init
    <2>5. DOMAIN field_idx = Nodes /\ DOMAIN setter = Callers
      BY DEF Init
    <2>6. handles \subseteq [node : 0 .. MaxNodes, old : BOOLEAN]
      BY DEF Init
    <2>7. /\ next_idx \in 0 .. MaxNodes /\ epoch \in Nat /\ calls \in Nat
      BY <1>1 DEF Init
    <2>8. usedStale \in BOOLEAN /\ diverged \in BOOLEAN
      BY Zenon DEF Init
    <2> QED
      BY <2>3, <2>4, <2>5, <2>6, <2>7, <2>8 DEF TypeOK
  <1>4. PointersDescend
    BY DEF Init, PointersDescend, Followed, Blank
  <1>5. NoHalfBuiltTree
    BY DEF Init, NoHalfBuiltTree
  <1>6. HandlesInv
    BY DEF Init, HandlesInv
  <1> QED
    BY <1>3, <1>4, <1>5, <1>6 DEF IInv

\* Whatever a builder makes of the next node from pointers below it: the types
\* and the shape of the pool are kept, if the node's own operands are there.
LEMMA NewNode ==
    ASSUME IInv, ~Full, ~usedStale, Returned, NEW node \in NodeStates,
           storage' = [storage EXCEPT ![NextNode] = node],
           usedStale' \in BOOLEAN,
           ~usedStale' =>
               /\ \A p \in {"left", "right", "cond"} : node[p] < NextNode
               /\ \A p \in Operands(node.kind) : node[p] # 0
    PROVE  IInv'
  <1>1. TypeOK /\ PointersDescend /\ NoHalfBuiltTree /\ HandlesInv
    BY DEF IInv
  <1>2. /\ next_idx \in Nat /\ MaxNodes \in Nat /\ next_idx < MaxNodes
        /\ NextNode = next_idx + 1 /\ NextNode \in Nodes
        /\ next_idx' = next_idx + 1
    BY <1>1, PoolAssumption DEF TypeOK, Full, NextNode, Nodes, Returned
  <1>3. storage'[NextNode] = node
          /\ \A n \in Nodes : n # NextNode => storage'[n] = storage[n]
    BY <1>1, <1>2 DEF TypeOK
  <1>4. TypeOK'
    <2>1. storage' \in [Nodes -> NodeStates]
      BY <1>1, <1>2 DEF TypeOK
    <2>2. handles' \subseteq [node : 0 .. MaxNodes, old : BOOLEAN]
      BY <1>1, <1>2, HoldingType DEF Nodes, Returned
    <2> QED
      BY <1>1, <1>2, <2>1, <2>2 DEF TypeOK, Returned
  <1>5. PointersDescend'
    <2>1. SUFFICES ASSUME ~usedStale', NEW n \in Nodes
                   PROVE  Followed'[n] \subseteq 1 .. n - 1
      BY DEF PointersDescend
    <2>2. CASE n = NextNode
      <3>1. \A p \in {"left", "right", "cond"} : storage'[n][p] < n
        BY <1>3, <2>1, <2>2
      <3>2. Followed'[n] =
                {node.left, node.right, node.cond} \ {0}
        BY <1>3, <2>2 DEF Followed
      <3>3. /\ node.left \in Nat /\ node.right \in Nat /\ node.cond \in Nat
            /\ node.left < n /\ node.right < n /\ node.cond < n
        BY <1>2, <1>3, <2>2, <3>1 DEF NodeStates
      <3> QED
        BY <1>2, <2>2, <3>2, <3>3
    <2>3. CASE n # NextNode
      <3>1. Followed'[n] = Followed[n]
        BY <1>3, <2>3 DEF Followed
      <3> QED
        BY <1>1, <3>1 DEF PointersDescend
    <2> QED
      BY <2>2, <2>3
  <1>6. NoHalfBuiltTree'
    <2>1. SUFFICES ASSUME ~usedStale', NEW n \in 1 .. next_idx + 1,
                          NEW p \in Operands(storage'[n].kind)
                   PROVE  storage'[n][p] # 0
      BY <1>2 DEF NoHalfBuiltTree
    <2>2. CASE n = NextNode
      BY <1>3, <2>1, <2>2
    <2>3. CASE n # NextNode
      <3>1. n \in 1 .. next_idx /\ n \in Nodes
        BY <1>2, <2>3 DEF Nodes
      <3> QED
        BY <1>1, <1>3, <2>1, <2>3, <3>1 DEF NoHalfBuiltTree
    <2> QED
      BY <2>2, <2>3
  <1>7. HandlesInv'
    <2>1. SUFFICES ASSUME NEW h \in handles', ~h.old
                   PROVE  h.node <= next_idx + 1 /\ (h.node = 0 => Full')
      BY <1>2 DEF HandlesInv
    <2>2. CASE h \in handles
      BY <1>1, <1>2, <2>1, <2>2 DEF HandlesInv, Full, TypeOK
    <2>3. CASE h \notin handles
      BY <1>2, <2>1, <2>3 DEF Returned, Holding
    <2> QED
      BY <2>2, <2>3
  <1> QED
    BY <1>4, <1>5, <1>6, <1>7 DEF IInv

\* A LOAD leaves all three pointers of its node as they were.
LEMMA LoadStep ==
    ASSUME IInv, NEW name \in Names, Load(name)
    PROVE  IInv'
  <1> DEFINE node == [Assigned(storage[NextNode], "LOAD", <<>>)
                         EXCEPT !.name = name]
             s == storage[NextNode]
  <1>1. TypeOK /\ ~Full /\ ~usedStale /\ Returned /\ usedStale' = usedStale
    BY DEF IInv, Load, Explored
  <1>2. NextNode \in Nodes
    BY <1>1, PoolAssumption DEF TypeOK, Full, NextNode, Nodes
  <1>3. s \in NodeStates
    BY <1>1, <1>2 DEF TypeOK
  <1>4. node = [kind |-> "LOAD", name |-> name, left |-> s.left,
                right |-> s.right, cond |-> s.cond]
    BY OperandsFacts DEF Assigned
  <1>5. node \in NodeStates
    BY <1>3, <1>4 DEF NodeStates
  <1>6. storage' = [storage EXCEPT ![NextNode] = node]
    BY DEF Load
  <1>7. \A p \in {"left", "right", "cond"} : s[p] < NextNode
    BY <1>1, <1>2, FollowedFacts DEF IInv, PointersDescend
  <1>8. \A p \in {"left", "right", "cond"} : node[p] < NextNode
    BY <1>4, <1>7
  <1>9. \A p \in Operands(node.kind) : node[p] # 0
    BY <1>4, OperandsFacts
  <1>10. usedStale' \in BOOLEAN
    BY <1>1 DEF TypeOK
  <1> HIDE DEF node
  <1> QED
    BY <1>1, <1>5, <1>6, <1>8, <1>9, <1>10, NewNode

\* Every other builder sets the pointers of its kind to its arguments.
LEMMA BuildStep ==
    ASSUME IInv, NEW kind \in BuiltKinds, Build(kind)
    PROVE  IInv'
  <1> DEFINE s == storage[NextNode]
  <1>1. TypeOK /\ ~Full /\ ~usedStale /\ Returned /\ HandlesInv
    BY DEF IInv, Build, Explored
  <1>2. NextNode \in Nodes /\ next_idx \in Nat /\ NextNode = next_idx + 1
    BY <1>1, PoolAssumption DEF TypeOK, Full, NextNode, Nodes
  <1>3. s \in NodeStates
    BY <1>1, <1>2 DEF TypeOK
  <1>4. PICK args \in [Operands(kind) -> handles] :
            /\ storage' = [storage EXCEPT ![NextNode] =
                   Assigned(@, kind, [p \in Operands(kind) |-> args[p].node])]
            /\ usedStale' = (usedStale
                   \/ \E p \in Operands(kind) : args[p].old)
    BY DEF Build
  <1> DEFINE given == [p \in Operands(kind) |-> args[p].node]
             Operand(p) == IF p \in Operands(kind) THEN given[p] ELSE s[p]
             node == [kind |-> kind, name |-> s.name,
                      left |-> Operand("left"), right |-> Operand("right"),
                      cond |-> Operand("cond")]
  <1>5. storage' = [storage EXCEPT ![NextNode] = node]
    BY <1>4 DEF Assigned
  <1>6. \A p \in Operands(kind) :
            given[p] = args[p].node /\ args[p] \in handles
    OBVIOUS
  <1>7. kind \in {"NOT", "GT", "SELECT"}
    BY PoolAssumption
  <1>8. \A p \in {"left", "right", "cond"} :
            /\ Operand(p) \in 0 .. MaxNodes
            /\ ~usedStale' => Operand(p) < NextNode
            /\ ~usedStale' /\ p \in Operands(kind) => Operand(p) # 0
    <2>1. SUFFICES ASSUME NEW p \in {"left", "right", "cond"}
                   PROVE  /\ Operand(p) \in 0 .. MaxNodes
                          /\ ~usedStale' => Operand(p) < NextNode
                          /\ ~usedStale' /\ p \in Operands(kind) =>
                                 Operand(p) # 0
      OBVIOUS
    <2>2. CASE p \in Operands(kind)
      <3>1. Operand(p) = args[p].node /\ args[p] \in handles
        BY <1>6, <2>2
      <3>2. args[p].node \in 0 .. MaxNodes
        BY <1>1, <3>1 DEF TypeOK
      <3>3. ~usedStale' => ~args[p].old
        BY <1>4, <2>2
      <3>4. ~usedStale' => args[p].node <= next_idx /\ args[p].node # 0
        BY <1>1, <3>1, <3>3 DEF HandlesInv
      <3> HIDE DEF Operand
      <3> QED
        BY <1>2, <3>1, <3>2, <3>4
    <2>3. CASE p \notin Operands(kind)
      <3>1. Operand(p) = s[p]
        BY <2>3
      <3>2. s[p] \in 0 .. MaxNodes
        BY <1>3, <2>1 DEF NodeStates
      <3>3. s[p] < NextNode
        BY <1>1, <1>2, FollowedFacts DEF IInv, PointersDescend
      <3> HIDE DEF Operand
      <3> QED
        BY <2>3, <3>1, <3>2, <3>3
    <2> QED
      BY <2>2, <2>3
  <1>9. node.kind = kind /\ \A p \in {"left", "right", "cond"} :
                                node[p] = Operand(p)
    <2> HIDE DEF Operand
    <2> QED
      OBVIOUS
  <1>10. node \in NodeStates
    <2> HIDE DEF Operand
    <2> QED
      BY <1>3, <1>7, <1>8 DEF NodeStates
  <1>11. usedStale' \in BOOLEAN
    BY <1>1, <1>4
  <1>12. Operands(kind) \subseteq {"left", "right", "cond"}
    BY <1>7, OperandsFacts
  <1> HIDE DEF node, Operand
  <1>13. ~usedStale' =>
             /\ \A p \in {"left", "right", "cond"} : node[p] < NextNode
             /\ \A p \in Operands(node.kind) : node[p] # 0
    BY <1>8, <1>9, <1>12
  <1> QED
    BY <1>1, <1>5, <1>10, <1>11, <1>13, NewNode

\* The other steps leave the nodes' pointers alone.
LEMMA OtherSteps ==
    ASSUME IInv, storage' = storage, usedStale' = usedStale,
           next_idx' = next_idx, handles' = handles, TypeOK'
    PROVE  IInv'
  <1>1. Followed' = Followed /\ (Full' <=> Full)
    BY DEF Followed, Full
  <1> QED
    BY <1>1 DEF IInv, PointersDescend, NoHalfBuiltTree, HandlesInv

\* The invariant is inductive.
LEMMA Inductive == IInv /\ [Next]_vars => IInv'
  <1> SUFFICES ASSUME IInv, [Next]_vars PROVE IInv'
    OBVIOUS
  <1>1. TypeOK /\ PointersDescend /\ NoHalfBuiltTree /\ MaxNodes \in Nat
    BY PoolAssumption DEF IInv
  <1>2. CASE UNCHANGED vars
    <2>1. TypeOK'
      BY <1>1, <1>2 DEF TypeOK, vars, pool, history
    <2> QED
      BY <1>2, <2>1, OtherSteps DEF vars, pool, history
  <1>3. CASE BuilderFails
    <2>0. Holding(0) \subseteq [node : 0 .. MaxNodes, old : BOOLEAN]
      BY <1>1, HoldingType
    <2>1. TypeOK'
      BY <1>1, <1>3, <2>0 DEF TypeOK, BuilderFails, history
    <2>2. Followed' = Followed /\ Full /\ Full'
      BY <1>3 DEF Followed, Full, BuilderFails
    <2>3. HandlesInv /\ next_idx \in Nat
      BY <1>1, <1>3 DEF IInv, BuilderFails, Explored, TypeOK
    <2>4. HandlesInv'
      BY <1>3, <2>2, <2>3 DEF HandlesInv, BuilderFails, Holding
    <2> QED
      BY <1>1, <1>3, <2>1, <2>2, <2>4
      DEF IInv, PointersDescend, NoHalfBuiltTree, BuilderFails, history
  <1>4. ASSUME NEW name \in Names, Load(name) PROVE IInv'
    BY <1>4, LoadStep
  <1>5. ASSUME NEW kind \in BuiltKinds, Build(kind) PROVE IInv'
    BY <1>5, BuildStep
  <1>6. CASE Reset
    <2>1. \A h \in handles' : h.old /\ h.node \in 0 .. MaxNodes
                                /\ h \in [node : 0 .. MaxNodes, old : BOOLEAN]
      BY <1>1, <1>6 DEF Reset, TypeOK
    <2>2. TypeOK'
      BY <1>1, <1>6, <2>1 DEF TypeOK, Reset, history
    <2>3. HandlesInv'
      BY <2>1 DEF HandlesInv
    <2>4. Followed' = Followed
      BY <1>6 DEF Followed, Reset
    <2> QED
      BY <1>1, <1>6, <2>2, <2>3, <2>4
      DEF IInv, PointersDescend, NoHalfBuiltTree, Reset, history
  <1>7. ASSUME NEW c \in Callers, NEW h \in handles, Number(c, h.node)
        PROVE  IInv'
    <2> DEFINE x == [st |-> "numbered", root |-> h.node, kernel |-> <<>>,
                     fields |-> <<>>]
    <2>1. x.root \in 0 .. MaxNodes
      BY <1>1 DEF TypeOK
    <2>2. DOMAIN field_idx' = Nodes
      BY <1>7 DEF Number, Numbered
    <2>3. setter' = [setter EXCEPT ![c] = x]
      BY <1>7 DEF Number
    <2> HIDE DEF x
    <2>4. /\ DOMAIN setter' = Callers
          /\ \A d \in Callers : setter'[d].root \in 0 .. MaxNodes
      BY <1>1, <2>1, <2>3 DEF TypeOK
    <2>5. TypeOK'
      BY <1>1, <1>7, <2>2, <2>4 DEF TypeOK, Number
    <2> QED
      BY <1>7, <2>5, OtherSteps DEF Number
  <1>8. ASSUME NEW c \in Callers, NEW h \in handles,
               RefuseFields(c, h.node) \/ CompileDiverges(c, h.node)
        PROVE  IInv'
    <2>1. CASE RefuseFields(c, h.node)
      <3>1. DOMAIN field_idx' = Nodes
        BY <2>1 DEF RefuseFields, NumberedUntilRefused
      <3>2. TypeOK'
        BY <1>1, <2>1, <3>1 DEF TypeOK, RefuseFields
      <3> QED
        BY <2>1, <3>2, OtherSteps DEF RefuseFields
    <2>2. CASE CompileDiverges(c, h.node)
      <3>1. TypeOK'
        BY <1>1, <2>2 DEF TypeOK, CompileDiverges, pool, history
      <3> QED
        BY <2>2, <3>1, OtherSteps DEF CompileDiverges, pool, history
    <2> QED
      BY <1>8, <2>1, <2>2
  <1>9. ASSUME NEW c \in Callers, Emit(c) \/ Collect(c) \/ Again(c)
        PROVE  IInv'
    <2>1. /\ DOMAIN setter' = Callers
          /\ \A d \in Callers : setter'[d].root \in {0, setter[d].root}
      <3>1. CASE Collect(c)
        <4> DEFINE x == [st |-> "set", root |-> setter[c].root,
                         kernel |-> setter[c].kernel,
                         fields |-> Collected(setter[c].root)]
        <4>1. setter' = [setter EXCEPT ![c] = x] /\ x.root = setter[c].root
          BY <3>1 DEF Collect
        <4> HIDE DEF x
        <4> QED
          BY <1>1, <4>1 DEF TypeOK
      <3>2. CASE setter' = [setter EXCEPT ![c] = Unset]
        BY <1>1, <3>2 DEF TypeOK, Unset
      <3>3. CASE Emit(c) /\ setter' # [setter EXCEPT ![c] = Unset]
        <4> DEFINE x == [st |-> "compiled", root |-> setter[c].root,
                         kernel |-> NamesRead(setter[c].root), fields |-> <<>>]
        <4>1. setter' = [setter EXCEPT ![c] = x] /\ x.root = setter[c].root
          BY <3>3 DEF Emit, NamesRead
        <4> HIDE DEF x
        <4> QED
          BY <1>1, <4>1 DEF TypeOK
      <3>4. Again(c) => setter' = [setter EXCEPT ![c] = Unset]
        BY DEF Again
      <3> QED
        BY <1>9, <3>1, <3>2, <3>3, <3>4
    <2>2. \A d \in Callers : setter'[d].root \in 0 .. MaxNodes
      BY <1>1, <2>1 DEF TypeOK
    <2>3. TypeOK'
      BY <1>1, <1>9, <2>1, <2>2 DEF TypeOK, Emit, Collect, Again, pool, history
    <2> QED
      BY <1>9, <2>3, OtherSteps DEF Emit, Collect, Again, pool, history
  <1> QED
    BY <1>2, <1>3, <1>4, <1>5, <1>6, <1>7, <1>8, <1>9
    DEF Next, Builders, SetExpression, Stopped

\* Every reachable state satisfies the invariant.
THEOREM Invariance == Spec => []IInv
  BY InitIInv, Inductive, PTL DEF Spec

\* The nodes, the pointers into the pool and the callers' trees keep their
\* types.
THEOREM TypeCorrect == Spec => []TypeOK
  <1>1. IInv => TypeOK
    BY DEF IInv
  <1> QED
    BY <1>1, Invariance, PTL

\* While no builder was given a node from before the last reset, every pointer
\* leads to a node further down, also those left over from an earlier use: the
\* analysis of the compilers meets no circle.
THEOREM PointersLeadDown == Spec => []PointersDescend
  <1>1. IInv => PointersDescend
    BY DEF IInv
  <1> QED
    BY <1>1, Invariance, PTL

\* An exhausted pool yields nullptr for the root of a tree and never a tree
\* that lacks an operand.
THEOREM TreesAreWhole == Spec => []NoHalfBuiltTree
  <1>1. IInv => NoHalfBuiltTree
    BY DEF IInv
  <1> QED
    BY <1>1, Invariance, PTL

\* Induction over the naturals, the induction hypothesis being a set.
LEMMA Induction ==
    ASSUME NEW T, 0 \in T, \A n \in Nat : n \in T => n + 1 \in T
    PROVE  Nat \subseteq T
  <1> DEFINE R == OpToRel(<, Nat)
             M == Nat \ T
  <1>1. IsWellFoundedOn(R, Nat)
    BY NatLessThanWellFounded
  <1>2. \A x, y \in Nat : x < y => <<x, y>> \in R
    BY DEF OpToRel
  <1> HIDE DEF R
  <1>3. SUFFICES ASSUME M # {} PROVE FALSE
    OBVIOUS
  <1>4. PICK m \in M : \A n \in M : ~ (<<n, m>> \in R)
    BY <1>1, <1>3, WFMin, Zenon
  <1>5. m \in Nat /\ m # 0
    OBVIOUS
  <1>6. m - 1 \in Nat /\ m - 1 < m /\ m - 1 + 1 = m
    BY <1>5
  <1>7. m - 1 \in M
    BY <1>5, <1>6
  <1>8. <<m - 1, m>> \in R
    BY <1>2, <1>5, <1>6
  <1> QED
    BY <1>4, <1>7, <1>8

\* The same up to a bound.
LEMMA BoundedInduction ==
    ASSUME NEW N \in Nat, NEW T, 0 \in T,
           \A n \in 1 .. N : n - 1 \in T => n \in T
    PROVE  0 .. N \subseteq T
  <1> DEFINE U == T \cup {n \in Nat : n > N}
  <1>1. 0 \in U
    OBVIOUS
  <1>2. \A n \in Nat : n \in U => n + 1 \in U
    <2> SUFFICES ASSUME NEW n \in Nat, n \in U PROVE n + 1 \in U
      OBVIOUS
    <2>1. CASE n < N
      <3>1. n + 1 \in 1 .. N /\ n + 1 - 1 = n /\ n \in T
        BY <2>1
      <3> QED
        BY <3>1
    <2>2. CASE ~(n < N)
      BY <2>2
    <2> QED
      BY <2>1, <2>2
  <1> HIDE DEF U
  <1>3. Nat \subseteq U
    BY <1>1, <1>2, Induction
  <1> QED
    BY <1>3 DEF U

\* f[n] is what step[n] makes of f[n - 1].
IsIterated(f, N, S, a, step) ==
    /\ f \in [0 .. N -> S]
    /\ f[0] = a
    /\ \A n \in 1 .. N : f[n] = step[n][f[n - 1]]

\* A function defined by recursion from n - 1 to n exists.
LEMMA Iteration ==
    ASSUME NEW N \in Nat, NEW S, NEW a \in S, NEW step \in [1 .. N -> [S -> S]]
    PROVE  \E f : IsIterated(f, N, S, a, step)
  <1> DEFINE Begun(n) == \E f : IsIterated(f, n, S, a, step)
             T == {n \in 0 .. N : Begun(n)}
  <1>1. 0 \in T
    <2>1. IsIterated([i \in 0 .. 0 |-> a], 0, S, a, step)
      BY DEF IsIterated
    <2> QED
      BY <2>1
  <1>2. ASSUME NEW n \in 1 .. N, n - 1 \in T PROVE n \in T
    <2>1. PICK f : IsIterated(f, n - 1, S, a, step)
      BY <1>2
    <2> DEFINE v == step[n][f[n - 1]]
               g == [i \in 0 .. n |-> IF i = n THEN v ELSE f[i]]
    <2>2. f \in [0 .. n - 1 -> S] /\ f[0] = a
      BY <2>1 DEF IsIterated
    <2>3. v \in S
      <3>1. n - 1 \in 0 .. n - 1
        OBVIOUS
      <3>2. f[n - 1] \in S /\ step[n] \in [S -> S]
        BY <2>2, <3>1
      <3> QED
        BY <3>2
    <2> HIDE DEF v
    <2>4. g \in [0 .. n -> S] /\ g[0] = a
      BY <2>2, <2>3
    <2>5. ASSUME NEW m \in 1 .. n PROVE g[m] = step[m][g[m - 1]]
      <3>1. g[m - 1] = f[m - 1]
        OBVIOUS
      <3>2. CASE m = n
        BY <3>1, <3>2 DEF v
      <3>3. CASE m # n
        <4>1. m \in 1 .. n - 1 /\ g[m] = f[m]
          BY <3>3
        <4> QED
          BY <2>1, <3>1, <4>1 DEF IsIterated
      <3> QED
        BY <3>2, <3>3
    <2>6. IsIterated(g, n, S, a, step)
      <3> HIDE DEF g
      <3> QED
        BY <2>4, <2>5 DEF IsIterated
    <2> QED
      BY <2>6
  <1> HIDE DEF Begun
  <1>3. \A n \in 1 .. N : n - 1 \in T => n \in T
    BY <1>2
  <1> HIDE DEF T
  <1>4. 0 .. N \subseteq T
    BY <1>1, <1>3, BoundedInduction
  <1>5. N \in T
    BY <1>4
  <1> QED
    BY <1>5 DEF T, Begun

-----------------------------------------------------------------------------
(* What lies below a node.                                                 *)

Edges == [Nodes -> SUBSET Nodes]

\* The nodes one step away from a set.
Onward(edges, A) == UNION {edges[n] : n \in A}

\* The recursion of Below.
IsLevel(level, root, edges) ==
    level = [d \in 0 .. MaxNodes |->
                IF d = 0 THEN {root} \ {0}
                ELSE level[d - 1] \cup UNION {edges[n] : n \in level[d - 1]}]

\* Its levels.
IsBelow(level, root, edges) ==
    /\ level \in [0 .. MaxNodes -> SUBSET Nodes]
    /\ level[0] = {root} \ {0}
    /\ \A d \in 1 .. MaxNodes :
           level[d] = level[d - 1] \cup Onward(edges, level[d - 1])
    /\ Below(root, edges) = level[MaxNodes]

\* They exist.
LEMMA LevelsExist ==
    ASSUME NEW root \in 0 .. MaxNodes, NEW edges \in Edges
    PROVE  \E level : IsBelow(level, root, edges)
  <1> DEFINE S == SUBSET Nodes
             a == {root} \ {0}
             onward == [A \in S |-> A \cup Onward(edges, A)]
             step == [d \in 1 .. MaxNodes |-> onward]
  <1>0. MaxNodes \in Nat
    BY PoolAssumption
  <1>1. \A A \in S : A \cup Onward(edges, A) \in S
    BY DEF Onward, Edges
  <1>2. a \in S
    BY <1>0 DEF Nodes
  <1>3. onward \in [S -> S] /\ \A A \in S : onward[A] = A \cup Onward(edges, A)
    BY <1>1
  <1> HIDE DEF onward
  <1>4. /\ step \in [1 .. MaxNodes -> [S -> S]]
        /\ \A d \in 1 .. MaxNodes : step[d] = onward
    BY <1>3
  <1> HIDE DEF step, a
  <1>5. PICK f : IsIterated(f, MaxNodes, S, a, step)
    BY <1>0, <1>2, <1>4, Iteration
  <1>6. f \in [0 .. MaxNodes -> S] /\ f[0] = a
    BY <1>5 DEF IsIterated
  <1>7. \A d \in 1 .. MaxNodes : f[d] = f[d - 1] \cup Onward(edges, f[d - 1])
    <2> TAKE d \in 1 .. MaxNodes
    <2>1. d - 1 \in 0 .. MaxNodes
      BY <1>0
    <2>2. f[d] = step[d][f[d - 1]] /\ f[d - 1] \in S
      BY <1>5, <1>6, <2>1 DEF IsIterated
    <2> QED
      BY <1>3, <1>4, <2>2
  <1>8. IsLevel(f, root, edges)
    <2>1. \A d \in 0 .. MaxNodes :
              f[d] = IF d = 0 THEN {root} \ {0}
                     ELSE f[d - 1] \cup UNION {edges[n] : n \in f[d - 1]}
      <3> TAKE d \in 0 .. MaxNodes
      <3>1. CASE d = 0
        BY <1>6, <3>1 DEF a
      <3>2. CASE d # 0
        <4>1. d \in 1 .. MaxNodes
          BY <1>0, <3>2
        <4> QED
          BY <1>7, <3>2, <4>1 DEF Onward
      <3> QED
        BY <3>1, <3>2
    <2> QED
      BY <1>6, <2>1 DEF IsLevel
  <1> DEFINE g == CHOOSE g : g = [d \in 0 .. MaxNodes |->
                      IF d = 0 THEN {root} \ {0}
                      ELSE g[d - 1] \cup UNION {edges[n] : n \in g[d - 1]}]
  <1>9. IsLevel(g, root, edges)
    BY <1>8, Zenon DEF IsLevel
  <1>10. Below(root, edges) = g[MaxNodes]
    BY DEF Below
  <1> HIDE DEF g
  <1>11. \A d \in 0 .. MaxNodes :
             g[d] = IF d = 0 THEN {root} \ {0}
                    ELSE g[d - 1] \cup Onward(edges, g[d - 1])
    BY <1>9 DEF IsLevel, Onward
  <1>12. g[0] = a /\ DOMAIN g = 0 .. MaxNodes
    BY <1>0, <1>9, <1>11 DEF a, IsLevel
  <1>13. \A d \in 1 .. MaxNodes : g[d] = g[d - 1] \cup Onward(edges, g[d - 1])
    <2> TAKE d \in 1 .. MaxNodes
    <2>1. d \in 0 .. MaxNodes /\ d # 0
      BY <1>0
    <2> QED
      BY <1>11, <2>1
  <1> DEFINE T == {d \in 0 .. MaxNodes : g[d] \in S}
  <1>14. 0 \in T
    BY <1>0, <1>2, <1>12
  <1>15. \A d \in 1 .. MaxNodes : d - 1 \in T => d \in T
    BY <1>1, <1>13
  <1> HIDE DEF T
  <1>16. 0 .. MaxNodes \subseteq T
    BY <1>0, <1>14, <1>15, BoundedInduction
  <1>17. g \in [0 .. MaxNodes -> S]
    <2>1. \A d \in 0 .. MaxNodes : g[d] \in S
      BY <1>16 DEF T
    <2>2. g = [d \in 0 .. MaxNodes |-> g[d]]
      BY <1>9 DEF IsLevel
    <2> QED
      BY <2>1, <2>2
  <1>18. IsBelow(g, root, edges)
    BY <1>10, <1>12, <1>13, <1>17 DEF IsBelow, a
  <1> QED
    BY <1>18

\* A set that has the root and is closed under the edges has all below it.
LEMMA BelowWithin ==
    ASSUME NEW root \in 0 .. MaxNodes, NEW edges \in Edges,
           NEW A, {root} \ {0} \subseteq A,
           \A n \in A \cap Nodes : edges[n] \subseteq A
    PROVE  Below(root, edges) \subseteq A \cap Nodes
  <1>0. MaxNodes \in Nat
    BY PoolAssumption
  <1>1. PICK L : IsBelow(L, root, edges)
    BY LevelsExist
  <1> DEFINE T == {d \in 0 .. MaxNodes : L[d] \subseteq A}
  <1>2. 0 \in T
    BY <1>0, <1>1 DEF IsBelow
  <1>3. ASSUME NEW d \in 1 .. MaxNodes, d - 1 \in T PROVE d \in T
    <2>1. L[d] = L[d - 1] \cup Onward(edges, L[d - 1])
      BY <1>1 DEF IsBelow
    <2>2. L[d - 1] \subseteq A \cap Nodes
      BY <1>1, <1>3 DEF IsBelow
    <2>3. Onward(edges, L[d - 1]) \subseteq A
      BY <2>2 DEF Onward
    <2> QED
      BY <2>1, <2>2, <2>3
  <1> HIDE DEF T
  <1>4. 0 .. MaxNodes \subseteq T
    BY <1>0, <1>2, <1>3, BoundedInduction
  <1>5. MaxNodes \in T
    BY <1>0, <1>4
  <1> QED
    BY <1>0, <1>1, <1>5 DEF T, IsBelow

\* The pointers of the pool lead into the pool.
LEMMA FollowedEdges ==
    ASSUME TypeOK
    PROVE  Followed \in Edges /\ CollectFollowed \in Edges
  <1>1. \A n \in Nodes : /\ storage[n].left \in 0 .. MaxNodes
                         /\ storage[n].right \in 0 .. MaxNodes
                         /\ storage[n].cond \in 0 .. MaxNodes
    BY DEF TypeOK, NodeStates
  <1>2. \A x \in 0 .. MaxNodes : x # 0 => x \in Nodes
    BY PoolAssumption DEF Nodes
  <1> QED
    BY <1>1, <1>2 DEF Followed, CollectFollowed, Edges

\* No circle where pointers descend.
LEMMA NotCircular ==
    ASSUME TypeOK, PointersDescend, ~usedStale, NEW root \in 0 .. MaxNodes
    PROVE  ~Circular(root)
  <1>1. SUFFICES ASSUME NEW n \in Below(root, Followed),
                        NEW m \in Followed[n], n \in Below(m, Followed)
                 PROVE  FALSE
    BY DEF Circular
  <1>2. Followed \in Edges
    BY FollowedEdges
  <1>3. MaxNodes \in Nat /\ Nodes \subseteq Nat
    BY PoolAssumption DEF Nodes
  <1>4. n \in Nodes
    <2>1. PICK L : IsBelow(L, root, Followed)
      BY <1>2, LevelsExist
    <2>2. MaxNodes \in 0 .. MaxNodes
      BY <1>3
    <2> QED
      BY <2>1, <2>2 DEF IsBelow
  <1>5. m \in Nat /\ m < n /\ m \in 0 .. MaxNodes
    <2>1. m \in 1 .. n - 1 /\ m \in Nodes
      BY <1>2, <1>4 DEF PointersDescend, Edges
    <2> QED
      BY <1>3, <1>4, <2>1 DEF Nodes
  <1> DEFINE A == {k \in Nat : k <= m}
  <1>6. {m} \ {0} \subseteq A
    BY <1>5
  <1>7. ASSUME NEW k \in A \cap Nodes PROVE Followed[k] \subseteq A
    <2>1. Followed[k] \subseteq 1 .. k - 1 /\ k \in Nat /\ k <= m
      BY <1>3, <1>7 DEF PointersDescend
    <2> QED
      BY <1>5, <2>1
  <1> HIDE DEF A
  <1>8. Below(m, Followed) \subseteq A \cap Nodes
    BY <1>2, <1>5, <1>6, <1>7, BelowWithin
  <1> QED
    BY <1>1, <1>3, <1>4, <1>5, <1>8 DEF A

\* The levels grow until nothing new lies below, and there are more levels than
\* nodes: the last level is the one before it.
LEMMA LevelsEnd ==
    ASSUME NEW root \in Nodes, NEW edges \in Edges,
           NEW L, IsBelow(L, root, edges)
    PROVE  L[MaxNodes] = L[MaxNodes - 1]
  <1> DEFINE Ended(d) == d # 0 /\ L[d] = L[d - 1]
             T == {d \in 0 .. MaxNodes :
                       d < Cardinality(L[d]) \/ Ended(d)}
  <1>1. MaxNodes \in Nat \ {0} /\ root # 0 /\ root \in Nat
    BY PoolAssumption DEF Nodes
  <1>2. IsFiniteSet(Nodes) /\ Cardinality(Nodes) = MaxNodes
    BY <1>1, FS_Interval DEF Nodes
  <1>3. \A d \in 0 .. MaxNodes : /\ L[d] \subseteq Nodes
                                 /\ IsFiniteSet(L[d])
                                 /\ Cardinality(L[d]) \in Nat
                                 /\ Cardinality(L[d]) <= MaxNodes
    <2> TAKE d \in 0 .. MaxNodes
    <2>1. L[d] \subseteq Nodes
      BY DEF IsBelow
    <2> QED
      BY <1>2, <2>1, FS_Subset, FS_CardinalityType
  <1>4. \A d \in 1 .. MaxNodes :
            L[d] = L[d - 1] \cup Onward(edges, L[d - 1])
    BY DEF IsBelow
  <1>5. 0 \in T
    <2>1. L[0] = {root}
      BY <1>1 DEF IsBelow
    <2>2. Cardinality(L[0]) = 1
      BY <2>1, FS_Singleton
    <2> QED
      BY <1>1, <2>2
  <1>6. ASSUME NEW d \in 1 .. MaxNodes, d - 1 \in T PROVE d \in T
    <2>1. d \in 0 .. MaxNodes /\ d - 1 \in 0 .. MaxNodes /\ d # 0
      BY <1>1
    <2>2. CASE L[d] = L[d - 1]
      BY <2>1, <2>2
    <2>3. CASE L[d] # L[d - 1]
      <3>1. ~Ended(d - 1)
        <4>1. SUFFICES ASSUME Ended(d - 1) PROVE FALSE
          OBVIOUS
        <4>2. d - 1 \in 1 .. MaxNodes
          BY <2>1, <4>1
        <4>3. L[d - 1] = L[d - 1 - 1] \cup Onward(edges, L[d - 1 - 1])
          BY <1>4, <4>2
        <4>4. L[d] = L[d - 1] \cup Onward(edges, L[d - 1])
          BY <1>4
        <4> QED
          BY <2>3, <4>1, <4>3, <4>4
      <3>2. d - 1 < Cardinality(L[d - 1])
        BY <1>6, <3>1
      <3>3. Cardinality(L[d - 1]) < Cardinality(L[d])
        <4>1. L[d - 1] \subseteq L[d]
          BY <1>4
        <4>2. /\ Cardinality(L[d - 1]) <= Cardinality(L[d])
              /\ Cardinality(L[d - 1]) = Cardinality(L[d]) => L[d - 1] = L[d]
          BY <1>3, <2>1, <4>1, FS_Subset
        <4> QED
          BY <1>3, <2>1, <2>3, <4>2
      <3>4. d < Cardinality(L[d])
        BY <1>3, <2>1, <3>2, <3>3
      <3> QED
        BY <2>1, <3>4
    <2> QED
      BY <2>2, <2>3
  <1> HIDE DEF T
  <1>7. \A d \in 1 .. MaxNodes : d - 1 \in T => d \in T
    BY <1>6
  <1>8. 0 .. MaxNodes \subseteq T
    BY <1>1, <1>5, <1>7, BoundedInduction
  <1>9. MaxNodes \in T /\ MaxNodes \in 0 .. MaxNodes
    BY <1>1, <1>8
  <1>10. Cardinality(L[MaxNodes]) \in Nat /\ Cardinality(L[MaxNodes]) <= MaxNodes
    BY <1>3, <1>9
  <1>11. ~(MaxNodes < Cardinality(L[MaxNodes]))
    BY <1>1, <1>10
  <1> QED
    BY <1>9, <1>11 DEF T

\* What is below a node below the root is below the root.
LEMMA BelowClosed ==
    ASSUME NEW root \in Nodes, NEW edges \in Edges,
           NEW n \in Below(root, edges)
    PROVE  n \in Nodes /\ edges[n] \subseteq Below(root, edges)
  <1>1. PICK L : IsBelow(L, root, edges)
    BY LevelsExist DEF Nodes
  <1>2. L[MaxNodes] = L[MaxNodes - 1]
    BY <1>1, LevelsEnd
  <1>3. MaxNodes \in 1 .. MaxNodes /\ MaxNodes \in 0 .. MaxNodes
    BY PoolAssumption DEF Nodes
  <1>4. /\ L[MaxNodes] = L[MaxNodes - 1] \cup Onward(edges, L[MaxNodes - 1])
        /\ L[MaxNodes] \subseteq Nodes
        /\ Below(root, edges) = L[MaxNodes]
    BY <1>1, <1>3 DEF IsBelow
  <1> QED
    BY <1>2, <1>4 DEF Onward

\* A root is below itself.
LEMMA RootBelow ==
    ASSUME NEW root \in Nodes, NEW edges \in Edges
    PROVE  root \in Below(root, edges)
  <1>0. MaxNodes \in Nat \ {0} /\ root # 0
    BY PoolAssumption DEF Nodes
  <1>1. PICK L : IsBelow(L, root, edges)
    BY LevelsExist DEF Nodes
  <1> DEFINE T == {d \in 0 .. MaxNodes : root \in L[d]}
  <1>2. 0 \in T
    BY <1>0, <1>1 DEF IsBelow
  <1>3. \A d \in 1 .. MaxNodes : d - 1 \in T => d \in T
    BY <1>1 DEF IsBelow
  <1> HIDE DEF T
  <1>4. 0 .. MaxNodes \subseteq T
    BY <1>0, <1>2, <1>3, BoundedInduction
  <1>5. MaxNodes \in T
    BY <1>0, <1>4
  <1> QED
    BY <1>1, <1>5 DEF T, IsBelow

\* What is below by fewer edges is below.
LEMMA BelowMonotone ==
    ASSUME NEW root \in Nodes, NEW edges \in Edges, NEW more \in Edges,
           \A n \in Below(root, more) : edges[n] \subseteq more[n]
    PROVE  Below(root, edges) \subseteq Below(root, more)
  <1> DEFINE A == Below(root, more)
  <1>1. root \in 0 .. MaxNodes /\ root \in A
    BY PoolAssumption, RootBelow DEF Nodes
  <1>2. \A n \in A \cap Nodes : edges[n] \subseteq A
    BY BelowClosed
  <1>3. {root} \ {0} \subseteq A
    BY <1>1
  <1> HIDE DEF A
  <1>4. Below(root, edges) \subseteq A \cap Nodes
    BY <1>1, <1>2, <1>3, BelowWithin
  <1> QED
    BY <1>4 DEF A

\* A change of edges elsewhere is not seen below the root.
LEMMA BelowKept ==
    ASSUME NEW root \in Nodes, NEW edges \in Edges, NEW other \in Edges,
           \A n \in Below(root, edges) : other[n] = edges[n]
    PROVE  Below(root, other) = Below(root, edges)
  <1>1. Below(root, other) \subseteq Below(root, edges)
    BY BelowMonotone
  <1>2. \A n \in Below(root, other) : edges[n] = other[n]
    BY <1>1
  <1>3. Below(root, edges) \subseteq Below(root, other)
    BY <1>2, BelowMonotone
  <1> QED
    BY <1>1, <1>3

-----------------------------------------------------------------------------
(* What the analysis lists.                                                *)

Elems(s) == {s[k] : k \in DOMAIN s}

LEMMA ElemsConcat ==
    ASSUME NEW S, NEW s \in Seq(S), NEW t \in Seq(S)
    PROVE  s \o t \in Seq(S) /\ Elems(s \o t) = Elems(s) \cup Elems(t)
  <1>1. /\ s \o t \in Seq(S) /\ Len(s \o t) = Len(s) + Len(t)
        /\ Len(s) \in Nat /\ Len(t) \in Nat
        /\ DOMAIN s = 1 .. Len(s) /\ DOMAIN t = 1 .. Len(t)
        /\ DOMAIN (s \o t) = 1 .. Len(s) + Len(t)
    OBVIOUS
  <1>2. \A k \in 1 .. Len(s) : (s \o t)[k] = s[k]
    OBVIOUS
  <1>3. \A k \in 1 .. Len(t) : (s \o t)[Len(s) + k] = t[k]
    OBVIOUS
  <1>4. Elems(s \o t) \subseteq Elems(s) \cup Elems(t)
    <2>1. SUFFICES ASSUME NEW k \in 1 .. Len(s) + Len(t)
                   PROVE  (s \o t)[k] \in Elems(s) \cup Elems(t)
      BY <1>1 DEF Elems
    <2>2. CASE k \in 1 .. Len(s)
      BY <1>1, <1>2, <2>2 DEF Elems
    <2>3. CASE k \notin 1 .. Len(s)
      <3>1. k - Len(s) \in 1 .. Len(t) /\ Len(s) + (k - Len(s)) = k
        BY <1>1, <2>3
      <3>2. (s \o t)[k] = t[k - Len(s)]
        BY <1>3, <3>1
      <3> QED
        BY <1>1, <3>1, <3>2 DEF Elems
    <2> QED
      BY <2>2, <2>3
  <1>5. Elems(s) \subseteq Elems(s \o t)
    <2>1. SUFFICES ASSUME NEW k \in 1 .. Len(s) PROVE s[k] \in Elems(s \o t)
      BY <1>1 DEF Elems
    <2>2. k \in 1 .. Len(s) + Len(t)
      BY <1>1
    <2> QED
      BY <1>1, <1>2, <2>2 DEF Elems
  <1>6. Elems(t) \subseteq Elems(s \o t)
    <2>1. SUFFICES ASSUME NEW k \in 1 .. Len(t) PROVE t[k] \in Elems(s \o t)
      BY <1>1 DEF Elems
    <2>2. Len(s) + k \in 1 .. Len(s) + Len(t)
      BY <1>1
    <2> QED
      BY <1>1, <1>3, <2>2 DEF Elems
  <1> QED
    BY <1>1, <1>4, <1>5, <1>6

\* The same, for a name of the concatenation.
IsConcat(u, s, t) == u = s \o t

LEMMA ElemsOf ==
    ASSUME NEW s \in Seq(Nodes), NEW t \in Seq(Nodes), NEW u, IsConcat(u, s, t)
    PROVE  u \in Seq(Nodes) /\ Elems(u) = Elems(s) \cup Elems(t)
  BY ElemsConcat DEF IsConcat

\* What a node adds to what is listed for its children.
Own(n) == IF storage[n].kind = "LOAD" THEN <<n>> ELSE <<>>

Joined(p, n) ==
    p[storage[n].left] \o p[storage[n].right] \o p[storage[n].cond] \o Own(n)

Lists == [0 .. MaxNodes -> Seq(Nodes)]

\* The list of a node, the lists of its children being p.
LEMMA JoinedIs ==
    ASSUME TypeOK, NEW p \in Lists, p[0] = <<>>, NEW n \in Nodes
    PROVE  /\ Joined(p, n) \in Seq(Nodes)
           /\ Elems(Joined(p, n)) =
                  (UNION {Elems(p[m]) : m \in Followed[n]}) \cup Elems(Own(n))
  <1>1. PICK l \in 0 .. MaxNodes, r \in 0 .. MaxNodes, c \in 0 .. MaxNodes :
            /\ l = storage[n].left /\ r = storage[n].right
            /\ c = storage[n].cond
    BY DEF TypeOK, NodeStates
  <1>2. p[l] \in Seq(Nodes) /\ p[r] \in Seq(Nodes) /\ p[c] \in Seq(Nodes)
    BY DEF Lists
  <1>3. Own(n) \in Seq(Nodes)
    BY DEF Own
  <1>4. PICK x : IsConcat(x, p[l], p[r])
    BY DEF IsConcat
  <1>5. PICK y : IsConcat(y, x, p[c])
    BY DEF IsConcat
  <1>6. PICK z : IsConcat(z, y, Own(n))
    BY DEF IsConcat
  <1>11. x \in Seq(Nodes) /\ Elems(x) = Elems(p[l]) \cup Elems(p[r])
    BY <1>2, <1>4, ElemsOf
  <1>12. y \in Seq(Nodes) /\ Elems(y) = Elems(x) \cup Elems(p[c])
    BY <1>2, <1>5, <1>11, ElemsOf
  <1>13. z \in Seq(Nodes) /\ Elems(z) = Elems(y) \cup Elems(Own(n))
    BY <1>3, <1>6, <1>12, ElemsOf
  <1>7. Elems(p[0]) = {}
    BY DEF Elems
  <1>8. Followed[n] = {l, r, c} \ {0}
    BY <1>1 DEF Followed
  <1>9. UNION {Elems(p[m]) : m \in Followed[n]} =
            Elems(p[l]) \cup Elems(p[r]) \cup Elems(p[c])
    <2>1. \A a : a \in UNION {Elems(p[m]) : m \in Followed[n]} <=>
                     \E m \in {l, r, c} \ {0} : a \in Elems(p[m])
      BY <1>8
    <2> QED
      BY <1>7, <2>1
  <1>10. Joined(p, n) = z
    BY <1>1, <1>4, <1>5, <1>6 DEF Joined, IsConcat
  <1> QED
    BY <1>9, <1>10, <1>11, <1>12, <1>13

\* The recursion of LoadNodes.
IsPost(post) ==
    post = [d \in 0 .. MaxNodes |->
               [n \in 0 .. MaxNodes |->
                   IF d = 0 \/ n = 0 THEN <<>>
                   ELSE post[d - 1][storage[n].left]
                            \o post[d - 1][storage[n].right]
                            \o post[d - 1][storage[n].cond]
                            \o IF storage[n].kind = "LOAD" THEN <<n>>
                               ELSE <<>>]]

IsListing(P, root) ==
    /\ P \in [0 .. MaxNodes -> Lists]
    /\ \A n \in 0 .. MaxNodes : P[0][n] = <<>>
    /\ \A d \in 1 .. MaxNodes :
           /\ P[d][0] = <<>>
           /\ \A n \in Nodes : P[d][n] = Joined(P[d - 1], n)
    /\ LoadNodes(root) = P[MaxNodes][root]

LEMMA ListingExists ==
    ASSUME TypeOK, NEW root
    PROVE  \E P : IsListing(P, root)
  <1> DEFINE S == {p \in Lists : p[0] = <<>>}
             a == [n \in 0 .. MaxNodes |-> <<>>]
             Onwards(p) == [n \in 0 .. MaxNodes |->
                             IF n = 0 THEN <<>> ELSE Joined(p, n)]
             onward == [p \in S |-> Onwards(p)]
             step == [d \in 1 .. MaxNodes |-> onward]
  <1>0. /\ MaxNodes \in Nat /\ 0 \in 0 .. MaxNodes
        /\ \A n \in 0 .. MaxNodes : n # 0 <=> n \in Nodes
    BY PoolAssumption DEF Nodes
  <1>1. a \in S
    BY <1>0 DEF Lists
  <1>2. \A p \in S : Onwards(p) \in S
    <2> TAKE p \in S
    <2>1. \A n \in 0 .. MaxNodes :
              (IF n = 0 THEN <<>> ELSE Joined(p, n)) \in Seq(Nodes)
      BY <1>0, JoinedIs
    <2>2. Onwards(p) \in Lists
      BY <2>1 DEF Lists
    <2>3. Onwards(p)[0] = <<>>
      BY <1>0
    <2> QED
      BY <2>2, <2>3
  <1> HIDE DEF Onwards
  <1>3. onward \in [S -> S] /\ \A p \in S : onward[p] = Onwards(p)
    BY <1>2
  <1> HIDE DEF onward
  <1>4. /\ step \in [1 .. MaxNodes -> [S -> S]]
        /\ \A d \in 1 .. MaxNodes : step[d] = onward
    BY <1>3
  <1> HIDE DEF step
  <1>5. PICK f : IsIterated(f, MaxNodes, S, a, step)
    BY <1>0, <1>1, <1>4, Iteration
  <1>6. f \in [0 .. MaxNodes -> S] /\ f[0] = a
    BY <1>5 DEF IsIterated
  <1>7. \A d \in 1 .. MaxNodes : f[d] = Onwards(f[d - 1])
    <2> TAKE d \in 1 .. MaxNodes
    <2>1. d - 1 \in 0 .. MaxNodes
      BY <1>0
    <2>2. f[d] = step[d][f[d - 1]] /\ f[d - 1] \in S
      BY <1>5, <1>6, <2>1 DEF IsIterated
    <2> QED
      BY <1>3, <1>4, <2>2
  <1>8. IsPost(f)
    <2>1. ASSUME NEW d \in 0 .. MaxNodes
          PROVE  f[d] = [n \in 0 .. MaxNodes |->
                            IF d = 0 \/ n = 0 THEN <<>>
                            ELSE f[d - 1][storage[n].left]
                                     \o f[d - 1][storage[n].right]
                                     \o f[d - 1][storage[n].cond]
                                     \o IF storage[n].kind = "LOAD" THEN <<n>>
                                        ELSE <<>>]
      <3>1. CASE d = 0
        BY <1>6, <3>1
      <3>2. CASE d # 0
        <4>1. d \in 1 .. MaxNodes
          BY <1>0, <3>2
        <4>2. f[d] = Onwards(f[d - 1])
          BY <1>7, <4>1
        <4> QED
          BY <3>2, <4>2 DEF Onwards, Joined, Own
      <3> QED
        BY <3>1, <3>2
    <2>2. f = [d \in 0 .. MaxNodes |-> f[d]]
      BY <1>6
    <2> QED
      BY <2>1, <2>2 DEF IsPost
  <1> DEFINE P == CHOOSE post : post =
                 [d \in 0 .. MaxNodes |->
                    [n \in 0 .. MaxNodes |->
                       IF d = 0 \/ n = 0 THEN <<>>
                       ELSE post[d - 1][storage[n].left]
                                \o post[d - 1][storage[n].right]
                                \o post[d - 1][storage[n].cond]
                                \o IF storage[n].kind = "LOAD" THEN <<n>>
                                   ELSE <<>>]]
  <1>9. IsPost(P)
    BY <1>8, Zenon DEF IsPost
  <1>10. LoadNodes(root) = P[MaxNodes][root]
    BY DEF LoadNodes
  <1> HIDE DEF P
  <1>11. \A d \in 0 .. MaxNodes :
             P[d] = [n \in 0 .. MaxNodes |->
                        IF d = 0 \/ n = 0 THEN <<>> ELSE Joined(P[d - 1], n)]
    BY <1>9 DEF IsPost, Joined, Own
  <1>12. P[0] = a
    BY <1>0, <1>11
  <1>13. \A d \in 1 .. MaxNodes : P[d] = Onwards(P[d - 1])
    <2> TAKE d \in 1 .. MaxNodes
    <2>1. d \in 0 .. MaxNodes /\ d # 0
      BY <1>0
    <2> QED
      BY <1>11, <2>1 DEF Onwards
  <1> DEFINE T == {d \in 0 .. MaxNodes : P[d] \in S}
  <1>14. 0 \in T
    BY <1>0, <1>1, <1>12
  <1>15. \A d \in 1 .. MaxNodes : d - 1 \in T => d \in T
    BY <1>2, <1>13
  <1> HIDE DEF T
  <1>16. 0 .. MaxNodes \subseteq T
    BY <1>0, <1>14, <1>15, BoundedInduction
  <1>17. P \in [0 .. MaxNodes -> S]
    <2>1. \A d \in 0 .. MaxNodes : P[d] \in S
      BY <1>16 DEF T
    <2>2. DOMAIN P = 0 .. MaxNodes /\ P = [d \in DOMAIN P |-> P[d]]
      BY <1>9 DEF IsPost
    <2> QED
      BY <2>1, <2>2
  <1>18. /\ P \in [0 .. MaxNodes -> Lists]
         /\ \A d \in 0 .. MaxNodes : P[d][0] = <<>>
    BY <1>17
  <1>19. \A d \in 1 .. MaxNodes : \A n \in Nodes : P[d][n] = Joined(P[d - 1], n)
    <2> TAKE d \in 1 .. MaxNodes
    <2> TAKE n \in Nodes
    <2>1. n \in 0 .. MaxNodes /\ n # 0
      BY <1>0 DEF Nodes
    <2>2. P[d] = Onwards(P[d - 1])
      BY <1>13
    <2> QED
      BY <2>1, <2>2 DEF Onwards
  <1>20. \A n \in 0 .. MaxNodes : P[0][n] = <<>>
    BY <1>12
  <1> HIDE DEF a, S
  <1>21. IsListing(P, root)
    BY <1>0, <1>10, <1>18, <1>19, <1>20 DEF IsListing
  <1> QED
    BY <1>21

LoadKind == {n \in Nodes : storage[n].kind = "LOAD"}

\* The analysis lists the LOAD nodes below the root, and no others.
LEMMA LoadsBelow ==
    ASSUME TypeOK, NEW root \in Nodes
    PROVE  /\ LoadNodes(root) \in Seq(Nodes)
           /\ Elems(LoadNodes(root)) = Below(root, Followed) \cap LoadKind
  <1>0. /\ MaxNodes \in Nat \ {0} /\ root \in 0 .. MaxNodes /\ 0 \in 0 .. MaxNodes
        /\ MaxNodes \in 0 .. MaxNodes /\ MaxNodes \in 1 .. MaxNodes
        /\ \A n \in Nodes : n \in 0 .. MaxNodes /\ n # 0
    BY PoolAssumption DEF Nodes
  <1>1. Followed \in Edges
    BY FollowedEdges
  <1>2. PICK L : IsBelow(L, root, Followed)
    BY <1>0, <1>1, LevelsExist
  <1>3. PICK P : IsListing(P, root)
    BY ListingExists
  <1> DEFINE B == Below(root, Followed)
             R(d, n) == Elems(P[d][n])
  <1>4. \A n : Elems(Own(n)) = IF storage[n].kind = "LOAD" THEN {n} ELSE {}
    BY DEF Elems, Own
  <1>5. Elems(<<>>) = {}
    BY DEF Elems
  <1>6. /\ \A n \in 0 .. MaxNodes : R(0, n) = {}
        /\ \A d \in 1 .. MaxNodes : R(d, 0) = {}
    BY <1>3, <1>5 DEF IsListing
  <1>7. ASSUME NEW d \in 1 .. MaxNodes, NEW n \in Nodes
        PROVE  R(d, n) = (UNION {R(d - 1, m) : m \in Followed[n]})
                             \cup (IF storage[n].kind = "LOAD" THEN {n} ELSE {})
    <2>1. d - 1 \in 0 .. MaxNodes
      BY <1>0
    <2>2. P[d - 1] \in Lists /\ P[d][n] = Joined(P[d - 1], n)
      BY <1>3, <2>1 DEF IsListing
    <2>3. P[d - 1][0] = <<>>
      <3>1. d - 1 = 0 \/ d - 1 \in 1 .. MaxNodes
        BY <1>0
      <3> QED
        BY <1>0, <1>3, <3>1 DEF IsListing
    <2>4. PICK p \in Lists : p = P[d - 1]
      BY <2>2
    <2>5. Elems(Joined(p, n)) =
              (UNION {Elems(p[m]) : m \in Followed[n]}) \cup Elems(Own(n))
      BY <2>3, <2>4, JoinedIs
    <2> QED
      BY <1>4, <2>2, <2>4, <2>5
  <1> HIDE DEF R
  <1>8. \A n \in B : n \in Nodes /\ Followed[n] \subseteq B
    BY <1>1, BelowClosed
  <1>9. R(MaxNodes, root) \subseteq B \cap LoadKind
    <2> DEFINE T == {d \in 0 .. MaxNodes :
                         \A n \in B : R(d, n) \subseteq B \cap LoadKind}
    <2>1. 0 \in T
      BY <1>0, <1>6, <1>8
    <2>2. ASSUME NEW d \in 1 .. MaxNodes, d - 1 \in T PROVE d \in T
      <3>1. SUFFICES ASSUME NEW n \in B PROVE R(d, n) \subseteq B \cap LoadKind
        BY <1>0
      <3>2. n \in Nodes /\ \A m \in Followed[n] : R(d - 1, m) \subseteq B \cap LoadKind
        BY <1>8, <2>2
      <3>3. storage[n].kind = "LOAD" => n \in B \cap LoadKind
        BY <3>2 DEF LoadKind
      <3> HIDE DEF B
      <3> QED
        BY <1>7, <3>2, <3>3
    <2> HIDE DEF T
    <2>3. \A d \in 1 .. MaxNodes : d - 1 \in T => d \in T
      BY <2>2
    <2>4. 0 .. MaxNodes \subseteq T
      BY <1>0, <2>1, <2>3, BoundedInduction
    <2>5. MaxNodes \in T /\ root \in B
      BY <1>0, <1>1, <2>4, RootBelow
    <2> HIDE DEF B
    <2> QED
      BY <2>5 DEF T
  <1>10. \A d \in 1 .. MaxNodes : \A n \in Nodes : R(d - 1, n) \subseteq R(d, n)
    <2> DEFINE T == {d \in 0 .. MaxNodes :
                        d = 0 \/ \A n \in Nodes : R(d - 1, n) \subseteq R(d, n)}
    <2>1. 0 \in T
      BY <1>0
    <2>2. ASSUME NEW d \in 1 .. MaxNodes, d - 1 \in T PROVE d \in T
      <3>1. SUFFICES ASSUME NEW n \in Nodes PROVE R(d - 1, n) \subseteq R(d, n)
        BY <1>0
      <3>2. CASE d = 1
        <4>1. R(d - 1, n) = {}
          BY <1>0, <1>6, <3>2
        <4> QED
          BY <4>1
      <3>3. CASE d # 1
        <4>1. d - 1 \in 1 .. MaxNodes /\ d - 1 # 0
          BY <1>0, <3>3
        <4>2. \A m \in Nodes : R(d - 1 - 1, m) \subseteq R(d - 1, m)
          BY <2>2, <4>1
        <4>3. Followed[n] \subseteq Nodes
          BY <1>1 DEF Edges
        <4>4. R(d - 1, n) = (UNION {R(d - 1 - 1, m) : m \in Followed[n]})
                  \cup (IF storage[n].kind = "LOAD" THEN {n} ELSE {})
          BY <1>7, <4>1
        <4>5. R(d, n) = (UNION {R(d - 1, m) : m \in Followed[n]})
                  \cup (IF storage[n].kind = "LOAD" THEN {n} ELSE {})
          BY <1>7
        <4> QED
          BY <4>2, <4>3, <4>4, <4>5
      <3> QED
        BY <3>2, <3>3
    <2> HIDE DEF T
    <2>3. \A d \in 1 .. MaxNodes : d - 1 \in T => d \in T
      BY <2>2
    <2>4. 0 .. MaxNodes \subseteq T
      BY <1>0, <2>1, <2>3, BoundedInduction
    <2>5. ASSUME NEW d \in 1 .. MaxNodes
          PROVE  \A n \in Nodes : R(d - 1, n) \subseteq R(d, n)
      <3>1. d \in 0 .. MaxNodes /\ d # 0
        BY <1>0
      <3> QED
        BY <2>4, <3>1 DEF T
    <2> QED
      BY <2>5
  <1>11. B \cap LoadKind \subseteq R(MaxNodes, root)
    <2> DEFINE T == {e \in 0 .. MaxNodes :
                         \A m \in L[e] :
                             R(MaxNodes - e, m) \subseteq R(MaxNodes, root)}
    <2>1. 0 \in T
      BY <1>0, <1>2 DEF IsBelow
    <2>2. ASSUME NEW e \in 1 .. MaxNodes, e - 1 \in T PROVE e \in T
      <3>1. SUFFICES ASSUME NEW m \in L[e]
                     PROVE  R(MaxNodes - e, m) \subseteq R(MaxNodes, root)
        BY <1>0
      <3>2. /\ L[e] = L[e - 1] \cup Onward(Followed, L[e - 1])
            /\ L[e - 1] \subseteq Nodes
        BY <1>0, <1>2 DEF IsBelow
      <3>3. /\ MaxNodes - (e - 1) \in 1 .. MaxNodes
            /\ MaxNodes - (e - 1) - 1 = MaxNodes - e
        BY <1>0
      <3>4. \A k \in L[e - 1] :
                R(MaxNodes - (e - 1), k) \subseteq R(MaxNodes, root)
        BY <2>2
      <3>5. CASE m \in L[e - 1]
        <4>1. R(MaxNodes - (e - 1) - 1, m) \subseteq R(MaxNodes - (e - 1), m)
          BY <1>10, <3>2, <3>3, <3>5
        <4> QED
          BY <3>3, <3>4, <3>5, <4>1
      <3>6. CASE m \in Onward(Followed, L[e - 1])
        <4>1. PICK k \in L[e - 1] : m \in Followed[k]
          BY <3>6 DEF Onward
        <4>2. R(MaxNodes - (e - 1) - 1, m) \subseteq R(MaxNodes - (e - 1), k)
          BY <1>7, <3>2, <3>3, <4>1
        <4> QED
          BY <3>3, <3>4, <4>1, <4>2
      <3> QED
        BY <3>1, <3>2, <3>5, <3>6
    <2> HIDE DEF T
    <2>3. \A e \in 1 .. MaxNodes : e - 1 \in T => e \in T
      BY <2>2
    <2>4. 0 .. MaxNodes \subseteq T
      BY <1>0, <2>1, <2>3, BoundedInduction
    <2>5. MaxNodes - 1 \in T /\ MaxNodes - (MaxNodes - 1) = 1
      BY <1>0, <2>4
    <2>6. B = L[MaxNodes - 1]
      BY <1>1, <1>2, LevelsEnd DEF IsBelow
    <2>7. ASSUME NEW n \in B \cap LoadKind PROVE n \in R(MaxNodes, root)
      <3>1. n \in Nodes /\ storage[n].kind = "LOAD" /\ 1 \in 1 .. MaxNodes
        BY <1>0, <2>7 DEF LoadKind
      <3>2. n \in R(1, n)
        BY <1>7, <3>1
      <3>3. R(1, n) \subseteq R(MaxNodes, root)
        BY <2>5, <2>6, <2>7 DEF T
      <3> QED
        BY <3>2, <3>3
    <2> QED
      BY <2>7
  <1>12. LoadNodes(root) = P[MaxNodes][root] /\ P[MaxNodes][root] \in Seq(Nodes)
    BY <1>0, <1>3 DEF IsListing, Lists
  <1> HIDE DEF B
  <1> QED
    BY <1>9, <1>11, <1>12 DEF R, B

-----------------------------------------------------------------------------
(* How fields are numbered.                                                *)

\* What the recursion of Dedup computes.
Dedups(d, s) ==
    d = [n \in 0 .. Len(s) |->
            IF n = 0 THEN <<>> ELSE IR!AppendNew(d[n - 1], s[n])]

\* t has the elements of A, each once.
ListsOnce(t, A) ==
    /\ Elems(t) = A
    /\ \A j, k \in DOMAIN t : t[j] = t[k] => j = k

LEMMA AppendNewIs ==
    ASSUME NEW S, NEW t \in Seq(S), NEW x \in S, NEW A, ListsOnce(t, A)
    PROVE  /\ IR!AppendNew(t, x) \in Seq(S)
           /\ ListsOnce(IR!AppendNew(t, x), A \cup {x})
  <1>0. DOMAIN t = 1 .. Len(t) /\ Len(t) \in Nat
    OBVIOUS
  <1>1. IR!Contains(t, x) <=> x \in A
    BY <1>0 DEF IR!Contains, ListsOnce, Elems
  <1>2. CASE x \in A
    <2>1. IR!AppendNew(t, x) = t /\ A \cup {x} = A
      BY <1>1, <1>2 DEF IR!AppendNew
    <2> QED
      BY <2>1
  <1>3. CASE x \notin A
    <2> DEFINE u == Append(t, x)
    <2>1. IR!AppendNew(t, x) = u
      BY <1>1, <1>3 DEF IR!AppendNew
    <2>2. /\ u \in Seq(S) /\ DOMAIN u = 1 .. Len(t) + 1
          /\ \A k \in 1 .. Len(t) : u[k] = t[k]
          /\ u[Len(t) + 1] = x
      OBVIOUS
    <2> HIDE DEF u
    <2>3. \A k \in 1 .. Len(t) : t[k] \in A /\ t[k] # x
      BY <1>0, <1>3 DEF ListsOnce, Elems
    <2>4. \A k \in 1 .. Len(t) + 1 : k \in 1 .. Len(t) \/ k = Len(t) + 1
      BY <1>0
    <2>5. Elems(u) \subseteq A \cup {x}
      BY <2>2, <2>3, <2>4 DEF Elems
    <2>6. A \cup {x} \subseteq Elems(u)
      <3>1. x \in Elems(u)
        <4>1. Len(t) + 1 \in DOMAIN u
          BY <1>0, <2>2
        <4> QED
          BY <2>2, <4>1 DEF Elems
      <3>2. ASSUME NEW y \in A PROVE y \in Elems(u)
        <4>1. PICK k \in 1 .. Len(t) : t[k] = y
          BY <1>0 DEF ListsOnce, Elems
        <4>2. k \in DOMAIN u
          BY <1>0, <2>2
        <4> QED
          BY <2>2, <4>1, <4>2 DEF Elems
      <3> QED
        BY <3>1, <3>2
    <2>7. ASSUME NEW j \in DOMAIN u, NEW k \in DOMAIN u, u[j] = u[k]
          PROVE  j = k
      <3>1. CASE j \in 1 .. Len(t) /\ k \in 1 .. Len(t)
        BY <1>0, <2>2, <2>7, <3>1 DEF ListsOnce
      <3>2. CASE j = Len(t) + 1 \/ k = Len(t) + 1
        BY <2>2, <2>3, <2>4, <2>7, <3>2
      <3> QED
        BY <2>2, <2>4, <3>1, <3>2
    <2> QED
      BY <2>1, <2>2, <2>5, <2>6, <2>7 DEF ListsOnce
  <1> QED
    BY <1>2, <1>3

LEMMA DedupsExist ==
    ASSUME NEW S, NEW s \in Seq(S)
    PROVE  \E d : Dedups(d, s)
  <1> DEFINE N == Len(s)
             add(n) == [t \in Seq(S) |-> IR!AppendNew(t, s[n])]
             step == [n \in 1 .. N |-> add(n)]
  <1>1. N \in Nat /\ <<>> \in Seq(S) /\ \A n \in 1 .. N : s[n] \in S
    OBVIOUS
  <1>2. ASSUME NEW n \in 1 .. N
        PROVE  /\ add(n) \in [Seq(S) -> Seq(S)]
               /\ \A t \in Seq(S) : add(n)[t] = IR!AppendNew(t, s[n])
    <2>1. \A t \in Seq(S) : IR!AppendNew(t, s[n]) \in Seq(S)
      BY <1>1 DEF IR!AppendNew
    <2> QED
      BY <2>1
  <1> HIDE DEF N, add
  <1>3. /\ step \in [1 .. N -> [Seq(S) -> Seq(S)]]
        /\ \A n \in 1 .. N : step[n] = add(n)
    BY <1>2
  <1> HIDE DEF step
  <1>4. PICK f : IsIterated(f, N, Seq(S), <<>>, step)
    BY <1>1, <1>3, Iteration
  <1>5. f \in [0 .. N -> Seq(S)] /\ f[0] = <<>>
    BY <1>4 DEF IsIterated
  <1>6. \A n \in 1 .. N : f[n] = IR!AppendNew(f[n - 1], s[n])
    <2> TAKE n \in 1 .. N
    <2>1. n - 1 \in 0 .. N
      BY <1>1
    <2>2. f[n] = step[n][f[n - 1]] /\ f[n - 1] \in Seq(S)
      BY <1>4, <1>5, <2>1 DEF IsIterated
    <2> QED
      BY <1>2, <1>3, <2>2
  <1>7. \A n \in 0 .. N :
            f[n] = IF n = 0 THEN <<>> ELSE IR!AppendNew(f[n - 1], s[n])
    <2>1. \A n \in 0 .. N : n = 0 \/ n \in 1 .. N
      BY <1>1
    <2> QED
      BY <1>5, <1>6, <2>1, Zenon
  <1>8. f = [n \in 0 .. N |-> f[n]]
    BY <1>5
  <1> QED
    BY <1>7, <1>8 DEF Dedups, N

\* Dedup keeps every element, and each once.
LEMMA DedupIs ==
    ASSUME NEW S, NEW s \in Seq(S)
    PROVE  /\ IR!Dedup(s) \in Seq(S)
           /\ ListsOnce(IR!Dedup(s), Elems(s))
  <1> DEFINE d == CHOOSE d : d = [n \in 0 .. Len(s) |->
                      IF n = 0 THEN <<>> ELSE IR!AppendNew(d[n - 1], s[n])]
             A(n) == {s[k] : k \in 1 .. n}
             T == {n \in 0 .. Len(s) : d[n] \in Seq(S) /\ ListsOnce(d[n], A(n))}
  <1>1. IR!Dedup(s) = d[Len(s)]
    BY DEF IR!Dedup
  <1>2. Dedups(d, s)
    BY DedupsExist, Zenon DEF Dedups
  <1> HIDE DEF d
  <1>3. Len(s) \in Nat
    OBVIOUS
  <1>4. 0 \in T
    <2>1. d[0] = <<>>
      BY <1>2, <1>3 DEF Dedups
    <2>2. ListsOnce(<<>>, A(0))
      BY DEF ListsOnce, Elems
    <2>3. d[0] \in Seq(S) /\ ListsOnce(d[0], A(0))
      BY <2>1, <2>2
    <2> QED
      BY <1>3, <2>3
  <1>5. ASSUME NEW n \in 1 .. Len(s), n - 1 \in T PROVE n \in T
    <2>1. n \in 0 .. Len(s) /\ n # 0 /\ s[n] \in S
      BY <1>3
    <2>2. d[n] = IR!AppendNew(d[n - 1], s[n])
      BY <1>2, <2>1 DEF Dedups
    <2>3. d[n - 1] \in Seq(S) /\ ListsOnce(d[n - 1], A(n - 1))
      BY <1>5
    <2>4. A(n) = A(n - 1) \cup {s[n]}
      OBVIOUS
    <2> HIDE DEF A
    <2>5. d[n] \in Seq(S) /\ ListsOnce(d[n], A(n))
      BY <2>1, <2>2, <2>3, <2>4, AppendNewIs
    <2> QED
      BY <2>1, <2>5
  <1> HIDE DEF T
  <1>6. \A n \in 1 .. Len(s) : n - 1 \in T => n \in T
    BY <1>5
  <1>7. 0 .. Len(s) \subseteq T
    BY <1>3, <1>4, <1>6, BoundedInduction
  <1>8. Len(s) \in T
    BY <1>3, <1>7
  <1>9. A(Len(s)) = Elems(s)
    BY DEF Elems
  <1> HIDE DEF A
  <1> QED
    BY <1>1, <1>8, <1>9 DEF T

FieldNames == Names \cup {NoName}

\* The LOAD nodes of a tree.
LoadsUnder(root) == Below(root, Followed) \cap LoadKind

\* The index of a field is its place in the order.
LEMMA FieldOrderIs ==
    ASSUME TypeOK, NEW root \in Nodes
    PROVE  /\ FieldOrder(root) \in Seq(FieldNames)
           /\ \A n \in LoadsUnder(root) :
                  /\ FieldIndex(root, n) \in DOMAIN FieldOrder(root)
                  /\ FieldOrder(root)[FieldIndex(root, n)] = storage[n].name
  <1> DEFINE loads == LoadNodes(root)
             names == [k \in DOMAIN loads |-> storage[loads[k]].name]
  <1>1. loads \in Seq(Nodes) /\ Elems(loads) = LoadsUnder(root)
    BY LoadsBelow DEF LoadsUnder
  <1>2. FieldOrder(root) = IR!Dedup(names)
    BY DEF FieldOrder
  <1> HIDE DEF loads
  <1>3. /\ names \in Seq(FieldNames)
        /\ Elems(names) = {storage[n].name : n \in LoadsUnder(root)}
    <2>1. /\ DOMAIN loads = 1 .. Len(loads) /\ Len(loads) \in Nat
          /\ \A k \in DOMAIN loads : loads[k] \in Nodes
      BY <1>1
    <2>2. \A n \in Nodes : storage[n].name \in FieldNames
      BY DEF TypeOK, NodeStates, FieldNames
    <2>3. names \in [1 .. Len(loads) -> FieldNames]
      BY <2>1, <2>2
    <2>4. names \in Seq(FieldNames) /\ DOMAIN names = DOMAIN loads
      BY <2>1, <2>3
    <2>5. Elems(names) = {storage[n].name : n \in Elems(loads)}
      BY DEF Elems
    <2> QED
      BY <1>1, <2>4, <2>5
  <1> HIDE DEF names
  <1>4. PICK order \in Seq(FieldNames) :
            /\ order = FieldOrder(root)
            /\ ListsOnce(order, Elems(names))
    BY <1>2, <1>3, DedupIs
  <1>5. \A n \in LoadsUnder(root) :
            \E i \in DOMAIN order : order[i] = storage[n].name
    <2> TAKE n \in LoadsUnder(root)
    <2>1. storage[n].name \in Elems(order)
      BY <1>3, <1>4 DEF ListsOnce
    <2> QED
      BY <2>1 DEF Elems
  <1>6. ASSUME NEW n \in LoadsUnder(root)
        PROVE  /\ FieldIndex(root, n) \in DOMAIN order
               /\ order[FieldIndex(root, n)] = storage[n].name
    <2>1. FieldIndex(root, n) =
              CHOOSE i \in DOMAIN order : order[i] = storage[n].name
      BY <1>4 DEF FieldIndex
    <2> QED
      BY <1>5, <2>1
  <1> QED
    BY <1>4, <1>6

\* The nodes of the tree get their indices.
LEMMA NumberedIs ==
    ASSUME TypeOK, NEW root \in Nodes, NEW n \in LoadsUnder(root)
    PROVE  Numbered(root)[n] = FieldIndex(root, n)
  <1>1. /\ LoadNodes(root) \in Seq(Nodes)
        /\ n \in Elems(LoadNodes(root)) /\ n \in Nodes
    BY LoadsBelow DEF LoadsUnder, LoadKind
  <1>2. Contains(LoadNodes(root), n)
    <2>1. DOMAIN LoadNodes(root) = 1 .. Len(LoadNodes(root))
      BY <1>1
    <2> QED
      BY <1>1, <2>1 DEF Elems, Contains
  <1> QED
    BY <1>1, <1>2 DEF Numbered

-----------------------------------------------------------------------------
(* The invariant of the two walks.                                         *)

\* Nodes below root with one number have one name.
NumbersAre(root) ==
    \A n, m \in LoadsUnder(root) :
        field_idx[n] = field_idx[m] => storage[n].name = storage[m].name

\* Between its walks a caller has a numbered tree, and once it has a kernel the
\* numbers are still those the kernel was made with.
Intact(c) ==
    setter[c].st \in Underway =>
        \E root \in Nodes :
            /\ root = setter[c].root
            /\ NumbersAre(root)
            /\ setter[c].st = "compiled" => setter[c].kernel = NamesRead(root)

\* That holds of the callers nobody interfered with.
CompiledInv == \A c \in Callers \ interfered : Intact(c)

\* Before the first reset a node has no pointer but those of its kind.
FirstUse ==
    epoch = 0 =>
        \A n \in Nodes :
            /\ n > next_idx => storage[n] = Blank
            /\ storage[n].kind # "SELECT" => storage[n].cond = 0

WalkInv == IInv /\ AnalysisEnds /\ FirstUse /\ CompiledInv /\ FieldsMatchKernel

\* Before the first reset both walks follow the same pointers.
LEMMA SameEdges == ASSUME FirstUse, epoch = 0 PROVE Followed = CollectFollowed
  <1>1. ASSUME NEW n \in Nodes
        PROVE  {storage[n].left, storage[n].right, storage[n].cond} \ {0} =
                   ({storage[n].left, storage[n].right} \cup
                       (IF storage[n].kind = "SELECT" THEN {storage[n].cond}
                        ELSE {})) \ {0}
    BY DEF FirstUse
  <1> QED
    BY <1>1 DEF Followed, CollectFollowed

\* What collect_fields stores.
LEMMA CollectedFits ==
    ASSUME TypeOK, FirstUse, NEW root \in Nodes, NumbersAre(root),
           NEW i \in 1 .. MaxFields
    PROVE  /\ \A x, y \in NamesRead(root)[i] : x = y
           /\ Collected(root)[i] \subseteq NamesRead(root)[i]
           /\ epoch = 0 => Collected(root)[i] = NamesRead(root)[i]
  <1>1. Followed \in Edges /\ CollectFollowed \in Edges
    BY FollowedEdges
  <1>2. \A n \in Nodes : CollectFollowed[n] \subseteq Followed[n]
    BY DEF Followed, CollectFollowed
  <1>3. \A n \in Below(root, Followed) : n \in Nodes
    BY <1>1, BelowClosed
  <1>4. Below(root, CollectFollowed) \subseteq Below(root, Followed)
    BY <1>1, <1>2, <1>3, BelowMonotone
  <1>5. NamesRead(root)[i] =
            {storage[n].name : n \in {m \in LoadsUnder(root) : field_idx[m] = i}}
    BY <1>3 DEF NamesRead, InSlots, LoadsUnder, LoadKind
  <1>6. \A x, y \in NamesRead(root)[i] : x = y
    BY <1>5 DEF NumbersAre
  <1>7. Collected(root)[i] \subseteq NamesRead(root)[i]
    BY <1>4 DEF Collected, NamesRead, InSlots
  <1>8. epoch = 0 => Collected(root) = NamesRead(root)
    BY SameEdges DEF Collected, NamesRead
  <1> QED
    BY <1>6, <1>7, <1>8

\* A change of other nodes leaves the numbers below root right.
LEMMA NumbersKept ==
    ASSUME TypeOK, TypeOK', NEW root \in Nodes,
           \A n \in Below(root, Followed) :
               storage'[n] = storage[n] /\ field_idx'[n] = field_idx[n]
    PROVE  /\ NumbersAre(root) => NumbersAre(root)'
           /\ NamesRead(root)' = NamesRead(root)
  <1>1. Followed \in Edges /\ Followed' \in Edges
    <2>1. Followed \in Edges
      BY FollowedEdges
    <2>2. (TypeOK => Followed \in Edges)'
      BY FollowedEdges, PTL
    <2> QED
      BY <2>1, <2>2 DEF Edges
  <1>2. \A n \in Below(root, Followed) : n \in Nodes
    BY <1>1, BelowClosed
  <1>3. \A n \in Below(root, Followed) : Followed'[n] = Followed[n]
    BY <1>2 DEF Followed
  <1>4. Below(root, Followed') = Below(root, Followed)
    BY <1>1, <1>3, BelowKept
  <1>5. LoadsUnder(root)' = LoadsUnder(root)
    BY <1>2, <1>4 DEF LoadsUnder, LoadKind, Below
  <1>6. \A n \in LoadsUnder(root) :
            storage'[n] = storage[n] /\ field_idx'[n] = field_idx[n]
    BY DEF LoadsUnder
  <1>7. NumbersAre(root) => NumbersAre(root)'
    BY <1>5, <1>6 DEF NumbersAre
  <1> DEFINE Carrying(i) ==
                 {m \in Below(root, Followed) :
                      storage[m].kind = "LOAD" /\ field_idx[m] = i}
             names == [i \in 1 .. MaxFields |->
                          {storage'[n].name : n \in Carrying(i)}]
  <1>8. NamesRead(root)' = names
    <2>1. Below(root, Followed)' = Below(root, Followed)
      BY <1>4 DEF Below
    <2>2. \A i : {m \in Below(root, Followed) :
                     storage'[m].kind = "LOAD" /\ field_idx'[m] = i} = Carrying(i)
      OBVIOUS
    <2>3. NamesRead(root)' =
              [i \in 1 .. MaxFields |->
                  {storage'[n].name :
                      n \in {m \in Below(root, Followed) :
                                storage'[m].kind = "LOAD" /\ field_idx'[m] = i}}]
      BY <2>1 DEF NamesRead, InSlots
    <2> HIDE DEF Carrying
    <2> QED
      BY <2>2, <2>3
  <1>9. \A i : {storage'[n].name : n \in Carrying(i)} =
                   {storage[n].name : n \in Carrying(i)}
    OBVIOUS
  <1>10. NamesRead(root)' = NamesRead(root)
    <2>1. NamesRead(root) =
              [i \in 1 .. MaxFields |-> {storage[n].name : n \in Carrying(i)}]
      BY DEF NamesRead, InSlots
    <2> HIDE DEF Carrying
    <2> QED
      BY <1>8, <1>9, <2>1
  <1> QED
    BY <1>7, <1>10

\* In a pool that stays as it is so does what a caller has.
LEMMA IntactKept ==
    ASSUME UNCHANGED <<storage, field_idx>>, NEW c, setter'[c] = setter[c],
           Intact(c)
    PROVE  Intact(c)'
  <1>1. LoadKind' = LoadKind /\ Followed' = Followed
    BY DEF LoadKind, Followed
  <1>2. \A root : LoadsUnder(root)' = LoadsUnder(root)
    BY <1>1 DEF LoadsUnder, Below
  <1>3. \A root : NumbersAre(root)' <=> NumbersAre(root)
    BY <1>2 DEF NumbersAre
  <1>4. \A root : Below(root, Followed)' = Below(root, Followed)
    BY <1>1 DEF Below
  <1>5. \A root : NamesRead(root)' = NamesRead(root)
    BY <1>4 DEF NamesRead, InSlots
  <1> QED
    BY <1>3, <1>5 DEF Intact

\* Pools begin in the invariant.
LEMMA InitWalkInv == Init => WalkInv
  <1> SUFFICES ASSUME Init PROVE WalkInv
    OBVIOUS
  <1>1. \A c \in Callers : setter[c].st = "idle"
    BY DEF Init, Unset
  <1>2. \A n \in Nodes : storage[n] = Blank
    BY DEF Init
  <1>3. Blank.cond = 0
    BY DEF Blank
  <1> QED
    BY <1>1, <1>2, <1>3, InitIInv
    DEF WalkInv, AnalysisEnds, FirstUse, CompiledInv, Intact, Underway,
        FieldsMatchKernel, Init

\* What a builder makes: of another caller's tree nothing, if it is to stay.
LEMMA BuiltWalks ==
    ASSUME WalkInv, IInv', ~Full, ~diverged, Returned, NEW node,
           storage' = [storage EXCEPT ![NextNode] = node],
           epoch = 0 /\ storage[NextNode] = Blank /\ node.kind # "SELECT"
               => node.cond = 0
    PROVE  WalkInv'
  <1>1. TypeOK /\ TypeOK'
    BY DEF WalkInv, IInv
  <1>2. /\ next_idx \in Nat /\ NextNode = next_idx + 1
        /\ NextNode \in Nodes /\ next_idx' = next_idx + 1
        /\ storage'[NextNode] = node
        /\ \A n \in Nodes : n # NextNode => storage'[n] = storage[n]
        /\ Nodes \subseteq Nat
    BY <1>1, PoolAssumption DEF TypeOK, Full, NextNode, Nodes, Returned
  <1>3. UNCHANGED <<field_idx, epoch, setter, diverged, calls>>
    BY DEF Returned
  <1>4. interfered' = interfered \cup
            {c \in Callers : setter[c].st \in Underway
                                /\ NextNode \in Below(setter[c].root, Followed)}
    BY DEF Returned
  <1>5. AnalysisEnds'
    BY <1>3 DEF AnalysisEnds
  <1>6. FirstUse'
    <2>1. SUFFICES ASSUME epoch = 0, NEW n \in Nodes
                   PROVE  /\ n > next_idx + 1 => storage'[n] = Blank
                          /\ storage'[n].kind # "SELECT" => storage'[n].cond = 0
      BY <1>2, <1>3 DEF FirstUse
    <2>2. CASE n = NextNode
      <3>1. storage[n] = Blank
        BY <1>2, <2>1, <2>2 DEF WalkInv, FirstUse
      <3> QED
        BY <1>2, <2>1, <2>2, <3>1
    <2>3. CASE n # NextNode
      <3>1. n > next_idx + 1 => n > next_idx
        BY <1>2
      <3> QED
        BY <1>2, <2>1, <2>3, <3>1 DEF WalkInv, FirstUse
    <2> QED
      BY <2>2, <2>3
  <1>7. CompiledInv'
    <2>1. SUFFICES ASSUME NEW c \in Callers, c \notin interfered',
                          setter[c].st \in Underway
                   PROVE  Intact(c)'
      BY <1>3 DEF CompiledInv, Intact
    <2>2. c \notin interfered /\ NextNode \notin Below(setter[c].root, Followed)
      BY <1>4, <2>1
    <2>3. PICK root \in Nodes :
              /\ root = setter[c].root
              /\ NumbersAre(root)
              /\ setter[c].st = "compiled" => setter[c].kernel = NamesRead(root)
      BY <2>1, <2>2 DEF WalkInv, CompiledInv, Intact
    <2>4. \A n \in Below(root, Followed) :
              storage'[n] = storage[n] /\ field_idx'[n] = field_idx[n]
      <3>1. \A n \in Below(root, Followed) : n \in Nodes /\ n # NextNode
        BY <1>1, <2>2, <2>3, BelowClosed, FollowedEdges
      <3> QED
        BY <1>2, <1>3, <3>1
    <2>5. NumbersAre(root)' /\ NamesRead(root)' = NamesRead(root)
      BY <1>1, <2>3, <2>4, NumbersKept
    <2> QED
      BY <1>3, <2>3, <2>5 DEF Intact
  <1>8. FieldsMatchKernel'
    BY <1>3, <1>4 DEF WalkInv, FieldsMatchKernel
  <1> QED
    BY <1>5, <1>6, <1>7, <1>8 DEF WalkInv

\* Steps of the pool that change no node.
LEMMA PoolWalks ==
    ASSUME WalkInv, IInv',
           UNCHANGED <<storage, field_idx, setter, diverged, usedStale,
                       interfered>>,
           \/ epoch' = epoch /\ next_idx' = next_idx
           \/ epoch' # 0
    PROVE  WalkInv'
  <1>4. CompiledInv'
    BY IntactKept DEF WalkInv, CompiledInv
  <1>5. FieldsMatchKernel'
    BY DEF WalkInv, FieldsMatchKernel
  <1>6. FirstUse'
    BY DEF WalkInv, FirstUse, Blank
  <1>7. AnalysisEnds'
    BY DEF WalkInv, AnalysisEnds
  <1> QED
    BY <1>4, <1>5, <1>6, <1>7 DEF WalkInv

\* LOAD and the builders of the other kinds keep the invariant.
LEMMA LoadWalks ==
    ASSUME WalkInv, ~diverged, NEW name \in Names, Load(name)
    PROVE  WalkInv'
  <1>1. IInv' /\ ~Full /\ Returned
    BY LoadStep DEF WalkInv, Load
  <1>2. PICK node : node = [Assigned(storage[NextNode], "LOAD", <<>>)
                               EXCEPT !.name = name]
    OBVIOUS
  <1>3. storage' = [storage EXCEPT ![NextNode] = node]
    BY <1>2 DEF Load
  <1>4. node = [kind |-> "LOAD", name |-> name,
                left |-> storage[NextNode].left,
                right |-> storage[NextNode].right,
                cond |-> storage[NextNode].cond]
    BY <1>2, OperandsFacts DEF Assigned
  <1>5. storage[NextNode] = Blank => node.cond = 0
    BY <1>4 DEF Blank
  <1> QED
    BY <1>1, <1>3, <1>5, BuiltWalks

LEMMA BuildWalks ==
    ASSUME WalkInv, ~diverged, NEW kind \in BuiltKinds, Build(kind)
    PROVE  WalkInv'
  <1>1. IInv' /\ ~Full /\ Returned
    BY BuildStep DEF WalkInv, Build
  <1>2. PICK args \in [Operands(kind) -> handles] :
            storage' = [storage EXCEPT ![NextNode] =
                Assigned(@, kind, [p \in Operands(kind) |-> args[p].node])]
    BY DEF Build
  <1>3. PICK node :
            node = Assigned(storage[NextNode], kind,
                            [p \in Operands(kind) |-> args[p].node])
    OBVIOUS
  <1>4. storage' = [storage EXCEPT ![NextNode] = node]
    BY <1>2, <1>3
  <1>5. kind \in {"NOT", "GT", "SELECT"}
    BY PoolAssumption
  <1>6. kind # "SELECT" => "cond" \notin Operands(kind)
    BY <1>5, OperandsFacts
  <1>7. /\ node.kind = kind
        /\ kind # "SELECT" => node.cond = storage[NextNode].cond
    BY <1>3, <1>6 DEF Assigned
  <1>8. storage[NextNode] = Blank /\ node.kind # "SELECT" => node.cond = 0
    BY <1>7 DEF Blank
  <1> QED
    BY <1>1, <1>4, <1>8, BuiltWalks

\* What a caller does to the walks of the others, and of its own: compiling
\* numbers its tree, and interferes with whoever is between two walks.
LEMMA NumberWalks ==
    ASSUME WalkInv, IInv', NEW c \in Callers, NEW root \in 0 .. MaxNodes,
           Number(c, root)
    PROVE  WalkInv'
  <1>1. /\ TypeOK /\ root \in Nodes
        /\ UNCHANGED <<storage, next_idx, epoch, handles, diverged, usedStale>>
        /\ field_idx' = Numbered(root)
        /\ interfered' = (interfered \ {c}) \cup Between(c)
    BY PoolAssumption DEF WalkInv, IInv, Number, Nodes
  <1>2. PICK kept : kept = [st |-> "numbered", root |-> root, kernel |-> <<>>,
                            fields |-> <<>>]
    OBVIOUS
  <1>3. /\ setter'[c] = kept
        /\ \A d \in Callers \ {c} : setter'[d] = setter[d]
    BY <1>1, <1>2 DEF Number, TypeOK
  <1>4. \A d \in Callers \ {c} :
            d \notin interfered' =>
                d \notin interfered /\ setter[d].st \notin Underway
    BY <1>1 DEF Between
  <1>5. NumbersAre(root)'
    <2>1. LoadKind' = LoadKind /\ Followed' = Followed
      BY <1>1 DEF LoadKind, Followed
    <2>2. LoadsUnder(root)' = LoadsUnder(root)
      BY <2>1 DEF LoadsUnder, Below
    <2>3. \A n \in LoadsUnder(root) :
              FieldOrder(root)[field_idx'[n]] = storage'[n].name
      BY <1>1, NumberedIs, FieldOrderIs
    <2> QED
      BY <2>2, <2>3 DEF NumbersAre
  <1>6. CompiledInv'
    <2>1. SUFFICES ASSUME NEW d \in Callers, d \notin interfered'
                   PROVE  Intact(d)'
      BY DEF CompiledInv
    <2>2. CASE d = c
      BY <1>1, <1>2, <1>3, <1>5, <2>2 DEF Intact
    <2>3. CASE d # c
      BY <1>3, <1>4, <2>1, <2>3 DEF Intact
    <2> QED
      BY <2>2, <2>3
  <1>7. FieldsMatchKernel'
    <2>1. SUFFICES ASSUME NEW d \in Callers, d \notin interfered',
                          setter'[d].st = "set"
                   PROVE  d \notin interfered /\ setter'[d] = setter[d]
      BY <1>1 DEF WalkInv, FieldsMatchKernel
    <2>2. d # c
      BY <1>2, <1>3, <2>1
    <2> QED
      BY <1>3, <1>4, <2>1, <2>2
  <1>8. FirstUse' /\ AnalysisEnds'
    BY <1>1 DEF WalkInv, FirstUse, AnalysisEnds, Blank
  <1> QED
    BY <1>6, <1>7, <1>8 DEF WalkInv

\* The kernel is made with the numbers the tree has.
LEMMA EmitWalks ==
    ASSUME WalkInv, IInv', NEW c \in Callers, Emit(c)
    PROVE  WalkInv'
  <1>1. /\ TypeOK /\ setter[c].st = "numbered"
        /\ UNCHANGED <<storage, field_idx, epoch, next_idx, diverged, usedStale>>
    BY DEF WalkInv, IInv, Emit, pool
  <1>2. /\ \A d \in Callers \ {c} :
               /\ setter'[d] = setter[d]
               /\ d \notin interfered' => d \notin interfered
        /\ \/ /\ interfered' = interfered
              /\ setter'[c].st = "compiled"
              /\ setter'[c].root = setter[c].root
              /\ setter'[c].kernel = NamesRead(setter[c].root)
           \/ setter'[c].st = "idle"
    <2>1. CASE setter' = [setter EXCEPT ![c] = Unset]
                 /\ interfered' = interfered \ {c}
      <3>1. setter'[c] = Unset /\ \A d \in Callers \ {c} : setter'[d] = setter[d]
        BY <1>1, <2>1 DEF TypeOK
      <3> QED
        BY <2>1, <3>1 DEF Unset
    <2>2. CASE ~ (setter' = [setter EXCEPT ![c] = Unset]
                     /\ interfered' = interfered \ {c})
      <3>1. PICK x : x = [st |-> "compiled", root |-> setter[c].root,
                          kernel |-> NamesRead(setter[c].root), fields |-> <<>>]
        OBVIOUS
      <3>2. setter' = [setter EXCEPT ![c] = x] /\ interfered' = interfered
        BY <2>2, <3>1 DEF Emit, NamesRead
      <3>3. setter'[c] = x /\ \A d \in Callers \ {c} : setter'[d] = setter[d]
        BY <1>1, <3>2 DEF TypeOK
      <3> QED
        BY <3>1, <3>2, <3>3
    <2> QED
      BY <2>1, <2>2
  <1>3. CompiledInv'
    <2>1. SUFFICES ASSUME NEW d \in Callers, d \notin interfered'
                   PROVE  Intact(d)'
      BY DEF CompiledInv
    <2>2. CASE d # c
      BY <1>1, <1>2, <2>1, <2>2, IntactKept DEF WalkInv, CompiledInv
    <2>3. CASE d = c /\ setter'[c].st = "idle"
      BY <2>3 DEF Intact, Underway
    <2>4. CASE d = c /\ setter'[c].st # "idle"
      <3>1. PICK root \in Nodes : root = setter[c].root /\ NumbersAre(root)
        BY <1>1, <1>2, <2>1, <2>4 DEF WalkInv, CompiledInv, Intact, Underway
      <3>2. LoadKind' = LoadKind /\ Followed' = Followed
        BY <1>1 DEF LoadKind, Followed
      <3>3. LoadsUnder(root)' = LoadsUnder(root)
        BY <3>2 DEF LoadsUnder, Below
      <3>4. NumbersAre(root)'
        BY <1>1, <3>1, <3>3 DEF NumbersAre
      <3>5. Below(root, Followed)' = Below(root, Followed)
        BY <3>2 DEF Below
      <3>6. NamesRead(root)' = NamesRead(root)
        BY <1>1, <3>5 DEF NamesRead, InSlots
      <3> QED
        BY <1>2, <2>4, <3>1, <3>4, <3>6 DEF Intact
    <2> QED
      BY <2>2, <2>3, <2>4
  <1>4. FieldsMatchKernel'
    BY <1>1, <1>2 DEF WalkInv, FieldsMatchKernel
  <1>5. FirstUse' /\ AnalysisEnds'
    BY <1>1 DEF WalkInv, FirstUse, AnalysisEnds, Blank
  <1> QED
    BY <1>3, <1>4, <1>5 DEF WalkInv

\* So does a compilation given up, which numbers some nodes.
LEMMA RefusedWalks ==
    ASSUME WalkInv, IInv', NEW c \in Callers, NEW root, RefuseFields(c, root)
    PROVE  WalkInv'
  <1>1. /\ setter[c].st = "idle"
        /\ UNCHANGED <<storage, next_idx, epoch, setter, diverged, usedStale>>
        /\ interfered' = (interfered \ {c}) \cup Between(c)
    BY DEF RefuseFields
  <1>2. \A d \in Callers \ interfered' :
            /\ setter[d].st \notin Underway
            /\ setter[d].st = "set" => d \notin interfered
    BY <1>1 DEF Between, Underway
  <1>3. CompiledInv'
    BY <1>1, <1>2 DEF CompiledInv, Intact
  <1>4. FieldsMatchKernel'
    BY <1>1, <1>2 DEF WalkInv, FieldsMatchKernel
  <1>5. FirstUse' /\ AnalysisEnds'
    BY <1>1 DEF WalkInv, FirstUse, AnalysisEnds, Blank
  <1> QED
    BY <1>3, <1>4, <1>5 DEF WalkInv

\* A circle is met only below a node from before a reset.
LEMMA DivergingWalks ==
    ASSUME WalkInv, IInv', NEW c \in Callers, NEW root \in 0 .. MaxNodes,
           CompileDiverges(c, root)
    PROVE  WalkInv'
  <1>1. /\ UNCHANGED <<storage, field_idx, setter, usedStale, interfered, epoch,
                       next_idx>>
        /\ Circular(root)
    BY DEF CompileDiverges, pool, history
  <1>2. usedStale
    BY <1>1, NotCircular DEF WalkInv, IInv
  <1>6. CompiledInv'
    BY <1>1, IntactKept DEF WalkInv, CompiledInv
  <1>7. FieldsMatchKernel' /\ FirstUse'
    BY <1>1 DEF WalkInv, FieldsMatchKernel, FirstUse, Blank
  <1>8. AnalysisEnds'
    BY <1>1, <1>2 DEF AnalysisEnds
  <1> QED
    BY <1>6, <1>7, <1>8 DEF WalkInv

\* The second walk stores what the kernel reads; then the engine is free.
LEMMA CollectWalks ==
    ASSUME WalkInv, IInv', NEW c \in Callers, Collect(c) \/ Again(c)
    PROVE  WalkInv'
  <1>1. /\ TypeOK
        /\ UNCHANGED <<storage, field_idx, epoch, next_idx, diverged, usedStale>>
    BY DEF WalkInv, IInv, Collect, Again, pool, history
  <1>2. /\ \A d \in Callers \ {c} :
               /\ setter'[d] = setter[d]
               /\ d \notin interfered' => d \notin interfered
        /\ setter'[c].st \in {"set", "idle"}
        /\ setter'[c].st = "set" =>
               /\ c \notin interfered' => c \notin interfered
               /\ setter[c].st = "compiled"
               /\ setter'[c].kernel = setter[c].kernel
               /\ setter'[c].fields = Collected(setter[c].root)
    <2>1. CASE Collect(c)
      <3>1. PICK x : x = [st |-> "set", root |-> setter[c].root,
                          kernel |-> setter[c].kernel,
                          fields |-> Collected(setter[c].root)]
        OBVIOUS
      <3>2. /\ setter'[c] = x
            /\ \A d \in Callers \ {c} : setter'[d] = setter[d]
        BY <1>1, <2>1, <3>1 DEF Collect, TypeOK
      <3> QED
        BY <2>1, <3>1, <3>2 DEF Collect, history
    <2>2. CASE Again(c)
      <3>1. /\ setter'[c] = Unset /\ interfered' = interfered \ {c}
            /\ \A d \in Callers \ {c} : setter'[d] = setter[d]
        BY <1>1, <2>2 DEF Again, TypeOK
      <3> QED
        BY <3>1 DEF Unset
    <2> QED
      BY <2>1, <2>2
  <1>3. CompiledInv'
    <2>1. SUFFICES ASSUME NEW d \in Callers, d \notin interfered'
                   PROVE  Intact(d)'
      BY DEF CompiledInv
    <2>2. CASE d # c
      BY <1>1, <1>2, <2>1, <2>2, IntactKept DEF WalkInv, CompiledInv
    <2>3. CASE d = c
      BY <1>2, <2>3 DEF Intact, Underway
    <2> QED
      BY <2>2, <2>3
  <1>4. FieldsMatchKernel'
    <2>1. SUFFICES ASSUME NEW d \in Callers, d \notin interfered',
                          setter'[d].st = "set", NEW i \in 1 .. MaxFields
                   PROVE  LET read == setter'[d].kernel[i]
                              stored == setter'[d].fields[i]
                          IN  /\ \A x, y \in read : x = y
                              /\ stored \subseteq read
                              /\ epoch = 0 => stored = read
      BY <1>1 DEF FieldsMatchKernel
    <2>2. CASE d # c
      BY <1>2, <2>1, <2>2 DEF WalkInv, FieldsMatchKernel
    <2>3. CASE d = c
      <3>1. PICK root \in Nodes :
                /\ root = setter[c].root
                /\ NumbersAre(root)
                /\ setter[c].kernel = NamesRead(root)
        BY <1>2, <2>1, <2>3 DEF WalkInv, CompiledInv, Intact, Underway
      <3> QED
        BY <1>1, <1>2, <2>1, <2>3, <3>1, CollectedFits DEF WalkInv
    <2> QED
      BY <2>2, <2>3
  <1>5. FirstUse' /\ AnalysisEnds'
    BY <1>1 DEF WalkInv, FirstUse, AnalysisEnds, Blank
  <1> QED
    BY <1>3, <1>4, <1>5 DEF WalkInv

\* The invariant is inductive.
LEMMA WalkStep == WalkInv /\ [Next]_vars => WalkInv'
  <1> SUFFICES ASSUME WalkInv, [Next]_vars PROVE WalkInv'
    OBVIOUS
  <1>1. IInv'
    BY Inductive DEF WalkInv
  <1>2. CASE UNCHANGED vars
    BY <1>1, <1>2, PoolWalks DEF vars, pool, history
  <1>3. CASE BuilderFails
    BY <1>1, <1>3, PoolWalks DEF BuilderFails, history
  <1>4. ASSUME NEW name \in Names, Load(name), ~diverged PROVE WalkInv'
    BY <1>4, LoadWalks
  <1>5. ASSUME NEW kind \in BuiltKinds, Build(kind), ~diverged PROVE WalkInv'
    BY <1>5, BuildWalks
  <1>6. CASE Reset
    <2>1. epoch' # 0
      BY <1>6 DEF Reset, WalkInv, IInv, TypeOK
    <2> QED
      BY <1>1, <1>6, <2>1, PoolWalks DEF Reset, history
  <1>7. ASSUME NEW h \in handles PROVE h.node \in 0 .. MaxNodes
    BY <1>7 DEF WalkInv, IInv, TypeOK
  <1>8. ASSUME NEW c \in Callers, NEW h \in handles,
               \/ Number(c, h.node)
               \/ RefuseFields(c, h.node)
               \/ CompileDiverges(c, h.node)
        PROVE  WalkInv'
    BY <1>1, <1>7, <1>8, NumberWalks, RefusedWalks, DivergingWalks
  <1>9. ASSUME NEW c \in Callers, Emit(c) \/ Collect(c) \/ Again(c)
        PROVE  WalkInv'
    BY <1>1, <1>9, EmitWalks, CollectWalks
  <1> QED
    BY <1>2, <1>3, <1>4, <1>5, <1>6, <1>8, <1>9
    DEF Next, Builders, SetExpression, Stopped

\* Every reachable state satisfies it.
THEOREM WalkInvariance == Spec => []WalkInv
  BY InitWalkInv, WalkStep, PTL DEF Spec

\* The analysis of the compilers runs in a circle only if a builder was given a
\* node from before a reset: on every other tree its recursion ends.
THEOREM AnalysisTerminates == Spec => []AnalysisEnds
  <1>1. WalkInv => AnalysisEnds
    BY DEF WalkInv
  <1> QED
    BY <1>1, WalkInvariance, PTL

\* Before the first reset the analysis and collect_fields see the same nodes
\* below every node.
THEOREM WalksSeeTheSame == Spec => []WalksAgree
  <1>1. WalkInv => WalksAgree
    BY SameEdges DEF WalkInv, WalksAgree
  <1> QED
    BY <1>1, WalkInvariance, PTL

\* A slot has one field, which the kernel reads and collect_fields stores,
\* unless another caller compiled, or a node was reused, between numbering the
\* fields and collecting them.
THEOREM FieldsFitKernel == Spec => []FieldsMatchKernel
  <1>1. WalkInv => FieldsMatchKernel
    BY DEF WalkInv
  <1> QED
    BY <1>1, WalkInvariance, PTL
=============================================================================
