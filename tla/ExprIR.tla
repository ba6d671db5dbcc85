------------------------------- MODULE ExprIR -------------------------------
(***************************************************************************)
(* The expression IR (include/apex/jit/ir.hpp), its builder functions      *)
(* (src/jit/jit.cpp) and the analysis both compilers begin with            *)
(* (ExpressionAnalyzer, src/jit/compiler.cpp).                             *)
(*                                                                         *)
(* An expression is a sequence of nodes that ends in its root.  Children   *)
(* are named by their position and 0 is nullptr.  A node is allocated      *)
(* after its children, so they always precede it.                          *)
(***************************************************************************)
EXTENDS Words, Sequences, SequencesExt

Node(kind, left, right, cond, field, value) ==
    [kind |-> kind, left |-> left, right |-> right, cond |-> cond,
     field |-> field, value |-> value]

\* The nodes of e as they sit in the pool behind k older nodes.
Relocate(e, k) ==
    LET move(c) == IF c = 0 THEN 0 ELSE c + k
    IN  [i \in DOMAIN e |-> [e[i] EXCEPT !.left = move(@),
                                         !.right = move(@),
                                         !.cond = move(@)]]

Load(field_name) == <<Node("LOAD", 0, 0, 0, field_name, 0)>>

Const(value) == <<Node("CONST", 0, 0, 0, "", value)>>

\* Add, Sub, GT, EQ, And and Or differ in their kind only.
Binary(kind, a, b) ==
    a \o Relocate(b, Len(a))
      \o <<Node(kind, Len(a), Len(a) + Len(b), 0, "", 0)>>

Add(a, b) == Binary("ADD", a, b)
Sub(a, b) == Binary("SUB", a, b)
GT(a, b) == Binary("GT", a, b)
EQ(a, b) == Binary("EQ", a, b)
And(a, b) == Binary("AND", a, b)
Or(a, b) == Binary("OR", a, b)

\* The builder has no LT node: LT(a, b) is GT(b, a).
LT(a, b) == GT(b, a)

Not(a) == Append(a, Node("NOT", Len(a), 0, 0, "", 0))

Select(cond, a, b) ==
    LET ab == a \o Relocate(b, Len(a))
    IN  ab \o Relocate(cond, Len(ab))
           \o <<Node("SELECT", Len(a), Len(ab), Len(ab) + Len(cond), "", 0)>>

LSL(a, shift) == Append(a, Node("LSL", Len(a), 0, 0, "", shift))
LSR(a, shift) == Append(a, Node("LSR", Len(a), 0, 0, "", shift))

Leaves == {"LOAD", "CONST"}
Unary == {"NOT", "LSL", "LSR"}
Arithmetic == {"ADD", "SUB", "LSL", "LSR"}
NodeKinds == Leaves \cup Unary \cup Arithmetic
                 \cup {"GT", "LT", "EQ", "AND", "OR", "SELECT"}

\* A complete tree over the fields names: every node has the children its kind
\* needs, before it, and no others.
IsTree(e, names) ==
    /\ e \in Seq([kind : NodeKinds, left : Nat, right : Nat, cond : Nat,
                  field : names \cup {""}, value : Int])
    /\ e # <<>>
    /\ \A i \in 1 .. Len(e) :
        LET n == e[i]
        IN  /\ n.left < i /\ n.right < i /\ n.cond < i
            /\ n.left # 0 <=> n.kind \notin Leaves
            /\ n.right # 0 <=> n.kind \notin Leaves \cup Unary
            /\ n.cond # 0 <=> n.kind = "SELECT"
            /\ n.kind = "LOAD" => n.field \in names
            /\ n.kind \in {"LSL", "LSR"} => n.value \in Nat

-----------------------------------------------------------------------------
(* The analysis.                                                           *)

AppendNew(s, x) == IF Contains(s, x) THEN s ELSE Append(s, x)

Dedup(s) ==
    LET d[n \in 0 .. Len(s)] ==
            IF n = 0 THEN <<>> ELSE AppendNew(d[n - 1], s[n])
    IN  d[Len(s)]

\* The nodes in post-order: left, right, cond, then the node itself.
PostOrder(e) ==
    LET post[i \in 0 .. Len(e)] ==
            IF i = 0 THEN <<>>
            ELSE post[e[i].left] \o post[e[i].right] \o post[e[i].cond]
                     \o <<i>>
    IN  post[Len(e)]

\* all_nodes: each node once, at its first place.
AllNodes(e) == Dedup(PostOrder(e))

NodesOfKind(e, kinds) ==
    LET nodes == AllNodes(e)
        k[n \in 0 .. Len(nodes)] ==
            IF n = 0 THEN <<>>
            ELSE IF e[nodes[n]].kind \in kinds THEN Append(k[n - 1], nodes[n])
            ELSE k[n - 1]
    IN  k[Len(nodes)]

ArithmeticNodes(e) == NodesOfKind(e, Arithmetic)

\* The distinct field names in the order their indices are handed out.
FieldOrder(e) ==
    LET loads == NodesOfKind(e, {"LOAD"})
    IN  Dedup([k \in DOMAIN loads |-> e[loads[k]].field])

Kinds(e) == {e[i].kind : i \in DOMAIN e}

OperandKinds(e, i) == {e[c].kind : c \in {e[i].left, e[i].right} \ {0}}

-----------------------------------------------------------------------------
(* What the node kinds are documented to mean (ir.hpp lines 11-25), on the *)
(* fields of one row: unsigned words of W bits, 1 and 0 for true and false.*)

\* The value of a node whose operands have the values a, b and c.
Apply(n, a, b, c, row) ==
    CASE n.kind = "LOAD" -> row[n.field]
      [] n.kind = "CONST" -> n.value % Power2[W]
      [] n.kind = "ADD" -> (a + b) % Power2[W]
      [] n.kind = "SUB" -> (a - b) % Power2[W]
      [] n.kind = "GT" -> Truth(a > b)
      [] n.kind = "LT" -> Truth(a < b)
      [] n.kind = "EQ" -> Truth(a = b)
      [] n.kind = "AND" -> a * b
      [] n.kind = "OR" -> Truth(a + b > 0)
      [] n.kind = "NOT" -> 1 - a
      [] n.kind = "SELECT" -> IF c = 1 THEN a ELSE b
      [] n.kind = "LSL" -> (a * Power2[n.value]) % Power2[W]
      [] n.kind = "LSR" -> a \div Power2[n.value]

\* The values of all nodes of e.
Values(e, row) ==
    LET v[i \in 0 .. Len(e)] ==
            IF i = 0 THEN 0
            ELSE Apply(e[i], v[e[i].left], v[e[i].right], v[e[i].cond], row)
    IN  v

Meaning(e, row) == Values(e, row)[Len(e)]
=============================================================================
