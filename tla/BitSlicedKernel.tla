-------------------------- MODULE BitSlicedKernel ---------------------------
(***************************************************************************)
(* JitCompiler::compile_expression (src/jit/compiler.cpp) and one run of   *)
(* the kernel it emits on one block of rows.                               *)
(*                                                                         *)
(* A 64-bit register of the kernel holds one bit per row of the block; it  *)
(* is modelled as the set of lanes whose bit is set, so that and, orr, eor *)
(* and mvn are set operations.  The bit planes of a field are what         *)
(* BitSlicer makes of its column.                                          *)
(***************************************************************************)
EXTENDS ExprKernel, FiniteSets

CONSTANTS
    NumLanes,       \* rows per block: 64 in the code
    MaxFields,      \* field indices a kernel can use: 8
    MaxSlots,       \* scratchpad slots: 8
    MaxCompares     \* comparisons with registers of their own: 3

ASSUME KernelAssumption ==
    /\ NumLanes \in Nat \ {0}
    /\ MaxFields \in Nat
    /\ MaxSlots \in Nat
    /\ MaxCompares \in Nat \ {0}

\* Arithmetic and comparisons take words, not masks: the registers of any
\* other operand would be left as they are.
ASSUME ExprsAssumption ==
    \A e \in Exprs : \A i \in 1 .. Len(e) :
        e[i].kind \in Arithmetic \cup {"GT", "LT", "EQ"} =>
            OperandKinds(e, i) \subseteq Leaves \cup Arithmetic

VARIABLES
    prog,           \* what the compiler decided: the adders and comparisons
    bit_index,      \* the bit the instruction group is about (x15)
    carry,          \* the carry registers, by node
    slot,           \* the scratchpad, by node and bit
    gt, eq,         \* the GT and EQ masks, by comparison
    mask            \* the kernel's return value (x0)

regs == <<carry, slot, gt, eq, mask>>
vars == <<inputs, prog, phase, bit_index, pos, regs>>

Lanes == 0 .. NumLanes - 1

Xor(S, T) == (S \ T) \cup (T \ S)

FieldPlane(field, b) == {l \in Lanes : BitOf(data[field][l], b) = 1}

\* ConstPool: every lane holds the constant.
ConstPlane(value, b) == IF BitOf(value % Power2[W], b) = 1 THEN Lanes ELSE {}

\* get_operand_at_bit and get_bit: bit b of the value of node i.
OperandAtBit(i, b) ==
    CASE expr[i].kind = "LOAD" -> FieldPlane(expr[i].field, b)
      [] expr[i].kind = "CONST" -> ConstPlane(expr[i].value, b)
      [] OTHER -> slot[i][b]

-----------------------------------------------------------------------------
(* Compilation.                                                            *)

\* collect_comparisons: the comparisons under a spine of ANDs, in order.
Comparisons(e) ==
    LET c[i \in 0 .. Len(e)] ==
            IF i = 0 THEN <<>>
            ELSE IF e[i].kind \in {"GT", "LT", "EQ"} THEN <<i>>
            ELSE IF e[i].kind = "AND" THEN c[e[i].left] \o c[e[i].right]
            ELSE <<>>
    IN  c[Len(e)]

FirstFew(s, n) == SubSeq(s, 1, IF Len(s) < n THEN Len(s) ELSE n)

Accepted(e) ==
    /\ Len(FieldOrder(e)) <= MaxFields
    /\ Len(ArithmeticNodes(e)) <= MaxSlots

\* Only ADD and SUB are given code in the loop over the arithmetic nodes.
Program(e) ==
    [adders |-> NodesOfKind(e, {"ADD", "SUB"}),
     compares |-> FirstFew(Comparisons(e), MaxCompares)]

\* The lanes whose carry register starts at 1: mov carry, 1 sets bit 0 of the
\* register, the carry of lane 0.
CarryIn(kind) == IF kind = "SUB" THEN {0} ELSE {}

Init ==
    /\ expr \in Exprs
    /\ data \in [FieldNames -> [Lanes -> Word]]
    /\ prog = [adders |-> <<>>, compares |-> <<>>]
    /\ phase = "compile"
    /\ bit_index = 0
    /\ pos = 1
    /\ carry = [i \in DOMAIN expr |-> {}]
    /\ slot = [i \in DOMAIN expr |-> [b \in Bits |-> {}]]
    /\ gt = <<>>
    /\ eq = <<>>
    /\ mask = {}

\* The kernel is called with a cleared scratchpad; its prologue sets the
\* carries.
Compile ==
    /\ phase = "compile"
    /\ Accepted(expr)
    /\ prog' = Program(expr)
    /\ phase' = "arith"
    /\ carry' = [i \in DOMAIN expr |-> CarryIn(expr[i].kind)]
    /\ UNCHANGED <<inputs, bit_index, pos, slot, gt, eq, mask>>

\* A limit is exceeded, or JitRuntime::add fails: nullptr is returned.
Reject ==
    /\ phase = "compile"
    /\ phase' = "rejected"
    /\ UNCHANGED <<inputs, prog, bit_index, pos, regs>>

-----------------------------------------------------------------------------
(* Phase 1: the adders, from bit 0 up.                                     *)

\* Mutant: the carry is not propagated.
HalfAdder(A, B, c) == [sum |-> Xor(Xor(A, B), c), carry |-> A \cap B]

FullAdder(A, B, c) ==
    [sum |-> Xor(Xor(A, B), c), carry |-> (A \cap B) \cup (Xor(A, B) \cap c)]

AddNode ==
    /\ phase = "arith"
    /\ bit_index < W
    /\ pos <= Len(prog.adders)
    /\ LET i == prog.adders[pos]
           A == OperandAtBit(expr[i].left, bit_index)
           B == OperandAtBit(expr[i].right, bit_index)
           r == FullAdder(A, IF expr[i].kind = "SUB" THEN Lanes \ B ELSE B,
                          carry[i])
       IN  /\ slot' = [slot EXCEPT ![i][bit_index] = r.sum]
           /\ carry' = [carry EXCEPT ![i] = r.carry]
    /\ pos' = pos + 1
    /\ UNCHANGED <<inputs, prog, phase, bit_index, gt, eq, mask>>

AddNextBit ==
    /\ phase = "arith"
    /\ bit_index < W
    /\ pos > Len(prog.adders)
    /\ bit_index' = bit_index + 1
    /\ pos' = 1
    /\ UNCHANGED <<inputs, prog, phase, regs>>

\* Mutant: the EQ masks are left as they are.
AddEndNoEq ==
    /\ phase = "arith"
    /\ bit_index = W
    /\ phase' = "compare"
    /\ bit_index' = W - 1
    /\ gt' = [c \in DOMAIN prog.compares |-> {}]
    /\ UNCHANGED <<inputs, prog, pos, carry, slot, eq, mask>>

AddEnd ==
    /\ phase = "arith"
    /\ bit_index = W
    /\ phase' = "compare"
    /\ bit_index' = W - 1
    /\ gt' = [c \in DOMAIN prog.compares |-> {}]
    /\ eq' = [c \in DOMAIN prog.compares |-> Lanes]
    /\ UNCHANGED <<inputs, prog, pos, carry, slot, mask>>

-----------------------------------------------------------------------------
(* Phase 2: the comparisons, from the top bit down.                        *)

\* Mutant: a lower bit may overrule a higher one.
EmitGtNoEq(A, B, g, e) == [gt |-> g \cup (A \ B), eq |-> e \ Xor(A, B)]

\* CircuitLibrary::emit_gt_64 on the bits A and B of one position.
EmitGt(A, B, g, e) == [gt |-> g \cup (e \cap (A \ B)), eq |-> e \ Xor(A, B)]

CompareNode ==
    /\ phase = "compare"
    /\ bit_index >= 0
    /\ pos <= Len(prog.compares)
    /\ LET n == expr[prog.compares[pos]]
           A == OperandAtBit(n.left, bit_index)
           B == OperandAtBit(n.right, bit_index)
           r == CASE n.kind = "GT" -> EmitGt(A, B, gt[pos], eq[pos])
                  [] n.kind = "LT" -> EmitGt(B, A, gt[pos], eq[pos])
                  [] n.kind = "EQ" -> [gt |-> gt[pos], eq |-> eq[pos]]
       IN  /\ gt' = [gt EXCEPT ![pos] = r.gt]
           /\ eq' = [eq EXCEPT ![pos] = r.eq]
    /\ pos' = pos + 1
    /\ UNCHANGED <<inputs, prog, phase, bit_index, carry, slot, mask>>

CompareNextBit ==
    /\ phase = "compare"
    /\ bit_index >= 0
    /\ pos > Len(prog.compares)
    /\ bit_index' = bit_index - 1
    /\ pos' = 1
    /\ UNCHANGED <<inputs, prog, phase, regs>>

\* Mutant: the masks are joined with orr.
FoldOr == {l \in Lanes : \E c \in DOMAIN prog.compares : l \in gt[c]}

\* The AND-fold of the GT masks; all ones when there is no comparison.
Fold == {l \in Lanes : \A c \in DOMAIN prog.compares : l \in gt[c]}

CompareEnd ==
    /\ phase = "compare"
    /\ bit_index = -1
    /\ mask' = Fold
    /\ phase' = "done"
    /\ UNCHANGED <<inputs, prog, bit_index, pos, carry, slot, gt, eq>>

Finished == phase \in {"done", "rejected"} /\ UNCHANGED vars

Next ==
    \/ Compile
    \/ Reject
    \/ AddNode
    \/ AddNextBit
    \/ AddEnd
    \/ CompareNode
    \/ CompareNextBit
    \/ CompareEnd
    \/ Finished

Spec == Init /\ [][Next]_vars

-----------------------------------------------------------------------------
(* Properties.                                                             *)

\* Every register and slot of the kernel holds a mask of the block's lanes,
\* and no instruction group is run that the loop body does not have.
TypeOK ==
    /\ phase \in {"compile", "rejected", "arith", "compare", "done"}
    /\ bit_index \in -1 .. W
    /\ prog \in [adders : Seq(DOMAIN expr), compares : Seq(DOMAIN expr)]
    /\ pos \in 1 .. 1 + Len(IF phase = "compare" THEN prog.compares
                            ELSE prog.adders)
    /\ carry \in [DOMAIN expr -> SUBSET Lanes]
    /\ slot \in [DOMAIN expr -> [Bits -> SUBSET Lanes]]
    /\ gt \in [DOMAIN gt -> SUBSET Lanes]
    /\ eq \in [DOMAIN gt -> SUBSET Lanes]
    /\ mask \subseteq Lanes

\* The bits lane l of node i holds, and the number its lowest b bits stand
\* for.
LaneBits(i, l) == {b \in Bits : l \in OperandAtBit(i, b)}

Low(i, l, b) == Lowest(LaneBits(i, l))[b]

\* The bits the adder at position k of the loop body has produced so far.
BitsDone(k) == IF k < pos THEN bit_index + 1 ELSE bit_index

\* The ripple carry is right at every point of the loop, for chained and for
\* shared adders: the low bits and the carry of a node are the sum of its
\* operands' low bits (lines 416-427); for SUB they are the difference, less
\* the 1 that every lane but lane 0 starts without (lines 359-367, 429-449).
RippleCarry ==
    phase = "arith" =>
        \A k \in DOMAIN prog.adders, l \in Lanes :
            LET i == prog.adders[k]
                n == expr[i]
                b == BitsDone(k)
                c == IF l \in carry[i] THEN Power2[b] ELSE 0
                x == Low(n.left, l, b)
                y == Low(n.right, l, b)
            IN  Low(i, l, b) + c =
                    IF n.kind = "ADD" THEN x + y
                    ELSE x - y + Power2[b] - Truth(l # 0)

\* The number lane l of node i holds from bit b up.
High(i, l, b) == Highest(LaneBits(i, l))[W - b]

\* At every point of the downward loop the GT mask holds the lanes whose bits
\* seen so far decide for "greater", and the EQ mask those still undecided
\* (emit_gt_64, lines 23-44).
GtEqPrefix ==
    phase = "compare" =>
        \A c \in DOMAIN prog.compares, l \in Lanes :
            LET n == expr[prog.compares[c]]
                b == IF c < pos THEN bit_index ELSE bit_index + 1
                x == High(IF n.kind = "LT" THEN n.right ELSE n.left, l, b)
                y == High(IF n.kind = "LT" THEN n.left ELSE n.right, l, b)
            IN  n.kind # "EQ" =>
                    /\ l \in gt[c] <=> x > y
                    /\ l \in eq[c] <=> x = y

ReferenceMask == {l \in Lanes : Meaning(expr, RowOf(l)) = 1}

\* The IR the kernel has code for: conjunctions of comparisons of sums and
\* differences.
Supported ==
    /\ Kinds(expr) \subseteq Leaves \cup {"ADD", "SUB", "GT", "LT", "AND"}
    /\ \A i \in 1 .. Len(expr) :
           expr[i].kind = "AND" => OperandKinds(expr, i) \subseteq {"GT", "LT", "AND"}
    /\ expr[Len(expr)].kind \in {"GT", "LT", "AND"}

\* The lanes for which the first MaxCompares comparisons hold.
FirstComparisonsHold ==
    {l \in Lanes :
        \A c \in DOMAIN FirstFew(Comparisons(expr), MaxCompares) :
            Values(expr, RowOf(l))[Comparisons(expr)[c]] = 1}

\* On that part of the IR the mask is the documented meaning of the
\* expression, row by row, if it has at most MaxCompares comparisons;
\* otherwise those behind are taken for true (line 481), never others.  With
\* a SUB it is so for lane 0.
MaskIsMeaning ==
    phase = "done" /\ Supported =>
        \A l \in Lanes :
            l = 0 \/ "SUB" \notin Kinds(expr) =>
                /\ l \in mask <=> l \in FirstComparisonsHold
                /\ Len(Comparisons(expr)) <= MaxCompares =>
                       (l \in mask <=> l \in ReferenceMask)

\* The mask is the documented meaning of the expression, whatever its kinds.
MatchesReference == phase = "done" => mask = ReferenceMask
=============================================================================
