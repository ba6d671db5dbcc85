---------------------------- MODULE ScalarKernel ----------------------------
(***************************************************************************)
(* JitCompiler::compile_scalar_expression (src/jit/compiler.cpp) and one   *)
(* run of the kernel it emits: a loop over the rows of a block that        *)
(* evaluates the nodes one after the other in post-order, keeps each       *)
(* result in the scratchpad and shifts the last one into the mask.         *)
(*                                                                         *)
(* A block has as many rows as a word has bits (64 in the code), since the *)
(* mask is one word.  The scratchpad is indexed by the node; in the code   *)
(* the index is the node's place in all_nodes.                             *)
(***************************************************************************)
EXTENDS ExprKernel

VARIABLES
    all_nodes,      \* the nodes in the order of their code
    row_index,
    val_res,        \* the result register: one register for all nodes
    scratchpad,     \* the stored results, by node
    final_mask      \* a set of rows

scalar_vars == <<inputs, all_nodes, phase, row_index, pos, val_res, scratchpad,
          final_mask>>

Rows == 0 .. W - 1

ScalarInit ==
    /\ expr \in Exprs
    /\ data \in [FieldNames -> [Rows -> Word]]
    /\ all_nodes = <<>>
    /\ phase = "compile"
    /\ row_index = 0
    /\ pos = 1
    /\ val_res = 0     \* never read: the first node is a leaf and sets it
    /\ scratchpad = [i \in DOMAIN expr |-> 0]
    /\ final_mask = {}

\* There is no limit to exceed: the fields are numbered and code is emitted.
ScalarCompile ==
    /\ phase = "compile"
    /\ all_nodes' = AllNodes(expr)
    /\ phase' = "run"
    /\ UNCHANGED <<inputs, row_index, pos, val_res, scratchpad, final_mask>>

\* JitRuntime::add fails: nullptr is returned.
ScalarReject ==
    /\ phase = "compile"
    /\ phase' = "rejected"
    /\ UNCHANGED <<inputs, all_nodes, row_index, pos, val_res, scratchpad,
                   final_mask>>

-----------------------------------------------------------------------------
\* get_operand: leaves are read again, other nodes come from the scratchpad.
OperandInRow(i) ==
    CASE expr[i].kind = "LOAD" -> data[expr[i].field][row_index]
      [] expr[i].kind = "CONST" -> expr[i].value % Power2[W]
      [] OTHER -> scratchpad[i]

\* Mutant: sub with its operands exchanged.
ResultSwapped(i) ==
    LET n == expr[i]
        left == OperandInRow(n.left)
        right == OperandInRow(n.right)
    IN  CASE n.kind \in {"LOAD", "CONST"} -> OperandInRow(i)
          [] n.kind = "ADD" -> (left + right) % Power2[W]
          [] n.kind = "SUB" -> (right - left) % Power2[W]
          [] n.kind = "GT" -> Truth(left > right)
          [] n.kind = "LT" -> Truth(left < right)
          [] n.kind = "EQ" -> Truth(left = right)
          [] n.kind = "AND" -> WordOf(BitsOf(left) \cap BitsOf(right))
          [] n.kind = "OR" -> WordOf(BitsOf(left) \cup BitsOf(right))
          [] OTHER -> val_res

\* The switch over the kinds; no case for NOT, SELECT, LSL and LSR, which
\* leave the previous node's result in the register.
Result(i) ==
    LET n == expr[i]
        left == OperandInRow(n.left)
        right == OperandInRow(n.right)
    IN  CASE n.kind \in {"LOAD", "CONST"} -> OperandInRow(i)
          [] n.kind = "ADD" -> (left + right) % Power2[W]
          [] n.kind = "SUB" -> (left - right) % Power2[W]
          [] n.kind = "GT" -> Truth(left > right)
          [] n.kind = "LT" -> Truth(left < right)
          [] n.kind = "EQ" -> Truth(left = right)
          [] n.kind = "AND" -> WordOf(BitsOf(left) \cap BitsOf(right))
          [] n.kind = "OR" -> WordOf(BitsOf(left) \cup BitsOf(right))
          [] OTHER -> val_res

EvalNode ==
    /\ phase = "run"
    /\ row_index < W
    /\ pos <= Len(all_nodes)
    /\ val_res' = Result(all_nodes[pos])
    /\ scratchpad' = [scratchpad EXCEPT ![all_nodes[pos]] = val_res']
    /\ pos' = pos + 1
    /\ UNCHANGED <<inputs, all_nodes, phase, row_index, final_mask>>

\* Mutant: the mask is shifted by one row too many.
ShiftedLate(v) == {r \in Rows : r > row_index /\ BitOf(v, r - row_index - 1) = 1}

\* Mutant: the bits shifted out of the register are kept.
ShiftedWide(v) == {row_index + k : k \in BitsOf(v)}

\* lsl val_res, val_res, row_index: the bits that stay in the register.
Shifted(v) == {r \in Rows : r >= row_index /\ BitOf(v, r - row_index) = 1}

NextRow ==
    /\ phase = "run"
    /\ row_index < W
    /\ pos > Len(all_nodes)
    /\ final_mask' = final_mask \cup Shifted(val_res)
    /\ row_index' = row_index + 1
    /\ pos' = 1
    /\ UNCHANGED <<inputs, all_nodes, phase, val_res, scratchpad>>

ReturnMask ==
    /\ phase = "run"
    /\ row_index = W
    /\ phase' = "done"
    /\ UNCHANGED <<inputs, all_nodes, row_index, pos, val_res, scratchpad,
                   final_mask>>

ScalarFinished == phase \in {"done", "rejected"} /\ UNCHANGED scalar_vars

ScalarNext ==
    \/ ScalarCompile
    \/ ScalarReject
    \/ EvalNode
    \/ NextRow
    \/ ReturnMask
    \/ ScalarFinished

ScalarSpec == ScalarInit /\ [][ScalarNext]_scalar_vars

-----------------------------------------------------------------------------
(* Properties.                                                             *)

\* Registers and scratchpad hold words, the mask a set of rows.
ScalarTypeOK ==
    /\ phase \in {"compile", "rejected", "run", "done"}
    /\ row_index \in 0 .. W
    /\ pos \in 1 .. Len(expr) + 1
    /\ val_res \in Word
    /\ scratchpad \in [DOMAIN expr -> Word]
    /\ final_mask \subseteq Rows

\* The kinds the kernel has code for, with a truth value at the root.
ScalarSupported ==
    /\ Kinds(expr) \cap {"NOT", "SELECT", "LSL", "LSR"} = {}
    /\ \A i \in 1 .. Len(expr) :
           expr[i].kind \in {"AND", "OR"} =>
               OperandKinds(expr, i) \cap (Leaves \cup Arithmetic) = {}
    /\ expr[Len(expr)].kind \in {"GT", "LT", "EQ", "AND", "OR"}

\* Within a row every node already evaluated holds the value of its
\* subexpression on this row, also in a tree with shared nodes: no operand is
\* left over from the row before (lines 626-687).
ScratchpadIsCurrent ==
    phase = "run" /\ row_index < W /\ ScalarSupported =>
        \A k \in 1 .. pos - 1 :
            scratchpad[all_nodes[k]] =
                Values(expr, RowOf(row_index))[all_nodes[k]]

\* The rows done so far are in the mask exactly when the expression holds for
\* them, and no row has put a bit into the place of a later one.
ScalarMaskIsMeaning ==
    phase \in {"run", "done"} /\ ScalarSupported =>
        final_mask =
            {r \in 0 .. row_index - 1 : Meaning(expr, RowOf(r)) = 1}
=============================================================================
