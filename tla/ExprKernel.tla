----------------------------- MODULE ExprKernel -----------------------------
(***************************************************************************)
(* What the two expression kernels of src/jit/compiler.cpp have in common: *)
(* the tree they are compiled from, the gathered columns they are run on   *)
(* and the two loops around their instruction groups.  BitSlicedKernel and *)
(* ScalarKernel extend this module.                                        *)
(***************************************************************************)
EXTENDS ExprIR

CONSTANTS
    Exprs,          \* the expressions compiled
    FieldNames      \* the fields they may load

\* The trees are what the builders of jit.cpp make: a node is allocated after
\* its children and has those its kind needs.
ASSUME TreesAssumption == \A e \in Exprs : IsTree(e, FieldNames)

VARIABLES
    expr,           \* the tree given to set_expression
    data,           \* the gathered columns: field, row -> word
    phase,          \* "compile", "rejected", the kernel's loops, "done"
    pos             \* the instruction group within the loop body

inputs == <<expr, data>>

RowOf(r) == [f \in FieldNames |-> data[f][r]]
=============================================================================
