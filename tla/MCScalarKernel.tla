--------------------------- MODULE MCScalarKernel ---------------------------
(* Blocks of two rows of two-bit words, two fields.                        *)
EXTENDS ScalarKernel

a == Load("a")
b == Load("b")
one == Const(1)

\* s = a + b used twice: the tree is a DAG.  The builder makes no LT node, but
\* ir::Node is public and the compiler has code for the kind.
Shared ==
    <<Node("LOAD", 0, 0, 0, "a", 0), Node("LOAD", 0, 0, 0, "b", 0),
      Node("ADD", 1, 2, 0, "", 0), Node("GT", 3, 1, 0, "", 0),
      Node("LT", 2, 3, 0, "", 0), Node("OR", 4, 5, 0, "", 0)>>

MCExprs ==
    {GT(a, b), LT(a, one), GT(Add(a, b), one), EQ(Sub(a, b), Const(-1)),
     GT(Sub(Add(a, one), b), Sub(b, a)), Or(GT(a, b), EQ(a, one)),
     And(And(GT(a, one), LT(a, b)), Or(EQ(b, a), GT(Const(2), a))),
     Shared, Add(a, b), Not(GT(a, b)), GT(LSL(a, 1), b),
     GT(Select(GT(a, b), a, b), one)}
=============================================================================
