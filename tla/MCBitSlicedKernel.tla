------------------------- MODULE MCBitSlicedKernel --------------------------
(* Small kernels: words of two or three bits, blocks of two lanes.          *)
EXTENDS BitSlicedKernel

a == Load("a")
b == Load("b")
one == Const(1)

\* s = a + b used twice: the tree is a DAG.  The builder makes no LT node, but
\* ir::Node is public and the compiler has code for the kind.
Shared ==
    <<Node("LOAD", 0, 0, 0, "a", 0), Node("LOAD", 0, 0, 0, "b", 0),
      Node("ADD", 1, 2, 0, "", 0), Node("GT", 3, 1, 0, "", 0),
      Node("LT", 2, 3, 0, "", 0), Node("AND", 4, 5, 0, "", 0)>>

MCExprs ==
    {GT(a, b), LT(a, one), GT(Add(a, b), one), GT(Add(Add(a, b), a), b),
     LT(Sub(a, b), one), GT(Sub(Add(a, one), b), Sub(b, a)),
     And(GT(a, one), LT(a, b)), And(And(LT(Sub(a, b), one), GT(a, b)), GT(b, one)),
     Shared, Add(a, b), Or(GT(a, b), GT(b, a)), EQ(a, b), LSL(a, 1),
     And(And(GT(a, b), GT(a, Const(0))), And(GT(one, b), GT(a, one)))}

SubExprs == {LT(Sub(a, b), one)}
=============================================================================
