------------------------------ MODULE MCEngine ------------------------------
(* Two schemas, layouts that differ in names, offsets and stride, and five  *)
(* expressions: one field, two fields of which the bit-sliced kernel reads  *)
(* only the first or only the second (the other stands under a node that    *)
(* has no code), two in the other order, and more fields than the engine    *)
(* has buffers.                                                             *)
EXTENDS Engine

MCLayouts ==
    {[stride |-> 24, offset |-> [n \in {"a", "b", "c"} |->
          CASE n = "a" -> 0 [] n = "b" -> 16 [] n = "c" -> 8]],
     [stride |-> 8, offset |-> [n \in {"b"} |-> 0]]}

MCExprs ==
    {[fields |-> <<"b">>, reads |-> {1}],
     [fields |-> <<"a", "b">>, reads |-> {1}],
     [fields |-> <<"a", "b">>, reads |-> {2}],
     [fields |-> <<"b", "a">>, reads |-> {1, 2}],
     [fields |-> <<"a", "b", "c">>, reads |-> {1, 2, 3}]}
=============================================================================
