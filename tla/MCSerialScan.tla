---------------------------- MODULE MCSerialScan ----------------------------
(* Two callers, chunks of two rows, words of two bytes.  Logics of set_logic *)
(* and of set_expression in both modes: one field, two fields, a narrow last *)
(* field, and a field the schema does not know that the kernel reads or does *)
(* not read.                                                                 *)
EXTENDS SerialScan

f == [offset |-> 0, width |-> 2]
g == [offset |-> 2, width |-> 2]
narrow == [offset |-> 3, width |-> 1]

Logic(path, mode, fields, reads) ==
    [path |-> path, mode |-> mode, stride |-> 4, fields |-> fields,
     reads |-> reads]

\* One and a half chunks; the other data set is empty.
MCData ==
    {[row_count |-> 3, match |-> {1, 2}], [row_count |-> 0, match |-> {}]}

MCLogics ==
    {Logic("legacy", "BIT_SLICED", <<g>>, {1}),
     Logic("expr", "BIT_SLICED", <<f, narrow>>, {1, 2}),
     Logic("expr", "SCALAR", <<Null, f>>, {2}),
     Logic("expr", "BIT_SLICED", <<Null, f>>, {1, 2})}
=============================================================================
