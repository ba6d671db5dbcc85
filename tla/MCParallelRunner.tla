-------------------------- MODULE MCParallelRunner --------------------------
(* Small instances of ParallelRunner: blocks of two rows, up to three       *)
(* workers, buffers with and without a partial last block.                  *)
EXTENDS ParallelRunner

MCRowCounts == 0 .. 6
MCThreadArgs == -1 .. 3
=============================================================================
