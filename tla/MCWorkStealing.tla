--------------------------- MODULE MCWorkStealing ---------------------------
(* Chunks of two rows; no chunk, one, two or three, with and without a      *)
(* remainder, and up to two workers.                                        *)
EXTENDS WorkStealing

MCRowCounts == {0, 1, 2, 5, 6}
MCThreadArgs == {0, 1, 2}
=============================================================================
