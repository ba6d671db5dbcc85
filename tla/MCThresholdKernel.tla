------------------------- MODULE MCThresholdKernel --------------------------
(* Every threshold and every block of three lanes of three-bit words.      *)
EXTENDS ThresholdKernel

MCBlock == 0 .. 2
=============================================================================
