----------------------------- MODULE MCLifetime -----------------------------
(* Two threads and an object of every binding; a pool with room for one     *)
(* universal tree, or two simple ones and a part of the third.              *)
EXTENDS Lifetime, TLC

MCBinding == "j" :> "java" @@ "c" :> "cxx" @@ "p" :> "python"

MCSymmetry == Permutations(Threads) \cup Permutations(Engines)
=============================================================================
