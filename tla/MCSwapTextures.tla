---------------------------- MODULE MCSwapTextures ----------------------------
(* Which of the processes is the compositor makes no difference.           *)
EXTENDS SwapTextures, TLC

PidSymmetry == Permutations(Pids)
=============================================================================
