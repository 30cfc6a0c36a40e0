------------------------------ MODULE MCPairing ------------------------------
(* Instances of Pairing for TLC. *)
EXTENDS Pairing, TLC

(* Keys are only ever compared. *)
KeySymmetry == Permutations(Keys)
=============================================================================
