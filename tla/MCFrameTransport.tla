-------------------------- MODULE MCFrameTransport --------------------------
(* Instances of FrameTransport for TLC. *)
EXTENDS FrameTransport, TLC

(* The geometries a frame can have are interchangeable. *)
ModeSymmetry == Permutations(Modes)
=============================================================================
