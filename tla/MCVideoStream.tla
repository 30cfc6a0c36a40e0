---------------------------- MODULE MCVideoStream ----------------------------
(* Instances of VideoStream for TLC. *)
EXTENDS VideoStream, TLC

(* What an encoder can produce is only ever compared. *)
InfoSymmetry == Permutations(Infos)
=============================================================================
