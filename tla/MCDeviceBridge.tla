---------------------------- MODULE MCDeviceBridge ----------------------------
(* Instances of DeviceBridge for TLC. *)
EXTENDS DeviceBridge, TLC

(* Configurations are only ever compared. *)
ConfigSymmetry == Permutations(Configs)
=============================================================================
