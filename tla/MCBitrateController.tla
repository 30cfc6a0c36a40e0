------------------------ MODULE MCBitrateController ------------------------
(* The packets of the model: a headset that leaves the law to the helper   *)
(* or asks for v2, and a later packet that turns something off or on.      *)
EXTENDS BitrateController

Packet(auto, aware, law, parity) ==
    [bitrate_auto |-> auto, radio_aware |-> aware, bitrate_control |-> law, smooth_pacing |-> TRUE, fec |-> parity]

BothLaws == {Packet(TRUE, TRUE, "none", FALSE), Packet(TRUE, TRUE, "bbr", FALSE)}
RadioOff == {Packet(TRUE, FALSE, "none", TRUE), Packet(FALSE, TRUE, "bbr", FALSE)}
RadioTrends == [signal : {"falling", "rising"}, starved : {FALSE}] \cup [signal : {"flat"}, starved : BOOLEAN]
=============================================================================
