------------------------- MODULE TransportRefinesLease -------------------------
(***************************************************************************)
(* FrameTransport implements SlotLease: the queues, the pipe and the       *)
(* threads never do to a slot what the abstract lease protocol forbids.    *)
(*                                                                         *)
(* Where a frame is follows from the queues and the threads' variables.    *)
(* The texture a frame was blitted into is history (homeGen, homeSlot):    *)
(* once its messages are gone nothing in the code records it.              *)
(***************************************************************************)
EXTENDS FrameTransport, TLC

(* A frame that could not be queued ("stale") is lost: only its ring will  *)
(* be given up for it.                                                     *)
Waiting ==
    UNION {IF pcP \in {"ready", "readyPush"} THEN FrameOf(ready) ELSE {},
           Carries(pending_), Carries(toHelper), FrameOf(hpending),
           IF pcE \notin {"copying", "finish"} THEN FrameOf(eFrame) ELSE {}}

FrameAt(f) ==
    IF f > frame_id_ THEN "unborn"
    ELSE IF f \in Waiting THEN "ready"
    ELSE IF f \in FrameOf(eFrame) /\ pcE = "copying" THEN "copying"
    ELSE IF f \in FrameOf(eFrame) /\ pcE = "finish" THEN "copied"
    ELSE IF f \in Carries(done_) \cup Carries(toShim) THEN "done"
    ELSE "gone"

at == [f \in Frame |-> FrameAt(f)]

Abstract == INSTANCE SlotLease WITH at <- at

(* Every behaviour of the transport is one of the lease protocol, so what  *)
(* is proved of SlotLease (no torn read, a held slot stays owned, a        *)
(* FrameDone frees only the slot of its own frame and ring) holds of the   *)
(* threads of shim and helper.                                             *)
ImplementsLease == Abstract!LeaseSpec

(* The inductive invariant of the lease, as the threads keep it.           *)
LeaseInv == Abstract!LeaseInv

(* The helper's encoder never copies a texture while Present blits into    *)
(* it, nor after it was given to another frame.                            *)
NoTornRead == Abstract!NoTornRead

(* A slot whose frame is anywhere between Present and the FrameDone's      *)
(* arrival is not leased again (frame_staging.cpp:288-324).                *)
HeldStaysOwned == Abstract!HeldStaysOwned

(* A FrameDone on the pipe that matches a slot by id is for the slot's own *)
(* ring (frame_staging.cpp:371-373), while one vrserver lives.             *)
IdMatchIsGenerationMatch == Abstract!IdMatchIsGenerationMatch

ModeSymmetry == Permutations(Modes)
=============================================================================
