------------------------------- MODULE SlotLease -------------------------------
(***************************************************************************)
(* What the frame transport between shim and helper promises about a       *)
(* staging slot, with the queues, the pipe and the threads taken away.     *)
(*                                                                         *)
(* A frame the shim has announced is in exactly one place: still to be     *)
(* looked at by the helper ("ready"), being copied by it ("copying"),      *)
(* copied ("copied"), answered with a FrameDone the shim has not seen      *)
(* ("done"), or finished with ("gone").  A crash, a lost session or a      *)
(* discarded queue makes any set of frames "gone" at any time.             *)
(* FrameTransport implements this specification.                           *)
(***************************************************************************)
EXTENDS FrameStagingRing

VARIABLES
    at,    \* where each frame is
    homeGen,  \* the texture each frame was blitted into:
    homeSlot  \* ring generation and slot

leaseVars == <<ringVars, at, homeGen, homeSlot>>

Place == {"unborn", "ready", "copying", "copied", "done", "gone"}
Frame == 1 .. MaxFrame
Held == {"ready", "copying", "copied"}   \* the helper has not answered yet

LeaseTypeOK ==
    /\ RingTypeOK
    /\ at \in [Frame -> Place]
    /\ homeGen \in [Frame -> Generation]
    /\ homeSlot \in [Frame -> Slot]

LeaseInit ==
    /\ RingInit
    /\ at = [f \in Frame |-> "unborn"]
    /\ homeGen = [f \in Frame |-> 0]
    /\ homeSlot = [f \in Frame |-> 0]

-----------------------------------------------------------------------------
Rebuild == \E m \in Modes : create(m) /\ UNCHANGED <<at, homeGen, homeSlot>>

RebuildFails == create_fails /\ UNCHANGED <<at, homeGen, homeSlot>>

Lease == \E s \in Slot : acquire_slot(s) /\ UNCHANGED <<at, homeGen, homeSlot>>

Announce ==
    \E s \in Slot :
      /\ release_to_helper(s)
      /\ at' = [at EXCEPT ![frame_id_ + 1] = "ready"]
      /\ homeGen' = [homeGen EXCEPT ![frame_id_ + 1] = generation_]
      /\ homeSlot' = [homeSlot EXCEPT ![frame_id_ + 1] = s]

Return == \E s \in Slot : return_slot(s) /\ UNCHANGED <<at, homeGen, homeSlot>>

MarkStale == mark_stale /\ UNCHANGED <<at, homeGen, homeSlot>>

StartCopy(f) ==
    /\ at[f] = "ready"
    /\ stage_acquire(homeGen[f], homeSlot[f])
    /\ at' = [at EXCEPT ![f] = "copying"]
    /\ UNCHANGED <<homeGen, homeSlot>>

EndCopy(f) ==
    /\ at[f] = "copying"
    /\ stage_release(homeGen[f], homeSlot[f])
    /\ at' = [at EXCEPT ![f] = "copied"]
    /\ UNCHANGED <<homeGen, homeSlot>>

(* FrameDone, with or without the helper having touched the slot.  A full  *)
(* queue of answers loses an older one for it.                             *)
Answer(f) ==
    /\ at[f] \in {"ready", "copied"}
    /\ \/ at' = [at EXCEPT ![f] = "done"]
       \/ \E g \in Frame : at[g] = "done" /\ at' = [at EXCEPT ![f] = "done", ![g] = "gone"]
    /\ UNCHANGED <<ringVars, homeGen, homeSlot>>

Done(f) ==
    /\ at[f] = "done"
    /\ on_frame_done(f, homeSlot[f])
    /\ at' = [at EXCEPT ![f] = "gone"]
    /\ UNCHANGED <<homeGen, homeSlot>>

(* A helper that dies while copying abandons the mutex.                    *)
Lose(F) ==
    /\ \A f \in F : at[f] \in {"ready", "copying", "copied", "done"}
    /\ at' = [f \in Frame |-> IF f \in F THEN "gone" ELSE at[f]]
    /\ keyed' = [g \in Generation |-> [s \in Slot |->
                   IF \E f \in F : at[f] = "copying" /\ homeGen[f] = g /\ homeSlot[f] = s
                     THEN "abandoned" ELSE keyed[g][s]]]
    /\ UNCHANGED <<generation_, built, mode_, stale_, next_, slots_, frame_id_, pixels,
                   homeGen, homeSlot>>

LeaseNext ==
    \/ Rebuild
    \/ RebuildFails
    \/ Lease
    \/ Announce
    \/ Return
    \/ MarkStale
    \/ \E f \in Frame : StartCopy(f) \/ EndCopy(f) \/ Answer(f) \/ Done(f)
    \/ \E F \in SUBSET Frame : Lose(F)

LeaseSpec == LeaseInit /\ [][LeaseNext]_leaseVars

-----------------------------------------------------------------------------
(* The helper never copies from a texture that the shim is blitting into   *)
(* or has since given to another frame: what it encodes for frame f is     *)
(* what the compositor rendered for f, whatever the order of rebuilds,     *)
(* FrameDones, crashes and reclaimed mutexes.                              *)
NoTornRead == \A f \in Frame : at[f] = "copying" => pixels[homeGen[f]][homeSlot[f]] = f

(* A slot of the current ring that the helper has not answered for is not  *)
(* leased again and still carries the frame's id, so that its FrameDone    *)
(* will free it.                                                           *)
HeldStaysOwned ==
    \A f \in Frame :
      (built /\ at[f] \in Held /\ homeGen[f] = generation_)
        => /\ slots_[homeSlot[f]].helper_owned
           /\ ~slots_[homeSlot[f]].leased
           /\ slots_[homeSlot[f]].frame_id = f

(* frame_staging.cpp:371-373: "an id match is also a generation match: a   *)
(* FrameDone for a ring we have already thrown away can never collide with *)
(* a lease of the current one".                                            *)
IdMatchIsGenerationMatch ==
    \A f \in Frame :
      (at[f] = "done" /\ DoneMatches(f, homeSlot[f])) => homeGen[f] = generation_

-----------------------------------------------------------------------------
(* The strengthening that makes the three invariants inductive.            *)

(* Ids are handed out in order and every one belongs to a frame.           *)
BornInOrder == \A f \in Frame : at[f] = "unborn" <=> f > frame_id_

(* A frame's texture belongs to a ring that exists or has existed.         *)
HomeExists == \A f \in Frame : at[f] # "unborn" => homeGen[f] <= generation_

(* Nothing is handed out of a ring that is not there.                      *)
NoRingNoLease == ~built => \A s \in Slot : slots_[s] = FreeSlot

(* A slot that waits for a FrameDone waits for a frame it did carry.       *)
OwnedNamesItsFrame ==
    \A s \in Slot :
      slots_[s].helper_owned =>
        /\ slots_[s].frame_id \in 1 .. frame_id_
        /\ homeGen[slots_[s].frame_id] = generation_
        /\ homeSlot[slots_[s].frame_id] = s

(* A frame not yet copied is still in its texture.                         *)
PixelsWait ==
    \A f \in Frame : at[f] \in {"ready", "copying"} => pixels[homeGen[f]][homeSlot[f]] = f

CopyHoldsMutex == \A f \in Frame : at[f] = "copying" => keyed[homeGen[f]][homeSlot[f]] = "helper"

LeaseInv ==
    /\ LeaseTypeOK
    /\ BornInOrder
    /\ HomeExists
    /\ NoRingNoLease
    /\ OwnedNamesItsFrame
    /\ HeldStaysOwned
    /\ PixelsWait
    /\ CopyHoldsMutex
=============================================================================
