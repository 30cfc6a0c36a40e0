--------------------------- MODULE FrameStagingRing ---------------------------
(***************************************************************************)
(* The ring of shared staging textures that the shim (the OpenVR driver in *)
(* vrserver) blits frames into and the helper process encodes from:        *)
(* shim/src/frame_staging.{h,cpp} and, on the helper's side of the same    *)
(* textures, helper/src/encoder/d3d11_stage.cpp.                           *)
(*                                                                         *)
(* This module holds the state of the ring and one action per operation;   *)
(* SlotLease and FrameTransport extend it with the parties that call the   *)
(* operations.  Every operation of FrameStagingRing runs under its mutex_, *)
(* so each one is a single step.                                           *)
(***************************************************************************)
EXTENDS Naturals

CONSTANTS
    Count,          \* slots of a ring (kStagingSlots)
    Modes,          \* geometry/format combinations a frame can ask for
    MaxGeneration,  \* bound: rings created
    MaxFrame        \* bound: frames announced

ASSUME RingAssumption ==
    /\ Count \in Nat \ {0}
    /\ MaxGeneration \in Nat
    /\ MaxFrame \in Nat

Slot == 0 .. Count - 1
Generation == 0 .. MaxGeneration
FrameId == 0 .. MaxFrame

(* A keyed mutex is released under key 0 or key 1, held by one of the two  *)
(* processes, or was held by a process that died.                          *)
KeyState == {"k0", "k1", "shim", "helper", "abandoned"}

VARIABLES
    generation_,  \* FrameStagingRing::generation_
    built,        \* count_ # 0
    mode_,        \* width_, height_ and format_ as one value
    stale_,       \* FrameStagingRing::stale_
    next_,        \* FrameStagingRing::next_
    slots_,       \* helper_owned, leased and frame_id of every slot
    frame_id_,    \* DirectModeComponent::frame_id_
    keyed,        \* the keyed mutex of every texture ever created
    pixels        \* the frame whose pixels a texture holds, 0 while a blit is under way

ringVars == <<generation_, built, mode_, stale_, next_, slots_, frame_id_, keyed, pixels>>

FreeSlot == [helper_owned |-> FALSE, leased |-> FALSE, frame_id |-> 0]

SlotState == [helper_owned : BOOLEAN, leased : BOOLEAN, frame_id : FrameId]

RingTypeOK ==
    /\ generation_ \in Generation
    /\ built \in BOOLEAN
    /\ mode_ \in Modes
    /\ stale_ \in BOOLEAN
    /\ next_ \in Slot
    /\ slots_ \in [Slot -> SlotState]
    /\ frame_id_ \in FrameId
    /\ keyed \in [Generation -> [Slot -> KeyState]]
    /\ pixels \in [Generation -> [Slot -> FrameId]]

RingInit ==
    /\ generation_ = 0
    /\ built = FALSE
    /\ mode_ \in Modes
    /\ stale_ = FALSE
    /\ next_ = 0
    /\ slots_ = [s \in Slot |-> FreeSlot]
    /\ frame_id_ = 0
    /\ keyed = [g \in Generation |-> [s \in Slot |-> "k0"]]
    /\ pixels = [g \in Generation |-> [s \in Slot |-> 0]]

-----------------------------------------------------------------------------
(* The shim's operations.                                                  *)

matches(m) == built /\ ~stale_ /\ mode_ = m

(* Broken on purpose: the slots of the old ring are not forgotten.         *)
destroy_locked_KeepsSlots ==
    /\ keyed' = [keyed EXCEPT ![generation_] =
                    [s \in Slot |-> IF slots_[s].leased THEN "k0" ELSE @[s]]]
    /\ stale_' = FALSE
    /\ next_' = 0
    /\ UNCHANGED slots_

(* A mutex still leased is released with key 0, every slot is forgotten.   *)
destroy_locked ==
    /\ keyed' = [keyed EXCEPT ![generation_] =
                    [s \in Slot |-> IF slots_[s].leased THEN "k0" ELSE @[s]]]
    /\ slots_' = [s \in Slot |-> FreeSlot]
    /\ stale_' = FALSE
    /\ next_' = 0

(* The new textures are released under key 0 by construction.              *)
create(m) ==
    /\ generation_ < MaxGeneration
    /\ destroy_locked
    /\ built' = TRUE
    /\ mode_' = m
    /\ generation_' = generation_ + 1
    /\ UNCHANGED <<frame_id_, pixels>>

(* Any CreateTexture2D, CreateSharedHandle or QueryInterface failure leaves *)
(* no ring at all, and the generation where it was.                         *)
create_fails ==
    /\ destroy_locked
    /\ built' = FALSE
    /\ UNCHANGED <<generation_, mode_, frame_id_, pixels>>

(* AcquireSync(0), then AcquireSync(1) for a release the helper never       *)
(* consumed; an abandoned mutex is taken anyway.                            *)
Takeable(s) ==
    /\ ~slots_[s].helper_owned
    /\ ~slots_[s].leased
    /\ keyed[generation_][s] \in {"k0", "k1", "abandoned"}

RoundRobin(d) == (next_ + d) % Count

CanAcquire == built /\ ~stale_ /\ \E s \in Slot : Takeable(s)

(* Broken on purpose: the first slot whose mutex can be had, without regard *)
(* to a frame the helper has yet to copy.                                   *)
acquire_slot_MutexOnly(s) ==
    LET CanLock(t) == keyed[generation_][t] \in {"k0", "k1", "abandoned"}
    IN  /\ built
        /\ ~stale_
        /\ CanLock(s) /\ \A t \in 0 .. s - 1 : ~CanLock(t)
        /\ slots_' = [slots_ EXCEPT ![s] = [helper_owned |-> FALSE,
                                            leased |-> TRUE,
                                            frame_id |-> slots_[s].frame_id]]
        /\ next_' = (s + 1) % Count
        /\ keyed' = [keyed EXCEPT ![generation_][s] = "shim"]
        /\ pixels' = [pixels EXCEPT ![generation_][s] = 0]
        /\ UNCHANGED <<generation_, built, mode_, stale_, frame_id_>>

(* The blit that follows overwrites the texture: its pixels are torn until *)
(* release_to_helper.                                                      *)
acquire_slot(s) ==
    /\ built
    /\ ~stale_
    /\ Takeable(s)
    /\ \E d \in Slot :
         /\ s = RoundRobin(d)
         /\ \A e \in 0 .. d - 1 : ~Takeable(RoundRobin(e))
    /\ slots_' = [slots_ EXCEPT ![s] = [helper_owned |-> FALSE,
                                        leased |-> TRUE,
                                        frame_id |-> slots_[s].frame_id]]
    /\ next_' = (s + 1) % Count
    /\ keyed' = [keyed EXCEPT ![generation_][s] = "shim"]
    /\ pixels' = [pixels EXCEPT ![generation_][s] = 0]
    /\ UNCHANGED <<generation_, built, mode_, stale_, frame_id_>>

release_to_helper(s) ==
    /\ built
    /\ slots_[s].leased
    /\ frame_id_ < MaxFrame
    /\ frame_id_' = frame_id_ + 1
    /\ keyed' = [keyed EXCEPT ![generation_][s] = "k1"]
    /\ pixels' = [pixels EXCEPT ![generation_][s] = frame_id_ + 1]
    /\ slots_' = [slots_ EXCEPT ![s] = [helper_owned |-> TRUE,
                                        leased |-> FALSE,
                                        frame_id |-> frame_id_ + 1]]
    /\ UNCHANGED <<generation_, built, mode_, stale_, next_>>

return_slot(s) ==
    /\ built
    /\ slots_[s].leased
    /\ keyed' = [keyed EXCEPT ![generation_][s] = "k0"]
    /\ slots_' = [slots_ EXCEPT ![s] = FreeSlot]
    /\ UNCHANGED <<generation_, built, mode_, stale_, next_, frame_id_, pixels>>

(* Broken on purpose: the frame id is not compared.                        *)
DoneMatches_AnyFrame(f, s) == built /\ slots_[s].helper_owned

(* Broken on purpose: a frame id at or below the slot's frees it.          *)
DoneMatches_Older(f, s) == built /\ slots_[s].helper_owned /\ slots_[s].frame_id >= f

(* FrameDone carries a frame id and a slot index, and no generation.       *)
DoneMatches(f, s) == built /\ slots_[s].helper_owned /\ slots_[s].frame_id = f

on_frame_done(f, s) ==
    /\ slots_' = IF DoneMatches(f, s)
                   THEN [slots_ EXCEPT ![s] = [helper_owned |-> FALSE,
                                             leased |-> slots_[s].leased,
                                             frame_id |-> 0]]
                   ELSE slots_
    /\ UNCHANGED <<generation_, built, mode_, stale_, next_, frame_id_, keyed, pixels>>

mark_stale ==
    /\ stale_' = (stale_ \/ built)
    /\ UNCHANGED <<generation_, built, mode_, next_, slots_, frame_id_, keyed, pixels>>

-----------------------------------------------------------------------------
(* The helper's operations on slot s of ring g, through its own handles.   *)

StageCanAcquire(g, s) == keyed[g][s] \in {"k1", "abandoned"}

stage_acquire(g, s) ==
    /\ StageCanAcquire(g, s)
    /\ keyed' = [keyed EXCEPT ![g][s] = "helper"]
    /\ UNCHANGED <<generation_, built, mode_, stale_, next_, slots_, frame_id_, pixels>>

stage_release(g, s) ==
    /\ keyed' = [keyed EXCEPT ![g][s] = "k0"]
    /\ UNCHANGED <<generation_, built, mode_, stale_, next_, slots_, frame_id_, pixels>>
=============================================================================
