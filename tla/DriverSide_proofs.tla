--------------------------- MODULE DriverSide_proofs ---------------------------
(***************************************************************************)
(* Proofs about two parts of the driver that share no state: the lease of  *)
(* a staging slot (SlotLease), for every number of slots, rings and        *)
(* frames, and the threads of a driver that is loaded and unloaded         *)
(* (ShimLifecycle), for every number of loads.                             *)
(***************************************************************************)
EXTENDS SlotLease, ShimLifecycle, TLAPS

-----------------------------------------------------------------------------
(* The lease of a staging slot. *)

(* A ring has at least one slot and the index of the next one is in range. *)
LEMMA SlotFacts ==
    /\ 0 \in Slot
    /\ 0 \in Generation
    /\ 0 \in FrameId
    /\ \A n \in Nat : n % Count \in Slot
    /\ Slot \subseteq Nat
  BY RingAssumption DEF Slot, Generation, FrameId

(* The initial state satisfies the inductive invariant.                    *)
LEMMA LeaseInitInv == LeaseInit => LeaseInv
  <1> SUFFICES ASSUME LeaseInit PROVE LeaseInv
    OBVIOUS
  <1> USE RingAssumption, SlotFacts
  <1>1. LeaseTypeOK
    BY DEF LeaseInit, RingInit, LeaseTypeOK, RingTypeOK, FreeSlot, SlotState,
           KeyState, Place, Slot, Generation, FrameId, Frame
  <1>2. BornInOrder
    BY DEF LeaseInit, RingInit, BornInOrder, Frame
  <1>3. NoRingNoLease /\ OwnedNamesItsFrame
    BY DEF LeaseInit, RingInit, NoRingNoLease, OwnedNamesItsFrame, FreeSlot
  <1>4. HomeExists /\ HeldStaysOwned /\ PixelsWait /\ CopyHoldsMutex
    BY DEF LeaseInit, RingInit, HomeExists, HeldStaysOwned, PixelsWait, CopyHoldsMutex, Held
  <1> QED BY <1>1, <1>2, <1>3, <1>4 DEF LeaseInv

(* Every operation of the ring and of the helper keeps the type invariant. *)
LEMMA LeaseTypeStep == LeaseTypeOK /\ [LeaseNext]_leaseVars => LeaseTypeOK'
  <1> SUFFICES ASSUME LeaseTypeOK, [LeaseNext]_leaseVars PROVE LeaseTypeOK'
    OBVIOUS
  <1> USE RingAssumption, SlotFacts
  <1> USE DEF LeaseTypeOK, RingTypeOK, Place, Frame, FrameId, Generation, SlotState, KeyState, FreeSlot
  <1>1. CASE Rebuild
    <2> PICK m \in Modes : create(m) /\ UNCHANGED <<at, homeGen, homeSlot>>
      BY <1>1 DEF Rebuild
    <2>1. generation_' \in Generation /\ mode_' \in Modes
      BY DEF create
    <2>2. slots_' \in [Slot -> SlotState] /\ next_' \in Slot
      BY DEF create, destroy_locked
    <2>3. keyed' \in [Generation -> [Slot -> KeyState]]
      BY DEF create, destroy_locked
    <2> QED BY <2>1, <2>2, <2>3 DEF create, destroy_locked
  <1>2. CASE RebuildFails
    BY <1>2 DEF RebuildFails, create_fails, destroy_locked
  <1>3. CASE Lease
    <2> PICK s \in Slot : acquire_slot(s) /\ UNCHANGED <<at, homeGen, homeSlot>>
      BY <1>3 DEF Lease
    <2>1. slots_' \in [Slot -> SlotState]
      BY DEF acquire_slot
    <2>2. next_' \in Slot
      BY DEF acquire_slot
    <2>3. keyed' \in [Generation -> [Slot -> KeyState]] /\ pixels' \in [Generation -> [Slot -> FrameId]]
      BY DEF acquire_slot
    <2> QED BY <2>1, <2>2, <2>3 DEF acquire_slot
  <1>4. CASE Announce
    <2> PICK s \in Slot : /\ release_to_helper(s)
                          /\ at' = [at EXCEPT ![frame_id_ + 1] = "ready"]
                          /\ homeGen' = [homeGen EXCEPT ![frame_id_ + 1] = generation_]
                          /\ homeSlot' = [homeSlot EXCEPT ![frame_id_ + 1] = s]
      BY <1>4 DEF Announce
    <2>1. frame_id_' \in FrameId /\ frame_id_ + 1 \in FrameId
      BY DEF release_to_helper
    <2>2. slots_' \in [Slot -> SlotState]
      BY <2>1 DEF release_to_helper
    <2>3. keyed' \in [Generation -> [Slot -> KeyState]] /\ pixels' \in [Generation -> [Slot -> FrameId]]
      BY <2>1 DEF release_to_helper
    <2>4. at' \in [Frame -> Place] /\ homeGen' \in [Frame -> Generation] /\ homeSlot' \in [Frame -> Slot]
      BY <2>1 DEF release_to_helper
    <2> QED BY <2>1, <2>2, <2>3, <2>4 DEF release_to_helper
  <1>5. CASE Return
    <2> PICK s \in Slot : return_slot(s) /\ UNCHANGED <<at, homeGen, homeSlot>>
      BY <1>5 DEF Return
    <2>1. slots_' \in [Slot -> SlotState]
      BY DEF return_slot
    <2>2. keyed' \in [Generation -> [Slot -> KeyState]]
      BY DEF return_slot
    <2> QED BY <2>1, <2>2 DEF return_slot
  <1>6. CASE MarkStale
    BY <1>6 DEF MarkStale, mark_stale
  <1>7. ASSUME NEW f \in Frame, StartCopy(f) PROVE LeaseTypeOK'
    BY <1>7 DEF StartCopy, stage_acquire
  <1>8. ASSUME NEW f \in Frame, EndCopy(f) PROVE LeaseTypeOK'
    BY <1>8 DEF EndCopy, stage_release
  <1>9. ASSUME NEW f \in Frame, Answer(f) PROVE LeaseTypeOK'
    BY <1>9 DEF Answer, ringVars
  <1>10. ASSUME NEW f \in Frame, Done(f) PROVE LeaseTypeOK'
    <2>1. homeSlot[f] \in Slot
      BY <1>10
    <2>2. slots_' \in [Slot -> SlotState]
      BY <1>10, <2>1 DEF Done, on_frame_done
    <2>3. at' \in [Frame -> Place]
      BY <1>10 DEF Done
    <2> QED BY <1>10, <2>2, <2>3 DEF Done, on_frame_done
  <1>11. ASSUME NEW F \in SUBSET Frame, Lose(F) PROVE LeaseTypeOK'
    BY <1>11 DEF Lose
  <1>12. CASE UNCHANGED leaseVars
    BY <1>12 DEF leaseVars, ringVars
  <1> QED
    BY <1>1, <1>2, <1>3, <1>4, <1>5, <1>6, <1>7, <1>8, <1>9, <1>10, <1>11, <1>12 DEF LeaseNext

(* Every step keeps the whole inductive invariant.  The arguments that     *)
(* matter: a lease only takes a slot no held frame is in, two frames whose *)
(* pixels are both in one texture are the same frame, and a rebuild moves  *)
(* the generation past every home.                                         *)
LEMMA LeaseInvStep == LeaseInv /\ [LeaseNext]_leaseVars => LeaseInv'
  <1> SUFFICES ASSUME LeaseInv, [LeaseNext]_leaseVars PROVE LeaseInv'
    OBVIOUS
  <1>t. LeaseTypeOK /\ LeaseTypeOK'
    BY LeaseTypeStep DEF LeaseInv
  <1>n. /\ MaxFrame \in Nat
        /\ generation_ \in Nat
        /\ frame_id_ \in Nat
        /\ \A f \in Frame : f \in Nat /\ homeGen[f] \in Nat /\ homeSlot[f] \in Slot
    <2>1. MaxFrame \in Nat /\ generation_ \in Nat /\ frame_id_ \in Nat
      BY <1>t, RingAssumption DEF LeaseTypeOK, RingTypeOK, Generation, FrameId
    <2>2. \A f \in Frame : f \in Nat
      BY DEF Frame
    <2>3. \A f \in Frame : homeGen[f] \in Nat /\ homeSlot[f] \in Slot
      BY <1>t DEF LeaseTypeOK, Generation
    <2> QED BY <2>1, <2>2, <2>3
  <1>b. BornInOrder /\ HomeExists
    BY DEF LeaseInv
  <1>o. NoRingNoLease /\ OwnedNamesItsFrame
    BY DEF LeaseInv
  <1>h. HeldStaysOwned
    BY DEF LeaseInv
  <1>p. PixelsWait /\ CopyHoldsMutex
    BY DEF LeaseInv
  <1> USE DEF LeaseTypeOK, RingTypeOK
  <1>1. CASE Rebuild
    <2> PICK m \in Modes : create(m) /\ UNCHANGED <<at, homeGen, homeSlot>>
      BY <1>1 DEF Rebuild
    <2>1. BornInOrder' /\ HomeExists'
      BY <1>n, <1>b DEF create, BornInOrder, HomeExists
    <2>2. NoRingNoLease' /\ OwnedNamesItsFrame'
      BY <1>t DEF create, destroy_locked, FreeSlot, NoRingNoLease, OwnedNamesItsFrame
    <2>3. HeldStaysOwned'
      BY <1>n, <1>b DEF create, HomeExists, HeldStaysOwned, Held
    <2>4. PixelsWait'
      BY <1>t, <1>p DEF create, PixelsWait
    <2>5. CopyHoldsMutex'
      <3> SUFFICES ASSUME NEW f \in Frame, at[f] = "copying"
                   PROVE  keyed'[homeGen[f]][homeSlot[f]] = "helper"
        BY DEF create, CopyHoldsMutex
      <3>1. keyed[homeGen[f]][homeSlot[f]] = "helper" /\ homeGen[f] \in Generation /\ homeSlot[f] \in Slot
        BY <1>t, <1>p DEF CopyHoldsMutex
      <3>2. homeGen[f] = generation_ => ~slots_[homeSlot[f]].leased
        BY <1>n, <1>h, <1>o DEF HeldStaysOwned, Held, NoRingNoLease, FreeSlot
      <3> QED BY <1>t, <3>1, <3>2 DEF create, destroy_locked
    <2> QED BY <1>t, <2>1, <2>2, <2>3, <2>4, <2>5 DEF LeaseInv
  <1>2. CASE RebuildFails
    <2> USE <1>2 DEF RebuildFails, create_fails
    <2>1. BornInOrder' /\ HomeExists'
      BY <1>t, <1>b DEF BornInOrder, HomeExists
    <2>2. NoRingNoLease' /\ OwnedNamesItsFrame'
      BY <1>t DEF destroy_locked, FreeSlot, NoRingNoLease, OwnedNamesItsFrame
    <2>3. HeldStaysOwned' /\ PixelsWait'
      BY <1>t, <1>p DEF HeldStaysOwned, PixelsWait
    <2>4. CopyHoldsMutex'
      <3> SUFFICES ASSUME NEW f \in Frame, at[f] = "copying"
                   PROVE  keyed'[homeGen[f]][homeSlot[f]] = "helper"
        BY DEF CopyHoldsMutex
      <3>1. keyed[homeGen[f]][homeSlot[f]] = "helper" /\ homeGen[f] \in Generation /\ homeSlot[f] \in Slot
        BY <1>t, <1>p DEF CopyHoldsMutex
      <3>2. homeGen[f] = generation_ => ~slots_[homeSlot[f]].leased
        BY <1>n, <1>h, <1>o DEF HeldStaysOwned, Held, NoRingNoLease, FreeSlot
      <3> QED BY <1>t, <3>1, <3>2 DEF destroy_locked
    <2> QED BY <1>t, <2>1, <2>2, <2>3, <2>4 DEF LeaseInv
  <1>3. CASE Lease
    <2> PICK s \in Slot : acquire_slot(s) /\ UNCHANGED <<at, homeGen, homeSlot>>
      BY <1>3 DEF Lease
    <2>0. \A f \in Frame : at[f] \in Held => ~(homeGen[f] = generation_ /\ homeSlot[f] = s)
      BY <1>n, <1>h DEF acquire_slot, Takeable, HeldStaysOwned
    <2>1. BornInOrder' /\ HomeExists'
      BY <1>t, <1>b DEF acquire_slot, BornInOrder, HomeExists
    <2>2. NoRingNoLease' /\ OwnedNamesItsFrame'
      BY <1>t, <1>o DEF acquire_slot, NoRingNoLease, OwnedNamesItsFrame
    <2>3. HeldStaysOwned'
      BY <1>t, <1>h, <2>0 DEF acquire_slot, HeldStaysOwned
    <2>4. PixelsWait'
      BY <1>t, <1>p, <2>0 DEF acquire_slot, PixelsWait, Held
    <2>5. CopyHoldsMutex'
      BY <1>t, <1>p, <2>0 DEF acquire_slot, CopyHoldsMutex, Held
    <2> QED BY <1>t, <2>1, <2>2, <2>3, <2>4, <2>5 DEF LeaseInv
  <1>4. CASE Announce
    <2> PICK s \in Slot : /\ release_to_helper(s)
                          /\ at' = [at EXCEPT ![frame_id_ + 1] = "ready"]
                          /\ homeGen' = [homeGen EXCEPT ![frame_id_ + 1] = generation_]
                          /\ homeSlot' = [homeSlot EXCEPT ![frame_id_ + 1] = s]
      BY <1>4 DEF Announce
    <2> DEFINE f0 == frame_id_ + 1
    <2>0. /\ f0 \in Frame
          /\ frame_id_' = f0
          /\ \A f \in Frame : at[f] \in Held => ~(homeGen[f] = generation_ /\ homeSlot[f] = s)
      BY <1>n, <1>h DEF release_to_helper, HeldStaysOwned, Frame
    <2>1a. BornInOrder'
      <3> SUFFICES ASSUME NEW f \in Frame PROVE at'[f] = "unborn" <=> f > frame_id_'
        BY DEF BornInOrder
      <3>1. CASE f = f0
        BY <1>t, <1>n, <2>0, <3>1
      <3>2. CASE f # f0
        <4>1. at'[f] = at[f]
          BY <1>t, <3>2
        <4>2. f > frame_id_ <=> f > f0
          BY <1>n, <3>2
        <4> QED BY <1>b, <2>0, <4>1, <4>2 DEF BornInOrder
      <3> QED BY <3>1, <3>2
    <2>1b. HomeExists'
      BY <1>t, <1>n, <1>b, <2>0 DEF release_to_helper, HomeExists
    <2>2. NoRingNoLease'
      BY <1>t, <1>o DEF release_to_helper, NoRingNoLease
    <2>3. OwnedNamesItsFrame'
      <3> SUFFICES ASSUME NEW r \in Slot, slots_'[r].helper_owned
                   PROVE  /\ slots_'[r].frame_id \in 1 .. frame_id_'
                          /\ homeGen'[slots_'[r].frame_id] = generation_'
                          /\ homeSlot'[slots_'[r].frame_id] = r
        BY DEF OwnedNamesItsFrame
      <3>1. CASE r = s
        BY <1>t, <1>n, <2>0, <3>1 DEF release_to_helper
      <3>2. CASE r # s
        <4>1. slots_'[r] = slots_[r]
          BY <1>t, <3>2 DEF release_to_helper
        <4>2. slots_[r].frame_id \in 1 .. frame_id_ /\ slots_[r].frame_id \in Frame
          <5>1. slots_[r].frame_id \in 1 .. frame_id_
            BY <1>o, <4>1 DEF OwnedNamesItsFrame
          <5>2. frame_id_ \in 0 .. MaxFrame
            BY <1>t DEF FrameId
          <5> QED BY <1>n, <5>1, <5>2 DEF Frame
        <4> QED BY <1>t, <1>n, <1>o, <2>0, <4>1, <4>2 DEF release_to_helper, OwnedNamesItsFrame
      <3> QED BY <3>1, <3>2
    <2>4. HeldStaysOwned'
      BY <1>t, <1>h, <2>0 DEF release_to_helper, HeldStaysOwned
    <2>5. PixelsWait'
      BY <1>t, <1>p, <2>0 DEF release_to_helper, PixelsWait, Held
    <2>6. CopyHoldsMutex'
      BY <1>t, <1>p, <2>0 DEF release_to_helper, CopyHoldsMutex, Held
    <2> QED BY <1>t, <2>1a, <2>1b, <2>2, <2>3, <2>4, <2>5, <2>6 DEF LeaseInv
  <1>5. CASE Return
    <2> PICK s \in Slot : return_slot(s) /\ UNCHANGED <<at, homeGen, homeSlot>>
      BY <1>5 DEF Return
    <2>0. \A f \in Frame : at[f] \in Held => ~(homeGen[f] = generation_ /\ homeSlot[f] = s)
      BY <1>t, <1>h DEF return_slot, HeldStaysOwned
    <2>1. BornInOrder' /\ HomeExists'
      BY <1>t, <1>b DEF return_slot, BornInOrder, HomeExists
    <2>2. NoRingNoLease' /\ OwnedNamesItsFrame'
      BY <1>t, <1>o DEF return_slot, FreeSlot, NoRingNoLease, OwnedNamesItsFrame
    <2>3. HeldStaysOwned' /\ PixelsWait'
      BY <1>t, <1>h, <1>p, <2>0 DEF return_slot, HeldStaysOwned, PixelsWait
    <2>4. CopyHoldsMutex'
      BY <1>t, <1>p, <2>0 DEF return_slot, CopyHoldsMutex, Held
    <2> QED BY <1>t, <2>1, <2>2, <2>3, <2>4 DEF LeaseInv
  <1>6. CASE MarkStale
    <2> USE <1>6 DEF MarkStale, mark_stale
    <2>1. BornInOrder' /\ HomeExists' /\ NoRingNoLease' /\ OwnedNamesItsFrame'
      BY <1>b, <1>o DEF BornInOrder, HomeExists, NoRingNoLease, OwnedNamesItsFrame
    <2>2. HeldStaysOwned' /\ PixelsWait' /\ CopyHoldsMutex'
      BY <1>h, <1>p DEF HeldStaysOwned, PixelsWait, CopyHoldsMutex
    <2> QED BY <1>t, <2>1, <2>2 DEF LeaseInv
  <1>7. ASSUME NEW f0 \in Frame, StartCopy(f0) PROVE LeaseInv'
    <2> USE <1>7 DEF StartCopy, stage_acquire
    <2>1. BornInOrder' /\ HomeExists'
      BY <1>t, <1>b DEF BornInOrder, HomeExists
    <2>2. NoRingNoLease' /\ OwnedNamesItsFrame'
      BY <1>t, <1>o DEF NoRingNoLease, OwnedNamesItsFrame
    <2>3. HeldStaysOwned'
      BY <1>t, <1>h DEF HeldStaysOwned, Held
    <2>4. PixelsWait' /\ CopyHoldsMutex'
      BY <1>t, <1>p DEF PixelsWait, CopyHoldsMutex
    <2> QED BY <1>t, <2>1, <2>2, <2>3, <2>4 DEF LeaseInv
  <1>8. ASSUME NEW f0 \in Frame, EndCopy(f0) PROVE LeaseInv'
    <2> USE <1>8 DEF EndCopy, stage_release
    <2>1. BornInOrder' /\ HomeExists'
      BY <1>t, <1>b DEF BornInOrder, HomeExists
    <2>2. NoRingNoLease' /\ OwnedNamesItsFrame'
      BY <1>t, <1>o DEF NoRingNoLease, OwnedNamesItsFrame
    <2>3. HeldStaysOwned'
      BY <1>t, <1>h DEF HeldStaysOwned, Held
    <2>4. \A f \in Frame : at[f] = "copying" /\ homeGen[f] = homeGen[f0] /\ homeSlot[f] = homeSlot[f0] => f = f0
      BY <1>t, <1>p DEF PixelsWait
    <2>5. PixelsWait' /\ CopyHoldsMutex'
      BY <1>t, <1>p, <2>4 DEF PixelsWait, CopyHoldsMutex
    <2> QED BY <1>t, <2>1, <2>2, <2>3, <2>5 DEF LeaseInv
  <1>9. ASSUME NEW f0 \in Frame, Answer(f0) PROVE LeaseInv'
    <2> USE <1>9 DEF Answer, ringVars
    <2>1. BornInOrder' /\ HomeExists'
      BY <1>t, <1>b DEF BornInOrder, HomeExists
    <2>2. NoRingNoLease' /\ OwnedNamesItsFrame'
      BY <1>t, <1>o DEF NoRingNoLease, OwnedNamesItsFrame
    <2>3. HeldStaysOwned'
      BY <1>t, <1>h DEF HeldStaysOwned, Held
    <2>4. PixelsWait' /\ CopyHoldsMutex'
      BY <1>t, <1>p DEF PixelsWait, CopyHoldsMutex
    <2> QED BY <1>t, <2>1, <2>2, <2>3, <2>4 DEF LeaseInv
  <1>10. ASSUME NEW f0 \in Frame, Done(f0) PROVE LeaseInv'
    <2> USE <1>10 DEF Done, on_frame_done, DoneMatches
    <2>0. homeSlot[f0] \in Slot
      BY <1>t
    <2>1. BornInOrder' /\ HomeExists'
      BY <1>t, <1>b DEF BornInOrder, HomeExists
    <2>2. NoRingNoLease'
      BY <1>t, <1>o, <2>0 DEF NoRingNoLease, FreeSlot
    <2>3. OwnedNamesItsFrame'
      BY <1>t, <1>o, <2>0 DEF OwnedNamesItsFrame
    <2>4. HeldStaysOwned'
      BY <1>t, <1>h, <2>0 DEF HeldStaysOwned, Held
    <2>5. PixelsWait' /\ CopyHoldsMutex'
      BY <1>t, <1>p DEF PixelsWait, CopyHoldsMutex
    <2> QED BY <1>t, <2>1, <2>2, <2>3, <2>4, <2>5 DEF LeaseInv
  <1>11. ASSUME NEW F \in SUBSET Frame, Lose(F) PROVE LeaseInv'
    <2> USE <1>11 DEF Lose
    <2>1. BornInOrder' /\ HomeExists'
      BY <1>t, <1>b DEF BornInOrder, HomeExists
    <2>2. NoRingNoLease' /\ OwnedNamesItsFrame'
      BY <1>t, <1>o DEF NoRingNoLease, OwnedNamesItsFrame
    <2>3. HeldStaysOwned' /\ PixelsWait'
      BY <1>t, <1>h, <1>p DEF HeldStaysOwned, Held, PixelsWait
    <2>4. \A f, g \in Frame : at[f] = "copying" /\ at[g] = "copying" /\ homeGen[f] = homeGen[g] /\ homeSlot[f] = homeSlot[g] => f = g
      BY <1>t, <1>p DEF PixelsWait
    <2>5. CopyHoldsMutex'
      BY <1>t, <1>p, <2>4 DEF CopyHoldsMutex
    <2> QED BY <1>t, <2>1, <2>2, <2>3, <2>5 DEF LeaseInv
  <1>12. CASE UNCHANGED leaseVars
    <2> USE <1>12 DEF leaseVars, ringVars
    <2>1. BornInOrder' /\ HomeExists' /\ NoRingNoLease' /\ OwnedNamesItsFrame'
      BY <1>b, <1>o DEF BornInOrder, HomeExists, NoRingNoLease, OwnedNamesItsFrame
    <2>2. HeldStaysOwned' /\ PixelsWait' /\ CopyHoldsMutex'
      BY <1>h, <1>p DEF HeldStaysOwned, PixelsWait, CopyHoldsMutex
    <2> QED BY <1>t, <2>1, <2>2 DEF LeaseInv
  <1> QED
    BY <1>1, <1>2, <1>3, <1>4, <1>5, <1>6, <1>7, <1>8, <1>9, <1>10, <1>11, <1>12 DEF LeaseNext

(* The invariant the runs check as LeaseInv holds in every behaviour, for  *)
(* every ring size and any number of rebuilds and frames.                  *)
THEOREM LeaseInvariant == LeaseSpec => []LeaseInv
  BY LeaseInitInv, LeaseInvStep, PTL DEF LeaseSpec

(* What the helper encodes for a frame is what was rendered for it.        *)
THEOREM NoTornReadHolds == LeaseSpec => []NoTornRead
  <1>1. LeaseInv => NoTornRead
    BY DEF LeaseInv, PixelsWait, NoTornRead
  <1> QED BY <1>1, LeaseInvariant, PTL

(* A slot the helper has not answered for is still waiting for the answer. *)
THEOREM HeldStaysOwnedHolds == LeaseSpec => []HeldStaysOwned
  <1>1. LeaseInv => HeldStaysOwned
    BY DEF LeaseInv
  <1> QED BY <1>1, LeaseInvariant, PTL

(* FrameDone needs no generation: its frame id identifies the ring.        *)
THEOREM IdMatchHolds == LeaseSpec => []IdMatchIsGenerationMatch
  <1>1. LeaseInv => IdMatchIsGenerationMatch
    <2> SUFFICES ASSUME LeaseInv, NEW f \in Frame, at[f] = "done", DoneMatches(f, homeSlot[f])
                 PROVE  homeGen[f] = generation_
      BY DEF IdMatchIsGenerationMatch
    <2>1. homeSlot[f] \in Slot
      BY DEF LeaseInv, LeaseTypeOK
    <2> QED BY <2>1 DEF LeaseInv, OwnedNamesItsFrame, DoneMatches
  <1> QED BY <1>1, LeaseInvariant, PTL

-----------------------------------------------------------------------------
(* The threads of the driver. *)

(* The steps of cleanup_impl once IdleThread, then the IPC thread, then the *)
(* vsync thread has been joined, the unloaded driver included.             *)
VsyncJoined == {"reset", "set_dead", "cleanup_context", "unloaded"}
IpcJoined == {"shutdown", "stop_vsync", "join_vsync"} \cup VsyncJoined
IdleJoined == {"stop_ipc", "join_ipc"} \cup IpcJoined

(* Each join of cleanup_impl leaves its thread ended for the rest of the    *)
(* unload, and no present is in flight that could start another one.       *)
ThreadsJoined ==
    /\ main \in IdleJoined => idle = "off"
    /\ main \in IpcJoined => ipc = "off"
    /\ main \in VsyncJoined => vsync = "off"
    /\ main \in Cleaning \cup {"unloaded"} => present = "idle"

(* A thread that has fetched the host and is about to call it finds it      *)
(* still there: neither vrctx::set_dead nor the end of the driver context  *)
(* comes between vrctx::host() and the call (hmd_device.cpp, submit_pose;  *)
(* direct_mode.cpp, vsync_loop).                                           *)
HostOutlivesCall == "call" \in {idle, ipc, vsync} => host

ShimInv == TypeOK /\ ThreadsJoined /\ HostOutlivesCall

(* The unloaded driver satisfies the inductive invariant.                  *)
LEMMA ShimInitInv == Init => ShimInv
  <1> SUFFICES ASSUME Init PROVE ShimInv
    OBVIOUS
  <1>1. TypeOK
    <2>1. /\ g_live \in BOOLEAN /\ context \in BOOLEAN /\ activated_ \in BOOLEAN
          /\ idle_running_ \in BOOLEAN /\ running_ \in BOOLEAN /\ stop_event_ \in BOOLEAN
          /\ shut_down_ \in BOOLEAN /\ vsync_started_ \in BOOLEAN
          /\ vsync_running_ \in BOOLEAN /\ ticked \in BOOLEAN
      BY Zenon DEF Init
    <2> QED BY <2>1, ShimAssumption DEF Init, TypeOK, Poses, HelperPoses
  <1>2. ThreadsJoined
    BY DEF Init, ThreadsJoined
  <1>3. HostOutlivesCall
    BY DEF Init, HostOutlivesCall
  <1> QED BY <1>1, <1>2, <1>3 DEF ShimInv

(* Every step of every thread keeps the variables in their types.          *)
LEMMA ShimTypeStep == TypeOK /\ [Next]_vars => TypeOK'
  <1> SUFFICES ASSUME TypeOK, [Next]_vars PROVE TypeOK'
    OBVIOUS
  <1> USE ShimAssumption
  <1> USE DEF TypeOK, Cleaning, Poses, HelperPoses, vars, loadVars, poseVars, idleVars,
              ipcVars, vsyncVars
  <1>1. CASE InitRefused \/ InitFails \/ InitLoads
    <2>1. CASE InitRefused
      <3>1. g_live' \in BOOLEAN /\ context' \in BOOLEAN
        BY <2>1, Zenon DEF InitRefused
      <3> QED BY <2>1, <3>1 DEF InitRefused, CanInit
    <2>2. CASE InitFails
      BY <2>2 DEF InitFails, CanInit
    <2>3. CASE InitLoads
      <3>1. idle_running_' \in BOOLEAN
        BY <2>3, Zenon DEF InitLoads
      <3>2. running_' \in BOOLEAN
        BY <2>3, Zenon DEF InitLoads
      <3>3. ipc' \in {"connect", "off"} /\ idle' \in {"loop", "off"}
        BY <2>3 DEF InitLoads
      <3>4. /\ g_live' \in BOOLEAN /\ context' \in BOOLEAN /\ stop_event_' \in BOOLEAN
            /\ activated_' \in BOOLEAN /\ shut_down_' \in BOOLEAN /\ vsync_started_' \in BOOLEAN
            /\ vsync_running_' \in BOOLEAN /\ ticked' \in BOOLEAN
        BY <2>3, Zenon DEF InitLoads, NewDevices
      <3> QED BY <2>3, <3>1, <3>2, <3>3, <3>4 DEF InitLoads, CanInit, NewDevices
    <2> QED BY <1>1, <2>1, <2>2, <2>3
  <1>2. CASE RunFrameBails \/ RunFrameRegisters \/ Deactivate \/ Quit \/ Cleanup
    <2>1. CASE RunFrameBails
      BY <2>1 DEF RunFrameBails
    <2>2. CASE RunFrameRegisters
      BY <2>2 DEF RunFrameRegisters
    <2>3. CASE Deactivate
      <3>1. activated_' \in BOOLEAN
        BY <2>3, Zenon DEF Deactivate
      <3> QED BY <2>3, <3>1 DEF Deactivate
    <2>4. CASE Quit \/ Cleanup
      BY <2>4 DEF Quit, Cleanup
    <2> QED BY <1>2, <2>1, <2>2, <2>3, <2>4
  <1>3. CASE CleanupStep
    <2>1. CASE StopIdle \/ JoinIdle
      BY <2>1 DEF StopIdle, JoinIdle, Advance
    <2>2. CASE stop
      <3>1. stop_event_' \in BOOLEAN
        BY <2>2, Zenon DEF stop
      <3>2. running_' \in BOOLEAN
        BY <2>2, Zenon DEF stop
      <3> QED BY <2>2, <3>1, <3>2 DEF stop, Advance
    <2>3. CASE JoinIpc \/ Shutdown
      <3>1. stop_event_' \in BOOLEAN /\ shut_down_' \in BOOLEAN
        BY <2>3, Zenon DEF JoinIpc, Shutdown, vsyncVars
      <3> QED BY <2>3, <3>1 DEF JoinIpc, Shutdown, Advance
    <2>4. CASE StopVsync \/ JoinVsync
      BY <2>4 DEF StopVsync, JoinVsync, Advance
    <2>5. CASE ResetDevices \/ SetDead \/ CleanupContext
      <3>1. g_live' \in BOOLEAN /\ context' \in BOOLEAN /\ activated_' \in BOOLEAN
        BY <2>5, Zenon DEF ResetDevices, SetDead, CleanupContext, Advance
      <3> QED BY <2>5, <3>1 DEF ResetDevices, SetDead, CleanupContext, Advance
    <2> QED BY <1>3, <2>1, <2>2, <2>3, <2>4, <2>5 DEF CleanupStep
  <1>4. CASE IdleStep \/ HelperGoesQuiet
    BY <1>4 DEF IdleStep, IdleExits, tick_idle, IdleSubmits, IdleFetchesHost, IdleReports,
                IdleGoes, HelperGoesQuiet
  <1>5. CASE IpcStep
    BY <1>5 DEF IpcStep, IpcExits, run_session, IpcSubmits, IpcFetchesHost, IpcReports,
                SessionStopped, ReadTimeout, on_helper_disconnected, IpcGoes
  <1>6. CASE HelperStep
    BY <1>6 DEF HelperStep, IpcConnects, OnConfig, on_pose_update, SessionEnds, IpcGoes
  <1>7. CASE PostPresent \/ CompositorStep
    BY <1>7 DEF PostPresent, CompositorStep, start_vsync_thread, PresentWakes,
                PresentTimesOut, PresentReturns, DirectModeStep
  <1>8. CASE VsyncStep
    BY <1>8 DEF VsyncStep, VsyncWakes, VsyncReports, DirectModeStep
  <1>9. CASE UNCHANGED vars
    BY <1>9
  <1> QED
    BY <1>1, <1>2, <1>3, <1>4, <1>5, <1>6, <1>7, <1>8, <1>9 DEF Next

(* So do the joins of cleanup_impl: between the join of a thread and the   *)
(* next load nothing starts it again, provided the compositor has stopped. *)
LEMMA ShimThreadsStep ==
    ASSUME CompositorStops = TRUE
    PROVE  ShimInv /\ [Next]_vars => ThreadsJoined' /\ HostOutlivesCall'
  <1> SUFFICES ASSUME ShimInv, [Next]_vars PROVE ThreadsJoined' /\ HostOutlivesCall'
    OBVIOUS
  <1> USE DEF ShimInv, ThreadsJoined, HostOutlivesCall, host, Cleaning, IdleJoined, IpcJoined,
              VsyncJoined, vars, loadVars, poseVars, idleVars, ipcVars, vsyncVars
  <1>1. CASE InitRefused \/ InitFails \/ InitLoads
    BY <1>1 DEF InitRefused, InitFails, InitLoads, CanInit, NewDevices
  <1>2. CASE RunFrameBails \/ RunFrameRegisters \/ Deactivate \/ Quit \/ Cleanup
    BY <1>2 DEF RunFrameBails, RunFrameRegisters, Deactivate, Quit, Cleanup
  <1>3. CASE CleanupStep
    BY <1>3 DEF CleanupStep, StopIdle, JoinIdle, stop, JoinIpc, Shutdown, StopVsync,
                JoinVsync, ResetDevices, SetDead, CleanupContext, Advance
  <1>4. CASE IdleStep \/ HelperGoesQuiet
    BY <1>4 DEF IdleStep, IdleExits, tick_idle, IdleSubmits, IdleFetchesHost, IdleReports,
                IdleGoes, HelperGoesQuiet
  <1>5. CASE IpcStep
    BY <1>5 DEF IpcStep, IpcExits, run_session, IpcSubmits, IpcFetchesHost, IpcReports,
                SessionStopped, ReadTimeout, on_helper_disconnected, IpcGoes
  <1>6. CASE HelperStep
    BY <1>6 DEF HelperStep, IpcConnects, OnConfig, on_pose_update, SessionEnds, IpcGoes
  <1>7. CASE PostPresent \/ CompositorStep
    BY <1>7 DEF PostPresent, CompositorStep, start_vsync_thread, PresentWakes,
                PresentTimesOut, PresentReturns, DirectModeStep
  <1>8. CASE VsyncStep
    BY <1>8 DEF VsyncStep, VsyncWakes, VsyncReports, DirectModeStep
  <1>9. CASE UNCHANGED vars
    BY <1>9
  <1> QED
    BY <1>1, <1>2, <1>3, <1>4, <1>5, <1>6, <1>7, <1>8, <1>9 DEF Next

(* The variables of the life cycle keep their types.                       *)
THEOREM ShimTypeHolds == Spec => []TypeOK
  <1>1. Init => TypeOK
    BY ShimInitInv DEF ShimInv
  <1> QED BY <1>1, ShimTypeStep, PTL DEF Spec

(* The inductive invariant holds in every behaviour whose compositor has   *)
(* returned from PostPresent before Cleanup is called.                     *)
LEMMA ShimInvHolds == ASSUME CompositorStops = TRUE PROVE Spec => []ShimInv
  <1>1. ShimInv /\ [Next]_vars => ShimInv'
    BY ShimTypeStep, ShimThreadsStep DEF ShimInv
  <1> QED BY <1>1, ShimInitInv, PTL DEF Spec

(* Once the headset is destroyed or the driver context cleaned up, no      *)
(* thread of the driver is left: cleanup_impl stops and joins the fallback *)
(* thread, the IPC thread and the vsync thread before it lets go of either *)
(* (driver_provider.cpp:287-289).                                          *)
THEOREM ShimThreadsStopped == ASSUME CompositorStops = TRUE PROVE Spec => []ThreadsStopped
  <1>1. ShimInv => ThreadsStopped
    BY DEF ShimInv, ThreadsJoined, ThreadsStopped, IdleJoined, IpcJoined, VsyncJoined
  <1> QED BY <1>1, ShimInvHolds, PTL

(* vrctx::host() is read outside any lock and the host called later: the   *)
(* joins of cleanup_impl are what keeps it alive in between.               *)
THEOREM ShimHostOutlivesCall == ASSUME CompositorStops = TRUE PROVE Spec => []HostOutlivesCall
  <1>1. ShimInv => HostOutlivesCall
    BY DEF ShimInv
  <1> QED BY <1>1, ShimInvHolds, PTL
=============================================================================
