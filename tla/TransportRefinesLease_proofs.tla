-------------------- MODULE TransportRefinesLease_proofs --------------------
(***************************************************************************)
(* FrameTransport implements SlotLease, for every number of slots, rings,  *)
(* frames, sessions and every bound of the queues, as long as one vrserver *)
(* process lives (MaxRestarts = 0), and loses no slot unless a full queue  *)
(* pushes its frame out; over restarts too, the helper is never left       *)
(* without the current ring's handles.                                     *)
(*                                                                         *)
(* Along the way: the queues carry each announced frame at most once and   *)
(* the numbers on the wire are those of the frame's own texture (Numbers), *)
(* no frame is in two places (Apart), only the encoder thread's frame has  *)
(* its mutex held by the helper (Mutex).  With these, every step of a      *)
(* thread is a step of the lease or leaves it alone.                       *)
(***************************************************************************)
EXTENDS TransportRefinesLease, TLAPS

-----------------------------------------------------------------------------
(* Queues of messages.                                                     *)

(* The frame a message carries, if it carries one.                         *)
CarriedBy(m) == IF m.type \in {"frame", "done"} THEN {m.frame} ELSE {}

(* An empty queue carries no frame.                                        *)
LEMMA CarriesEmpty == Carries(<<>>) = {}
  BY DEF Carries

(* A queue that takes a message in carries its frame as well.              *)
LEMMA CarriesAppend ==
  ASSUME NEW S, NEW q \in Seq(S), NEW m \in S
  PROVE  Carries(Append(q, m)) = Carries(q) \cup CarriedBy(m)
  <1> DEFINE a == Append(q, m)
  <1>1. /\ Len(a) = Len(q) + 1 /\ Len(q) \in Nat /\ DOMAIN a = 1 .. Len(a) /\ DOMAIN q = 1 .. Len(q)
        /\ \A i \in 1 .. Len(q) : a[i] = q[i]
        /\ a[Len(a)] = m
    OBVIOUS
  <1> HIDE DEF a
  <1>2. \A i \in DOMAIN a : i \in DOMAIN q \/ i = Len(a)
    BY <1>1
  <1>3. DOMAIN q \subseteq DOMAIN a /\ Len(a) \in DOMAIN a
    BY <1>1
  <1>4. Carries(a) \subseteq Carries(q) \cup CarriedBy(m)
    BY <1>1, <1>2 DEF Carries, CarriedBy
  <1>5. Carries(q) \subseteq Carries(a)
    BY <1>1, <1>3 DEF Carries
  <1>6. CarriedBy(m) \subseteq Carries(a)
    BY <1>1, <1>3 DEF Carries, CarriedBy
  <1> QED BY <1>4, <1>5, <1>6 DEF a

(* The head and the tail of a queue that is not empty.                     *)
LEMMA TailFacts ==
  ASSUME NEW S, NEW q \in Seq(S), q # <<>>
  PROVE  /\ Head(q) \in S /\ Tail(q) \in Seq(S)
         /\ Len(q) \in Nat \ {0} /\ Len(Tail(q)) = Len(q) - 1
         /\ DOMAIN q = 1 .. Len(q) /\ DOMAIN Tail(q) = 1 .. Len(q) - 1
         /\ Head(q) = q[1]
         /\ \A i \in 1 .. Len(q) - 1 : Tail(q)[i] = q[i + 1]
  OBVIOUS

(* A queue carries the frame of its head and those of its tail.            *)
LEMMA CarriesTail ==
  ASSUME NEW S, NEW q \in Seq(S), q # <<>>
  PROVE  Carries(q) = CarriedBy(Head(q)) \cup Carries(Tail(q))
  <1> DEFINE t == Tail(q)
  <1>1. /\ Len(q) \in Nat \ {0}
        /\ DOMAIN q = 1 .. Len(q) /\ DOMAIN t = 1 .. Len(q) - 1
        /\ Head(q) = q[1]
        /\ \A i \in 1 .. Len(q) - 1 : t[i] = q[i + 1]
    BY TailFacts
  <1> HIDE DEF t
  <1>2. 1 \in DOMAIN q /\ \A i \in DOMAIN t : i + 1 \in DOMAIN q /\ t[i] = q[i + 1]
    BY <1>1
  <1>3. \A i \in DOMAIN q : i = 1 \/ (i - 1 \in DOMAIN t /\ t[i - 1] = q[i])
    BY <1>1
  <1>4. Carries(q) \subseteq CarriedBy(Head(q)) \cup Carries(t)
    BY <1>1, <1>3 DEF Carries, CarriedBy
  <1>5. CarriedBy(Head(q)) \subseteq Carries(q)
    BY <1>1, <1>2 DEF Carries, CarriedBy
  <1>6. Carries(t) \subseteq Carries(q)
    BY <1>2 DEF Carries
  <1> QED BY <1>4, <1>5, <1>6 DEF t

(* FrameReady and FrameDone bear a frame; a queue bears each at most once. *)
Bearing(m) == m.type \in {"frame", "done"}
Once(q) == \A i, j \in DOMAIN q : Bearing(q[i]) /\ Bearing(q[j]) /\ q[i].frame = q[j].frame => i = j

(* A queue whose head comes off no longer carries the head's frame.        *)
LEMMA OnceTail ==
  ASSUME NEW S, NEW q \in Seq(S), q # <<>>, Once(q)
  PROVE  Once(Tail(q)) /\ CarriedBy(Head(q)) \cap Carries(Tail(q)) = {}
  <1> DEFINE t == Tail(q)
  <1>1. /\ Len(q) \in Nat \ {0}
        /\ DOMAIN q = 1 .. Len(q) /\ DOMAIN t = 1 .. Len(q) - 1
        /\ Head(q) = q[1]
        /\ \A i \in 1 .. Len(q) - 1 : t[i] = q[i + 1]
    BY TailFacts
  <1> HIDE DEF t
  <1>2. 1 \in DOMAIN q /\ \A i \in DOMAIN t : i \in Nat \ {0} /\ i + 1 \in DOMAIN q
          /\ t[i] = q[i + 1]
    BY <1>1
  <1>3. Once(t)
    <2> SUFFICES ASSUME NEW i \in DOMAIN t, NEW j \in DOMAIN t, Bearing(t[i]), Bearing(t[j]), t[i].frame = t[j].frame
                 PROVE  i = j
      BY DEF Once
    <2>1. i + 1 = j + 1
      BY <1>2 DEF Once
    <2> QED BY <1>2, <2>1
  <1>4. CarriedBy(Head(q)) \cap Carries(t) = {}
    <2> SUFFICES ASSUME NEW i \in DOMAIN t, Bearing(t[i]), Bearing(Head(q)), t[i].frame = Head(q).frame
                 PROVE  FALSE
      BY DEF Carries, CarriedBy, Bearing
    <2>1. i + 1 = 1
      BY <1>1, <1>2 DEF Once
    <2> QED BY <1>2, <2>1
  <1> QED BY <1>3, <1>4 DEF t

(* A queue that takes in a new frame still carries each one once.          *)
LEMMA OnceAppend ==
  ASSUME NEW S, NEW q \in Seq(S), NEW m \in S, Once(q), CarriedBy(m) \cap Carries(q) = {}
  PROVE  Once(Append(q, m))
  <1> DEFINE a == Append(q, m)
  <1>1. /\ Len(a) = Len(q) + 1 /\ Len(q) \in Nat /\ DOMAIN a = 1 .. Len(a) /\ DOMAIN q = 1 .. Len(q)
        /\ \A i \in 1 .. Len(q) : a[i] = q[i]
        /\ a[Len(a)] = m
    OBVIOUS
  <1> HIDE DEF a
  <1>2. \A i \in DOMAIN a : (i \in DOMAIN q /\ a[i] = q[i]) \/ (i = Len(a) /\ a[i] = m)
    BY <1>1
  <1>3. \A i \in DOMAIN q : Bearing(q[i]) /\ Bearing(m) => q[i].frame # m.frame
    BY DEF Carries, CarriedBy, Bearing
  <1>4. Once(a)
    BY <1>2, <1>3 DEF Once
  <1> QED BY <1>4 DEF a

-----------------------------------------------------------------------------
(* Types.                                                                  *)

(* Zero is a slot, a ring and a frame number; the next slot is in range.   *)
LEMMA SlotFacts ==
    /\ 0 \in Slot
    /\ 0 \in Generation
    /\ 0 \in FrameId
    /\ \A n \in Nat : n % Count \in Slot
    /\ Slot \subseteq Nat /\ Generation \subseteq Nat /\ FrameId \subseteq Nat
  BY RingAssumption DEF Slot, Generation, FrameId

(* Every operation of FrameStagingRing and D3D11Stage keeps the ring's     *)
(* types.                                                                  *)
LEMMA RingTypes ==
  ASSUME RingTypeOK
  PROVE  /\ \A m \in Modes : create(m) => RingTypeOK'
         /\ create_fails => RingTypeOK'
         /\ \A s \in Slot : acquire_slot(s) => RingTypeOK'
         /\ \A s \in Slot : release_to_helper(s) => RingTypeOK'
         /\ mark_stale => RingTypeOK'
         /\ \A f, s : on_frame_done(f, s) /\ s \in Slot => RingTypeOK'
         /\ \A g \in Generation, s \in Slot : stage_acquire(g, s) => RingTypeOK'
         /\ \A g \in Generation, s \in Slot : stage_release(g, s) => RingTypeOK'
  <1> USE RingAssumption, SlotFacts DEF RingTypeOK, SlotState, KeyState, FreeSlot
  <1>1. ASSUME NEW m \in Modes, create(m) PROVE RingTypeOK'
    <2>1. generation_' \in Generation
      BY <1>1 DEF create, Generation
    <2>2. slots_' \in [Slot -> SlotState]
      BY <1>1 DEF create, destroy_locked
    <2>3. keyed' \in [Generation -> [Slot -> KeyState]]
      BY <1>1 DEF create, destroy_locked
    <2> QED BY <1>1, <2>1, <2>2, <2>3 DEF create, destroy_locked
  <1>2. ASSUME create_fails PROVE RingTypeOK'
    <2>2. slots_' \in [Slot -> SlotState]
      BY <1>2 DEF create_fails, destroy_locked
    <2>3. keyed' \in [Generation -> [Slot -> KeyState]]
      BY <1>2 DEF create_fails, destroy_locked
    <2> QED BY <1>2, <2>2, <2>3 DEF create_fails, destroy_locked
  <1>3. ASSUME NEW s \in Slot, acquire_slot(s) PROVE RingTypeOK'
    <2>1. slots_' \in [Slot -> SlotState] /\ next_' \in Slot
      BY <1>3 DEF acquire_slot
    <2>2. keyed' \in [Generation -> [Slot -> KeyState]]
            /\ pixels' \in [Generation -> [Slot -> FrameId]]
      BY <1>3 DEF acquire_slot
    <2> QED BY <1>3, <2>1, <2>2 DEF acquire_slot
  <1>4. ASSUME NEW s \in Slot, release_to_helper(s) PROVE RingTypeOK'
    <2>1. frame_id_' \in FrameId /\ frame_id_ + 1 \in FrameId
      BY <1>4 DEF release_to_helper, FrameId
    <2>2. slots_' \in [Slot -> SlotState]
      BY <1>4, <2>1 DEF release_to_helper
    <2>3. keyed' \in [Generation -> [Slot -> KeyState]]
            /\ pixels' \in [Generation -> [Slot -> FrameId]]
      BY <1>4, <2>1 DEF release_to_helper
    <2> QED BY <1>4, <2>1, <2>2, <2>3 DEF release_to_helper
  <1>5. mark_stale => RingTypeOK'
    BY DEF mark_stale
  <1>6. ASSUME NEW f, NEW s \in Slot, on_frame_done(f, s) PROVE RingTypeOK'
    BY <1>6 DEF on_frame_done, DoneMatches
  <1>7. ASSUME NEW g \in Generation, NEW s \in Slot, stage_acquire(g, s) PROVE RingTypeOK'
    BY <1>7 DEF stage_acquire
  <1>8. ASSUME NEW g \in Generation, NEW s \in Slot, stage_release(g, s) PROVE RingTypeOK'
    BY <1>8 DEF stage_release
  <1> QED BY <1>1, <1>2, <1>3, <1>4, <1>5, <1>6, <1>7, <1>8

(* The type invariant by thread, with what the program counters say of the *)
(* variables they guard.                                                   *)
PresentOK ==
    /\ pcP \in PresentPc /\ reqMode \in Modes /\ lease \in Slot
    /\ ready \in FrameMsg \cup {None}
    /\ ready # None <=> pcP \in {"ready", "readyPush", "stale"}
    /\ ring_attempts_ \in 0 .. kMaxRingAttempts

IpcOK ==
    /\ pcI \in IpcPc /\ connected_ \in BOOLEAN
    /\ pending_ \in Seq(ConfigMsg \cup FrameMsg \cup {Haptic})
    /\ Len(pending_) <= kMaxPendingMessages
    /\ sessions \in 0 .. MaxSessions /\ haptics \in 0 .. MaxHaptics

PipeOK ==
    /\ link \in {"none", "open", "shimClosed", "helperClosed"}
    /\ toHelper \in Seq(ConfigMsg \cup FrameMsg \cup {Haptic, ShimHello})
    /\ toShim \in Seq(DoneMsg \cup {HmdConfig})

IntakeOK ==
    /\ staging_ \in ConfigMsg \cup {None} /\ staging_changed_ \in BOOLEAN
    /\ hpending \in FrameMsg \cup {None}
    /\ done_ \in Seq(DoneMsg) /\ Len(done_) <= kMaxDone

EncoderOK ==
    /\ pcE \in EncoderPc
    /\ eFrame \in FrameMsg \cup {None}
    /\ eConfig \in ConfigMsg \cup {None}
    /\ stage \in ConfigMsg \cup {None}
    /\ encoder_ready_ \in BOOLEAN
    /\ eFrame # None <=> pcE \in {"popped", "request", "encode", "copying", "finish"}
    /\ pcE = "request" => eConfig # None
    /\ pcE \in {"encode", "copying"} => stage # None
    /\ encoder_ready_ => stage # None

ProcessOK ==
    /\ firstGen \in Generation /\ firstId \in FrameId
    /\ restarts \in 0 .. MaxRestarts
    /\ homeGen \in [Frame -> Generation] /\ homeSlot \in [Frame -> Slot]

(* The process's first ring and frame number are not ahead of the          *)
(* counters.                                                               *)
FirstOK == firstGen <= generation_ /\ firstId <= frame_id_

(* The type invariant with what makes it inductive.                        *)
TypeInv ==
    /\ RingTypeOK /\ PresentOK /\ IpcOK /\ resend_config_ \in BOOLEAN /\ PipeOK /\ pcH \in ServerPc
    /\ IntakeOK /\ EncoderOK /\ active \in BOOLEAN /\ ProcessOK /\ FirstOK

(* It implies the type invariant TLC checks.                               *)
LEMMA TypeInvType == TypeInv => TypeOK
  BY DEF TypeInv, TypeOK, PresentOK, IpcOK, PipeOK, IntakeOK, EncoderOK, ProcessOK

(* All of it holds initially.                                              *)
LEMMA TypeInit == Init => TypeInv
  <1> SUFFICES ASSUME Init PROVE TypeInv
    OBVIOUS
  <1> USE RingAssumption, TransportAssumption, NoneAssumption, SlotFacts DEF Init
  <1>1. RingTypeOK /\ FirstOK
    <2>1. slots_ \in [Slot -> SlotState]
      BY DEF RingInit, FreeSlot, SlotState
    <2>2. keyed \in [Generation -> [Slot -> KeyState]]
            /\ pixels \in [Generation -> [Slot -> FrameId]]
      BY DEF RingInit, KeyState
    <2>3. generation_ \in Generation /\ next_ \in Slot /\ frame_id_ \in FrameId
      BY DEF RingInit
    <2>4. built \in BOOLEAN /\ mode_ \in Modes /\ stale_ \in BOOLEAN
      BY DEF RingInit
    <2>5. FirstOK
      BY DEF RingInit, FirstOK
    <2> QED BY <2>1, <2>2, <2>3, <2>4, <2>5 DEF RingTypeOK
  <1>2. PresentOK
    BY <1>1 DEF RingTypeOK, PresentOK, PresentPc
  <1>3. IpcOK
    <2>1. pending_ = <<>> /\ pending_ \in Seq(ConfigMsg \cup FrameMsg \cup {Haptic})
      OBVIOUS
    <2>2. Len(pending_) <= kMaxPendingMessages /\ sessions \in 0 .. MaxSessions
            /\ haptics \in 0 .. MaxHaptics
      BY <2>1
    <2> QED BY <2>1, <2>2 DEF IpcOK, IpcPc
  <1>6. PipeOK
    BY DEF PipeOK
  <1>7. IntakeOK
    <2>1. done_ = <<>> /\ done_ \in Seq(DoneMsg) /\ Len(done_) <= kMaxDone
      OBVIOUS
    <2> QED BY <2>1 DEF IntakeOK
  <1>4. EncoderOK
    BY DEF EncoderOK, EncoderPc
  <1>5. ProcessOK
    BY DEF ProcessOK
  <1> QED BY <1>1, <1>2, <1>3, <1>4, <1>5, <1>6, <1>7 DEF TypeInv, ServerPc

(* A thread that does nothing keeps its part. *)
LEMMA TypeFrames ==
  ASSUME TypeInv
  PROVE  /\ UNCHANGED ringVars => RingTypeOK'
         /\ UNCHANGED presentVars => PresentOK'
         /\ UNCHANGED ipcVars => IpcOK'
         /\ UNCHANGED pipeVars => PipeOK'
         /\ UNCHANGED intakeVars => IntakeOK'
         /\ UNCHANGED encoderVars => EncoderOK'
         /\ UNCHANGED processVars => ProcessOK'
         /\ UNCHANGED <<generation_, frame_id_, firstGen, firstId>> => FirstOK'
  <1>1. UNCHANGED ringVars => RingTypeOK'
    BY DEF TypeInv, ringVars, RingTypeOK
  <1>2. UNCHANGED presentVars => PresentOK'
    BY DEF TypeInv, presentVars, PresentOK
  <1>3. UNCHANGED ipcVars => IpcOK'
    BY DEF TypeInv, ipcVars, IpcOK
  <1>4. UNCHANGED pipeVars => PipeOK'
    BY DEF TypeInv, pipeVars, PipeOK
  <1>5. UNCHANGED intakeVars => IntakeOK'
    BY DEF TypeInv, intakeVars, IntakeOK
  <1>6. UNCHANGED encoderVars => EncoderOK'
    BY DEF TypeInv, encoderVars, EncoderOK
  <1>7. UNCHANGED processVars => ProcessOK'
    BY DEF TypeInv, processVars, ProcessOK
  <1>8. UNCHANGED <<generation_, frame_id_, firstGen, firstId>> => FirstOK'
    BY DEF TypeInv, FirstOK
  <1> QED BY <1>1, <1>2, <1>3, <1>4, <1>5, <1>6, <1>7, <1>8

(* What the type of a message says of it, and what the messages made carry. *)
LEMMA MessageKinds ==
    /\ \A m \in ConfigMsg : m.type = "config" /\ m # None
    /\ \A m \in FrameMsg : m.type = "frame" /\ m # None
    /\ \A m \in DoneMsg : m.type = "done"
    /\ Haptic.type = "haptic" /\ ShimHello.type = "shim_hello" /\ HmdConfig.type = "hmd_config"
    /\ \A m \in FrameMsg : FrameDone(m) \in DoneMsg
  BY NoneAssumption DEF ConfigMsg, FrameMsg, DoneMsg, Haptic, ShimHello, HmdConfig, FrameDone

(* A FrameReady with numbers in range is one the helper can read.          *)
LEMMA FrameMade ==
  ASSUME NEW f \in FrameId, f - firstId \in FrameId, NEW g \in Generation, g - firstGen \in Generation,
         NEW s \in Slot
  PROVE  FrameReady(f, g, s) \in FrameMsg
  BY DEF FrameReady, FrameMsg

(* What Present sends has its type.                                        *)
LEMMA MessageMade ==
  ASSUME TypeInv
  PROVE  /\ StagingConfig(generation_) \in ConfigMsg
         /\ \A s \in Slot : frame_id_ < MaxFrame
            => FrameReady(frame_id_ + 1, generation_, s) \in FrameMsg
  <1> USE RingAssumption DEF TypeInv, RingTypeOK, ProcessOK, FirstOK
  <1>1. generation_ \in Generation /\ generation_ - firstGen \in Generation
    BY DEF Generation
  <1>2. frame_id_ < MaxFrame => frame_id_ + 1 \in FrameId /\ (frame_id_ + 1) - firstId \in FrameId
    BY DEF FrameId
  <1> HIDE DEF TypeInv, RingTypeOK, ProcessOK, FirstOK
  <1>3. StagingConfig(generation_) \in ConfigMsg
    BY <1>1 DEF StagingConfig, ConfigMsg
  <1>4. ASSUME NEW s \in Slot, frame_id_ < MaxFrame
        PROVE  FrameReady(frame_id_ + 1, generation_, s) \in FrameMsg
    <2>1. frame_id_ + 1 \in FrameId /\ (frame_id_ + 1) - firstId \in FrameId
      BY <1>2, <1>4
    <2> DEFINE k == frame_id_ + 1
    <2>2. k \in FrameId /\ k - firstId \in FrameId
      BY <2>1
    <2> HIDE DEF k
    <2>3. FrameReady(k, generation_, s) \in FrameMsg
      BY <1>1, <2>2, FrameMade
    <2> QED BY <2>3 DEF k
  <1> QED BY <1>3, <1>4

(* Pushing keeps the bound of done_ and of pending_.                       *)
LEMMA QueueTypes ==
    /\ \A q \in Seq(DoneMsg), m \in FrameMsg :
         Len(q) <= kMaxDone => push_done(q, m) \in Seq(DoneMsg) /\ Len(push_done(q, m)) <= kMaxDone
    /\ \A q \in Seq(ConfigMsg \cup FrameMsg \cup {Haptic}), m \in ConfigMsg :
         Len(q) <= kMaxPendingMessages =>
           /\ PushNotEvictable(q, m) \in Seq(ConfigMsg \cup FrameMsg \cup {Haptic})
           /\ Len(PushNotEvictable(q, m)) <= kMaxPendingMessages
  BY TransportAssumption, MessageKinds DEF push_done, PushNotEvictable

(* Every step of every thread keeps the type invariant.                    *)
LEMMA TypeStep == TypeInv /\ [Next]_vars => TypeInv'
  <1> SUFFICES ASSUME TypeInv, [Next]_vars PROVE TypeInv'
    OBVIOUS
  <1> USE TransportAssumption DEF vars, shimVars, helperVars
  <1>1. ASSUME NEW m \in Modes, Present(m) PROVE TypeInv'
    <2>1. PresentOK'
      BY <1>1 DEF Present, TypeInv, PresentOK, PresentPc
    <2> QED BY <1>1, <2>1, TypeFrames DEF Present, TypeInv, ringVars, processVars
  <1>2. CASE Match
    <2> USE <1>2 DEF Match
    <2>1. PresentOK'
      BY DEF TypeInv, PresentOK, PresentPc
    <2> QED BY <2>1, TypeFrames DEF TypeInv, ServerPc, ringVars, processVars
  <1>3. CASE CreateRing
    <2> USE <1>3 DEF CreateRing
    <2>1. PresentOK'
      BY DEF TypeInv, PresentOK, PresentPc, create
    <2>2. RingTypeOK'
      BY RingTypes DEF TypeInv, PresentOK
    <2>3. generation_ \in Nat /\ firstGen \in Nat /\ firstGen <= generation_
      BY SlotFacts DEF TypeInv, RingTypeOK, ProcessOK, FirstOK
    <2>4. FirstOK'
      BY <2>3 DEF TypeInv, FirstOK, create, create_fails, processVars
    <2> QED BY <2>1, <2>2, <2>3, <2>4, TypeFrames DEF TypeInv, ServerPc, ringVars, processVars
  <1>4. CASE ClearResend
    <2> USE <1>4 DEF ClearResend
    <2>1. PresentOK'
      BY DEF TypeInv, PresentOK, PresentPc
    <2> QED BY <2>1, TypeFrames DEF TypeInv, ServerPc, ringVars, processVars
  <1>5. CASE ExchangeResend
    <2> USE <1>5 DEF ExchangeResend
    <2>1. PresentOK'
      BY DEF TypeInv, PresentOK, PresentPc
    <2> QED BY <2>1, TypeFrames DEF TypeInv, ServerPc, ringVars, processVars
  <1>6. CASE SendStagingConfig
    <2> USE <1>6 DEF SendStagingConfig
    <2>1. PresentOK'
      BY DEF TypeInv, PresentOK, PresentPc
    <2> QED BY <2>1, TypeFrames DEF TypeInv, ServerPc, ringVars, processVars
  <1>7. CASE PushStagingConfig
    <2> USE <1>7 DEF PushStagingConfig
    <2>1. PresentOK'
      BY DEF TypeInv, PresentOK, PresentPc
    <2>2. IpcOK'
      BY MessageMade, QueueTypes DEF TypeInv, IpcOK
    <2> QED BY <2>1, <2>2, TypeFrames DEF TypeInv, ServerPc, ringVars, processVars
  <1>8. CASE LeaseSlot
    <2> USE <1>8 DEF LeaseSlot
    <2>1. PresentOK'
      BY DEF TypeInv, PresentOK, PresentPc
    <2>2. RingTypeOK' /\ FirstOK'
      BY RingTypes, TypeFrames DEF TypeInv, FirstOK, acquire_slot, processVars, ringVars
    <2> QED BY <2>1, <2>2, TypeFrames DEF TypeInv, ServerPc, ringVars, processVars
  <1>9. CASE ReleaseToHelper
    <2> USE <1>9 DEF ReleaseToHelper
    <2>1. lease \in Slot /\ frame_id_ < MaxFrame
      BY DEF TypeInv, PresentOK, release_to_helper
    <2>2. PresentOK'
      BY <2>1, MessageMade, MessageKinds DEF TypeInv, PresentOK, PresentPc
    <2>3. RingTypeOK'
      BY <2>1, RingTypes DEF TypeInv
    <2>4. frame_id_ \in Nat /\ firstId \in Nat /\ firstId <= frame_id_
      BY SlotFacts DEF TypeInv, RingTypeOK, ProcessOK, FirstOK
    <2>5. FirstOK'
      BY <2>4 DEF TypeInv, FirstOK, release_to_helper
    <2>6. ProcessOK'
      BY <2>1 DEF TypeInv, ProcessOK, RingTypeOK
    <2> QED BY <2>1, <2>2, <2>3, <2>4, <2>5, <2>6, TypeFrames DEF TypeInv, ServerPc, ringVars,
          processVars
  <1>10. CASE QueueFrameReady
    <2> USE <1>10 DEF QueueFrameReady
    <2>1. PresentOK'
      BY DEF TypeInv, PresentOK, PresentPc
    <2> QED BY <2>1, TypeFrames DEF TypeInv, ServerPc, ringVars, processVars
  <1>11. CASE PushFrameReady
    <2> USE <1>11 DEF PushFrameReady
    <2>1. PresentOK'
      BY DEF TypeInv, PresentOK, PresentPc
    <2>2. pending_' \in Seq(ConfigMsg \cup FrameMsg \cup {Haptic})
            /\ Len(pending_') <= kMaxPendingMessages
      BY DEF TypeInv, PresentOK, IpcOK
    <2>3. IpcOK'
      BY <2>2 DEF TypeInv, IpcOK
    <2> QED BY <2>1, <2>2, <2>3, TypeFrames DEF TypeInv, ServerPc, ringVars, processVars
  <1>12. CASE PresentMarksStale
    <2> USE <1>12 DEF PresentMarksStale
    <2>1. PresentOK'
      BY DEF TypeInv, PresentOK, PresentPc
    <2>2. RingTypeOK' /\ FirstOK'
      BY RingTypes DEF TypeInv, FirstOK, mark_stale, processVars
    <2> QED BY <2>1, <2>2, TypeFrames DEF TypeInv, ServerPc, ringVars, processVars
  <1>13. CASE QueueHaptic
    <2> USE <1>13 DEF QueueHaptic
    <2>1. IpcOK'
      BY DEF TypeInv, IpcOK
    <2> QED BY <2>1, TypeFrames DEF TypeInv, ServerPc, ringVars, processVars
  <1>14. CASE OpenPipe
    <2> USE <1>14 DEF OpenPipe
    <2>1. IpcOK'
      BY DEF TypeInv, IpcOK, IpcPc
    <2>2. PipeOK'
      BY DEF TypeInv, PipeOK
    <2> QED BY <2>1, <2>2, TypeFrames DEF TypeInv, ServerPc, ringVars, processVars
  <1>15. CASE FlushOutgoing
    <2> USE <1>15 DEF FlushOutgoing
    <2>1. IpcOK'
      BY DEF TypeInv, IpcOK
    <2>2. Head(pending_) \in ConfigMsg \cup FrameMsg \cup {Haptic}
      BY DEF TypeInv, IpcOK
    <2>3. toHelper' \in Seq(ConfigMsg \cup FrameMsg \cup {Haptic, ShimHello})
      BY <2>2 DEF TypeInv, PipeOK
    <2>4. PipeOK'
      BY <2>3 DEF TypeInv, PipeOK
    <2> QED BY <2>1, <2>2, <2>3, <2>4, TypeFrames DEF TypeInv, ServerPc, ringVars, processVars
  <1>16. CASE ReceiveConfig
    <2> USE <1>16 DEF ReceiveConfig
    <2>1. IpcOK'
      BY DEF TypeInv, IpcOK, IpcPc
    <2>2. PipeOK'
      BY DEF TypeInv, PipeOK
    <2> QED BY <2>1, <2>2, TypeFrames DEF TypeInv, ServerPc, ringVars, processVars
  <1>17. CASE on_ipc_connected
    <2> USE <1>17 DEF on_ipc_connected
    <2>1. IpcOK'
      BY DEF TypeInv, IpcOK, IpcPc
    <2> QED BY <2>1, TypeFrames DEF TypeInv, ServerPc, ringVars, processVars
  <1>18. CASE ReceiveFrameDone
    <2> USE <1>18 DEF ReceiveFrameDone
    <2>1. Head(toShim) \in DoneMsg /\ Tail(toShim) \in Seq(DoneMsg \cup {HmdConfig})
      <3>1. Head(toShim) \in DoneMsg \cup {HmdConfig}
              /\ Tail(toShim) \in Seq(DoneMsg \cup {HmdConfig})
        BY DEF TypeInv, PipeOK
      <3> QED BY <3>1, MessageKinds
    <2>2. PipeOK'
      BY <2>1 DEF TypeInv, PipeOK
    <2>3. RingTypeOK' /\ FirstOK'
      BY <2>1, RingTypes DEF TypeInv, FirstOK, DoneMsg, on_frame_done, processVars
    <2> QED BY <2>1, <2>2, <2>3, TypeFrames DEF TypeInv, ServerPc, ringVars, processVars
  <1>19. CASE EndSession
    <2> USE <1>19 DEF EndSession
    <2>1. IpcOK'
      BY DEF TypeInv, IpcOK, IpcPc
    <2>2. PipeOK'
      BY DEF TypeInv, PipeOK
    <2> QED BY <2>1, <2>2, TypeFrames DEF TypeInv, ServerPc, ringVars, processVars
  <1>20. CASE ClearConnected
    <2> USE <1>20 DEF ClearConnected
    <2>1. IpcOK'
      BY DEF TypeInv, IpcOK, IpcPc
    <2> QED BY <2>1, TypeFrames DEF TypeInv, ServerPc, ringVars, processVars
  <1>21. CASE DropPending
    <2> USE <1>21 DEF DropPending
    <2>1. IpcOK'
      BY DEF TypeInv, IpcOK, IpcPc
    <2> QED BY <2>1, TypeFrames DEF TypeInv, ServerPc, ringVars, processVars
  <1>22. CASE DisconnectedResend
    <2> USE <1>22 DEF DisconnectedResend
    <2>1. IpcOK'
      BY DEF TypeInv, IpcOK, IpcPc
    <2> QED BY <2>1, TypeFrames DEF TypeInv, ServerPc, ringVars, processVars
  <1>23. CASE DisconnectedStale
    <2> USE <1>23 DEF DisconnectedStale
    <2>1. IpcOK'
      BY DEF TypeInv, IpcOK, IpcPc
    <2>2. RingTypeOK' /\ FirstOK'
      BY RingTypes DEF TypeInv, FirstOK, mark_stale, processVars
    <2> QED BY <2>1, <2>2, TypeFrames DEF TypeInv, ServerPc, ringVars, processVars
  <1>24. CASE Handshake
    <2> USE <1>24 DEF Handshake
    <2>1. PipeOK'
      BY DEF TypeInv, PipeOK
    <2> QED BY <2>1, TypeFrames DEF TypeInv, ServerPc, ringVars, processVars
  <1>25. CASE FlushFrameDone
    <2> USE <1>25 DEF FlushFrameDone
    <2>1. done_ # <<>> => Head(done_) \in DoneMsg /\ Tail(done_) \in Seq(DoneMsg)
            /\ Len(Tail(done_)) <= kMaxDone
      BY DEF TypeInv, IntakeOK
    <2>2. toShim' \in Seq(DoneMsg \cup {HmdConfig})
      <3>1. toShim \in Seq(DoneMsg \cup {HmdConfig})
        BY DEF TypeInv, PipeOK
      <3>2. CASE done_ # <<>>
        <4>1. Head(done_) \in DoneMsg \cup {HmdConfig}
          BY <2>1, <3>2
        <4>2. toShim' = Append(toShim, Head(done_))
          BY <3>2
        <4> QED BY <3>1, <4>1, <4>2
      <3>3. CASE done_ = <<>>
        BY <3>1, <3>3
      <3> QED BY <3>2, <3>3
    <2>3. PipeOK'
      BY <2>2 DEF TypeInv, PipeOK
    <2>4. IntakeOK'
      BY <2>1 DEF TypeInv, IntakeOK
    <2> QED BY <2>1, <2>2, <2>3, <2>4, TypeFrames DEF TypeInv, ServerPc, ringVars, processVars
  <1>26. CASE ReadTimeout
    <2> USE <1>26 DEF ReadTimeout
    <2> QED BY TypeFrames DEF TypeInv, ServerPc, ringVars, processVars
  <1>27. CASE on_staging_config
    <2> USE <1>27 DEF on_staging_config
    <2>1. Head(toHelper) \in ConfigMsg
            /\ Tail(toHelper) \in Seq(ConfigMsg \cup FrameMsg \cup {Haptic, ShimHello})
      <3>1. Head(toHelper) \in ConfigMsg \cup FrameMsg \cup {Haptic, ShimHello}
              /\ Tail(toHelper) \in Seq(ConfigMsg \cup FrameMsg \cup {Haptic, ShimHello})
        BY DEF TypeInv, PipeOK
      <3> QED BY <3>1, MessageKinds
    <2>2. PipeOK'
      BY <2>1 DEF TypeInv, PipeOK
    <2>3. IntakeOK'
      BY <2>1, QueueTypes DEF TypeInv, IntakeOK
    <2> QED BY <2>1, <2>2, <2>3, TypeFrames DEF TypeInv, ServerPc, ringVars, processVars
  <1>28. CASE on_frame_ready
    <2> USE <1>28 DEF on_frame_ready
    <2>1. Head(toHelper) \in FrameMsg
            /\ Tail(toHelper) \in Seq(ConfigMsg \cup FrameMsg \cup {Haptic, ShimHello})
      <3>1. Head(toHelper) \in ConfigMsg \cup FrameMsg \cup {Haptic, ShimHello}
              /\ Tail(toHelper) \in Seq(ConfigMsg \cup FrameMsg \cup {Haptic, ShimHello})
        BY DEF TypeInv, PipeOK
      <3> QED BY <3>1, MessageKinds
    <2>2. PipeOK'
      BY <2>1 DEF TypeInv, PipeOK
    <2>3. IntakeOK'
      BY <2>1, QueueTypes DEF TypeInv, IntakeOK
    <2> QED BY <2>1, <2>2, <2>3, TypeFrames DEF TypeInv, ServerPc, ringVars, processVars
  <1>29. CASE HandleHaptic
    <2> USE <1>29 DEF HandleHaptic
    <2>1. PipeOK'
      BY DEF TypeInv, PipeOK
    <2> QED BY <2>1, TypeFrames DEF TypeInv, ServerPc, ringVars, processVars
  <1>30. CASE DisconnectClient
    <2> USE <1>30 DEF DisconnectClient
    <2>1. PipeOK'
      BY DEF TypeInv, PipeOK
    <2> QED BY <2>1, TypeFrames DEF TypeInv, ServerPc, ringVars, processVars
  <1>31. CASE on_shim_gone
    <2> USE <1>31 DEF on_shim_gone
    <2>1. IntakeOK'
      BY DEF TypeInv, IntakeOK
    <2> QED BY <2>1, TypeFrames DEF TypeInv, ServerPc, ringVars, processVars
  <1>32. CASE Wake
    <2> USE <1>32 DEF Wake
    <2>1. IntakeOK'
      BY DEF TypeInv, IntakeOK, TakePending
    <2>2. EncoderOK'
      BY DEF TypeInv, IntakeOK, EncoderOK, TakePending, EncoderPc
    <2> QED BY <2>1, <2>2, TypeFrames DEF TypeInv, ServerPc, ringVars, processVars
  <1>33. CASE Shutdown
    <2> USE <1>33 DEF Shutdown
    <2>1. IntakeOK'
      BY DEF TypeInv, IntakeOK, TakePending
    <2>2. EncoderOK'
      BY DEF TypeInv, IntakeOK, EncoderOK, TakePending, EncoderPc
    <2> QED BY <2>1, <2>2, TypeFrames DEF TypeInv, ServerPc, ringVars, processVars
  <1>34. CASE ReadStaging
    <2> USE <1>34 DEF ReadStaging
    <2>1. IntakeOK'
      BY QueueTypes DEF TypeInv, IntakeOK, EncoderOK, AnswerFrame
    <2>2. EncoderOK'
      BY DEF TypeInv, IntakeOK, EncoderOK, AnswerFrame, EncoderPc
    <2> QED BY <2>1, <2>2, TypeFrames DEF TypeInv, ServerPc, ringVars, processVars
  <1>35. CASE EnsureEncoder
    <2> USE <1>35 DEF EnsureEncoder
    <2>1. IntakeOK'
      BY QueueTypes DEF TypeInv, IntakeOK, EncoderOK, AnswerFrame
    <2>2. EncoderOK'
      <3>1. /\ eFrame \in FrameMsg \cup {None} /\ stage \in ConfigMsg \cup {None}
            /\ eConfig \in ConfigMsg \cup {None} /\ eConfig # None /\ eFrame # None
            /\ encoder_ready_ \in BOOLEAN
            /\ encoder_ready_ => stage # None
            /\ eConfig' = eConfig
        BY DEF TypeInv, EncoderOK
      <3>2. CASE AnswerFrame /\ UNCHANGED <<stage, encoder_ready_>>
        <4>1. eFrame' = None /\ pcE' = "wait"
          BY <3>2 DEF AnswerFrame
        <4>2. stage' \in ConfigMsg \cup {None} /\ eConfig' \in ConfigMsg \cup {None}
          BY <3>1, <3>2
        <4>3. encoder_ready_' = encoder_ready_ /\ stage' = stage
          BY <3>2
        <4>4. encoder_ready_' \in BOOLEAN /\ (encoder_ready_' => stage' # None)
          BY <3>1, <4>3, Zenon
        <4> QED BY <4>1, <4>2, <4>4 DEF EncoderOK, EncoderPc
      <3>3. CASE pcE' = "encode" /\ encoder_ready_ /\ UNCHANGED <<eFrame, stage, encoder_ready_>>
        BY <3>1, <3>3 DEF EncoderOK, EncoderPc
      <3>4. CASE pcE' = "encode" /\ stage' = eConfig /\ encoder_ready_' = TRUE /\ UNCHANGED eFrame
        BY <3>1, <3>4 DEF EncoderOK, EncoderPc
      <3>5. CASE AnswerFrame /\ stage' = None /\ encoder_ready_' = FALSE
        BY <3>1, <3>5 DEF EncoderOK, AnswerFrame, EncoderPc
      <3> QED BY <3>2, <3>3, <3>4, <3>5
    <2> QED BY <2>1, <2>2, TypeFrames DEF TypeInv, ServerPc, ringVars, processVars
  <1>36. CASE AcquireStage
    <2> USE <1>36 DEF AcquireStage
    <2>1. stage.ring \in Generation /\ eFrame.staging_index \in Slot
      BY DEF TypeInv, EncoderOK, ConfigMsg, FrameMsg
    <2>2. RingTypeOK' /\ FirstOK'
      BY <2>1, RingTypes, TypeFrames DEF TypeInv, FirstOK, stage_acquire, ringVars, processVars
    <2>3. IntakeOK'
      BY QueueTypes DEF TypeInv, IntakeOK, EncoderOK, AnswerFrame
    <2>4. EncoderOK'
      BY DEF TypeInv, EncoderOK, AnswerFrame, EncoderPc
    <2> QED BY <2>1, <2>2, <2>3, <2>4, TypeFrames DEF TypeInv, ServerPc, ringVars, processVars
  <1>37. CASE ReleaseStage
    <2> USE <1>37 DEF ReleaseStage
    <2>1. stage.ring \in Generation /\ eFrame.staging_index \in Slot
      BY DEF TypeInv, EncoderOK, ConfigMsg, FrameMsg
    <2>2. RingTypeOK' /\ FirstOK'
      BY <2>1, RingTypes DEF TypeInv, FirstOK, stage_release, processVars
    <2>3. EncoderOK'
      BY DEF TypeInv, EncoderOK, EncoderPc
    <2> QED BY <2>1, <2>2, <2>3, TypeFrames DEF TypeInv, ServerPc, ringVars, processVars
  <1>38. CASE Finish
    <2> USE <1>38 DEF Finish
    <2>1. IntakeOK'
      BY QueueTypes DEF TypeInv, IntakeOK, EncoderOK, AnswerFrame
    <2>2. EncoderOK'
      <3>1. /\ eConfig \in ConfigMsg \cup {None} /\ stage \in ConfigMsg \cup {None}
            /\ encoder_ready_ \in BOOLEAN
            /\ encoder_ready_ => stage # None
        BY DEF TypeInv, EncoderOK
      <3>2. CASE UNCHANGED <<stage, encoder_ready_>>
        <4>1. eFrame' = None /\ pcE' = "wait"
          BY DEF AnswerFrame
        <4>2. stage' \in ConfigMsg \cup {None} /\ eConfig' \in ConfigMsg \cup {None}
          BY <3>1, <3>2
        <4>3. encoder_ready_' = encoder_ready_ /\ stage' = stage
          BY <3>2
        <4>4. encoder_ready_' \in BOOLEAN /\ (encoder_ready_' => stage' # None)
          BY <3>1, <4>3, Zenon
        <4> QED BY <4>1, <4>2, <4>4 DEF EncoderOK, EncoderPc
      <3>3. CASE stage' = None /\ encoder_ready_' = FALSE
        BY <3>1, <3>3 DEF EncoderOK, AnswerFrame, EncoderPc
      <3> QED BY <3>2, <3>3
    <2> QED BY <2>1, <2>2, TypeFrames DEF TypeInv, ServerPc, ringVars, processVars
  <1>39. CASE ClientToggle
    <2> USE <1>39 DEF ClientToggle
    <2> QED BY TypeFrames DEF TypeInv, ServerPc, ringVars, processVars
  <1>40. CASE HelperCrash
    <2> USE <1>40 DEF HelperCrash
    <2>1. RingTypeOK' /\ FirstOK'
      BY DEF TypeInv, RingTypeOK, FirstOK, KeyState, Abandon, processVars
    <2>2. PipeOK'
      BY DEF TypeInv, PipeOK
    <2>3. IntakeOK'
      <3>1. done_' = <<>> /\ done_' \in Seq(DoneMsg) /\ Len(done_') <= kMaxDone
        OBVIOUS
      <3> QED BY <3>1 DEF IntakeOK
    <2>4. EncoderOK'
      BY DEF EncoderOK, EncoderPc
    <2> QED BY <2>1, <2>2, <2>3, <2>4, TypeFrames DEF TypeInv, ServerPc, ringVars, processVars
  <1>41. CASE VrserverRestart
    <2> USE <1>41 DEF VrserverRestart
    <2>1. RingTypeOK'
      <3>1. keyed' \in [Generation -> [Slot -> KeyState]]
        BY DEF TypeInv, RingTypeOK, KeyState, Abandon
      <3>2. slots_' \in [Slot -> SlotState]
        BY SlotFacts DEF SlotState, FreeSlot
      <3> QED BY <3>1, <3>2, SlotFacts DEF TypeInv, RingTypeOK
    <2>2. PresentOK'
      BY SlotFacts DEF TypeInv, PresentOK, PresentPc
    <2>3. IpcOK'
      <3>1. /\ pending_' = <<>> /\ pending_' \in Seq(ConfigMsg \cup FrameMsg \cup {Haptic})
            /\ Len(pending_') <= kMaxPendingMessages
        OBVIOUS
      <3>2. sessions' \in 0 .. MaxSessions /\ haptics' \in 0 .. MaxHaptics
        BY DEF TypeInv, IpcOK
      <3>3. pcI' \in IpcPc /\ connected_' \in BOOLEAN
        BY DEF IpcPc
      <3> QED BY <3>1, <3>2, <3>3 DEF IpcOK
    <2>4. PipeOK'
      BY DEF TypeInv, PipeOK
    <2>5. ProcessOK'
      <3>1. restarts' \in 0 .. MaxRestarts
        BY DEF TypeInv, ProcessOK
      <3> QED BY <3>1 DEF TypeInv, RingTypeOK, ProcessOK
    <2>6. FirstOK'
      <3>1. generation_ \in Nat /\ frame_id_ \in Nat
        BY SlotFacts DEF TypeInv, RingTypeOK
      <3>2. firstGen' = generation_' /\ firstId' = frame_id_' /\ generation_' = generation_
              /\ frame_id_' = frame_id_
        OBVIOUS
      <3> QED BY <3>1, <3>2 DEF FirstOK
    <2> QED BY <2>1, <2>2, <2>3, <2>4, <2>5, <2>6, TypeFrames DEF TypeInv, ServerPc, ringVars,
          processVars
  <1>42. CASE UNCHANGED vars
    BY <1>42, TypeFrames DEF TypeInv, processVars, ringVars
  <1> QED BY <1>1, <1>2, <1>3, <1>4, <1>5, <1>6, <1>7, <1>8, <1>9, <1>10, <1>11, <1>12, <1>13,
        <1>14,
        <1>15, <1>16, <1>17, <1>18, <1>19, <1>20, <1>21, <1>22, <1>23, <1>24, <1>25, <1>26, <1>27,
        <1>28, <1>29, <1>30, <1>31, <1>32, <1>33, <1>34, <1>35, <1>36, <1>37, <1>38, <1>39, <1>40,
        <1>41, <1>42
      DEF Next, PresentThread, IpcThread, PipeThread, EncoderThread

-----------------------------------------------------------------------------
(* What the wire says of a frame.                                          *)

(* What a message says of its frame agrees with the frame's history.      *)
Sound(m, n, G, H) ==
    /\ m.type = "config" => m.generation = m.ring
    /\ Bearing(m) => /\ m.frame \in 1 .. n
                     /\ m.frame_id = m.frame
                     /\ m.ring = G[m.frame]
                     /\ m.staging_index = H[m.frame]
    /\ m.type = "frame" => m.generation = m.ring

(* The same of a variable that may be empty.                               *)
SoundOne(m, n, G, H) == m # None => Sound(m, n, G, H)

(* A queue of such messages, each frame at most once.                      *)
Good(q, n, G, H) == Once(q) /\ \A i \in DOMAIN q : Sound(q[i], n, G, H)

(* Every message there is agrees with the history of its frame.  The       *)
(* numbers on the wire are the real ones while the first vrserver process  *)
(* lives.                                                                  *)
Numbers ==
    /\ firstGen = 0 /\ firstId = 0
    /\ SoundOne(ready, frame_id_, homeGen, homeSlot)
    /\ Good(pending_, frame_id_, homeGen, homeSlot)
    /\ Good(toHelper, frame_id_, homeGen, homeSlot)
    /\ SoundOne(staging_, frame_id_, homeGen, homeSlot)
    /\ SoundOne(hpending, frame_id_, homeGen, homeSlot)
    /\ SoundOne(eFrame, frame_id_, homeGen, homeSlot)
    /\ SoundOne(eConfig, frame_id_, homeGen, homeSlot)
    /\ SoundOne(stage, frame_id_, homeGen, homeSlot)
    /\ Good(done_, frame_id_, homeGen, homeSlot)
    /\ Good(toShim, frame_id_, homeGen, homeSlot)

(* Seven sets of frames no two of which meet.                              *)
Disjoint(R, P, T, h, e, D, S) ==
    /\ R \cap (P \cup T \cup h \cup e \cup D \cup S) = {}
    /\ P \cap (T \cup h \cup e \cup D \cup S) = {}
    /\ T \cap (h \cup e \cup D \cup S) = {}
    /\ h \cap (e \cup D \cup S) = {}
    /\ e \cap (D \cup S) = {}
    /\ D \cap S = {}

(* A frame is in one of the queues or threads, never in two.               *)
Apart == Disjoint(FrameOf(ready), Carries(pending_), Carries(toHelper), FrameOf(hpending), FrameOf(eFrame),
                  Carries(done_), Carries(toShim))

(* The helper holds the keyed mutex of no texture but that of the frame    *)
(* the encoder thread is copying, in the ring that frame names.            *)
Mutex ==
    /\ \A g \in Generation, s \in Slot :
         keyed[g][s] = "helper" => pcE = "copying" /\ g = stage.ring /\ s = eFrame.staging_index
    /\ pcE = "copying" => eFrame.generation = stage.generation

(* A queue takes in a message about a new frame.                           *)
LEMMA GoodAppend ==
  ASSUME NEW S, NEW q \in Seq(S), NEW m \in S, NEW n, NEW G, NEW H,
         Good(q, n, G, H), Sound(m, n, G, H), CarriedBy(m) \cap Carries(q) = {}
  PROVE  /\ Good(Append(q, m), n, G, H)
         /\ Carries(Append(q, m)) = Carries(q) \cup CarriedBy(m)
  <1> DEFINE a == Append(q, m)
  <1>1. Once(a) /\ Carries(a) = Carries(q) \cup CarriedBy(m)
    BY OnceAppend, CarriesAppend DEF Good
  <1>2. /\ \A i \in 1 .. Len(q) : a[i] = q[i]
        /\ a[Len(q) + 1] = m
        /\ DOMAIN a = 1 .. Len(q) + 1 /\ DOMAIN q = 1 .. Len(q) /\ Len(q) \in Nat
    OBVIOUS
  <1> HIDE DEF a
  <1>3. \A i \in DOMAIN a : Sound(a[i], n, G, H)
    BY <1>2 DEF Good
  <1> QED BY <1>1, <1>3 DEF Good, a

(* The head of a queue comes off.                                          *)
LEMMA GoodTail ==
  ASSUME NEW S, NEW q \in Seq(S), NEW n, NEW G, NEW H, Good(q, n, G, H), q # <<>>
  PROVE  /\ Good(Tail(q), n, G, H)
         /\ Sound(Head(q), n, G, H)
         /\ Head(q) \in S /\ Tail(q) \in Seq(S)
         /\ Carries(q) = CarriedBy(Head(q)) \cup Carries(Tail(q))
         /\ CarriedBy(Head(q)) \cap Carries(Tail(q)) = {}
  <1>1. Once(Tail(q)) /\ Carries(q) = CarriedBy(Head(q)) \cup Carries(Tail(q))
        /\ CarriedBy(Head(q)) \cap Carries(Tail(q)) = {}
    BY OnceTail, CarriesTail DEF Good
  <1>2. /\ Head(q) \in S /\ Tail(q) \in Seq(S)
        /\ Len(q) \in Nat \ {0}
        /\ DOMAIN q = 1 .. Len(q) /\ DOMAIN Tail(q) = 1 .. Len(q) - 1
        /\ Head(q) = q[1]
        /\ \A i \in 1 .. Len(q) - 1 : Tail(q)[i] = q[i + 1]
    BY TailFacts
  <1>3. Sound(Head(q), n, G, H) /\ \A i \in DOMAIN Tail(q) : Sound(Tail(q)[i], n, G, H)
    BY <1>2 DEF Good
  <1> QED BY <1>1, <1>2, <1>3 DEF Good

(* An empty queue says nothing wrong.                                      *)
LEMMA GoodEmpty == \A n, G, H : Good(<<>>, n, G, H)
  BY DEF Good, Once

(* The numbers handed out so far do not change.                            *)
LEMMA SoundKept ==
  ASSUME NEW n \in Nat, NEW G, NEW H, NEW g, NEW h, NEW q, NEW m,
         \A f \in 1 .. n : g[f] = G[f] /\ h[f] = H[f]
  PROVE  /\ Good(q, n, G, H) => Good(q, n + 1, g, h)
         /\ SoundOne(m, n, G, H) => SoundOne(m, n + 1, g, h)
  BY DEF Good, Sound, SoundOne

(* What a message carries, by its kind.                                    *)
LEMMA Carried ==
    /\ FrameOf(None) = {}
    /\ \A m \in FrameMsg : FrameOf(m) = {m.frame} /\ CarriedBy(m) = {m.frame} /\ Bearing(m)
    /\ \A m \in DoneMsg : CarriedBy(m) = {m.frame} /\ Bearing(m)
    /\ \A m \in ConfigMsg : CarriedBy(m) = {} /\ ~Bearing(m)
    /\ CarriedBy(Haptic) = {} /\ CarriedBy(ShimHello) = {} /\ CarriedBy(HmdConfig) = {}
    /\ \A n, G, H : Sound(Haptic, n, G, H) /\ Sound(ShimHello, n, G, H) /\ Sound(HmdConfig, n, G, H)
    /\ \A n, G, H : \A m \in FrameMsg :
         Sound(m, n, G, H) => Sound(FrameDone(m), n, G, H) /\ CarriedBy(FrameDone(m)) = {m.frame}
  <1>1. /\ FrameOf(None) = {}
        /\ \A m \in FrameMsg : FrameOf(m) = {m.frame} /\ CarriedBy(m) = {m.frame} /\ Bearing(m)
    BY MessageKinds DEF FrameOf, CarriedBy, Bearing
  <1>2. \A m \in DoneMsg : CarriedBy(m) = {m.frame} /\ Bearing(m)
    BY MessageKinds DEF CarriedBy, Bearing
  <1>3. \A m \in ConfigMsg : CarriedBy(m) = {} /\ ~Bearing(m)
    BY MessageKinds DEF CarriedBy, Bearing
  <1>4. CarriedBy(Haptic) = {} /\ CarriedBy(ShimHello) = {} /\ CarriedBy(HmdConfig) = {}
    BY MessageKinds DEF CarriedBy
  <1>5. \A n, G, H : Sound(Haptic, n, G, H) /\ Sound(ShimHello, n, G, H)
          /\ Sound(HmdConfig, n, G, H)
    BY MessageKinds DEF Sound, Bearing
  <1>6. ASSUME NEW m \in FrameMsg, NEW n, NEW G, NEW H, Sound(m, n, G, H)
        PROVE  Sound(FrameDone(m), n, G, H) /\ CarriedBy(FrameDone(m)) = {m.frame}
    <2>1. /\ FrameDone(m).type = "done" /\ FrameDone(m).frame = m.frame
             /\ FrameDone(m).frame_id = m.frame_id
          /\ FrameDone(m).ring = m.ring /\ FrameDone(m).staging_index = m.staging_index
      BY DEF FrameDone
    <2>2. m.type = "frame"
      BY MessageKinds
    <2> QED BY <1>6, <2>1, <2>2 DEF Sound, CarriedBy, Bearing
  <1> QED BY <1>1, <1>2, <1>3, <1>4, <1>5, <1>6

-----------------------------------------------------------------------------
(* Places.                                                                 *)

(* Where the frames are, from the sets of frames in each place.            *)
Announcing == IF pcP \in {"ready", "readyPush"} THEN FrameOf(ready) ELSE {}
Chosen == IF pcE \notin {"copying", "finish"} THEN FrameOf(eFrame) ELSE {}
Copying == IF pcE = "copying" THEN FrameOf(eFrame) ELSE {}
Copied == IF pcE = "finish" THEN FrameOf(eFrame) ELSE {}
Asked == Announcing \cup Carries(pending_) \cup Carries(toHelper) \cup FrameOf(hpending) \cup Chosen
Answered == Carries(done_) \cup Carries(toShim)

(* The place of frame f when n are announced, W wait, C and D are copying  *)
(* and copied, and A are answered.                                         *)
PlaceOf(f, n, W, C, D, A) ==
    IF f > n THEN "unborn" ELSE IF f \in W THEN "ready" ELSE IF f \in C THEN "copying"
    ELSE IF f \in D THEN "copied" ELSE IF f \in A THEN "done" ELSE "gone"

(* The refinement mapping in terms of those sets, now and after a step.    *)
LEMMA AtIs ==
    /\ at = [f \in Frame |-> PlaceOf(f, frame_id_, Asked, Copying, Copied, Answered)]
    /\ at' = [f \in Frame |-> PlaceOf(f, frame_id_', Asked', Copying', Copied', Answered')]
  <1>1. Waiting = Asked
    BY DEF Waiting, Asked, Announcing, Chosen
  <1>2. \A f : FrameAt(f) = PlaceOf(f, frame_id_, Asked, Copying, Copied, Answered)
    <2> TAKE f
    <2>1. /\ f \in Copying <=> f \in FrameOf(eFrame) /\ pcE = "copying"
          /\ f \in Copied <=> f \in FrameOf(eFrame) /\ pcE = "finish"
      BY DEF Copying, Copied
    <2> QED BY <1>1, <2>1 DEF FrameAt, PlaceOf, Answered
  <1>3. Waiting' = Asked'
    BY DEF Waiting, Asked, Announcing, Chosen
  <1>4. \A f : FrameAt(f)' = PlaceOf(f, frame_id_', Asked', Copying', Copied', Answered')
    <2> TAKE f
    <2>1. /\ f \in Copying' <=> f \in FrameOf(eFrame') /\ pcE' = "copying"
          /\ f \in Copied' <=> f \in FrameOf(eFrame') /\ pcE' = "finish"
      BY DEF Copying, Copied
    <2> QED BY <1>3, <2>1 DEF FrameAt, PlaceOf, Answered
  <1>5. at = [f \in Frame |-> FrameAt(f)] /\ at' = [f \in Frame |-> FrameAt(f)']
    BY DEF at
  <1> QED BY <1>2, <1>4, <1>5

(* The abstract module's ring is the transport's.                          *)
LEMMA SameRing ==
    /\ Abstract!Slot = Slot /\ Abstract!Generation = Generation /\ Abstract!FrameId = FrameId
    /\ Abstract!Frame = Frame
    /\ Abstract!ringVars = ringVars
    /\ Abstract!leaseVars = <<ringVars, at, homeGen, homeSlot>>
  BY DEF Abstract!Slot, Slot, Abstract!Generation, Generation, Abstract!FrameId, FrameId,
        Abstract!Frame, Frame,
         Abstract!ringVars, ringVars, Abstract!leaseVars

(* The operations of the ring are those of the abstract module.            *)
LEMMA SameOperations ==
    /\ Abstract!RingInit <=> RingInit
    /\ \A m : Abstract!create(m) <=> create(m)
    /\ Abstract!create_fails <=> create_fails
    /\ \A s : Abstract!acquire_slot(s) <=> acquire_slot(s)
    /\ \A s : Abstract!release_to_helper(s) <=> release_to_helper(s)
    /\ Abstract!mark_stale <=> mark_stale
    /\ \A f, s : Abstract!on_frame_done(f, s) <=> on_frame_done(f, s)
    /\ \A g, s : Abstract!stage_acquire(g, s) <=> stage_acquire(g, s)
    /\ \A g, s : Abstract!stage_release(g, s) <=> stage_release(g, s)
  <1> USE DEF Abstract!Slot, Slot, Abstract!Generation, Generation, Abstract!FreeSlot, FreeSlot
  <1>1. Abstract!RingInit <=> RingInit
    BY DEF Abstract!RingInit, RingInit
  <1>2. \A m : Abstract!create(m) <=> create(m)
    BY DEF Abstract!create, create, Abstract!destroy_locked, destroy_locked
  <1>3. Abstract!create_fails <=> create_fails
    BY DEF Abstract!create_fails, create_fails, Abstract!destroy_locked, destroy_locked
  <1>4. \A s : Abstract!acquire_slot(s) <=> acquire_slot(s)
    BY DEF Abstract!acquire_slot, acquire_slot, Abstract!Takeable, Takeable, Abstract!RoundRobin,
          RoundRobin
  <1>5. \A s : Abstract!release_to_helper(s) <=> release_to_helper(s)
    BY DEF Abstract!release_to_helper, release_to_helper
  <1>6. Abstract!mark_stale <=> mark_stale
    BY DEF Abstract!mark_stale, mark_stale
  <1>7. \A f, s : Abstract!on_frame_done(f, s) <=> on_frame_done(f, s)
    BY DEF Abstract!on_frame_done, on_frame_done, Abstract!DoneMatches, DoneMatches
  <1>8. \A g, s : Abstract!stage_acquire(g, s) <=> stage_acquire(g, s)
    BY DEF Abstract!stage_acquire, stage_acquire, Abstract!StageCanAcquire, StageCanAcquire
  <1>9. \A g, s : Abstract!stage_release(g, s) <=> stage_release(g, s)
    BY DEF Abstract!stage_release, stage_release
  <1> QED BY <1>1, <1>2, <1>3, <1>4, <1>5, <1>6, <1>7, <1>8, <1>9

(* What a step of the transport has to show to be a step of the lease.     *)
LEMMA Stutters == UNCHANGED <<ringVars, homeGen, homeSlot>> /\ at' = at
  => [Abstract!LeaseNext]_Abstract!leaseVars
  BY DEF Abstract!leaseVars, Abstract!ringVars, ringVars

(* A FrameDone made, with or without an older one lost for it.             *)
LEMMA Answers ==
  ASSUME NEW f \in Frame, at[f] \in {"ready", "copied"}, UNCHANGED <<ringVars, homeGen, homeSlot>>,
         \/ at' = [at EXCEPT ![f] = "done"]
         \/ \E g \in Frame : at[g] = "done" /\ at' = [at EXCEPT ![f] = "done", ![g] = "gone"]
  PROVE  [Abstract!LeaseNext]_Abstract!leaseVars
  <1>1. Abstract!Answer(f)
    BY SameRing DEF Abstract!Answer, Abstract!ringVars, ringVars
  <1> QED BY <1>1, SameRing DEF Abstract!LeaseNext

(* Frames lost with a queue or a session.                                  *)
LEMMA Loses ==
  ASSUME TypeInv, NEW F \in SUBSET Frame, \A f \in F : at[f] \in {"ready", "copied", "done"},
         at' = [f \in Frame |-> IF f \in F THEN "gone" ELSE at[f]],
         UNCHANGED <<ringVars, homeGen, homeSlot>>
  PROVE  [Abstract!LeaseNext]_Abstract!leaseVars
  <1>1. \A f \in F : at[f] # "copying"
    OBVIOUS
  <1>2. keyed = [g \in Generation |-> [s \in Slot |-> keyed[g][s]]]
    BY DEF TypeInv, RingTypeOK
  <1>3. keyed' = [g \in Generation |-> [s \in Slot |->
                   IF \E f \in F : at[f] = "copying" /\ homeGen[f] = g /\ homeSlot[f] = s
                     THEN "abandoned" ELSE keyed[g][s]]]
    BY <1>1, <1>2 DEF ringVars
  <1>4. Abstract!Lose(F)
    BY <1>3, SameRing DEF Abstract!Lose, ringVars
  <1> QED BY <1>4, SameRing DEF Abstract!LeaseNext

(* What the code keeps of messages, places and mutexes.                    *)
Wire == TypeInv /\ Numbers /\ Apart /\ Mutex

(* The announced frames are numbered from one.                             *)
LEMMA FrameNumber == TypeInv => frame_id_ \in Nat /\ frame_id_ <= MaxFrame
  /\ 1 .. frame_id_ \subseteq Frame
  BY RingAssumption DEF TypeInv, RingTypeOK, FrameId, Frame

(* Every frame under way has been announced.                               *)
LEMMA GoodBounds ==
  ASSUME NEW q, NEW n, NEW G, NEW H, Good(q, n, G, H)
  PROVE  Carries(q) \subseteq 1 .. n
  BY DEF Good, Sound, Carries, Bearing

(* Every frame under way has been announced.                               *)
LEMMA Bounds ==
  ASSUME TypeInv, Numbers
  PROVE  /\ FrameOf(ready) \subseteq 1 .. frame_id_ /\ Carries(pending_) \subseteq 1 .. frame_id_
         /\ Carries(toHelper) \subseteq 1 .. frame_id_ /\ FrameOf(hpending) \subseteq 1 .. frame_id_
         /\ FrameOf(eFrame) \subseteq 1 .. frame_id_ /\ Carries(done_) \subseteq 1 .. frame_id_
         /\ Carries(toShim) \subseteq 1 .. frame_id_
  <1>1. \A m \in FrameMsg \cup {None} : SoundOne(m, frame_id_, homeGen, homeSlot)
          => FrameOf(m) \subseteq 1 .. frame_id_
    BY Carried DEF SoundOne, Sound
  <1>2. FrameOf(ready) \subseteq 1 .. frame_id_ /\ FrameOf(hpending) \subseteq 1 .. frame_id_
          /\ FrameOf(eFrame) \subseteq 1 .. frame_id_
    BY <1>1 DEF TypeInv, PresentOK, IntakeOK, EncoderOK, Numbers
  <1>3. /\ Carries(pending_) \subseteq 1 .. frame_id_ /\ Carries(toHelper) \subseteq 1 .. frame_id_
        /\ Carries(done_) \subseteq 1 .. frame_id_ /\ Carries(toShim) \subseteq 1 .. frame_id_
    BY GoodBounds DEF Numbers
  <1> QED BY <1>2, <1>3

(* The places, as sets of frames that have been announced, are apart.      *)
LEMMA PlacesApart ==
  ASSUME TypeInv, Numbers, Apart
  PROVE  /\ Asked \subseteq 1 .. frame_id_ /\ Copying \subseteq 1 .. frame_id_
         /\ Copied \subseteq 1 .. frame_id_ /\ Answered \subseteq 1 .. frame_id_
         /\ Asked \cap (Copying \cup Copied \cup Answered) = {}
         /\ Copying \cap (Copied \cup Answered) = {}
         /\ Copied \cap Answered = {}
  <1>1. Asked \subseteq FrameOf(ready) \cup Carries(pending_) \cup Carries(toHelper) \cup FrameOf(hpending) \cup Chosen
    BY DEF Asked, Announcing
  <1>2. /\ Chosen \subseteq FrameOf(eFrame) /\ Copying \subseteq FrameOf(eFrame)
           /\ Copied \subseteq FrameOf(eFrame)
        /\ Chosen \cap Copying = {} /\ Chosen \cap Copied = {} /\ Copying \cap Copied = {}
    BY DEF Chosen, Copying, Copied
  <1>3. Asked \subseteq 1 .. frame_id_ /\ Copying \subseteq 1 .. frame_id_
         /\ Copied \subseteq 1 .. frame_id_ /\ Answered \subseteq 1 .. frame_id_
    BY <1>1, <1>2, Bounds DEF Answered
  <1>4. /\ Asked \cap (Copying \cup Copied \cup Answered) = {}
        /\ Copying \cap (Copied \cup Answered) = {}
        /\ Copied \cap Answered = {}
    BY <1>1, <1>2 DEF Apart, Disjoint, Answered
  <1> QED BY <1>3, <1>4

(* A frame's place in terms of those sets.                                 *)
LEMMA At ==
  ASSUME TypeInv, Numbers, Apart
  PROVE  \A f \in Frame : /\ at[f] = "unborn" <=> f > frame_id_
                          /\ at[f] = "ready" <=> f \in Asked
                          /\ at[f] = "copying" <=> f \in Copying
                          /\ at[f] = "copied" <=> f \in Copied
                          /\ at[f] = "done" <=> f \in Answered
  <1>1. \A f \in Frame : f > frame_id_ => f \notin 1 .. frame_id_
    BY FrameNumber DEF Frame
  <1> QED BY <1>1, AtIs, PlacesApart DEF PlaceOf

(* Frames are only moved.                                                  *)
LEMMA MovesFrames ==
  ASSUME Asked' = Asked, Copying' = Copying, Copied' = Copied, Answered' = Answered, frame_id_' = frame_id_
  PROVE  at' = at
  BY AtIs

(* A step that takes frames out of the queues and nothing else loses them. *)
LEMMA LosesFrames ==
  ASSUME TypeInv, Numbers, Apart, NEW F, F \subseteq Asked \cup Answered,
         Asked' = Asked \ F, Answered' = Answered \ F, Copying' = Copying, Copied' = Copied,
         UNCHANGED <<ringVars, homeGen, homeSlot>>
  PROVE  [Abstract!LeaseNext]_Abstract!leaseVars
  <1>1. F \subseteq 1 .. frame_id_ /\ F \in SUBSET Frame /\ F \cap (Copying \cup Copied) = {}
    BY PlacesApart, FrameNumber
  <1>2. \A f \in F : at[f] \in {"ready", "copied", "done"}
    BY <1>1, At
  <1>3. frame_id_' = frame_id_ /\ \A f \in F : ~(f > frame_id_)
    BY <1>1, FrameNumber DEF ringVars
  <1>4. \A f \in Frame : at'[f] = IF f \in F THEN "gone" ELSE at[f]
    BY <1>1, <1>3, AtIs DEF PlaceOf
  <1>5. at' = [f \in Frame |-> IF f \in F THEN "gone" ELSE at[f]]
    BY <1>4, AtIs
  <1> QED BY <1>1, <1>2, <1>5, Loses

(* A step that turns a frame into a FrameDone answers it.                  *)
LEMMA AnswersFrame ==
  ASSUME TypeInv, Numbers, Apart, NEW f \in Asked \cup Copied, NEW E \in SUBSET Answered,
         E = {} \/ \E g : E = {g},
         Asked' = Asked \ {f}, Copied' = Copied \ {f}, Copying' = Copying, Answered' = (Answered \ E) \cup {f},
         UNCHANGED <<ringVars, homeGen, homeSlot>>
  PROVE  [Abstract!LeaseNext]_Abstract!leaseVars
  <1>1. /\ f \in 1 .. frame_id_ /\ f \in Frame /\ f \notin Copying /\ f \notin Answered
        /\ E \subseteq 1 .. frame_id_ /\ E \subseteq Frame
           /\ E \cap (Asked \cup Copying \cup Copied) = {} /\ f \notin E
    BY PlacesApart, FrameNumber
  <1>2. at[f] \in {"ready", "copied"} /\ \A g \in E : at[g] = "done"
    BY <1>1, At
  <1>3. frame_id_' = frame_id_ /\ ~(f > frame_id_) /\ \A g \in E : ~(g > frame_id_)
    BY <1>1, FrameNumber DEF ringVars
  <1>4. \A h \in Frame : at'[h] = IF h = f THEN "done" ELSE IF h \in E THEN "gone" ELSE at[h]
    BY <1>1, <1>3, AtIs DEF PlaceOf
  <1>5. CASE E = {}
    <2>1. at' = [at EXCEPT ![f] = "done"]
      BY <1>1, <1>4, <1>5, AtIs
    <2> QED BY <1>1, <1>2, <2>1, Answers
  <1>6. CASE \E g : E = {g}
    <2> PICK g : E = {g}
      BY <1>6
    <2>1. g \in Frame /\ at[g] = "done" /\ g # f
      BY <1>1, <1>2
    <2>2. at' = [at EXCEPT ![f] = "done", ![g] = "gone"]
      BY <1>1, <1>4, <2>1, AtIs
    <2> QED BY <1>1, <1>2, <2>1, <2>2, Answers
  <1> QED BY <1>5, <1>6

(* The queue of answers takes one in, and loses its oldest if it is full.  *)
LEMMA Pushed ==
  ASSUME NEW q \in Seq(DoneMsg), NEW m \in FrameMsg, NEW n, NEW G, NEW H, Len(q) <= kMaxDone,
         Good(q, n, G, H), Sound(m, n, G, H), m.frame \notin Carries(q)
  PROVE  /\ Good(push_done(q, m), n, G, H)
         /\ \E E \in SUBSET Carries(q) : /\ E = {} \/ \E g : E = {g}
                                         /\ Carries(push_done(q, m)) = (Carries(q) \ E) \cup {m.frame}
  <1>1. FrameDone(m) \in DoneMsg /\ Sound(FrameDone(m), n, G, H)
          /\ CarriedBy(FrameDone(m)) = {m.frame}
    <2>1. FrameDone(m) \in DoneMsg
      BY MessageKinds
    <2>2. \A k \in FrameMsg :
            Sound(k, n, G, H) => Sound(FrameDone(k), n, G, H) /\ CarriedBy(FrameDone(k)) = {k.frame}
      BY Carried
    <2> QED BY <2>1, <2>2
  <1>2. CASE Len(q) >= kMaxDone
    <2>1. q # <<>>
      BY <1>2, TransportAssumption
    <2>2. /\ Good(Tail(q), n, G, H) /\ Tail(q) \in Seq(DoneMsg) /\ Head(q) \in DoneMsg
          /\ Carries(q) = CarriedBy(Head(q)) \cup Carries(Tail(q))
          /\ CarriedBy(Head(q)) \cap Carries(Tail(q)) = {}
      BY <2>1, GoodTail
    <2>3. CarriedBy(Head(q)) = {Head(q).frame}
      BY <2>2, Carried
    <2>4. push_done(q, m) = Append(Tail(q), FrameDone(m))
      BY <1>2 DEF push_done
    <2>5. /\ Good(Append(Tail(q), FrameDone(m)), n, G, H)
          /\ Carries(Append(Tail(q), FrameDone(m))) = Carries(Tail(q)) \cup {m.frame}
      <3>1. CarriedBy(FrameDone(m)) \cap Carries(Tail(q)) = {}
        BY <1>1, <2>2
      <3> DEFINE t == Tail(q)
                 d == FrameDone(m)
      <3>2. /\ t \in Seq(DoneMsg) /\ d \in DoneMsg /\ Good(t, n, G, H) /\ Sound(d, n, G, H)
            /\ CarriedBy(d) \cap Carries(t) = {}
        BY <1>1, <2>2, <3>1
      <3> HIDE DEF t, d
      <3>3. Good(Append(t, d), n, G, H) /\ Carries(Append(t, d)) = Carries(t) \cup CarriedBy(d)
        BY <3>2, GoodAppend
      <3> QED BY <1>1, <3>3 DEF t, d
    <2>6. Carries(Tail(q)) = Carries(q) \ {Head(q).frame} /\ {Head(q).frame} \in SUBSET Carries(q)
      BY <2>2, <2>3
    <2> QED BY <2>4, <2>5, <2>6
  <1>3. CASE ~(Len(q) >= kMaxDone)
    <2>1. push_done(q, m) = Append(q, FrameDone(m))
      BY <1>3 DEF push_done
    <2>2. Good(Append(q, FrameDone(m)), n, G, H)
            /\ Carries(Append(q, FrameDone(m))) = Carries(q) \cup {m.frame}
      BY <1>1, GoodAppend
    <2>3. {} \in SUBSET Carries(q) /\ Carries(q) \cup {m.frame} = (Carries(q) \ {}) \cup {m.frame}
      OBVIOUS
    <2> QED BY <2>1, <2>2, <2>3
  <1> QED BY <1>2, <1>3

-----------------------------------------------------------------------------
(* The steps of the threads.                                               *)

(* The messages, the encoder's program counter and the history.            *)
messageVars == <<ready, pending_, toHelper, staging_, hpending, done_, toShim, encoderVars, processVars>>

(* A step that leaves the messages alone leaves every frame where it is.   *)
LEMMA Quiet ==
  ASSUME Wire, UNCHANGED <<messageVars, frame_id_>>, Announcing' = Announcing
  PROVE  /\ Numbers' /\ Apart' /\ at' = at
         /\ UNCHANGED keyed => Mutex'
  <1> USE DEF messageVars, encoderVars, processVars
  <1>1. Numbers' /\ Apart'
    BY DEF Wire, Numbers, Apart
  <1>2. Asked' = Asked /\ Copying' = Copying /\ Copied' = Copied /\ Answered' = Answered
    BY DEF Asked, Chosen, Copying, Copied, Answered
  <1>3. UNCHANGED keyed => Mutex'
    BY DEF Wire, Mutex
  <1> QED BY <1>1, <1>2, <1>3, MovesFrames

(* What is shown of every step.                                            *)
Steps == Numbers' /\ Apart' /\ Mutex' /\ [Abstract!LeaseNext]_Abstract!leaseVars

(* Steps of program counters and flags.                                    *)
LEMMA QuietSteps ==
  ASSUME Wire, 
    \/ \E m \in Modes : Present(m)
    \/ Match \/ ClearResend \/ ExchangeResend \/ SendStagingConfig \/ on_ipc_connected
    \/ ClearConnected \/ DisconnectedResend \/ ReadTimeout \/ ClientToggle \/ UNCHANGED vars
  PROVE  Steps
  <1>1. UNCHANGED <<messageVars, ringVars>>
    BY DEF messageVars, Present, Match, ClearResend, ExchangeResend, SendStagingConfig,
          on_ipc_connected,
      ClearConnected, DisconnectedResend, ReadTimeout, ClientToggle, vars, shimVars, helperVars,
            ipcVars, pipeVars, intakeVars,
      presentVars
  <1>2. Announcing' = Announcing
    BY DEF messageVars, Present, Match, ClearResend, ExchangeResend, SendStagingConfig,
          on_ipc_connected,
      ClearConnected, DisconnectedResend, ReadTimeout, ClientToggle, vars, shimVars, presentVars,
            Announcing
  <1> QED BY <1>1, <1>2, Quiet, Stutters DEF Steps, ringVars, messageVars, processVars

(* A ring is rebuilt, or cannot be.                                        *)
LEMMA CreateRingStep ==
  ASSUME Wire, CreateRing
  PROVE  Steps
  <1> USE DEF CreateRing
  <1>1. UNCHANGED <<messageVars, frame_id_>>
    BY DEF messageVars, helperVars, ipcVars, pipeVars, intakeVars, create, create_fails
  <1>2. Announcing' = Announcing
    BY DEF Announcing, create
  <1>3. \A g \in Generation, s \in Slot : keyed'[g][s] = "helper" => keyed[g][s] = "helper"
    BY DEF create, create_fails, destroy_locked, Wire, TypeInv, RingTypeOK
  <1>4. Mutex'
    BY <1>1, <1>3 DEF Wire, Mutex, messageVars, encoderVars
  <1>5. reqMode \in Modes
    BY DEF Wire, TypeInv, PresentOK
  <1>6. Abstract!Rebuild \/ Abstract!RebuildFails
    BY <1>1, <1>2, <1>5, Quiet, SameOperations DEF Abstract!Rebuild, Abstract!RebuildFails,
          messageVars, processVars
  <1> QED BY <1>1, <1>2, <1>4, <1>6, Quiet DEF Steps, Abstract!LeaseNext

(* Present leases a slot or finds none.                                    *)
LEMMA LeaseSlotStep ==
  ASSUME Wire, LeaseSlot
  PROVE  Steps
  <1> USE DEF LeaseSlot
  <1>1. UNCHANGED <<messageVars, frame_id_>>
    BY DEF messageVars, helperVars, ipcVars, pipeVars, intakeVars, acquire_slot, ringVars
  <1>2. Announcing' = Announcing
    BY DEF Announcing
  <1>3. \A g \in Generation, s \in Slot : keyed'[g][s] = "helper" => keyed[g][s] = "helper"
    BY DEF acquire_slot, Wire, TypeInv, RingTypeOK, ringVars
  <1>4. Mutex'
    BY <1>1, <1>3 DEF Wire, Mutex, messageVars, encoderVars
  <1>6. Abstract!Lease \/ (UNCHANGED <<ringVars, homeGen, homeSlot>> /\ at' = at)
    BY <1>1, <1>2, Quiet, SameOperations, SameRing DEF Abstract!Lease, messageVars, processVars
  <1> QED BY <1>1, <1>2, <1>4, <1>6, Quiet, Stutters DEF Steps, Abstract!LeaseNext

(* The ring is marked stale by Present or at the end of a session.         *)
LEMMA StaleSteps ==
  ASSUME Wire, PresentMarksStale \/ DisconnectedStale
  PROVE  Steps
  <1>1. mark_stale /\ UNCHANGED <<pending_, toHelper, staging_, hpending, done_, toShim, encoderVars, processVars>>
    BY DEF PresentMarksStale, DisconnectedStale, helperVars, ipcVars, pipeVars, intakeVars
  <1>2. UNCHANGED <<frame_id_, keyed>>
    BY <1>1 DEF mark_stale
  <1>3. (ready' = None \/ ready' = ready) /\ Announcing' = Announcing
    BY DEF PresentMarksStale, DisconnectedStale, Announcing, presentVars
  <1>4. FrameOf(ready') \subseteq FrameOf(ready)
    BY <1>3, Carried
  <1>5. Numbers'
    BY <1>1, <1>2, <1>3 DEF Wire, Numbers, SoundOne, encoderVars, processVars
  <1>6. Apart'
    BY <1>1, <1>4 DEF Wire, Apart, Disjoint, encoderVars
  <1>7. Mutex'
    BY <1>1, <1>2 DEF Wire, Mutex, encoderVars
  <1>8. Asked' = Asked /\ Copying' = Copying /\ Copied' = Copied /\ Answered' = Answered
    BY <1>1, <1>3 DEF Asked, Chosen, Copying, Copied, Answered, encoderVars
  <1>9. Abstract!MarkStale
    BY <1>1, <1>2, <1>8, MovesFrames, SameOperations DEF Abstract!MarkStale, processVars
  <1> QED BY <1>5, <1>6, <1>7, <1>9 DEF Steps, Abstract!LeaseNext

(* A frame that finds no session is given up (direct_mode.cpp,             *)
(* transport_frame_locked).                                                *)
LEMMA QueueFrameReadyStep ==
  ASSUME Wire, QueueFrameReady
  PROVE  Steps
  <1> USE DEF QueueFrameReady
  <1>1. UNCHANGED <<messageVars, ringVars>>
    BY DEF messageVars, helperVars, ipcVars, pipeVars, intakeVars
  <1>2. CASE pcP' = "readyPush"
    <2>1. Announcing' = Announcing
      BY <1>2 DEF Announcing
    <2> QED BY <1>1, <2>1, Quiet, Stutters DEF Steps, ringVars, messageVars, processVars
  <1>3. CASE pcP' = "stale"
    <2>1. Announcing = FrameOf(ready) /\ Announcing' = {}
      BY <1>3 DEF Announcing
    <2>2. Numbers' /\ Apart' /\ Mutex'
      BY <1>1 DEF Wire, Numbers, Apart, Mutex, messageVars, ringVars, encoderVars, processVars
    <2>3. /\ Copying' = Copying /\ Copied' = Copied /\ Answered' = Answered
          /\ Chosen' = Chosen /\ Chosen \subseteq FrameOf(eFrame)
      BY <1>1 DEF Copying, Copied, Answered, Chosen, messageVars, encoderVars
    <2>4. Asked' = Asked \ FrameOf(ready) /\ FrameOf(ready) \subseteq Asked
            /\ Answered = Answered \ FrameOf(ready)
      BY <1>1, <2>1, <2>3 DEF Asked, Answered, Wire, Apart, Disjoint, messageVars
    <2>5. [Abstract!LeaseNext]_Abstract!leaseVars
      BY <1>1, <2>3, <2>4, LosesFrames DEF Wire, messageVars, processVars
    <2> QED BY <2>2, <2>5 DEF Steps
  <1> QED BY <1>2, <1>3

(* A frame is queued, or given up by a full queue.                         *)
LEMMA PushFrameReadyStep ==
  ASSUME Wire, PushFrameReady
  PROVE  Steps
  <1> USE DEF PushFrameReady
  <1>1. UNCHANGED <<ringVars, toHelper, staging_, hpending, done_, toShim, encoderVars, processVars>>
    BY DEF helperVars, pipeVars, intakeVars
  <1>2. Mutex' /\ Copying' = Copying /\ Copied' = Copied /\ Answered' = Answered /\ Chosen' = Chosen
        /\ Chosen \subseteq FrameOf(eFrame)
    BY <1>1 DEF Wire, Mutex, Copying, Copied, Answered, Chosen, ringVars, encoderVars
  <1>3. CASE pending_' = Append(pending_, ready) /\ pcP' = "idle" /\ ready' = None
    <2>1. ready \in FrameMsg /\ ready # None
            /\ pending_ \in Seq(ConfigMsg \cup FrameMsg \cup {Haptic})
      BY DEF Wire, TypeInv, PresentOK, IpcOK
    <2>2. FrameOf(ready) = CarriedBy(ready) /\ FrameOf(ready') = {}
      BY <1>3, <2>1, Carried
    <2>3. CarriedBy(ready) \cap Carries(pending_) = {}
      BY <2>2 DEF Wire, Apart, Disjoint
    <2>4. /\ Good(pending_', frame_id_, homeGen, homeSlot)
          /\ Carries(pending_') = Carries(pending_) \cup FrameOf(ready)
      BY <1>3, <2>1, <2>2, <2>3, GoodAppend DEF Wire, Numbers, SoundOne
    <2>5. Numbers'
      BY <1>1, <1>3, <2>4 DEF Wire, Numbers, SoundOne, ringVars, encoderVars, processVars
    <2>6. Apart'
      BY <1>1, <2>2, <2>4 DEF Wire, Apart, Disjoint, encoderVars
    <2>7. Announcing = FrameOf(ready) /\ Announcing' = {}
      BY <1>3 DEF Announcing
    <2>8. Asked' = Asked
      BY <1>1, <1>2, <2>4, <2>7 DEF Asked
    <2> QED BY <1>1, <1>2, <2>5, <2>6, <2>8, MovesFrames, Stutters DEF Steps, ringVars, processVars
  <1>4. CASE pcP' = "stale" /\ UNCHANGED <<pending_, ready>>
    <2>1. Announcing = FrameOf(ready) /\ Announcing' = {}
      BY <1>4 DEF Announcing
    <2>2. Numbers' /\ Apart'
      BY <1>1, <1>4 DEF Wire, Numbers, Apart, ringVars, encoderVars, processVars
    <2>4. Asked' = Asked \ FrameOf(ready) /\ FrameOf(ready) \subseteq Asked
            /\ Answered = Answered \ FrameOf(ready)
      BY <1>1, <1>2, <1>4, <2>1 DEF Asked, Answered, Wire, Apart, Disjoint
    <2>5. [Abstract!LeaseNext]_Abstract!leaseVars
      BY <1>1, <1>2, <2>4, LosesFrames DEF Wire, processVars
    <2> QED BY <1>2, <2>2, <2>5 DEF Steps
  <1> QED BY <1>3, <1>4

(* A haptic pulse carries no frame.                                        *)
LEMMA QueueHapticStep ==
  ASSUME Wire, QueueHaptic
  PROVE  Steps
  <1> USE DEF QueueHaptic
  <1>1. UNCHANGED <<ringVars, ready, pcP, toHelper, staging_, hpending, done_, toShim, encoderVars, processVars>>
    BY DEF helperVars, pipeVars, intakeVars, presentVars
  <1>2. Mutex' /\ Copying' = Copying /\ Copied' = Copied /\ Answered' = Answered
          /\ Chosen' = Chosen /\ Announcing' = Announcing
    BY <1>1 DEF Wire, Mutex, Copying, Copied, Answered, Chosen, Announcing, ringVars, encoderVars
  <1>3. /\ Good(pending_', frame_id_, homeGen, homeSlot)
        /\ Carries(pending_') = Carries(pending_)
    <2>1. /\ pending_ \in Seq(ConfigMsg \cup FrameMsg \cup {Haptic})
             /\ Haptic \in ConfigMsg \cup FrameMsg \cup {Haptic}
          /\ CarriedBy(Haptic) = {} /\ Sound(Haptic, frame_id_, homeGen, homeSlot)
          /\ Good(pending_, frame_id_, homeGen, homeSlot)
      BY Carried DEF Wire, TypeInv, IpcOK, Numbers
    <2>2. /\ Good(Append(pending_, Haptic), frame_id_, homeGen, homeSlot)
          /\ Carries(Append(pending_, Haptic)) = Carries(pending_) \cup CarriedBy(Haptic)
      <3> CarriedBy(Haptic) \cap Carries(pending_) = {}
        BY <2>1
      <3> QED BY <2>1, GoodAppend
    <2> QED BY <2>1, <2>2
  <1>4. Numbers' /\ Apart'
    BY <1>1, <1>3 DEF Wire, Numbers, Apart, ringVars, encoderVars, processVars
  <1>5. Asked' = Asked
    BY <1>1, <1>2, <1>3 DEF Asked
  <1> QED BY <1>1, <1>2, <1>4, <1>5, MovesFrames, Stutters DEF Steps, ringVars, processVars

(* A message goes from the queue into the pipe.                            *)
LEMMA FlushOutgoingStep ==
  ASSUME Wire, FlushOutgoing
  PROVE  Steps
  <1> USE DEF FlushOutgoing
  <1>1. UNCHANGED <<ringVars, ready, pcP, staging_, hpending, done_, toShim, encoderVars, processVars>>
    BY DEF helperVars, pipeVars, intakeVars, presentVars
  <1>2. Mutex' /\ Copying' = Copying /\ Copied' = Copied /\ Answered' = Answered
          /\ Chosen' = Chosen /\ Announcing' = Announcing
    BY <1>1 DEF Wire, Mutex, Copying, Copied, Answered, Chosen, Announcing, ringVars, encoderVars
  <1> DEFINE m == Head(pending_)
  <1>3. /\ Good(pending_', frame_id_, homeGen, homeSlot) /\ Sound(m, frame_id_, homeGen, homeSlot)
        /\ m \in ConfigMsg \cup FrameMsg \cup {Haptic}
        /\ Carries(pending_) = CarriedBy(m) \cup Carries(pending_')
        /\ CarriedBy(m) \cap Carries(pending_') = {}
    <2>1. pending_ \in Seq(ConfigMsg \cup FrameMsg \cup {Haptic})
            /\ Good(pending_, frame_id_, homeGen, homeSlot)
      BY DEF Wire, TypeInv, IpcOK, Numbers
    <2> QED BY <2>1, GoodTail
  <1>4. /\ Good(toHelper', frame_id_, homeGen, homeSlot)
        /\ Carries(toHelper') = Carries(toHelper) \cup CarriedBy(m)
    <2>1. toHelper \in Seq(ConfigMsg \cup FrameMsg \cup {Haptic, ShimHello})
            /\ Good(toHelper, frame_id_, homeGen, homeSlot)
      BY DEF Wire, TypeInv, PipeOK, Numbers
    <2>2. m \in ConfigMsg \cup FrameMsg \cup {Haptic, ShimHello}
            /\ CarriedBy(m) \cap Carries(toHelper) = {}
      BY <1>3 DEF Wire, Apart, Disjoint
    <2> HIDE DEF m
    <2>3. /\ Good(Append(toHelper, m), frame_id_, homeGen, homeSlot)
          /\ Carries(Append(toHelper, m)) = Carries(toHelper) \cup CarriedBy(m)
      BY <1>3, <2>1, <2>2, GoodAppend
    <2> QED BY <2>3 DEF m
  <1> HIDE DEF m
  <1>5. Numbers'
    BY <1>1, <1>3, <1>4 DEF Wire, Numbers, ringVars, encoderVars, processVars
  <1>6. Apart'
    BY <1>1, <1>3, <1>4 DEF Wire, Apart, Disjoint, encoderVars
  <1>7. Asked' = Asked
    BY <1>1, <1>2, <1>3, <1>4 DEF Asked
  <1> QED BY <1>1, <1>2, <1>5, <1>6, <1>7, MovesFrames, Stutters DEF Steps, ringVars, processVars

(* The encoder thread does nothing.                                        *)
LEMMA EncoderKeeps ==
  ASSUME Wire, UNCHANGED <<encoderVars, keyed>>
  PROVE  /\ Mutex' /\ Copying' = Copying /\ Copied' = Copied /\ Chosen' = Chosen
         /\ Chosen \subseteq FrameOf(eFrame)
  BY DEF Wire, Mutex, Copying, Copied, Chosen, encoderVars

(* The Present thread does nothing.                                        *)
LEMMA PresentKeeps ==
  ASSUME UNCHANGED <<pcP, ready>>
  PROVE  Announcing' = Announcing /\ Announcing \subseteq FrameOf(ready)
  BY DEF Announcing

(* Queues that are thrown away lose their frames.                          *)
LEMMA ClearingSteps ==
  ASSUME Wire, OpenPipe \/ EndSession \/ DropPending \/ DisconnectClient \/ on_shim_gone
           \/ Handshake
  PROVE  Steps
  <1>1. UNCHANGED <<ringVars, ready, pcP, encoderVars, processVars>>
    BY DEF OpenPipe, EndSession, DropPending, DisconnectClient, on_shim_gone, Handshake, helperVars,
          shimVars, presentVars
  <1>2. \E A \in {Carries(pending_), {}}, B \in {Carries(toHelper), {}}, h \in {FrameOf(hpending), {}},
            D \in {Carries(done_), {}}, S \in {Carries(toShim), {}} :
          /\ Carries(pending_') = A /\ Carries(toHelper') = B /\ FrameOf(hpending') = h
          /\ Carries(done_') = D /\ Carries(toShim') = S
    <2>1. Carries(<<ShimHello>>) = {} /\ Carries(<<HmdConfig>>) = {} /\ Carries(<<>>) = {}
            /\ FrameOf(None) = {}
      BY MessageKinds, CarriesEmpty, Carried DEF Carries
    <2>2. Handshake => Carries(toHelper') = Carries(toHelper)
      <3> HAVE Handshake
      <3>1. Carries(toHelper) = CarriedBy(Head(toHelper)) \cup Carries(Tail(toHelper))
        BY CarriesTail DEF Handshake, Wire, TypeInv, PipeOK
      <3> QED BY <3>1, Carried DEF Handshake
    <2>3. \/ Carries(pending_') = Carries(pending_) \/ Carries(pending_') = {}
      BY <2>1 DEF OpenPipe, EndSession, DropPending, DisconnectClient, on_shim_gone, Handshake,
            shimVars, ipcVars
    <2>4. \/ Carries(toHelper') = Carries(toHelper) \/ Carries(toHelper') = {}
      BY <2>1, <2>2 DEF OpenPipe, EndSession, DropPending, DisconnectClient, on_shim_gone, pipeVars
    <2>5. \/ Carries(toShim') = Carries(toShim) \/ Carries(toShim') = {}
      BY <2>1 DEF OpenPipe, EndSession, DropPending, DisconnectClient, on_shim_gone, Handshake,
            pipeVars
    <2>6. /\ FrameOf(hpending') = FrameOf(hpending) \/ FrameOf(hpending') = {}
          /\ Carries(done_') = Carries(done_) \/ Carries(done_') = {}
      BY <2>1 DEF OpenPipe, EndSession, DropPending, DisconnectClient, on_shim_gone, Handshake,
            helperVars, intakeVars
    <2> QED BY <2>3, <2>4, <2>5, <2>6
  <1>3. Numbers'
    <2>1. /\ Good(<<ShimHello>>, frame_id_, homeGen, homeSlot)
             /\ Good(<<HmdConfig>>, frame_id_, homeGen, homeSlot)
          /\ Good(<<>>, frame_id_, homeGen, homeSlot)
      BY GoodEmpty, Carried DEF Good, Once
    <2>2. Handshake => Good(toHelper', frame_id_, homeGen, homeSlot)
      BY GoodTail DEF Handshake, Wire, TypeInv, PipeOK, Numbers
    <2>3. Good(pending_', frame_id_, homeGen, homeSlot)
      BY <2>1 DEF OpenPipe, EndSession, DropPending, DisconnectClient, on_shim_gone, Handshake,
            shimVars, ipcVars, Wire, Numbers
    <2>4. Good(toHelper', frame_id_, homeGen, homeSlot)
      BY <2>1, <2>2 DEF OpenPipe, EndSession, DropPending, DisconnectClient, on_shim_gone, pipeVars,
            Wire, Numbers
    <2>5. Good(toShim', frame_id_, homeGen, homeSlot)
      BY <2>1 DEF OpenPipe, EndSession, DropPending, DisconnectClient, on_shim_gone, Handshake,
            pipeVars, Wire, Numbers
    <2>6. Good(done_', frame_id_, homeGen, homeSlot)
      BY <2>1 DEF OpenPipe, EndSession, DropPending, DisconnectClient, on_shim_gone, Handshake,
            helperVars, intakeVars, Wire, Numbers
    <2>7. SoundOne(staging_', frame_id_, homeGen, homeSlot)
            /\ SoundOne(hpending', frame_id_, homeGen, homeSlot)
      BY DEF OpenPipe, EndSession, DropPending, DisconnectClient, on_shim_gone, Handshake,
            helperVars,
            intakeVars, Wire, Numbers, SoundOne
    <2> QED BY <1>1, <2>3, <2>4, <2>5, <2>6, <2>7 DEF Wire, Numbers, ringVars, encoderVars,
          processVars
  <1>4. Apart'
    BY <1>1, <1>2 DEF Wire, Apart, Disjoint, encoderVars
  <1>5. Mutex' /\ Copying' = Copying /\ Copied' = Copied
    BY <1>1, EncoderKeeps DEF ringVars
  <1>6. [Abstract!LeaseNext]_Abstract!leaseVars
    <2> DEFINE F == (Asked \cup Answered) \ (Asked' \cup Answered')
    <2>1. Asked' = Asked \ F /\ Answered' = Answered \ F
      BY <1>1, <1>2, EncoderKeeps, PresentKeeps DEF Asked, Answered, Wire, Apart, Disjoint, ringVars
    <2> QED BY <1>1, <1>5, <2>1, LosesFrames DEF Wire, ringVars, processVars
  <1> QED BY <1>3, <1>4, <1>5, <1>6 DEF Steps

(* Messages without a frame are taken off the pipe.                        *)
LEMMA TakingSteps ==
  ASSUME Wire, ReceiveConfig \/ HandleHaptic
  PROVE  Steps
  <1>1. UNCHANGED <<ringVars, ready, pcP, pending_, staging_, hpending, done_, encoderVars, processVars>>
    BY DEF ReceiveConfig, HandleHaptic, helperVars, shimVars, presentVars, intakeVars, ipcVars
  <1>2. /\ Good(toHelper', frame_id_, homeGen, homeSlot) /\ Carries(toHelper') = Carries(toHelper)
        /\ Good(toShim', frame_id_, homeGen, homeSlot) /\ Carries(toShim') = Carries(toShim)
    <2>1. CASE ReceiveConfig
      <3>1. toShim \in Seq(DoneMsg \cup {HmdConfig}) /\ toShim # <<>>
              /\ Good(toShim, frame_id_, homeGen, homeSlot)
        BY <2>1 DEF ReceiveConfig, Wire, TypeInv, PipeOK, Numbers
      <3>2. Good(Tail(toShim), frame_id_, homeGen, homeSlot)
              /\ Carries(toShim) = CarriedBy(HmdConfig) \cup Carries(Tail(toShim))
        BY <2>1, <3>1, GoodTail DEF ReceiveConfig
      <3> QED BY <2>1, <3>2, Carried DEF ReceiveConfig, Wire, Numbers
    <2>2. CASE HandleHaptic
      <3>1. toHelper \in Seq(ConfigMsg \cup FrameMsg \cup {Haptic, ShimHello}) /\ toHelper # <<>>
              /\ Good(toHelper, frame_id_, homeGen, homeSlot)
        BY <2>2 DEF HandleHaptic, Wire, TypeInv, PipeOK, Numbers
      <3>2. Good(Tail(toHelper), frame_id_, homeGen, homeSlot)
              /\ Carries(toHelper) = CarriedBy(Haptic) \cup Carries(Tail(toHelper))
        BY <2>2, <3>1, GoodTail DEF HandleHaptic
      <3> QED BY <2>2, <3>2, Carried DEF HandleHaptic, Wire, Numbers
    <2> QED BY <2>1, <2>2
  <1>3. Numbers' /\ Apart'
    BY <1>1, <1>2 DEF Wire, Numbers, Apart, ringVars, encoderVars, processVars
  <1>4. Asked' = Asked /\ Answered' = Answered
    BY <1>1, <1>2, EncoderKeeps, PresentKeeps DEF Asked, Answered, ringVars
  <1>5. Mutex' /\ Copying' = Copying /\ Copied' = Copied
    BY <1>1, EncoderKeeps DEF ringVars
  <1> QED BY <1>1, <1>3, <1>4, <1>5, MovesFrames, Stutters DEF Steps, ringVars, processVars

(* A StagingConfig is queued, if need be in the place of the oldest        *)
(* message.                                                                *)
LEMMA PushStagingConfigStep ==
  ASSUME Wire, PushStagingConfig
  PROVE  Steps
  <1> USE DEF PushStagingConfig
  <1>1. UNCHANGED <<ringVars, ready, toHelper, staging_, hpending, done_, toShim, encoderVars, processVars>>
    BY DEF helperVars, pipeVars, intakeVars
  <1>2. Announcing' = {} /\ Announcing = {}
    BY DEF Announcing
  <1> DEFINE c == StagingConfig(generation_)
  <1>3. c \in ConfigMsg /\ CarriedBy(c) = {} /\ Sound(c, frame_id_, homeGen, homeSlot)
    <2>1. c \in ConfigMsg /\ CarriedBy(c) = {} /\ ~Bearing(c) /\ c.type = "config"
      BY MessageMade, Carried, MessageKinds DEF Wire
    <2>2. c.generation = c.ring
      <3>1. generation_ \in Nat /\ firstGen = 0
        BY SlotFacts DEF Wire, TypeInv, RingTypeOK, Numbers
      <3> QED BY <3>1 DEF StagingConfig
    <2> QED BY <2>1, <2>2 DEF Sound
  <1> HIDE DEF c
  <1> DEFINE MS == ConfigMsg \cup FrameMsg \cup {Haptic}
  <1>4. pending_ \in Seq(MS) /\ Good(pending_, frame_id_, homeGen, homeSlot)
    BY DEF Wire, TypeInv, IpcOK, Numbers
  <1>s. c \in MS
    BY <1>3
  <1> HIDE DEF MS
  <1>5. /\ Good(pending_', frame_id_, homeGen, homeSlot)
        /\ Carries(pending_') \subseteq Carries(pending_)
    <2>1. CASE Len(pending_) >= kMaxPendingMessages
      <3>1. pending_ # <<>>
        BY <2>1, TransportAssumption
      <3> DEFINE t == Tail(pending_)
      <3>2. Good(t, frame_id_, homeGen, homeSlot) /\ t \in Seq(MS)
              /\ Carries(t) \subseteq Carries(pending_)
        BY <1>4, <3>1, GoodTail
      <3>3. pending_' = Append(t, c)
        BY <2>1 DEF PushNotEvictable, c
      <3> HIDE DEF t
      <3>4. CarriedBy(c) \cap Carries(t) = {}
        BY <1>3
      <3>5. t \in Seq(MS) /\ Good(t, frame_id_, homeGen, homeSlot)
              /\ Sound(c, frame_id_, homeGen, homeSlot)
        BY <1>3, <3>2
      <3>6. Good(Append(t, c), frame_id_, homeGen, homeSlot)
              /\ Carries(Append(t, c)) = Carries(t) \cup CarriedBy(c)
        BY ONLY <1>s, <3>4, <3>5, GoodAppend
      <3> QED BY <1>3, <3>2, <3>3, <3>6
    <2>2. CASE ~(Len(pending_) >= kMaxPendingMessages)
      <3>3. pending_' = Append(pending_, c)
        BY <2>2 DEF PushNotEvictable, c
      <3>4. CarriedBy(c) \cap Carries(pending_) = {}
        BY <1>3
      <3>5. Good(Append(pending_, c), frame_id_, homeGen, homeSlot)
              /\ Carries(Append(pending_, c)) = Carries(pending_) \cup CarriedBy(c)
        BY <1>s, <1>3, <1>4, <3>4, GoodAppend
      <3> QED BY <1>3, <3>3, <3>5
    <2> QED BY <2>1, <2>2
  <1>6. Numbers'
    BY <1>1, <1>5 DEF Wire, Numbers, ringVars, encoderVars, processVars
  <1>7. Apart'
    BY <1>1, <1>5 DEF Wire, Apart, Disjoint, encoderVars
  <1>8. Mutex' /\ Copying' = Copying /\ Copied' = Copied /\ Chosen' = Chosen
          /\ Chosen \subseteq FrameOf(eFrame)
    BY <1>1, EncoderKeeps DEF ringVars
  <1> DEFINE F == Carries(pending_) \ Carries(pending_')
  <1>9. F \subseteq Asked \cup Answered /\ Asked' = Asked \ F /\ Answered' = Answered \ F
    BY <1>1, <1>2, <1>5, <1>8 DEF Asked, Answered, Wire, Apart, Disjoint
  <1> QED BY <1>1, <1>6, <1>7, <1>8, <1>9, LosesFrames DEF Steps, Wire, ringVars, processVars

(* A FrameDone goes into the pipe.                                         *)
LEMMA FlushFrameDoneStep ==
  ASSUME Wire, FlushFrameDone
  PROVE  Steps
  <1> USE DEF FlushFrameDone
  <1>1. UNCHANGED <<ringVars, ready, pcP, pending_, toHelper, staging_, hpending, encoderVars, processVars>>
    BY DEF shimVars, presentVars, ipcVars
  <1>2. /\ Good(toShim', frame_id_, homeGen, homeSlot) /\ Good(done_', frame_id_, homeGen, homeSlot)
        /\ Carries(done_') \cap Carries(toShim') = {}
        /\ Carries(done_') \cup Carries(toShim') = Carries(done_) \cup Carries(toShim)
    <2>1. CASE done_ # <<>>
      <3> DEFINE m == Head(done_)
      <3>1. /\ Good(done_', frame_id_, homeGen, homeSlot) /\ Sound(m, frame_id_, homeGen, homeSlot)
            /\ m \in DoneMsg /\ Carries(done_) = CarriedBy(m) \cup Carries(done_')
            /\ CarriedBy(m) \cap Carries(done_') = {}
        <4>1. done_ \in Seq(DoneMsg) /\ Good(done_, frame_id_, homeGen, homeSlot)
                /\ done_' = Tail(done_)
          BY <2>1 DEF Wire, TypeInv, IntakeOK, Numbers
        <4> QED BY <2>1, <4>1, GoodTail
      <3>2. toShim \in Seq(DoneMsg \cup {HmdConfig}) /\ Good(toShim, frame_id_, homeGen, homeSlot)
              /\ toShim' = Append(toShim, m)
        BY <2>1 DEF Wire, TypeInv, PipeOK, Numbers
      <3> HIDE DEF m
      <3>3. m \in DoneMsg \cup {HmdConfig} /\ CarriedBy(m) \cap Carries(toShim) = {}
              /\ Carries(done_) \cap Carries(toShim) = {}
        BY <3>1 DEF Wire, Apart, Disjoint
      <3>4. Good(Append(toShim, m), frame_id_, homeGen, homeSlot)
              /\ Carries(Append(toShim, m)) = Carries(toShim) \cup CarriedBy(m)
        BY <3>1, <3>2, <3>3, GoodAppend
      <3> QED BY <3>1, <3>2, <3>3, <3>4
    <2>2. CASE UNCHANGED <<toShim, done_>>
      BY <2>2 DEF Wire, Numbers, Apart, Disjoint
    <2> QED BY <2>1, <2>2
  <1>3. Numbers'
    BY <1>1, <1>2 DEF Wire, Numbers, ringVars, encoderVars, processVars
  <1>4. Apart'
    BY <1>1, <1>2 DEF Wire, Apart, Disjoint, encoderVars
  <1>5. Mutex' /\ Copying' = Copying /\ Copied' = Copied
    BY <1>1, EncoderKeeps DEF ringVars
  <1>6. Asked' = Asked /\ Answered' = Answered
    BY <1>1, <1>2, EncoderKeeps, PresentKeeps DEF Asked, Answered, ringVars
  <1> QED BY <1>1, <1>3, <1>4, <1>5, <1>6, MovesFrames, Stutters DEF Steps, ringVars, processVars

(* A FrameDone reaches the ring under the number of its own frame and      *)
(* slot.                                                                   *)
LEMMA ReceiveFrameDoneStep ==
  ASSUME Wire, ReceiveFrameDone
  PROVE  Steps
  <1> USE DEF ReceiveFrameDone
  <1>1. /\ UNCHANGED <<ready, pcP, pending_, toHelper, staging_, hpending, done_, encoderVars, processVars>>
        /\ UNCHANGED <<frame_id_, keyed>>
    BY DEF presentVars, ipcVars, helperVars, intakeVars, on_frame_done
  <1> DEFINE m == Head(toShim)
  <1>2. /\ Good(toShim', frame_id_, homeGen, homeSlot) /\ Sound(m, frame_id_, homeGen, homeSlot)
        /\ m \in DoneMsg \cup {HmdConfig} /\ Carries(toShim) = CarriedBy(m) \cup Carries(toShim')
        /\ CarriedBy(m) \cap Carries(toShim') = {}
    BY GoodTail DEF Wire, TypeInv, PipeOK, Numbers
  <1>3. m \in DoneMsg /\ CarriedBy(m) = {m.frame} /\ Bearing(m)
    BY <1>2, MessageKinds, Carried
  <1>4. on_frame_done(firstId + m.frame_id, m.staging_index)
    OBVIOUS
  <1> HIDE DEF m
  <1>5. m.frame \in 1 .. frame_id_ /\ m.frame_id = m.frame /\ m.staging_index = homeSlot[m.frame]
          /\ m.frame \in Frame
    BY <1>2, <1>3, FrameNumber DEF Sound, Wire
  <1>6. on_frame_done(m.frame, homeSlot[m.frame])
    <2>1. firstId + m.frame_id = m.frame
      BY <1>5, FrameNumber DEF Wire, Numbers
    <2> QED BY <1>4, <1>5, <2>1
  <1>7. Numbers'
    BY <1>1, <1>2 DEF Wire, Numbers, encoderVars, processVars
  <1>8. Apart'
    BY <1>1, <1>2 DEF Wire, Apart, Disjoint, encoderVars
  <1>9. Mutex' /\ Copying' = Copying /\ Copied' = Copied
    BY <1>1, EncoderKeeps
  <1>10. Asked' = Asked /\ Answered' = Answered \ {m.frame} /\ m.frame \in Answered
    BY <1>1, <1>2, <1>3, EncoderKeeps, PresentKeeps DEF Asked, Answered, Wire, Apart, Disjoint
  <1>11. Abstract!Done(m.frame)
    <2>1. at[m.frame] = "done"
      BY <1>5, <1>10, At DEF Wire
    <2>2. ~(m.frame > frame_id_) /\ m.frame \notin Asked \cup Copying \cup Copied
      BY <1>5, <1>10, FrameNumber, PlacesApart DEF Wire
    <2>3. \A f \in Frame : at'[f] = IF f = m.frame THEN "gone" ELSE at[f]
      BY <1>1, <1>9, <1>10, <2>2, AtIs DEF PlaceOf
    <2>4. at' = [at EXCEPT ![m.frame] = "gone"]
      BY <1>5, <2>3, AtIs
    <2> QED BY <1>1, <1>6, <2>1, <2>4, SameOperations DEF Abstract!Done, processVars
  <1> QED BY <1>5, <1>7, <1>8, <1>9, <1>11, SameRing DEF Steps, Abstract!LeaseNext

(* The encoder thread answers its frame, whatever becomes of the encoder.  *)
LEMMA AnswerFrameStep ==
  ASSUME Wire, AnswerFrame, pcE \in {"popped", "request", "encode", "finish"},
         UNCHANGED <<ringVars, pcP, ready, pending_, toHelper, staging_, hpending, toShim, processVars>>,
         SoundOne(eConfig', frame_id_, homeGen, homeSlot), SoundOne(stage', frame_id_, homeGen, homeSlot)
  PROVE  Steps
  <1>1. eFrame \in FrameMsg /\ Sound(eFrame, frame_id_, homeGen, homeSlot)
          /\ FrameOf(eFrame) = {eFrame.frame}
    <2>1. eFrame \in FrameMsg /\ eFrame # None
      BY DEF Wire, TypeInv, EncoderOK
    <2> QED BY <2>1, Carried DEF Wire, Numbers, SoundOne
  <1>2. eFrame.frame \notin Carries(done_)
    BY <1>1 DEF Wire, Apart, Disjoint
  <1>3. done_ \in Seq(DoneMsg) /\ Len(done_) <= kMaxDone
          /\ Good(done_, frame_id_, homeGen, homeSlot)
    BY DEF Wire, TypeInv, IntakeOK, Numbers
  <1>4. /\ Good(done_', frame_id_, homeGen, homeSlot)
        /\ \E E \in SUBSET Carries(done_) : /\ E = {} \/ \E g : E = {g}
                                            /\ Carries(done_') = (Carries(done_) \ E) \cup {eFrame.frame}
    BY <1>1, <1>2, <1>3, Pushed DEF AnswerFrame
  <1> PICK E \in SUBSET Carries(done_) : /\ E = {} \/ \E g : E = {g}
                                         /\ Carries(done_') = (Carries(done_) \ E) \cup {eFrame.frame}
    BY <1>4
  <1>5. eFrame' = None /\ FrameOf(eFrame') = {} /\ pcE' = "wait"
    BY Carried DEF AnswerFrame
  <1>6. Numbers'
    BY <1>4, <1>5 DEF Wire, Numbers, SoundOne, ringVars, processVars
  <1>7. Apart'
    BY <1>1, <1>5 DEF Wire, Apart, Disjoint
  <1>8. Mutex'
    BY <1>5 DEF Wire, Mutex, ringVars
  <1>9. Copying' = {} /\ Copying = {} /\ Copied' = {} /\ Chosen' = {}
          /\ Chosen \cup Copied = {eFrame.frame}
        /\ (Chosen = {} \/ Copied = {})
    BY <1>1, <1>5 DEF Copying, Copied, Chosen
  <1>10. /\ eFrame.frame \in Asked \cup Copied /\ E \in SUBSET Answered
         /\ Asked' = Asked \ {eFrame.frame} /\ Copied' = Copied \ {eFrame.frame}
         /\ Answered' = (Answered \ E) \cup {eFrame.frame}
    <2>1. Announcing' = Announcing /\ Announcing \subseteq FrameOf(ready)
      BY PresentKeeps
    <2>2. eFrame.frame \in Asked \cup Copied
      BY <1>9 DEF Asked
    <2>3. Asked' = Asked \ {eFrame.frame} /\ Copied' = Copied \ {eFrame.frame}
      BY <1>1, <1>9, <2>1 DEF Asked, Wire, Apart, Disjoint
    <2>4. Answered' = (Answered \ E) \cup {eFrame.frame}
      BY DEF Answered, Wire, Apart, Disjoint
    <2> QED BY <2>2, <2>3, <2>4 DEF Answered
  <1>11. [Abstract!LeaseNext]_Abstract!leaseVars
    BY <1>9, <1>10, AnswersFrame DEF Wire, processVars
  <1> QED BY <1>6, <1>7, <1>8, <1>11 DEF Steps

(* The encoder thread finds a config or answers its frame.                 *)
LEMMA ReadStagingStep ==
  ASSUME Wire, ReadStaging
  PROVE  Steps
  <1> USE DEF ReadStaging
  <1>1. UNCHANGED <<ringVars, pcP, ready, pending_, toHelper, staging_, hpending, toShim, processVars, stage>>
    BY DEF shimVars, presentVars, ipcVars, pipeVars
  <1>2. SoundOne(eConfig', frame_id_, homeGen, homeSlot)
          /\ SoundOne(stage', frame_id_, homeGen, homeSlot)
    BY DEF Wire, Numbers
  <1>3. CASE AnswerFrame
    BY <1>1, <1>2, <1>3, AnswerFrameStep
  <1>4. CASE pcE' = "request" /\ UNCHANGED <<done_, eFrame>>
    <2>1. Numbers' /\ Apart'
      BY <1>1, <1>2, <1>4 DEF Wire, Numbers, Apart, ringVars, processVars
    <2>2. Mutex'
      BY <1>1, <1>4 DEF Wire, Mutex, ringVars
    <2>3. Copying' = Copying /\ Copied' = Copied /\ Chosen' = Chosen
      BY <1>4 DEF Copying, Copied, Chosen
    <2>4. Asked' = Asked /\ Answered' = Answered
      BY <1>1, <1>4, <2>3, PresentKeeps DEF Asked, Answered
    <2> QED BY <1>1, <2>1, <2>2, <2>3, <2>4, MovesFrames, Stutters DEF Steps, ringVars, processVars
  <1> QED BY <1>3, <1>4

(* The encoder is kept, rebuilt, or fails.                                 *)
LEMMA EnsureEncoderStep ==
  ASSUME Wire, EnsureEncoder
  PROVE  Steps
  <1> USE DEF EnsureEncoder
  <1>1. UNCHANGED <<ringVars, pcP, ready, pending_, toHelper, staging_, hpending, toShim, processVars, eConfig>>
    BY DEF shimVars, presentVars, ipcVars, pipeVars
  <1>2. SoundOne(eConfig', frame_id_, homeGen, homeSlot)
          /\ SoundOne(stage', frame_id_, homeGen, homeSlot)
    BY DEF Wire, Numbers, SoundOne
  <1>3. CASE AnswerFrame
    BY <1>1, <1>2, <1>3, AnswerFrameStep
  <1>4. CASE pcE' = "encode" /\ UNCHANGED <<done_, eFrame>>
    <2>1. Numbers' /\ Apart'
      BY <1>1, <1>2, <1>4 DEF Wire, Numbers, Apart, ringVars, processVars
    <2>2. Mutex'
      BY <1>1, <1>4 DEF Wire, Mutex, ringVars
    <2>3. Copying' = Copying /\ Copied' = Copied /\ Chosen' = Chosen
      BY <1>4 DEF Copying, Copied, Chosen
    <2>4. Asked' = Asked /\ Answered' = Answered
      BY <1>1, <1>4, <2>3, PresentKeeps DEF Asked, Answered
    <2> QED BY <1>1, <2>1, <2>2, <2>3, <2>4, MovesFrames, Stutters DEF Steps, ringVars, processVars
  <1> QED BY <1>3, <1>4

(* A copied frame is answered.                                             *)
LEMMA FinishStep ==
  ASSUME Wire, Finish
  PROVE  Steps
  <1> USE DEF Finish
  <1>1. UNCHANGED <<ringVars, pcP, ready, pending_, toHelper, staging_, hpending, toShim, processVars, eConfig>>
    BY DEF shimVars, presentVars, ipcVars, pipeVars
  <1>2. SoundOne(eConfig', frame_id_, homeGen, homeSlot)
          /\ SoundOne(stage', frame_id_, homeGen, homeSlot)
    BY DEF Wire, Numbers, SoundOne
  <1> QED BY <1>1, <1>2, AnswerFrameStep

(* The encoder thread takes the pending frame, or finds none.              *)
LEMMA TakingPendingSteps ==
  ASSUME Wire, Wake \/ Shutdown
  PROVE  Steps
  <1>1. UNCHANGED <<ringVars, pcP, ready, pending_, toHelper, staging_, done_, toShim, processVars, eConfig>>
    BY DEF Wake, Shutdown, shimVars, presentVars, ipcVars, pipeVars
  <1>2. stage' = stage \/ stage' = None
    BY DEF Wake, Shutdown
  <1>3. eFrame = None /\ FrameOf(eFrame) = {} /\ pcE \in {"wait", "shutdown"}
    BY Carried DEF Wake, Shutdown, Wire, TypeInv, EncoderOK
  <1>4. \/ pcE' = "shutdown" /\ UNCHANGED <<eFrame, hpending>>
        \/ eFrame' = hpending /\ hpending' = None /\ pcE' \in {"wait", "popped"}
    BY DEF Wake, Shutdown, TakePending
  <1>5. /\ FrameOf(eFrame') \cup FrameOf(hpending') = FrameOf(hpending)
        /\ FrameOf(eFrame') \cap FrameOf(hpending') = {}
    BY <1>3, <1>4, Carried
  <1>6. Numbers'
    <2>1. SoundOne(eFrame', frame_id_, homeGen, homeSlot)
            /\ SoundOne(hpending', frame_id_, homeGen, homeSlot)
      BY <1>4 DEF Wire, Numbers, SoundOne
    <2>2. SoundOne(stage', frame_id_, homeGen, homeSlot)
      BY <1>2 DEF Wire, Numbers, SoundOne
    <2> QED BY <1>1, <2>1, <2>2 DEF Wire, Numbers, ringVars, processVars
  <1>7. Apart'
    BY <1>1, <1>3, <1>5 DEF Wire, Apart, Disjoint
  <1>8. Mutex'
    BY <1>1, <1>3, <1>4 DEF Wire, Mutex, ringVars
  <1>9. Copying' = Copying /\ Copied' = Copied /\ Chosen' = FrameOf(eFrame') /\ Chosen = {}
    BY <1>3, <1>4 DEF Copying, Copied, Chosen
  <1>10. Asked' = Asked /\ Answered' = Answered
    BY <1>1, <1>5, <1>9, PresentKeeps DEF Asked, Answered
  <1> QED BY <1>1, <1>6, <1>7, <1>8, <1>9, <1>10, MovesFrames, Stutters DEF Steps, ringVars,
        processVars

(* A helper that dies loses what it has and abandons the mutex it holds.   *)
LEMMA HelperCrashStep ==
  ASSUME Wire, HelperCrash, Abstract!LeaseInv
  PROVE  Steps
  <1> USE DEF HelperCrash
  <1>1. UNCHANGED <<generation_, built, mode_, stale_, next_, slots_, frame_id_, pixels, pcP, ready, pending_, processVars>>
    BY DEF shimVars, presentVars, ipcVars
  <1>2. /\ Carries(toHelper') = {} /\ Carries(toShim') = {} /\ FrameOf(hpending') = {}
           /\ FrameOf(eFrame') = {}
        /\ Carries(done_') = {}
    BY CarriesEmpty, Carried
  <1>3. Numbers'
    BY <1>1, GoodEmpty DEF Wire, Numbers, SoundOne, processVars
  <1>4. Apart'
    BY <1>1, <1>2 DEF Wire, Apart, Disjoint
  <1>5. Mutex'
    BY DEF Mutex, Abandon
  <1>6. Copying' = {} /\ Copied' = {} /\ Chosen' = {} /\ Answered' = {}
    BY <1>2 DEF Copying, Copied, Chosen, Answered
  <1> DEFINE F == Frame \cap ((Asked \cup Copying \cup Copied \cup Answered) \ Asked')
  <1>7. Asked' \subseteq Asked
    BY <1>1, <1>2, <1>6, PresentKeeps DEF Asked
  <1>8. \A f \in F : at[f] \in {"ready", "copying", "copied", "done"}
    BY At DEF Wire
  <1>9. at' = [f \in Frame |-> IF f \in F THEN "gone" ELSE at[f]]
    <2>1. \A f \in Frame : at'[f] = IF f \in F THEN "gone" ELSE at[f]
      <3> TAKE f \in Frame
      <3>1. f \in Asked \cup Copying \cup Copied \cup Answered => ~(f > frame_id_)
        BY At DEF Wire
      <3>2. frame_id_' = frame_id_
        BY <1>1
      <3> HIDE DEF HelperCrash
      <3> QED BY <1>6, <1>7, <3>1, <3>2, AtIs DEF PlaceOf
    <2> QED BY <2>1, AtIs
  <1>10. keyed' = [g \in Generation |-> [s \in Slot |->
                   IF \E f \in F : at[f] = "copying" /\ homeGen[f] = g /\ homeSlot[f] = s
                     THEN "abandoned" ELSE keyed[g][s]]]
    <2>1. ASSUME NEW g \in Generation, NEW s \in Slot
          PROVE  keyed[g][s] = "helper" <=> \E f \in F : at[f] = "copying" /\ homeGen[f] = g
                  /\ homeSlot[f] = s
      <3>1. ASSUME keyed[g][s] = "helper"
            PROVE  \E f \in F : at[f] = "copying" /\ homeGen[f] = g /\ homeSlot[f] = s
        <4>1. pcE = "copying" /\ g = stage.ring /\ s = eFrame.staging_index
                /\ eFrame.generation = stage.generation
          BY <3>1 DEF Wire, Mutex
        <4>2. eFrame \in FrameMsg /\ eFrame # None /\ stage \in ConfigMsg /\ stage # None
          BY <4>1 DEF Wire, TypeInv, EncoderOK
        <4>3. FrameOf(eFrame) = {eFrame.frame} /\ Bearing(eFrame) /\ eFrame.type = "frame"
                /\ stage.type = "config"
          BY <4>2, Carried, MessageKinds
        <4>4. /\ stage.generation = stage.ring /\ eFrame.generation = eFrame.ring
                 /\ eFrame.ring = homeGen[eFrame.frame]
              /\ eFrame.staging_index = homeSlot[eFrame.frame] /\ eFrame.frame \in Frame
          BY <4>2, <4>3, FrameNumber DEF Wire, Numbers, SoundOne, Sound
        <4>5. eFrame.frame \in Copying /\ eFrame.frame \notin Asked
          BY <4>1, <4>3, PlacesApart DEF Copying, Wire
        <4>6. at[eFrame.frame] = "copying"
          BY <4>4, <4>5, At DEF Wire
        <4>7. eFrame.frame \in F
          BY <1>7, <4>4, <4>5
        <4> QED BY <4>1, <4>4, <4>6, <4>7
      <3>2. ASSUME NEW f \in F, at[f] = "copying" /\ homeGen[f] = g /\ homeSlot[f] = s
            PROVE  keyed[g][s] = "helper"
        BY <3>2, SameRing DEF Abstract!LeaseInv, Abstract!CopyHoldsMutex
      <3> QED BY <3>1, <3>2
    <2> QED BY <2>1 DEF Abandon
  <1>11. Abstract!Lose(F)
    <2>1. UNCHANGED <<homeGen, homeSlot>>
      BY <1>1 DEF processVars
    <2> HIDE DEF F
    <2> QED BY <1>1, <1>8, <1>9, <1>10, <2>1, SameRing DEF Abstract!Lose
  <1>12. Abstract!LeaseNext
    <2>1. F \in SUBSET Abstract!Frame
      BY SameRing
    <2> QED BY <1>11, <2>1 DEF Abstract!LeaseNext
  <1> QED BY <1>3, <1>4, <1>5, <1>12 DEF Steps

(* The encoder's frame and ring, as the numbers on the wire identify them. *)
LEMMA EncoderFrame ==
  ASSUME Wire, pcE \in {"encode", "copying"}, eFrame.generation = stage.generation
  PROVE  /\ FrameOf(eFrame) = {eFrame.frame} /\ eFrame.frame \in Frame
         /\ stage.ring = homeGen[eFrame.frame] /\ eFrame.staging_index = homeSlot[eFrame.frame]
         /\ stage.ring \in Generation /\ eFrame.staging_index \in Slot
         /\ ~(eFrame.frame > frame_id_)
  <1>1. eFrame \in FrameMsg /\ eFrame # None /\ stage \in ConfigMsg /\ stage # None
    BY DEF Wire, TypeInv, EncoderOK
  <1>2. FrameOf(eFrame) = {eFrame.frame} /\ Bearing(eFrame) /\ eFrame.type = "frame"
          /\ stage.type = "config"
    BY <1>1, Carried, MessageKinds
  <1>3. /\ stage.generation = stage.ring /\ eFrame.generation = eFrame.ring
           /\ eFrame.ring = homeGen[eFrame.frame]
        /\ eFrame.staging_index = homeSlot[eFrame.frame] /\ eFrame.frame \in 1 .. frame_id_
    BY <1>1, <1>2 DEF Wire, Numbers, SoundOne, Sound
  <1>4. stage.ring \in Generation /\ eFrame.staging_index \in Slot
    BY <1>1 DEF ConfigMsg, FrameMsg
  <1> QED BY <1>2, <1>3, <1>4, FrameNumber DEF Wire

(* The encoder starts to copy the texture its frame was blitted into.      *)
LEMMA AcquireStageStep ==
  ASSUME Wire, AcquireStage
  PROVE  Steps
  <1> USE DEF AcquireStage
  <1>1. UNCHANGED <<pcP, ready, pending_, toHelper, staging_, hpending, toShim, processVars, stage, eConfig>>
    BY DEF shimVars, presentVars, ipcVars, pipeVars
  <1>2. SoundOne(eConfig', frame_id_, homeGen, homeSlot)
          /\ SoundOne(stage', frame_id_, homeGen, homeSlot)
    BY DEF Wire, Numbers
  <1>3. CASE AnswerFrame /\ UNCHANGED ringVars
    BY <1>1, <1>2, <1>3, AnswerFrameStep
  <1>4. CASE /\ eFrame.generation = stage.generation
                /\ StageCanAcquire(stage.ring, eFrame.staging_index)
             /\ stage_acquire(stage.ring, eFrame.staging_index)
             /\ pcE' = "copying"
             /\ UNCHANGED <<done_, eFrame>>
    <2> DEFINE f0 == eFrame.frame
    <2>0. /\ FrameOf(eFrame) = {f0} /\ f0 \in Frame /\ ~(f0 > frame_id_)
          /\ stage.ring = homeGen[f0] /\ eFrame.staging_index = homeSlot[f0]
          /\ stage.ring \in Generation /\ eFrame.staging_index \in Slot
      BY <1>4, EncoderFrame
    <2>k. UNCHANGED frame_id_
            /\ keyed' = [keyed EXCEPT ![stage.ring][eFrame.staging_index] = "helper"]
      BY <1>4 DEF stage_acquire
    <2>1. Numbers' /\ Apart'
      BY <1>1, <1>4, <2>k DEF Wire, Numbers, Apart, processVars
    <2>2. Mutex'
      <3>1. keyed \in [Generation -> [Slot -> KeyState]]
        BY DEF Wire, TypeInv, RingTypeOK
      <3>2. \A g \in Generation, s \in Slot :
              keyed'[g][s] = "helper" => keyed[g][s] = "helper" \/ (g = stage.ring
                /\ s = eFrame.staging_index)
        BY <2>0, <2>k, <3>1
      <3>3. \A g \in Generation, s \in Slot : keyed[g][s] # "helper"
        BY DEF Wire, Mutex
      <3> QED BY <1>1, <1>4, <3>2, <3>3 DEF Mutex
    <2>3. Copying' = {f0} /\ Copying = {} /\ Copied' = {} /\ Copied = {} /\ Chosen = {f0}
            /\ Chosen' = {}
      BY <1>4, <2>0 DEF Copying, Copied, Chosen
    <2>4. Asked' = Asked \ {f0} /\ f0 \in Asked /\ Answered' = Answered
      BY <1>1, <1>4, <2>0, <2>3, PresentKeeps DEF Asked, Answered, Wire, Apart, Disjoint
    <2>5. at[f0] = "ready"
      BY <2>0, <2>4, At DEF Wire
    <2>6. at' = [at EXCEPT ![f0] = "copying"]
      <3>1. \A f \in Frame : at'[f] = IF f = f0 THEN "copying" ELSE at[f]
        BY <2>k, <2>0, <2>3, <2>4, AtIs DEF PlaceOf
      <3> QED BY <2>0, <3>1, AtIs
    <2>7. Abstract!StartCopy(f0)
      BY <1>1, <1>4, <2>0, <2>5, <2>6, SameOperations DEF Abstract!StartCopy, processVars
    <2> QED BY <2>0, <2>1, <2>2, <2>7, SameRing DEF Steps, Abstract!LeaseNext
  <1> QED BY <1>3, <1>4

(* The encoder has copied it.                                              *)
LEMMA ReleaseStageStep ==
  ASSUME Wire, ReleaseStage
  PROVE  Steps
  <1> USE DEF ReleaseStage
  <1>1. UNCHANGED <<pcP, ready, pending_, toHelper, staging_, hpending, done_, toShim, processVars, stage, eFrame, eConfig>>
    BY DEF shimVars, presentVars, ipcVars, pipeVars, intakeVars
  <1> DEFINE f0 == eFrame.frame
  <1>0. /\ FrameOf(eFrame) = {f0} /\ f0 \in Frame /\ ~(f0 > frame_id_)
        /\ stage.ring = homeGen[f0] /\ eFrame.staging_index = homeSlot[f0]
        /\ stage.ring \in Generation /\ eFrame.staging_index \in Slot
    BY EncoderFrame DEF Wire, Mutex
  <1>k. UNCHANGED frame_id_ /\ keyed' = [keyed EXCEPT ![stage.ring][eFrame.staging_index] = "k0"]
    BY DEF stage_release
  <1>2. Numbers' /\ Apart'
    BY <1>1, <1>k DEF Wire, Numbers, Apart, processVars
  <1>3. Mutex'
    <2>1. keyed \in [Generation -> [Slot -> KeyState]]
      BY DEF Wire, TypeInv, RingTypeOK
    <2>2. \A g \in Generation, s \in Slot : keyed'[g][s] = "helper" =>
            keyed[g][s] = "helper" /\ ~(g = stage.ring /\ s = eFrame.staging_index)
      BY <1>0, <1>k, <2>1
    <2> QED BY <2>2 DEF Wire, Mutex
  <1>4. Copying = {f0} /\ Copying' = {} /\ Copied' = {f0} /\ Copied = {} /\ Chosen = {}
          /\ Chosen' = {}
    BY <1>0, <1>1 DEF Copying, Copied, Chosen
  <1>5. Asked' = Asked /\ Answered' = Answered
    BY <1>1, <1>4, PresentKeeps DEF Asked, Answered
  <1>6. at[f0] = "copying" /\ f0 \notin Asked
    BY <1>0, <1>4, At, PlacesApart DEF Wire
  <1>7. at' = [at EXCEPT ![f0] = "copied"]
    <2>1. \A f \in Frame : at'[f] = IF f = f0 THEN "copied" ELSE at[f]
      BY <1>k, <1>0, <1>4, <1>5, <1>6, AtIs DEF PlaceOf
    <2> QED BY <1>0, <2>1, AtIs
  <1>8. Abstract!EndCopy(f0)
    BY <1>1, <1>0, <1>6, <1>7, SameOperations DEF Abstract!EndCopy, processVars
  <1> QED BY <1>0, <1>2, <1>3, <1>8, SameRing DEF Steps, Abstract!LeaseNext

(* A new frame is announced in the slot Present leased.                    *)
LEMMA ReleaseToHelperStep ==
  ASSUME Wire, ReleaseToHelper
  PROVE  Steps
  <1> USE DEF ReleaseToHelper
  <1> DEFINE f0 == frame_id_ + 1
  <1>1. UNCHANGED <<pending_, toHelper, staging_, hpending, done_, toShim, encoderVars, firstGen, firstId>>
    BY DEF helperVars, ipcVars, pipeVars, intakeVars
  <1>2. /\ lease \in Slot /\ frame_id_ \in Nat /\ frame_id_ < MaxFrame /\ frame_id_' = f0
           /\ f0 \in Frame
        /\ ready = None /\ FrameOf(ready) = {} /\ ready' # None /\ FrameOf(ready') = {f0}
           /\ ready' = FrameReady(f0, generation_, lease)
    <2>1. lease \in Slot /\ ready = None
      BY DEF Wire, TypeInv, PresentOK
    <2>2. frame_id_ < MaxFrame /\ frame_id_' = f0 /\ frame_id_ \in Nat
      BY FrameNumber DEF Wire, release_to_helper
    <2>3. f0 \in Frame
      BY <2>2, RingAssumption DEF Frame
    <2>4. FrameReady(f0, generation_, lease) \in FrameMsg
      BY <2>1, <2>2, MessageMade DEF Wire
    <2>5. FrameReady(f0, generation_, lease).frame = f0
      BY DEF FrameReady
    <2>6. FrameOf(ready') = {f0} /\ ready' # None
      BY <2>4, <2>5, Carried, MessageKinds
    <2> QED BY <2>1, <2>2, <2>3, <2>6, Carried
  <1>3. homeGen'[f0] = generation_ /\ homeSlot'[f0] = lease
          /\ \A f \in 1 .. frame_id_ : homeGen'[f] = homeGen[f] /\ homeSlot'[f] = homeSlot[f]
    <2>1. homeGen \in [Frame -> Generation] /\ homeSlot \in [Frame -> Slot]
      BY DEF Wire, TypeInv, ProcessOK
    <2>2. \A f \in 1 .. frame_id_ : f \in Frame /\ f # f0
      BY <1>2, FrameNumber DEF Wire
    <2> QED BY <1>2, <2>1, <2>2
  <1>4. Sound(ready', f0, homeGen', homeSlot')
    <2>1. /\ ready'.type = "frame" /\ ready'.frame = f0 /\ ready'.frame_id = f0 - firstId
             /\ ready'.ring = generation_
          /\ ready'.generation = generation_ - firstGen /\ ready'.staging_index = lease
      BY DEF FrameReady
    <2>2. firstId = 0 /\ firstGen = 0 /\ generation_ \in Nat
      BY SlotFacts DEF Wire, TypeInv, RingTypeOK, Numbers
    <2>3. f0 - firstId = f0 /\ generation_ - firstGen = generation_ /\ f0 \in 1 .. f0
      BY <1>2, <2>2
    <2> HIDE DEF f0
    <2> QED BY <1>3, <2>1, <2>3 DEF Sound, Bearing
  <1>5. Numbers'
    <2>1. /\ Good(pending_, f0, homeGen', homeSlot') /\ Good(toHelper, f0, homeGen', homeSlot')
          /\ Good(done_, f0, homeGen', homeSlot') /\ Good(toShim, f0, homeGen', homeSlot')
      BY <1>2, <1>3, SoundKept DEF Wire, Numbers
    <2>2. /\ SoundOne(staging_, f0, homeGen', homeSlot')
             /\ SoundOne(hpending, f0, homeGen', homeSlot')
          /\ SoundOne(eFrame, f0, homeGen', homeSlot') /\ SoundOne(eConfig, f0, homeGen', homeSlot')
          /\ SoundOne(stage, f0, homeGen', homeSlot')
      BY <1>2, <1>3, SoundKept DEF Wire, Numbers
    <2>3. firstGen' = 0 /\ firstId' = 0
      BY DEF Wire, Numbers
    <2>4. frame_id_' = f0
      BY <1>2
    <2>5. SoundOne(ready', f0, homeGen', homeSlot')
      BY <1>4 DEF SoundOne
    <2>6. UNCHANGED <<pending_, toHelper, staging_, hpending, done_, toShim, eFrame, eConfig, stage>>
      BY <1>1 DEF encoderVars
    <2> HIDE DEF f0, ReleaseToHelper
    <2> QED BY <2>1, <2>2, <2>3, <2>4, <2>5, <2>6 DEF Numbers
  <1>6. f0 \notin 1 .. frame_id_
    BY <1>2
  <1>7. Apart'
    BY <1>1, <1>2, <1>6, Bounds DEF Wire, Apart, Disjoint, encoderVars
  <1>8. Mutex'
    <2>1. \A g \in Generation, s \in Slot : keyed'[g][s] = "helper" => keyed[g][s] = "helper"
      BY <1>2 DEF release_to_helper, Wire, TypeInv, RingTypeOK
    <2> QED BY <1>1, <2>1 DEF Wire, Mutex, encoderVars
  <1>9. Copying' = Copying /\ Copied' = Copied /\ Answered' = Answered /\ Asked' = Asked \cup {f0}
    <2>1. Copying' = Copying /\ Copied' = Copied /\ Answered' = Answered /\ Chosen' = Chosen
      BY <1>1 DEF Copying, Copied, Chosen, Answered, encoderVars
    <2>2. Announcing = {} /\ Announcing' = {f0}
      BY <1>2 DEF Announcing
    <2> QED BY <1>1, <2>1, <2>2 DEF Asked
  <1>10. at' = [at EXCEPT ![f0] = "ready"]
    <2>1. \A f \in Frame : f # f0 => (f > frame_id_ <=> f > f0)
      BY <1>2 DEF Frame
    <2>2. ~(f0 > f0)
      BY <1>2
    <2>3. \A f \in Frame : at'[f] = IF f = f0 THEN "ready" ELSE at[f]
      <3> TAKE f \in Frame
      <3>1. frame_id_' = f0
        BY <1>2
      <3> HIDE DEF f0, ReleaseToHelper
      <3> QED BY <1>9, <2>1, <2>2, <3>1, AtIs DEF PlaceOf
    <2> QED BY <1>2, <2>3, AtIs
  <1>11. Abstract!Announce
    BY <1>2, <1>10, SameOperations, SameRing DEF Abstract!Announce
  <1> QED BY <1>5, <1>7, <1>8, <1>11 DEF Steps, Abstract!LeaseNext

(* The head of the pipe comes off; what is pending becomes something else. *)
LEMMA HelperTakes ==
  ASSUME Wire, toHelper # <<>>, toHelper' = Tail(toHelper)
  PROVE  /\ Good(toHelper', frame_id_, homeGen, homeSlot)
            /\ Sound(Head(toHelper), frame_id_, homeGen, homeSlot)
         /\ Head(toHelper) \in ConfigMsg \cup FrameMsg \cup {Haptic, ShimHello}
         /\ Carries(toHelper) = CarriedBy(Head(toHelper)) \cup Carries(toHelper')
         /\ CarriedBy(Head(toHelper)) \cap Carries(toHelper') = {}
  <1>1. /\ toHelper \in Seq(ConfigMsg \cup FrameMsg \cup {Haptic, ShimHello})
        /\ Good(toHelper, frame_id_, homeGen, homeSlot)
    BY DEF Wire, TypeInv, PipeOK, Numbers
  <1> QED BY <1>1, GoodTail

(* A frame the pipe thread answers itself.                                 *)
LEMMA IntakeAnswers ==
  ASSUME Wire, NEW m \in FrameMsg, Sound(m, frame_id_, homeGen, homeSlot), done_' = push_done(done_, m),
         m.frame \in Carries(toHelper) \cup FrameOf(hpending),
         UNCHANGED <<ringVars, pcP, ready, pending_, toShim, encoderVars, processVars>>,
         Carries(toHelper') \cup FrameOf(hpending') = (Carries(toHelper) \cup FrameOf(hpending)) \ {m.frame},
         Carries(toHelper') \cap FrameOf(hpending') = {},
         Good(toHelper', frame_id_, homeGen, homeSlot), SoundOne(hpending', frame_id_, homeGen, homeSlot),
         SoundOne(staging_', frame_id_, homeGen, homeSlot)
  PROVE  Steps
  <1>2. m.frame \notin Carries(done_)
    BY DEF Wire, Apart, Disjoint
  <1>3. done_ \in Seq(DoneMsg) /\ Len(done_) <= kMaxDone
          /\ Good(done_, frame_id_, homeGen, homeSlot)
    BY DEF Wire, TypeInv, IntakeOK, Numbers
  <1>4. /\ Good(done_', frame_id_, homeGen, homeSlot)
        /\ \E E \in SUBSET Carries(done_) : /\ E = {} \/ \E g : E = {g}
                                            /\ Carries(done_') = (Carries(done_) \ E) \cup {m.frame}
    BY <1>2, <1>3, Pushed
  <1> PICK E \in SUBSET Carries(done_) : /\ E = {} \/ \E g : E = {g}
                                         /\ Carries(done_') = (Carries(done_) \ E) \cup {m.frame}
    BY <1>4
  <1>6. Numbers'
    BY <1>4 DEF Wire, Numbers, ringVars, encoderVars, processVars
  <1>7. Apart'
    BY DEF Wire, Apart, Disjoint, encoderVars
  <1>8. Mutex' /\ Copying' = Copying /\ Copied' = Copied /\ Chosen' = Chosen
          /\ Chosen \subseteq FrameOf(eFrame)
    BY EncoderKeeps DEF ringVars
  <1>9. m.frame \in Asked /\ Asked' = Asked \ {m.frame} /\ Copied' = Copied \ {m.frame}
    <2>1. m.frame \in Asked
      BY DEF Asked
    <2>2. Copied' = Copied \ {m.frame}
      BY <1>8, <2>1, PlacesApart DEF Wire
    <2>3. Announcing' = Announcing /\ Announcing \subseteq FrameOf(ready)
      BY PresentKeeps
    <2>4. m.frame \notin Announcing \cup Carries(pending_) \cup Chosen
      BY <1>8, <2>3 DEF Wire, Apart, Disjoint
    <2>5. Asked' = Asked \ {m.frame}
      BY <1>8, <2>3, <2>4 DEF Asked
    <2> QED BY <2>1, <2>2, <2>5
  <1>10. Answered' = (Answered \ E) \cup {m.frame} /\ E \in SUBSET Answered
    BY DEF Answered, Wire, Apart, Disjoint
  <1>11. [Abstract!LeaseNext]_Abstract!leaseVars
    BY <1>8, <1>9, <1>10, AnswersFrame DEF Wire, processVars
  <1> QED BY <1>6, <1>7, <1>8, <1>11 DEF Steps

(* A frame or a config taken in without an answer.                         *)
LEMMA IntakeMoves ==
  ASSUME Wire, UNCHANGED <<ringVars, pcP, ready, pending_, done_, toShim, encoderVars, processVars>>,
         Carries(toHelper') \cup FrameOf(hpending') = Carries(toHelper) \cup FrameOf(hpending),
         Carries(toHelper') \cap FrameOf(hpending') = {},
         Good(toHelper', frame_id_, homeGen, homeSlot), SoundOne(hpending', frame_id_, homeGen, homeSlot),
         SoundOne(staging_', frame_id_, homeGen, homeSlot)
  PROVE  Steps
  <1>6. Numbers'
    BY DEF Wire, Numbers, ringVars, encoderVars, processVars
  <1>7. Apart'
    BY DEF Wire, Apart, Disjoint, encoderVars
  <1>8. Mutex' /\ Copying' = Copying /\ Copied' = Copied /\ Chosen' = Chosen
    BY EncoderKeeps DEF ringVars
  <1>9. Asked' = Asked /\ Answered' = Answered
    BY <1>8, PresentKeeps DEF Asked, Answered
  <1> QED BY <1>6, <1>7, <1>8, <1>9, MovesFrames, Stutters DEF Steps, ringVars, processVars

(* The frame the intake keeps for the encoder thread.                      *)
LEMMA PendingFrame ==
  ASSUME Wire
  PROVE  /\ hpending = None => FrameOf(hpending) = {}
         /\ hpending # None => hpending \in FrameMsg
            /\ Sound(hpending, frame_id_, homeGen, homeSlot) /\ FrameOf(hpending) = {hpending.frame}
         /\ Carries(toHelper) \cap FrameOf(hpending) = {}
  <1>1. hpending \in FrameMsg \cup {None} /\ SoundOne(hpending, frame_id_, homeGen, homeSlot)
    BY DEF Wire, TypeInv, IntakeOK, Numbers
  <1>2. Carries(toHelper) \cap FrameOf(hpending) = {}
    BY DEF Wire, Apart, Disjoint
  <1> QED BY <1>1, <1>2, Carried DEF SoundOne

(* A new config answers the frame kept for the old ring.                   *)
LEMMA StagingConfigStep ==
  ASSUME Wire, on_staging_config
  PROVE  Steps
  <1> USE DEF on_staging_config
  <1>1. UNCHANGED <<ringVars, pcP, ready, pending_, toShim, encoderVars, processVars>>
    BY DEF shimVars, presentVars, ipcVars
  <1>2. /\ Good(toHelper', frame_id_, homeGen, homeSlot) /\ Carries(toHelper') = Carries(toHelper)
        /\ SoundOne(staging_', frame_id_, homeGen, homeSlot)
    <2>1. Head(toHelper) \in ConfigMsg
      BY HelperTakes, MessageKinds
    <2> QED BY <2>1, HelperTakes, Carried DEF SoundOne
  <1>3. CASE hpending # None /\ done_' = push_done(done_, hpending) /\ hpending' = None
    <2>1. SoundOne(hpending', frame_id_, homeGen, homeSlot) /\ FrameOf(hpending') = {}
      BY <1>3, Carried DEF SoundOne
    <2> QED BY <1>1, <1>2, <1>3, <2>1, PendingFrame, IntakeAnswers
  <1>4. CASE UNCHANGED <<done_, hpending>>
    <2>1. SoundOne(hpending', frame_id_, homeGen, homeSlot)
      BY <1>4 DEF Wire, Numbers
    <2> QED BY <1>1, <1>2, <1>4, <2>1, PendingFrame, IntakeMoves
  <1> QED BY <1>3, <1>4

(* A frame is refused, replaces the one kept, or is kept.                  *)
LEMMA FrameReadyStep ==
  ASSUME Wire, on_frame_ready
  PROVE  Steps
  <1> USE DEF on_frame_ready
  <1>1. UNCHANGED <<ringVars, pcP, ready, pending_, toShim, staging_, encoderVars, processVars>>
    BY DEF shimVars, presentVars, ipcVars
  <1> DEFINE m == Head(toHelper)
  <1>2. /\ Good(toHelper', frame_id_, homeGen, homeSlot) /\ Sound(m, frame_id_, homeGen, homeSlot)
           /\ m \in FrameMsg
        /\ Carries(toHelper) = {m.frame} \cup Carries(toHelper')
           /\ m.frame \notin Carries(toHelper')
        /\ FrameOf(m) = {m.frame} /\ SoundOne(m, frame_id_, homeGen, homeSlot)
    <2>1. m \in FrameMsg
      BY HelperTakes, MessageKinds
    <2> QED BY <2>1, HelperTakes, Carried DEF SoundOne
  <1>3. SoundOne(staging_', frame_id_, homeGen, homeSlot)
          /\ SoundOne(hpending, frame_id_, homeGen, homeSlot)
    BY <1>1 DEF Wire, Numbers
  <1>4. CASE done_' = push_done(done_, m) /\ UNCHANGED hpending
    <2> HIDE DEF m, on_frame_ready
    <2>1. Carries(toHelper') \cup FrameOf(hpending') = (Carries(toHelper) \cup FrameOf(hpending)) \ {m.frame}
          /\ Carries(toHelper') \cap FrameOf(hpending') = {}
      BY <1>2, <1>4, PendingFrame
    <2> QED BY <1>1, <1>2, <1>3, <1>4, <2>1, IntakeAnswers
  <1>5. CASE hpending # None /\ done_' = push_done(done_, hpending) /\ hpending' = m
    <2> HIDE DEF m, on_frame_ready
    <2>1. Carries(toHelper') \cup FrameOf(hpending') = (Carries(toHelper) \cup FrameOf(hpending)) \ {hpending.frame}
          /\ Carries(toHelper') \cap FrameOf(hpending') = {}
      BY <1>2, <1>5, PendingFrame
    <2>2. hpending.frame \in Carries(toHelper) \cup FrameOf(hpending)
      BY <1>5, PendingFrame
    <2> QED BY <1>1, <1>2, <1>3, <1>5, <2>1, <2>2, PendingFrame, IntakeAnswers
  <1>6. CASE hpending = None /\ UNCHANGED done_ /\ hpending' = m
    <2> HIDE DEF m, on_frame_ready
    <2>1. Carries(toHelper') \cup FrameOf(hpending') = Carries(toHelper) \cup FrameOf(hpending)
          /\ Carries(toHelper') \cap FrameOf(hpending') = {}
      BY <1>2, <1>6, PendingFrame
    <2> QED BY <1>1, <1>2, <1>3, <1>6, <2>1, IntakeMoves
  <1> QED BY <1>4, <1>5, <1>6

(* Every step of the transport keeps the invariants and is a step of the   *)
(* lease.                                                                  *)
LEMMA WireStep ==
  ASSUME MaxRestarts = 0, Wire, Abstract!LeaseInv, [Next]_vars
  PROVE  Wire' /\ [Abstract!LeaseNext]_Abstract!leaseVars
  <1>1. TypeInv'
    BY TypeStep DEF Wire
  <1>2. ~VrserverRestart
    <2>1. restarts = 0
      BY DEF Wire, TypeInv, ProcessOK
    <2> QED BY <2>1 DEF VrserverRestart
  <1>3. Steps
    <2>1. CASE PresentThread
      BY <2>1, QuietSteps, CreateRingStep, PushStagingConfigStep, LeaseSlotStep,
            ReleaseToHelperStep,
            QueueFrameReadyStep,
         PushFrameReadyStep, StaleSteps DEF PresentThread
    <2>2. CASE IpcThread
      BY <2>2, QuietSteps, FlushOutgoingStep, TakingSteps, ReceiveFrameDoneStep, ClearingSteps,
            StaleSteps DEF IpcThread
    <2>3. CASE PipeThread
      BY <2>3, QuietSteps, ClearingSteps, FlushFrameDoneStep, StagingConfigStep, FrameReadyStep,
            TakingSteps DEF PipeThread
    <2>4. CASE EncoderThread
      BY <2>4, TakingPendingSteps, ReadStagingStep, EnsureEncoderStep, AcquireStageStep,
            ReleaseStageStep, FinishStep
         DEF EncoderThread
    <2> QED BY <1>2, <2>1, <2>2, <2>3, <2>4, QuietSteps, QueueHapticStep, ClearingSteps,
          HelperCrashStep DEF Next
  <1> QED BY <1>1, <1>3 DEF Steps, Wire

-----------------------------------------------------------------------------
(* The lease's own inductive invariant, as DriverSide_proofs proves it, of the *)
(* transport's places.                                                     *)

(* A ring has at least one slot and the index of the next one is in range. *)
LEMMA LeaseSlotFacts ==
    /\ 0 \in Abstract!Slot
    /\ 0 \in Abstract!Generation
    /\ 0 \in Abstract!FrameId
    /\ \A n \in Nat : n % Count \in Abstract!Slot
    /\ Abstract!Slot \subseteq Nat
  BY RingAssumption DEF Abstract!Slot, Abstract!Generation, Abstract!FrameId

(* The initial state satisfies the inductive invariant.                    *)
LEMMA LeaseInitInv == Abstract!LeaseInit => Abstract!LeaseInv
  <1> SUFFICES ASSUME Abstract!LeaseInit PROVE Abstract!LeaseInv
    OBVIOUS
  <1> USE RingAssumption, LeaseSlotFacts
  <1>1. Abstract!LeaseTypeOK
    BY DEF Abstract!LeaseInit, Abstract!RingInit, Abstract!LeaseTypeOK, Abstract!RingTypeOK,
          Abstract!FreeSlot, Abstract!SlotState,
           Abstract!KeyState, Abstract!Place, Abstract!Slot, Abstract!Generation,
                 Abstract!FrameId, Abstract!Frame
  <1>2. Abstract!BornInOrder
    BY DEF Abstract!LeaseInit, Abstract!RingInit, Abstract!BornInOrder, Abstract!Frame
  <1>3. Abstract!NoRingNoLease /\ Abstract!OwnedNamesItsFrame
    BY DEF Abstract!LeaseInit, Abstract!RingInit, Abstract!NoRingNoLease,
          Abstract!OwnedNamesItsFrame,
          Abstract!FreeSlot
  <1>4. Abstract!HomeExists /\ Abstract!HeldStaysOwned /\ Abstract!PixelsWait
          /\ Abstract!CopyHoldsMutex
    BY DEF Abstract!LeaseInit, Abstract!RingInit, Abstract!HomeExists, Abstract!HeldStaysOwned,
          Abstract!PixelsWait, Abstract!CopyHoldsMutex, Abstract!Held
  <1> QED BY <1>1, <1>2, <1>3, <1>4 DEF Abstract!LeaseInv

(* Every operation of the ring and of the helper keeps the type invariant. *)
LEMMA LeaseTypeStep == Abstract!LeaseTypeOK /\ [Abstract!LeaseNext]_Abstract!leaseVars
  => Abstract!LeaseTypeOK'
  <1> SUFFICES ASSUME Abstract!LeaseTypeOK, [Abstract!LeaseNext]_Abstract!leaseVars PROVE Abstract!LeaseTypeOK'
    OBVIOUS
  <1> USE RingAssumption, LeaseSlotFacts
  <1> USE DEF Abstract!LeaseTypeOK, Abstract!RingTypeOK, Abstract!Place, Abstract!Frame,
        Abstract!FrameId, Abstract!Generation, Abstract!SlotState, Abstract!KeyState,
        Abstract!FreeSlot
  <1>1. CASE Abstract!Rebuild
    <2> PICK m \in Modes : Abstract!create(m) /\ UNCHANGED <<at, homeGen, homeSlot>>
      BY <1>1 DEF Abstract!Rebuild
    <2>1. generation_' \in Abstract!Generation /\ mode_' \in Modes
      BY DEF Abstract!create
    <2>2. slots_' \in [Abstract!Slot -> Abstract!SlotState] /\ next_' \in Abstract!Slot
      BY DEF Abstract!create, Abstract!destroy_locked
    <2>3. keyed' \in [Abstract!Generation -> [Abstract!Slot -> Abstract!KeyState]]
      BY DEF Abstract!create, Abstract!destroy_locked
    <2> QED BY <2>1, <2>2, <2>3 DEF Abstract!create, Abstract!destroy_locked
  <1>2. CASE Abstract!RebuildFails
    BY <1>2 DEF Abstract!RebuildFails, Abstract!create_fails, Abstract!destroy_locked
  <1>3. CASE Abstract!Lease
    <2> PICK s \in Abstract!Slot : Abstract!acquire_slot(s) /\ UNCHANGED <<at, homeGen, homeSlot>>
      BY <1>3 DEF Abstract!Lease
    <2>1. slots_' \in [Abstract!Slot -> Abstract!SlotState]
      BY DEF Abstract!acquire_slot
    <2>2. next_' \in Abstract!Slot
      BY DEF Abstract!acquire_slot
    <2>3. keyed' \in [Abstract!Generation -> [Abstract!Slot -> Abstract!KeyState]]
            /\ pixels' \in [Abstract!Generation -> [Abstract!Slot -> Abstract!FrameId]]
      BY DEF Abstract!acquire_slot
    <2> QED BY <2>1, <2>2, <2>3 DEF Abstract!acquire_slot
  <1>4. CASE Abstract!Announce
    <2> PICK s \in Abstract!Slot : /\ Abstract!release_to_helper(s)
                          /\ at' = [at EXCEPT ![frame_id_ + 1] = "ready"]
                          /\ homeGen' = [homeGen EXCEPT ![frame_id_ + 1] = generation_]
                          /\ homeSlot' = [homeSlot EXCEPT ![frame_id_ + 1] = s]
      BY <1>4 DEF Abstract!Announce
    <2>1. frame_id_' \in Abstract!FrameId /\ frame_id_ + 1 \in Abstract!FrameId
      BY DEF Abstract!release_to_helper
    <2>2. slots_' \in [Abstract!Slot -> Abstract!SlotState]
      BY <2>1 DEF Abstract!release_to_helper
    <2>3. keyed' \in [Abstract!Generation -> [Abstract!Slot -> Abstract!KeyState]]
            /\ pixels' \in [Abstract!Generation -> [Abstract!Slot -> Abstract!FrameId]]
      BY <2>1 DEF Abstract!release_to_helper
    <2>4. at' \in [Abstract!Frame -> Abstract!Place]
            /\ homeGen' \in [Abstract!Frame -> Abstract!Generation]
               /\ homeSlot' \in [Abstract!Frame -> Abstract!Slot]
      BY <2>1 DEF Abstract!release_to_helper
    <2> QED BY <2>1, <2>2, <2>3, <2>4 DEF Abstract!release_to_helper
  <1>5. CASE Abstract!Return
    <2> PICK s \in Abstract!Slot : Abstract!return_slot(s) /\ UNCHANGED <<at, homeGen, homeSlot>>
      BY <1>5 DEF Abstract!Return
    <2>1. slots_' \in [Abstract!Slot -> Abstract!SlotState]
      BY DEF Abstract!return_slot
    <2>2. keyed' \in [Abstract!Generation -> [Abstract!Slot -> Abstract!KeyState]]
      BY DEF Abstract!return_slot
    <2> QED BY <2>1, <2>2 DEF Abstract!return_slot
  <1>6. CASE Abstract!MarkStale
    BY <1>6 DEF Abstract!MarkStale, Abstract!mark_stale
  <1>7. ASSUME NEW f \in Abstract!Frame, Abstract!StartCopy(f) PROVE Abstract!LeaseTypeOK'
    BY <1>7 DEF Abstract!StartCopy, Abstract!stage_acquire
  <1>8. ASSUME NEW f \in Abstract!Frame, Abstract!EndCopy(f) PROVE Abstract!LeaseTypeOK'
    BY <1>8 DEF Abstract!EndCopy, Abstract!stage_release
  <1>9. ASSUME NEW f \in Abstract!Frame, Abstract!Answer(f) PROVE Abstract!LeaseTypeOK'
    BY <1>9 DEF Abstract!Answer, Abstract!ringVars
  <1>10. ASSUME NEW f \in Abstract!Frame, Abstract!Done(f) PROVE Abstract!LeaseTypeOK'
    <2>1. homeSlot[f] \in Abstract!Slot
      BY <1>10
    <2>2. slots_' \in [Abstract!Slot -> Abstract!SlotState]
      BY <1>10, <2>1 DEF Abstract!Done, Abstract!on_frame_done
    <2>3. at' \in [Abstract!Frame -> Abstract!Place]
      BY <1>10 DEF Abstract!Done
    <2> QED BY <1>10, <2>2, <2>3 DEF Abstract!Done, Abstract!on_frame_done
  <1>11. ASSUME NEW F \in SUBSET Abstract!Frame, Abstract!Lose(F) PROVE Abstract!LeaseTypeOK'
    BY <1>11 DEF Abstract!Lose
  <1>12. CASE UNCHANGED Abstract!leaseVars
    BY <1>12 DEF Abstract!leaseVars, Abstract!ringVars
  <1> QED
    BY <1>1, <1>2, <1>3, <1>4, <1>5, <1>6, <1>7, <1>8, <1>9, <1>10, <1>11,
          <1>12 DEF Abstract!LeaseNext

(* Every step keeps the whole inductive invariant.  The arguments that     *)
(* matter: a lease only takes a slot no held frame is in, two frames whose *)
(* pixels are both in one texture are the same frame, and a rebuild moves  *)
(* the generation past every home.                                         *)
LEMMA LeaseInvStep == Abstract!LeaseInv /\ [Abstract!LeaseNext]_Abstract!leaseVars
  => Abstract!LeaseInv'
  <1> SUFFICES ASSUME Abstract!LeaseInv, [Abstract!LeaseNext]_Abstract!leaseVars PROVE Abstract!LeaseInv'
    OBVIOUS
  <1>t. Abstract!LeaseTypeOK /\ Abstract!LeaseTypeOK'
    BY LeaseTypeStep DEF Abstract!LeaseInv
  <1>n. /\ MaxFrame \in Nat
        /\ generation_ \in Nat
        /\ frame_id_ \in Nat
        /\ \A f \in Abstract!Frame : f \in Nat /\ homeGen[f] \in Nat
           /\ homeSlot[f] \in Abstract!Slot
    <2>1. MaxFrame \in Nat /\ generation_ \in Nat /\ frame_id_ \in Nat
      BY <1>t, RingAssumption DEF Abstract!LeaseTypeOK, Abstract!RingTypeOK, Abstract!Generation,
            Abstract!FrameId
    <2>2. \A f \in Abstract!Frame : f \in Nat
      BY DEF Abstract!Frame
    <2>3. \A f \in Abstract!Frame : homeGen[f] \in Nat /\ homeSlot[f] \in Abstract!Slot
      BY <1>t DEF Abstract!LeaseTypeOK, Abstract!Generation
    <2> QED BY <2>1, <2>2, <2>3
  <1>b. Abstract!BornInOrder /\ Abstract!HomeExists
    BY DEF Abstract!LeaseInv
  <1>o. Abstract!NoRingNoLease /\ Abstract!OwnedNamesItsFrame
    BY DEF Abstract!LeaseInv
  <1>h. Abstract!HeldStaysOwned
    BY DEF Abstract!LeaseInv
  <1>p. Abstract!PixelsWait /\ Abstract!CopyHoldsMutex
    BY DEF Abstract!LeaseInv
  <1> USE DEF Abstract!LeaseTypeOK, Abstract!RingTypeOK
  <1>1. CASE Abstract!Rebuild
    <2> PICK m \in Modes : Abstract!create(m) /\ UNCHANGED <<at, homeGen, homeSlot>>
      BY <1>1 DEF Abstract!Rebuild
    <2>1. Abstract!BornInOrder' /\ Abstract!HomeExists'
      BY <1>n, <1>b DEF Abstract!create, Abstract!BornInOrder, Abstract!HomeExists
    <2>2. Abstract!NoRingNoLease' /\ Abstract!OwnedNamesItsFrame'
      BY <1>t DEF Abstract!create, Abstract!destroy_locked, Abstract!FreeSlot,
            Abstract!NoRingNoLease,
            Abstract!OwnedNamesItsFrame
    <2>3. Abstract!HeldStaysOwned'
      BY <1>n, <1>b DEF Abstract!create, Abstract!HomeExists, Abstract!HeldStaysOwned, Abstract!Held
    <2>4. Abstract!PixelsWait'
      BY <1>t, <1>p DEF Abstract!create, Abstract!PixelsWait
    <2>5. Abstract!CopyHoldsMutex'
      <3> SUFFICES ASSUME NEW f \in Abstract!Frame, at[f] = "copying"
                   PROVE  keyed'[homeGen[f]][homeSlot[f]] = "helper"
        BY DEF Abstract!create, Abstract!CopyHoldsMutex
      <3>1. keyed[homeGen[f]][homeSlot[f]] = "helper" /\ homeGen[f] \in Abstract!Generation
              /\ homeSlot[f] \in Abstract!Slot
        BY <1>t, <1>p DEF Abstract!CopyHoldsMutex
      <3>2. homeGen[f] = generation_ => ~slots_[homeSlot[f]].leased
        BY <1>n, <1>h, <1>o DEF Abstract!HeldStaysOwned, Abstract!Held, Abstract!NoRingNoLease,
              Abstract!FreeSlot
      <3> QED BY <1>t, <3>1, <3>2 DEF Abstract!create, Abstract!destroy_locked
    <2> QED BY <1>t, <2>1, <2>2, <2>3, <2>4, <2>5 DEF Abstract!LeaseInv
  <1>2. CASE Abstract!RebuildFails
    <2> USE <1>2 DEF Abstract!RebuildFails, Abstract!create_fails
    <2>1. Abstract!BornInOrder' /\ Abstract!HomeExists'
      BY <1>t, <1>b DEF Abstract!BornInOrder, Abstract!HomeExists
    <2>2. Abstract!NoRingNoLease' /\ Abstract!OwnedNamesItsFrame'
      BY <1>t DEF Abstract!destroy_locked, Abstract!FreeSlot, Abstract!NoRingNoLease,
            Abstract!OwnedNamesItsFrame
    <2>3. Abstract!HeldStaysOwned' /\ Abstract!PixelsWait'
      BY <1>t, <1>p DEF Abstract!HeldStaysOwned, Abstract!PixelsWait
    <2>4. Abstract!CopyHoldsMutex'
      <3> SUFFICES ASSUME NEW f \in Abstract!Frame, at[f] = "copying"
                   PROVE  keyed'[homeGen[f]][homeSlot[f]] = "helper"
        BY DEF Abstract!CopyHoldsMutex
      <3>1. keyed[homeGen[f]][homeSlot[f]] = "helper" /\ homeGen[f] \in Abstract!Generation
              /\ homeSlot[f] \in Abstract!Slot
        BY <1>t, <1>p DEF Abstract!CopyHoldsMutex
      <3>2. homeGen[f] = generation_ => ~slots_[homeSlot[f]].leased
        BY <1>n, <1>h, <1>o DEF Abstract!HeldStaysOwned, Abstract!Held, Abstract!NoRingNoLease,
              Abstract!FreeSlot
      <3> QED BY <1>t, <3>1, <3>2 DEF Abstract!destroy_locked
    <2> QED BY <1>t, <2>1, <2>2, <2>3, <2>4 DEF Abstract!LeaseInv
  <1>3. CASE Abstract!Lease
    <2> PICK s \in Abstract!Slot : Abstract!acquire_slot(s) /\ UNCHANGED <<at, homeGen, homeSlot>>
      BY <1>3 DEF Abstract!Lease
    <2>0. \A f \in Abstract!Frame : at[f] \in Abstract!Held => ~(homeGen[f] = generation_
            /\ homeSlot[f] = s)
      BY <1>n, <1>h DEF Abstract!acquire_slot, Abstract!Takeable, Abstract!HeldStaysOwned
    <2>1. Abstract!BornInOrder' /\ Abstract!HomeExists'
      BY <1>t, <1>b DEF Abstract!acquire_slot, Abstract!BornInOrder, Abstract!HomeExists
    <2>2. Abstract!NoRingNoLease' /\ Abstract!OwnedNamesItsFrame'
      BY <1>t, <1>o DEF Abstract!acquire_slot, Abstract!NoRingNoLease, Abstract!OwnedNamesItsFrame
    <2>3. Abstract!HeldStaysOwned'
      BY <1>t, <1>h, <2>0 DEF Abstract!acquire_slot, Abstract!HeldStaysOwned
    <2>4. Abstract!PixelsWait'
      BY <1>t, <1>p, <2>0 DEF Abstract!acquire_slot, Abstract!PixelsWait, Abstract!Held
    <2>5. Abstract!CopyHoldsMutex'
      BY <1>t, <1>p, <2>0 DEF Abstract!acquire_slot, Abstract!CopyHoldsMutex, Abstract!Held
    <2> QED BY <1>t, <2>1, <2>2, <2>3, <2>4, <2>5 DEF Abstract!LeaseInv
  <1>4. CASE Abstract!Announce
    <2> PICK s \in Abstract!Slot : /\ Abstract!release_to_helper(s)
                          /\ at' = [at EXCEPT ![frame_id_ + 1] = "ready"]
                          /\ homeGen' = [homeGen EXCEPT ![frame_id_ + 1] = generation_]
                          /\ homeSlot' = [homeSlot EXCEPT ![frame_id_ + 1] = s]
      BY <1>4 DEF Abstract!Announce
    <2> DEFINE f0 == frame_id_ + 1
    <2>0. /\ f0 \in Abstract!Frame
          /\ frame_id_' = f0
          /\ \A f \in Abstract!Frame : at[f] \in Abstract!Held => ~(homeGen[f] = generation_
             /\ homeSlot[f] = s)
      BY <1>n, <1>h DEF Abstract!release_to_helper, Abstract!HeldStaysOwned, Abstract!Frame
    <2>1a. Abstract!BornInOrder'
      <3> SUFFICES ASSUME NEW f \in Abstract!Frame PROVE at'[f] = "unborn" <=> f > frame_id_'
        BY DEF Abstract!BornInOrder
      <3>1. CASE f = f0
        BY <1>t, <1>n, <2>0, <3>1
      <3>2. CASE f # f0
        <4>1. at'[f] = at[f]
          BY <1>t, <3>2
        <4>2. f > frame_id_ <=> f > f0
          BY <1>n, <3>2
        <4> QED BY <1>b, <2>0, <4>1, <4>2 DEF Abstract!BornInOrder
      <3> QED BY <3>1, <3>2
    <2>1b. Abstract!HomeExists'
      BY <1>t, <1>n, <1>b, <2>0 DEF Abstract!release_to_helper, Abstract!HomeExists
    <2>2. Abstract!NoRingNoLease'
      BY <1>t, <1>o DEF Abstract!release_to_helper, Abstract!NoRingNoLease
    <2>3. Abstract!OwnedNamesItsFrame'
      <3> SUFFICES ASSUME NEW r \in Abstract!Slot, slots_'[r].helper_owned
                   PROVE  /\ slots_'[r].frame_id \in 1 .. frame_id_'
                          /\ homeGen'[slots_'[r].frame_id] = generation_'
                          /\ homeSlot'[slots_'[r].frame_id] = r
        BY DEF Abstract!OwnedNamesItsFrame
      <3>1. CASE r = s
        BY <1>t, <1>n, <2>0, <3>1 DEF Abstract!release_to_helper
      <3>2. CASE r # s
        <4>1. slots_'[r] = slots_[r]
          BY <1>t, <3>2 DEF Abstract!release_to_helper
        <4>2. slots_[r].frame_id \in 1 .. frame_id_ /\ slots_[r].frame_id \in Abstract!Frame
          <5>1. slots_[r].frame_id \in 1 .. frame_id_
            BY <1>o, <4>1 DEF Abstract!OwnedNamesItsFrame
          <5>2. frame_id_ \in 0 .. MaxFrame
            BY <1>t DEF Abstract!FrameId
          <5> QED BY <1>n, <5>1, <5>2 DEF Abstract!Frame
        <4> QED BY <1>t, <1>n, <1>o, <2>0, <4>1, <4>2 DEF Abstract!release_to_helper,
              Abstract!OwnedNamesItsFrame
      <3> QED BY <3>1, <3>2
    <2>4. Abstract!HeldStaysOwned'
      BY <1>t, <1>h, <2>0 DEF Abstract!release_to_helper, Abstract!HeldStaysOwned
    <2>5. Abstract!PixelsWait'
      BY <1>t, <1>p, <2>0 DEF Abstract!release_to_helper, Abstract!PixelsWait, Abstract!Held
    <2>6. Abstract!CopyHoldsMutex'
      BY <1>t, <1>p, <2>0 DEF Abstract!release_to_helper, Abstract!CopyHoldsMutex, Abstract!Held
    <2> QED BY <1>t, <2>1a, <2>1b, <2>2, <2>3, <2>4, <2>5, <2>6 DEF Abstract!LeaseInv
  <1>5. CASE Abstract!Return
    <2> PICK s \in Abstract!Slot : Abstract!return_slot(s) /\ UNCHANGED <<at, homeGen, homeSlot>>
      BY <1>5 DEF Abstract!Return
    <2>0. \A f \in Abstract!Frame : at[f] \in Abstract!Held => ~(homeGen[f] = generation_
            /\ homeSlot[f] = s)
      BY <1>t, <1>h DEF Abstract!return_slot, Abstract!HeldStaysOwned
    <2>1. Abstract!BornInOrder' /\ Abstract!HomeExists'
      BY <1>t, <1>b DEF Abstract!return_slot, Abstract!BornInOrder, Abstract!HomeExists
    <2>2. Abstract!NoRingNoLease' /\ Abstract!OwnedNamesItsFrame'
      BY <1>t, <1>o DEF Abstract!return_slot, Abstract!FreeSlot, Abstract!NoRingNoLease,
            Abstract!OwnedNamesItsFrame
    <2>3. Abstract!HeldStaysOwned' /\ Abstract!PixelsWait'
      BY <1>t, <1>h, <1>p, <2>0 DEF Abstract!return_slot, Abstract!HeldStaysOwned,
            Abstract!PixelsWait
    <2>4. Abstract!CopyHoldsMutex'
      BY <1>t, <1>p, <2>0 DEF Abstract!return_slot, Abstract!CopyHoldsMutex, Abstract!Held
    <2> QED BY <1>t, <2>1, <2>2, <2>3, <2>4 DEF Abstract!LeaseInv
  <1>6. CASE Abstract!MarkStale
    <2> USE <1>6 DEF Abstract!MarkStale, Abstract!mark_stale
    <2>1. Abstract!BornInOrder' /\ Abstract!HomeExists' /\ Abstract!NoRingNoLease'
            /\ Abstract!OwnedNamesItsFrame'
      BY <1>b, <1>o DEF Abstract!BornInOrder, Abstract!HomeExists, Abstract!NoRingNoLease,
            Abstract!OwnedNamesItsFrame
    <2>2. Abstract!HeldStaysOwned' /\ Abstract!PixelsWait' /\ Abstract!CopyHoldsMutex'
      BY <1>h, <1>p DEF Abstract!HeldStaysOwned, Abstract!PixelsWait, Abstract!CopyHoldsMutex
    <2> QED BY <1>t, <2>1, <2>2 DEF Abstract!LeaseInv
  <1>7. ASSUME NEW f0 \in Abstract!Frame, Abstract!StartCopy(f0) PROVE Abstract!LeaseInv'
    <2> USE <1>7 DEF Abstract!StartCopy, Abstract!stage_acquire
    <2>1. Abstract!BornInOrder' /\ Abstract!HomeExists'
      BY <1>t, <1>b DEF Abstract!BornInOrder, Abstract!HomeExists
    <2>2. Abstract!NoRingNoLease' /\ Abstract!OwnedNamesItsFrame'
      BY <1>t, <1>o DEF Abstract!NoRingNoLease, Abstract!OwnedNamesItsFrame
    <2>3. Abstract!HeldStaysOwned'
      BY <1>t, <1>h DEF Abstract!HeldStaysOwned, Abstract!Held
    <2>4. Abstract!PixelsWait' /\ Abstract!CopyHoldsMutex'
      BY <1>t, <1>p DEF Abstract!PixelsWait, Abstract!CopyHoldsMutex
    <2> QED BY <1>t, <2>1, <2>2, <2>3, <2>4 DEF Abstract!LeaseInv
  <1>8. ASSUME NEW f0 \in Abstract!Frame, Abstract!EndCopy(f0) PROVE Abstract!LeaseInv'
    <2> USE <1>8 DEF Abstract!EndCopy, Abstract!stage_release
    <2>1. Abstract!BornInOrder' /\ Abstract!HomeExists'
      BY <1>t, <1>b DEF Abstract!BornInOrder, Abstract!HomeExists
    <2>2. Abstract!NoRingNoLease' /\ Abstract!OwnedNamesItsFrame'
      BY <1>t, <1>o DEF Abstract!NoRingNoLease, Abstract!OwnedNamesItsFrame
    <2>3. Abstract!HeldStaysOwned'
      BY <1>t, <1>h DEF Abstract!HeldStaysOwned, Abstract!Held
    <2>4. \A f \in Abstract!Frame : at[f] = "copying" /\ homeGen[f] = homeGen[f0]
            /\ homeSlot[f] = homeSlot[f0] => f = f0
      BY <1>t, <1>p DEF Abstract!PixelsWait
    <2>5. Abstract!PixelsWait' /\ Abstract!CopyHoldsMutex'
      BY <1>t, <1>p, <2>4 DEF Abstract!PixelsWait, Abstract!CopyHoldsMutex
    <2> QED BY <1>t, <2>1, <2>2, <2>3, <2>5 DEF Abstract!LeaseInv
  <1>9. ASSUME NEW f0 \in Abstract!Frame, Abstract!Answer(f0) PROVE Abstract!LeaseInv'
    <2> USE <1>9 DEF Abstract!Answer, Abstract!ringVars
    <2>1. Abstract!BornInOrder' /\ Abstract!HomeExists'
      BY <1>t, <1>b DEF Abstract!BornInOrder, Abstract!HomeExists
    <2>2. Abstract!NoRingNoLease' /\ Abstract!OwnedNamesItsFrame'
      BY <1>t, <1>o DEF Abstract!NoRingNoLease, Abstract!OwnedNamesItsFrame
    <2>3. Abstract!HeldStaysOwned'
      BY <1>t, <1>h DEF Abstract!HeldStaysOwned, Abstract!Held
    <2>4. Abstract!PixelsWait' /\ Abstract!CopyHoldsMutex'
      BY <1>t, <1>p DEF Abstract!PixelsWait, Abstract!CopyHoldsMutex
    <2> QED BY <1>t, <2>1, <2>2, <2>3, <2>4 DEF Abstract!LeaseInv
  <1>10. ASSUME NEW f0 \in Abstract!Frame, Abstract!Done(f0) PROVE Abstract!LeaseInv'
    <2> USE <1>10 DEF Abstract!Done, Abstract!on_frame_done, Abstract!DoneMatches
    <2>0. homeSlot[f0] \in Abstract!Slot
      BY <1>t
    <2>1. Abstract!BornInOrder' /\ Abstract!HomeExists'
      BY <1>t, <1>b DEF Abstract!BornInOrder, Abstract!HomeExists
    <2>2. Abstract!NoRingNoLease'
      BY <1>t, <1>o, <2>0 DEF Abstract!NoRingNoLease, Abstract!FreeSlot
    <2>3. Abstract!OwnedNamesItsFrame'
      BY <1>t, <1>o, <2>0 DEF Abstract!OwnedNamesItsFrame
    <2>4. Abstract!HeldStaysOwned'
      BY <1>t, <1>h, <2>0 DEF Abstract!HeldStaysOwned, Abstract!Held
    <2>5. Abstract!PixelsWait' /\ Abstract!CopyHoldsMutex'
      BY <1>t, <1>p DEF Abstract!PixelsWait, Abstract!CopyHoldsMutex
    <2> QED BY <1>t, <2>1, <2>2, <2>3, <2>4, <2>5 DEF Abstract!LeaseInv
  <1>11. ASSUME NEW F \in SUBSET Abstract!Frame, Abstract!Lose(F) PROVE Abstract!LeaseInv'
    <2> USE <1>11 DEF Abstract!Lose
    <2>1. Abstract!BornInOrder' /\ Abstract!HomeExists'
      BY <1>t, <1>b DEF Abstract!BornInOrder, Abstract!HomeExists
    <2>2. Abstract!NoRingNoLease' /\ Abstract!OwnedNamesItsFrame'
      BY <1>t, <1>o DEF Abstract!NoRingNoLease, Abstract!OwnedNamesItsFrame
    <2>3. Abstract!HeldStaysOwned' /\ Abstract!PixelsWait'
      BY <1>t, <1>h, <1>p DEF Abstract!HeldStaysOwned, Abstract!Held, Abstract!PixelsWait
    <2>4. \A f, g \in Abstract!Frame : at[f] = "copying" /\ at[g] = "copying"
            /\ homeGen[f] = homeGen[g] /\ homeSlot[f] = homeSlot[g] => f = g
      BY <1>t, <1>p DEF Abstract!PixelsWait
    <2>5. Abstract!CopyHoldsMutex'
      BY <1>t, <1>p, <2>4 DEF Abstract!CopyHoldsMutex
    <2> QED BY <1>t, <2>1, <2>2, <2>3, <2>5 DEF Abstract!LeaseInv
  <1>12. CASE UNCHANGED Abstract!leaseVars
    <2> USE <1>12 DEF Abstract!leaseVars, Abstract!ringVars
    <2>1. Abstract!BornInOrder' /\ Abstract!HomeExists' /\ Abstract!NoRingNoLease'
            /\ Abstract!OwnedNamesItsFrame'
      BY <1>b, <1>o DEF Abstract!BornInOrder, Abstract!HomeExists, Abstract!NoRingNoLease,
            Abstract!OwnedNamesItsFrame
    <2>2. Abstract!HeldStaysOwned' /\ Abstract!PixelsWait' /\ Abstract!CopyHoldsMutex'
      BY <1>h, <1>p DEF Abstract!HeldStaysOwned, Abstract!PixelsWait, Abstract!CopyHoldsMutex
    <2> QED BY <1>t, <2>1, <2>2 DEF Abstract!LeaseInv
  <1> QED
    BY <1>1, <1>2, <1>3, <1>4, <1>5, <1>6, <1>7, <1>8, <1>9, <1>10, <1>11,
          <1>12 DEF Abstract!LeaseNext

-----------------------------------------------------------------------------
(* Theorems.                                                               *)

(* The transport starts where the lease does.                              *)
LEMMA WireInit == Init => Wire /\ Abstract!LeaseInit
  <1> SUFFICES ASSUME Init PROVE Wire /\ Abstract!LeaseInit
    OBVIOUS
  <1> USE DEF Init
  <1>1. TypeInv
    BY TypeInit
  <1>2. Numbers
    BY GoodEmpty DEF Numbers, SoundOne
  <1>3. /\ FrameOf(ready) = {} /\ FrameOf(hpending) = {} /\ FrameOf(eFrame) = {}
           /\ Carries(pending_) = {}
        /\ Carries(toHelper) = {} /\ Carries(done_) = {} /\ Carries(toShim) = {}
    BY CarriesEmpty, Carried
  <1>4. Apart
    BY <1>3 DEF Apart, Disjoint
  <1>5. Mutex
    BY DEF Mutex, RingInit
  <1>6. Abstract!LeaseInit
    <2>1. Asked = {} /\ Copying = {} /\ Copied = {} /\ Answered = {}
      BY <1>3 DEF Asked, Announcing, Chosen, Copying, Copied, Answered
    <2>2. frame_id_ = 0 /\ \A f \in Frame : f > 0
      BY RingAssumption DEF RingInit, Frame
    <2>3. at = [f \in Frame |-> "unborn"]
      <3>1. \A f \in Frame : at[f] = "unborn"
        BY <2>1, <2>2, AtIs DEF PlaceOf
      <3> QED BY <3>1, AtIs
    <2> QED BY <2>3, SameOperations, SameRing DEF Abstract!LeaseInit
  <1> QED BY <1>1, <1>2, <1>4, <1>5, <1>6 DEF Wire

(* The inductive invariant of the transport: Wire and the lease's own,     *)
(* while one vrserver lives.                                               *)
THEOREM TransportInv ==
  ASSUME MaxRestarts = 0
  PROVE  Spec => [](Wire /\ Abstract!LeaseInv)
  <1>1. Init => Wire /\ Abstract!LeaseInv
    BY WireInit, LeaseInitInv
  <1>2. Wire /\ Abstract!LeaseInv /\ [Next]_vars => (Wire /\ Abstract!LeaseInv)'
    <2> SUFFICES ASSUME Wire, Abstract!LeaseInv, [Next]_vars PROVE Wire' /\ Abstract!LeaseInv'
      OBVIOUS
    <2> QED BY WireStep, LeaseInvStep
  <1> QED BY <1>1, <1>2, PTL DEF Spec

(* Every behaviour of the threads of shim and helper (Present, IPC, pipe,  *)
(* encoder, with sessions lost and the helper crashing at any point) is a  *)
(* behaviour of the lease protocol on staging slots.                       *)
THEOREM TransportImplementsLease ==
  ASSUME MaxRestarts = 0
  PROVE  Spec => ImplementsLease
  <1>1. Init => Abstract!LeaseInit
    BY WireInit
  <1>2. Wire /\ Abstract!LeaseInv /\ [Next]_vars => [Abstract!LeaseNext]_Abstract!leaseVars
    BY WireStep
  <1> QED BY <1>1, <1>2, TransportInv, PTL DEF Spec, ImplementsLease, Abstract!LeaseSpec

(* The lease's inductive invariant holds of the threads.                   *)
THEOREM TransportKeepsLease ==
  ASSUME MaxRestarts = 0
  PROVE  Spec => []LeaseInv
  <1>1. Abstract!LeaseInv => LeaseInv
    BY DEF LeaseInv
  <1> QED BY <1>1, TransportInv, PTL

(* The encoder never copies a staging texture that Present is blitting     *)
(* into or has given to another frame (d3d11_stage.cpp acquire,            *)
(* frame_staging.cpp acquire_slot).                                        *)
THEOREM TransportNoTornRead ==
  ASSUME MaxRestarts = 0
  PROVE  Spec => []NoTornRead
  <1>1. Abstract!LeaseInv => NoTornRead
    BY DEF Abstract!LeaseInv, Abstract!PixelsWait, NoTornRead, Abstract!NoTornRead
  <1> QED BY <1>1, TransportInv, PTL

(* A slot whose frame is anywhere between Present and the end of the       *)
(* helper's copy is not leased again (frame_staging.cpp:288-324).          *)
THEOREM TransportHeldStaysOwned ==
  ASSUME MaxRestarts = 0
  PROVE  Spec => []HeldStaysOwned
  <1>1. Abstract!LeaseInv => HeldStaysOwned
    BY DEF Abstract!LeaseInv, HeldStaysOwned
  <1> QED BY <1>1, TransportInv, PTL

(* A FrameDone that matches a slot by id is for the slot's own ring        *)
(* (frame_staging.cpp:371-373), while one vrserver lives.                  *)
THEOREM TransportIdMatch ==
  ASSUME MaxRestarts = 0
  PROVE  Spec => []IdMatchIsGenerationMatch
  <1>1. Abstract!LeaseInv => IdMatchIsGenerationMatch
    <2> SUFFICES ASSUME Abstract!LeaseInv, NEW f \in Abstract!Frame, at[f] = "done", Abstract!DoneMatches(f, homeSlot[f])
                 PROVE  homeGen[f] = generation_
      BY DEF IdMatchIsGenerationMatch, Abstract!IdMatchIsGenerationMatch
    <2>1. homeSlot[f] \in Abstract!Slot
      BY DEF Abstract!LeaseInv, Abstract!LeaseTypeOK
    <2> QED BY <2>1 DEF Abstract!LeaseInv, Abstract!OwnedNamesItsFrame, Abstract!DoneMatches
  <1> QED BY <1>1, TransportInv, PTL

(* What the encoder copies for a frame is what Present blitted for it.     *)
THEOREM TransportEncodesItsFrame ==
  ASSUME MaxRestarts = 0
  PROVE  Spec => []EncodesItsFrame
  <1>1. Wire /\ Abstract!LeaseInv => EncodesItsFrame
    <2> SUFFICES ASSUME Wire, Abstract!LeaseInv, pcE = "copying"
                 PROVE  pixels[stage.ring][eFrame.staging_index] = eFrame.frame
      BY DEF EncodesItsFrame
    <2>1. /\ FrameOf(eFrame) = {eFrame.frame} /\ eFrame.frame \in Frame
          /\ stage.ring = homeGen[eFrame.frame] /\ eFrame.staging_index = homeSlot[eFrame.frame]
      BY EncoderFrame DEF Wire, Mutex
    <2>2. at[eFrame.frame] = "copying"
      BY <2>1, At DEF Copying, Wire
    <2> QED BY <2>1, <2>2, SameRing DEF Abstract!LeaseInv, Abstract!PixelsWait
  <1> QED BY <1>1, TransportInv, PTL

(* Type correctness of the transport, over restarts of vrserver too.       *)
THEOREM TransportTypeOK == Spec => []TypeOK
  <1>1. TypeInv /\ [Next]_vars => TypeInv'
    BY TypeStep
  <1> QED BY <1>1, TypeInit, TypeInvType, PTL DEF Spec

-----------------------------------------------------------------------------
(* The ring's handles.                                                     *)

(* A session that is up is connected, and a pipe whose helper end is being *)
(* torn down is not open.                                                  *)
Sessions ==
    /\ pcI \in {"ready", "up"} => connected_
    /\ pcI \in {"closed", "hello", "drop", "unresend", "markStale"} => ~connected_
    /\ pcH = "gone" => link # "open"

(* The last config of a queue that takes a message in.                     *)
LEMMA ConfigAppend ==
  ASSUME NEW S, NEW q \in Seq(S), NEW m \in S, NEW g
  PROVE  /\ m.type = "config" => HasConfig(Append(q, m))
            /\ (LastConfigIs(Append(q, m), g) <=> m.ring = g)
         /\ m.type # "config" => /\ HasConfig(Append(q, m)) <=> HasConfig(q)
                                 /\ LastConfigIs(Append(q, m), g) <=> LastConfigIs(q, g)
  <1> DEFINE a == Append(q, m)
             n == Len(q) + 1
  <1>1. /\ Len(q) \in Nat /\ DOMAIN a = 1 .. n /\ DOMAIN q = 1 .. Len(q)
        /\ \A i \in 1 .. Len(q) : a[i] = q[i]
        /\ a[n] = m /\ n \in Nat
    OBVIOUS
  <1> HIDE DEF a
  <1>2. /\ DOMAIN q \subseteq DOMAIN a /\ n \in DOMAIN a /\ n \notin DOMAIN q
        /\ \A i \in DOMAIN a : i = n \/ (i \in DOMAIN q /\ a[i] = q[i] /\ n > i /\ ~(i > n))
    BY <1>1
  <1>3. ~(n > n)
    BY <1>1
  <1> HIDE DEF n
  <1>4. CASE m.type = "config"
    <2>1. HasConfig(a)
      BY <1>1, <1>2, <1>4 DEF HasConfig
    <2>2. LastConfigIs(a, g) => m.ring = g
      BY <1>1, <1>2, <1>4 DEF LastConfigIs
    <2>3. m.ring = g => LastConfigIs(a, g)
      BY <1>1, <1>2, <1>3, <1>4 DEF LastConfigIs
    <2> QED BY <1>4, <2>1, <2>2, <2>3 DEF a
  <1>5. CASE m.type # "config"
    <2>1. HasConfig(a) <=> HasConfig(q)
      BY <1>1, <1>2, <1>5 DEF HasConfig
    <2>2. LastConfigIs(a, g) => LastConfigIs(q, g)
      BY <1>1, <1>2, <1>5 DEF LastConfigIs
    <2>3. LastConfigIs(q, g) => LastConfigIs(a, g)
      BY <1>1, <1>2, <1>5 DEF LastConfigIs
    <2> QED BY <1>5, <2>1, <2>2, <2>3 DEF a
  <1> QED BY <1>4, <1>5

(* The last config of a queue whose head comes off.                        *)
LEMMA ConfigTail ==
  ASSUME NEW S, NEW q \in Seq(S), q # <<>>, NEW g
  PROVE  /\ HasConfig(q) <=> Head(q).type = "config" \/ HasConfig(Tail(q))
         /\ HasConfig(Tail(q)) => (LastConfigIs(q, g) <=> LastConfigIs(Tail(q), g))
         /\ ~HasConfig(Tail(q)) /\ Head(q).type = "config"
            => (LastConfigIs(q, g) <=> Head(q).ring = g)
  <1> DEFINE t == Tail(q)
  <1>1. /\ Len(q) \in Nat \ {0}
        /\ DOMAIN q = 1 .. Len(q) /\ DOMAIN t = 1 .. Len(q) - 1
        /\ Head(q) = q[1]
        /\ \A i \in 1 .. Len(q) - 1 : t[i] = q[i + 1]
    BY TailFacts
  <1> HIDE DEF t
  <1>2. 1 \in DOMAIN q /\ \A i \in DOMAIN t : i \in Nat \ {0} /\ i + 1 \in DOMAIN q
          /\ t[i] = q[i + 1] /\ i + 1 > 1
    BY <1>1
  <1>3. \A i \in DOMAIN q : i = 1 \/ (i - 1 \in DOMAIN t /\ t[i - 1] = q[i] /\ i > 1)
    BY <1>1
  <1>4. HasConfig(q) <=> Head(q).type = "config" \/ HasConfig(t)
    BY <1>1, <1>2, <1>3 DEF HasConfig
  <1>5. ASSUME HasConfig(t), LastConfigIs(q, g) PROVE LastConfigIs(t, g)
    <2> PICK i \in DOMAIN q : /\ q[i].type = "config" /\ q[i].ring = g
                              /\ \A j \in DOMAIN q : j > i => q[j].type # "config"
      BY <1>5 DEF LastConfigIs
    <2>1. i # 1
      BY <1>2, <1>5 DEF HasConfig
    <2>2. i - 1 \in DOMAIN t /\ t[i - 1] = q[i]
      BY <1>3, <2>1
    <2>3. ASSUME NEW j \in DOMAIN t, j > i - 1 PROVE t[j].type # "config"
      <3>1. j + 1 > i
        BY <1>1, <1>2, <2>3
      <3> QED BY <1>2, <3>1
    <2> QED BY <2>2, <2>3 DEF LastConfigIs
  <1>6. ASSUME LastConfigIs(t, g) PROVE LastConfigIs(q, g)
    <2> PICK i \in DOMAIN t : /\ t[i].type = "config" /\ t[i].ring = g
                              /\ \A j \in DOMAIN t : j > i => t[j].type # "config"
      BY <1>6 DEF LastConfigIs
    <2>1. i + 1 \in DOMAIN q /\ q[i + 1] = t[i]
      BY <1>2
    <2>2. ASSUME NEW j \in DOMAIN q, j > i + 1 PROVE q[j].type # "config"
      <3>1. j # 1 /\ j - 1 > i
        BY <1>1, <1>2, <2>2
      <3> QED BY <1>3, <3>1
    <2> QED BY <2>1, <2>2 DEF LastConfigIs
  <1>7. ~HasConfig(t) /\ Head(q).type = "config" => (LastConfigIs(q, g) <=> Head(q).ring = g)
    <2> SUFFICES ASSUME ~HasConfig(t), Head(q).type = "config" PROVE LastConfigIs(q, g) <=> Head(q).ring = g
      OBVIOUS
    <2>1. \A i \in DOMAIN q : i # 1 => q[i].type # "config"
      BY <1>3 DEF HasConfig
    <2>2. ~(1 > 1)
      OBVIOUS
    <2>3. q[1].type = "config" /\ Head(q) = q[1]
      BY <1>1
    <2>4. LastConfigIs(q, g) => q[1].ring = g
      BY <2>1 DEF LastConfigIs
    <2>5. q[1].ring = g => LastConfigIs(q, g)
      BY <1>2, <2>1, <2>2, <2>3 DEF LastConfigIs
    <2> QED BY <2>3, <2>4, <2>5
  <1> QED BY <1>4, <1>5, <1>6, <1>7 DEF t


(* Every step keeps that.                                                  *)
LEMMA SessionsStep ==
  ASSUME TypeInv, Sessions, [Next]_vars
  PROVE  Sessions'
  <1> USE DEF Sessions
  <1>1. UNCHANGED <<connected_, pcI, pcH, link>> => Sessions'
    OBVIOUS
  <1>2. CASE \E m \in Modes : Present(m)
    BY <1>1, <1>2 DEF Present, ipcVars, pipeVars, helperVars
  <1>3. CASE PresentThread
    BY <1>1, <1>3 DEF PresentThread, Match, CreateRing, ClearResend, ExchangeResend,
          SendStagingConfig,
          PushStagingConfig,
      LeaseSlot, ReleaseToHelper, QueueFrameReady, PushFrameReady, PresentMarksStale, ipcVars,
            pipeVars, helperVars
  <1>4. CASE QueueHaptic
    BY <1>1, <1>4 DEF QueueHaptic, pipeVars, helperVars
  <1>5. CASE OpenPipe
    BY <1>5 DEF OpenPipe, helperVars
  <1>6. CASE IpcThread
    BY <1>6 DEF IpcThread, FlushOutgoing, ReceiveConfig, on_ipc_connected, ReceiveFrameDone,
          ClearConnected, DropPending,
      DisconnectedResend, DisconnectedStale, pipeVars, helperVars, ipcVars
  <1>7. CASE EndSession
    BY <1>7 DEF EndSession, helperVars
  <1>8. CASE PipeThread
    BY <1>8 DEF PipeThread, Handshake, FlushFrameDone, ReadTimeout, on_staging_config,
          on_frame_ready,
          HandleHaptic, on_shim_gone,
      shimVars, ipcVars, pipeVars
  <1>9. CASE DisconnectClient
    BY <1>9 DEF DisconnectClient, shimVars, ipcVars
  <1>10. CASE EncoderThread
    BY <1>1, <1>10 DEF EncoderThread, Wake, Shutdown, ReadStaging, EnsureEncoder, AcquireStage,
          ReleaseStage, Finish, shimVars, ipcVars, pipeVars
  <1>11. CASE ClientToggle
    BY <1>1, <1>11 DEF ClientToggle, shimVars, ipcVars, pipeVars
  <1>12. CASE HelperCrash
    BY <1>12 DEF HelperCrash, shimVars, ipcVars
  <1>13. CASE VrserverRestart
    BY <1>13 DEF VrserverRestart, helperVars, TypeInv, PipeOK
  <1>14. CASE UNCHANGED vars
    BY <1>1, <1>14 DEF vars, shimVars, helperVars, ipcVars, pipeVars
  <1> QED BY <1>2, <1>3, <1>4, <1>5, <1>6, <1>7, <1>8, <1>9, <1>10, <1>11, <1>12, <1>13,
        <1>14 DEF Next

(* Nothing a thread does to the queues changes which config comes last,    *)
(* but a new one, or the end of the session.                               *)
LEMMA LatestKept ==
  ASSUME TypeInv, LatestConfigIs(generation_), generation_' = generation_,
         \/ UNCHANGED <<pending_, toHelper, staging_>>
         \/ PushFrameReady \/ QueueHaptic \/ FlushOutgoing \/ Handshake \/ on_staging_config
            \/ on_frame_ready \/ HandleHaptic
  PROVE  LatestConfigIs(generation_)'
  <1> DEFINE PS == ConfigMsg \cup FrameMsg \cup {Haptic}
             TS == ConfigMsg \cup FrameMsg \cup {Haptic, ShimHello}
             g == generation_
  <1>t. pending_ \in Seq(PS) /\ toHelper \in Seq(TS) /\ Haptic \in PS /\ PS \subseteq TS
    BY DEF TypeInv, IpcOK, PipeOK
  <1>k. Haptic.type # "config" /\ ShimHello.type # "config" /\ \A m \in FrameMsg : m.type # "config"
    BY MessageKinds
  <1>c. /\ HasConfig(pending_) => LastConfigIs(pending_, g)
        /\ ~HasConfig(pending_) /\ HasConfig(toHelper) => LastConfigIs(toHelper, g)
        /\ ~HasConfig(pending_) /\ ~HasConfig(toHelper) => staging_ # None /\ staging_.ring = g
    BY DEF LatestConfigIs
  <1>g. SUFFICES /\ HasConfig(pending_') => LastConfigIs(pending_', g)
                 /\ ~HasConfig(pending_') /\ HasConfig(toHelper') => LastConfigIs(toHelper', g)
                 /\ ~HasConfig(pending_') /\ ~HasConfig(toHelper') => staging_' # None
                    /\ staging_'.ring = g
    BY DEF LatestConfigIs
  <1> HIDE DEF PS, TS, g
  <1>1. CASE UNCHANGED <<pending_, toHelper, staging_>>
    BY <1>1, <1>c
  <1>2. CASE PushFrameReady
    <2>1. UNCHANGED <<toHelper, staging_>> /\ (pending_' = Append(pending_, ready)
            \/ UNCHANGED pending_)
      BY <1>2 DEF PushFrameReady, pipeVars, helperVars, intakeVars
    <2>2. ready \in PS /\ ready.type # "config"
      BY <1>2, <1>k DEF PushFrameReady, TypeInv, PresentOK, PS
    <2>3. /\ HasConfig(Append(pending_, ready)) <=> HasConfig(pending_)
          /\ LastConfigIs(Append(pending_, ready), g) <=> LastConfigIs(pending_, g)
      BY <1>t, <2>2, ConfigAppend
    <2> QED BY <1>c, <2>1, <2>3
  <1>3. CASE QueueHaptic
    <2>1. UNCHANGED <<toHelper, staging_>> /\ pending_' = Append(pending_, Haptic)
      BY <1>3 DEF QueueHaptic, pipeVars, helperVars, intakeVars
    <2> QED BY <1>c, <1>t, <1>k, <2>1, ConfigAppend
  <1>4. CASE FlushOutgoing
    <2> DEFINE m == Head(pending_)
    <2>1. UNCHANGED staging_ /\ pending_ # <<>> /\ pending_' = Tail(pending_)
            /\ toHelper' = Append(toHelper, m)
      BY <1>4 DEF FlushOutgoing, helperVars, intakeVars
    <2>2. m \in PS /\ m \in TS
      BY <1>t, <2>1, TailFacts
    <2>3. /\ HasConfig(pending_) <=> m.type = "config" \/ HasConfig(pending_')
          /\ HasConfig(pending_') => (LastConfigIs(pending_, g) <=> LastConfigIs(pending_', g))
          /\ ~HasConfig(pending_') /\ m.type = "config"
             => (LastConfigIs(pending_, g) <=> m.ring = g)
      BY <1>t, <2>1, ConfigTail
    <2> HIDE DEF m
    <2>4. /\ m.type = "config" => HasConfig(toHelper')
             /\ (LastConfigIs(toHelper', g) <=> m.ring = g)
          /\ m.type # "config" => /\ HasConfig(toHelper') <=> HasConfig(toHelper)
                                  /\ LastConfigIs(toHelper', g) <=> LastConfigIs(toHelper, g)
      BY <1>t, <2>1, <2>2, ConfigAppend
    <2> QED BY <1>c, <2>1, <2>3, <2>4
  <1>5. CASE Handshake \/ on_staging_config \/ on_frame_ready \/ HandleHaptic
    <2> DEFINE m == Head(toHelper)
    <2>1. /\ UNCHANGED pending_ /\ toHelper # <<>> /\ toHelper' = Tail(toHelper)
          /\ m.type = "config" => staging_' = m
          /\ m.type # "config" => staging_' = staging_
      BY <1>5, <1>k DEF Handshake, on_staging_config, on_frame_ready, HandleHaptic, intakeVars,
            shimVars, ipcVars
    <2>2. m \in TS
      BY <1>t, <2>1, TailFacts
    <2>3. m.type = "config" => m # None
      BY <2>2, MessageKinds DEF TS
    <2>4. /\ HasConfig(toHelper) <=> m.type = "config" \/ HasConfig(toHelper')
          /\ HasConfig(toHelper') => (LastConfigIs(toHelper, g) <=> LastConfigIs(toHelper', g))
          /\ ~HasConfig(toHelper') /\ m.type = "config"
             => (LastConfigIs(toHelper, g) <=> m.ring = g)
      BY <1>t, <2>1, ConfigTail
    <2> HIDE DEF m
    <2> QED BY <1>c, <2>1, <2>3, <2>4
  <1> QED BY <1>1, <1>2, <1>3, <1>4, <1>5

(* Every step keeps the handles of the current ring within the helper's    *)
(* reach.                                                                  *)
LEMMA ConfigStep ==
  ASSUME TypeInv, Sessions, ConfigNotLost, [Next]_vars
  PROVE  ConfigNotLost'
  <1> SUFFICES ASSUME built', ~stale_', link' = "open", pcI' = "up", pcP' \notin {"clear", "config", "configPush"}, ~resend_config_'
               PROVE  LatestConfigIs(generation_)'
    BY DEF ConfigNotLost
  <1>k. ASSUME built, ~stale_, link = "open", pcI = "up", pcP \notin {"clear", "config", "configPush"}, ~resend_config_,
               generation_' = generation_,
               \/ UNCHANGED <<pending_, toHelper, staging_>>
               \/ PushFrameReady \/ QueueHaptic \/ FlushOutgoing \/ Handshake \/ on_staging_config
                  \/ on_frame_ready \/ HandleHaptic
        PROVE  LatestConfigIs(generation_)'
    BY <1>k, LatestKept DEF ConfigNotLost
  <1>u. ASSUME UNCHANGED <<built, stale_, link, pcI, resend_config_, generation_>>,
               pcP \notin {"clear", "config", "configPush"},
               \/ UNCHANGED <<pending_, toHelper, staging_>>
               \/ PushFrameReady \/ QueueHaptic \/ FlushOutgoing \/ Handshake \/ on_staging_config
                  \/ on_frame_ready \/ HandleHaptic
        PROVE  LatestConfigIs(generation_)'
    <2>1. /\ built' = built /\ stale_' = stale_ /\ link' = link /\ pcI' = pcI
             /\ resend_config_' = resend_config_
          /\ generation_' = generation_
      BY <1>u
    <2>2. built /\ ~stale_ /\ ~resend_config_
      BY <2>1, Zenon
    <2> QED BY <1>u, <1>k, <2>1, <2>2
  <1>2. CASE \E m \in Modes : Present(m)
    BY <1>2, <1>k DEF Present, ringVars, ipcVars, pipeVars, helperVars, intakeVars
  <1>3. CASE Match \/ QueueFrameReady
    BY <1>3, <1>u DEF Match, QueueFrameReady, ringVars, ipcVars, pipeVars, helperVars, intakeVars
  <1>3e. CASE ExchangeResend
    <2>1. ~resend_config_ /\ pcP = "resend"
      BY <1>3e DEF ExchangeResend
    <2>2. built' = built /\ stale_' = stale_ /\ link' = link /\ pcI' = pcI
            /\ generation_' = generation_
          /\ UNCHANGED <<pending_, toHelper, staging_>>
      BY <1>3e DEF ExchangeResend, ringVars, ipcVars, pipeVars, helperVars, intakeVars
    <2>3. built /\ ~stale_
      BY <2>2, Zenon
    <2> QED BY <1>k, <2>1, <2>2, <2>3
  <1>4. CASE CreateRing \/ ClearResend
    BY <1>4 DEF CreateRing, create, create_fails, ClearResend
  <1>5. CASE SendStagingConfig
    BY <1>5 DEF SendStagingConfig, ipcVars, Sessions
  <1>6. CASE PushStagingConfig
    <2> DEFINE PS == ConfigMsg \cup FrameMsg \cup {Haptic}
               c == StagingConfig(generation_)
    <2>1. pending_' = PushNotEvictable(pending_, c) /\ generation_' = generation_
      BY <1>6 DEF PushStagingConfig, ringVars
    <2>2. pending_ \in Seq(PS) /\ c \in PS /\ c.type = "config" /\ c.ring = generation_
      BY MessageMade, MessageKinds DEF TypeInv, IpcOK, StagingConfig
    <2>3. PICK q \in Seq(PS) : pending_' = Append(q, c)
      <3>1. CASE Len(pending_) >= kMaxPendingMessages
        <4>1. pending_ # <<>>
          BY <3>1, TransportAssumption
        <4>2. Tail(pending_) \in Seq(PS)
          BY <2>2, <4>1, TailFacts
        <4> QED BY <2>1, <3>1, <4>2 DEF PushNotEvictable
      <3>2. CASE ~(Len(pending_) >= kMaxPendingMessages)
        BY <2>1, <2>2, <3>2 DEF PushNotEvictable
      <3> QED BY <3>1, <3>2
    <2> HIDE DEF PS, c
    <2>4. HasConfig(pending_') /\ LastConfigIs(pending_', generation_)
      BY <2>2, <2>3, ConfigAppend
    <2> QED BY <2>1, <2>4 DEF LatestConfigIs
  <1>7. CASE LeaseSlot
    BY <1>7, <1>u DEF LeaseSlot, acquire_slot, ringVars, ipcVars, pipeVars, helperVars, intakeVars
  <1>8. CASE ReleaseToHelper
    BY <1>8, <1>k DEF ReleaseToHelper, release_to_helper, ipcVars, pipeVars, helperVars, intakeVars
  <1>9. CASE PushFrameReady
    BY <1>9, <1>k DEF PushFrameReady, ringVars, pipeVars
  <1>10. CASE PresentMarksStale
    BY <1>10, <1>k DEF PresentMarksStale, mark_stale, ipcVars, pipeVars, helperVars, intakeVars
  <1>11. CASE QueueHaptic
    BY <1>11, <1>k DEF QueueHaptic, ringVars, presentVars, pipeVars
  <1>12. CASE OpenPipe \/ EndSession \/ DisconnectClient \/ ReceiveConfig \/ ClearConnected
                \/ DropPending
              \/ DisconnectedResend \/ DisconnectedStale \/ VrserverRestart \/ on_ipc_connected
    BY <1>12 DEF OpenPipe, EndSession, DisconnectClient, ReceiveConfig, ClearConnected, DropPending,
      DisconnectedResend, DisconnectedStale, VrserverRestart, on_ipc_connected
  <1>13. CASE HelperCrash
    BY <1>13 DEF HelperCrash
  <1>14. CASE FlushOutgoing
    BY <1>14, <1>k DEF FlushOutgoing, ringVars, presentVars
  <1>15. CASE ReceiveFrameDone
    BY <1>15, <1>k DEF ReceiveFrameDone, on_frame_done, presentVars, ipcVars, helperVars, intakeVars
  <1>16. CASE Handshake \/ on_staging_config \/ on_frame_ready \/ HandleHaptic
    BY <1>16, <1>u DEF Handshake, on_staging_config, on_frame_ready, HandleHaptic, ringVars,
          shimVars,
          presentVars, ipcVars
  <1>17. CASE FlushFrameDone \/ ReadTimeout
    BY <1>17, <1>u DEF FlushFrameDone, ReadTimeout, ringVars, shimVars, presentVars, ipcVars,
          pipeVars,
          intakeVars
  <1>18. CASE on_shim_gone
    BY <1>18 DEF on_shim_gone, Sessions, pipeVars
  <1>19. CASE Wake \/ Shutdown \/ ReadStaging \/ EnsureEncoder \/ Finish \/ ClientToggle
    BY <1>19, <1>u DEF Wake, Shutdown, ReadStaging, EnsureEncoder, Finish, ClientToggle,
      ringVars, shimVars, presentVars, ipcVars, pipeVars, intakeVars
  <1>20. CASE AcquireStage \/ ReleaseStage
    BY <1>20, <1>u DEF AcquireStage, ReleaseStage, stage_acquire, stage_release,
      ringVars, shimVars, presentVars, ipcVars, pipeVars, intakeVars
  <1>21. CASE UNCHANGED vars
    BY <1>21, <1>k DEF vars, ringVars, shimVars, presentVars, ipcVars, pipeVars, helperVars,
          intakeVars
  <1> QED BY <1>2, <1>3, <1>3e, <1>4, <1>5, <1>6, <1>7, <1>8, <1>9, <1>10, <1>11, <1>12, <1>13,
        <1>14,
        <1>15, <1>16, <1>17, <1>18,
             <1>19, <1>20, <1>21
          DEF Next, PresentThread, IpcThread, PipeThread, EncoderThread

(* The helper is never left without the handles of the current ring        *)
(* (ipc_client.cpp:120), over lost sessions, full queues and restarts of   *)
(* either process.                                                         *)
THEOREM TransportConfigNotLost == Spec => []ConfigNotLost
  <1>1. Init => TypeInv /\ Sessions /\ ConfigNotLost
    BY TypeInit DEF Init, RingInit, Sessions, ConfigNotLost
  <1>2. TypeInv /\ Sessions /\ ConfigNotLost /\ [Next]_vars => (TypeInv /\ Sessions
          /\ ConfigNotLost)'
    BY TypeStep, SessionsStep, ConfigStep
  <1> QED BY <1>1, <1>2, PTL DEF Spec



-----------------------------------------------------------------------------
(* The slots the helper owns.                                              *)

(* NoLostSlot with the Boolean variables written out.                      *)
Using == built = TRUE /\ stale_ = FALSE /\ link = "open" /\ pcI \in {"hello", "ready", "up"}
LostNow == IF Using THEN OwnedFrames \ Accounted ELSE {}

(* A ring that is kept between two sessions was built there: no session    *)
(* ended over its frames, and none was pushed out.                         *)
KeptClosed ==
    built = TRUE /\ stale_ = FALSE /\ pcI = "closed" =>
      pcP # "configPush" /\ OwnedFrames \subseteq FrameOf(ready) \cup Carries(pending_)

(* What every step does.                                                   *)
SlotsKept == KeptClosed' /\ LostNow' \subseteq LostNow \cup PushedOut

(* A session starts with no answer in the pipe.                            *)
Greeting == pcH = "listen" /\ link = "open" => Carries(toShim) = {}

(* Every step keeps that the pipe has no answer before the handshake.      *)
LEMMA GreetingStep ==
  ASSUME TypeInv, Sessions, Greeting, [Next]_vars
  PROVE  Greeting'
  <1> USE DEF Greeting
  <1>1. UNCHANGED <<pcH, link, toShim>> => Greeting'
    OBVIOUS
  <1>2. CASE \/ \E m \in Modes : Present(m)
             \/ PresentThread
             \/ QueueHaptic
             \/ EncoderThread
             \/ ClientToggle
             \/ UNCHANGED vars
    BY <1>1, <1>2 DEF Present, PresentThread, Match, CreateRing, ClearResend, ExchangeResend,
          SendStagingConfig, PushStagingConfig, LeaseSlot, ReleaseToHelper, QueueFrameReady,
          PushFrameReady, PresentMarksStale, QueueHaptic, EncoderThread, Wake, Shutdown,
          ReadStaging, EnsureEncoder, AcquireStage, ReleaseStage, Finish, ClientToggle, vars,
          helperVars, pipeVars
  <1>3. CASE OpenPipe
    BY <1>3, CarriesEmpty DEF OpenPipe
  <1>4. CASE FlushOutgoing \/ on_ipc_connected \/ ClearConnected \/ DropPending
              \/ DisconnectedResend \/ DisconnectedStale
    BY <1>1, <1>4 DEF FlushOutgoing, on_ipc_connected, ClearConnected, DropPending,
          DisconnectedResend, DisconnectedStale, helperVars, pipeVars
  <1>5. CASE ReceiveConfig \/ ReceiveFrameDone
    <2>1. toShim # <<>> /\ toShim' = Tail(toShim) /\ pcH' = pcH /\ link' = link
      BY <1>5 DEF ReceiveConfig, ReceiveFrameDone, helperVars
    <2>2. Carries(toShim') \subseteq Carries(toShim)
      BY <2>1, CarriesTail DEF TypeInv, PipeOK
    <2> QED BY <2>1, <2>2
  <1>6. CASE EndSession
    BY <1>6 DEF EndSession, helperVars
  <1>7. CASE PipeThread
    BY <1>7 DEF PipeThread, Handshake, FlushFrameDone, ReadTimeout, on_staging_config,
          on_frame_ready, HandleHaptic, on_shim_gone, Sessions, pipeVars
  <1>8. CASE DisconnectClient
    BY <1>8 DEF DisconnectClient
  <1>9. CASE HelperCrash
    BY <1>9 DEF HelperCrash
  <1>10. CASE VrserverRestart
    BY <1>10, CarriesEmpty DEF VrserverRestart
  <1> QED BY <1>2, <1>3, <1>4, <1>5, <1>6, <1>7, <1>8, <1>9, <1>10 DEF Next, IpcThread

(* A queue of one message carries what it carries.                         *)
LEMMA CarriesOne ==
  ASSUME NEW S, NEW m \in S
  PROVE  Carries(<<m>>) = CarriedBy(m)
  <1> DEFINE e == <<>>
  <1>1. e \in Seq(S) /\ Append(e, m) = <<m>>
    OBVIOUS
  <1>2. Carries(e) = {}
    BY CarriesEmpty
  <1> HIDE DEF e
  <1>3. Carries(Append(e, m)) = Carries(e) \cup CarriedBy(m)
    BY <1>1, CarriesAppend
  <1> QED BY <1>1, <1>2, <1>3

(* A push adds the frame to the answers, and at most pushes one out.       *)
LEMMA PushedKeeps ==
  ASSUME Wire, NEW m \in FrameMsg, SoundOne(m, frame_id_, homeGen, homeSlot), done_' = push_done(done_, m)
  PROVE  Carries(done_) \cup {m.frame} \subseteq Carries(done_') \cup PushedOut
  <1> DEFINE q == done_
             d == FrameDone(m)
             t == IF Len(q) >= kMaxDone THEN Tail(q) ELSE q
  <1>1. /\ q \in Seq(DoneMsg) /\ Len(q) <= kMaxDone /\ kMaxDone \in Nat \ {0} /\ Len(q) \in Nat
        /\ d \in DoneMsg
    BY TransportAssumption, MessageKinds DEF Wire, TypeInv, IntakeOK
  <1>2. Carries(q) \subseteq Carries(t) \cup PushedOut /\ t \in Seq(DoneMsg)
    <2>1. CASE Len(q) = kMaxDone
      <3>1. q # <<>>
        BY <1>1, <2>1
      <3>2. /\ Head(q) \in DoneMsg /\ Tail(q) \in Seq(DoneMsg) /\ Len(Tail(q)) = Len(q) - 1
            /\ Carries(q) = CarriedBy(Head(q)) \cup Carries(Tail(q))
        BY <1>1, <3>1, TailFacts, CarriesTail
      <3>3. t = Tail(q)
        BY <1>1, <2>1
      <3>4. done_' = Append(Tail(q), d)
        BY <1>1, <2>1 DEF push_done
      <3>5. Len(done_') = kMaxDone
        BY <1>1, <2>1, <3>2, <3>4
      <3>6. Carries(<<Head(q)>>) = CarriedBy(Head(q))
        BY <3>2, CarriesOne
      <3>7. Carries(<<Head(q)>>) \subseteq PushedOut
        BY <2>1, <3>5 DEF PushedOut
      <3> QED BY <3>2, <3>3, <3>6, <3>7
    <2>2. CASE Len(q) # kMaxDone
      <3>1. t = q
        BY <1>1, <2>2
      <3> QED BY <1>1, <3>1
    <2> QED BY <2>1, <2>2
  <1>3. done_' = Append(t, d)
    BY DEF push_done
  <1> HIDE DEF q, d, t
  <1>4. Carries(Append(t, d)) = Carries(t) \cup CarriedBy(d)
    BY <1>1, <1>2, CarriesAppend
  <1>5. CarriedBy(d) = {m.frame}
    BY <1>1, Carried DEF d, FrameDone
  <1> QED BY <1>2, <1>3, <1>4, <1>5 DEF q

(* What a step leaves alone keeps its slots.                               *)
LEMMA KeptStays ==
  ASSUME KeptClosed, UNCHANGED <<built, stale_>>, OwnedFrames' \subseteq OwnedFrames,
         built = TRUE /\ stale_ = FALSE /\ pcI' = "closed" =>
           /\ pcI = "closed" /\ (pcP' = "configPush" => pcP = "configPush")
           /\ FrameOf(ready) \cup Carries(pending_) \subseteq (FrameOf(ready) \cup Carries(pending_))',
         pcI' \in {"hello", "ready", "up"} /\ link' = "open" =>
           /\ pcI \in {"hello", "ready", "up"} /\ link = "open"
           /\ Accounted \subseteq Accounted' \cup PushedOut
  PROVE  SlotsKept
  <1>1. KeptClosed'
    BY DEF KeptClosed
  <1>2. LostNow' \subseteq LostNow \cup PushedOut
    <2>1. CASE Using'
      <3>1. Using /\ Accounted \subseteq Accounted' \cup PushedOut
        BY <2>1 DEF Using
      <3>2. LostNow' = OwnedFrames' \ Accounted' /\ LostNow = OwnedFrames \ Accounted
        BY <2>1, <3>1 DEF LostNow
      <3> QED BY <3>1, <3>2
    <2>2. CASE ~Using'
      BY <2>2 DEF LostNow
    <2> QED BY <2>1, <2>2
  <1> QED BY <1>1, <1>2 DEF SlotsKept

(* Nothing is lost when every slot's frame is on its way.                  *)
LEMMA KeptAll ==
  ASSUME KeptClosed', Using' => OwnedFrames' \subseteq Accounted'
  PROVE  SlotsKept
  <1>1. LostNow' = {}
    BY DEF LostNow
  <1> QED BY <1>1 DEF SlotsKept

(* Where the frames are, in one set.                                       *)
LEMMA AccountedIs ==
  /\ Accounted = FrameOf(ready) \cup Carries(pending_) \cup Carries(toHelper) \cup FrameOf(hpending)
                   \cup FrameOf(eFrame) \cup Carries(done_) \cup Carries(toShim)
  /\ Accounted' = FrameOf(ready') \cup Carries(pending_') \cup Carries(toHelper') \cup FrameOf(hpending')
                   \cup FrameOf(eFrame') \cup Carries(done_') \cup Carries(toShim')
  BY DEF Accounted, Carries, FrameOf

(* The steps of the ring and of the session.                               *)
LEMMA KeptRing ==
  ASSUME Wire, Sessions, KeptClosed,
         \/ CreateRing
         \/ PresentMarksStale
         \/ DisconnectedStale
         \/ EndSession
         \/ ClearConnected
         \/ DropPending
         \/ DisconnectedResend
         \/ DisconnectClient
         \/ HelperCrash
         \/ on_shim_gone
         \/ OpenPipe
         \/ on_ipc_connected
         \/ LeaseSlot
  PROVE  SlotsKept
  <1>1. CASE CreateRing
    <2>1. slots_' = [s \in Slot |-> FreeSlot]
      BY <1>1 DEF CreateRing, create, create_fails, destroy_locked
    <2>2. \A s \in Slot : slots_'[s] = FreeSlot
      BY <2>1
    <2>3. FreeSlot.helper_owned = FALSE
      BY DEF FreeSlot
    <2>4. OwnedFrames' = {}
      BY <2>2, <2>3 DEF OwnedFrames
    <2>5. pcP' # "configPush"
      BY <1>1 DEF CreateRing
    <2>6. KeptClosed'
      BY <2>4, <2>5 DEF KeptClosed
    <2> QED BY <2>4, <2>6, KeptAll
  <1>2. CASE PresentMarksStale \/ DisconnectedStale
    <2>1. built' = built /\ stale_' = (stale_ \/ built)
      BY <1>2 DEF PresentMarksStale, DisconnectedStale, mark_stale
    <2>2. ~(built' = TRUE /\ stale_' = FALSE)
      BY <2>1
    <2>3. KeptClosed' /\ ~Using'
      BY <2>2 DEF KeptClosed, Using
    <2> QED BY <2>3, KeptAll
  <1>3. CASE EndSession \/ ClearConnected \/ DropPending \/ DisconnectedResend
    <2>1. pcI' \in {"ended", "drop", "unresend", "markStale"}
      BY <1>3 DEF EndSession, ClearConnected, DropPending, DisconnectedResend
    <2>2. KeptClosed' /\ ~Using'
      BY <2>1 DEF KeptClosed, Using
    <2> QED BY <2>2, KeptAll
  <1>4. CASE DisconnectClient \/ HelperCrash \/ on_shim_gone
    <2>1. UNCHANGED <<built, stale_, slots_, pcP, pcI, ready, pending_>>
      BY <1>4 DEF DisconnectClient, HelperCrash, on_shim_gone, ringVars, shimVars, presentVars,
            ipcVars
    <2>2. link' # "open"
      BY <1>4 DEF DisconnectClient, HelperCrash, on_shim_gone, pipeVars, Sessions, Wire, TypeInv,
            PipeOK
    <2>3. OwnedFrames' = OwnedFrames
      BY <2>1 DEF OwnedFrames
    <2> QED BY <2>1, <2>2, <2>3, KeptStays
  <1>5. CASE OpenPipe
    <2>1. /\ UNCHANGED <<built, stale_, slots_, ready, pending_>>
          /\ pcI = "closed" /\ pcI' = "hello"
      BY <1>5 DEF OpenPipe, ringVars, presentVars
    <2>2. OwnedFrames' = OwnedFrames
      BY <2>1 DEF OwnedFrames
    <2>3. FrameOf(ready) \cup Carries(pending_) \subseteq Accounted'
      BY <2>1, AccountedIs
    <2>4. KeptClosed' /\ (Using' => OwnedFrames' \subseteq Accounted')
      BY <2>1, <2>2, <2>3 DEF KeptClosed, Using
    <2> QED BY <2>4, KeptAll
  <1>6. CASE on_ipc_connected
    <2>1. /\ UNCHANGED <<built, stale_, slots_, ready, pending_, toHelper, hpending, eFrame, done_, toShim, link>>
          /\ pcI = "ready" /\ pcI' = "up"
      BY <1>6 DEF on_ipc_connected, ringVars, presentVars, pipeVars, helperVars, intakeVars,
            encoderVars
    <2>2. OwnedFrames' = OwnedFrames /\ Accounted' = Accounted
      BY <2>1, AccountedIs DEF OwnedFrames
    <2> QED BY <2>1, <2>2, KeptStays
  <1>7. CASE LeaseSlot
    <2>1. /\ UNCHANGED <<built, stale_, ready, pending_, toHelper, hpending, eFrame, done_, toShim, link, pcI>>
          /\ pcP' # "configPush"
          /\ \/ slots_' = slots_
             \/ \E s \in Slot : slots_' = [slots_ EXCEPT ![s] = [helper_owned |-> FALSE, leased |-> TRUE,
                                                                 frame_id |-> slots_[s].frame_id]]
      BY <1>7 DEF LeaseSlot, acquire_slot, ringVars, ipcVars, pipeVars, helperVars, intakeVars,
            encoderVars
    <2>2. \A s \in Slot : slots_'[s].helper_owned => slots_[s].helper_owned
            /\ slots_'[s].frame_id = slots_[s].frame_id
      BY <2>1 DEF Wire, TypeInv, RingTypeOK
    <2>3. OwnedFrames' \subseteq OwnedFrames
      BY <2>2 DEF OwnedFrames
    <2>4. Accounted' = Accounted
      BY <2>1, AccountedIs
    <2> QED BY <2>1, <2>3, <2>4, KeptStays
  <1> QED BY <1>1, <1>2, <1>3, <1>4, <1>5, <1>6, <1>7

(* The steps of the two queues of the shim.                                *)
LEMMA KeptShim ==
  ASSUME Wire, KeptClosed,
         \/ PushStagingConfig
         \/ PushFrameReady
         \/ QueueHaptic
         \/ ReleaseToHelper
         \/ FlushOutgoing
  PROVE  SlotsKept
  <1> DEFINE PS == ConfigMsg \cup FrameMsg \cup {Haptic}
             TS == ConfigMsg \cup FrameMsg \cup {Haptic, ShimHello}
  <1>t. /\ pending_ \in Seq(PS) /\ toHelper \in Seq(TS) /\ Haptic \in PS
        /\ ready \in FrameMsg \cup {None}
           /\ (ready # None <=> pcP \in {"ready", "readyPush", "stale"})
        /\ slots_ \in [Slot -> SlotState]
        /\ \A m \in PS : m \in TS
    BY DEF Wire, TypeInv, IpcOK, PipeOK, PresentOK, RingTypeOK
  <1> HIDE DEF PS, TS
  <1>1. CASE PushStagingConfig
    <2> DEFINE c == StagingConfig(generation_)
    <2>1. /\ UNCHANGED <<built, stale_, slots_, pcI, link, ready, toHelper, hpending, eFrame, done_, toShim>>
          /\ pending_' = PushNotEvictable(pending_, c)
      BY <1>1 DEF PushStagingConfig, ringVars, pipeVars, helperVars, intakeVars, encoderVars
    <2>2. c \in PS /\ CarriedBy(c) = {}
      BY MessageMade, MessageKinds DEF Wire, PS, CarriedBy
    <2>3. Carries(pending_) \subseteq Carries(PushNotEvictable(pending_, c)) \cup PushedOut
      <3>1. CASE Len(pending_) >= kMaxPendingMessages
        <4> DEFINE m == Head(pending_)
        <4>1. pending_ # <<>>
          BY <3>1, TransportAssumption
        <4>2. m \in PS /\ Tail(pending_) \in Seq(PS)
          BY <1>t, <4>1, TailFacts
        <4>3. Carries(pending_) = CarriedBy(m) \cup Carries(Tail(pending_))
          BY <1>t, <4>1, CarriesTail
        <4>4. Carries(<<m>>) \subseteq PushedOut
          BY <1>1, <3>1 DEF PushedOut
        <4> HIDE DEF c, m
        <4>5. Carries(<<m>>) = CarriedBy(m)
          BY <4>2, CarriesOne
        <4>6. Carries(Append(Tail(pending_), c)) = Carries(Tail(pending_)) \cup CarriedBy(c)
          BY <2>2, <4>2, CarriesAppend
        <4>7. PushNotEvictable(pending_, c) = Append(Tail(pending_), c)
          BY <3>1 DEF PushNotEvictable
        <4> QED BY <4>3, <4>4, <4>5, <4>6, <4>7
      <3>2. CASE ~(Len(pending_) >= kMaxPendingMessages)
        <4> HIDE DEF c
        <4>1. Carries(Append(pending_, c)) = Carries(pending_) \cup CarriedBy(c)
          BY <1>t, <2>2, CarriesAppend
        <4>2. PushNotEvictable(pending_, c) = Append(pending_, c)
          BY <3>2 DEF PushNotEvictable
        <4> QED BY <4>1, <4>2
      <3> QED BY <3>1, <3>2
    <2>4. OwnedFrames' = OwnedFrames /\ Accounted \subseteq Accounted' \cup PushedOut
      <3>1. OwnedFrames' = OwnedFrames
        BY <2>1 DEF OwnedFrames
      <3>2. Carries(pending_) \subseteq Carries(pending_') \cup PushedOut
        BY <2>1, <2>3
      <3> QED BY <2>1, <3>1, <3>2, AccountedIs
    <2>5. ~(built = TRUE /\ stale_ = FALSE /\ pcI' = "closed")
      BY <1>1, <2>1 DEF PushStagingConfig, KeptClosed
    <2> QED BY <2>1, <2>4, <2>5, KeptStays
  <1>2. CASE PushFrameReady
    <2>1. /\ UNCHANGED <<built, stale_, slots_, pcI, link, toHelper, hpending, eFrame, done_, toShim>>
          /\ pcP' # "configPush"
      BY <1>2 DEF PushFrameReady, ringVars, pipeVars, helperVars, intakeVars, encoderVars
    <2>2. FrameOf(ready) \cup Carries(pending_) \subseteq (FrameOf(ready) \cup Carries(pending_))'
      <3>1. CASE UNCHANGED <<pending_, ready>>
        BY <3>1
      <3>2. CASE pending_' = Append(pending_, ready) /\ pcP = "readyPush"
        <4>1. ready \in FrameMsg
          BY <1>t, <3>2
        <4>2. ready \in PS /\ CarriedBy(ready) = FrameOf(ready)
          BY <4>1, Carried DEF PS
        <4>3. Carries(Append(pending_, ready)) = Carries(pending_) \cup CarriedBy(ready)
          BY <1>t, <4>2, CarriesAppend
        <4> QED BY <3>2, <4>2, <4>3
      <3> QED BY <1>2, <3>1, <3>2 DEF PushFrameReady
    <2>3. OwnedFrames' = OwnedFrames /\ Accounted \subseteq Accounted'
      BY <2>1, <2>2, AccountedIs DEF OwnedFrames
    <2> QED BY <2>1, <2>2, <2>3, KeptStays
  <1>3. CASE QueueHaptic
    <2>1. /\ UNCHANGED <<built, stale_, slots_, pcP, pcI, link, ready, toHelper, hpending, eFrame, done_, toShim>>
          /\ pending_' = Append(pending_, Haptic)
      BY <1>3 DEF QueueHaptic, ringVars, presentVars, pipeVars, helperVars, intakeVars, encoderVars
    <2>2. Carries(Append(pending_, Haptic)) = Carries(pending_) \cup CarriedBy(Haptic)
      BY <1>t, CarriesAppend
    <2>3. OwnedFrames' = OwnedFrames /\ Accounted \subseteq Accounted'
      BY <2>1, <2>2, AccountedIs DEF OwnedFrames
    <2>4. FrameOf(ready) \cup Carries(pending_) \subseteq (FrameOf(ready) \cup Carries(pending_))'
      BY <2>1, <2>2
    <2> QED BY <2>1, <2>3, <2>4, KeptStays
  <1>4. CASE ReleaseToHelper
    <2> DEFINE f == frame_id_ + 1
    <2>1. /\ UNCHANGED <<built, stale_, pcI, link, pending_, toHelper, hpending, eFrame, done_, toShim>>
          /\ ready' = FrameReady(f, generation_, lease) /\ pcP = "copy" /\ pcP' = "ready"
          /\ slots_' = [slots_ EXCEPT ![lease] = [helper_owned |-> TRUE, leased |-> FALSE, frame_id |-> f]]
      BY <1>4 DEF ReleaseToHelper, release_to_helper, ipcVars, pipeVars, helperVars, intakeVars,
            encoderVars
    <2>2. ready = None
      BY <1>t, <2>1
    <2>3. FrameOf(ready') = {f}
      <3>1. FrameReady(f, generation_, lease) \in FrameMsg
        BY <1>4, MessageMade DEF ReleaseToHelper, release_to_helper, Wire, TypeInv, PresentOK
      <3>2. FrameReady(f, generation_, lease).frame = f
        BY DEF FrameReady
      <3> QED BY <2>1, <3>1, <3>2, Carried
    <2> HIDE DEF f
    <2>4. OwnedFrames' \subseteq OwnedFrames \cup {f}
      BY <1>t, <2>1 DEF OwnedFrames
    <2>5. FrameOf(ready) = {}
      BY <2>2, Carried
    <2>6. Accounted' = Accounted \cup {f}
      BY <2>1, <2>3, <2>5, AccountedIs
    <2>7. KeptClosed'
      BY <2>1, <2>3, <2>4, <2>5 DEF KeptClosed
    <2>8. LostNow' \subseteq LostNow
      BY <2>1, <2>4, <2>6 DEF LostNow, Using
    <2> QED BY <2>7, <2>8 DEF SlotsKept
  <1>5. CASE FlushOutgoing
    <2>1. /\ UNCHANGED <<built, stale_, slots_, pcI, link, ready, hpending, eFrame, done_, toShim>>
          /\ toHelper' = Append(toHelper, Head(pending_)) /\ pending_' = Tail(pending_)
          /\ pending_ # <<>> /\ pcI # "closed"
      BY <1>5 DEF FlushOutgoing, ringVars, presentVars, helperVars, intakeVars, encoderVars
    <2>2. Carries(pending_) = CarriedBy(Head(pending_)) \cup Carries(Tail(pending_))
            /\ Head(pending_) \in PS
      BY <1>t, <2>1, CarriesTail, TailFacts
    <2>3. Carries(Append(toHelper, Head(pending_))) = Carries(toHelper) \cup CarriedBy(Head(pending_))
      <3> DEFINE m == Head(pending_)
      <3>1. m \in TS
        BY <1>t, <2>2
      <3> HIDE DEF m
      <3>2. Carries(Append(toHelper, m)) = Carries(toHelper) \cup CarriedBy(m)
        BY <1>t, <3>1, CarriesAppend
      <3> QED BY <3>2 DEF m
    <2>4. Carries(pending_') \cup Carries(toHelper') = Carries(pending_) \cup Carries(toHelper)
      BY <2>1, <2>2, <2>3
    <2>5. OwnedFrames' = OwnedFrames /\ Accounted \subseteq Accounted'
      BY <2>1, <2>4, AccountedIs DEF OwnedFrames
    <2> QED BY <2>1, <2>5, KeptStays
  <1> QED BY <1>1, <1>2, <1>3, <1>4, <1>5

(* Steps that touch neither the slots nor the messages.                    *)
LEMMA KeptQuiet ==
  ASSUME Sessions, KeptClosed,
         \/ \E m \in Modes : Present(m)
         \/ Match
         \/ ClearResend
         \/ ExchangeResend
         \/ SendStagingConfig
         \/ QueueFrameReady
         \/ ReadTimeout
         \/ ClientToggle
         \/ ReleaseStage
         \/ UNCHANGED vars
  PROVE  SlotsKept
  <1>1. UNCHANGED <<built, stale_, slots_, pcI, link, ready, pending_, toHelper, hpending, eFrame, done_, toShim>>
    BY DEF Present, Match, ClearResend, ExchangeResend, SendStagingConfig, QueueFrameReady,
          ReadTimeout,
           ClientToggle, ReleaseStage, stage_release, vars, ringVars, shimVars, presentVars,
                 ipcVars,
           pipeVars, helperVars, intakeVars, encoderVars
  <1>2. OwnedFrames' = OwnedFrames /\ Accounted' = Accounted
    BY <1>1, AccountedIs DEF OwnedFrames
  <1>3. pcI' = "closed" => (pcP' = "configPush" => pcP = "configPush")
    <2>1. CASE SendStagingConfig
      BY <1>1, <2>1 DEF SendStagingConfig, Sessions
    <2>2. CASE ~SendStagingConfig
      BY <2>2 DEF Present, Match, ClearResend, ExchangeResend, QueueFrameReady, ReadTimeout, ClientToggle,
            ReleaseStage, vars, shimVars, presentVars
    <2> QED BY <2>1, <2>2
  <1> QED BY <1>1, <1>2, <1>3, KeptStays

(* The helper's steps only move frames on: towards the encoder, the        *)
(* answers and the pipe.                                                   *)
LEMMA KeptMoved ==
  ASSUME KeptClosed, UNCHANGED <<built, stale_, slots_, pcP, pcI, link, ready, pending_>>,
         Carries(toHelper) \cup FrameOf(hpending) \cup FrameOf(eFrame) \cup Carries(done_) \cup Carries(toShim)
           \subseteq Carries(toHelper') \cup FrameOf(hpending') \cup FrameOf(eFrame') \cup Carries(done_')
                       \cup Carries(toShim') \cup PushedOut
  PROVE  SlotsKept
  <1>1. OwnedFrames' = OwnedFrames
    BY DEF OwnedFrames
  <1>2. Accounted \subseteq Accounted' \cup PushedOut
    BY AccountedIs
  <1> QED BY <1>1, <1>2, KeptStays

(* The encoder thread takes a frame, keeps it or answers it.               *)
LEMMA KeptEncoder ==
  ASSUME Wire, KeptClosed,
         \/ Wake
         \/ Shutdown
         \/ ReadStaging
         \/ EnsureEncoder
         \/ AcquireStage
         \/ Finish
  PROVE  SlotsKept
  <1>1. UNCHANGED <<built, stale_, slots_, pcP, pcI, link, ready, pending_, toHelper, toShim>>
    BY DEF Wake, Shutdown, ReadStaging, EnsureEncoder, AcquireStage, Finish, stage_acquire,
          ringVars,
           shimVars, presentVars, ipcVars, pipeVars
  <1>2. CASE AnswerFrame /\ hpending' = hpending
               /\ pcE \in {"popped", "request", "encode", "finish"}
    <2>1. eFrame \in FrameMsg /\ eFrame # None
      BY <1>2 DEF Wire, TypeInv, EncoderOK
    <2>2. SoundOne(eFrame, frame_id_, homeGen, homeSlot) /\ FrameOf(eFrame) = {eFrame.frame}
      BY <2>1, Carried DEF Wire, Numbers
    <2>3. done_' = push_done(done_, eFrame)
      BY <1>2 DEF AnswerFrame
    <2>4. Carries(done_) \cup FrameOf(eFrame) \subseteq Carries(done_') \cup PushedOut
      BY <2>1, <2>2, <2>3, PushedKeeps
    <2> QED BY <1>1, <1>2, <2>4, KeptMoved
  <1>3. CASE UNCHANGED <<hpending, eFrame, done_>>
    BY <1>1, <1>3, KeptMoved
  <1>4. CASE (Wake \/ Shutdown) /\ TakePending
    <2>1. eFrame' = hpending /\ done_' = done_ /\ FrameOf(eFrame) = {}
      BY <1>4, Carried DEF Wake, Shutdown, TakePending, Wire, TypeInv, EncoderOK
    <2> QED BY <1>1, <2>1, KeptMoved
  <1> QED BY <1>2, <1>3, <1>4 DEF Wake, Shutdown, ReadStaging, EnsureEncoder, AcquireStage, Finish

(* The pipe thread takes a message in, or sends an answer.                 *)
LEMMA KeptPipe ==
  ASSUME Wire, Greeting, KeptClosed,
         \/ Handshake
         \/ FlushFrameDone
         \/ on_staging_config
         \/ on_frame_ready
         \/ HandleHaptic
  PROVE  SlotsKept
  <1>1. UNCHANGED <<built, stale_, slots_, pcP, pcI, link, ready, pending_, eFrame>>
    BY DEF Handshake, FlushFrameDone, on_staging_config, on_frame_ready, HandleHaptic, ringVars,
           shimVars, presentVars, ipcVars, encoderVars
  <1>2. CASE Handshake
    <2>1. toHelper # <<>> /\ toHelper' = Tail(toHelper) /\ Head(toHelper) = ShimHello
          /\ UNCHANGED <<hpending, done_>> /\ Carries(toShim) = {}
      BY <1>2 DEF Handshake, Greeting, intakeVars
    <2>2. Carries(toHelper') = Carries(toHelper)
      BY <2>1, HelperTakes, Carried
    <2> QED BY <1>1, <2>1, <2>2, KeptMoved
  <1>3. CASE FlushFrameDone
    <2>1. UNCHANGED <<toHelper, hpending>>
      BY <1>3 DEF FlushFrameDone
    <2>2. Carries(done_') \cup Carries(toShim') = Carries(done_) \cup Carries(toShim)
      <3>1. CASE done_ # <<>> /\ toShim' = Append(toShim, Head(done_)) /\ done_' = Tail(done_)
        <4> DEFINE m == Head(done_)
        <4>1. done_ \in Seq(DoneMsg) /\ toShim \in Seq(DoneMsg \cup {HmdConfig})
          BY DEF Wire, TypeInv, IntakeOK, PipeOK
        <4>2. m \in DoneMsg /\ Carries(done_) = CarriedBy(m) \cup Carries(Tail(done_))
          BY <3>1, <4>1, TailFacts, CarriesTail
        <4> HIDE DEF m
        <4>3. m \in DoneMsg \cup {HmdConfig}
          BY <4>2
        <4>4. Carries(Append(toShim, m)) = Carries(toShim) \cup CarriedBy(m)
          BY <4>1, <4>3, CarriesAppend
        <4> QED BY <3>1, <4>2, <4>4 DEF m
      <3>2. CASE UNCHANGED <<toShim, done_>>
        BY <3>2
      <3> QED BY <1>3, <3>1, <3>2 DEF FlushFrameDone
    <2> QED BY <1>1, <2>1, <2>2, KeptMoved
  <1>4. CASE on_staging_config
    <2>1. toHelper # <<>> /\ toHelper' = Tail(toHelper) /\ Head(toHelper).type = "config"
            /\ toShim' = toShim
      BY <1>4 DEF on_staging_config
    <2>2. Carries(toHelper') = Carries(toHelper)
      <3>1. Head(toHelper) \in ConfigMsg
        BY <2>1, HelperTakes, MessageKinds
      <3> QED BY <2>1, <3>1, HelperTakes, Carried
    <2>3. CASE UNCHANGED <<done_, hpending>>
      BY <1>1, <2>1, <2>2, <2>3, KeptMoved
    <2>4. CASE hpending # None /\ done_' = push_done(done_, hpending) /\ hpending' = None
      <3>1. Carries(done_) \cup FrameOf(hpending) \subseteq Carries(done_') \cup PushedOut
        <4>1. /\ hpending \in FrameMsg /\ SoundOne(hpending, frame_id_, homeGen, homeSlot)
              /\ FrameOf(hpending) = {hpending.frame}
          BY <2>4, PendingFrame DEF SoundOne
        <4> QED BY <2>4, <4>1, PushedKeeps
      <3> QED BY <1>1, <2>1, <2>2, <3>1, KeptMoved
    <2> QED BY <1>4, <2>3, <2>4 DEF on_staging_config
  <1>5. CASE on_frame_ready
    <2> DEFINE m == Head(toHelper)
    <2>1. toHelper # <<>> /\ toHelper' = Tail(toHelper) /\ m.type = "frame" /\ toShim' = toShim
      BY <1>5 DEF on_frame_ready
    <2>2. m \in FrameMsg
      BY <2>1, HelperTakes, MessageKinds
    <2>3. /\ Carries(toHelper) = {m.frame} \cup Carries(toHelper') /\ FrameOf(m) = {m.frame}
          /\ SoundOne(m, frame_id_, homeGen, homeSlot)
      <3>1. Carries(toHelper) = {m.frame} \cup Carries(toHelper') /\ FrameOf(m) = {m.frame}
        BY <2>1, <2>2, HelperTakes, Carried
      <3>2. SoundOne(m, frame_id_, homeGen, homeSlot)
        BY <2>1, HelperTakes DEF SoundOne
      <3> QED BY <3>1, <3>2
    <2>4. CASE done_' = push_done(done_, m) /\ UNCHANGED hpending
      <3> HIDE DEF m
      <3>1. Carries(done_) \cup {m.frame} \subseteq Carries(done_') \cup PushedOut
        BY <2>2, <2>3, <2>4, PushedKeeps
      <3> QED BY <1>1, <2>1, <2>3, <2>4, <3>1, KeptMoved
    <2>5. CASE hpending # None /\ done_' = push_done(done_, hpending) /\ hpending' = m
      <3>1. Carries(done_) \cup FrameOf(hpending) \subseteq Carries(done_') \cup PushedOut
        <4>1. /\ hpending \in FrameMsg /\ SoundOne(hpending, frame_id_, homeGen, homeSlot)
              /\ FrameOf(hpending) = {hpending.frame}
          BY <2>5, PendingFrame DEF SoundOne
        <4> QED BY <2>5, <4>1, PushedKeeps
      <3> HIDE DEF m
      <3> QED BY <1>1, <2>1, <2>3, <2>5, <3>1, KeptMoved
    <2>6. CASE hpending = None /\ UNCHANGED done_ /\ hpending' = m
      <3>1. FrameOf(hpending) = {}
        BY <2>6, Carried
      <3> HIDE DEF m
      <3> QED BY <1>1, <2>1, <2>3, <2>6, <3>1, KeptMoved
    <2> QED BY <1>5, <2>4, <2>5, <2>6 DEF on_frame_ready
  <1>6. CASE HandleHaptic
    <2>1. toHelper # <<>> /\ toHelper' = Tail(toHelper) /\ Head(toHelper) = Haptic
          /\ UNCHANGED <<hpending, done_, toShim>>
      BY <1>6 DEF HandleHaptic, intakeVars
    <2>2. Carries(toHelper') = Carries(toHelper)
      BY <2>1, HelperTakes, Carried
    <2> QED BY <1>1, <2>1, <2>2, KeptMoved
  <1> QED BY <1>2, <1>3, <1>4, <1>5, <1>6

(* What comes back from the helper: the handshake, and answers that free   *)
(* the slots of their frames.                                              *)
LEMMA KeptAnswers ==
  ASSUME Wire, Abstract!LeaseInv, KeptClosed,
         \/ ReceiveConfig
         \/ ReceiveFrameDone
  PROVE  SlotsKept
  <1>t. toShim \in Seq(DoneMsg \cup {HmdConfig}) /\ Good(toShim, frame_id_, homeGen, homeSlot)
    BY DEF Wire, TypeInv, PipeOK, Numbers
  <1>1. CASE ReceiveConfig
    <2>1. /\ UNCHANGED <<built, stale_, slots_, ready, pending_, toHelper, hpending, eFrame, done_, link>>
          /\ pcI = "hello" /\ pcI' = "ready"
          /\ toShim # <<>> /\ Head(toShim) = HmdConfig /\ toShim' = Tail(toShim)
      BY <1>1 DEF ReceiveConfig, ringVars, presentVars, helperVars, intakeVars, encoderVars
    <2>2. Carries(toShim') = Carries(toShim)
      BY <1>t, <2>1, CarriesTail, Carried
    <2>3. OwnedFrames' = OwnedFrames /\ Accounted' = Accounted
      BY <2>1, <2>2, AccountedIs DEF OwnedFrames
    <2> QED BY <2>1, <2>3, KeptStays
  <1>2. CASE ReceiveFrameDone
    <2> DEFINE m == Head(toShim)
               f == m.frame
    <2>1. /\ UNCHANGED <<built, stale_, ready, pending_, toHelper, hpending, eFrame, done_, link, pcI>>
          /\ pcI = "up" /\ toShim # <<>> /\ m.type = "done" /\ toShim' = Tail(toShim)
          /\ on_frame_done(firstId + m.frame_id, m.staging_index)
      BY <1>2 DEF ReceiveFrameDone, on_frame_done, presentVars, ipcVars, helperVars, intakeVars,
            encoderVars
    <2>2. /\ Sound(m, frame_id_, homeGen, homeSlot) /\ m \in DoneMsg \cup {HmdConfig}
          /\ Carries(toShim) = CarriedBy(m) \cup Carries(toShim')
      BY <1>t, <2>1, GoodTail
    <2>3. m \in DoneMsg /\ CarriedBy(m) = {f} /\ Bearing(m)
      BY <2>1, <2>2, MessageKinds, Carried
    <2>4. f \in 1 .. frame_id_ /\ firstId + m.frame_id = f /\ m.staging_index = homeSlot[f]
      BY <2>2, <2>3, FrameNumber DEF Sound, Wire, Numbers
    <2>5. on_frame_done(f, homeSlot[f])
      BY <2>1, <2>4
    <2> HIDE DEF m, f
    <2>6. OwnedFrames' \subseteq OwnedFrames \ {f} \/ ~Using'
      <3>1. CASE built = TRUE
        <4>1. SUFFICES ASSUME NEW s \in Slot, slots_'[s].helper_owned
                       PROVE  slots_[s].helper_owned /\ slots_'[s].frame_id = slots_[s].frame_id
                              /\ slots_[s].frame_id # f
          BY DEF OwnedFrames
        <4>2. slots_ \in [Slot -> SlotState]
          BY DEF Wire, TypeInv, RingTypeOK
        <4>3. slots_'[s] = slots_[s] /\ ~(s = homeSlot[f] /\ DoneMatches(f, homeSlot[f]))
          BY <2>5, <4>1, <4>2 DEF on_frame_done, SlotState
        <4>4. slots_[s].helper_owned => homeSlot[slots_[s].frame_id] = s
          BY SameRing DEF Abstract!LeaseInv, Abstract!OwnedNamesItsFrame
        <4> QED BY <3>1, <4>1, <4>3, <4>4 DEF DoneMatches
      <3>2. CASE ~(built = TRUE)
        BY <2>1, <3>2 DEF Using
      <3> QED BY <3>1, <3>2
    <2>7. Accounted \ {f} \subseteq Accounted'
      BY <2>1, <2>2, <2>3, AccountedIs
    <2>8. LostNow' \subseteq LostNow
      BY <2>1, <2>6, <2>7 DEF LostNow, Using
    <2>9. KeptClosed'
      BY <2>1 DEF KeptClosed
    <2> QED BY <2>8, <2>9 DEF SlotsKept
  <1> QED BY <1>1, <1>2

(* Every step keeps the frames of the slots on their way, but for what a   *)
(* full queue pushes out.                                                  *)
LEMMA KeptStep ==
  ASSUME MaxRestarts = 0, Wire, Abstract!LeaseInv, Sessions, Greeting, KeptClosed, [Next]_vars
  PROVE  SlotsKept
  <1>1. ~VrserverRestart
    <2>1. restarts = 0
      BY DEF Wire, TypeInv, ProcessOK
    <2> QED BY <2>1 DEF VrserverRestart
  <1>2. CASE PresentThread
    BY <1>2, KeptQuiet, KeptRing, KeptShim DEF PresentThread
  <1>3. CASE IpcThread
    BY <1>3, KeptRing, KeptShim, KeptAnswers DEF IpcThread
  <1>4. CASE PipeThread
    BY <1>4, KeptQuiet, KeptRing, KeptPipe DEF PipeThread
  <1>5. CASE EncoderThread
    BY <1>5, KeptQuiet, KeptEncoder DEF EncoderThread
  <1> QED BY <1>1, <1>2, <1>3, <1>4, <1>5, KeptQuiet, KeptRing, KeptShim DEF Next

(* The Boolean variables are one of the two. *)
LEMMA LostIs ==
  ASSUME TypeInv
  PROVE  Lost = LostNow
  <1>1. built \in BOOLEAN /\ stale_ \in BOOLEAN
    BY DEF TypeInv, RingTypeOK
  <1>2. InUse <=> Using
    <2>1. built <=> built = TRUE
      BY <1>1, Zenon
    <2>2. ~stale_ <=> stale_ = FALSE
      BY <1>1, Zenon
    <2> QED BY <2>1, <2>2, Zenon DEF InUse, Using
  <1> QED BY <1>2 DEF Lost, LostNow

(* No slot is lost (direct_mode.cpp:852-855), over lost sessions, crashes  *)
(* of the helper and full queues, but the one whose FrameReady or          *)
(* FrameDone a full queue pushes out.                                      *)
THEOREM TransportNoLostSlot ==
  ASSUME MaxRestarts = 0
  PROVE  Spec => NoLostSlot
  <1>1. Init => Sessions /\ Greeting /\ KeptClosed
    BY DEF Init, RingInit, Sessions, Greeting, KeptClosed
  <1>2. Wire /\ Abstract!LeaseInv /\ Sessions /\ Greeting /\ KeptClosed /\ [Next]_vars
        => (Sessions /\ Greeting /\ KeptClosed)' /\ LostNow' \subseteq LostNow \cup PushedOut
    <2> SUFFICES ASSUME Wire, Abstract!LeaseInv, Sessions, Greeting, KeptClosed, [Next]_vars
                 PROVE  Sessions' /\ Greeting' /\ KeptClosed' /\ LostNow' \subseteq LostNow \cup PushedOut
      OBVIOUS
    <2>1. Sessions' /\ Greeting'
      BY SessionsStep, GreetingStep DEF Wire
    <2>2. SlotsKept
      BY KeptStep
    <2> QED BY <2>1, <2>2 DEF SlotsKept
  <1> DEFINE Same == Lost = LostNow
  <1>3. Wire => Same
    BY LostIs DEF Wire
  <1>4. Same /\ Same' /\ LostNow' \subseteq LostNow \cup PushedOut
          => [Lost' \subseteq Lost \cup PushedOut]_vars
    OBVIOUS
  <1> HIDE DEF Same
  <1> QED BY <1>1, <1>2, <1>3, <1>4, TransportInv, PTL DEF Spec, NoLostSlot
=============================================================================
