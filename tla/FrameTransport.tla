---------------------------- MODULE FrameTransport ----------------------------
(***************************************************************************)
(* The video frame transport from SteamVR's compositor to the encoder,     *)
(* across two processes and a named pipe, with every thread that takes     *)
(* part in it:                                                             *)
(*                                                                         *)
(*   shim, Present thread    DirectModeComponent::Present and below        *)
(*   shim, IPC thread        IpcClient::thread_main and the callbacks it   *)
(*                           makes into DirectModeComponent                *)
(*   helper, pipe thread     PipeServer::run, calling VideoIntake          *)
(*   helper, encoder thread  VideoIntake::run, calling AmfVideoEncoder     *)
(*                                                                         *)
(* A step is what a thread does between two points where another thread    *)
(* can see it: one critical section, one atomic variable, one pipe         *)
(* message.  The pipe breaks, the client of the video comes and goes, and  *)
(* either process dies and is started again.                               *)
(***************************************************************************)
EXTENDS FrameStagingRing, Sequences

CONSTANTS
    kMaxPendingMessages,  \* bound of IpcClient::pending_
    kMaxDone,             \* bound of VideoIntake::done_
    kMaxRingAttempts,     \* ring creations that may fail in a row
    MaxSessions,          \* bound: pipe sessions opened
    MaxHaptics,           \* bound: haptic pulses queued
    MaxRestarts,          \* bound: vrserver restarts
    None                  \* no frame, no ring

ASSUME TransportAssumption ==
    /\ kMaxPendingMessages \in Nat \ {0}
    /\ kMaxDone \in Nat \ {0}
    /\ kMaxRingAttempts \in Nat
    /\ MaxSessions \in Nat
    /\ MaxHaptics \in Nat
    /\ MaxRestarts \in Nat

VARIABLES
    (* shim, Present thread *)
    pcP, reqMode, lease, ready,
    ring_attempts_, resend_config_,
    (* shim, IPC thread *)
    pcI, connected_, pending_, sessions, haptics,
    (* the pipe *)
    link, toHelper, toShim,
    (* helper, pipe thread and VideoIntake's shared state *)
    pcH, staging_, staging_changed_, hpending, done_,
    (* helper, encoder thread *)
    pcE, eFrame, eConfig, stage, encoder_ready_,
    active,              \* VideoRequest::active: a headset wants video
    firstGen, firstId,   \* ring and frame numbers of earlier vrserver processes
    restarts,
    homeGen, homeSlot    \* history: the texture each frame was blitted into

Frame == 1 .. MaxFrame

presentVars == <<pcP, reqMode, lease, ready, ring_attempts_>>
ipcVars == <<pcI, connected_, pending_, sessions, haptics>>
pipeVars == <<link, toHelper, toShim>>
intakeVars == <<staging_, staging_changed_, hpending, done_>>
encoderVars == <<pcE, eFrame, eConfig, stage, encoder_ready_>>
processVars == <<firstGen, firstId, restarts, homeGen, homeSlot>>
shimVars == <<presentVars, ipcVars, resend_config_>>
helperVars == <<pcH, intakeVars, encoderVars, active>>
vars == <<ringVars, shimVars, pipeVars, helperVars, processVars>>

(* Messages.  The ring and frame fields identify what is really meant (the *)
(* textures the NT handles open, the frame rendered); generation and       *)
(* frame_id are the numbers on the wire, which start again with every      *)
(* vrserver process.  The helper only looks at the numbers.                *)
StagingConfig(g) == [type |-> "config", ring |-> g, generation |-> g - firstGen]
FrameReady(f, g, s) == [type |-> "frame", frame |-> f, frame_id |-> f - firstId, ring |-> g,
                        generation |-> g - firstGen, staging_index |-> s]
FrameDone(m) == [type |-> "done", frame |-> m.frame, frame_id |-> m.frame_id, ring |-> m.ring,
                 staging_index |-> m.staging_index]
Haptic == [type |-> "haptic"]
ShimHello == [type |-> "shim_hello"]
HmdConfig == [type |-> "hmd_config"]

ConfigMsg == [type : {"config"}, ring : Generation, generation : Generation]
FrameMsg == [type : {"frame"}, frame : FrameId, frame_id : FrameId, ring : Generation,
             generation : Generation, staging_index : Slot]
DoneMsg == [type : {"done"}, frame : FrameId, frame_id : FrameId, ring : Generation, staging_index : Slot]

(* No message is the absence of one. *)
ASSUME NoneAssumption == None \notin ConfigMsg \cup FrameMsg

PresentPc == {"idle", "match", "create", "clear", "resend", "config", "configPush", "lease",
              "copy", "ready", "readyPush", "stale"}
IpcPc == {"closed", "hello", "ready", "up", "ended", "drop", "unresend", "markStale"}
ServerPc == {"listen", "flush", "read", "gone"}
EncoderPc == {"wait", "shutdown", "popped", "request", "encode", "copying", "finish"}

TypeOK ==
    /\ RingTypeOK
    /\ pcP \in PresentPc
    /\ reqMode \in Modes
    /\ lease \in Slot
    /\ ready \in FrameMsg \cup {None}
    /\ ring_attempts_ \in 0 .. kMaxRingAttempts
    /\ resend_config_ \in BOOLEAN
    /\ pcI \in IpcPc
    /\ connected_ \in BOOLEAN
    /\ pending_ \in Seq(ConfigMsg \cup FrameMsg \cup {Haptic})
    /\ Len(pending_) <= kMaxPendingMessages
    /\ sessions \in 0 .. MaxSessions
    /\ haptics \in 0 .. MaxHaptics
    /\ link \in {"none", "open", "shimClosed", "helperClosed"}
    /\ toHelper \in Seq(ConfigMsg \cup FrameMsg \cup {Haptic, ShimHello})
    /\ toShim \in Seq(DoneMsg \cup {HmdConfig})
    /\ pcH \in ServerPc
    /\ staging_ \in ConfigMsg \cup {None}
    /\ staging_changed_ \in BOOLEAN
    /\ hpending \in FrameMsg \cup {None}
    /\ done_ \in Seq(DoneMsg)
    /\ Len(done_) <= kMaxDone
    /\ pcE \in EncoderPc
    /\ eFrame \in FrameMsg \cup {None}
    /\ eConfig \in ConfigMsg \cup {None}
    /\ stage \in ConfigMsg \cup {None}
    /\ encoder_ready_ \in BOOLEAN
    /\ active \in BOOLEAN
    /\ firstGen \in Generation
    /\ firstId \in FrameId
    /\ restarts \in 0 .. MaxRestarts
    /\ homeGen \in [Frame -> Generation] /\ homeSlot \in [Frame -> Slot]

Init ==
    /\ RingInit
    /\ pcP = "idle" /\ reqMode = mode_ /\ lease = 0 /\ ready = None
    /\ ring_attempts_ = 0 /\ resend_config_ = FALSE
    /\ pcI = "closed" /\ connected_ = FALSE /\ pending_ = <<>> /\ sessions = 0 /\ haptics = 0
    /\ link = "none" /\ toHelper = <<>> /\ toShim = <<>>
    /\ pcH = "listen" /\ staging_ = None /\ staging_changed_ = FALSE /\ hpending = None /\ done_ = <<>>
    /\ pcE = "wait" /\ eFrame = None /\ eConfig = None /\ stage = None /\ encoder_ready_ = FALSE
    /\ active \in BOOLEAN
    /\ firstGen = 0 /\ firstId = 0 /\ restarts = 0
    /\ homeGen = [f \in Frame |-> 0] /\ homeSlot = [f \in Frame |-> 0]

-----------------------------------------------------------------------------
(* Shim, Present thread.                                                   *)

(* transport_frame_locked gives up at once without a helper session.       *)
Present(m) ==
    /\ pcP = "idle"
    /\ connected_
    /\ frame_id_ < MaxFrame
    /\ pcP' = "match"
    /\ reqMode' = m
    /\ UNCHANGED <<ringVars, lease, ready, ring_attempts_, ipcVars, resend_config_, pipeVars,
                   helperVars, processVars>>

(* The last disjunct is both "could not be created" and the bound on rings. *)
Match ==
    /\ pcP = "match"
    /\ \/ /\ matches(reqMode)
          /\ pcP' = "resend"
          /\ UNCHANGED ring_attempts_
       \/ /\ ~matches(reqMode)
          /\ ring_attempts_ < kMaxRingAttempts
          /\ generation_ < MaxGeneration
          /\ pcP' = "create"
          /\ ring_attempts_' = ring_attempts_ + 1
       \/ /\ ~matches(reqMode)
          /\ ring_attempts_ >= kMaxRingAttempts \/ generation_ = MaxGeneration
          /\ pcP' = "idle"
          /\ UNCHANGED ring_attempts_
    /\ UNCHANGED <<ringVars, reqMode, lease, ready, ipcVars, resend_config_, pipeVars, helperVars,
                   processVars>>

CreateRing ==
    /\ pcP = "create"
    /\ \/ create(reqMode) /\ ring_attempts_' = 0 /\ pcP' = "clear"
       \/ create_fails /\ UNCHANGED ring_attempts_ /\ pcP' = "idle"
    /\ UNCHANGED <<reqMode, lease, ready, ipcVars, resend_config_, pipeVars, helperVars, processVars>>

ClearResend ==
    /\ pcP = "clear"
    /\ resend_config_' = FALSE
    /\ pcP' = "config"
    /\ UNCHANGED <<ringVars, reqMode, lease, ready, ring_attempts_, ipcVars, pipeVars, helperVars,
                   processVars>>

ExchangeResend ==
    /\ pcP = "resend"
    /\ pcP' = IF resend_config_ THEN "config" ELSE "lease"
    /\ resend_config_' = FALSE
    /\ UNCHANGED <<ringVars, reqMode, lease, ready, ring_attempts_, ipcVars, pipeVars, helperVars,
                   processVars>>

(* queue_message looks at connected_ before it takes outgoing_mutex_.      *)
SendStagingConfig ==
    /\ pcP = "config"
    /\ pcP' = IF connected_ THEN "configPush" ELSE "lease"
    /\ UNCHANGED <<ringVars, reqMode, lease, ready, ring_attempts_, ipcVars, resend_config_,
                   pipeVars, helperVars, processVars>>

(* A StagingConfig is not evictable: a full queue loses its front instead. *)
PushNotEvictable(q, m) == IF Len(q) >= kMaxPendingMessages THEN Append(Tail(q), m) ELSE Append(q, m)

PushStagingConfig ==
    /\ pcP = "configPush"
    /\ pending_' = PushNotEvictable(pending_, StagingConfig(generation_))
    /\ pcP' = "lease"
    /\ UNCHANGED <<ringVars, reqMode, lease, ready, ring_attempts_, pcI, connected_, sessions,
                   haptics, resend_config_, pipeVars, helperVars, processVars>>

LeaseSlot ==
    /\ pcP = "lease"
    /\ \/ \E s \in Slot : acquire_slot(s) /\ lease' = s /\ pcP' = "copy"
       \/ ~CanAcquire /\ pcP' = "idle" /\ UNCHANGED <<ringVars, lease>>
    /\ UNCHANGED <<reqMode, ready, ring_attempts_, ipcVars, resend_config_, pipeVars, helperVars,
                   processVars>>

ReleaseToHelper ==
    /\ pcP = "copy"
    /\ release_to_helper(lease)
    /\ ready' = FrameReady(frame_id_ + 1, generation_, lease)
    /\ pcP' = "ready"
    /\ homeGen' = [homeGen EXCEPT ![frame_id_ + 1] = generation_]
    /\ homeSlot' = [homeSlot EXCEPT ![frame_id_ + 1] = lease]
    /\ UNCHANGED <<reqMode, lease, ring_attempts_, ipcVars, resend_config_, pipeVars, helperVars,
                   firstGen, firstId, restarts>>

QueueFrameReady ==
    /\ pcP = "ready"
    /\ pcP' = IF connected_ THEN "readyPush" ELSE "stale"
    /\ UNCHANGED <<ringVars, reqMode, lease, ready, ring_attempts_, ipcVars, resend_config_,
                   pipeVars, helperVars, processVars>>

(* Broken on purpose: a frame that finds the queue full is just dropped.   *)
PushFrameReady_Drops ==
    /\ pcP = "readyPush"
    /\ pending_' = IF Len(pending_) < kMaxPendingMessages THEN Append(pending_, ready) ELSE pending_
    /\ pcP' = "idle"
    /\ ready' = None
    /\ UNCHANGED <<ringVars, reqMode, lease, ring_attempts_, pcI, connected_, sessions, haptics,
                   resend_config_, pipeVars, helperVars, processVars>>

PushFrameReady ==
    /\ pcP = "readyPush"
    /\ \/ /\ Len(pending_) < kMaxPendingMessages
          /\ pending_' = Append(pending_, ready)
          /\ pcP' = "idle"
          /\ ready' = None
       \/ /\ Len(pending_) >= kMaxPendingMessages
          /\ pcP' = "stale"
          /\ UNCHANGED <<pending_, ready>>
    /\ UNCHANGED <<ringVars, reqMode, lease, ring_attempts_, pcI, connected_, sessions, haptics,
                   resend_config_, pipeVars, helperVars, processVars>>

(* "the ring has to be rebuilt rather than silently losing a slot"         *)
PresentMarksStale ==
    /\ pcP = "stale"
    /\ mark_stale
    /\ pcP' = "idle"
    /\ ready' = None
    /\ UNCHANGED <<reqMode, lease, ring_attempts_, ipcVars, resend_config_, pipeVars, helperVars,
                   processVars>>

PresentThread ==
    \/ Match
    \/ CreateRing
    \/ ClearResend
    \/ ExchangeResend
    \/ SendStagingConfig
    \/ PushStagingConfig
    \/ LeaseSlot
    \/ ReleaseToHelper
    \/ QueueFrameReady
    \/ PushFrameReady
    \/ PresentMarksStale

(* vrserver's RunFrame thread queues a pulse.                              *)
QueueHaptic ==
    /\ connected_
    /\ haptics < MaxHaptics
    /\ Len(pending_) < kMaxPendingMessages
    /\ pending_' = Append(pending_, Haptic)
    /\ haptics' = haptics + 1
    /\ UNCHANGED <<ringVars, presentVars, pcI, connected_, sessions, resend_config_, pipeVars,
                   helperVars, processVars>>

-----------------------------------------------------------------------------
(* Shim, IPC thread.                                                       *)

(* The pipe has one instance: it opens when the helper listens.            *)
OpenPipe ==
    /\ pcI = "closed"
    /\ link = "none"
    /\ pcH = "listen"
    /\ sessions < MaxSessions
    /\ sessions' = sessions + 1
    /\ link' = "open"
    /\ toHelper' = <<ShimHello>>
    /\ toShim' = <<>>
    /\ pcI' = "hello"
    /\ UNCHANGED <<ringVars, presentVars, connected_, pending_, haptics, resend_config_, helperVars,
                   processVars>>

(* flush_outgoing runs in every turn of the session loop, handshake or not. *)
FlushOutgoing ==
    /\ pcI \in {"hello", "up"}
    /\ link = "open"
    /\ pending_ # <<>>
    /\ toHelper' = Append(toHelper, Head(pending_))
    /\ pending_' = Tail(pending_)
    /\ UNCHANGED <<ringVars, presentVars, pcI, connected_, sessions, haptics, resend_config_, link,
                   toShim, helperVars, processVars>>

ReceiveConfig ==
    /\ pcI = "hello"
    /\ toShim # <<>>
    /\ Head(toShim) = HmdConfig
    /\ toShim' = Tail(toShim)
    /\ connected_' = TRUE
    /\ pcI' = "ready"
    /\ UNCHANGED <<ringVars, presentVars, pending_, sessions, haptics, resend_config_, link, toHelper,
                   helperVars, processVars>>

(* Broken on purpose: a new helper is not sent the handles of an old ring. *)
on_ipc_connected_NoResend ==
    /\ pcI = "ready"
    /\ pcI' = "up"
    /\ UNCHANGED <<ringVars, presentVars, connected_, pending_, sessions, haptics, resend_config_,
                   pipeVars, helperVars, processVars>>

on_ipc_connected ==
    /\ pcI = "ready"
    /\ resend_config_' = TRUE
    /\ pcI' = "up"
    /\ UNCHANGED <<ringVars, presentVars, connected_, pending_, sessions, haptics, pipeVars,
                   helperVars, processVars>>

(* The id on the wire is compared with the ids of this process.            *)
ReceiveFrameDone ==
    /\ pcI = "up"
    /\ toShim # <<>>
    /\ Head(toShim).type = "done"
    /\ on_frame_done(firstId + Head(toShim).frame_id, Head(toShim).staging_index)
    /\ toShim' = Tail(toShim)
    /\ UNCHANGED <<presentVars, ipcVars, resend_config_, link, toHelper, helperVars, processVars>>

(* A read or write error, a write that timed out, the handshake timeout.   *)
EndSession ==
    /\ pcI \in {"hello", "up"}
    /\ link' = IF link = "open" THEN "shimClosed" ELSE "none"
    /\ toShim' = <<>>
    /\ toHelper' = IF link = "open" THEN toHelper ELSE <<>>
    /\ pcI' = "ended"
    /\ UNCHANGED <<ringVars, presentVars, connected_, pending_, sessions, haptics, resend_config_,
                   helperVars, processVars>>

ClearConnected ==
    /\ pcI = "ended"
    /\ connected_' = FALSE
    /\ pcI' = "drop"
    /\ UNCHANGED <<ringVars, presentVars, pending_, sessions, haptics, resend_config_, pipeVars,
                   helperVars, processVars>>

DropPending ==
    /\ pcI = "drop"
    /\ pending_' = <<>>
    /\ pcI' = "unresend"
    /\ UNCHANGED <<ringVars, presentVars, connected_, sessions, haptics, resend_config_, pipeVars,
                   helperVars, processVars>>

(* on_ipc_disconnected: two shared objects, two steps.                     *)
DisconnectedResend ==
    /\ pcI = "unresend"
    /\ resend_config_' = FALSE
    /\ pcI' = "markStale"
    /\ UNCHANGED <<ringVars, presentVars, connected_, pending_, sessions, haptics, pipeVars,
                   helperVars, processVars>>

DisconnectedStale ==
    /\ pcI = "markStale"
    /\ mark_stale
    /\ pcI' = "closed"
    /\ UNCHANGED <<presentVars, connected_, pending_, sessions, haptics, resend_config_, pipeVars,
                   helperVars, processVars>>

IpcThread ==
    \/ FlushOutgoing
    \/ ReceiveConfig
    \/ on_ipc_connected
    \/ ReceiveFrameDone
    \/ ClearConnected
    \/ DropPending
    \/ DisconnectedResend
    \/ DisconnectedStale

-----------------------------------------------------------------------------
(* Helper, pipe thread.                                                    *)

Handshake ==
    /\ pcH = "listen"
    /\ toHelper # <<>>
    /\ Head(toHelper) = ShimHello
    /\ link = "open"
    /\ toHelper' = Tail(toHelper)
    /\ toShim' = <<HmdConfig>>
    /\ pcH' = "flush"
    /\ UNCHANGED <<ringVars, shimVars, link, intakeVars, encoderVars, active, processVars>>

(* A full queue loses its oldest answer.                                   *)
push_done(q, m) == Append(IF Len(q) >= kMaxDone THEN Tail(q) ELSE q, FrameDone(m))

FlushFrameDone ==
    /\ pcH = "flush"
    /\ \/ /\ done_ # <<>>
          /\ link = "open"
          /\ toShim' = Append(toShim, Head(done_))
          /\ done_' = Tail(done_)
          /\ UNCHANGED pcH
       \/ /\ done_ = <<>>
          /\ pcH' = "read"
          /\ UNCHANGED <<toShim, done_>>
    /\ UNCHANGED <<ringVars, shimVars, link, toHelper, staging_, staging_changed_, hpending,
                   encoderVars, active, processVars>>

(* wait_for_message times out with nothing to read; the loop goes round.   *)
ReadTimeout ==
    /\ pcH = "read"
    /\ toHelper = <<>>
    /\ pcH' = "flush"
    /\ UNCHANGED <<ringVars, shimVars, pipeVars, intakeVars, encoderVars, active, processVars>>

on_staging_config ==
    /\ pcH = "read"
    /\ toHelper # <<>>
    /\ Head(toHelper).type = "config"
    /\ LET config == Head(toHelper)
           replaced == hpending # None /\ hpending.generation # config.generation
       IN /\ done_' = IF replaced THEN push_done(done_, hpending) ELSE done_
          /\ hpending' = IF replaced THEN None ELSE hpending
          /\ staging_' = config
    /\ staging_changed_' = TRUE
    /\ toHelper' = Tail(toHelper)
    /\ pcH' = "flush"
    /\ UNCHANGED <<ringVars, shimVars, link, toShim, encoderVars, active, processVars>>

(* Nothing to encode it from, or nobody to encode it for.                  *)
Refused(frame) == ~(staging_ # None /\ frame.generation = staging_.generation /\ active)

on_frame_ready ==
    /\ pcH = "read"
    /\ toHelper # <<>>
    /\ Head(toHelper).type = "frame"
    /\ LET frame == Head(toHelper)
       IN \/ /\ Refused(frame)
             /\ done_' = push_done(done_, frame)
             /\ UNCHANGED hpending
          \/ /\ ~Refused(frame)
             /\ done_' = IF hpending # None THEN push_done(done_, hpending) ELSE done_
             /\ hpending' = frame
    /\ toHelper' = Tail(toHelper)
    /\ pcH' = "flush"
    /\ UNCHANGED <<ringVars, shimVars, link, toShim, staging_, staging_changed_, encoderVars, active,
                   processVars>>

HandleHaptic ==
    /\ pcH = "read"
    /\ toHelper # <<>>
    /\ Head(toHelper) = Haptic
    /\ toHelper' = Tail(toHelper)
    /\ pcH' = "flush"
    /\ UNCHANGED <<ringVars, shimVars, link, toShim, intakeVars, encoderVars, active, processVars>>

(* A closed pipe is noticed by a failed read or write; a write to a shim   *)
(* that does not read gives up as well.                                    *)
DisconnectClient ==
    /\ \/ pcH \in {"flush", "read"} /\ link \in {"open", "shimClosed"}
       \/ pcH = "listen" /\ link = "shimClosed"
    /\ link' = IF link = "open" THEN "helperClosed" ELSE "none"
    /\ toHelper' = <<>>
    /\ toShim' = <<>>
    /\ pcH' = "gone"
    /\ UNCHANGED <<ringVars, shimVars, intakeVars, encoderVars, active, processVars>>

on_shim_gone ==
    /\ pcH = "gone"
    /\ staging_' = None
    /\ staging_changed_' = TRUE
    /\ hpending' = None
    /\ done_' = <<>>
    /\ pcH' = "listen"
    /\ UNCHANGED <<ringVars, shimVars, pipeVars, encoderVars, active, processVars>>

PipeThread ==
    \/ Handshake
    \/ FlushFrameDone
    \/ ReadTimeout
    \/ on_staging_config
    \/ on_frame_ready
    \/ HandleHaptic
    \/ on_shim_gone

-----------------------------------------------------------------------------
(* Helper, encoder thread.                                                 *)

(* The end of the critical section in VideoIntake::run.                    *)
TakePending ==
    /\ eFrame' = hpending
    /\ hpending' = None
    /\ pcE' = IF hpending = None THEN "wait" ELSE "popped"

Wake ==
    /\ pcE = "wait"
    /\ staging_changed_ \/ hpending # None
    /\ staging_changed_' = FALSE
    /\ \/ /\ staging_changed_ /\ encoder_ready_
          /\ pcE' = "shutdown"
          /\ UNCHANGED <<eFrame, hpending>>
       \/ /\ ~(staging_changed_ /\ encoder_ready_)
          /\ TakePending
    /\ UNCHANGED <<ringVars, shimVars, pipeVars, pcH, staging_, done_, eConfig, stage,
                   encoder_ready_, active, processVars>>

(* Without the lock: another config or another shim may come in meanwhile. *)
Shutdown ==
    /\ pcE = "shutdown"
    /\ stage' = None
    /\ encoder_ready_' = FALSE
    /\ TakePending
    /\ UNCHANGED <<ringVars, shimVars, pipeVars, pcH, staging_, staging_changed_, done_, eConfig,
                   active, processVars>>

(* Broken on purpose: the frame is dropped without a FrameDone.            *)
AnswerFrame_Silent ==
    /\ eFrame' = None
    /\ pcE' = "wait"
    /\ UNCHANGED done_

(* Every way out of encode_one answers the frame.                          *)
AnswerFrame ==
    /\ done_' = push_done(done_, eFrame)
    /\ eFrame' = None
    /\ pcE' = "wait"

ReadStaging ==
    /\ pcE = "popped"
    /\ \/ staging_ = None /\ AnswerFrame /\ UNCHANGED eConfig
       \/ staging_ # None /\ eConfig' = staging_ /\ pcE' = "request" /\ UNCHANGED <<done_, eFrame>>
    /\ UNCHANGED <<ringVars, shimVars, pipeVars, pcH, staging_, staging_changed_, hpending, stage,
                   encoder_ready_, active, processVars>>

(* DuplicateHandle needs the ring the handles belong to.                   *)
Openable(config) == built /\ config.ring = generation_

(* ensure_encoder: the encoder is kept if it was built for this ring (and  *)
(* this client: a client's new settings rebuild it at any time).           *)
EnsureEncoder ==
    /\ pcE = "request"
    /\ \/ /\ ~active
          /\ AnswerFrame
          /\ UNCHANGED <<stage, encoder_ready_>>
       \/ /\ active
          /\ encoder_ready_ /\ stage.generation = eConfig.generation
          /\ pcE' = "encode"
          /\ UNCHANGED <<done_, eFrame, stage, encoder_ready_>>
       \/ /\ active
          /\ Openable(eConfig)
          /\ stage' = eConfig
          /\ encoder_ready_' = TRUE
          /\ pcE' = "encode"
          /\ UNCHANGED <<done_, eFrame>>
       \/ /\ active
          /\ stage' = None
          /\ encoder_ready_' = FALSE
          /\ AnswerFrame
    /\ UNCHANGED <<ringVars, shimVars, pipeVars, pcH, staging_, staging_changed_, hpending, eConfig,
                   active, processVars>>

(* Broken on purpose: the frame's generation is not compared with the      *)
(* ring's, as if index and key were enough.                                *)
AcquireStage_AnyRing ==
    /\ pcE = "encode"
    /\ LET usable == StageCanAcquire(stage.ring, eFrame.staging_index)
       IN \/ /\ usable
             /\ stage_acquire(stage.ring, eFrame.staging_index)
             /\ pcE' = "copying"
             /\ UNCHANGED <<done_, eFrame>>
          \/ ~usable /\ AnswerFrame /\ UNCHANGED ringVars
    /\ UNCHANGED <<shimVars, pipeVars, pcH, staging_, staging_changed_, hpending, eConfig, stage,
                   encoder_ready_, active, processVars>>

AcquireStage ==
    /\ pcE = "encode"
    /\ LET usable == eFrame.generation = stage.generation
                       /\ StageCanAcquire(stage.ring, eFrame.staging_index)
       IN \/ /\ usable
             /\ stage_acquire(stage.ring, eFrame.staging_index)
             /\ pcE' = "copying"
             /\ UNCHANGED <<done_, eFrame>>
          \/ ~usable /\ AnswerFrame /\ UNCHANGED ringVars
    /\ UNCHANGED <<shimVars, pipeVars, pcH, staging_, staging_changed_, hpending, eConfig, stage,
                   encoder_ready_, active, processVars>>

ReleaseStage ==
    /\ pcE = "copying"
    /\ stage_release(stage.ring, eFrame.staging_index)
    /\ pcE' = "finish"
    /\ UNCHANGED <<shimVars, pipeVars, pcH, intakeVars, eFrame, eConfig, stage, encoder_ready_,
                   active, processVars>>

(* Encoded or dropped; a fatal error also tears the encoder down.          *)
Finish ==
    /\ pcE = "finish"
    /\ AnswerFrame
    /\ \/ UNCHANGED <<stage, encoder_ready_>>
       \/ stage' = None /\ encoder_ready_' = FALSE
    /\ UNCHANGED <<ringVars, shimVars, pipeVars, pcH, staging_, staging_changed_, hpending, eConfig,
                   active, processVars>>

EncoderThread ==
    \/ Wake
    \/ Shutdown
    \/ ReadStaging
    \/ EnsureEncoder
    \/ AcquireStage
    \/ ReleaseStage
    \/ Finish

-----------------------------------------------------------------------------
(* What happens around the threads.                                        *)

(* The headset connects, disconnects or changes its mind about video.      *)
ClientToggle ==
    /\ active' = ~active
    /\ UNCHANGED <<ringVars, shimVars, pipeVars, pcH, intakeVars, encoderVars, processVars>>

(* A process that dies abandons the mutexes it holds; its end of the pipe  *)
(* is closed by the system.                                                *)
Abandon(who) ==
    keyed' = [g \in Generation |-> [s \in Slot |->
                IF keyed[g][s] = who THEN "abandoned" ELSE keyed[g][s]]]

HelperCrash ==
    /\ Abandon("helper")
    /\ link' = CASE link = "open" -> "helperClosed" [] link = "shimClosed" -> "none" [] OTHER -> link
    /\ toHelper' = <<>> /\ toShim' = <<>>
    /\ pcH' = "listen" /\ staging_' = None /\ staging_changed_' = FALSE /\ hpending' = None
    /\ done_' = <<>>
    /\ pcE' = "wait" /\ eFrame' = None /\ eConfig' = None /\ stage' = None
    /\ encoder_ready_' = FALSE
    /\ active' = FALSE
    /\ UNCHANGED <<generation_, built, mode_, stale_, next_, slots_, frame_id_, pixels, shimVars,
                   processVars>>

(* vrserver dies and is started again: the driver starts from nothing.     *)
VrserverRestart ==
    /\ restarts < MaxRestarts
    /\ restarts' = restarts + 1
    /\ Abandon("shim")
    /\ built' = FALSE /\ stale_' = FALSE /\ next_' = 0 /\ slots_' = [s \in Slot |-> FreeSlot]
    /\ firstGen' = generation_ /\ firstId' = frame_id_
    /\ pcP' = "idle" /\ lease' = 0 /\ ready' = None /\ ring_attempts_' = 0 /\ resend_config_' = FALSE
    /\ pcI' = "closed" /\ connected_' = FALSE /\ pending_' = <<>>
    /\ link' = CASE link = "open" -> "shimClosed" [] link = "helperClosed" -> "none" [] OTHER -> link
    /\ toShim' = <<>>
    /\ UNCHANGED <<generation_, mode_, frame_id_, pixels, reqMode, sessions, haptics, toHelper,
                   helperVars, homeGen, homeSlot>>

Next ==
    \/ \E m \in Modes : Present(m)
    \/ PresentThread
    \/ QueueHaptic
    \/ OpenPipe
    \/ IpcThread
    \/ EndSession
    \/ PipeThread
    \/ DisconnectClient
    \/ EncoderThread
    \/ ClientToggle
    \/ HelperCrash
    \/ VrserverRestart

Spec == Init /\ [][Next]_vars

(* Every thread goes on as long as it has something to do, and a pipe      *)
(* closed at one end fails the next read at the other.  Nothing is assumed *)
(* of the compositor, of the headset or of a crash.                        *)
FairSpec ==
    /\ Spec
    /\ WF_vars(PresentThread)
    /\ WF_vars(IpcThread)
    /\ WF_vars(link = "helperClosed" /\ EndSession)
    /\ WF_vars(PipeThread)
    /\ WF_vars(link = "shimClosed" /\ DisconnectClient)
    /\ WF_vars(EncoderThread)

-----------------------------------------------------------------------------
Carries(q) == {q[i].frame : i \in {j \in DOMAIN q : q[j].type \in {"frame", "done"}}}
FrameOf(m) == IF m = None THEN {} ELSE {m.frame}

(* The frames for which a FrameDone is still to come.                      *)
Accounted ==
    UNION {FrameOf(ready), Carries(pending_), Carries(toHelper), FrameOf(hpending), FrameOf(eFrame),
           Carries(done_), Carries(toShim)}

(* Frames whose slots wait for a FrameDone, in a ring that is not to be    *)
(* rebuilt and while a session is up, that nothing is on its way for: the  *)
(* slots are lost.                                                         *)
InUse == built /\ ~stale_ /\ link = "open" /\ pcI \in {"hello", "ready", "up"}
OwnedFrames == {slots_[s].frame_id : s \in {t \in Slot : slots_[t].helper_owned}}
Lost == IF InUse THEN OwnedFrames \ Accounted ELSE {}

(* What a step pushes out of a full queue: the FrameReady that makes room  *)
(* for a StagingConfig, or the oldest FrameDone.                           *)
PushedOut ==
    (IF PushStagingConfig /\ Len(pending_) >= kMaxPendingMessages
       THEN Carries(<<Head(pending_)>>) ELSE {})
    \cup (IF Len(done_) = kMaxDone /\ Len(done_') = kMaxDone THEN Carries(<<Head(done_)>>) ELSE {})

(* direct_mode.cpp:852-855: a frame that cannot be announced marks the     *)
(* ring stale "rather than silently losing a slot", a full queue included. *)
(* A session that ends, a crash of the helper and a frame that the helper  *)
(* refuses or replaces lose no slot either: only a message that            *)
(* queue_message or push_done pushes out of a full queue does, and then    *)
(* only its own.                                                           *)
NoLostSlot == [][Lost' \subseteq Lost \cup PushedOut]_vars

(* The StagingConfig the helper has or will have last: queued, on its way  *)
(* or already taken in.                                                    *)
HasConfig(q) == \E i \in DOMAIN q : q[i].type = "config"
LastConfigIs(q, g) ==
    \E i \in DOMAIN q : /\ q[i].type = "config" /\ q[i].ring = g
                        /\ \A j \in DOMAIN q : j > i => q[j].type # "config"
LatestConfigIs(g) ==
    IF HasConfig(pending_) THEN LastConfigIs(pending_, g)
    ELSE IF HasConfig(toHelper) THEN LastConfigIs(toHelper, g)
    ELSE staging_ # None /\ staging_.ring = g

(* The helper is never left without the handles of the current ring: once  *)
(* a session is up, either the last StagingConfig it has or will have is   *)
(* that of the current ring or the Present thread still has to send one    *)
(* (ipc_client.cpp:120: "the one thing the helper cannot recover from      *)
(* missing").                                                              *)
ConfigNotLost ==
    (built /\ ~stale_ /\ link = "open" /\ pcI = "up" /\ pcP \notin {"clear", "config", "configPush"})
      => resend_config_ \/ LatestConfigIs(generation_)

(* What the encoder copies out of a staging texture for a frame is what    *)
(* the shim blitted for that frame.                                        *)
EncodesItsFrame ==
    pcE = "copying" => pixels[stage.ring][eFrame.staging_index] = eFrame.frame

(* frame_staging.cpp:371-373: "an id match is also a generation match: a   *)
(* FrameDone for a ring we have already thrown away can never collide with *)
(* a lease of the current one".                                            *)
DoneNeverCollides ==
    \A i \in DOMAIN toShim :
      (toShim[i].type = "done" /\ DoneMatches(firstId + toShim[i].frame_id, toShim[i].staging_index))
        => toShim[i].ring = generation_

(* ipc_client.cpp:219-221: "Anything queued against the dead session must  *)
(* not leak into the next one".                                            *)
NoLeak == pcI = "hello" => pending_ = <<>>

(* A slot the helper holds comes back, or its ring is given up: whatever   *)
(* session, client or process goes away meanwhile.                         *)
SlotReturns ==
    \A s \in Slot : slots_[s].helper_owned ~> (~slots_[s].helper_owned \/ stale_ \/ ~built)
=============================================================================
