----------------------------- MODULE VideoStream -----------------------------
(***************************************************************************)
(* Encoded video from the encoder thread to the headset, and key frame     *)
(* recovery: VideoBridge, the request handling of VideoIntake, the video   *)
(* half of Session, and IdrTracker.                                        *)
(*                                                                         *)
(*   encoder thread   Snapshot, EnsureEncoder, Encode, StagingChanged      *)
(*   session thread   the loop of Session::run: receive, poll, describe,   *)
(*                    take, send                                           *)
(*   headset          external: decodes what it can, reports every frame   *)
(*                                                                         *)
(* The encoder never makes a key frame of its own (infinite GOP): every    *)
(* one in a session is a request that went through VideoBridge.            *)
(***************************************************************************)
EXTENDS Naturals, Sequences

CONSTANTS
    Infos,            \* resolution/codec combinations an encoder can produce
    kMaxQueued,       \* bound of VideoBridge::frames_, in eye-frames
    kMaxVideoQueued,  \* bound of Session::video_queue_, in eye-frames
    MaxFrame,         \* bound: frames handed to the encoder
    MaxClients,       \* bound: sessions and changes of their settings
    MaxRebuilds,      \* bound: staging rings replaced under the encoder
    LoseIdr           \* may sending a key frame fail?

ASSUME VideoAssumption ==
    /\ kMaxQueued \in Nat /\ kMaxVideoQueued \in Nat
    /\ MaxFrame \in Nat /\ MaxClients \in Nat /\ MaxRebuilds \in Nat
    /\ LoseIdr \in BOOLEAN

Eye == 0 .. 1
FrameId == 0 .. MaxFrame

VARIABLES
    (* VideoBridge *)
    active, config_generation, idr_generation, frames_, stream_,
    (* VideoIntake, encoder thread *)
    pcV, request, frame_id, encoder_ready_, encoder_config_generation_, idr_seen_,
    reference,     \* the picture the next P frame of each eye's encoder refers to
    (* Session *)
    pcS, video_queue_, sending, description_, stream_generation_,
    (* IdrTracker *)
    state_, idr_id_, first_p_, pending_,
    floor,         \* min_recovery_interval has not passed since the last request
    (* headset *)
    got,           \* the last frame of each stream that reached the headset
    shown,         \* the last one that it could decode
    feedback,      \* reports on their way to the session
    clients, rebuilds

bridgeVars == <<active, config_generation, idr_generation, frames_, stream_>>
requestVars == <<config_generation, idr_generation>>
encoderVars == <<pcV, request, frame_id, encoder_ready_, encoder_config_generation_, idr_seen_, reference>>
queueVars == <<video_queue_, sending>>
descriptionVars == <<description_, stream_generation_>>
trackerVars == <<state_, idr_id_, first_p_, pending_, floor>>
headsetVars == <<got, shown, feedback>>
boundVars == <<clients, rebuilds>>
vars == <<bridgeVars, encoderVars, pcS, queueVars, descriptionVars, trackerVars, headsetVars, boundVars>>

EncodedFrame == [frame_id : FrameId, eye : Eye, idr : BOOLEAN, ref : FrameId, info : Infos]

TypeOK ==
    /\ active \in BOOLEAN
    /\ config_generation \in Nat /\ idr_generation \in Nat
    /\ frames_ \in Seq(EncodedFrame) /\ Len(frames_) <= kMaxQueued
    /\ stream_ \in [info : Infos, valid : BOOLEAN, generation : Nat]
    /\ pcV \in {"idle", "ensure", "encode"}
    /\ request \in [config_generation : Nat, idr_generation : Nat]
    /\ frame_id \in FrameId
    /\ encoder_ready_ \in BOOLEAN /\ encoder_config_generation_ \in Nat /\ idr_seen_ \in Nat
    /\ reference \in [Eye -> FrameId]
    /\ pcS \in {"none", "receive", "describe", "take", "send"}
    /\ video_queue_ \in Seq(EncodedFrame) /\ Len(video_queue_) <= kMaxVideoQueued
    /\ sending \in BOOLEAN
    /\ description_ \in Infos /\ stream_generation_ \in Nat
    /\ state_ \in {"need_idr", "wait_idr_feedback", "idr_received", "running"}
    /\ idr_id_ \in FrameId /\ first_p_ \in FrameId /\ pending_ \in BOOLEAN /\ floor \in BOOLEAN
    /\ got \in [Eye -> FrameId] /\ shown \in [Eye -> FrameId]
    /\ feedback \in Seq([frame_index : FrameId, sent_to_decoder : BOOLEAN])
    /\ clients \in 0 .. MaxClients /\ rebuilds \in 0 .. MaxRebuilds

Init ==
    /\ active = FALSE /\ config_generation = 0 /\ idr_generation = 0 /\ frames_ = <<>>
    /\ stream_ \in [info : Infos, valid : {FALSE}, generation : {0}]
    /\ pcV = "idle" /\ request = [config_generation |-> 0, idr_generation |-> 0] /\ frame_id = 0
    /\ encoder_ready_ = FALSE /\ encoder_config_generation_ = 0 /\ idr_seen_ = 0 /\ reference = [e \in Eye |-> 0]
    /\ pcS = "none" /\ video_queue_ = <<>> /\ sending = FALSE
    /\ description_ = stream_.info /\ stream_generation_ = 0
    /\ state_ = "need_idr" /\ idr_id_ = 0 /\ first_p_ = 0 /\ pending_ = FALSE /\ floor = FALSE
    /\ got = [e \in Eye |-> 0] /\ shown = [e \in Eye |-> 0] /\ feedback = <<>>
    /\ clients = 0 /\ rebuilds = 0

-----------------------------------------------------------------------------
(* VideoBridge.                                                            *)

(* Another client, or the same one with other settings: the encoder is to  *)
(* be rebuilt and its first frame to be a key frame.                       *)
set_client ==
    /\ active' = TRUE
    /\ config_generation' = config_generation + 1
    /\ idr_generation' = idr_generation + 1
    /\ UNCHANGED <<frames_, stream_>>

clear_client ==
    /\ active' = FALSE
    /\ frames_' = <<>>
    /\ UNCHANGED <<requestVars, stream_>>

request_idr ==
    /\ idr_generation' = idr_generation + 1
    /\ UNCHANGED <<active, config_generation, frames_, stream_>>

publish_stream(info, valid) ==
    stream_' = IF stream_.info = info /\ stream_.valid = valid THEN stream_
               ELSE [info |-> info, valid |-> valid, generation |-> stream_.generation + 1]

(* q without its oldest frames, both eyes of each, from position first + 1 *)
(* on, until at most max eye-frames are left.                              *)
DropOldest(q, first, max) ==
    LET boundary(k) == k = 0 \/ first + k >= Len(q)
                         \/ q[first + k].frame_id # q[first + k + 1].frame_id
        enough(k) == Len(q) - k <= max \/ first + k >= Len(q)
        k == CHOOSE n \in 0 .. Len(q) :
               /\ boundary(n) /\ enough(n)
               /\ \A i \in 0 .. n - 1 : ~(boundary(i) /\ enough(i))
    IN SubSeq(q, 1, first) \o SubSeq(q, first + k + 1, Len(q))

push_frames(encoded) ==
    /\ frames_' = IF active THEN DropOldest(frames_ \o encoded, 0, kMaxQueued) ELSE frames_
    /\ UNCHANGED <<active, requestVars>>

-----------------------------------------------------------------------------
(* VideoIntake, encoder thread.                                            *)

(* A frame comes in; without a client it goes back at once.                *)
Snapshot ==
    /\ pcV = "idle"
    /\ active
    /\ frame_id < MaxFrame
    /\ frame_id' = frame_id + 1
    /\ request' = [config_generation |-> config_generation, idr_generation |-> idr_generation]
    /\ pcV' = "ensure"
    /\ UNCHANGED <<bridgeVars, encoder_ready_, encoder_config_generation_, idr_seen_, reference, pcS,
                   queueVars, descriptionVars, trackerVars, headsetVars, boundVars>>

(* Keep the encoder, build another one, or fail to.                        *)
ensure_encoder ==
    /\ pcV = "ensure"
    /\ LET current == encoder_ready_ /\ encoder_config_generation_ = request.config_generation
       IN \/ /\ current
             /\ pcV' = "encode"
             /\ UNCHANGED <<stream_, encoder_ready_, idr_seen_>>
          \/ /\ ~current
             /\ \E info \in Infos : publish_stream(info, TRUE)
             /\ encoder_ready_' = TRUE
             /\ idr_seen_' = 0
             /\ pcV' = "encode"
          \/ /\ ~current
             /\ IF encoder_ready_ THEN publish_stream(stream_.info, FALSE) ELSE UNCHANGED stream_
             /\ encoder_ready_' = FALSE
             /\ pcV' = "idle"
             /\ UNCHANGED idr_seen_
    /\ encoder_config_generation_' = request.config_generation
    /\ UNCHANGED <<active, requestVars, frames_, request, frame_id, reference, pcS, queueVars,
                   descriptionVars, trackerVars, headsetVars, boundVars>>

force_idr == request.idr_generation # idr_seen_

Encoded(e) == [frame_id |-> frame_id, eye |-> e, idr |-> force_idr,
               ref |-> IF force_idr THEN 0 ELSE reference[e], info |-> stream_.info]

(* Broken on purpose: idr_seen_ is read from the bridge after the encode.  *)
EncodeOk_SeesLater ==
    /\ pcV = "encode"
    /\ push_frames(<<Encoded(0), Encoded(1)>>)
    /\ idr_seen_' = idr_generation
    /\ reference' = [e \in Eye |-> frame_id]
    /\ pcV' = "idle"
    /\ UNCHANGED <<stream_, request, frame_id, encoder_ready_, encoder_config_generation_, pcS,
                   queueVars, descriptionVars, trackerVars, headsetVars, boundVars>>

EncodeOk ==
    /\ pcV = "encode"
    /\ push_frames(<<Encoded(0), Encoded(1)>>)
    /\ idr_seen_' = request.idr_generation
    /\ reference' = [e \in Eye |-> frame_id]
    /\ pcV' = "idle"
    /\ UNCHANGED <<stream_, request, frame_id, encoder_ready_, encoder_config_generation_, pcS,
                   queueVars, descriptionVars, trackerVars, headsetVars, boundVars>>

(* A frame without output.  The two eyes have an encoder each and both are *)
(* given the frame before either is asked for its picture: when one eye    *)
(* has none the pair is dropped, but the encoders in moved have gone on to *)
(* it and refer to it next.  A fatal error also closes the encoder.        *)
EncodeFails ==
    /\ pcV = "encode"
    /\ \/ UNCHANGED <<stream_, encoder_ready_>>
       \/ publish_stream(stream_.info, FALSE) /\ encoder_ready_' = FALSE
    /\ \E moved \in SUBSET Eye :
          reference' = [e \in Eye |-> IF e \in moved THEN frame_id ELSE reference[e]]
    /\ pcV' = "idle"
    /\ UNCHANGED <<active, requestVars, frames_, request, frame_id, encoder_config_generation_,
                   idr_seen_, pcS, queueVars, descriptionVars, trackerVars, headsetVars, boundVars>>

(* VideoIntake::run on staging_changed_: the ring under the encoder is     *)
(* gone.                                                                   *)
StagingChanged ==
    /\ pcV = "idle"
    /\ encoder_ready_
    /\ rebuilds < MaxRebuilds
    /\ rebuilds' = rebuilds + 1
    /\ publish_stream(stream_.info, FALSE)
    /\ encoder_ready_' = FALSE
    /\ UNCHANGED <<active, requestVars, frames_, pcV, request, frame_id, encoder_config_generation_,
                   idr_seen_, reference, pcS, queueVars, descriptionVars, trackerVars, headsetVars,
                   clients>>

-----------------------------------------------------------------------------
(* IdrTracker.                                                             *)

reset ==
    /\ state_' = "need_idr"
    /\ idr_id_' = 0
    /\ first_p_' = 0
    /\ pending_' = FALSE
    /\ floor' = FALSE

on_frame_sent(frame_index, idr) ==
    /\ state_' = IF idr THEN "wait_idr_feedback"
                 ELSE IF state_ = "idr_received" THEN "running" ELSE state_
    /\ idr_id_' = IF idr THEN frame_index ELSE idr_id_
    /\ first_p_' = IF ~idr /\ state_ = "idr_received" THEN frame_index ELSE first_p_
    /\ pending_' = (pending_ /\ ~idr)
    /\ UNCHANGED floor

(* The report is of a loss that this state acts on.                        *)
NeedsIdr(f) ==
    \/ state_ = "wait_idr_feedback" /\ f.frame_index = idr_id_ /\ ~f.sent_to_decoder
    \/ state_ = "running" /\ f.frame_index >= first_p_ /\ ~f.sent_to_decoder

(* A request inside the floor is held back for poll.                       *)
on_feedback(f) ==
    /\ state_' = IF NeedsIdr(f) THEN "need_idr"
                 ELSE IF state_ = "wait_idr_feedback" /\ f.frame_index = idr_id_ THEN "idr_received"
                 ELSE state_
    /\ pending_' = IF NeedsIdr(f) THEN floor ELSE pending_
    /\ floor' = (floor \/ NeedsIdr(f))
    /\ IF NeedsIdr(f) /\ ~floor THEN request_idr ELSE UNCHANGED bridgeVars
    /\ UNCHANGED <<idr_id_, first_p_>>

FloorExpires ==
    /\ floor
    /\ floor' = FALSE
    /\ UNCHANGED <<bridgeVars, encoderVars, pcS, queueVars, descriptionVars, state_, idr_id_, first_p_,
                   pending_, headsetVars, boundVars>>

-----------------------------------------------------------------------------
(* Session, one thread.                                                    *)

(* Handshake, headset info and the provisional stream description.         *)
SessionStart ==
    /\ pcS = "none"
    /\ clients < MaxClients
    /\ clients' = clients + 1
    /\ set_client
    /\ reset
    /\ description_' \in Infos
    /\ stream_generation_' = 0
    /\ video_queue_' = <<>>
    /\ sending' = FALSE
    /\ got' = [e \in Eye |-> 0] /\ shown' = [e \in Eye |-> 0] /\ feedback' = <<>>
    /\ pcS' = "receive"
    /\ UNCHANGED <<encoderVars, rebuilds>>

SessionEnd ==
    /\ pcS = "receive"
    /\ clear_client
    /\ pcS' = "none"
    /\ UNCHANGED <<encoderVars, queueVars, descriptionVars, trackerVars, headsetVars, boundVars>>

(* refresh_rate_changed, settings_changed, another headset_info_packet.    *)
SettingsChanged ==
    /\ pcS = "receive"
    /\ clients < MaxClients
    /\ clients' = clients + 1
    /\ set_client
    /\ UNCHANGED <<encoderVars, pcS, queueVars, descriptionVars, trackerVars, headsetVars, rebuilds>>

ReceiveFeedback ==
    /\ pcS = "receive"
    /\ feedback # <<>>
    /\ on_feedback(Head(feedback))
    /\ feedback' = Tail(feedback)
    /\ UNCHANGED <<encoderVars, pcS, queueVars, descriptionVars, got, shown, boundVars>>

poll ==
    /\ pcS = "receive"
    /\ \/ /\ pending_ /\ ~floor
          /\ pending_' = FALSE
          /\ floor' = TRUE
          /\ request_idr
       \/ /\ ~(pending_ /\ ~floor)
          /\ UNCHANGED <<bridgeVars, pending_, floor>>
    /\ pcS' = "describe"
    /\ UNCHANGED <<encoderVars, queueVars, descriptionVars, state_, idr_id_, first_p_, headsetVars, boundVars>>

(* Broken on purpose: the new decoders are not given a key frame.          *)
update_stream_description_NoIdr ==
    /\ pcS = "describe"
    /\ stream_generation_' = stream_.generation
    /\ \/ /\ stream_.generation # stream_generation_ /\ stream_.valid /\ stream_.info # description_
          /\ description_' = stream_.info
          /\ shown' = [e \in Eye |-> 0]
          /\ reset
       \/ /\ ~(stream_.generation # stream_generation_ /\ stream_.valid /\ stream_.info # description_)
          /\ UNCHANGED <<trackerVars, description_, shown>>
    /\ pcS' = "take"
    /\ UNCHANGED <<bridgeVars, encoderVars, queueVars, got, feedback, boundVars>>

(* Another stream means other decoders on the headset, which have decoded  *)
(* nothing yet.                                                            *)
update_stream_description ==
    /\ pcS = "describe"
    /\ stream_generation_' = stream_.generation
    /\ \/ /\ stream_.generation # stream_generation_ /\ stream_.valid /\ stream_.info # description_
          /\ description_' = stream_.info
          /\ shown' = [e \in Eye |-> 0]
          /\ request_idr
          /\ reset
       \/ /\ ~(stream_.generation # stream_generation_ /\ stream_.valid /\ stream_.info # description_)
          /\ UNCHANGED <<bridgeVars, trackerVars, description_, shown>>
    /\ pcS' = "take"
    /\ UNCHANGED <<encoderVars, queueVars, got, feedback, boundVars>>

(* Broken on purpose: new frames are put before the ones still to be sent. *)
take_frames_Swapped ==
    /\ pcS = "take"
    /\ video_queue_' = IF frames_ = <<>> THEN video_queue_
                       ELSE DropOldest(frames_ \o video_queue_, IF sending THEN 1 ELSE 0, kMaxVideoQueued)
    /\ frames_' = <<>>
    /\ pcS' = "send"
    /\ UNCHANGED <<active, requestVars, stream_, encoderVars, sending, descriptionVars, trackerVars,
                   headsetVars, boundVars>>

(* The start of pump_video: never the eye-frame the sender is working on.  *)
take_frames ==
    /\ pcS = "take"
    /\ video_queue_' = IF frames_ = <<>> THEN video_queue_
                       ELSE DropOldest(video_queue_ \o frames_, IF sending THEN 1 ELSE 0, kMaxVideoQueued)
    /\ frames_' = <<>>
    /\ pcS' = "send"
    /\ UNCHANGED <<active, requestVars, stream_, encoderVars, sending, descriptionVars, trackerVars,
                   headsetVars, boundVars>>

begin_video_frame ==
    /\ pcS = "send"
    /\ ~sending
    /\ video_queue_ # <<>>
    /\ sending' = TRUE
    /\ UNCHANGED <<bridgeVars, encoderVars, pcS, video_queue_, descriptionVars, trackerVars, headsetVars,
                   boundVars>>

(* Nothing left to send, or the next burst of a P frame is not due yet.    *)
PumpReturns ==
    /\ pcS = "send"
    /\ IF sending THEN ~Head(video_queue_).idr ELSE video_queue_ = <<>>
    /\ pcS' = "receive"
    /\ UNCHANGED <<bridgeVars, encoderVars, queueVars, descriptionVars, trackerVars, headsetVars, boundVars>>

(* The headset.  It reports the frame that came in, and the ones it missed *)
(* when the index jumps.  A report that a P frame arrived changes nothing  *)
(* in IdrTracker and is left out.                                          *)
Missed(frame) ==
    LET last == got[frame.eye]
    IN [i \in 1 .. (IF last = 0 THEN 0 ELSE frame.frame_id - last - 1) |->
          [frame_index |-> last + i, sent_to_decoder |-> FALSE]]

Report(frame, ok) ==
    Missed(frame)
    \o (IF frame.idr \/ ~ok
          THEN <<[frame_index |-> frame.frame_id, sent_to_decoder |-> ok]>> ELSE <<>>)

Decodable(frame) ==
    /\ frame.info = description_
    /\ frame.idr \/ (frame.ref # 0 /\ frame.ref = shown[frame.eye])

HeadsetGets(frame, ok) ==
    /\ got' = [got EXCEPT ![frame.eye] = frame.frame_id]
    /\ shown' = IF ok /\ Decodable(frame) THEN [shown EXCEPT ![frame.eye] = frame.frame_id] ELSE shown
    /\ feedback' = feedback \o Report(frame, ok)

(* A key frame goes over TCP and arrives; a P frame goes over UDP.         *)
MayBeLost(frame) == ~frame.idr

finish_video_frame ==
    /\ pcS = "send"
    /\ sending
    /\ LET frame == Head(video_queue_)
       IN /\ on_frame_sent(frame.frame_id, frame.idr)
          /\ \/ HeadsetGets(frame, TRUE)
             \/ MayBeLost(frame) /\ HeadsetGets(frame, FALSE)
    /\ video_queue_' = Tail(video_queue_)
    /\ sending' = FALSE
    /\ UNCHANGED <<bridgeVars, encoderVars, pcS, descriptionVars, boundVars>>

(* A socket error: "the rest of it is worthless".                          *)
MayFail(frame) == frame.idr => LoseIdr

SendError ==
    /\ pcS = "send"
    /\ sending
    /\ MayFail(Head(video_queue_))
    /\ video_queue_' = Tail(video_queue_)
    /\ sending' = FALSE
    /\ UNCHANGED <<bridgeVars, encoderVars, pcS, descriptionVars, trackerVars, headsetVars, boundVars>>

Next ==
    \/ Snapshot
    \/ ensure_encoder
    \/ EncodeOk
    \/ EncodeFails
    \/ StagingChanged
    \/ SessionStart
    \/ SessionEnd
    \/ SettingsChanged
    \/ ReceiveFeedback
    \/ poll
    \/ update_stream_description
    \/ take_frames
    \/ begin_video_frame
    \/ PumpReturns
    \/ finish_video_frame
    \/ SendError
    \/ FloorExpires

Spec == Init /\ [][Next]_vars

-----------------------------------------------------------------------------
QueuedIdr(e) ==
    \E q \in {frames_, video_queue_} : \E i \in DOMAIN q : q[i].idr /\ q[i].eye = e

(* The encoder will make a key frame of the next frame it gets.            *)
IdrRequested ==
    \/ ~encoder_ready_
    \/ encoder_config_generation_ # config_generation
    \/ idr_seen_ # idr_generation

(* IdrTracker waits for a key frame only while one is on its way: it asks  *)
(* once, on the transition to need_idr, and then ignores every report      *)
(* (idr_tracker.h:97-101).                                                 *)
IdrOnItsWay ==
    (pcS # "none" /\ state_ = "need_idr" /\ ~pending_) => IdrRequested \/ \E e \in Eye : QueuedIdr(e)

Broken(e) == got[e] # shown[e]

(* The description the headset has is not that of the stream it is sent.   *)
DescriptionDue ==
    stream_.generation # stream_generation_ /\ stream_.valid /\ stream_.info # description_

(* IdrTracker acts on what the headset reports of this stream: it waits for *)
(* a key frame, or the stream has shown a frame that it counts.            *)
Counted(e) ==
    \/ state_ = "need_idr"
    \/ state_ = "running" /\ first_p_ <= shown[e]

(* A stream the headset can no longer decode is not left so: a key frame   *)
(* of it is queued or asked for, a request waits for the 500 ms floor, its *)
(* description is due, or a report that IdrTracker::on_feedback acts on is *)
(* under way.  P frames are lost and the encoder drops pairs at any time.  *)
(* What happens between the report of a key frame and the first P frame    *)
(* after it has no remedy (on_feedback ignores it, and all reports below   *)
(* first_p_): Counted leaves those streams out.                            *)
StreamRecovers ==
    \A e \in Eye :
      (pcS # "none" /\ Broken(e) /\ Counted(e)) =>
        \/ QueuedIdr(e)
        \/ IdrRequested
        \/ pending_
        \/ DescriptionDue
        \/ \E i \in DOMAIN feedback : NeedsIdr(feedback[i])

(* Each stream of a session is sent in the order it was encoded, also      *)
(* across full queues, lost frames and frames left from another client:    *)
(* what goes out next was encoded after all that the headset has.          *)
SentInOrder ==
    /\ \A i \in 1 .. Len(video_queue_ \o frames_) - 1 :
         (video_queue_ \o frames_)[i].frame_id <= (video_queue_ \o frames_)[i + 1].frame_id
    /\ (pcS # "none" /\ video_queue_ # <<>>) => Head(video_queue_).frame_id > got[Head(video_queue_).eye]

(* session.cpp:1051-1055: the queue is cut "by whole frames, and never the *)
(* one the sender is working through - half a frame pair is worth nothing  *)
(* to a headset that joins the two streams on a common frame index".       *)
PairStaysWhole ==
    (sending /\ Head(video_queue_).eye = 0)
      => Len(video_queue_) >= 2 /\ video_queue_[2].frame_id = Head(video_queue_).frame_id
=============================================================================
