-------------------------- MODULE VideoStream_proofs --------------------------
(***************************************************************************)
(* Proofs about VideoStream, for any queue sizes and number of frames:     *)
(* type correctness with the bounds of both queues, the order in which a   *)
(* session's streams are sent, that IdrTracker waits for a key frame in    *)
(* vain only if a key frame was lost on its way, and that a stream which   *)
(* IdrTracker counts and the headset cannot decode is recovered unless a   *)
(* key frame was lost on its way.                                          *)
(***************************************************************************)
EXTENDS VideoStream, WellFoundedInduction, TLAPS

-----------------------------------------------------------------------------
(* What a full queue drops.                                                *)

(* The first of a set of numbers.                                          *)
LEMMA Least ==
  ASSUME NEW T \in SUBSET Nat, T # {}
  PROVE  \E x \in T : \A y \in T : x <= y
  <1>1. PICK x \in T : \A y \in T : ~ (<<y, x>> \in OpToRel(<, Nat))
    BY WFMin, NatLessThanWellFounded
  <1>2. \A y \in T : ~ (y < x)
    BY <1>1 DEF OpToRel
  <1> QED BY <1>2

(* r is q without k frames from position first + 1 on.                     *)
Cut(q, r, first, k) ==
  /\ Len(r) = Len(q) - k
  /\ \A i \in 1 .. first : r[i] = q[i]
  /\ \A i \in first + 1 .. Len(q) - k : r[i] = q[i + k]

(* k frames from position first + 1 on are a number of whole frames.       *)
WholeFrames(q, first, k) ==
  k = 0 \/ first + k >= Len(q) \/ q[first + k].frame_id # q[first + k + 1].frame_id

(* DropOldest takes the fewest whole frames that it must.                  *)
LEMMA DropOldestLeast ==
  ASSUME NEW S, NEW q \in Seq(S), NEW first \in 0 .. 1, first <= Len(q), NEW max \in Nat
  PROVE  \E k \in 0 .. Len(q) - first :
            /\ DropOldest(q, first, max) \in Seq(S)
            /\ Cut(q, DropOldest(q, first, max), first, k)
            /\ Len(q) - k <= max \/ Len(q) - k = first
            /\ Len(q) <= max => k = 0
            /\ \A j \in 0 .. Len(q) - first :
                  WholeFrames(q, first, j) /\ Len(q) - j <= max => k <= j
  <1> DEFINE n == Len(q)
             boundary(k) == k = 0 \/ first + k >= Len(q)
                              \/ q[first + k].frame_id # q[first + k + 1].frame_id
             enough(k) == Len(q) - k <= max \/ first + k >= Len(q)
             Good == {k \in 0 .. Len(q) : boundary(k) /\ enough(k)}
             c == CHOOSE k \in 0 .. Len(q) :
                     /\ boundary(k) /\ enough(k)
                     /\ \A i \in 0 .. k - 1 : ~(boundary(i) /\ enough(i))
  <1>1. n \in Nat /\ n - first \in 0 .. n
    OBVIOUS
  <1>2. n - first \in Good
    BY <1>1
  <1>3. \E k \in Good : \A j \in Good : k <= j
    <2>1. Good \in SUBSET Nat /\ Good # {}
      BY <1>2
    <2> HIDE DEF Good
    <2> QED BY <2>1, Least
  <1>4. \E k \in 0 .. Len(q) : /\ boundary(k) /\ enough(k)
                               /\ \A i \in 0 .. k - 1 : ~(boundary(i) /\ enough(i))
    <2>1. PICK k \in Good : \A j \in Good : k <= j
      BY <1>3
    <2>2. \A i \in 0 .. k - 1 : i \in 0 .. Len(q) /\ ~ (k <= i)
      BY <1>1, <2>1
    <2>3. \A i \in 0 .. k - 1 : i \notin Good
      BY <2>1, <2>2
    <2> HIDE DEF boundary, enough
    <2> QED BY <2>1, <2>2, <2>3
  <1>5. /\ c \in 0 .. n /\ enough(c)
        /\ \A i \in 0 .. c - 1 : ~(boundary(i) /\ enough(i))
    <2> HIDE DEF boundary, enough
    <2> QED BY <1>4
  <1>6. DropOldest(q, first, max) = SubSeq(q, 1, first) \o SubSeq(q, first + c + 1, Len(q))
    BY DEF DropOldest
  <1>7. c <= n - first
    BY <1>1, <1>5
  <1>8. n <= max => c = 0
    BY <1>1, <1>5
  <1>9. n - c <= max \/ n - c = first
    BY <1>1, <1>5, <1>7
  <1>16. ASSUME NEW j \in 0 .. Len(q) - first, WholeFrames(q, first, j), Len(q) - j <= max
         PROVE  c <= j
    <2>1. boundary(j) /\ enough(j)
      BY <1>16 DEF WholeFrames
    <2> HIDE DEF boundary, enough
    <2>2. ~ (j < c)
      BY <1>1, <1>5, <2>1
    <2> QED BY <1>1, <1>5, <2>2
  <1> HIDE DEF c
  <1> DEFINE a == SubSeq(q, 1, first)
             b == SubSeq(q, first + c + 1, Len(q))
  <1>10. a \in Seq(S) /\ Len(a) = first /\ \A i \in 1 .. first : a[i] = q[i]
    BY <1>1
  <1>11. /\ b \in Seq(S) /\ Len(b) = n - c - first
         /\ \A i \in 1 .. n - c - first : b[i] = q[first + c + i]
    <2> DEFINE m == first + c + 1
    <2>1. m \in 1 .. n + 1 /\ first \in Nat /\ c \in Nat
      BY <1>1, <1>5, <1>7
    <2>2. b = SubSeq(q, m, n)
      OBVIOUS
    <2> HIDE DEF m, b
    <2>3. b \in Seq(S) /\ Len(b) = n - m + 1 /\ \A i \in 1 .. n - m + 1 : b[i] = q[m + i - 1]
      <3> HIDE DEF n
      <3>1. n = Len(q)
        BY DEF n
      <3> QED BY <1>1, <2>1, <2>2, <3>1
    <2>4. n - m + 1 = n - c - first /\ \A i \in 1 .. n - m + 1 : m + i - 1 = first + c + i
      BY <1>1, <2>1 DEF m
    <2> QED BY <2>3, <2>4
  <1> HIDE DEF a, b
  <1>12. /\ a \o b \in Seq(S) /\ Len(a \o b) = n - c
         /\ \A i \in 1 .. first : (a \o b)[i] = q[i]
         /\ \A i \in first + 1 .. n - c : (a \o b)[i] = q[i + c]
    <2>1. a \o b \in Seq(S) /\ Len(a \o b) = n - c
      BY <1>1, <1>5, <1>10, <1>11
    <2>2. \A i \in 1 .. first : (a \o b)[i] = q[i]
      <3> SUFFICES ASSUME NEW i \in 1 .. first PROVE (a \o b)[i] = q[i]
        OBVIOUS
      <3>1. (a \o b)[i] = a[i]
        <4>1. a \in Seq(S) /\ b \in Seq(S) /\ i \in 1 .. Len(a)
          BY <1>10, <1>11
        <4> QED BY ONLY <4>1
      <3>2. a[i] = q[i]
        BY <1>7, <1>10
      <3> QED BY <3>1, <3>2
    <2>3. ASSUME NEW i \in first + 1 .. n - c PROVE (a \o b)[i] = q[i + c]
      <3>1. i \in Nat /\ first \in Nat /\ i - first \in 1 .. n - c - first
        BY <1>1, <1>5, <1>7
      <3>4. (a \o b)[i] = b[i - first]
        <4>1. /\ a \in Seq(S) /\ b \in Seq(S) /\ Len(a) = first
              /\ i \in first + 1 .. first + Len(b) /\ Len(b) \in Nat
          BY <1>10, <1>11, <3>1
        <4> QED BY ONLY <4>1, <3>1
      <3>2. b[i - first] = q[first + c + (i - first)]
        BY <1>11, <3>1
      <3>3. first + c + (i - first) = i + c
        BY <1>1, <1>5
      <3> QED BY <3>2, <3>3, <3>4
    <2> QED BY <2>1, <2>2, <2>3
  <1>13. DropOldest(q, first, max) = a \o b
    BY <1>6 DEF a, b
  <1>14. c \in 0 .. Len(q) - first
    BY <1>1, <1>5, <1>7
  <1>15. Cut(q, a \o b, first, c)
    BY <1>12 DEF Cut
  <1> QED BY <1>8, <1>9, <1>12, <1>13, <1>14, <1>15, <1>16

(* DropOldest takes as many as it must, and none if there is room.         *)
LEMMA DropOldestIs ==
  ASSUME NEW S, NEW q \in Seq(S), NEW first \in 0 .. 1, first <= Len(q), NEW max \in Nat
  PROVE  \E k \in 0 .. Len(q) - first :
            /\ DropOldest(q, first, max) \in Seq(S)
            /\ Cut(q, DropOldest(q, first, max), first, k)
            /\ Len(q) - k <= max \/ Len(q) - k = first
            /\ Len(q) <= max => k = 0
  <1> DEFINE r == DropOldest(q, first, max)
  <1>1. PICK k \in 0 .. Len(q) - first :
           /\ r \in Seq(S)
           /\ Cut(q, r, first, k)
           /\ Len(q) - k <= max \/ Len(q) - k = first
           /\ Len(q) <= max => k = 0
           /\ \A j \in 0 .. Len(q) - first :
                 WholeFrames(q, first, j) /\ Len(q) - j <= max => k <= j
    BY DropOldestLeast
  <1> HIDE DEF r
  <1>2. r \in Seq(S) /\ Cut(q, r, first, k) /\ (Len(q) - k <= max \/ Len(q) - k = first)
        /\ (Len(q) <= max => k = 0)
    BY <1>1
  <1> QED BY <1>2 DEF r

-----------------------------------------------------------------------------
(* Type correctness, in parts.                                             *)

Stream == [info : Infos, valid : BOOLEAN, generation : Nat]
Feedback == [frame_index : FrameId, sent_to_decoder : BOOLEAN]

BridgeTypeOK ==
  /\ active \in BOOLEAN /\ config_generation \in Nat /\ idr_generation \in Nat
  /\ stream_ \in Stream

EncoderTypeOK ==
  /\ pcV \in {"idle", "ensure", "encode"}
  /\ request \in [config_generation : Nat, idr_generation : Nat] /\ frame_id \in FrameId
  /\ encoder_ready_ \in BOOLEAN /\ encoder_config_generation_ \in Nat /\ idr_seen_ \in Nat
  /\ reference \in [Eye -> FrameId]

QueueTypeOK ==
  /\ frames_ \in Seq(EncodedFrame) /\ Len(frames_) <= kMaxQueued
  /\ pcS \in {"none", "receive", "describe", "take", "send"}
  /\ video_queue_ \in Seq(EncodedFrame) /\ Len(video_queue_) <= kMaxVideoQueued
  /\ sending \in BOOLEAN

SessionTypeOK ==
  /\ description_ \in Infos /\ stream_generation_ \in Nat
  /\ state_ \in {"need_idr", "wait_idr_feedback", "idr_received", "running"}
  /\ idr_id_ \in FrameId /\ first_p_ \in FrameId /\ pending_ \in BOOLEAN /\ floor \in BOOLEAN

HeadsetTypeOK ==
  /\ got \in [Eye -> FrameId] /\ shown \in [Eye -> FrameId]
  /\ feedback \in Seq(Feedback)
  /\ clients \in 0 .. MaxClients /\ rebuilds \in 0 .. MaxRebuilds

(* The type invariant is the conjunction of the parts that the next lemmas keep one at a
   time. *)
LEMMA TypeParts ==
  TypeOK <=> BridgeTypeOK /\ EncoderTypeOK /\ QueueTypeOK /\ SessionTypeOK /\ HeadsetTypeOK
  BY DEF TypeOK, BridgeTypeOK, EncoderTypeOK, QueueTypeOK, SessionTypeOK, HeadsetTypeOK, Stream,
         Feedback

(* A queue, not empty.                                                     *)
LEMMA QueueHead ==
  ASSUME NEW S, NEW q \in Seq(S), q # <<>>
  PROVE  /\ Head(q) \in S /\ Head(q) = q[1] /\ Tail(q) \in Seq(S)
         /\ Len(q) \in Nat \ {0} /\ Len(Tail(q)) = Len(q) - 1
         /\ \A i \in 1 .. Len(q) - 1 : Tail(q)[i] = q[i + 1]
  OBVIOUS

(* How the two threads and the queues hang together.                       *)
ThreadInv ==
  /\ active = TRUE <=> pcS # "none"
  /\ pcS = "none" => frames_ = <<>>
  /\ sending = TRUE => video_queue_ # <<>> /\ kMaxVideoQueued >= 1
  /\ pcV # "idle" => frame_id >= 1

(* The bridge's generations only grow.                                     *)
LEMMA BridgeMoves ==
  ASSUME [Next]_vars
  PROVE  /\ config_generation' \in {config_generation, config_generation + 1}
         /\ idr_generation' \in {idr_generation, idr_generation + 1}
         /\ stream_' = stream_ \/ \E info \in Infos \cup {stream_.info}, valid \in BOOLEAN :
               stream_' = [info |-> info, valid |-> valid, generation |-> stream_.generation + 1]
  <1>1. /\ config_generation' \in {config_generation, config_generation + 1}
        /\ idr_generation' \in {idr_generation, idr_generation + 1}
    BY DEF Next, Snapshot, ensure_encoder, EncodeOk, EncodeFails, StagingChanged, SessionStart,
           SessionEnd, SettingsChanged, ReceiveFeedback, poll, update_stream_description, take_frames,
           begin_video_frame, PumpReturns, finish_video_frame, SendError, FloorExpires,
           set_client, clear_client, request_idr, push_frames, on_feedback,
           vars, bridgeVars, requestVars
  <1>2. \/ stream_' = stream_
        \/ \E info \in Infos \cup {stream_.info}, valid \in BOOLEAN : publish_stream(info, valid)
    BY DEF Next, Snapshot, ensure_encoder, EncodeOk, EncodeFails, StagingChanged, SessionStart,
           SessionEnd, SettingsChanged, ReceiveFeedback, poll, update_stream_description, take_frames,
           begin_video_frame, PumpReturns, finish_video_frame, SendError, FloorExpires,
           set_client, clear_client, request_idr, push_frames, on_feedback,
           vars, bridgeVars, requestVars
  <1> QED BY <1>1, <1>2 DEF publish_stream

(* Every step keeps the types of VideoBridge's generations and settings. *)
LEMMA BridgeStep ==
  ASSUME TypeOK, [Next]_vars
  PROVE  BridgeTypeOK'
  <1>1. stream_ \in Stream /\ config_generation \in Nat /\ idr_generation \in Nat
    BY TypeParts DEF BridgeTypeOK
  <1>2. stream_.info \in Infos /\ stream_.generation \in Nat
    BY <1>1 DEF Stream
  <1>3. stream_' \in Stream
    BY <1>1, <1>2, BridgeMoves DEF Stream
  <1>4. active' = active \/ active' = TRUE \/ active' = FALSE
    BY DEF Next, Snapshot, ensure_encoder, EncodeOk, EncodeFails, StagingChanged, SessionStart,
           SessionEnd, SettingsChanged, ReceiveFeedback, poll, update_stream_description, take_frames,
           begin_video_frame, PumpReturns, finish_video_frame, SendError, FloorExpires,
           set_client, clear_client, request_idr, push_frames, on_feedback,
           vars, bridgeVars, requestVars
  <1>5. active' \in BOOLEAN
    BY <1>4, Zenon DEF TypeOK
  <1> QED BY <1>1, <1>3, <1>5, BridgeMoves DEF BridgeTypeOK

(* VideoIntake's own state is written by its thread only.                  *)
LEMMA EncoderStep ==
  ASSUME TypeOK, [Next]_vars
  PROVE  EncoderTypeOK'
  <1>1. EncoderTypeOK /\ config_generation \in Nat /\ idr_generation \in Nat
    BY TypeParts DEF TypeOK
  <1>2. CASE Snapshot
    BY <1>1, <1>2, VideoAssumption DEF Snapshot, EncoderTypeOK, FrameId
  <1>3. CASE ensure_encoder
    <2>1. /\ pcV' \in {"idle", "encode"} /\ idr_seen_' \in {idr_seen_, 0}
          /\ encoder_config_generation_' = request.config_generation
          /\ UNCHANGED <<request, frame_id, reference>>
      BY <1>3 DEF ensure_encoder
    <2>2. encoder_ready_' = encoder_ready_ \/ encoder_ready_' \in BOOLEAN
      BY <1>3 DEF ensure_encoder
    <2>3. encoder_ready_' \in BOOLEAN
      BY <1>1, <2>2, Zenon DEF EncoderTypeOK
    <2> QED BY <1>1, <2>1, <2>3 DEF EncoderTypeOK
  <1>4. CASE EncodeOk
    <2>1. reference' = [e \in Eye |-> frame_id]
      BY <1>4 DEF EncodeOk
    <2>2. reference' \in [Eye -> FrameId]
      BY <1>1, <2>1 DEF EncoderTypeOK
    <2> QED BY <1>1, <1>4, <2>2 DEF EncodeOk, EncoderTypeOK
  <1>5. CASE EncodeFails \/ StagingChanged
    <2>1. /\ pcV' = "idle" /\ UNCHANGED <<request, frame_id, encoder_config_generation_, idr_seen_>>
      BY <1>5 DEF EncodeFails, StagingChanged
    <2>4. reference' \in [Eye -> FrameId]
      <3>1. CASE \E moved \in SUBSET Eye :
                   reference' = [e \in Eye |-> IF e \in moved THEN frame_id ELSE reference[e]]
        BY <1>1, <3>1 DEF EncoderTypeOK
      <3>2. CASE UNCHANGED reference
        BY <1>1, <3>2 DEF EncoderTypeOK
      <3> QED BY <1>5, <3>1, <3>2 DEF EncodeFails, StagingChanged
    <2>2. encoder_ready_' = encoder_ready_ \/ encoder_ready_' \in BOOLEAN
      BY <1>5 DEF EncodeFails, StagingChanged
    <2>3. encoder_ready_' \in BOOLEAN
      BY <1>1, <2>2, Zenon DEF EncoderTypeOK
    <2> QED BY <1>1, <2>1, <2>3, <2>4 DEF EncoderTypeOK
  <1>6. CASE UNCHANGED encoderVars
    BY <1>1, <1>6 DEF EncoderTypeOK, encoderVars
  <1>7. Snapshot \/ ensure_encoder \/ EncodeOk \/ EncodeFails \/ StagingChanged \/ UNCHANGED encoderVars
    BY DEF Next, SessionStart, SessionEnd, SettingsChanged, ReceiveFeedback, poll,
           update_stream_description, take_frames, begin_video_frame, PumpReturns,
           finish_video_frame, SendError, FloorExpires, vars
  <1> QED BY <1>2, <1>3, <1>4, <1>5, <1>6, <1>7

(* Both eyes of the frame that was encoded.                                *)
BothEyes == <<Encoded(0), Encoded(1)>>

(* What encode_one produces is one encoded frame for each eye, left before right. *)
LEMMA EncodedTypes ==
  ASSUME TypeOK
  PROVE  /\ Encoded(0) \in EncodedFrame /\ Encoded(1) \in EncodedFrame
         /\ BothEyes \in Seq(EncodedFrame) /\ Len(BothEyes) = 2
         /\ BothEyes[1] = Encoded(0) /\ BothEyes[2] = Encoded(1)
  <1>1. force_idr \in BOOLEAN
    BY DEF force_idr
  <1>2. frame_id \in FrameId /\ reference \in [Eye -> FrameId] /\ stream_.info \in Infos /\ 0 \in FrameId
    BY VideoAssumption DEF TypeOK, FrameId
  <1>3. ASSUME NEW e \in Eye PROVE Encoded(e) \in EncodedFrame
    BY <1>1, <1>2 DEF Encoded, EncodedFrame
  <1>4. Encoded(0) \in EncodedFrame /\ Encoded(1) \in EncodedFrame
    BY <1>3 DEF Eye
  <1> QED BY <1>4 DEF BothEyes

(* What take_frames may not touch: the eye-frame being sent.               *)
Working == IF sending THEN 1 ELSE 0

(* While the session thread is in a frame, that frame is the head of its queue. *)
LEMMA WorkingIs ==
  ASSUME TypeOK, ThreadInv
  PROVE  /\ Working \in 0 .. 1 /\ Working <= Len(video_queue_)
         /\ Working <= kMaxVideoQueued
         /\ video_queue_ \o frames_ \in Seq(EncodedFrame)
         /\ Len(video_queue_ \o frames_) = Len(video_queue_) + Len(frames_)
         /\ Len(video_queue_) \in Nat /\ Len(frames_) \in Nat
  <1>1. /\ video_queue_ \in Seq(EncodedFrame) /\ frames_ \in Seq(EncodedFrame)
        /\ sending \in BOOLEAN /\ kMaxVideoQueued \in Nat
    BY VideoAssumption DEF TypeOK
  <1>2. sending => Len(video_queue_) >= 1 /\ kMaxVideoQueued >= 1
    BY <1>1 DEF ThreadInv
  <1> QED BY <1>1, <1>2 DEF Working

(* Every step keeps both queues within their limits, kMaxQueued and kMaxVideoQueued. *)
LEMMA QueueStep ==
  ASSUME TypeOK, ThreadInv, [Next]_vars
  PROVE  QueueTypeOK'
  <1>0. <<>> \in Seq(EncodedFrame) /\ Len(<<>>) = 0
    OBVIOUS
  <1>1. /\ QueueTypeOK /\ kMaxQueued \in Nat /\ kMaxVideoQueued \in Nat
        /\ frames_ \in Seq(EncodedFrame) /\ video_queue_ \in Seq(EncodedFrame)
        /\ Len(video_queue_) <= kMaxVideoQueued /\ Len(frames_) <= kMaxQueued
    BY TypeParts, VideoAssumption DEF QueueTypeOK
  <1>2. pcS' \in {"none", "receive", "describe", "take", "send"}
    <2>1. pcS' \in {pcS, "none", "receive", "describe", "take", "send"}
      BY DEF Next, Snapshot, ensure_encoder, EncodeOk, EncodeFails, StagingChanged, SessionStart,
             SessionEnd, SettingsChanged, ReceiveFeedback, poll, update_stream_description, take_frames,
             begin_video_frame, PumpReturns, finish_video_frame, SendError, FloorExpires, vars
    <2> QED BY <1>1, <2>1 DEF QueueTypeOK
  <1>3. sending' \in BOOLEAN
    <2>1. sending' = sending \/ sending' = TRUE \/ sending' = FALSE
      BY DEF Next, Snapshot, ensure_encoder, EncodeOk, EncodeFails, StagingChanged, SessionStart,
             SessionEnd, SettingsChanged, ReceiveFeedback, poll, update_stream_description, take_frames,
             begin_video_frame, PumpReturns, finish_video_frame, SendError, FloorExpires, vars, queueVars
    <2> QED BY <1>1, <2>1, Zenon DEF QueueTypeOK
  <1>4. frames_' \in Seq(EncodedFrame) /\ Len(frames_') <= kMaxQueued
    <2>1. CASE EncodeOk
      <3>1. frames_' = frames_ \/ frames_' = DropOldest(frames_ \o BothEyes, 0, kMaxQueued)
        BY <2>1 DEF EncodeOk, push_frames, BothEyes
      <3>2. frames_ \o BothEyes \in Seq(EncodedFrame)
        BY <1>1, EncodedTypes
      <3> DEFINE q == frames_ \o BothEyes
      <3> HIDE DEF q
      <3>3. q \in Seq(EncodedFrame) /\ 0 \in 0 .. 1 /\ 0 <= Len(q) /\ Len(q) \in Nat
        BY <3>2 DEF q
      <3>4. PICK k \in 0 .. Len(q) - 0 :
               /\ DropOldest(q, 0, kMaxQueued) \in Seq(EncodedFrame)
               /\ Cut(q, DropOldest(q, 0, kMaxQueued), 0, k)
               /\ Len(q) - k <= kMaxQueued \/ Len(q) - k = 0
        BY <1>1, <3>3, DropOldestIs
      <3>5. Len(DropOldest(q, 0, kMaxQueued)) <= kMaxQueued
        BY <1>1, <3>3, <3>4 DEF Cut
      <3> QED BY <1>1, <3>1, <3>4, <3>5 DEF q
    <2>2. CASE frames_' \in {frames_, <<>>}
      <3>1. CASE frames_' = frames_
        BY <1>1, <3>1
      <3>2. CASE frames_' = <<>>
        <4>1. Len(frames_') = 0 /\ frames_' \in Seq(EncodedFrame)
          BY <1>0, <3>2
        <4>2. 0 <= kMaxQueued
          BY <1>1
        <4> QED BY <4>1, <4>2
      <3> QED BY <2>2, <3>1, <3>2
    <2>3. EncodeOk \/ frames_' \in {frames_, <<>>}
      BY DEF Next, Snapshot, ensure_encoder, EncodeFails, StagingChanged, SessionStart,
             SessionEnd, SettingsChanged, ReceiveFeedback, poll, update_stream_description, take_frames,
             begin_video_frame, PumpReturns, finish_video_frame, SendError, FloorExpires,
             set_client, clear_client, request_idr, on_feedback, vars, bridgeVars
    <2> QED BY <2>1, <2>2, <2>3
  <1>5. video_queue_' \in Seq(EncodedFrame) /\ Len(video_queue_') <= kMaxVideoQueued
    <2>1. CASE take_frames
      <3> DEFINE q == video_queue_ \o frames_
                 w == Working
      <3>1. video_queue_' = video_queue_ \/ video_queue_' = DropOldest(q, w, kMaxVideoQueued)
        BY <2>1 DEF take_frames, Working
      <3>2. /\ q \in Seq(EncodedFrame) /\ w \in 0 .. 1 /\ w <= Len(q) /\ Len(q) \in Nat
            /\ w <= kMaxVideoQueued
        BY WorkingIs
      <3> HIDE DEF q, w
      <3>a. kMaxVideoQueued \in Nat
        BY <1>1
      <3>3. PICK k \in 0 .. Len(q) - w :
               /\ DropOldest(q, w, kMaxVideoQueued) \in Seq(EncodedFrame)
               /\ Cut(q, DropOldest(q, w, kMaxVideoQueued), w, k)
               /\ Len(q) - k <= kMaxVideoQueued \/ Len(q) - k = w
               /\ Len(q) <= kMaxVideoQueued => k = 0
        BY <3>2, <3>a, DropOldestIs
      <3>4. Len(DropOldest(q, w, kMaxVideoQueued)) <= kMaxVideoQueued
        BY <1>1, <3>2, <3>3 DEF Cut
      <3> QED BY <1>1, <3>1, <3>3, <3>4
    <2>2. CASE finish_video_frame \/ SendError
      <3>1. video_queue_' = Tail(video_queue_) /\ video_queue_ # <<>>
        BY <2>2 DEF finish_video_frame, SendError, ThreadInv
      <3> QED BY <1>1, <3>1, QueueHead
    <2>3. CASE video_queue_' \in {video_queue_, <<>>}
      <3>1. CASE video_queue_' = video_queue_
        BY <1>1, <3>1
      <3>2. CASE video_queue_' = <<>>
        <4>1. Len(video_queue_') = 0 /\ video_queue_' \in Seq(EncodedFrame)
          BY <1>0, <3>2
        <4>2. 0 <= kMaxVideoQueued
          BY <1>1
        <4> QED BY <4>1, <4>2
      <3> QED BY <2>3, <3>1, <3>2
    <2>4. take_frames \/ finish_video_frame \/ SendError \/ video_queue_' \in {video_queue_, <<>>}
      BY DEF Next, Snapshot, ensure_encoder, EncodeOk, EncodeFails, StagingChanged, SessionStart,
             SessionEnd, SettingsChanged, ReceiveFeedback, poll, update_stream_description,
             begin_video_frame, PumpReturns, FloorExpires, vars, queueVars
    <2> QED BY <2>1, <2>2, <2>3, <2>4
  <1> QED BY <1>2, <1>3, <1>4, <1>5 DEF QueueTypeOK

(* The threads and the queues.                                             *)
LEMMA ThreadStep ==
  ASSUME TypeOK, ThreadInv, [Next]_vars
  PROVE  ThreadInv'
  <1>1. /\ frames_ \in Seq(EncodedFrame) /\ video_queue_ \in Seq(EncodedFrame)
        /\ sending \in BOOLEAN /\ active \in BOOLEAN /\ frame_id \in Nat
        /\ Len(video_queue_) <= kMaxVideoQueued /\ kMaxVideoQueued \in Nat
        /\ pcS \in {"none", "receive", "describe", "take", "send"}
    BY VideoAssumption DEF TypeOK, FrameId
  <1>2. active' = TRUE <=> pcS' # "none"
    <2>1. CASE SessionStart
      BY <2>1 DEF SessionStart, set_client
    <2>2. CASE SessionEnd
      BY <2>2 DEF SessionEnd, clear_client
    <2>3. CASE SettingsChanged
      BY <2>3 DEF SettingsChanged, set_client
    <2>4. CASE active' = active /\ (pcS' = pcS \/ (pcS # "none" /\ pcS' # "none"))
      BY <2>4 DEF ThreadInv
    <2>5. \/ SessionStart \/ SessionEnd \/ SettingsChanged
          \/ active' = active /\ (pcS' = pcS \/ (pcS # "none" /\ pcS' # "none"))
      BY DEF Next, Snapshot, ensure_encoder, EncodeOk, EncodeFails, StagingChanged,
             ReceiveFeedback, poll, update_stream_description, take_frames,
             begin_video_frame, PumpReturns, finish_video_frame, SendError, FloorExpires,
             request_idr, push_frames, on_feedback, vars, bridgeVars
    <2> QED BY <2>1, <2>2, <2>3, <2>4, <2>5
  <1>3. pcS' = "none" => frames_' = <<>>
    <2>1. CASE SessionEnd
      BY <2>1 DEF SessionEnd, clear_client
    <2>2. CASE EncodeOk
      BY <2>2 DEF EncodeOk, push_frames, ThreadInv
    <2>3. \/ SessionEnd \/ EncodeOk \/ pcS' # "none" \/ (pcS' = pcS /\ frames_' = frames_)
      BY DEF Next, Snapshot, ensure_encoder, EncodeFails, StagingChanged, SessionStart, SettingsChanged,
             ReceiveFeedback, poll, update_stream_description, take_frames,
             begin_video_frame, PumpReturns, finish_video_frame, SendError, FloorExpires,
             request_idr, set_client, on_feedback, vars, bridgeVars
    <2> QED BY <2>1, <2>2, <2>3 DEF ThreadInv
  <1>4. sending' = TRUE => video_queue_' # <<>> /\ kMaxVideoQueued >= 1
    <2>1. CASE take_frames
      <3> DEFINE q == video_queue_ \o frames_
                 w == Working
      <3>1. /\ video_queue_' = video_queue_ \/ video_queue_' = DropOldest(q, w, kMaxVideoQueued)
            /\ sending' = sending
        BY <2>1 DEF take_frames, Working
      <3>2. /\ q \in Seq(EncodedFrame) /\ w \in 0 .. 1 /\ w <= Len(q) /\ Len(q) \in Nat
        BY WorkingIs
      <3>3. ASSUME sending = TRUE PROVE w = 1
        BY <3>3 DEF Working
      <3> HIDE DEF q, w
      <3>4. PICK k \in 0 .. Len(q) - w :
               /\ DropOldest(q, w, kMaxVideoQueued) \in Seq(EncodedFrame)
               /\ Cut(q, DropOldest(q, w, kMaxVideoQueued), w, k)
        BY <1>1, <3>2, DropOldestIs
      <3>5. Len(DropOldest(q, w, kMaxVideoQueued)) >= w
        BY <3>2, <3>4 DEF Cut
      <3>6. w = 1 => DropOldest(q, w, kMaxVideoQueued) # <<>>
        BY <3>4, <3>5
      <3> QED BY <3>1, <3>3, <3>6 DEF ThreadInv
    <2>2. CASE begin_video_frame
      BY <1>1, <2>2 DEF begin_video_frame
    <2>3. \/ take_frames \/ begin_video_frame \/ sending' = FALSE
          \/ (sending' = sending /\ video_queue_' = video_queue_)
      BY DEF Next, Snapshot, ensure_encoder, EncodeOk, EncodeFails, StagingChanged, SessionStart,
             SessionEnd, SettingsChanged, ReceiveFeedback, poll, update_stream_description,
             PumpReturns, finish_video_frame, SendError, FloorExpires, vars, queueVars
    <2> QED BY <2>1, <2>2, <2>3 DEF ThreadInv
  <1>5. pcV' # "idle" => frame_id' >= 1
    <2>1. \/ pcV' = "idle"
          \/ frame_id' = frame_id + 1
          \/ frame_id' = frame_id /\ (pcV # "idle" \/ pcV' = pcV)
      BY DEF Next, Snapshot, ensure_encoder, EncodeOk, EncodeFails, StagingChanged, SessionStart,
             SessionEnd, SettingsChanged, ReceiveFeedback, poll, update_stream_description, take_frames,
             begin_video_frame, PumpReturns, finish_video_frame, SendError, FloorExpires,
             vars, encoderVars
    <2> QED BY <1>1, <2>1 DEF ThreadInv
  <1> QED BY <1>2, <1>3, <1>4, <1>5 DEF ThreadInv

(* What the session keeps for itself, and for IdrTracker.                  *)
LEMMA SessionStep ==
  ASSUME TypeOK, ThreadInv, [Next]_vars
  PROVE  SessionTypeOK'
  <1>1. /\ SessionTypeOK /\ stream_.info \in Infos /\ stream_.generation \in Nat
        /\ video_queue_ \in Seq(EncodedFrame) /\ 0 \in FrameId
    BY TypeParts, VideoAssumption DEF TypeOK, FrameId
  <1>2. ASSUME sending = TRUE
        PROVE  Head(video_queue_).frame_id \in FrameId /\ Head(video_queue_).idr \in BOOLEAN
    <2>1. Head(video_queue_) \in EncodedFrame
      BY <1>1, <1>2, QueueHead DEF ThreadInv
    <2> QED BY <2>1 DEF EncodedFrame
  <1>3. description_' \in Infos /\ stream_generation_' \in Nat
    <2>1. description_' \in {description_, stream_.info} \cup Infos
      BY DEF Next, Snapshot, ensure_encoder, EncodeOk, EncodeFails, StagingChanged, SessionStart,
             SessionEnd, SettingsChanged, ReceiveFeedback, poll, update_stream_description, take_frames,
             begin_video_frame, PumpReturns, finish_video_frame, SendError, FloorExpires,
             vars, descriptionVars
    <2>2. stream_generation_' \in {stream_generation_, stream_.generation, 0}
      BY DEF Next, Snapshot, ensure_encoder, EncodeOk, EncodeFails, StagingChanged, SessionStart,
             SessionEnd, SettingsChanged, ReceiveFeedback, poll, update_stream_description, take_frames,
             begin_video_frame, PumpReturns, finish_video_frame, SendError, FloorExpires,
             vars, descriptionVars
    <2> QED BY <1>1, <2>1, <2>2 DEF SessionTypeOK
  <1>4. /\ state_' \in {"need_idr", "wait_idr_feedback", "idr_received", "running"}
        /\ idr_id_' \in FrameId /\ first_p_' \in FrameId
    <2>1. CASE finish_video_frame
      <3>1. /\ state_' \in {state_, "wait_idr_feedback", "running"}
            /\ idr_id_' \in {idr_id_, Head(video_queue_).frame_id}
            /\ first_p_' \in {first_p_, Head(video_queue_).frame_id}
        BY <2>1 DEF finish_video_frame, on_frame_sent
      <3> QED BY <1>1, <1>2, <2>1, <3>1 DEF finish_video_frame, SessionTypeOK
    <2>2. CASE ~finish_video_frame
      <3>1. /\ state_' \in {state_, "need_idr", "idr_received"}
            /\ idr_id_' \in {idr_id_, 0} /\ first_p_' \in {first_p_, 0}
        BY <2>2 DEF Next, Snapshot, ensure_encoder, EncodeOk, EncodeFails, StagingChanged, SessionStart,
               SessionEnd, SettingsChanged, ReceiveFeedback, poll, update_stream_description,
               take_frames, begin_video_frame, PumpReturns, SendError, FloorExpires,
               vars, trackerVars, reset, on_feedback
      <3> QED BY <1>1, <3>1 DEF SessionTypeOK
    <2> QED BY <2>1, <2>2
  <1>5. pending_' \in BOOLEAN /\ floor' \in BOOLEAN
    <2>1. CASE finish_video_frame
      <3>1. pending_' \in BOOLEAN /\ floor' = floor
        BY <2>1 DEF finish_video_frame, on_frame_sent
      <3> QED BY <1>1, <3>1, Zenon DEF SessionTypeOK
    <2>2. CASE ReceiveFeedback
      <3>1. /\ floor' \in BOOLEAN
            /\ pending_' = pending_ \/ pending_' = floor
        BY <2>2 DEF ReceiveFeedback, on_feedback
      <3> QED BY <1>1, <3>1, Zenon DEF SessionTypeOK
    <2>3. CASE ~finish_video_frame /\ ~ReceiveFeedback
      <3>1. pending_' = pending_ \/ pending_' = FALSE
        BY <2>3 DEF Next, Snapshot, ensure_encoder, EncodeOk, EncodeFails, StagingChanged, SessionStart,
               SessionEnd, SettingsChanged, poll, update_stream_description,
               take_frames, begin_video_frame, PumpReturns, SendError, FloorExpires,
               vars, trackerVars, reset
      <3>2. floor' = floor \/ floor' = TRUE \/ floor' = FALSE
        BY <2>3 DEF Next, Snapshot, ensure_encoder, EncodeOk, EncodeFails, StagingChanged, SessionStart,
               SessionEnd, SettingsChanged, poll, update_stream_description,
               take_frames, begin_video_frame, PumpReturns, SendError, FloorExpires,
               vars, trackerVars, reset
      <3> QED BY <1>1, <3>1, <3>2, Zenon DEF SessionTypeOK
    <2> QED BY <2>1, <2>2, <2>3
  <1> QED BY <1>3, <1>4, <1>5 DEF SessionTypeOK

(* The reports of the headset.                                             *)
LEMMA ReportTypes ==
  ASSUME got \in [Eye -> FrameId], NEW frame \in EncodedFrame, NEW ok \in BOOLEAN
  PROVE  Report(frame, ok) \in Seq(Feedback)
  <1>1. /\ frame.frame_id \in FrameId /\ got[frame.eye] \in FrameId /\ frame.idr \in BOOLEAN
        /\ MaxFrame \in Nat
    BY VideoAssumption DEF EncodedFrame
  <1> DEFINE last == got[frame.eye]
             n == IF last = 0 THEN 0 ELSE frame.frame_id - last - 1
             m == IF n < 0 THEN 0 ELSE n
             one == [frame_index |-> frame.frame_id, sent_to_decoder |-> ok]
             missed(i) == [frame_index |-> last + i, sent_to_decoder |-> FALSE]
  <1>2. m \in Nat /\ 1 .. n = 1 .. m
    BY <1>1 DEF FrameId
  <1>3. \A i \in 1 .. m : last + i \in FrameId
    BY <1>1 DEF FrameId
  <1>4. \A i \in 1 .. m : missed(i) \in Feedback
    BY <1>3 DEF Feedback
  <1>5. Missed(frame) = [i \in 1 .. m |-> missed(i)]
    BY <1>2 DEF Missed
  <1>6. one \in Feedback
    BY <1>1 DEF Feedback
  <1> HIDE DEF m, missed, one
  <1>7. Missed(frame) \in Seq(Feedback)
    BY <1>2, <1>4, <1>5
  <1>8. <<one>> \in Seq(Feedback) /\ <<>> \in Seq(Feedback)
    BY <1>6
  <1>9. Report(frame, ok) \in {Missed(frame) \o <<one>>, Missed(frame) \o <<>>}
    BY DEF Report, one
  <1> QED BY <1>7, <1>8, <1>9

(* Every step keeps the types of what the headset has decoded and of its reports on the
   way. *)
LEMMA HeadsetStep ==
  ASSUME TypeOK, ThreadInv, [Next]_vars
  PROVE  HeadsetTypeOK'
  <1>1. /\ HeadsetTypeOK /\ video_queue_ \in Seq(EncodedFrame) /\ 0 \in FrameId
        /\ MaxClients \in Nat /\ MaxRebuilds \in Nat
    BY TypeParts, VideoAssumption DEF TypeOK, FrameId
  <1>2. clients' \in 0 .. MaxClients /\ rebuilds' \in 0 .. MaxRebuilds
    <2>1. /\ clients' = clients \/ (clients < MaxClients /\ clients' = clients + 1)
          /\ rebuilds' = rebuilds \/ (rebuilds < MaxRebuilds /\ rebuilds' = rebuilds + 1)
      BY DEF Next, Snapshot, ensure_encoder, EncodeOk, EncodeFails, StagingChanged, SessionStart,
             SessionEnd, SettingsChanged, ReceiveFeedback, poll, update_stream_description, take_frames,
             begin_video_frame, PumpReturns, finish_video_frame, SendError, FloorExpires,
             vars, boundVars
    <2> QED BY <1>1, <2>1 DEF HeadsetTypeOK
  <1>3. CASE finish_video_frame
    <2> DEFINE frame == Head(video_queue_)
    <2>1. frame \in EncodedFrame
      BY <1>1, <1>3, QueueHead DEF ThreadInv, finish_video_frame
    <2>2. PICK ok \in BOOLEAN : HeadsetGets(frame, ok)
      BY <1>3 DEF finish_video_frame
    <2> HIDE DEF frame
    <2>3. frame.frame_id \in FrameId /\ frame.eye \in Eye
      BY <2>1 DEF EncodedFrame
    <2>4. got' \in [Eye -> FrameId] /\ shown' \in [Eye -> FrameId]
      BY <1>1, <2>2, <2>3 DEF HeadsetGets, HeadsetTypeOK
    <2>5. feedback' \in Seq(Feedback)
      <3>1. feedback' = feedback \o Report(frame, ok)
        BY <2>2 DEF HeadsetGets
      <3>2. Report(frame, ok) \in Seq(Feedback) /\ feedback \in Seq(Feedback)
        BY <1>1, <2>1, ReportTypes DEF HeadsetTypeOK
      <3> QED BY <3>1, <3>2
    <2> QED BY <1>2, <2>4, <2>5 DEF HeadsetTypeOK
  <1>4. CASE SessionStart
    BY <1>1, <1>2, <1>4 DEF SessionStart, HeadsetTypeOK
  <1>5. CASE ReceiveFeedback
    <2>1. feedback' = Tail(feedback) /\ feedback # <<>> /\ UNCHANGED <<got, shown>>
      BY <1>5 DEF ReceiveFeedback
    <2>2. Tail(feedback) \in Seq(Feedback)
      BY <1>1, <2>1, QueueHead DEF HeadsetTypeOK
    <2> QED BY <1>1, <1>2, <2>1, <2>2 DEF HeadsetTypeOK
  <1>6. CASE update_stream_description
    <2>1. /\ shown' = shown \/ shown' = [e \in Eye |-> 0]
          /\ UNCHANGED <<got, feedback>>
      BY <1>6 DEF update_stream_description
    <2> QED BY <1>1, <1>2, <2>1 DEF HeadsetTypeOK
  <1>7. CASE UNCHANGED headsetVars
    BY <1>1, <1>2, <1>7 DEF HeadsetTypeOK, headsetVars
  <1>8. \/ finish_video_frame \/ SessionStart \/ ReceiveFeedback \/ update_stream_description
        \/ UNCHANGED headsetVars
    BY DEF Next, Snapshot, ensure_encoder, EncodeOk, EncodeFails, StagingChanged,
           SessionEnd, SettingsChanged, poll, take_frames,
           begin_video_frame, PumpReturns, SendError, FloorExpires, vars
  <1> QED BY <1>3, <1>4, <1>5, <1>6, <1>7, <1>8

-----------------------------------------------------------------------------
(* The order of a session's streams.                                       *)

(* a comes before b: an earlier frame, or the left eye of the same one.    *)
Before(a, b) ==
  /\ a.frame_id <= b.frame_id
  /\ a.eye = b.eye \/ a.eye = 1 => a.frame_id < b.frame_id

Ordered(q) == \A i, j \in 1 .. Len(q) : i < j => Before(q[i], q[j])
Cross(q, r) == \A i \in 1 .. Len(q), j \in 1 .. Len(r) : Before(q[i], r[j])
Under(q, n) == \A i \in 1 .. Len(q) : q[i].frame_id < n
Over(q, had) == \A i \in 1 .. Len(q) : q[i].frame_id > had[q[i].eye]

(* r has some of the elements of q, in the order of q.                     *)
Within(r, q) ==
  /\ \A i \in 1 .. Len(r) : \E a \in 1 .. Len(q) : r[i] = q[a]
  /\ \A i, j \in 1 .. Len(r) : i < j =>
       \E a, b \in 1 .. Len(q) : a < b /\ r[i] = q[a] /\ r[j] = q[b]

(* What is dropped leaves the rest in its order.                           *)
LEMMA CutWithin ==
  ASSUME NEW S, NEW q \in Seq(S), NEW r \in Seq(S), NEW first \in 0 .. 1, first <= Len(q),
         NEW k \in 0 .. Len(q) - first, Cut(q, r, first, k)
  PROVE  Within(r, q)
  <1> DEFINE at(i) == IF i <= first THEN i ELSE i + k
  <1>1. Len(r) = Len(q) - k /\ Len(q) \in Nat /\ k \in Nat
    BY DEF Cut
  <1>2. ASSUME NEW i \in 1 .. Len(r) PROVE at(i) \in 1 .. Len(q) /\ r[i] = q[at(i)]
    <2>1. CASE i <= first
      BY <1>1, <2>1 DEF Cut
    <2>2. CASE i > first
      BY <1>1, <2>2 DEF Cut
    <2> QED BY <1>1, <2>1, <2>2
  <1>3. ASSUME NEW i \in 1 .. Len(r), NEW j \in 1 .. Len(r), i < j PROVE at(i) < at(j)
    BY <1>1, <1>3
  <1> HIDE DEF at
  <1> QED BY <1>2, <1>3 DEF Within

(* The tail of a queue is part of that queue. *)
LEMMA TailWithin ==
  ASSUME NEW S, NEW q \in Seq(S), q # <<>>
  PROVE  Within(Tail(q), q)
  <1>1. /\ Len(q) \in Nat \ {0} /\ Len(Tail(q)) = Len(q) - 1
        /\ \A i \in 1 .. Len(q) - 1 : Tail(q)[i] = q[i + 1]
    BY QueueHead
  <1>2. \A i \in 1 .. Len(Tail(q)) : i + 1 \in 1 .. Len(q) /\ Tail(q)[i] = q[i + 1]
    BY <1>1
  <1>3. \A i, j \in 1 .. Len(Tail(q)) : i < j => i + 1 < j + 1
    BY <1>1
  <1> QED BY <1>2, <1>3 DEF Within

(* The order goes over to a part of the queue.                             *)
LEMMA WithinKeeps ==
  ASSUME NEW r, NEW q, Within(r, q)
  PROVE  /\ Ordered(q) => Ordered(r)
         /\ \A s : Cross(q, s) => Cross(r, s)
         /\ \A s : Cross(s, q) => Cross(s, r)
         /\ \A n : Under(q, n) => Under(r, n)
         /\ \A had : Over(q, had) => Over(r, had)
  <1>1. Ordered(q) => Ordered(r)
    BY DEF Within, Ordered
  <1>2. \A s : Cross(q, s) => Cross(r, s)
    BY DEF Within, Cross
  <1>3. \A s : Cross(s, q) => Cross(s, r)
    BY DEF Within, Cross
  <1>4. \A n : Under(q, n) => Under(r, n)
    BY DEF Within, Under
  <1>5. \A had : Over(q, had) => Over(r, had)
    BY DEF Within, Over
  <1> QED BY <1>1, <1>2, <1>3, <1>4, <1>5

(* Where the elements of two queues in a row are.                          *)
LEMMA InRow ==
  ASSUME NEW S, NEW q \in Seq(S), NEW r \in Seq(S), NEW i \in 1 .. Len(q \o r)
  PROVE  /\ Len(q) \in Nat /\ Len(r) \in Nat /\ Len(q \o r) = Len(q) + Len(r)
         /\ \/ i \in 1 .. Len(q) /\ (q \o r)[i] = q[i]
            \/ i > Len(q) /\ i - Len(q) \in 1 .. Len(r) /\ (q \o r)[i] = r[i - Len(q)]
  OBVIOUS

(* The length of two queues joined end to end. *)
LEMMA Joined ==
  ASSUME NEW S, NEW q \in Seq(S), NEW r \in Seq(S)
  PROVE  q \o r \in Seq(S) /\ Len(q \o r) = Len(q) + Len(r)
  OBVIOUS

(* Two ordered queues, one before the other, in a row.                     *)
LEMMA RowKeeps ==
  ASSUME NEW S, NEW q \in Seq(S), NEW r \in Seq(S)
  PROVE  /\ Ordered(q) /\ Ordered(r) /\ Cross(q, r) => Ordered(q \o r)
         /\ \A s : Cross(s, q) /\ Cross(s, r) => Cross(s, q \o r)
         /\ \A n : Under(q, n) /\ Under(r, n) => Under(q \o r, n)
         /\ \A had : Over(q, had) /\ Over(r, had) => Over(q \o r, had)
  <1>1. ASSUME Ordered(q), Ordered(r), Cross(q, r),
               NEW i \in 1 .. Len(q \o r), NEW j \in 1 .. Len(q \o r), i < j
        PROVE  Before((q \o r)[i], (q \o r)[j])
    <2>1. /\ Len(q) \in Nat
          /\ \/ i \in 1 .. Len(q) /\ (q \o r)[i] = q[i]
             \/ i > Len(q) /\ i - Len(q) \in 1 .. Len(r) /\ (q \o r)[i] = r[i - Len(q)]
      BY InRow
    <2>2. \/ j \in 1 .. Len(q) /\ (q \o r)[j] = q[j]
          \/ j > Len(q) /\ j - Len(q) \in 1 .. Len(r) /\ (q \o r)[j] = r[j - Len(q)]
      BY InRow
    <2>3. i - Len(q) < j - Len(q) /\ ~ (i > Len(q) /\ j \in 1 .. Len(q))
      BY <1>1, <2>1
    <2> QED BY <1>1, <2>1, <2>2, <2>3 DEF Ordered, Cross
  <1>2. \A s : Cross(s, q) /\ Cross(s, r) => Cross(s, q \o r)
    BY InRow DEF Cross
  <1>3. \A n : Under(q, n) /\ Under(r, n) => Under(q \o r, n)
    BY InRow DEF Under
  <1>4. \A had : Over(q, had) /\ Over(r, had) => Over(q \o r, had)
    BY InRow DEF Over
  <1> QED BY <1>1, <1>2, <1>3, <1>4 DEF Ordered

(* The frame that no queue has reached yet.                                *)
Latest == IF pcV = "idle" THEN frame_id + 1 ELSE frame_id

OrderInv ==
  /\ Ordered(video_queue_) /\ Ordered(frames_) /\ Cross(video_queue_, frames_)
  /\ Under(video_queue_, Latest) /\ Under(frames_, Latest)
  /\ \A e \in Eye : got[e] < Latest
  /\ pcS # "none" => Over(video_queue_, got) /\ Over(frames_, got)

(* Frame numbers are natural numbers.                                      *)
LEMMA Ids ==
  ASSUME NEW q \in Seq(EncodedFrame), NEW i \in 1 .. Len(q)
  PROVE  q[i].frame_id \in Nat /\ q[i].eye \in Eye
  <1>1. q[i] \in EncodedFrame
    OBVIOUS
  <1>2. q[i].frame_id \in FrameId /\ q[i].eye \in Eye
    BY <1>1 DEF EncodedFrame
  <1> QED BY <1>2, VideoAssumption DEF FrameId

(* A later bound is a bound.                                               *)
LEMMA UnderMore ==
  ASSUME NEW q \in Seq(EncodedFrame), NEW n \in Nat, NEW m \in Nat, n <= m, Under(q, n)
  PROVE  Under(q, m)
  <1>1. \A i \in 1 .. Len(q) : q[i].frame_id \in Nat
    BY Ids
  <1> QED BY <1>1 DEF Under

(* The newest frame number never falls, and encode_one raises it by one. *)
LEMMA LatestGrows ==
  ASSUME TypeOK, [Next]_vars
  PROVE  /\ Latest \in Nat /\ Latest' \in Nat /\ Latest <= Latest'
         /\ EncodeOk => Latest = frame_id /\ Latest' = frame_id + 1
  <1>1. frame_id \in Nat
    BY VideoAssumption DEF TypeOK, FrameId
  <1>2. \/ pcV = "idle" /\ pcV' = "ensure" /\ frame_id' = frame_id + 1
        \/ pcV # "idle" /\ frame_id' = frame_id
        \/ pcV' = pcV /\ frame_id' = frame_id
    BY DEF Next, Snapshot, ensure_encoder, EncodeOk, EncodeFails, StagingChanged, SessionStart,
           SessionEnd, SettingsChanged, ReceiveFeedback, poll, update_stream_description, take_frames,
           begin_video_frame, PumpReturns, finish_video_frame, SendError, FloorExpires,
           vars, encoderVars
  <1>3. EncodeOk => pcV = "encode" /\ pcV' = "idle" /\ frame_id' = frame_id
    BY DEF EncodeOk
  <1>4. Latest \in Nat /\ Latest' \in Nat
    BY <1>1, <1>2 DEF Latest
  <1>5. Latest <= Latest'
    BY <1>1, <1>2 DEF Latest
  <1> QED BY <1>3, <1>4, <1>5 DEF Latest

(* The empty queue is in order.                                            *)
LEMMA NothingQueued ==
  /\ Ordered(<<>>) /\ (\A q : Cross(q, <<>>) /\ Cross(<<>>, q))
  /\ (\A n : Under(<<>>, n)) /\ (\A had : Over(<<>>, had))
  BY DEF Ordered, Cross, Under, Over

(* The encoder thread hands over a frame.                                  *)
LEMMA EncodeOrder ==
  ASSUME TypeOK, ThreadInv, OrderInv, EncodeOk, [Next]_vars
  PROVE  OrderInv'
  <1>1. /\ frames_ \in Seq(EncodedFrame) /\ video_queue_ \in Seq(EncodedFrame) /\ frame_id \in Nat
        /\ kMaxQueued \in Nat /\ got \in [Eye -> FrameId]
        /\ BothEyes \in Seq(EncodedFrame) /\ Len(BothEyes) = 2
        /\ BothEyes[1] = Encoded(0) /\ BothEyes[2] = Encoded(1)
    BY EncodedTypes, VideoAssumption DEF TypeOK, FrameId
  <1>2. UNCHANGED <<video_queue_, got, pcS>> /\ Latest = frame_id /\ Latest' = frame_id + 1
    BY LatestGrows DEF EncodeOk, queueVars, headsetVars
  <1>3. Under(video_queue_, frame_id + 1) /\ Under(frames_, frame_id + 1)
    BY <1>1, <1>2, UnderMore DEF OrderInv
  <1>4. \A i \in 1 .. Len(BothEyes) : BothEyes[i].frame_id = frame_id /\ BothEyes[i].eye = i - 1
    BY <1>1 DEF Encoded
  <1>5. Ordered(BothEyes) /\ Under(BothEyes, frame_id + 1) /\ Over(BothEyes, got)
    <2>1. Ordered(BothEyes)
      BY <1>1, <1>4 DEF Ordered, Before
    <2>2. Under(BothEyes, frame_id + 1)
      BY <1>1, <1>4 DEF Under
    <2>3. \A i \in 1 .. Len(BothEyes) : BothEyes[i].eye \in Eye
      BY <1>1, <1>4 DEF Eye
    <2>4. Over(BothEyes, got)
      BY <1>1, <1>2, <1>4, <2>3 DEF Over, OrderInv, FrameId
    <2> QED BY <2>1, <2>2, <2>4
  <1>6. ASSUME NEW q \in Seq(EncodedFrame), Under(q, frame_id) PROVE Cross(q, BothEyes)
    <2>1. \A i \in 1 .. Len(q) : q[i].frame_id \in Nat
      BY Ids
    <2> QED BY <1>1, <1>4, <1>6, <2>1 DEF Cross, Under, Before
  <1>7. Cross(video_queue_, BothEyes) /\ Cross(frames_, BothEyes)
    BY <1>1, <1>2, <1>6 DEF OrderInv
  <1>8. CASE frames_' = frames_
    <2>1. \A e \in Eye : got[e] < frame_id + 1
      BY <1>1, <1>2 DEF OrderInv, FrameId
    <2> QED BY <1>2, <1>3, <1>8, <2>1 DEF OrderInv
  <1>9. CASE frames_' = DropOldest(frames_ \o BothEyes, 0, kMaxQueued)
    <2> DEFINE q == frames_ \o BothEyes
    <2>1. q \in Seq(EncodedFrame)
      BY <1>1
    <2>2. /\ Ordered(q) /\ Cross(video_queue_, q) /\ Under(q, frame_id + 1)
          /\ pcS # "none" => Over(q, got)
      BY <1>1, <1>3, <1>5, <1>7, RowKeeps DEF OrderInv
    <2>3. frames_' = DropOldest(q, 0, kMaxQueued)
      BY <1>9
    <2> HIDE DEF q
    <2>4. 0 \in 0 .. 1 /\ 0 <= Len(q) /\ Len(q) \in Nat
      BY <2>1
    <2>5. PICK k \in 0 .. Len(q) - 0 :
             /\ DropOldest(q, 0, kMaxQueued) \in Seq(EncodedFrame)
             /\ Cut(q, DropOldest(q, 0, kMaxQueued), 0, k)
      BY <1>1, <2>1, <2>4, DropOldestIs
    <2>6. Within(frames_', q)
      BY <2>1, <2>3, <2>4, <2>5, CutWithin
    <2>7. /\ Ordered(frames_') /\ Cross(video_queue_, frames_') /\ Under(frames_', frame_id + 1)
          /\ pcS # "none" => Over(frames_', got)
      BY <2>2, <2>6, WithinKeeps
    <2> QED BY <1>1, <1>2, <1>3, <2>7 DEF OrderInv, FrameId
  <1> QED BY <1>8, <1>9 DEF EncodeOk, push_frames, BothEyes

(* The session takes what the encoder thread left.                         *)
LEMMA TakeOrder ==
  ASSUME TypeOK, ThreadInv, OrderInv, take_frames
  PROVE  OrderInv'
  <1>1. /\ frames_ \in Seq(EncodedFrame) /\ video_queue_ \in Seq(EncodedFrame)
        /\ kMaxVideoQueued \in Nat
    BY VideoAssumption DEF TypeOK
  <1>2. UNCHANGED <<got, pcV, frame_id>> /\ frames_' = <<>> /\ pcS # "none"
    BY DEF take_frames, encoderVars, headsetVars
  <1>3. Latest' = Latest
    BY <1>2 DEF Latest
  <1>4. ASSUME /\ Ordered(video_queue_') /\ Under(video_queue_', Latest) /\ Over(video_queue_', got)
        PROVE  OrderInv'
    BY <1>2, <1>3, <1>4, NothingQueued DEF OrderInv
  <1>5. CASE video_queue_' = video_queue_
    BY <1>2, <1>4, <1>5 DEF OrderInv
  <1>6. CASE video_queue_' = DropOldest(video_queue_ \o frames_, Working, kMaxVideoQueued)
    <2> DEFINE q == video_queue_ \o frames_
               w == Working
    <2>1. q \in Seq(EncodedFrame) /\ w \in 0 .. 1 /\ w <= Len(q)
      BY WorkingIs
    <2>2. Ordered(q) /\ Under(q, Latest) /\ Over(q, got)
      BY <1>1, <1>2, RowKeeps DEF OrderInv
    <2>3. video_queue_' = DropOldest(q, w, kMaxVideoQueued)
      BY <1>6
    <2> HIDE DEF q, w
    <2>4. PICK k \in 0 .. Len(q) - w :
             /\ DropOldest(q, w, kMaxVideoQueued) \in Seq(EncodedFrame)
             /\ Cut(q, DropOldest(q, w, kMaxVideoQueued), w, k)
      BY <1>1, <2>1, DropOldestIs
    <2>5. Within(video_queue_', q)
      BY <2>1, <2>3, <2>4, CutWithin
    <2> QED BY <1>4, <2>2, <2>5, WithinKeeps
  <1> QED BY <1>5, <1>6 DEF take_frames, Working

(* The sender is done with the head of the queue.                          *)
LEMMA SentOrder ==
  ASSUME TypeOK, ThreadInv, OrderInv, finish_video_frame \/ SendError
  PROVE  OrderInv'
  <1> DEFINE frame == Head(video_queue_)
  <1>1. /\ video_queue_ \in Seq(EncodedFrame) /\ video_queue_ # <<>> /\ pcS # "none"
        /\ UNCHANGED <<pcV, frame_id, pcS, frames_>> /\ video_queue_' = Tail(video_queue_)
        /\ frames_ \in Seq(EncodedFrame) /\ got \in [Eye -> FrameId]
    BY DEF finish_video_frame, SendError, ThreadInv, TypeOK, encoderVars, bridgeVars
  <1>2. /\ frame \in EncodedFrame /\ frame = video_queue_[1]
        /\ Len(video_queue_) \in Nat \ {0} /\ Len(Tail(video_queue_)) = Len(video_queue_) - 1
        /\ \A i \in 1 .. Len(video_queue_) - 1 : Tail(video_queue_)[i] = video_queue_[i + 1]
    BY <1>1, QueueHead
  <1>3. Latest' = Latest
    BY <1>1 DEF Latest
  <1>4. Within(video_queue_', video_queue_)
    BY <1>1, TailWithin
  <1>5. /\ Ordered(video_queue_') /\ Cross(video_queue_', frames_) /\ Under(video_queue_', Latest)
        /\ Over(video_queue_', got)
    BY <1>1, <1>4, WithinKeeps DEF OrderInv
  <1>6. CASE got' = got
    BY <1>1, <1>3, <1>5, <1>6 DEF OrderInv
  <1>7. CASE got' = [got EXCEPT ![frame.eye] = frame.frame_id]
    <2>1. frame.eye \in Eye /\ frame.frame_id \in FrameId
      BY <1>2 DEF EncodedFrame
    <2>2. \A e \in Eye : got'[e] < Latest
      BY <1>1, <1>2, <1>7, <2>1 DEF OrderInv, Under
    <2>3. Over(video_queue_', got')
      <3>1. ASSUME NEW i \in 1 .. Len(video_queue_')
            PROVE  /\ Before(frame, video_queue_'[i]) /\ video_queue_'[i].eye \in Eye
                   /\ video_queue_'[i].frame_id > got[video_queue_'[i].eye]
        <4>1. video_queue_'[i] = video_queue_[i + 1] /\ i + 1 \in 2 .. Len(video_queue_)
          BY <1>1, <1>2
        <4>2. 1 \in 1 .. Len(video_queue_) /\ 1 < i + 1 /\ i + 1 \in 1 .. Len(video_queue_)
          BY <1>2, <4>1
        <4>3. Before(video_queue_[1], video_queue_[i + 1])
          BY <4>2 DEF OrderInv, Ordered
        <4>4. video_queue_[i + 1] \in EncodedFrame
          BY <1>1, <4>2
        <4> QED BY <1>2, <1>5, <4>1, <4>3, <4>4 DEF Over, EncodedFrame
      <3> QED BY <1>1, <1>7, <2>1, <3>1 DEF Over, Before, FrameId
    <2>4. Over(frames_, got')
      <3>1. ASSUME NEW i \in 1 .. Len(frames_)
            PROVE  /\ Before(frame, frames_[i]) /\ frames_[i].eye \in Eye
                   /\ frames_[i].frame_id > got[frames_[i].eye]
        <4>1. 1 \in 1 .. Len(video_queue_) /\ frames_[i] \in EncodedFrame
          BY <1>1, <1>2
        <4>2. Before(video_queue_[1], frames_[i])
          BY <4>1 DEF OrderInv, Cross
        <4> QED BY <1>1, <1>2, <4>1, <4>2 DEF Over, EncodedFrame, OrderInv
      <3> QED BY <1>1, <1>7, <2>1, <3>1 DEF Over, Before, FrameId
    <2> QED BY <1>1, <1>3, <1>5, <2>2, <2>3, <2>4 DEF OrderInv
  <1>8. got' = got \/ got' = [got EXCEPT ![frame.eye] = frame.frame_id]
    BY DEF finish_video_frame, SendError, HeadsetGets, headsetVars
  <1> QED BY <1>6, <1>7, <1>8

(* Every step keeps the frames of each eye in encoding order in both queues, and
   everything queued newer than what was sent. *)
LEMMA OrderStep ==
  ASSUME TypeOK, ThreadInv, OrderInv, [Next]_vars
  PROVE  OrderInv'
  <1>1. /\ frames_ \in Seq(EncodedFrame) /\ video_queue_ \in Seq(EncodedFrame)
        /\ got \in [Eye -> FrameId] /\ Latest \in Nat /\ Latest' \in Nat /\ Latest <= Latest'
        /\ frame_id \in Nat
    BY LatestGrows, VideoAssumption DEF TypeOK, FrameId
  <1>2. Under(video_queue_, Latest') /\ Under(frames_, Latest') /\ \A e \in Eye : got[e] < Latest'
    <2>1. Under(video_queue_, Latest') /\ Under(frames_, Latest')
      BY <1>1, UnderMore DEF OrderInv
    <2>2. \A e \in Eye : got[e] < Latest'
      BY <1>1 DEF OrderInv, FrameId
    <2> QED BY <2>1, <2>2
  <1>3. CASE EncodeOk
    BY <1>3, EncodeOrder
  <1>4. CASE take_frames
    BY <1>4, TakeOrder
  <1>5. CASE finish_video_frame \/ SendError
    BY <1>5, SentOrder
  <1>6. CASE SessionStart
    <2>1. /\ video_queue_' = <<>> /\ frames_' = <<>> /\ got' = [e \in Eye |-> 0]
          /\ UNCHANGED <<pcV, frame_id>>
      BY <1>6 DEF SessionStart, set_client, ThreadInv, encoderVars
    <2>2. 0 < Latest
      BY <1>1 DEF Latest, ThreadInv
    <2>3. \A e \in Eye : got'[e] < Latest'
      BY <1>1, <2>1, <2>2
    <2> QED BY <2>1, <2>3, NothingQueued DEF OrderInv
  <1>7. CASE SessionEnd
    <2>1. frames_' = <<>> /\ pcS' = "none" /\ UNCHANGED <<video_queue_, got>>
      BY <1>7 DEF SessionEnd, clear_client, queueVars, headsetVars
    <2> QED BY <1>1, <1>2, <2>1, NothingQueued DEF OrderInv
  <1>8. CASE UNCHANGED <<frames_, video_queue_, got>> /\ (pcS' # "none" => pcS # "none")
    <2>1. /\ Ordered(video_queue_)' /\ Ordered(frames_)' /\ Cross(video_queue_, frames_)'
          /\ Under(video_queue_', Latest') /\ Under(frames_', Latest')
      BY <1>2, <1>8 DEF OrderInv
    <2>2. \A e \in Eye : got'[e] < Latest'
      BY <1>2, <1>8
    <2>3. pcS' # "none" => Over(video_queue_', got') /\ Over(frames_', got')
      BY <1>8 DEF OrderInv
    <2> QED BY <2>1, <2>2, <2>3 DEF OrderInv
  <1>9. \/ EncodeOk \/ take_frames \/ finish_video_frame \/ SendError \/ SessionStart \/ SessionEnd
        \/ UNCHANGED <<frames_, video_queue_, got>> /\ (pcS' # "none" => pcS # "none")
    BY DEF Next, Snapshot, ensure_encoder, EncodeFails, StagingChanged, SettingsChanged,
           ReceiveFeedback, poll, update_stream_description, begin_video_frame, PumpReturns, FloorExpires,
           request_idr, set_client, on_feedback, vars, bridgeVars, queueVars, headsetVars
  <1> QED BY <1>3, <1>4, <1>5, <1>6, <1>7, <1>8, <1>9

(* What goes out next was encoded after all that the headset has, and the  *)
(* queues are in the order of encoding (SentInOrder, in one state).        *)
LEMMA OrderMeans ==
  ASSUME TypeOK, OrderInv
  PROVE  SentInOrder
  <1>1. frames_ \in Seq(EncodedFrame) /\ video_queue_ \in Seq(EncodedFrame)
    BY DEF TypeOK
  <1> DEFINE q == video_queue_ \o frames_
  <1>2. Ordered(q) /\ q \in Seq(EncodedFrame)
    BY <1>1, RowKeeps DEF OrderInv
  <1>3. \A i \in 1 .. Len(q) - 1 : q[i].frame_id <= q[i + 1].frame_id
    <2> HIDE DEF q
    <2>1. \A i \in 1 .. Len(q) - 1 : i \in 1 .. Len(q) /\ i + 1 \in 1 .. Len(q) /\ i < i + 1
      BY <1>2
    <2> QED BY <1>2, <2>1 DEF Ordered, Before
  <1>4. ASSUME pcS # "none", video_queue_ # <<>>
        PROVE  Head(video_queue_).frame_id > got[Head(video_queue_).eye]
    <2>1. Head(video_queue_) = video_queue_[1] /\ 1 \in 1 .. Len(video_queue_)
      BY <1>1, <1>4, QueueHead
    <2> QED BY <1>4, <2>1 DEF OrderInv, Over
  <1> QED BY <1>3, <1>4 DEF SentInOrder

-----------------------------------------------------------------------------
IInv == TypeOK /\ ThreadInv /\ OrderInv

(* The invariant holds before the first client. *)
LEMMA VideoInit ==
  ASSUME Init
  PROVE  IInv
  <1>1. <<>> \in Seq(EncodedFrame) /\ <<>> \in Seq(Feedback) /\ Len(<<>>) = 0
    OBVIOUS
  <1>2. 0 \in FrameId /\ 0 \in 0 .. MaxClients /\ 0 \in 0 .. MaxRebuilds /\ stream_ \in Stream
    <2>1. 0 \in FrameId /\ 0 \in 0 .. MaxClients /\ 0 \in 0 .. MaxRebuilds
      BY VideoAssumption DEF FrameId
    <2>2. stream_ \in [info : Infos, valid : {FALSE}, generation : {0}]
      BY DEF Init
    <2>3. FALSE \in BOOLEAN /\ 0 \in Nat
      OBVIOUS
    <2> QED BY <2>1, <2>2, <2>3 DEF Stream
  <1>3. stream_.info \in Infos
    BY <1>2 DEF Stream
  <1>4. BridgeTypeOK
    BY <1>2 DEF Init, BridgeTypeOK
  <1>5. EncoderTypeOK
    BY <1>2 DEF Init, EncoderTypeOK
  <1>6. QueueTypeOK
    <2>1. frames_ = <<>> /\ video_queue_ = <<>> /\ pcS = "none" /\ sending = FALSE
      BY DEF Init
    <2>2. /\ frames_ \in Seq(EncodedFrame) /\ Len(frames_) = 0
          /\ video_queue_ \in Seq(EncodedFrame) /\ Len(video_queue_) = 0
      BY <1>1, <2>1
    <2>3. 0 <= kMaxQueued /\ 0 <= kMaxVideoQueued
      BY VideoAssumption
    <2> QED BY <2>1, <2>2, <2>3 DEF QueueTypeOK
  <1>7. SessionTypeOK
    BY <1>2, <1>3 DEF Init, SessionTypeOK
  <1>8. HeadsetTypeOK
    BY <1>1, <1>2 DEF Init, HeadsetTypeOK
  <1>9. ThreadInv
    BY DEF Init, ThreadInv
  <1>10. OrderInv
    BY NothingQueued DEF Init, OrderInv, Latest
  <1> QED BY <1>4, <1>5, <1>6, <1>7, <1>8, <1>9, <1>10, TypeParts DEF IInv

(* Every step keeps the invariant. *)
LEMMA VideoStep ==
  ASSUME IInv, [Next]_vars
  PROVE  IInv'
  <1>1. /\ BridgeTypeOK' /\ EncoderTypeOK' /\ QueueTypeOK' /\ SessionTypeOK' /\ HeadsetTypeOK'
    BY BridgeStep, EncoderStep, QueueStep, SessionStep, HeadsetStep DEF IInv
  <1>2. TypeOK'
    BY <1>1 DEF TypeOK, BridgeTypeOK, EncoderTypeOK, QueueTypeOK, SessionTypeOK, HeadsetTypeOK,
                Stream, Feedback
  <1> QED BY <1>2, ThreadStep, OrderStep DEF IInv

(* The invariant the theorems rest on.                                     *)
THEOREM VideoInvariant == Spec => []IInv
  <1>1. Init => IInv
    BY VideoInit
  <1>2. IInv /\ [Next]_vars => IInv'
    BY VideoStep
  <1> QED BY <1>1, <1>2, PTL DEF Spec

(* Type correctness: the queues of VideoBridge and Session stay within     *)
(* their bounds, whatever the encoder thread and the session do.           *)
THEOREM VideoTypeOK == Spec => []TypeOK
  <1>1. IInv => TypeOK
    BY DEF IInv
  <1> QED BY <1>1, VideoInvariant, PTL

(* SentInOrder for any queue sizes, frames and clients: each stream of a   *)
(* session is sent in the order it was encoded, also across full queues,   *)
(* lost frames and what another client left.                               *)
THEOREM VideoSentInOrder == Spec => []SentInOrder
  <1>1. IInv => SentInOrder
    BY OrderMeans DEF IInv
  <1> QED BY <1>1, VideoInvariant, PTL

-----------------------------------------------------------------------------
(* Key frames.  IdrTracker asks once and then waits; what it waits for is  *)
(* lost only if a full queue or a socket error takes it.                   *)

KeyIn(q) == \E i \in 1 .. Len(q) : q[i].idr = TRUE

(* A step that loses no key frame of the session.                          *)
KeyFramesKept ==
  /\ EncodeOk /\ active = TRUE /\ (KeyIn(frames_) \/ force_idr) => KeyIn(frames_')
  /\ take_frames /\ (KeyIn(frames_) \/ KeyIn(video_queue_)) => KeyIn(video_queue_')
  /\ SendError => Head(video_queue_).idr # TRUE

(* No key frame was made for a request that has yet to be made.            *)
RequestInv ==
  /\ idr_seen_ <= idr_generation /\ request.idr_generation <= idr_generation
  /\ pcS # "none" => idr_generation >= 1

WaitInv ==
  pcS # "none" /\ state_ = "need_idr" /\ pending_ # TRUE
    => IdrRequested \/ KeyIn(frames_) \/ KeyIn(video_queue_)

(* A key frame is queued for some eye exactly when one of the two queues holds one. *)
LEMMA KeyQueued ==
  ASSUME TypeOK
  PROVE  (\E e \in Eye : QueuedIdr(e)) <=> KeyIn(frames_) \/ KeyIn(video_queue_)
  <1>1. ASSUME NEW q \in Seq(EncodedFrame)
        PROVE  (\E e \in Eye : \E i \in DOMAIN q : q[i].idr /\ q[i].eye = e) <=> KeyIn(q)
    <2>1. DOMAIN q = 1 .. Len(q)
      OBVIOUS
    <2>2. \A i \in 1 .. Len(q) : q[i] \in EncodedFrame
      OBVIOUS
    <2>3. \A i \in 1 .. Len(q) : q[i].idr \in BOOLEAN /\ q[i].eye \in Eye
      BY <2>2 DEF EncodedFrame
    <2> QED BY <2>1, <2>3, Zenon DEF KeyIn
  <1>2. frames_ \in Seq(EncodedFrame) /\ video_queue_ \in Seq(EncodedFrame)
    BY DEF TypeOK
  <1>3. \A e \in Eye : QueuedIdr(e) <=>
          \/ \E i \in DOMAIN frames_ : frames_[i].idr /\ frames_[i].eye = e
          \/ \E i \in DOMAIN video_queue_ : video_queue_[i].idr /\ video_queue_[i].eye = e
    BY Zenon DEF QueuedIdr
  <1> QED BY <1>1, <1>2, <1>3, Zenon

(* What encode_one has read of the IDR generation never runs ahead of it, and a session
   has asked for at least one key frame. *)
LEMMA RequestStep ==
  ASSUME TypeOK, RequestInv, [Next]_vars
  PROVE  RequestInv'
  <1>1. /\ idr_generation \in Nat /\ idr_seen_ \in Nat /\ request.idr_generation \in Nat
        /\ idr_generation' \in {idr_generation, idr_generation + 1}
    BY BridgeMoves DEF TypeOK
  <1>2. /\ idr_seen_' \in {idr_seen_, 0, request.idr_generation}
        /\ request'.idr_generation \in {request.idr_generation, idr_generation}
    <2>1. idr_seen_' \in {idr_seen_, 0, request.idr_generation}
      BY DEF Next, Snapshot, ensure_encoder, EncodeOk, EncodeFails, StagingChanged, SessionStart,
             SessionEnd, SettingsChanged, ReceiveFeedback, poll, update_stream_description, take_frames,
             begin_video_frame, PumpReturns, finish_video_frame, SendError, FloorExpires,
             vars, encoderVars
    <2>2. \/ request' = request
          \/ request' = [config_generation |-> config_generation, idr_generation |-> idr_generation]
      BY DEF Next, Snapshot, ensure_encoder, EncodeOk, EncodeFails, StagingChanged, SessionStart,
             SessionEnd, SettingsChanged, ReceiveFeedback, poll, update_stream_description, take_frames,
             begin_video_frame, PumpReturns, finish_video_frame, SendError, FloorExpires,
             vars, encoderVars
    <2>3. request'.idr_generation \in {request.idr_generation, idr_generation}
      BY <2>2
    <2> QED BY <2>1, <2>3
  <1>3. \/ pcS' = "none" \/ pcS # "none" \/ idr_generation' = idr_generation + 1
    BY DEF Next, Snapshot, ensure_encoder, EncodeOk, EncodeFails, StagingChanged, SessionStart,
           SessionEnd, SettingsChanged, ReceiveFeedback, poll, update_stream_description, take_frames,
           begin_video_frame, PumpReturns, finish_video_frame, SendError, FloorExpires,
           set_client, vars
  <1>4. idr_seen_' <= idr_generation' /\ request'.idr_generation <= idr_generation'
    BY <1>1, <1>2 DEF RequestInv
  <1> QED BY <1>1, <1>3, <1>4 DEF RequestInv

(* The encoder thread makes the key frame, or leaves the request standing. *)
LEMMA EncodeWaits ==
  ASSUME TypeOK, ThreadInv, WaitInv, EncodeOk, KeyFramesKept
  PROVE  WaitInv'
  <1>1. /\ UNCHANGED <<pcS, state_, pending_, video_queue_, idr_generation, config_generation,
                       encoder_ready_, encoder_config_generation_, active>>
        /\ idr_seen_' = request.idr_generation
        /\ frames_' = IF active THEN DropOldest(frames_ \o BothEyes, 0, kMaxQueued) ELSE frames_
    BY DEF EncodeOk, push_frames, queueVars, trackerVars, requestVars, BothEyes
  <1>2. SUFFICES ASSUME pcS # "none", state_ = "need_idr", pending_ # TRUE
                 PROVE  (IdrRequested \/ KeyIn(frames_) \/ KeyIn(video_queue_))'
    BY <1>1 DEF WaitInv
  <1>3. active = TRUE
    BY <1>2 DEF ThreadInv
  <1>4. CASE KeyIn(video_queue_)
    BY <1>1, <1>4
  <1>5. CASE KeyIn(frames_) \/ force_idr
    BY <1>3, <1>5 DEF KeyFramesKept
  <1>6. CASE IdrRequested /\ ~force_idr
    BY <1>1, <1>6 DEF IdrRequested, force_idr
  <1> QED BY <1>2, <1>4, <1>5, <1>6 DEF WaitInv

(* The sender is done with the head of the queue.                          *)
LEMMA SendWaits ==
  ASSUME TypeOK, ThreadInv, WaitInv, KeyFramesKept, finish_video_frame \/ SendError
  PROVE  WaitInv'
  <1> DEFINE frame == Head(video_queue_)
  <1>1. /\ video_queue_ \in Seq(EncodedFrame) /\ video_queue_ # <<>>
        /\ UNCHANGED <<pcS, frames_, idr_generation, config_generation, encoder_ready_,
                       encoder_config_generation_, idr_seen_>>
        /\ video_queue_' = Tail(video_queue_)
    BY DEF finish_video_frame, SendError, ThreadInv, TypeOK, encoderVars, bridgeVars
  <1>2. /\ frame \in EncodedFrame /\ frame = video_queue_[1]
        /\ Len(video_queue_) \in Nat \ {0} /\ Len(Tail(video_queue_)) = Len(video_queue_) - 1
        /\ \A i \in 1 .. Len(video_queue_) - 1 : Tail(video_queue_)[i] = video_queue_[i + 1]
    BY <1>1, QueueHead
  <1>3. frame.idr \in BOOLEAN /\ pending_ \in BOOLEAN
    BY <1>2 DEF EncodedFrame, TypeOK
  <1>4. IdrRequested' = IdrRequested /\ KeyIn(frames_') = KeyIn(frames_)
    BY <1>1 DEF IdrRequested
  <1>5. CASE frame.idr = TRUE
    <2>1. finish_video_frame
      BY <1>5 DEF KeyFramesKept
    <2>2. state_' = "wait_idr_feedback"
      BY <1>5, <2>1 DEF finish_video_frame, on_frame_sent
    <2> QED BY <2>2 DEF WaitInv
  <1>6. CASE frame.idr = FALSE
    <2>1. ASSUME KeyIn(video_queue_) PROVE KeyIn(video_queue_')
      <3>1. PICK i \in 1 .. Len(video_queue_) : video_queue_[i].idr = TRUE
        BY <2>1 DEF KeyIn
      <3>2. i # 1
        BY <1>2, <1>6, <3>1
      <3>3. i - 1 \in 1 .. Len(Tail(video_queue_)) /\ i - 1 \in 1 .. Len(video_queue_) - 1 /\ (i - 1) + 1 = i
        BY <1>2, <3>1, <3>2
      <3>4. Tail(video_queue_)[i - 1] = video_queue_[i]
        BY <1>2, <3>3
      <3> QED BY <1>1, <3>1, <3>3, <3>4 DEF KeyIn
    <2>2. state_' = "need_idr" => state_ = "need_idr"
      BY <1>6 DEF finish_video_frame, SendError, on_frame_sent, trackerVars
    <2>3. pending_' = pending_
      <3>1. pending_' = (pending_ /\ ~frame.idr) \/ pending_' = pending_
        BY DEF finish_video_frame, SendError, on_frame_sent, trackerVars
      <3> QED BY <1>3, <1>6, <3>1, Zenon
    <2> QED BY <1>1, <1>4, <2>1, <2>2, <2>3 DEF WaitInv
  <1> QED BY <1>3, <1>5, <1>6

(* One more request is one the encoder has not seen.                       *)
LEMMA NewRequest ==
  ASSUME TypeOK, RequestInv, idr_generation' = idr_generation + 1, UNCHANGED idr_seen_
  PROVE  IdrRequested'
  BY DEF IdrRequested, RequestInv, TypeOK

(* A step that loses no last key frame leaves an IdrTracker that waits with a key frame
   requested, being encoded or queued. *)
LEMMA WaitStep ==
  ASSUME TypeOK, ThreadInv, RequestInv, WaitInv, [Next]_vars, [KeyFramesKept]_vars
  PROVE  WaitInv'
  <1>1. CASE EncodeOk
    <2>1. pcV' # pcV
      BY <1>1 DEF EncodeOk
    <2>2. KeyFramesKept
      BY <2>1 DEF vars, encoderVars
    <2> QED BY <1>1, <2>2, EncodeWaits
  <1>2. CASE finish_video_frame \/ SendError
    <2>1. sending' # sending
      <3>1. sending = TRUE
        BY <1>2 DEF finish_video_frame, SendError, TypeOK
      <3>2. sending' = FALSE
        BY <1>2 DEF finish_video_frame, SendError
      <3> QED BY <3>1, <3>2
    <2>2. KeyFramesKept
      BY <2>1 DEF vars, queueVars
    <2> QED BY <1>2, <2>2, SendWaits
  <1>3. CASE take_frames
    <2>1. pcS' # pcS
      BY <1>3 DEF take_frames
    <2>2. KeyFramesKept
      BY <2>1 DEF vars
    <2>3. /\ pcS # "none" /\ UNCHANGED <<state_, pending_, idr_generation, config_generation,
                       encoder_ready_, encoder_config_generation_, idr_seen_>>
      BY <1>3 DEF take_frames, trackerVars, requestVars, encoderVars
    <2>4. IdrRequested' = IdrRequested
      BY <2>3 DEF IdrRequested
    <2> QED BY <1>3, <2>2, <2>3, <2>4 DEF WaitInv, KeyFramesKept
  <1>4. CASE ensure_encoder
    <2>1. /\ UNCHANGED <<pcS, state_, pending_, frames_, video_queue_, idr_generation, config_generation>>
          /\ encoder_config_generation_' = request.config_generation
      BY <1>4 DEF ensure_encoder, requestVars, queueVars, trackerVars
    <2>2. CASE encoder_ready_' = FALSE
      BY <2>2 DEF IdrRequested, WaitInv
    <2>3. CASE idr_seen_' = 0
      BY <2>1, <2>3 DEF IdrRequested, WaitInv, RequestInv, TypeOK
    <2>4. CASE /\ UNCHANGED <<encoder_ready_, idr_seen_>>
               /\ encoder_config_generation_ = request.config_generation
      BY <2>1, <2>4 DEF IdrRequested, WaitInv
    <2> QED BY <1>4, <2>2, <2>3, <2>4 DEF ensure_encoder
  <1>5. CASE idr_generation' = idr_generation + 1 /\ UNCHANGED idr_seen_
    BY <1>5, NewRequest DEF WaitInv
  <1>6. CASE ReceiveFeedback /\ UNCHANGED bridgeVars
    <2>1. /\ UNCHANGED <<pcS, frames_, video_queue_, idr_generation, config_generation,
                       encoder_ready_, encoder_config_generation_, idr_seen_>>
      BY <1>6 DEF ReceiveFeedback, bridgeVars, encoderVars, queueVars
    <2>2. \/ state_' = "need_idr" /\ pending_' = TRUE
          \/ state_' # "need_idr"
          \/ state_' = state_ /\ pending_' = pending_
      <3> DEFINE f == Head(feedback)
      <3>1. on_feedback(f)
        BY <1>6 DEF ReceiveFeedback
      <3>2. CASE NeedsIdr(f)
        <4>1. floor = TRUE \/ floor = FALSE
          BY DEF TypeOK
        <4>2. CASE floor = FALSE
          <5>1. idr_generation' = idr_generation + 1
            BY <3>1, <3>2, <4>2 DEF on_feedback, request_idr
          <5> QED BY <2>1, <5>1 DEF TypeOK
        <4>3. CASE floor = TRUE
          BY <3>1, <3>2, <4>3 DEF on_feedback
        <4> QED BY <4>1, <4>2, <4>3
      <3>3. CASE ~NeedsIdr(f)
        BY <3>1, <3>3 DEF on_feedback
      <3> QED BY <3>2, <3>3
    <2> QED BY <2>1, <2>2 DEF WaitInv, IdrRequested
  <1>7. CASE pcS' = "none" \/ encoder_ready_' = FALSE
    BY <1>7 DEF WaitInv, IdrRequested
  <1>8. CASE UNCHANGED <<state_, pending_, frames_, video_queue_, idr_generation, config_generation,
                       encoder_ready_, encoder_config_generation_, idr_seen_>> /\ (pcS' # "none" => pcS # "none")
    BY <1>8 DEF WaitInv, IdrRequested
  <1>9. \/ EncodeOk \/ finish_video_frame \/ SendError \/ take_frames \/ ensure_encoder
        \/ idr_generation' = idr_generation + 1 /\ UNCHANGED idr_seen_
        \/ ReceiveFeedback /\ UNCHANGED bridgeVars
        \/ pcS' = "none" \/ encoder_ready_' = FALSE
        \/ UNCHANGED <<state_, pending_, frames_, video_queue_, idr_generation, config_generation,
                       encoder_ready_, encoder_config_generation_, idr_seen_>> /\ (pcS' # "none" => pcS # "none")
    <2>1. CASE ReceiveFeedback
      BY <2>1 DEF ReceiveFeedback, on_feedback, request_idr, encoderVars
    <2>2. CASE SessionStart \/ SettingsChanged \/ poll \/ update_stream_description
      BY <2>2 DEF SessionStart, SettingsChanged, poll, update_stream_description, set_client, request_idr,
                  bridgeVars, encoderVars, queueVars, trackerVars
    <2>3. CASE ~ReceiveFeedback /\ ~SessionStart /\ ~SettingsChanged /\ ~poll /\ ~update_stream_description
      BY <2>3 DEF Next, Snapshot, EncodeFails, StagingChanged, SessionEnd, begin_video_frame,
                  PumpReturns, FloorExpires, vars, bridgeVars, requestVars, encoderVars, queueVars, trackerVars
    <2> QED BY <2>1, <2>2, <2>3
  <1> QED BY <1>1, <1>2, <1>3, <1>4, <1>5, <1>6, <1>7, <1>8, <1>9

(* IdrOnItsWay, whatever the encoder, the sessions and the reports do, for *)
(* any queue sizes: IdrTracker waits for a key frame only while one is     *)
(* queued or the encoder will make it, as long as no full queue and no     *)
(* socket error takes the key frame that answers the request.              *)
THEOREM VideoIdrOnItsWay == Spec /\ [][KeyFramesKept]_vars => []IdrOnItsWay
  <1> DEFINE Inv == RequestInv /\ WaitInv
  <1>1. Init => Inv
    <2>1. Init => RequestInv
      BY DEF Init, RequestInv
    <2>2. Init => WaitInv
      BY DEF Init, WaitInv
    <2> QED BY <2>1, <2>2
  <1>2. IInv /\ Inv /\ [Next]_vars /\ [KeyFramesKept]_vars => Inv'
    BY RequestStep, WaitStep DEF IInv
  <1>3. IInv /\ Inv => IdrOnItsWay
    <2>1. IInv => pending_ \in BOOLEAN
      BY DEF IInv, TypeOK
    <2>2. ASSUME IInv, Inv PROVE IdrOnItsWay
      <3>1. pending_ # TRUE <=> ~pending_
        BY <2>1, <2>2
      <3> QED BY <2>2, <3>1, KeyQueued, Zenon DEF IdrOnItsWay, WaitInv, IInv
    <2> QED BY <2>2
  <1> HIDE DEF Inv
  <1> QED BY <1>1, <1>2, <1>3, VideoInvariant, PTL DEF Spec

(* Queues with room for every frame: two eye-frames of each that was       *)
(* encoded, and nothing dropped.                                           *)
RoomInv == Len(video_queue_) + Len(frames_) <= 2 * (Latest - 1)

(* With the run's bounds on the frames, both queues together never hold more than the
   frames encoded, so neither limit is reached. *)
LEMMA RoomStep ==
  ASSUME TypeOK, ThreadInv, RoomInv, [Next]_vars
  PROVE  RoomInv'
  <1>1. /\ frames_ \in Seq(EncodedFrame) /\ video_queue_ \in Seq(EncodedFrame)
        /\ Len(frames_) \in Nat /\ Len(video_queue_) \in Nat
        /\ kMaxQueued \in Nat /\ kMaxVideoQueued \in Nat
        /\ Latest \in Nat /\ Latest' \in Nat /\ Latest <= Latest'
        /\ EncodeOk => Latest' = Latest + 1
    BY LatestGrows, VideoAssumption DEF TypeOK
  <1>2. CASE EncodeOk
    <2>1. /\ UNCHANGED video_queue_
          /\ frames_' = frames_ \/ frames_' = DropOldest(frames_ \o BothEyes, 0, kMaxQueued)
      BY <1>2 DEF EncodeOk, push_frames, BothEyes, queueVars
    <2> DEFINE q == frames_ \o BothEyes
    <2>2. q \in Seq(EncodedFrame) /\ Len(q) = Len(frames_) + 2
      <3>1. BothEyes \in Seq(EncodedFrame) /\ Len(BothEyes) = 2
        BY EncodedTypes
      <3>2. q \in Seq(EncodedFrame) /\ Len(q) = Len(frames_) + Len(BothEyes)
        BY <1>1, <3>1, Joined
      <3> QED BY <3>1, <3>2
    <2> HIDE DEF q
    <2>3. 0 \in 0 .. 1 /\ 0 <= Len(q) /\ Len(q) \in Nat
      BY <2>2
    <2>4. PICK k \in 0 .. Len(q) - 0 : Cut(q, DropOldest(q, 0, kMaxQueued), 0, k)
      BY <1>1, <2>2, <2>3, DropOldestIs
    <2>5. Len(DropOldest(q, 0, kMaxQueued)) <= Len(frames_) + 2
      BY <2>2, <2>3, <2>4 DEF Cut
    <2>6. Len(DropOldest(q, 0, kMaxQueued)) \in Nat
      BY <2>3, <2>4 DEF Cut
    <2> QED BY <1>1, <1>2, <2>1, <2>5, <2>6 DEF RoomInv, q
  <1>3. CASE take_frames
    <2>1. /\ frames_' = <<>> /\ Len(<<>>) = 0
          /\ \/ video_queue_' = video_queue_
             \/ video_queue_' = DropOldest(video_queue_ \o frames_, Working, kMaxVideoQueued)
      BY <1>3 DEF take_frames, Working
    <2> DEFINE q == video_queue_ \o frames_
               w == Working
    <2>2. /\ q \in Seq(EncodedFrame) /\ w \in 0 .. 1 /\ w <= Len(q) /\ Len(q) \in Nat
          /\ Len(q) = Len(video_queue_) + Len(frames_)
      BY WorkingIs
    <2> HIDE DEF q, w
    <2>3. PICK k \in 0 .. Len(q) - w : Cut(q, DropOldest(q, w, kMaxVideoQueued), w, k)
      BY <1>1, <2>2, DropOldestIs
    <2>4. /\ Len(DropOldest(q, w, kMaxVideoQueued)) \in Nat
          /\ Len(DropOldest(q, w, kMaxVideoQueued)) <= Len(video_queue_) + Len(frames_)
      BY <2>2, <2>3 DEF Cut
    <2>5. /\ Len(video_queue_') \in Nat /\ Len(video_queue_') <= Len(video_queue_) + Len(frames_)
          /\ Len(frames_') = 0
      BY <1>1, <2>1, <2>4 DEF q, w
    <2> QED BY <1>1, <2>5 DEF RoomInv
  <1>4. CASE finish_video_frame \/ SendError
    <2>1. frames_' = frames_ /\ video_queue_' = Tail(video_queue_) /\ video_queue_ # <<>>
      BY <1>4 DEF finish_video_frame, SendError, bridgeVars, ThreadInv
    <2>2. Len(Tail(video_queue_)) = Len(video_queue_) - 1 /\ Len(video_queue_) \in Nat \ {0}
      BY <1>1, <2>1, QueueHead
    <2>3. Len(video_queue_') \in Nat /\ Len(video_queue_') <= Len(video_queue_)
      BY <2>1, <2>2
    <2> QED BY <1>1, <2>1, <2>3 DEF RoomInv
  <1>5. CASE SessionStart \/ SessionEnd
    <2>1. /\ frames_' = <<>> /\ Len(<<>>) = 0
          /\ video_queue_' = video_queue_ \/ video_queue_' = <<>>
      BY <1>5 DEF SessionStart, SessionEnd, set_client, clear_client, queueVars, ThreadInv
    <2>2. /\ Len(frames_') = 0
          /\ Len(video_queue_') = Len(video_queue_) \/ Len(video_queue_') = 0
      BY <2>1
    <2>3. Len(video_queue_') + Len(frames_') <= Len(video_queue_) + Len(frames_)
      BY <1>1, <2>2
    <2>4. Len(video_queue_') + Len(frames_') \in Nat
      BY <1>1, <2>2
    <2> QED BY <1>1, <2>3, <2>4 DEF RoomInv
  <1>6. CASE UNCHANGED <<frames_, video_queue_>>
    BY <1>1, <1>6 DEF RoomInv
  <1>7. \/ EncodeOk \/ take_frames \/ finish_video_frame \/ SendError \/ SessionStart \/ SessionEnd
        \/ UNCHANGED <<frames_, video_queue_>>
    BY DEF Next, Snapshot, ensure_encoder, EncodeFails, StagingChanged, SettingsChanged,
           ReceiveFeedback, poll, update_stream_description, begin_video_frame, PumpReturns, FloorExpires,
           request_idr, set_client, on_feedback, vars, bridgeVars, queueVars
  <1> QED BY <1>2, <1>3, <1>4, <1>5, <1>6, <1>7

(* With room in the queues and no socket error on a key frame no key frame *)
(* is lost.                                                                *)
LEMMA KeptStep ==
  ASSUME LoseIdr = FALSE, 2 * MaxFrame <= kMaxQueued, 2 * MaxFrame <= kMaxVideoQueued,
         TypeOK, ThreadInv, RoomInv, [Next]_vars
  PROVE  KeyFramesKept
  <1>1. /\ frames_ \in Seq(EncodedFrame) /\ video_queue_ \in Seq(EncodedFrame)
        /\ Len(frames_) \in Nat /\ Len(video_queue_) \in Nat /\ MaxFrame \in Nat
        /\ kMaxQueued \in Nat /\ kMaxVideoQueued \in Nat
        /\ frame_id \in Nat /\ frame_id <= MaxFrame
    BY VideoAssumption DEF TypeOK, FrameId
  <1>2. ASSUME NEW q \in Seq(EncodedFrame), NEW r, Cut(q, r, 0, 0) \/ Cut(q, r, 1, 0), KeyIn(q)
        PROVE  KeyIn(r)
    <2>1. Len(r) = Len(q) /\ Len(q) \in Nat
      BY <1>2 DEF Cut
    <2>2. \A i \in 1 .. Len(q) : r[i] = q[i]
      BY <1>2, <2>1 DEF Cut
    <2> QED BY <1>2, <2>1, <2>2 DEF KeyIn
  <1>3. ASSUME NEW q \in Seq(EncodedFrame), NEW r \in Seq(EncodedFrame), KeyIn(q) \/ KeyIn(r)
        PROVE  KeyIn(q \o r)
    <2>1. CASE KeyIn(q)
      <3>1. PICK i \in 1 .. Len(q) : q[i].idr = TRUE
        BY <2>1 DEF KeyIn
      <3>2. i \in 1 .. Len(q \o r) /\ (q \o r)[i] = q[i]
        OBVIOUS
      <3> QED BY <3>1, <3>2 DEF KeyIn
    <2>2. CASE KeyIn(r)
      <3>1. PICK i \in 1 .. Len(r) : r[i].idr = TRUE
        BY <2>2 DEF KeyIn
      <3>2. Len(q) + i \in 1 .. Len(q \o r) /\ (q \o r)[Len(q) + i] = r[i]
        OBVIOUS
      <3> QED BY <3>1, <3>2 DEF KeyIn
    <2> QED BY <1>3, <2>1, <2>2
  <1>4. ASSUME EncodeOk, active = TRUE, KeyIn(frames_) \/ force_idr PROVE KeyIn(frames_')
    <2> DEFINE q == frames_ \o BothEyes
    <2>1. frames_' = DropOldest(q, 0, kMaxQueued)
      BY <1>4 DEF EncodeOk, push_frames, BothEyes
    <2>2. q \in Seq(EncodedFrame) /\ Len(q) = Len(frames_) + 2 /\ BothEyes \in Seq(EncodedFrame)
      <3>1. BothEyes \in Seq(EncodedFrame) /\ Len(BothEyes) = 2
        BY EncodedTypes
      <3>2. q \in Seq(EncodedFrame) /\ Len(q) = Len(frames_) + Len(BothEyes)
        BY <1>1, <3>1, Joined
      <3> QED BY <3>1, <3>2
    <2>3. Latest = frame_id
      BY <1>4 DEF EncodeOk, Latest
    <2>4. Len(q) <= kMaxQueued
      BY <1>1, <2>2, <2>3 DEF RoomInv
    <2>5. force_idr => KeyIn(BothEyes)
      <3>1. 1 \in 1 .. Len(BothEyes) /\ BothEyes[1].idr = force_idr
        <4>1. Len(BothEyes) = 2 /\ BothEyes[1] = Encoded(0)
          BY EncodedTypes
        <4>2. Encoded(0).idr = force_idr
          BY DEF Encoded
        <4> QED BY <4>1, <4>2
      <3>2. force_idr = TRUE \/ force_idr = FALSE
        BY DEF force_idr
      <3> QED BY <3>1, <3>2 DEF KeyIn
    <2>6. KeyIn(q)
      BY <1>1, <1>3, <1>4, <2>2, <2>5
    <2> HIDE DEF q
    <2>7. 0 \in 0 .. 1 /\ 0 <= Len(q) /\ Len(q) \in Nat
      BY <2>2
    <2>8. PICK k \in 0 .. Len(q) - 0 :
             /\ DropOldest(q, 0, kMaxQueued) \in Seq(EncodedFrame)
             /\ Cut(q, DropOldest(q, 0, kMaxQueued), 0, k)
             /\ Len(q) - k <= kMaxQueued \/ Len(q) - k = 0
             /\ Len(q) <= kMaxQueued => k = 0
      <3>1. kMaxQueued \in Nat
        BY <1>1
      <3> QED BY <2>2, <2>7, <3>1, DropOldestIs
    <2> QED BY <1>2, <2>1, <2>2, <2>4, <2>6, <2>8
  <1>5. ASSUME take_frames, KeyIn(frames_) \/ KeyIn(video_queue_) PROVE KeyIn(video_queue_')
    <2>1. CASE frames_ = <<>>
      <3>1. ~KeyIn(<<>>)
        BY DEF KeyIn
      <3>2. video_queue_' = video_queue_
        BY <1>5, <2>1 DEF take_frames
      <3> QED BY <1>5, <2>1, <3>1, <3>2
    <2>2. CASE frames_ # <<>>
      <3> DEFINE q == video_queue_ \o frames_
                 w == Working
      <3>1. video_queue_' = DropOldest(q, w, kMaxVideoQueued)
        BY <1>5, <2>2 DEF take_frames, Working
      <3>2. /\ q \in Seq(EncodedFrame) /\ w \in 0 .. 1 /\ w <= Len(q) /\ Len(q) \in Nat
            /\ Len(q) = Len(video_queue_) + Len(frames_)
        BY WorkingIs
      <3>3. KeyIn(q)
        BY <1>1, <1>3, <1>5
      <3>4. Latest - 1 <= MaxFrame /\ Latest \in Nat
        BY <1>1 DEF Latest
      <3>5. Len(q) <= kMaxVideoQueued
        BY <1>1, <3>2, <3>4 DEF RoomInv
      <3> HIDE DEF q, w
      <3>6. PICK k \in 0 .. Len(q) - w :
               /\ DropOldest(q, w, kMaxVideoQueued) \in Seq(EncodedFrame)
               /\ Cut(q, DropOldest(q, w, kMaxVideoQueued), w, k)
               /\ Len(q) - k <= kMaxVideoQueued \/ Len(q) - k = w
               /\ Len(q) <= kMaxVideoQueued => k = 0
        <4>1. kMaxVideoQueued \in Nat
          BY <1>1
        <4> QED BY <3>2, <4>1, DropOldestIs
      <3>7. Cut(q, DropOldest(q, w, kMaxVideoQueued), w, 0) /\ (w = 0 \/ w = 1)
        BY <3>2, <3>5, <3>6
      <3> QED BY <1>2, <3>1, <3>2, <3>3, <3>7
    <2> QED BY <2>1, <2>2
  <1>6. SendError => Head(video_queue_).idr # TRUE
    BY DEF SendError, MayFail
  <1> QED BY <1>4, <1>5, <1>6 DEF KeyFramesKept

(* IdrOnItsWay when the queues hold every frame and a key frame always     *)
(* gets through: IdrTracker never waits in vain, for any number of frames, *)
(* clients and staging rings.                                              *)
THEOREM VideoNeverWaitsInVain ==
  ASSUME LoseIdr = FALSE, 2 * MaxFrame <= kMaxQueued, 2 * MaxFrame <= kMaxVideoQueued
  PROVE  Spec => []IdrOnItsWay
  <1>1. Init => RoomInv
    <2>1. Len(<<>>) = 0
      OBVIOUS
    <2> QED BY <2>1 DEF Init, RoomInv, Latest
  <1>2. IInv /\ RoomInv /\ [Next]_vars => RoomInv'
    BY RoomStep DEF IInv
  <1>3. IInv /\ RoomInv /\ [Next]_vars => [KeyFramesKept]_vars
    BY KeptStep DEF IInv
  <1>4. Spec => [][KeyFramesKept]_vars
    BY <1>1, <1>2, <1>3, VideoInvariant, PTL DEF Spec
  <1> QED BY <1>4, VideoIdrOnItsWay, PTL

-----------------------------------------------------------------------------
(* Recovery.  The frames of both queues as a set: OrderInv orders them.    *)

Frames(q) == {q[i] : i \in 1 .. Len(q)}
Waiting == Frames(video_queue_) \cup Frames(frames_)

(* Full queues drop P frames only.                                         *)
CutsSpare ==
  EncodeOk \/ take_frames => \A k \in Waiting : k.idr = TRUE => k \in Waiting'

(* A frame is one encoded eye-frame, with a number and an eye. *)
LEMMA FrameFields ==
  ASSUME NEW f \in EncodedFrame
  PROVE  /\ f.frame_id \in Nat /\ f.frame_id \in FrameId /\ f.ref \in Nat
         /\ f.eye \in Eye /\ (f.eye = 0 \/ f.eye = 1)
         /\ f.idr = TRUE \/ f.idr = FALSE
  <1>1. f.frame_id \in FrameId /\ f.ref \in FrameId /\ f.eye \in Eye /\ f.idr \in BOOLEAN
    BY DEF EncodedFrame
  <1> QED BY <1>1, VideoAssumption DEF FrameId, Eye

(* The frames of a queue. *)
LEMMA FramesOf ==
  ASSUME NEW q \in Seq(EncodedFrame)
  PROVE  /\ Frames(q) \subseteq EncodedFrame
         /\ \A f : f \in Frames(q) <=> \E i \in 1 .. Len(q) : f = q[i]
         /\ q = <<>> => Frames(q) = {}
         /\ q # <<>> => Frames(q) = {Head(q)} \cup Frames(Tail(q))
  <1>1. \A i \in 1 .. Len(q) : q[i] \in EncodedFrame
    OBVIOUS
  <1>2. Frames(q) \subseteq EncodedFrame
    BY <1>1 DEF Frames
  <1>3. q = <<>> => Frames(q) = {}
    BY DEF Frames
  <1>4. ASSUME q # <<>> PROVE Frames(q) = {Head(q)} \cup Frames(Tail(q))
    <2>1. /\ Head(q) = q[1] /\ Len(q) \in Nat \ {0} /\ Len(Tail(q)) = Len(q) - 1
          /\ \A i \in 1 .. Len(q) - 1 : Tail(q)[i] = q[i + 1]
      BY <1>4, QueueHead
    <2>2. ASSUME NEW i \in 1 .. Len(q), i # 1 PROVE q[i] \in Frames(Tail(q))
      <3>1. i - 1 \in 1 .. Len(Tail(q)) /\ (i - 1) + 1 = i
        BY <2>1, <2>2
      <3>2. Tail(q)[i - 1] = q[i]
        BY <2>1, <3>1
      <3> QED BY <3>1, <3>2 DEF Frames
    <2>3. ASSUME NEW i \in 1 .. Len(Tail(q)) PROVE Tail(q)[i] \in Frames(q)
      <3>1. i + 1 \in 1 .. Len(q) /\ Tail(q)[i] = q[i + 1]
        BY <2>1
      <3> QED BY <3>1 DEF Frames
    <2>4. Head(q) \in Frames(q)
      BY <2>1 DEF Frames
    <2>5. Frames(q) \subseteq {Head(q)} \cup Frames(Tail(q))
      <3> SUFFICES ASSUME NEW i \in 1 .. Len(q) PROVE q[i] \in {Head(q)} \cup Frames(Tail(q))
        BY DEF Frames
      <3> QED BY <2>1, <2>2
    <2>6. Frames(Tail(q)) \subseteq Frames(q)
      <3> SUFFICES ASSUME NEW i \in 1 .. Len(Tail(q)) PROVE Tail(q)[i] \in Frames(q)
        BY DEF Frames
      <3> QED BY <2>3
    <2> QED BY <2>4, <2>5, <2>6
  <1>5. \A f : f \in Frames(q) <=> \E i \in 1 .. Len(q) : f = q[i]
    BY DEF Frames
  <1> QED BY <1>2, <1>3, <1>4, <1>5

(* A part of a queue, and two queues in a row. *)
LEMMA FramesMore ==
  ASSUME NEW q \in Seq(EncodedFrame), NEW r \in Seq(EncodedFrame)
  PROVE  /\ Within(r, q) => Frames(r) \subseteq Frames(q)
         /\ Frames(q \o r) = Frames(q) \cup Frames(r)
  <1>1. ASSUME Within(r, q) PROVE Frames(r) \subseteq Frames(q)
    <2>1. \A i \in 1 .. Len(r) : \E a \in 1 .. Len(q) : r[i] = q[a]
      BY <1>1 DEF Within
    <2> QED BY <2>1 DEF Frames
  <1>2. Frames(q \o r) \subseteq Frames(q) \cup Frames(r)
    <2> SUFFICES ASSUME NEW i \in 1 .. Len(q \o r) PROVE (q \o r)[i] \in Frames(q) \cup Frames(r)
      BY DEF Frames
    <2>1. \/ i \in 1 .. Len(q) /\ (q \o r)[i] = q[i]
          \/ i - Len(q) \in 1 .. Len(r) /\ (q \o r)[i] = r[i - Len(q)]
      BY InRow
    <2> QED BY <2>1 DEF Frames
  <1>3. Frames(q) \subseteq Frames(q \o r)
    <2> SUFFICES ASSUME NEW i \in 1 .. Len(q) PROVE q[i] \in Frames(q \o r)
      BY DEF Frames
    <2>1. i \in 1 .. Len(q \o r) /\ (q \o r)[i] = q[i]
      OBVIOUS
    <2> QED BY <2>1 DEF Frames
  <1>4. Frames(r) \subseteq Frames(q \o r)
    <2> SUFFICES ASSUME NEW i \in 1 .. Len(r) PROVE r[i] \in Frames(q \o r)
      BY DEF Frames
    <2>1. Len(q) + i \in 1 .. Len(q \o r) /\ (q \o r)[Len(q) + i] = r[i]
      OBVIOUS
    <2> QED BY <2>1 DEF Frames
  <1> QED BY <1>1, <1>2, <1>3, <1>4

(* What OrderInv says of the set: the frames are in one order, and what was *)
(* sent comes before all of them.                                          *)
LEMMA WaitingOrder ==
  ASSUME IInv
  PROVE  /\ Waiting \subseteq EncodedFrame
         /\ \A f \in Waiting : f.frame_id < Latest
         /\ pcS # "none" => \A f \in Waiting : got[f.eye] < f.frame_id
         /\ \A f \in Frames(video_queue_), g \in Frames(frames_) : Before(f, g)
         /\ \A f, g \in Frames(video_queue_) : f = g \/ Before(f, g) \/ Before(g, f)
         /\ \A f, g \in Frames(frames_) : f = g \/ Before(f, g) \/ Before(g, f)
  <1>1. /\ video_queue_ \in Seq(EncodedFrame) /\ frames_ \in Seq(EncodedFrame) /\ OrderInv
        /\ got \in [Eye -> FrameId]
    BY DEF IInv, TypeOK
  <1>2. Waiting \subseteq EncodedFrame
    BY <1>1, FramesOf DEF Waiting
  <1>3. \A f \in Waiting : f.frame_id < Latest
    BY <1>1 DEF OrderInv, Under, Waiting, Frames
  <1>4. pcS # "none" => \A f \in Waiting : f.frame_id > got[f.eye]
    BY <1>1 DEF OrderInv, Over, Waiting, Frames
  <1>5. \A f \in Waiting : got[f.eye] \in Nat /\ f.frame_id \in Nat
    <2> SUFFICES ASSUME NEW f \in Waiting PROVE got[f.eye] \in Nat /\ f.frame_id \in Nat
      OBVIOUS
    <2>1. f.eye \in Eye /\ f.frame_id \in Nat
      BY <1>2, FrameFields
    <2>2. got[f.eye] \in FrameId
      BY <1>1, <2>1
    <2> QED BY <2>1, <2>2, VideoAssumption DEF FrameId
  <1>6. \A f \in Frames(video_queue_), g \in Frames(frames_) : Before(f, g)
    BY <1>1 DEF OrderInv, Cross, Frames
  <1>7. ASSUME NEW q \in Seq(EncodedFrame), Ordered(q)
        PROVE  \A f, g \in Frames(q) : f = g \/ Before(f, g) \/ Before(g, f)
    <2> SUFFICES ASSUME NEW i \in 1 .. Len(q), NEW j \in 1 .. Len(q)
                 PROVE  q[i] = q[j] \/ Before(q[i], q[j]) \/ Before(q[j], q[i])
      BY DEF Frames
    <2>1. i < j \/ i = j \/ j < i
      OBVIOUS
    <2> QED BY <1>7, <2>1 DEF Ordered
  <1> QED BY <1>1, <1>2, <1>3, <1>4, <1>5, <1>6, <1>7 DEF OrderInv

(* An eye-frame is known by its number and eye, and is in one queue.       *)
LEMMA WaitingOnce ==
  ASSUME IInv
  PROVE  /\ \A f, g \in Waiting : f = g \/ Before(f, g) \/ Before(g, f)
         /\ \A f, g \in Waiting : f.eye = g.eye /\ f.frame_id = g.frame_id => f = g
         /\ \A f \in Frames(video_queue_) : f \notin Frames(frames_)
  <1>1. \A f, g \in Waiting : f = g \/ Before(f, g) \/ Before(g, f)
    BY WaitingOrder DEF Waiting
  <1>2. \A f \in Waiting : f.frame_id \in Nat
    BY WaitingOrder, FrameFields
  <1>3. \A f, g \in Waiting : f.eye = g.eye /\ f.frame_id = g.frame_id => f = g
    BY <1>1, <1>2 DEF Before
  <1>4. ASSUME NEW f \in Frames(video_queue_), f \in Frames(frames_) PROVE FALSE
    <2>1. Before(f, f) /\ f \in Waiting
      BY <1>4, WaitingOrder DEF Waiting
    <2> QED BY <1>2, <2>1 DEF Before
  <1> QED BY <1>1, <1>3, <1>4

(* The encoder thread hands over both eyes of a frame, and a queue with     *)
(* room for them keeps both.                                               *)
LEMMA EncodeMoves ==
  ASSUME IInv, EncodeOk, active = TRUE, 2 <= kMaxQueued
  PROVE  /\ UNCHANGED video_queue_ /\ Encoded(0) \in Frames(frames_') /\ Encoded(1) \in Frames(frames_')
         /\ Frames(frames_') \subseteq Frames(frames_) \cup {Encoded(0), Encoded(1)}
  <1>1. /\ frames_ \in Seq(EncodedFrame) /\ kMaxQueued \in Nat /\ frame_id \in Nat
        /\ BothEyes \in Seq(EncodedFrame) /\ Len(BothEyes) = 2
        /\ BothEyes[1] = Encoded(0) /\ BothEyes[2] = Encoded(1)
    BY EncodedTypes, VideoAssumption DEF IInv, TypeOK, FrameId
  <1> DEFINE q == frames_ \o BothEyes
             n == Len(frames_)
             r == DropOldest(q, 0, kMaxQueued)
  <1>2. frames_' = r /\ UNCHANGED video_queue_
    BY DEF EncodeOk, push_frames, BothEyes, queueVars
  <1>3. q \in Seq(EncodedFrame) /\ Len(q) = n + 2 /\ n \in Nat
    <2>1. q \in Seq(EncodedFrame) /\ Len(q) = n + Len(BothEyes)
      BY <1>1, Joined
    <2> QED BY <1>1, <2>1
  <1>4. q[n + 1] = Encoded(0) /\ q[n + 2] = Encoded(1) /\ (n >= 1 => q[n] = frames_[n])
    <2>1. /\ frames_ \in Seq(EncodedFrame) /\ BothEyes \in Seq(EncodedFrame) /\ n \in Nat
          /\ n = Len(frames_) /\ Len(BothEyes) = 2
      BY <1>1
    <2> HIDE DEF n
    <2>2. q[n + 1] = BothEyes[1] /\ q[n + 2] = BothEyes[2]
      <3>1. ASSUME NEW i \in 1 .. 2 PROVE q[n + i] = BothEyes[i]
        <4>1. n + i \in 1 .. Len(q) /\ ~ (n + i \in 1 .. n) /\ (n + i) - n = i
          BY <1>3, <2>1
        <4>2. \/ n + i \in 1 .. Len(frames_)
              \/ q[n + i] = BothEyes[(n + i) - Len(frames_)]
          BY <2>1, <4>1, InRow
        <4> HIDE DEF q
        <4> QED BY <2>1, <4>1, <4>2
      <3>2. 1 \in 1 .. 2 /\ 2 \in 1 .. 2
        OBVIOUS
      <3> HIDE DEF q
      <3> QED BY <3>1, <3>2
    <2>3. n >= 1 => q[n] = frames_[n]
      BY <2>1
    <2> QED BY <1>1, <2>2, <2>3
  <1>5. n >= 1 => frames_[n].frame_id < frame_id
    <2>1. Latest = frame_id
      BY DEF EncodeOk, Latest
    <2>2. n >= 1 => n \in 1 .. Len(frames_)
      BY <1>3
    <2> QED BY <2>1, <2>2 DEF IInv, OrderInv, Under
  <1>6. WholeFrames(q, 0, n)
    <2>1. CASE n = 0
      BY <2>1 DEF WholeFrames
    <2>2. CASE n >= 1
      <3>1. q[n].frame_id < frame_id /\ q[n + 1].frame_id = frame_id
        BY <1>4, <1>5, <2>2 DEF Encoded
      <3>2. frames_[n].frame_id \in Nat
        BY <1>1, <1>3, <2>2, Ids
      <3>3. q[n].frame_id # q[n + 1].frame_id
        BY <1>1, <1>4, <2>2, <3>1, <3>2
      <3> HIDE DEF q
      <3> QED BY <1>3, <3>3 DEF WholeFrames
    <2> QED BY <1>3, <2>1, <2>2
  <1>7. Frames(q) = Frames(frames_) \cup {Encoded(0), Encoded(1)}
    <2>1. Frames(BothEyes) = {Encoded(0), Encoded(1)}
      <3>1. 1 .. Len(BothEyes) = {1, 2}
        BY <1>1
      <3> QED BY <1>1, <3>1 DEF Frames
    <2> QED BY <1>1, <2>1, FramesMore
  <1> HIDE DEF q, n
  <1>8. 0 \in 0 .. 1 /\ 0 <= Len(q) /\ Len(q) \in Nat /\ n \in 0 .. Len(q) - 0
    BY <1>3
  <1>9. PICK k \in 0 .. Len(q) - 0 :
           /\ r \in Seq(EncodedFrame)
           /\ Cut(q, r, 0, k)
           /\ Len(q) - k <= kMaxQueued \/ Len(q) - k = 0
           /\ Len(q) <= kMaxQueued => k = 0
           /\ \A j \in 0 .. Len(q) - 0 :
                 WholeFrames(q, 0, j) /\ Len(q) - j <= kMaxQueued => k <= j
    BY <1>1, <1>3, <1>8, DropOldestLeast
  <1> HIDE DEF r
  <1>10. k <= n
    <2>1. \A j \in 0 .. Len(q) - 0 : WholeFrames(q, 0, j) /\ Len(q) - j <= kMaxQueued => k <= j
      BY <1>9
    <2>2. Len(q) - n <= kMaxQueued
      BY <1>1, <1>3
    <2> QED BY <1>6, <1>8, <2>1, <2>2
  <1>11. r \in Seq(EncodedFrame) /\ Cut(q, r, 0, k)
    BY <1>9
  <1>12. Within(r, q)
    BY <1>3, <1>8, <1>11, CutWithin
  <1>13. /\ n + 1 - k \in 1 .. Len(r) /\ n + 2 - k \in 1 .. Len(r)
         /\ r[n + 1 - k] = q[n + 1] /\ r[n + 2 - k] = q[n + 2]
    <2>1. /\ Len(r) = n + 2 - k /\ k \in 0 .. n
          /\ \A i \in 1 .. n + 2 - k : r[i] = q[i + k]
      BY <1>3, <1>8, <1>10, <1>11 DEF Cut
    <2>2. n + 1 - k \in 1 .. n + 2 - k /\ n + 2 - k \in 1 .. n + 2 - k
      BY <1>3, <2>1
    <2>3. (n + 1 - k) + k = n + 1 /\ (n + 2 - k) + k = n + 2
      BY <1>3, <2>1
    <2> QED BY <2>1, <2>2, <2>3
  <1>14. Encoded(0) \in Frames(r) /\ Encoded(1) \in Frames(r)
    BY <1>4, <1>13 DEF Frames
  <1>15. Frames(r) \subseteq Frames(q)
    BY <1>3, <1>11, <1>12, FramesMore
  <1> QED BY <1>2, <1>7, <1>14, <1>15

(* The session thread takes what the encoder thread left.                  *)
LEMMA TakeMoves ==
  ASSUME IInv, take_frames
  PROVE  Waiting' \subseteq Waiting /\ Frames(frames_') = {} /\ Frames(frames_) \subseteq Waiting
  <1>1. /\ video_queue_ \in Seq(EncodedFrame) /\ frames_ \in Seq(EncodedFrame)
        /\ kMaxVideoQueued \in Nat /\ TypeOK /\ ThreadInv
    BY VideoAssumption DEF IInv, TypeOK
  <1>2. frames_' = <<>> /\ Frames(<<>>) = {}
    BY DEF take_frames, Frames
  <1>3. Frames(video_queue_') \subseteq Waiting
    <2>1. CASE video_queue_' = video_queue_
      BY <2>1 DEF Waiting
    <2>2. CASE video_queue_' = DropOldest(video_queue_ \o frames_, Working, kMaxVideoQueued)
      <3> DEFINE q == video_queue_ \o frames_
                 w == Working
      <3>1. q \in Seq(EncodedFrame) /\ w \in 0 .. 1 /\ w <= Len(q)
        BY <1>1, WorkingIs
      <3>2. video_queue_' = DropOldest(q, w, kMaxVideoQueued) /\ Frames(q) = Waiting
        BY <1>1, <2>2, FramesMore DEF Waiting
      <3> HIDE DEF q, w
      <3>3. PICK k \in 0 .. Len(q) - w :
               /\ DropOldest(q, w, kMaxVideoQueued) \in Seq(EncodedFrame)
               /\ Cut(q, DropOldest(q, w, kMaxVideoQueued), w, k)
        BY <1>1, <3>1, DropOldestIs
      <3>4. Within(video_queue_', q) /\ video_queue_' \in Seq(EncodedFrame)
        BY <3>1, <3>2, <3>3, CutWithin
      <3> QED BY <3>1, <3>2, <3>4, FramesMore
    <2> QED BY <2>1, <2>2 DEF take_frames, Working
  <1> QED BY <1>2, <1>3 DEF Waiting

(* The sender is done with the head of its queue.                          *)
LEMMA SentMoves ==
  ASSUME IInv, finish_video_frame \/ SendError
  PROVE  LET h == Head(video_queue_)
         IN  /\ h \in EncodedFrame /\ h \in Frames(video_queue_) /\ pcS = "send" /\ video_queue_ # <<>>
             /\ Waiting = Waiting' \cup {h} /\ h \notin Waiting'
             /\ \A g \in Waiting' : Before(h, g)
             /\ UNCHANGED frames_ /\ video_queue_' = Tail(video_queue_)
  <1> DEFINE h == Head(video_queue_)
  <1>1. /\ video_queue_ \in Seq(EncodedFrame) /\ frames_ \in Seq(EncodedFrame) /\ OrderInv
        /\ video_queue_ # <<>> /\ pcS = "send" /\ UNCHANGED frames_
        /\ video_queue_' = Tail(video_queue_)
    BY DEF IInv, TypeOK, ThreadInv, finish_video_frame, SendError, bridgeVars
  <1>2. Frames(video_queue_) = {h} \cup Frames(Tail(video_queue_))
    BY <1>1, FramesOf
  <1>3. Waiting = Waiting' \cup {h} /\ h \in Frames(video_queue_)
    BY <1>1, <1>2 DEF Waiting
  <1>4. h \in EncodedFrame
    BY <1>1, QueueHead
  <1>5. \A g \in Frames(Tail(video_queue_)) : Before(h, g)
    <2> SUFFICES ASSUME NEW i \in 1 .. Len(Tail(video_queue_)) PROVE Before(h, Tail(video_queue_)[i])
      BY DEF Frames
    <2>1. /\ h = video_queue_[1] /\ Len(video_queue_) \in Nat \ {0}
          /\ Len(Tail(video_queue_)) = Len(video_queue_) - 1
          /\ \A j \in 1 .. Len(video_queue_) - 1 : Tail(video_queue_)[j] = video_queue_[j + 1]
      BY <1>1, QueueHead
    <2>2. /\ 1 \in 1 .. Len(video_queue_) /\ i + 1 \in 1 .. Len(video_queue_) /\ 1 < i + 1
          /\ Tail(video_queue_)[i] = video_queue_[i + 1]
      BY <2>1
    <2> QED BY <1>1, <2>1, <2>2 DEF OrderInv, Ordered
  <1>6. \A g \in Waiting' : Before(h, g)
    BY <1>1, <1>3, <1>5, WaitingOrder DEF Waiting
  <1>7. h \notin Waiting'
    <2>1. h.frame_id \in Nat
      BY <1>4, FrameFields
    <2> QED BY <1>6, <2>1 DEF Before
  <1> QED BY <1>1, <1>3, <1>4, <1>6, <1>7

(* So no step of the session loses a key frame.                            *)
LEMMA SparedIsKept ==
  ASSUME LoseIdr = FALSE, 2 <= kMaxQueued, IInv, [CutsSpare]_vars, [Next]_vars
  PROVE  [KeyFramesKept]_vars
  <1>1. ASSUME NEW q \in Seq(EncodedFrame)
        PROVE  KeyIn(q) <=> \E k \in Frames(q) : k.idr = TRUE
    BY DEF KeyIn, Frames
  <1>2. /\ frames_ \in Seq(EncodedFrame) /\ video_queue_ \in Seq(EncodedFrame)
        /\ frames_' \in Seq(EncodedFrame) /\ video_queue_' \in Seq(EncodedFrame)
    BY VideoStep DEF IInv, TypeOK
  <1>3. ASSUME CutsSpare, EncodeOk, active = TRUE, KeyIn(frames_) \/ force_idr
        PROVE  KeyIn(frames_')
    <2>1. CASE KeyIn(frames_)
      <3>1. PICK k \in Frames(frames_) : k.idr = TRUE
        BY <1>1, <1>2, <2>1
      <3>2. k \in Waiting'
        BY <1>3, <3>1 DEF CutsSpare, Waiting
      <3>3. k \notin Frames(video_queue_) /\ Frames(video_queue_') = Frames(video_queue_)
        BY <1>3, EncodeMoves, WaitingOnce
      <3>4. k \in Frames(frames_')
        BY <3>2, <3>3 DEF Waiting
      <3> QED BY <1>1, <1>2, <3>1, <3>4
    <2>2. CASE force_idr
      <3>1. Encoded(0) \in Frames(frames_')
        BY <1>3, EncodeMoves
      <3>2. Encoded(0).idr = force_idr
        BY DEF Encoded
      <3>3. force_idr \in BOOLEAN
        BY DEF force_idr
      <3> QED BY <1>1, <1>2, <2>2, <3>1, <3>2, <3>3
    <2> QED BY <1>3, <2>1, <2>2
  <1>4. ASSUME CutsSpare, take_frames, KeyIn(frames_) \/ KeyIn(video_queue_)
        PROVE  KeyIn(video_queue_')
    <2>1. PICK k \in Waiting : k.idr = TRUE
      BY <1>1, <1>2, <1>4 DEF Waiting
    <2>2. k \in Waiting' /\ Frames(frames_') = {}
      BY <1>4, <2>1, TakeMoves DEF CutsSpare
    <2>3. k \in Frames(video_queue_')
      BY <2>2 DEF Waiting
    <2> QED BY <1>1, <1>2, <2>1, <2>3
  <1>5. SendError => Head(video_queue_).idr # TRUE
    BY DEF SendError, MayFail
  <1> QED BY <1>3, <1>4, <1>5 DEF KeyFramesKept

-----------------------------------------------------------------------------
(* What the encoders' references, the queues and the headset have in        *)
(* common.                                                                 *)

RefInv == \A e \in Eye : reference[e] < Latest

(* A P frame refers to a picture at least as new as every frame that was    *)
(* handed over for its eye before it, queued in W or received (had).  It   *)
(* need not be one of them: the pair of that picture may have been         *)
(* dropped.                                                                *)
ChainOK(W, ref, had) ==
  /\ \A f \in W : f.frame_id <= ref[f.eye]
  /\ \A f \in W : f.idr # TRUE => f.ref < f.frame_id /\ had[f.eye] <= f.ref
  /\ \A f, g \in W : f.idr # TRUE /\ g.eye = f.eye /\ g.frame_id < f.frame_id => g.frame_id <= f.ref
  /\ \A f \in W, e \in Eye : had[e] <= f.frame_id
  /\ \A e \in Eye : had[e] <= ref[e]

ChainInv == pcS # "none" => ChainOK(Waiting, reference, got)

(* Both are numbers. *)
LEMMA RefTypes ==
  ASSUME TypeOK
  PROVE  /\ frame_id \in Nat
         /\ reference \in [Eye -> Nat] /\ got \in [Eye -> Nat] /\ shown \in [Eye -> Nat]
         /\ Latest \in Nat
  <1>1. FrameId \subseteq Nat
    BY DEF FrameId
  <1>2. frame_id \in FrameId /\ reference \in [Eye -> FrameId] /\ got \in [Eye -> FrameId]
        /\ shown \in [Eye -> FrameId]
    BY DEF TypeOK
  <1>3. frame_id \in Nat
    BY <1>1, <1>2
  <1>4. Latest \in {frame_id, frame_id + 1}
    BY DEF Latest
  <1>5. Latest \in Nat
    BY <1>3, <1>4
  <1>6. reference \in [Eye -> Nat] /\ got \in [Eye -> Nat] /\ shown \in [Eye -> Nat]
    BY <1>1, <1>2
  <1> QED BY <1>3, <1>5, <1>6

(* Frames can be taken out, and the encoders can move on.                  *)
LEMMA ChainLess ==
  ASSUME NEW W, NEW V, V \subseteq W, W \subseteq EncodedFrame,
         NEW ref \in [Eye -> Nat], NEW later \in [Eye -> Nat], NEW had \in [Eye -> Nat],
         \A e \in Eye : ref[e] <= later[e], ChainOK(W, ref, had)
  PROVE  ChainOK(V, later, had)
  <1>1. \A f \in W : f.frame_id \in Nat /\ f.eye \in Eye
    BY FrameFields
  <1>2. \A f \in V : f.frame_id <= ref[f.eye]
    BY DEF ChainOK
  <1>3. \A f \in V : f.frame_id <= later[f.eye]
    BY <1>1, <1>2
  <1>4. \A e \in Eye : had[e] <= later[e]
    BY DEF ChainOK
  <1>5. /\ \A f \in V : f.idr # TRUE => f.ref < f.frame_id /\ had[f.eye] <= f.ref
        /\ \A f, g \in V : f.idr # TRUE /\ g.eye = f.eye /\ g.frame_id < f.frame_id => g.frame_id <= f.ref
        /\ \A f \in V, e \in Eye : had[e] <= f.frame_id
    BY DEF ChainOK
  <1> QED BY <1>3, <1>4, <1>5 DEF ChainOK

(* The next frame: P frames that refer to the picture before, or key frames. *)
LEMMA ChainMore ==
  ASSUME NEW W, W \subseteq EncodedFrame, NEW n \in Nat,
         NEW ref \in [Eye -> Nat], NEW had \in [Eye -> Nat], ChainOK(W, ref, had),
         \A e \in Eye : ref[e] < n,
         NEW a, NEW b, a.eye = 0, b.eye = 1, a.frame_id = n, b.frame_id = n,
         a.idr # TRUE => a.ref = ref[0], b.idr # TRUE => b.ref = ref[1]
  PROVE  ChainOK(W \cup {a, b}, [e \in Eye |-> n], had)
  <1> DEFINE V == W \cup {a, b}
             next == [e \in Eye |-> n]
  <1>0. 0 \in Eye /\ 1 \in Eye
    BY DEF Eye
  <1>1. \A f \in W : /\ f.frame_id \in Nat /\ f.ref \in Nat /\ f.eye \in Eye
                     /\ f.frame_id <= ref[f.eye] /\ f.frame_id < n
    <2>1. \A f \in W : f.frame_id \in Nat /\ f.ref \in Nat /\ f.eye \in Eye
      BY FrameFields
    <2>2. \A f \in W : f.frame_id <= ref[f.eye]
      BY DEF ChainOK
    <2> QED BY <2>1, <2>2
  <1>2. \A f \in V : f.eye \in Eye /\ f.frame_id <= n
    BY <1>0, <1>1
  <1>3. \A f \in V : f.frame_id <= next[f.eye]
    BY <1>2
  <1>4. ASSUME NEW f \in V, f.idr # TRUE
        PROVE  f.ref < f.frame_id /\ had[f.eye] <= f.ref
    <2>1. CASE f \in W
      BY <1>4, <2>1 DEF ChainOK
    <2>2. CASE f = a
      BY <1>0, <1>4, <2>2 DEF ChainOK
    <2>3. CASE f = b
      BY <1>0, <1>4, <2>3 DEF ChainOK
    <2> QED BY <2>1, <2>2, <2>3
  <1>5. ASSUME NEW f \in V, NEW g \in V, f.idr # TRUE, g.eye = f.eye, g.frame_id < f.frame_id
        PROVE  g.frame_id <= f.ref
    <2>1. g \in W
      BY <1>1, <1>5
    <2>2. CASE f \in W
      BY <1>5, <2>1, <2>2 DEF ChainOK
    <2>3. CASE f = a
      BY <1>1, <1>5, <2>1, <2>3
    <2>4. CASE f = b
      BY <1>1, <1>5, <2>1, <2>4
    <2> QED BY <2>2, <2>3, <2>4
  <1>6. \A e \in Eye : had[e] \in Nat /\ ref[e] \in Nat /\ had[e] <= ref[e] /\ had[e] <= n
    <2>1. \A e \in Eye : had[e] <= ref[e] /\ ref[e] < n
      BY DEF ChainOK
    <2> QED BY <2>1
  <1>7. ASSUME NEW f \in V, NEW e \in Eye
        PROVE  had[e] <= f.frame_id
    <2>1. CASE f \in W
      BY <2>1 DEF ChainOK
    <2>2. CASE f = a \/ f = b
      BY <1>6, <2>2
    <2> QED BY <2>1, <2>2
  <1>8. \A e \in Eye : had[e] <= next[e]
    BY <1>6
  <1> QED BY <1>3, <1>4, <1>5, <1>7, <1>8 DEF ChainOK

(* The first frame of them reaches the headset. *)
LEMMA ChainSent ==
  ASSUME NEW W, NEW V, NEW h \in EncodedFrame, W = V \cup {h}, V \subseteq EncodedFrame,
         \A g \in V : Before(h, g),
         NEW ref \in [Eye -> Nat], NEW had \in [Eye -> Nat], ChainOK(W, ref, had)
  PROVE  ChainOK(V, ref, [had EXCEPT ![h.eye] = h.frame_id])
  <1> DEFINE has == [had EXCEPT ![h.eye] = h.frame_id]
  <1>1. h.frame_id \in Nat /\ h.eye \in Eye /\ \A f \in V : f.frame_id \in Nat /\ f.eye \in Eye /\ f.ref \in Nat
    BY FrameFields
  <1>2. has[h.eye] = h.frame_id /\ \A e \in Eye : e # h.eye => has[e] = had[e]
    BY <1>1
  <1>3. \A g \in V : h.frame_id <= g.frame_id /\ (g.eye = h.eye => h.frame_id < g.frame_id)
    BY <1>1 DEF Before
  <1> HIDE DEF has
  <1>4. \A f \in V : f.frame_id <= ref[f.eye]
    BY DEF ChainOK
  <1>5. ASSUME NEW f \in V, f.idr # TRUE
        PROVE  f.ref < f.frame_id /\ has[f.eye] <= f.ref
    <2>1. f.ref < f.frame_id /\ had[f.eye] <= f.ref
      BY <1>5 DEF ChainOK
    <2>2. CASE f.eye = h.eye
      <3>1. h.frame_id <= f.ref
        BY <1>3, <1>5, <2>2 DEF ChainOK
      <3> QED BY <1>2, <2>1, <2>2, <3>1
    <2>3. CASE f.eye # h.eye
      BY <1>1, <1>2, <2>1, <2>3
    <2> QED BY <2>2, <2>3
  <1>6. \A f, g \in V : f.idr # TRUE /\ g.eye = f.eye /\ g.frame_id < f.frame_id => g.frame_id <= f.ref
    BY DEF ChainOK
  <1>7. ASSUME NEW f \in V, NEW e \in Eye
        PROVE  has[e] <= f.frame_id
    <2>1. had[e] <= f.frame_id
      BY DEF ChainOK
    <2> QED BY <1>2, <1>3, <2>1
  <1>8. ASSUME NEW e \in Eye
        PROVE  has[e] <= ref[e]
    <2>1. had[e] <= ref[e] /\ h.frame_id <= ref[h.eye]
      BY DEF ChainOK
    <2> QED BY <1>2, <2>1
  <1>9. ChainOK(V, ref, has)
    BY <1>4, <1>5, <1>6, <1>7, <1>8 DEF ChainOK
  <1> QED BY <1>9 DEF has

(* The encoders go on to a newer picture, or stay where they are. *)
LEMMA RefMoves ==
  ASSUME TypeOK, RefInv, [Next]_vars
  PROVE  /\ \A e \in Eye : reference[e] <= reference'[e]
         /\ reference' = reference \/ EncodeOk \/ EncodeFails
  <1>1. reference \in [Eye -> Nat] /\ frame_id \in Nat
    BY RefTypes
  <1>2. CASE EncodeOk
    <2>1. reference' = [e \in Eye |-> frame_id] /\ Latest = frame_id
      BY <1>2 DEF EncodeOk, Latest
    <2> QED BY <1>1, <1>2, <2>1 DEF RefInv
  <1>3. CASE EncodeFails
    <2>1. PICK moved \in SUBSET Eye :
            reference' = [e \in Eye |-> IF e \in moved THEN frame_id ELSE reference[e]]
      BY <1>3 DEF EncodeFails
    <2>2. Latest = frame_id
      BY <1>3 DEF EncodeFails, Latest
    <2>3. \A e \in Eye : reference'[e] = frame_id \/ reference'[e] = reference[e]
      BY <2>1
    <2>4. \A e \in Eye : reference[e] < frame_id /\ reference[e] \in Nat
      BY <1>1, <2>2 DEF RefInv
    <2> QED BY <1>1, <1>3, <2>3, <2>4
  <1>4. CASE reference' = reference
    BY <1>1, <1>4
  <1>5. EncodeOk \/ EncodeFails \/ reference' = reference
    BY DEF Next, Snapshot, ensure_encoder, StagingChanged, SessionStart,
           SessionEnd, SettingsChanged, ReceiveFeedback, poll, update_stream_description, take_frames,
           begin_video_frame, PumpReturns, finish_video_frame, SendError, FloorExpires,
           vars, encoderVars
  <1> QED BY <1>2, <1>3, <1>4, <1>5

(* The encoders refer to pictures they were given. *)
LEMMA RefStep ==
  ASSUME TypeOK, RefInv, [Next]_vars
  PROVE  RefInv'
  <1>1. Latest \in Nat /\ Latest' \in Nat /\ Latest <= Latest' /\ reference \in [Eye -> Nat] /\ frame_id \in Nat
    BY LatestGrows, RefTypes
  <1>2. CASE EncodeOk
    <2>1. Latest' = frame_id + 1 /\ \A e \in Eye : reference'[e] = frame_id
      BY <1>2 DEF EncodeOk, Latest
    <2> QED BY <1>1, <2>1 DEF RefInv
  <1>3. CASE EncodeFails
    <2>1. Latest' = frame_id + 1 /\ Latest = frame_id
      BY <1>3 DEF EncodeFails, Latest
    <2>2. PICK moved \in SUBSET Eye :
            reference' = [e \in Eye |-> IF e \in moved THEN frame_id ELSE reference[e]]
      BY <1>3 DEF EncodeFails
    <2>3. \A e \in Eye : reference'[e] = frame_id \/ reference'[e] = reference[e]
      BY <2>2
    <2> QED BY <1>1, <2>1, <2>3 DEF RefInv
  <1>4. CASE reference' = reference
    BY <1>1, <1>4 DEF RefInv
  <1> QED BY <1>2, <1>3, <1>4, RefMoves

(* What changes the queues, and what a session starts with. *)
LEMMA WaitingMoves ==
  ASSUME IInv, [Next]_vars, pcS' # "none"
  PROVE  \/ EncodeOk /\ pcS # "none" /\ active = TRUE
         \/ take_frames
         \/ finish_video_frame
         \/ SendError
         \/ SessionStart /\ Waiting' = {} /\ Frames(frames_') = {}
         \/ UNCHANGED <<frames_, video_queue_, pcS, got>>
            /\ pcS # "none" /\ Waiting' = Waiting
         \/ UNCHANGED <<frames_, video_queue_, got>> /\ pcS # "none" /\ Waiting' = Waiting
            /\ (poll \/ update_stream_description \/ PumpReturns)
  <1>1. CASE EncodeOk
    <2>1. pcS # "none" /\ active = TRUE
      BY <1>1 DEF EncodeOk, IInv, ThreadInv
    <2> QED BY <1>1, <2>1
  <1>2. CASE SessionStart
    <2>1. video_queue_' = <<>> /\ frames_' = <<>>
      BY <1>2 DEF SessionStart, set_client, IInv, ThreadInv
    <2> QED BY <1>2, <2>1 DEF Waiting, Frames
  <1>3. CASE poll \/ update_stream_description \/ PumpReturns
    <2>1. UNCHANGED <<frames_, video_queue_, got>> /\ pcS # "none"
      BY <1>3 DEF poll, update_stream_description, PumpReturns, bridgeVars, queueVars,
                  headsetVars, request_idr
    <2> QED BY <1>3, <2>1 DEF Waiting
  <1>4. CASE UNCHANGED <<frames_, video_queue_, pcS, got>>
    BY <1>4 DEF Waiting
  <1>5. \/ EncodeOk \/ take_frames \/ finish_video_frame \/ SendError \/ SessionStart
        \/ UNCHANGED <<frames_, video_queue_, pcS, got>>
        \/ poll \/ update_stream_description \/ PumpReturns
    BY DEF Next, Snapshot, ensure_encoder, EncodeFails, StagingChanged, SessionEnd, SettingsChanged,
           ReceiveFeedback, begin_video_frame, FloorExpires, set_client, request_idr, on_feedback,
           vars, bridgeVars, queueVars, headsetVars
  <1> QED BY <1>1, <1>2, <1>3, <1>4, <1>5

(* The frame that was sent is the last one the headset got of its stream. *)
LEMMA GotMoves ==
  ASSUME finish_video_frame, NEW h, h = Head(video_queue_)
  PROVE  got' = [got EXCEPT ![h.eye] = h.frame_id]
  BY DEF finish_video_frame, HeadsetGets

(* Every step keeps the references of the queued frames in order.          *)
LEMMA ChainStep ==
  ASSUME 2 <= kMaxQueued, IInv, RefInv, ChainInv, [Next]_vars
  PROVE  ChainInv'
  <1> SUFFICES ASSUME pcS' # "none" PROVE ChainOK(Waiting', reference', got')
    BY DEF ChainInv
  <1>1. /\ reference \in [Eye -> Nat] /\ got \in [Eye -> Nat] /\ frame_id \in Nat
        /\ Waiting \subseteq EncodedFrame
    BY WaitingOrder, RefTypes DEF IInv
  <1>7. reference' \in [Eye -> Nat] /\ got' \in [Eye -> Nat] /\ Waiting' \subseteq EncodedFrame
    <2>1. IInv'
      BY VideoStep
    <2>2. TypeOK'
      BY <2>1 DEF IInv
    <2>3. reference' \in [Eye -> FrameId] /\ got' \in [Eye -> FrameId]
      BY <2>2 DEF TypeOK
    <2>4. FrameId \subseteq Nat
      BY DEF FrameId
    <2>5. frames_' \in Seq(EncodedFrame) /\ video_queue_' \in Seq(EncodedFrame)
      BY <2>2 DEF TypeOK
    <2>6. Waiting' = Frames(video_queue_') \cup Frames(frames_')
      BY DEF Waiting
    <2>7. Frames(video_queue_') \subseteq EncodedFrame /\ Frames(frames_') \subseteq EncodedFrame
      BY <2>5, FramesOf
    <2> QED BY <2>3, <2>4, <2>6, <2>7
  <1>8. \A e \in Eye : reference[e] <= reference'[e]
    BY RefMoves DEF IInv
  <1>2. CASE EncodeOk /\ pcS # "none" /\ active = TRUE
    <2>2. ChainOK(Waiting, reference, got)
      BY <1>2 DEF ChainInv
    <2>3. Waiting' \subseteq Waiting \cup {Encoded(0), Encoded(1)}
      BY <1>2, EncodeMoves DEF Waiting
    <2>4. /\ reference' = [e \in Eye |-> frame_id] /\ UNCHANGED got
          /\ \A e \in Eye : reference[e] < frame_id
      BY <1>2 DEF EncodeOk, RefInv, Latest, headsetVars
    <2>6. \A e \in {0, 1} : /\ Encoded(e).eye = e /\ Encoded(e).frame_id = frame_id
                            /\ Encoded(e).idr # TRUE => Encoded(e).ref = reference[e]
      <3>1. force_idr \in BOOLEAN
        BY DEF force_idr
      <3> QED BY <3>1 DEF Encoded
    <2>8. Encoded(0) \in EncodedFrame /\ Encoded(1) \in EncodedFrame
      BY EncodedTypes DEF IInv
    <2> DEFINE a == Encoded(0)
               b == Encoded(1)
               all == [e \in Eye |-> frame_id]
    <2>7. ChainOK(Waiting \cup {a, b}, all, got)
      <3>1. /\ a.eye = 0 /\ b.eye = 1 /\ a.frame_id = frame_id /\ b.frame_id = frame_id
            /\ a.idr # TRUE => a.ref = reference[0]
            /\ b.idr # TRUE => b.ref = reference[1]
        BY <2>6
      <3> HIDE DEF a, b
      <3> QED BY <1>1, <2>2, <2>4, <3>1, ChainMore
    <2>9. Waiting \cup {a, b} \subseteq EncodedFrame /\ Waiting' \subseteq Waiting \cup {a, b}
          /\ all \in [Eye -> Nat] /\ \A e \in Eye : all[e] <= all[e]
      BY <1>1, <2>3, <2>8
    <2>10. reference' = all /\ got' = got
      BY <2>4
    <2> HIDE DEF a, b, all
    <2>11. ChainOK(Waiting', all, got)
      BY <1>1, <2>7, <2>9, ChainLess
    <2> QED BY <2>10, <2>11
  <1>3. CASE take_frames
    <2>1. pcS # "none" /\ UNCHANGED got
      BY <1>3 DEF take_frames, headsetVars
    <2>3. Waiting' \subseteq Waiting /\ ChainOK(Waiting, reference, got)
      BY <1>3, <2>1, TakeMoves DEF ChainInv
    <2>4. ChainOK(Waiting', reference', got)
      BY <1>1, <1>7, <1>8, <2>3, ChainLess
    <2> QED BY <2>1, <2>4
  <1>4. CASE finish_video_frame \/ SendError
    <2>1. PICK h \in EncodedFrame :
            /\ h = Head(video_queue_) /\ Waiting = Waiting' \cup {h} /\ \A g \in Waiting' : Before(h, g)
            /\ pcS = "send"
      BY <1>4, SentMoves
    <2>2. UNCHANGED reference
      BY <1>4 DEF finish_video_frame, SendError, encoderVars
    <2>3. ChainOK(Waiting, reference, got)
      BY <2>1 DEF ChainInv
    <2>4. CASE finish_video_frame
      <3>1. got' = [got EXCEPT ![h.eye] = h.frame_id]
        BY <2>1, <2>4, GotMoves
      <3>2. ChainOK(Waiting', reference, [got EXCEPT ![h.eye] = h.frame_id])
        BY <1>1, <1>7, <2>1, <2>3, ChainSent
      <3> QED BY <2>2, <3>1, <3>2
    <2>5. CASE SendError
      <3>1. UNCHANGED got
        BY <2>5 DEF SendError, headsetVars
      <3>2. ChainOK(Waiting', reference', got)
        BY <1>1, <1>7, <1>8, <2>1, <2>3, ChainLess
      <3> QED BY <3>1, <3>2
    <2> QED BY <1>4, <2>4, <2>5
  <1>5. CASE SessionStart /\ Waiting' = {}
    <2>1. \A e \in Eye : got'[e] = 0 /\ reference'[e] \in Nat
      BY <1>5, <1>7 DEF SessionStart
    <2>2. \A e \in Eye : got'[e] <= reference'[e]
      BY <2>1
    <2> QED BY <1>5, <2>2 DEF ChainOK
  <1>6. CASE UNCHANGED got /\ pcS # "none" /\ Waiting' = Waiting
    <2>1. ChainOK(Waiting, reference, got)
      BY <1>6 DEF ChainInv
    <2>2. ChainOK(Waiting', reference', got)
      BY <1>1, <1>6, <1>7, <1>8, <2>1, ChainLess
    <2> QED BY <1>6, <2>2
  <1> QED BY <1>2, <1>3, <1>4, <1>5, <1>6, WaitingMoves

-----------------------------------------------------------------------------
(* The two eyes of a key frame.                                            *)

(* The left eye of the key frame is sent, and its right eye is next.       *)
Half(g) ==
  /\ pcS = "send" /\ video_queue_ # <<>> /\ g = Head(video_queue_)
  /\ state_ = "wait_idr_feedback" /\ pending_ = FALSE /\ g.frame_id = idr_id_

Mate(W, k, e) == \E m \in W : m.idr = TRUE /\ m.eye = e /\ m.frame_id = k.frame_id

PairOK ==
  /\ \A k \in Waiting : k.idr = TRUE /\ k.eye = 0 => Mate(Waiting, k, 1)
  /\ \A k \in Waiting : k.idr = TRUE /\ k.eye = 1 => Mate(Waiting, k, 0) \/ Half(k)
  /\ \A k \in Frames(frames_) : k.idr = TRUE /\ k.eye = 1 => Mate(Frames(frames_), k, 0)

PairInv == pcS # "none" => PairOK

(* While the sender is between the two eyes of a key frame, it does not return. *)
LEMMA HalfSends ==
  ASSUME NEW g, Half(g), g.idr = TRUE
  PROVE  pcS = "send" /\ ~PumpReturns
  BY DEF Half, PumpReturns

(* Nothing but the sender ends the state between the two eyes. *)
LEMMA HalfStays ==
  ASSUME NEW g, g.idr = TRUE, Half(g), [Next]_vars, ~finish_video_frame, ~SendError
  PROVE  Half(g)'
  <1>1. pcS = "send" /\ ~PumpReturns
    BY HalfSends
  <1>2. UNCHANGED <<pcS, video_queue_, state_, pending_, idr_id_>>
    BY <1>1 DEF Next, Snapshot, ensure_encoder, EncodeOk, EncodeFails, StagingChanged, SessionStart,
           SessionEnd, SettingsChanged, ReceiveFeedback, poll, update_stream_description, take_frames,
           begin_video_frame, FloorExpires, vars, queueVars, trackerVars
  <1> QED BY <1>2 DEF Half

(* The left eye of a key frame is sent: its right eye is the next one.     *)
LEMMA LeftSent ==
  ASSUME IInv, PairOK, finish_video_frame, Head(video_queue_).idr = TRUE,
         NEW m \in Waiting', m.idr = TRUE, m.eye = 1, m.frame_id = Head(video_queue_).frame_id,
         Head(video_queue_).eye = 0
  PROVE  Half(m)'
  <1> DEFINE h == Head(video_queue_)
             q == Tail(video_queue_)
  <1>1. /\ h \in EncodedFrame /\ h \in Frames(video_queue_) /\ pcS = "send" /\ video_queue_ # <<>>
        /\ Waiting = Waiting' \cup {h} /\ h \notin Waiting'
        /\ \A g \in Waiting' : Before(h, g)
        /\ UNCHANGED frames_ /\ video_queue_' = q
    BY SentMoves
  <1>2. m \in Waiting /\ h \in Waiting
    BY <1>1
  <1>3. m \notin Frames(frames_)
    <2>1. SUFFICES ASSUME m \in Frames(frames_) PROVE FALSE
      OBVIOUS
    <2>2. Mate(Frames(frames_), m, 0)
      BY <2>1 DEF PairOK
    <2>3. PICK x \in Frames(frames_) : x.idr = TRUE /\ x.eye = 0 /\ x.frame_id = m.frame_id
      BY <2>2 DEF Mate
    <2>4. x = h
      BY <1>2, <2>3, WaitingOnce DEF Waiting
    <2> QED BY <1>1, <2>3, <2>4, WaitingOnce
  <1>4. m \in Frames(q)
    BY <1>1, <1>3 DEF Waiting
  <1>5. /\ q \in Seq(EncodedFrame) /\ q # <<>>
        /\ Frames(q) = {Head(q)} \cup Frames(Tail(q))
    <2>1. video_queue_ \in Seq(EncodedFrame)
      BY DEF IInv, TypeOK
    <2>2. q \in Seq(EncodedFrame)
      BY <1>1, <2>1, QueueHead
    <2>3. q # <<>>
      BY <1>4, <2>2, FramesOf
    <2> QED BY <2>2, <2>3, FramesOf
  <1> DEFINE n == Head(q)
  <1>6. n \in Frames(q) /\ n \in Waiting /\ n \in Waiting' /\ n \in EncodedFrame /\ m \in EncodedFrame
    BY <1>1, <1>2, <1>5, WaitingOrder DEF Waiting
  <1>7. m = n \/ Before(n, m)
    <2>1. \A g \in Frames(Tail(q)) : Before(n, g)
      <3>1. OrderInv /\ video_queue_ \in Seq(EncodedFrame)
        BY DEF IInv, TypeOK
      <3>2. Ordered(q)
        BY <1>1, <3>1, TailWithin, WithinKeeps DEF OrderInv
      <3>3. /\ n = q[1] /\ Len(q) \in Nat \ {0} /\ Len(Tail(q)) = Len(q) - 1
            /\ \A i \in 1 .. Len(q) - 1 : Tail(q)[i] = q[i + 1]
        <4>1. q \in Seq(EncodedFrame) /\ q # <<>>
          BY <1>5
        <4> HIDE DEF q
        <4> QED BY <4>1, QueueHead
      <3> HIDE DEF q, n
      <3> SUFFICES ASSUME NEW i \in 1 .. Len(Tail(q)) PROVE Before(n, Tail(q)[i])
        BY DEF Frames
      <3>4. 1 \in 1 .. Len(q) /\ i + 1 \in 1 .. Len(q) /\ 1 < i + 1 /\ Tail(q)[i] = q[i + 1]
        BY <3>3
      <3> QED BY <3>2, <3>3, <3>4 DEF Ordered
    <2> QED BY <1>4, <1>5, <2>1
  <1>8. m = n
    <2>1. Before(h, n)
      BY <1>1, <1>6
    <2>2. /\ h.frame_id \in Nat /\ n.frame_id \in Nat /\ m.frame_id \in Nat
          /\ n.eye = 0 \/ n.eye = 1
      BY <1>1, <1>6, FrameFields
    <2> HIDE DEF h, n, q
    <2>3. h.eye = 0 /\ m.frame_id = h.frame_id
      BY DEF h
    <2> QED BY <1>7, <2>1, <2>2, <2>3 DEF Before
  <1>9. state_' = "wait_idr_feedback" /\ pending_' = FALSE /\ idr_id_' = h.frame_id /\ pcS' = "send"
    BY <1>1 DEF finish_video_frame, on_frame_sent
  <1> QED BY <1>1, <1>5, <1>8, <1>9 DEF Half

(* Taking a P frame, or a whole key frame, out of the queues leaves the     *)
(* other key frames whole.                                                 *)
LEMMA PairStep ==
  ASSUME LoseIdr = FALSE, 2 <= kMaxQueued, IInv, PairInv, [Next]_vars, [CutsSpare]_vars
  PROVE  PairInv'
  <1> SUFFICES ASSUME pcS' # "none" PROVE PairOK'
    BY DEF PairInv
  <1>1. Waiting \subseteq EncodedFrame
    BY WaitingOrder
  <1>2. CASE EncodeOk /\ pcS # "none" /\ active = TRUE
    <2>1. CutsSpare
      <3>1. pcV' # pcV
        BY <1>2 DEF EncodeOk
      <3> QED BY <3>1 DEF vars, encoderVars
    <2>2. PairOK /\ \A k \in Waiting : k.idr = TRUE => k \in Waiting'
      BY <1>2, <2>1 DEF CutsSpare, PairInv
    <2>3. /\ UNCHANGED video_queue_
          /\ Encoded(0) \in Frames(frames_') /\ Encoded(1) \in Frames(frames_')
          /\ Frames(frames_') \subseteq Frames(frames_) \cup {Encoded(0), Encoded(1)}
      BY <1>2, EncodeMoves
    <2>4. \A e \in {0, 1} : /\ Encoded(e).eye = e /\ Encoded(e).frame_id = frame_id
                            /\ Encoded(e).idr = force_idr
      BY DEF Encoded
    <2> DEFINE a == Encoded(0)
               b == Encoded(1)
    <2>5. /\ a.eye = 0 /\ b.eye = 1 /\ a.frame_id = b.frame_id /\ a.idr = b.idr
          /\ a \in Frames(frames_') /\ b \in Frames(frames_')
          /\ Frames(frames_') \subseteq Frames(frames_) \cup {a, b}
      BY <2>3, <2>4
    <2> HIDE DEF a, b
    <2>6. a \in Waiting' /\ b \in Waiting' /\ Waiting' \subseteq Waiting \cup {a, b}
      BY <2>3, <2>5 DEF Waiting
    <2>7. ASSUME NEW k \in Waiting', k.idr = TRUE, k.eye = 0 PROVE Mate(Waiting', k, 1)
      <3>1. CASE k \in Waiting
        <4>1. PICK m \in Waiting : m.idr = TRUE /\ m.eye = 1 /\ m.frame_id = k.frame_id
          BY <2>2, <2>7, <3>1 DEF PairOK, Mate
        <4> QED BY <2>2, <4>1 DEF Mate
      <3>2. CASE k \in {a, b}
        BY <2>5, <2>6, <2>7, <3>2 DEF Mate
      <3> QED BY <2>6, <3>1, <3>2
    <2>8. ASSUME NEW k \in Waiting', k.idr = TRUE, k.eye = 1 PROVE Mate(Waiting', k, 0) \/ Half(k)'
      <3>1. CASE k \in Waiting /\ Mate(Waiting, k, 0)
        <4>1. PICK m \in Waiting : m.idr = TRUE /\ m.eye = 0 /\ m.frame_id = k.frame_id
          BY <3>1 DEF Mate
        <4> QED BY <2>2, <4>1 DEF Mate
      <3>2. CASE Half(k)
        <4>1. Half(k)'
          <5>1. UNCHANGED <<pcS, video_queue_, state_, pending_, idr_id_>>
            BY <1>2 DEF EncodeOk, queueVars, trackerVars
          <5> QED BY <3>2, <5>1 DEF Half
        <4> QED BY <4>1
      <3>3. CASE k \in {a, b}
        BY <2>5, <2>6, <2>8, <3>3 DEF Mate
      <3> QED BY <2>2, <2>6, <2>8, <3>1, <3>2, <3>3 DEF PairOK
    <2>9. ASSUME NEW k \in Frames(frames_'), k.idr = TRUE, k.eye = 1
          PROVE  Mate(Frames(frames_'), k, 0)
      <3>1. CASE k \in Frames(frames_)
        <4>1. PICK m \in Frames(frames_) : m.idr = TRUE /\ m.eye = 0 /\ m.frame_id = k.frame_id
          BY <2>2, <2>9, <3>1 DEF PairOK, Mate
        <4>2. m \in Waiting' /\ m \notin Frames(video_queue_)
          BY <2>2, <4>1, WaitingOnce DEF Waiting
        <4>3. m \in Frames(frames_')
          BY <2>3, <4>2 DEF Waiting
        <4> QED BY <4>1, <4>3 DEF Mate
      <3>2. CASE k \in {a, b}
        BY <2>5, <2>9, <3>2 DEF Mate
      <3> QED BY <2>5, <2>9, <3>1, <3>2
    <2> QED BY <2>7, <2>8, <2>9 DEF PairOK
  <1>3. CASE take_frames
    <2>1. CutsSpare /\ pcS = "take"
      <3>1. pcS' # pcS /\ pcS = "take"
        BY <1>3 DEF take_frames
      <3> QED BY <3>1 DEF vars
    <2>2. PairOK /\ Waiting' \subseteq Waiting /\ Frames(frames_') = {}
      BY <1>3, <2>1, TakeMoves DEF PairInv
    <2>3. \A k \in Waiting : k.idr = TRUE => k \in Waiting'
      BY <1>3, <2>1 DEF CutsSpare
    <2>4. \A k : ~Half(k)
      BY <2>1 DEF Half
    <2>5. ASSUME NEW k \in Waiting', k.idr = TRUE, NEW e, Mate(Waiting, k, e)
          PROVE  Mate(Waiting', k, e)
      BY <2>3, <2>5 DEF Mate
    <2> QED BY <2>2, <2>4, <2>5 DEF PairOK
  <1>4. CASE finish_video_frame \/ SendError
    <2> DEFINE h == Head(video_queue_)
    <2>1. /\ h \in EncodedFrame /\ Waiting = Waiting' \cup {h} /\ h \notin Waiting'
          /\ \A g \in Waiting' : Before(h, g)
          /\ UNCHANGED frames_ /\ PairOK
      <3>1. /\ h \in EncodedFrame /\ Waiting = Waiting' \cup {h} /\ h \notin Waiting'
            /\ \A g \in Waiting' : Before(h, g)
            /\ UNCHANGED frames_ /\ pcS = "send"
        BY <1>4, SentMoves
      <3>2. PairOK
        BY <3>1 DEF PairInv
      <3> QED BY <3>1, <3>2
    <2>2. \A k : Half(k) => k = h
      BY DEF Half
    <2>3. ASSUME NEW k \in Waiting', NEW e, Mate(Waiting, k, e)
          PROVE  \/ Mate(Waiting', k, e)
                 \/ h.idr = TRUE /\ h.eye = e /\ h.frame_id = k.frame_id
      BY <2>1, <2>3 DEF Mate
    <2>4. ASSUME NEW k \in Waiting', h.eye = 1 PROVE h.frame_id # k.frame_id
      <3>1. Before(h, k) /\ h.frame_id \in Nat
        BY <2>1, FrameFields
      <3> QED BY <2>4, <3>1 DEF Before
    <2>5. ASSUME NEW k \in Waiting', k.idr = TRUE, k.eye = 0 PROVE Mate(Waiting', k, 1)
      BY <2>1, <2>3, <2>4, <2>5 DEF PairOK
    <2>6. ASSUME NEW k \in Waiting', k.idr = TRUE, k.eye = 1 PROVE Mate(Waiting', k, 0) \/ Half(k)'
      <3>1. Mate(Waiting, k, 0)
        BY <2>1, <2>2, <2>6 DEF PairOK
      <3>2. CASE h.idr = TRUE /\ h.eye = 0 /\ h.frame_id = k.frame_id
        <4>1. finish_video_frame
          BY <1>4, <3>2 DEF SendError, MayFail
        <4> QED BY <2>1, <2>6, <3>2, <4>1, LeftSent
      <3> QED BY <2>3, <3>1, <3>2
    <2>7. Frames(frames_') = Frames(frames_)
      BY <2>1
    <2> QED BY <2>1, <2>5, <2>6, <2>7 DEF PairOK
  <1>5. CASE Waiting' = {} /\ Frames(frames_') = {}
    BY <1>5 DEF PairOK
  <1>6. CASE /\ UNCHANGED <<frames_, video_queue_>> /\ pcS # "none"
             /\ ~EncodeOk /\ ~finish_video_frame /\ ~SendError
    <2>1. PairOK /\ Waiting' = Waiting /\ Frames(frames_') = Frames(frames_)
      BY <1>6 DEF PairInv, Waiting
    <2>2. \A k : k.idr = TRUE /\ Half(k) => Half(k)'
      BY <1>6, HalfStays
    <2> QED BY <2>1, <2>2 DEF PairOK
  <1> QED BY <1>2, <1>3, <1>4, <1>5, <1>6, WaitingMoves DEF IInv, ThreadInv

-----------------------------------------------------------------------------
(* What the headset reports.                                               *)

(* Where the elements of two sequences are when they are joined. *)
LEMMA Appended ==
  ASSUME NEW S, NEW q \in Seq(S), NEW r \in Seq(S)
  PROVE  /\ \A i \in 1 .. Len(q) : i \in 1 .. Len(q \o r) /\ (q \o r)[i] = q[i]
         /\ \A i \in 1 .. Len(r) : Len(q) + i \in 1 .. Len(q \o r) /\ (q \o r)[Len(q) + i] = r[i]
  <1>1. ASSUME NEW i \in 1 .. Len(q)
        PROVE  i \in 1 .. Len(q \o r) /\ (q \o r)[i] = q[i]
    OBVIOUS
  <1>2. ASSUME NEW i \in 1 .. Len(r)
        PROVE  Len(q) + i \in 1 .. Len(q \o r) /\ (q \o r)[Len(q) + i] = r[i]
    OBVIOUS
  <1> QED BY <1>1, <1>2

(* The reports of one frame: those it shows to be missing, before it, and its own. *)
LEMMA ReportIs ==
  ASSUME got \in [Eye -> FrameId], NEW h \in EncodedFrame, NEW ok \in BOOLEAN,
         got[h.eye] < h.frame_id
  PROVE  /\ Report(h, ok) \in Seq(Feedback)
         /\ \A i \in 1 .. Len(Report(h, ok)) :
              \/ /\ Report(h, ok)[i].frame_index > got[h.eye]
                 /\ Report(h, ok)[i].frame_index < h.frame_id
                 /\ got[h.eye] # 0
              \/ Report(h, ok)[i] = [frame_index |-> h.frame_id, sent_to_decoder |-> ok]
         /\ ok = FALSE => \E i \in 1 .. Len(Report(h, ok)) :
              Report(h, ok)[i] = [frame_index |-> h.frame_id, sent_to_decoder |-> FALSE]
         /\ got[h.eye] # 0 => \A r \in Nat : got[h.eye] < r /\ r < h.frame_id =>
              \E i \in 1 .. Len(Report(h, ok)) :
                Report(h, ok)[i] = [frame_index |-> r, sent_to_decoder |-> FALSE]
  <1> DEFINE last == got[h.eye]
             n == IF last = 0 THEN 0 ELSE h.frame_id - last - 1
             own == [frame_index |-> h.frame_id, sent_to_decoder |-> ok]
             m == Missed(h)
             r0 == IF h.idr \/ ~ok THEN <<own>> ELSE <<>>
             R == Report(h, ok)
  <1>1. last \in Nat /\ h.frame_id \in Nat /\ n \in Nat
    <2>1. h.eye \in Eye /\ h.frame_id \in Nat
      BY FrameFields
    <2>2. last \in FrameId
      BY <2>1
    <2> QED BY <2>1, <2>2, VideoAssumption DEF FrameId
  <1>2. m = [i \in 1 .. n |-> [frame_index |-> last + i, sent_to_decoder |-> FALSE]]
    BY DEF Missed
  <1>3. R = m \o r0 /\ R \in Seq(Feedback)
    BY ReportTypes DEF Report
  <1> DEFINE Any == [frame_index : Nat, sent_to_decoder : BOOLEAN]
  <1>4. m \in Seq(Any) /\ Len(m) = n
        /\ \A i \in 1 .. n : m[i] = [frame_index |-> last + i, sent_to_decoder |-> FALSE]
    <2> DEFINE missed(i) == [frame_index |-> last + i, sent_to_decoder |-> FALSE]
    <2>1. \A i \in 1 .. n : missed(i) \in Any
      BY <1>1
    <2>2. m = [i \in 1 .. n |-> missed(i)] /\ n \in Nat
      BY <1>1, <1>2
    <2> HIDE DEF m, n, Any, missed
    <2>3. m \in Seq(Any) /\ Len(m) = n /\ \A i \in 1 .. n : m[i] = missed(i)
      BY <2>1, <2>2
    <2> QED BY <2>3 DEF missed
  <1>5. r0 \in Seq(Any) /\ (r0 = <<>> \/ r0 = <<own>>) /\ (ok = FALSE => r0 = <<own>>)
    <2>1. own \in Any
      BY <1>1
    <2> HIDE DEF own, Any
    <2> QED BY <2>1
  <1>6. (Len(r0) = 0 \/ Len(r0) = 1) /\ (\A i \in 1 .. Len(r0) : r0[i] = own)
        /\ (ok = FALSE => Len(r0) = 1)
    <2> HIDE DEF own, Any
    <2> QED BY <1>5
  <1> HIDE DEF m, r0, R, own, Any, n, last
  <1>7. Len(R) = n + Len(r0) /\ Len(r0) \in Nat
        /\ (\A i \in 1 .. n : i \in 1 .. Len(R) /\ R[i] = m[i])
        /\ (\A i \in 1 .. Len(r0) : n + i \in 1 .. Len(R) /\ R[n + i] = r0[i])
    <2>1. /\ m \in Seq(Any) /\ r0 \in Seq(Any) /\ Len(m) = n /\ n \in Nat
          /\ R = m \o r0 /\ Len(r0) \in Nat
      BY <1>1, <1>3, <1>4, <1>5
    <2>2. Len(R) = n + Len(r0)
      BY <2>1, Joined
    <2>3. ASSUME NEW i \in 1 .. n
          PROVE  i \in 1 .. Len(R) /\ R[i] = m[i]
      <3>1. i \in 1 .. Len(m)
        BY <2>1
      <3> QED BY <2>1, <3>1, Appended
    <2>4. ASSUME NEW i \in 1 .. Len(r0)
          PROVE  n + i \in 1 .. Len(R) /\ R[n + i] = r0[i]
      <3>1. Len(m) + i \in 1 .. Len(m \o r0) /\ (m \o r0)[Len(m) + i] = r0[i]
        BY <2>1, Appended
      <3> QED BY <2>1, <3>1
    <2> QED BY <2>1, <2>2, <2>3, <2>4
  <1>8. ASSUME NEW i \in 1 .. Len(R)
        PROVE  \/ R[i].frame_index > last /\ R[i].frame_index < h.frame_id /\ last # 0
               \/ R[i] = own
    <2>1. CASE i \in 1 .. n
      <3>1. R[i].frame_index = last + i
        BY <1>4, <1>7, <2>1
      <3> QED BY <1>1, <2>1, <3>1 DEF n
    <2>2. CASE i \notin 1 .. n
      <3>1. i - n \in 1 .. Len(r0) /\ n + (i - n) = i
        BY <1>1, <1>7, <2>2
      <3>2. R[n + (i - n)] = r0[i - n] /\ r0[i - n] = own
        BY <1>6, <1>7, <3>1
      <3> QED BY <3>1, <3>2
    <2> QED BY <2>1, <2>2
  <1>9. ASSUME ok = FALSE PROVE \E i \in 1 .. Len(R) : R[i] = own
    <2>1. 1 \in 1 .. Len(r0)
      BY <1>6, <1>9
    <2>2. n + 1 \in 1 .. Len(R) /\ R[n + 1] = own
      BY <1>6, <1>7, <2>1
    <2> QED BY <2>2
  <1>10. ASSUME last # 0, NEW r \in Nat, last < r, r < h.frame_id
         PROVE  \E i \in 1 .. Len(R) : R[i] = [frame_index |-> r, sent_to_decoder |-> FALSE]
    <2>1. r - last \in 1 .. n /\ last + (r - last) = r
      BY <1>1, <1>10 DEF n
    <2>2. R[r - last] = [frame_index |-> r, sent_to_decoder |-> FALSE] /\ r - last \in 1 .. Len(R)
      BY <1>4, <1>7, <2>1
    <2> QED BY <2>2
  <1> QED BY <1>3, <1>8, <1>9, <1>10 DEF R, own, last

(* Reports are added behind those that are on their way. *)
LEMMA ReportsAdded ==
  ASSUME NEW p \in Seq(Feedback), NEW r \in Seq(Feedback)
  PROVE  /\ \A i \in 1 .. Len(p) : i \in 1 .. Len(p \o r) /\ (p \o r)[i] = p[i]
         /\ \A i \in 1 .. Len(r) : \E j \in 1 .. Len(p \o r) : (p \o r)[j] = r[i]
         /\ \A j \in 1 .. Len(p \o r) :
              \/ j \in 1 .. Len(p) /\ (p \o r)[j] = p[j]
              \/ \E i \in 1 .. Len(r) : (p \o r)[j] = r[i]
  <1>1. \A i \in 1 .. Len(p) : i \in 1 .. Len(p \o r) /\ (p \o r)[i] = p[i]
    OBVIOUS
  <1>2. ASSUME NEW i \in 1 .. Len(r) PROVE \E j \in 1 .. Len(p \o r) : (p \o r)[j] = r[i]
    <2>1. Len(p) + i \in 1 .. Len(p \o r) /\ (p \o r)[Len(p) + i] = r[i]
      OBVIOUS
    <2> QED BY <2>1
  <1>3. ASSUME NEW j \in 1 .. Len(p \o r)
        PROVE  \/ j \in 1 .. Len(p) /\ (p \o r)[j] = p[j]
               \/ \E i \in 1 .. Len(r) : (p \o r)[j] = r[i]
    BY InRow
  <1> QED BY <1>1, <1>2, <1>3

(* What sending a frame does, when it arrives and when it does not.        *)
LEMMA FinishIs ==
  ASSUME IInv, finish_video_frame
  PROVE  LET h == Head(video_queue_)
         IN  \E ok \in BOOLEAN :
               /\ ok = FALSE => MayBeLost(h)
               /\ got' = [got EXCEPT ![h.eye] = h.frame_id]
               /\ shown' = IF ok /\ Decodable(h) THEN [shown EXCEPT ![h.eye] = h.frame_id] ELSE shown
               /\ feedback' = feedback \o Report(h, ok)
  <1> DEFINE h == Head(video_queue_)
  <1>1. HeadsetGets(h, TRUE) \/ (MayBeLost(h) /\ HeadsetGets(h, FALSE))
    BY DEF finish_video_frame
  <1> HIDE DEF h
  <1>2. PICK ok \in BOOLEAN : HeadsetGets(h, ok) /\ (ok = FALSE => MayBeLost(h))
    BY <1>1
  <1>3. /\ ok = FALSE => MayBeLost(h)
        /\ got' = [got EXCEPT ![h.eye] = h.frame_id]
        /\ shown' = IF ok /\ Decodable(h) THEN [shown EXCEPT ![h.eye] = h.frame_id] ELSE shown
        /\ feedback' = feedback \o Report(h, ok)
    BY <1>2 DEF HeadsetGets
  <1> QED BY <1>3 DEF h

(* The headset has the frame, and for the other eye what it had. *)
LEMMA GotIs ==
  ASSUME IInv, finish_video_frame
  PROVE  LET h == Head(video_queue_)
         IN  /\ h.eye \in Eye /\ got'[h.eye] = h.frame_id /\ got[h.eye] < h.frame_id
             /\ \A e \in Eye : e # h.eye => got'[e] = got[e]
             /\ \A e \in Eye : got[e] \in Nat /\ got'[e] \in Nat /\ got[e] <= got'[e]
             /\ got \in [Eye -> FrameId]
  <1> DEFINE h == Head(video_queue_)
  <1>1. h \in EncodedFrame /\ h \in Waiting /\ pcS # "none"
    BY SentMoves DEF Waiting
  <1>2. got' = [got EXCEPT ![h.eye] = h.frame_id] /\ got \in [Eye -> FrameId]
    <2>1. got \in [Eye -> FrameId]
      BY DEF IInv, TypeOK
    <2> QED BY <2>1, FinishIs
  <1>3. h.eye \in Eye /\ h.frame_id \in FrameId /\ h.frame_id \in Nat
    BY <1>1, FrameFields
  <1>4. got[h.eye] < h.frame_id
    BY <1>1, WaitingOrder
  <1> HIDE DEF h
  <1>5. \A e \in Eye : got[e] \in Nat
    BY <1>2, VideoAssumption DEF FrameId
  <1>6. got'[h.eye] = h.frame_id /\ \A e \in Eye : e # h.eye => got'[e] = got[e]
    BY <1>2, <1>3
  <1>7. \A e \in Eye : got'[e] \in Nat /\ got[e] <= got'[e]
    BY <1>3, <1>4, <1>5, <1>6
  <1>8. /\ h.eye \in Eye /\ got'[h.eye] = h.frame_id /\ got[h.eye] < h.frame_id
        /\ \A e \in Eye : e # h.eye => got'[e] = got[e]
        /\ \A e \in Eye : got[e] \in Nat /\ got'[e] \in Nat /\ got[e] <= got'[e]
        /\ got \in [Eye -> FrameId]
    BY <1>2, <1>3, <1>4, <1>5, <1>6, <1>7
  <1> QED BY <1>8 DEF h

(* The reports after a frame was sent: those before it, and of that frame. *)
LEMMA ReportsAre ==
  ASSUME IInv, finish_video_frame
  PROVE  LET h == Head(video_queue_)
         IN  \E ok \in BOOLEAN :
               /\ ok = FALSE => MayBeLost(h)
               /\ shown' = IF ok /\ Decodable(h) THEN [shown EXCEPT ![h.eye] = h.frame_id] ELSE shown
               /\ \A i \in 1 .. Len(feedback) : \E j \in 1 .. Len(feedback') : feedback'[j] = feedback[i]
               /\ \A j \in 1 .. Len(feedback') :
                    \/ \E i \in 1 .. Len(feedback) : feedback'[j] = feedback[i]
                    \/ /\ feedback'[j].frame_index > got[h.eye]
                       /\ feedback'[j].frame_index < h.frame_id
                    \/ feedback'[j] = [frame_index |-> h.frame_id, sent_to_decoder |-> ok]
               /\ ok = FALSE => \E j \in 1 .. Len(feedback') :
                    feedback'[j] = [frame_index |-> h.frame_id, sent_to_decoder |-> FALSE]
               /\ got[h.eye] # 0 => \A r \in Nat : got[h.eye] < r /\ r < h.frame_id =>
                    \E j \in 1 .. Len(feedback') :
                      feedback'[j] = [frame_index |-> r, sent_to_decoder |-> FALSE]
  <1> DEFINE h == Head(video_queue_)
  <1>1. h \in EncodedFrame /\ got \in [Eye -> FrameId] /\ got[h.eye] < h.frame_id
    BY SentMoves, GotIs
  <1>2. PICK ok \in BOOLEAN :
          /\ ok = FALSE => MayBeLost(h)
          /\ got' = [got EXCEPT ![h.eye] = h.frame_id]
          /\ shown' = IF ok /\ Decodable(h) THEN [shown EXCEPT ![h.eye] = h.frame_id] ELSE shown
          /\ feedback' = feedback \o Report(h, ok)
    BY FinishIs
  <1> HIDE DEF h
  <1> DEFINE R == Report(h, ok)
  <1>3. /\ R \in Seq(Feedback)
        /\ \A i \in 1 .. Len(R) :
             \/ R[i].frame_index > got[h.eye] /\ R[i].frame_index < h.frame_id /\ got[h.eye] # 0
             \/ R[i] = [frame_index |-> h.frame_id, sent_to_decoder |-> ok]
        /\ ok = FALSE => \E i \in 1 .. Len(R) :
             R[i] = [frame_index |-> h.frame_id, sent_to_decoder |-> FALSE]
        /\ got[h.eye] # 0 => \A r \in Nat : got[h.eye] < r /\ r < h.frame_id =>
             \E i \in 1 .. Len(R) : R[i] = [frame_index |-> r, sent_to_decoder |-> FALSE]
    BY <1>1, ReportIs
  <1>4. feedback' = feedback \o R /\ feedback \in Seq(Feedback)
    BY <1>2 DEF IInv, TypeOK, Feedback
  <1> HIDE DEF R
  <1>5. /\ \A i \in 1 .. Len(feedback) : i \in 1 .. Len(feedback') /\ feedback'[i] = feedback[i]
        /\ \A i \in 1 .. Len(R) : \E j \in 1 .. Len(feedback') : feedback'[j] = R[i]
        /\ \A j \in 1 .. Len(feedback') :
             \/ j \in 1 .. Len(feedback) /\ feedback'[j] = feedback[j]
             \/ \E i \in 1 .. Len(R) : feedback'[j] = R[i]
    <2>1. R \in Seq(Feedback)
      BY <1>3
    <2>2. feedback' = feedback \o R /\ feedback \in Seq(Feedback)
      BY <1>4
    <2> QED BY <2>1, <2>2, ReportsAdded
  <1>6. \A i \in 1 .. Len(feedback) : \E j \in 1 .. Len(feedback') : feedback'[j] = feedback[i]
    BY <1>5
  <1>7. ASSUME NEW j \in 1 .. Len(feedback')
        PROVE  \/ \E i \in 1 .. Len(feedback) : feedback'[j] = feedback[i]
               \/ /\ feedback'[j].frame_index > got[h.eye]
                  /\ feedback'[j].frame_index < h.frame_id
               \/ feedback'[j] = [frame_index |-> h.frame_id, sent_to_decoder |-> ok]
    <2>1. CASE j \in 1 .. Len(feedback) /\ feedback'[j] = feedback[j]
      BY <2>1
    <2>2. ASSUME NEW i \in 1 .. Len(R), feedback'[j] = R[i]
          PROVE  \/ /\ feedback'[j].frame_index > got[h.eye]
                    /\ feedback'[j].frame_index < h.frame_id
                 \/ feedback'[j] = [frame_index |-> h.frame_id, sent_to_decoder |-> ok]
      BY <1>3, <2>2
    <2> QED BY <1>5, <2>1, <2>2
  <1>8. ASSUME ok = FALSE
        PROVE  \E j \in 1 .. Len(feedback') :
                 feedback'[j] = [frame_index |-> h.frame_id, sent_to_decoder |-> FALSE]
    <2>1. PICK i \in 1 .. Len(R) : R[i] = [frame_index |-> h.frame_id, sent_to_decoder |-> FALSE]
      BY <1>3, <1>8
    <2>2. \E j \in 1 .. Len(feedback') : feedback'[j] = R[i]
      BY <1>5
    <2> QED BY <2>1, <2>2, Zenon
  <1>9. ASSUME got[h.eye] # 0, NEW r \in Nat, got[h.eye] < r, r < h.frame_id
        PROVE  \E j \in 1 .. Len(feedback') :
                 feedback'[j] = [frame_index |-> r, sent_to_decoder |-> FALSE]
    <2>1. PICK i \in 1 .. Len(R) : R[i] = [frame_index |-> r, sent_to_decoder |-> FALSE]
      BY <1>3, <1>9
    <2>2. \E j \in 1 .. Len(feedback') : feedback'[j] = R[i]
      BY <1>5
    <2> QED BY <2>1, <2>2, Zenon
  <1>10. /\ ok = FALSE => MayBeLost(h)
         /\ shown' = IF ok /\ Decodable(h) THEN [shown EXCEPT ![h.eye] = h.frame_id] ELSE shown
    BY <1>2
  <1> QED BY <1>6, <1>7, <1>8, <1>9, <1>10 DEF h

(* What the other steps of the session do with the reports and the tracker. *)
LEMMA TrackerMoves ==
  ASSUME [Next]_vars
  PROVE  \/ EncodeOk \/ take_frames \/ finish_video_frame \/ SendError \/ SessionStart
         \/ ReceiveFeedback
         \/ state_' = "need_idr" /\ UNCHANGED feedback
         \/ UNCHANGED <<state_, idr_id_, first_p_, feedback>>
  <1>1. CASE update_stream_description
    BY <1>1 DEF update_stream_description, reset, trackerVars
  <1>2. CASE ~update_stream_description
    BY <1>2 DEF Next, Snapshot, ensure_encoder, EncodeFails, StagingChanged, SessionEnd, SettingsChanged,
           poll, begin_video_frame, PumpReturns, FloorExpires, vars, trackerVars, headsetVars
  <1> QED BY <1>1, <1>2

(* A report that came in. *)
LEMMA ReportRead ==
  ASSUME IInv, ReceiveFeedback
  PROVE  /\ pcS = "receive" /\ UNCHANGED <<idr_id_, first_p_, got>>
         /\ \A i \in 1 .. Len(feedback') : i + 1 \in 1 .. Len(feedback) /\ feedback'[i] = feedback[i + 1]
         /\ 1 \in 1 .. Len(feedback) /\ Head(feedback) = feedback[1]
         /\ \A i \in 1 .. Len(feedback) : i = 1 \/
              (i - 1 \in 1 .. Len(feedback') /\ feedback'[i - 1] = feedback[i])
  <1>1. feedback \in Seq(Feedback) /\ feedback # <<>> /\ feedback' = Tail(feedback)
    BY DEF IInv, TypeOK, Feedback, ReceiveFeedback
  <1>2. /\ Head(feedback) = feedback[1] /\ Len(feedback) \in Nat \ {0}
        /\ Len(Tail(feedback)) = Len(feedback) - 1
        /\ \A i \in 1 .. Len(feedback) - 1 : Tail(feedback)[i] = feedback[i + 1]
    BY <1>1, QueueHead
  <1>3. \A i \in 1 .. Len(feedback') : i + 1 \in 1 .. Len(feedback) /\ feedback'[i] = feedback[i + 1]
    BY <1>1, <1>2
  <1>4. ASSUME NEW i \in 1 .. Len(feedback), i # 1
        PROVE  i - 1 \in 1 .. Len(feedback') /\ feedback'[i - 1] = feedback[i]
    <2>1. i - 1 \in 1 .. Len(feedback') /\ (i - 1) + 1 = i
      BY <1>1, <1>2, <1>4
    <2> QED BY <1>3, <2>1
  <1>5. pcS = "receive" /\ UNCHANGED <<idr_id_, first_p_, got>>
    BY DEF ReceiveFeedback, on_feedback
  <1> QED BY <1>2, <1>3, <1>4, <1>5

-----------------------------------------------------------------------------
(* Requests for key frames, and the description of the stream.             *)

(* What makes, ends and keeps a request. *)
LEMMA RequestMoves ==
  ASSUME [Next]_vars
  PROVE  \/ EncodeOk
         \/ ensure_encoder
         \/ idr_generation' = idr_generation + 1 /\ UNCHANGED idr_seen_
         \/ encoder_ready_' = FALSE
         \/ UNCHANGED <<idr_generation, config_generation, encoder_ready_,
                        encoder_config_generation_, idr_seen_>>
  <1>1. CASE ReceiveFeedback
    BY <1>1 DEF ReceiveFeedback, on_feedback, request_idr, bridgeVars, requestVars, encoderVars
  <1>2. CASE SessionStart \/ SettingsChanged \/ poll \/ update_stream_description
    BY <1>2 DEF SessionStart, SettingsChanged, poll, update_stream_description, set_client, request_idr,
                bridgeVars, requestVars, encoderVars
  <1>3. CASE ~ReceiveFeedback /\ ~SessionStart /\ ~SettingsChanged /\ ~poll /\ ~update_stream_description
    BY <1>3 DEF Next, Snapshot, EncodeFails, StagingChanged, SessionEnd, take_frames, begin_video_frame,
                PumpReturns, finish_video_frame, SendError, FloorExpires, clear_client,
                vars, bridgeVars, requestVars, encoderVars
  <1> QED BY <1>1, <1>2, <1>3

(* Only the encode itself takes a request. *)
LEMMA RequestStays ==
  ASSUME TypeOK, RequestInv, pcS # "none", IdrRequested, [Next]_vars, ~EncodeOk
  PROVE  IdrRequested'
  <1>1. CASE ensure_encoder
    <2>1. /\ UNCHANGED <<idr_generation, config_generation>>
          /\ encoder_config_generation_' = request.config_generation
      BY <1>1 DEF ensure_encoder, requestVars
    <2>2. CASE encoder_ready_' = FALSE
      BY <2>2 DEF IdrRequested
    <2>3. CASE idr_seen_' = 0
      BY <2>1, <2>3 DEF IdrRequested, RequestInv, TypeOK
    <2>4. CASE /\ UNCHANGED <<encoder_ready_, idr_seen_>>
               /\ encoder_config_generation_ = request.config_generation
      BY <2>1, <2>4 DEF IdrRequested
    <2> QED BY <1>1, <2>2, <2>3, <2>4 DEF ensure_encoder
  <1>2. CASE idr_generation' = idr_generation + 1 /\ UNCHANGED idr_seen_
    BY <1>2, NewRequest
  <1>3. CASE encoder_ready_' = FALSE
    BY <1>3 DEF IdrRequested
  <1>4. CASE UNCHANGED <<idr_generation, config_generation, encoder_ready_,
                         encoder_config_generation_, idr_seen_>>
    BY <1>4 DEF IdrRequested
  <1> QED BY <1>1, <1>2, <1>3, <1>4, RequestMoves

(* A request that is not for this frame is left standing. *)
LEMMA RequestLeft ==
  ASSUME EncodeOk, ~force_idr
  PROVE  IdrRequested' <=> IdrRequested
  <1>1. /\ UNCHANGED <<idr_generation, config_generation, encoder_ready_, encoder_config_generation_>>
        /\ idr_seen_' = idr_seen_
    BY DEF EncodeOk, push_frames, requestVars, force_idr
  <1> QED BY <1>1 DEF IdrRequested

(* Another stream starts with a key frame. *)
LEMMA StreamMoves ==
  ASSUME TypeOK, RequestInv, pcS # "none", [Next]_vars
  PROVE  /\ stream_'.info = stream_.info \/ IdrRequested'
         /\ UNCHANGED stream_ \/ IdrRequested'
         /\ EncodeOk => UNCHANGED stream_
  <1>1. CASE ensure_encoder
    <2>4. ~EncodeOk
      BY <1>1 DEF ensure_encoder, EncodeOk
    <2>1. CASE encoder_ready_' = FALSE
      <3>1. IdrRequested'
        BY <2>1 DEF IdrRequested
      <3> QED BY <3>1, <2>4
    <2>2. CASE idr_seen_' = 0
      <3>1. UNCHANGED idr_generation
        BY <1>1 DEF ensure_encoder, requestVars
      <3>2. IdrRequested'
        BY <2>2, <3>1 DEF IdrRequested, RequestInv, TypeOK
      <3> QED BY <3>2, <2>4
    <2>3. CASE UNCHANGED stream_
      BY <2>3
    <2> QED BY <1>1, <2>1, <2>2, <2>3 DEF ensure_encoder
  <1>2. CASE EncodeFails \/ StagingChanged
    <2>1. UNCHANGED stream_ \/ encoder_ready_' = FALSE
      BY <1>2 DEF EncodeFails, StagingChanged
    <2>2. EncodeOk => UNCHANGED stream_
      BY DEF EncodeOk
    <2> QED BY <2>1, <2>2 DEF IdrRequested
  <1>3. CASE UNCHANGED stream_
    BY <1>3
  <1>4. ensure_encoder \/ EncodeFails \/ StagingChanged \/ UNCHANGED stream_
    BY DEF Next, Snapshot, EncodeOk, SessionStart, SessionEnd, SettingsChanged, ReceiveFeedback, poll,
           update_stream_description, take_frames, begin_video_frame, PumpReturns, finish_video_frame,
           SendError, FloorExpires, set_client, clear_client, request_idr, on_feedback,
           vars, bridgeVars
  <1> QED BY <1>1, <1>2, <1>3, <1>4

(* A queued frame is of the stream that is encoded now, or a key frame of   *)
(* that stream is queued behind it or requested.                           *)
InfoInv ==
  pcS # "none" =>
    \A f \in Waiting :
      \/ f.info = stream_.info
      \/ IdrRequested
      \/ \E k \in Waiting : k.idr = TRUE /\ k.eye = f.eye /\ k.frame_id > f.frame_id

(* Every step keeps it. *)
LEMMA InfoStep ==
  ASSUME 2 <= kMaxQueued, IInv, RequestInv, InfoInv, [Next]_vars, [CutsSpare]_vars
  PROVE  InfoInv'
  <1> SUFFICES ASSUME pcS' # "none", ~IdrRequested', NEW f \in Waiting'
               PROVE  \/ f.info = stream_'.info
                      \/ \E k \in Waiting' : k.idr = TRUE /\ k.eye = f.eye /\ k.frame_id > f.frame_id
    BY DEF InfoInv
  <1>0. TypeOK /\ Waiting \subseteq EncodedFrame
    BY WaitingOrder DEF IInv
  <1>1. CASE EncodeOk /\ pcS # "none" /\ active = TRUE
    <2>1. CutsSpare
      <3>1. pcV' # pcV
        BY <1>1 DEF EncodeOk
      <3> QED BY <3>1 DEF vars, encoderVars
    <2>2. \A k \in Waiting : k.idr = TRUE => k \in Waiting'
      BY <1>1, <2>1 DEF CutsSpare
    <2>3. /\ Waiting' \subseteq Waiting \cup {Encoded(0), Encoded(1)}
          /\ Encoded(0) \in Waiting' /\ Encoded(1) \in Waiting'
      BY <1>1, EncodeMoves DEF Waiting
    <2>4. \A e \in {0, 1} : /\ Encoded(e).info = stream_'.info /\ Encoded(e).eye = e
                            /\ Encoded(e).frame_id = frame_id /\ Encoded(e).idr = force_idr
      BY <1>1 DEF EncodeOk, Encoded
    <2>5. CASE f \notin Waiting
      BY <2>3, <2>4, <2>5
    <2>6. CASE f \in Waiting /\ force_idr
      <3>1. f.frame_id < frame_id /\ (f.eye = 0 \/ f.eye = 1) /\ f.frame_id \in Nat
        BY <1>0, <1>1, <2>6, WaitingOrder, FrameFields DEF EncodeOk, Latest
      <3>2. frame_id > f.frame_id
        BY <3>1, VideoAssumption DEF IInv, TypeOK, FrameId
      <3>3. force_idr = TRUE
        BY <2>6 DEF force_idr
      <3> QED BY <2>3, <2>4, <3>1, <3>2, <3>3
    <2>7. CASE f \in Waiting /\ ~force_idr
      <3>1. ~IdrRequested /\ stream_' = stream_
        BY <1>1, <2>7, RequestLeft DEF EncodeOk
      <3> QED BY <1>1, <2>2, <2>7, <3>1 DEF InfoInv
    <2> QED BY <2>5, <2>6, <2>7
  <1>2. CASE take_frames
    <2>1. CutsSpare /\ pcS # "none"
      <3>1. pcS' # pcS /\ pcS # "none"
        BY <1>2 DEF take_frames
      <3> QED BY <3>1 DEF vars
    <2>2. /\ Waiting' \subseteq Waiting
          /\ \A k \in Waiting : k.idr = TRUE => k \in Waiting'
      BY <1>2, <2>1, TakeMoves DEF CutsSpare
    <2>3. stream_' = stream_ /\ ~EncodeOk
      BY <1>2 DEF take_frames, EncodeOk, encoderVars
    <2>4. ~IdrRequested
      BY <1>0, <2>1, <2>3, RequestStays
    <2> QED BY <2>1, <2>2, <2>3, <2>4 DEF InfoInv
  <1>3. CASE finish_video_frame \/ SendError
    <2> DEFINE h == Head(video_queue_)
    <2>1. /\ h \in EncodedFrame /\ Waiting = Waiting' \cup {h} /\ \A g \in Waiting' : Before(h, g)
          /\ pcS # "none"
      BY <1>3, SentMoves
    <2>2. stream_' = stream_ /\ ~EncodeOk
      BY <1>3 DEF finish_video_frame, SendError, EncodeOk, encoderVars, bridgeVars
    <2>3. ~IdrRequested
      BY <1>0, <2>1, <2>2, RequestStays
    <2> HIDE DEF h
    <2>4. \A k \in Waiting : k.eye = f.eye /\ k.frame_id > f.frame_id => k \in Waiting'
      <3>1. Before(h, f) /\ h.frame_id \in Nat /\ f.frame_id \in Nat
        BY <1>0, <2>1, FrameFields
      <3> QED BY <2>1, <3>1 DEF Before
    <2> QED BY <2>1, <2>2, <2>3, <2>4 DEF InfoInv
  <1>4. CASE pcS # "none" /\ Waiting' = Waiting /\ ~EncodeOk
    <2>1. ~IdrRequested /\ stream_'.info = stream_.info
      BY <1>0, <1>4, RequestStays, StreamMoves
    <2> QED BY <1>4, <2>1 DEF InfoInv
  <1>5. EncodeOk => active = TRUE /\ pcS # "none"
    BY DEF EncodeOk, IInv, ThreadInv
  <1> QED BY <1>1, <1>2, <1>3, <1>4, <1>5, WaitingMoves

(* The generation of the stream tells the session of every change of it,   *)
(* and the encoder publishes what it encodes.                              *)
DescInv ==
  /\ stream_.valid = TRUE => stream_.generation >= 1
  /\ encoder_ready_ = TRUE => stream_.valid = TRUE
  /\ pcV = "encode" => encoder_ready_ = TRUE
  /\ pcS # "none" => stream_generation_ <= stream_.generation
  /\ pcS # "none" /\ stream_.valid = TRUE /\ stream_generation_ = stream_.generation
        => stream_.info = description_

(* Every step keeps it. *)
LEMMA DescStep ==
  ASSUME TypeOK, DescInv, [Next]_vars
  PROVE  DescInv'
  <1>1. /\ stream_ \in Stream /\ stream_generation_ \in Nat
        /\ stream_.generation \in Nat /\ encoder_ready_ \in BOOLEAN
    BY DEF TypeOK, Stream
  <1>2. ASSUME NEW info, NEW valid, publish_stream(info, valid)
        PROVE  /\ stream_'.info = info /\ stream_'.valid = valid
               /\ stream_' = stream_ \/ stream_'.generation = stream_.generation + 1
    BY <1>2 DEF publish_stream
  <1>3. CASE ensure_encoder
    <2>1. UNCHANGED <<pcS, description_, stream_generation_>>
      BY <1>3 DEF ensure_encoder, descriptionVars
    <2>2. CASE /\ encoder_ready_ /\ pcV' = "encode"
               /\ UNCHANGED <<stream_, encoder_ready_, idr_seen_>>
      BY <1>1, <2>1, <2>2 DEF DescInv
    <2>3. CASE /\ \E info \in Infos : publish_stream(info, TRUE)
               /\ encoder_ready_' = TRUE
      <3>1. stream_'.valid = TRUE /\ (stream_' = stream_ \/ stream_'.generation = stream_.generation + 1)
        BY <1>2, <2>3
      <3> QED BY <1>1, <2>1, <2>3, <3>1 DEF DescInv
    <2>4. CASE /\ IF encoder_ready_ THEN publish_stream(stream_.info, FALSE) ELSE UNCHANGED stream_
               /\ encoder_ready_' = FALSE /\ pcV' = "idle"
      <3>1. \/ stream_' = stream_
            \/ stream_'.valid = FALSE /\ stream_'.generation = stream_.generation + 1
        BY <1>2, <2>4
      <3> QED BY <1>1, <2>1, <2>4, <3>1 DEF DescInv
    <2> QED BY <1>3, <2>2, <2>3, <2>4 DEF ensure_encoder
  <1>4. CASE EncodeFails \/ StagingChanged
    <2>1. /\ UNCHANGED <<pcS, description_, stream_generation_>> /\ pcV' = "idle"
          /\ \/ UNCHANGED <<stream_, encoder_ready_>>
             \/ publish_stream(stream_.info, FALSE) /\ encoder_ready_' = FALSE
      BY <1>4 DEF EncodeFails, StagingChanged, descriptionVars
    <2>2. CASE UNCHANGED <<stream_, encoder_ready_>>
      BY <2>1, <2>2 DEF DescInv
    <2>3. CASE publish_stream(stream_.info, FALSE) /\ encoder_ready_' = FALSE
      <3>1. \/ stream_' = stream_
            \/ stream_'.valid = FALSE /\ stream_'.generation = stream_.generation + 1
        BY <1>2, <2>3
      <3> QED BY <1>1, <2>1, <2>3, <3>1 DEF DescInv
    <2> QED BY <2>1, <2>2, <2>3
  <1>5. CASE SessionStart
    <2>1. UNCHANGED <<stream_, encoder_ready_, pcV>> /\ stream_generation_' = 0
      BY <1>5 DEF SessionStart, set_client, encoderVars
    <2> QED BY <1>1, <2>1 DEF DescInv
  <1>6. CASE update_stream_description
    <2>1. /\ UNCHANGED <<stream_, encoder_ready_, pcV>> /\ pcS # "none"
          /\ stream_generation_' = stream_.generation
          /\ \/ description_' = stream_.info
             \/ ~DescriptionDue /\ description_' = description_
      BY <1>6 DEF update_stream_description, request_idr, bridgeVars, encoderVars, DescriptionDue
    <2> QED BY <1>1, <2>1 DEF DescInv, DescriptionDue
  <1>7. CASE /\ UNCHANGED <<stream_, encoder_ready_, description_, stream_generation_>>
             /\ pcS' # "none" => pcS # "none"
             /\ pcV' # "encode" \/ pcV' = pcV
    BY <1>7 DEF DescInv
  <1>8. \/ ensure_encoder \/ EncodeFails \/ StagingChanged \/ SessionStart \/ update_stream_description
        \/ /\ UNCHANGED <<stream_, encoder_ready_, description_, stream_generation_>>
           /\ pcS' # "none" => pcS # "none"
           /\ pcV' # "encode" \/ pcV' = pcV
    BY DEF Next, Snapshot, EncodeOk, SessionEnd, SettingsChanged, ReceiveFeedback, poll,
           take_frames, begin_video_frame, PumpReturns, finish_video_frame,
           SendError, FloorExpires, set_client, clear_client, request_idr, push_frames, on_feedback,
           vars, bridgeVars, encoderVars, descriptionVars
  <1> QED BY <1>3, <1>4, <1>5, <1>6, <1>7, <1>8

(* A queued frame is of the stream the headset expects, or the headset is   *)
(* about to be told of another one, or a key frame comes behind it.        *)
LEMMA InfoMeans ==
  ASSUME IInv, InfoInv, DescInv, pcS # "none", NEW f \in Waiting
  PROVE  \/ f.info = description_
         \/ IdrRequested
         \/ DescriptionDue
         \/ \E k \in Waiting : k.idr = TRUE /\ k.eye = f.eye /\ k.frame_id > f.frame_id
  <1> SUFFICES ASSUME ~IdrRequested, f.info = stream_.info
               PROVE  f.info = description_ \/ DescriptionDue
    BY DEF InfoInv
  <1>1. encoder_ready_ \in BOOLEAN
    BY DEF IInv, TypeOK
  <1>2. encoder_ready_ = TRUE
    BY <1>1 DEF IdrRequested
  <1>3. stream_.valid = TRUE
    BY <1>2 DEF DescInv
  <1> QED BY <1>3 DEF DescInv, DescriptionDue

-----------------------------------------------------------------------------
(* What the headset can decode.                                            *)

(* A key frame is requested, or what will ask for one is on its way.       *)
Asked ==
  \/ IdrRequested
  \/ pending_ = TRUE
  \/ DescriptionDue
  \/ \E i \in 1 .. Len(feedback) : NeedsIdr(feedback[i])

KeyFor(e) == \E k \in Waiting : k.idr = TRUE /\ k.eye = e

Recovering(e) == Asked \/ KeyFor(e) \/ got[e] = shown[e]

(* A stream that has shown a frame IdrTracker counts is decoded, or helped. *)
Recovers ==
  pcS # "none" /\ state_ = "running" => \A e \in Eye : first_p_ <= shown[e] => Recovering(e)

(* No stream shows more than it got, and the first P frame is a frame.     *)
ShownInv ==
  /\ \A e \in Eye : shown[e] <= got[e]
  /\ state_ = "running" => first_p_ # 0

(* IdrTracker waits with a key frame of both eyes asked for or queued. *)
LEMMA NeedIdrMeans ==
  ASSUME IInv, PairOK, WaitInv, pcS # "none", state_ = "need_idr", NEW e \in Eye
  PROVE  Asked \/ KeyFor(e)
  <1>1. CASE pending_ = TRUE \/ IdrRequested
    BY <1>1 DEF Asked
  <1>2. CASE KeyIn(frames_) \/ KeyIn(video_queue_)
    <2>1. \E k \in Waiting : k.idr = TRUE
      BY <1>2 DEF KeyIn, Waiting, Frames
    <2>2. PICK k \in Waiting : k.idr = TRUE
      BY <2>1
    <2>3. k.eye = 0 \/ k.eye = 1
      BY FrameFields, WaitingOrder
    <2>4. e = 0 \/ e = 1
      BY DEF Eye
    <2>5. CASE k.eye = e
      BY <2>2, <2>5 DEF KeyFor
    <2>6. CASE k.eye = 0 /\ e = 1
      <3>1. Mate(Waiting, k, 1)
        BY <2>2, <2>6 DEF PairOK
      <3> QED BY <3>1, <2>6 DEF Mate, KeyFor
    <2>7. CASE k.eye = 1 /\ e = 0
      <3>1. ~Half(k)
        BY DEF Half
      <3>2. Mate(Waiting, k, 0)
        BY <2>2, <2>7, <3>1 DEF PairOK
      <3> QED BY <3>2, <2>7 DEF Mate, KeyFor
    <2> QED BY <2>3, <2>4, <2>5, <2>6, <2>7
  <1> QED BY <1>1, <1>2 DEF WaitInv

(* A request that is held back is made, or a key frame is sent first. *)
LEMMA PendingMoves ==
  ASSUME pcS # "none", pending_ = TRUE, [Next]_vars, state_' # "need_idr"
  PROVE  \/ pending_' = TRUE
         \/ finish_video_frame /\ Head(video_queue_).idr = TRUE
         \/ idr_generation' = idr_generation + 1 /\ UNCHANGED idr_seen_
  <1>1. CASE poll
    BY <1>1 DEF poll, request_idr, encoderVars
  <1>2. CASE ReceiveFeedback
    BY <1>2 DEF ReceiveFeedback, on_feedback
  <1>3. CASE update_stream_description
    BY <1>3 DEF update_stream_description, reset, trackerVars
  <1>4. CASE finish_video_frame /\ ~(Head(video_queue_).idr = TRUE)
    <2>1. pending_' = (pending_ /\ ~Head(video_queue_).idr)
      BY <1>4 DEF finish_video_frame, on_frame_sent
    <2> QED BY <2>1, <1>4
  <1>5. CASE SessionStart
    BY <1>5 DEF SessionStart
  <1>6. CASE UNCHANGED pending_
    BY <1>6
  <1>7. \/ poll \/ ReceiveFeedback \/ update_stream_description \/ finish_video_frame
        \/ SessionStart \/ UNCHANGED pending_
    BY DEF Next, Snapshot, ensure_encoder, EncodeOk, EncodeFails, StagingChanged, SessionEnd, SettingsChanged,
           take_frames, begin_video_frame, PumpReturns, SendError, FloorExpires, vars, trackerVars
  <1> QED BY <1>1, <1>2, <1>3, <1>4, <1>5, <1>6, <1>7

(* A description that is due is sent, or the next frame is a key frame anyway. *)
LEMMA DueMoves ==
  ASSUME TypeOK, RequestInv, pcS # "none", DescriptionDue, [Next]_vars, state_' # "need_idr"
  PROVE  DescriptionDue' \/ IdrRequested'
  <1>1. UNCHANGED descriptionVars
    <2>1. CASE update_stream_description
      BY <2>1 DEF update_stream_description, DescriptionDue, reset
    <2>2. CASE SessionStart
      BY <2>2 DEF SessionStart
    <2>3. CASE UNCHANGED descriptionVars
      BY <2>3
    <2>4. update_stream_description \/ SessionStart \/ UNCHANGED descriptionVars
      BY DEF Next, Snapshot, ensure_encoder, EncodeOk, EncodeFails, StagingChanged, SessionEnd, SettingsChanged,
             ReceiveFeedback, poll, take_frames, begin_video_frame, PumpReturns, finish_video_frame, SendError,
             FloorExpires, vars
    <2> QED BY <2>1, <2>2, <2>3, <2>4
  <1>2. UNCHANGED stream_ \/ IdrRequested'
    BY StreamMoves
  <1> QED BY <1>1, <1>2 DEF DescriptionDue, descriptionVars

(* A report of a loss that IdrTracker acts on stays one until it is read. *)
LEMMA ReportStays ==
  ASSUME IInv, pcS # "none", [Next]_vars, state_ = "running", state_' = "running",
         NEW i \in 1 .. Len(feedback), NeedsIdr(feedback[i])
  PROVE  \E j \in 1 .. Len(feedback') : NeedsIdr(feedback[j])'
  <1>1. CASE UNCHANGED <<state_, idr_id_, first_p_, feedback>>
    BY <1>1 DEF NeedsIdr
  <1>2. CASE EncodeOk \/ take_frames \/ SendError
    BY <1>1, <1>2 DEF EncodeOk, take_frames, SendError, trackerVars, headsetVars
  <1>3. CASE SessionStart
    BY <1>3 DEF SessionStart
  <1>4. CASE ReceiveFeedback
    <2>1. ~NeedsIdr(Head(feedback))
      BY <1>4 DEF ReceiveFeedback, on_feedback
    <2>2. i # 1
      BY <2>1, <1>4, ReportRead
    <2>3. i - 1 \in 1 .. Len(feedback') /\ feedback'[i - 1] = feedback[i]
      BY <2>2, <1>4, ReportRead
    <2>5. UNCHANGED <<state_, idr_id_, first_p_>>
      BY <1>4, <2>1 DEF ReceiveFeedback, on_feedback
    <2>6. NeedsIdr(feedback[i - 1])'
      BY <2>3, <2>5 DEF NeedsIdr
    <2> QED BY <2>3, <2>6
  <1>5. CASE finish_video_frame
    <2>2. UNCHANGED <<state_, idr_id_, first_p_>>
      BY <1>5 DEF finish_video_frame, on_frame_sent
    <2>3. \E j \in 1 .. Len(feedback') : feedback'[j] = feedback[i]
      BY <1>5, ReportsAre
    <2>4. PICK j \in 1 .. Len(feedback') : feedback'[j] = feedback[i]
      BY <2>3
    <2>5. NeedsIdr(feedback[j])'
      BY <2>2, <2>4 DEF NeedsIdr
    <2> QED BY <2>5
  <1> QED BY <1>1, <1>2, <1>3, <1>4, <1>5, TrackerMoves

(* What asks for a key frame is answered by one. *)
LEMMA AskedStays ==
  ASSUME IInv, RequestInv, pcS # "none", Asked, [Next]_vars, state_ = "running", state_' = "running",
         ~(EncodeOk /\ force_idr)
  PROVE  Asked'
  <1>1. TypeOK
    BY DEF IInv
  <1>2. CASE IdrRequested
    BY <1>1, <1>2, RequestStays, RequestLeft DEF Asked
  <1>3. CASE pending_ = TRUE
    <2>1. ~(finish_video_frame /\ Head(video_queue_).idr = TRUE)
      BY DEF finish_video_frame, on_frame_sent
    <2> QED BY <1>1, <1>3, <2>1, PendingMoves, NewRequest DEF Asked
  <1>4. CASE DescriptionDue
    BY <1>1, <1>4, DueMoves DEF Asked
  <1>5. ASSUME NEW i \in 1 .. Len(feedback), NeedsIdr(feedback[i])
        PROVE  Asked'
    BY <1>5, ReportStays DEF Asked
  <1> QED BY <1>2, <1>3, <1>4, <1>5 DEF Asked

(* The frame that was sent is shown, or its stream shows what it did. *)
LEMMA ShownIs ==
  ASSUME IInv, finish_video_frame
  PROVE  LET h == Head(video_queue_)
         IN  /\ \A e \in Eye : e # h.eye => shown'[e] = shown[e]
             /\ shown'[h.eye] = h.frame_id \/ shown'[h.eye] = shown[h.eye]
  <1> DEFINE h == Head(video_queue_)
  <1>1. shown \in [Eye -> FrameId] /\ h.eye \in Eye
    BY SentMoves, FrameFields DEF IInv, TypeOK
  <1>2. shown' = [shown EXCEPT ![h.eye] = h.frame_id] \/ shown' = shown
    BY FinishIs
  <1> HIDE DEF h
  <1>3. /\ \A e \in Eye : e # h.eye => shown'[e] = shown[e]
        /\ shown'[h.eye] = h.frame_id \/ shown'[h.eye] = shown[h.eye]
    BY <1>1, <1>2
  <1> QED BY <1>3 DEF h

(* Every step keeps it: only a frame that came in is shown.                *)
LEMMA ShownStep ==
  ASSUME IInv, ShownInv, [Next]_vars
  PROVE  ShownInv'
  <1>0. got \in [Eye -> Nat] /\ shown \in [Eye -> Nat]
    BY RefTypes DEF IInv
  <1>1. CASE finish_video_frame
    <2>1. PICK h \in EncodedFrame : h = Head(video_queue_)
      BY <1>1, SentMoves
    <2>2. /\ got'[h.eye] = h.frame_id /\ got[h.eye] < h.frame_id /\ h.eye \in Eye
          /\ \A e \in Eye : e # h.eye => got'[e] = got[e]
      BY <1>1, <2>1, GotIs
    <2>3. /\ \A e \in Eye : e # h.eye => shown'[e] = shown[e]
          /\ shown'[h.eye] = h.frame_id \/ shown'[h.eye] = shown[h.eye]
      BY <1>1, <2>1, ShownIs
    <2>4. h.frame_id \in Nat /\ h.frame_id # 0
      <3>1. h.frame_id \in Nat
        BY <2>1, FrameFields
      <3>2. got[h.eye] \in Nat
        BY <1>0, <2>2
      <3> QED BY <2>2, <3>1, <3>2
    <2>5. ASSUME NEW e \in Eye
          PROVE  shown'[e] <= got'[e]
      <3>1. shown[e] <= got[e] /\ shown[e] \in Nat /\ got[e] \in Nat
        BY <1>0 DEF ShownInv
      <3>2. CASE e = h.eye
        BY <2>2, <2>3, <2>4, <3>1, <3>2
      <3>3. CASE e # h.eye
        BY <2>2, <2>3, <3>1, <3>3
      <3> QED BY <3>2, <3>3
    <2>6. ASSUME state_' = "running"
          PROVE  first_p_' # 0
      <3>1. \/ state_ = "running" /\ first_p_' = first_p_
            \/ first_p_' = h.frame_id
        BY <1>1, <2>1, <2>6 DEF finish_video_frame, on_frame_sent
      <3> QED BY <2>4, <3>1 DEF ShownInv
    <2> QED BY <2>5, <2>6 DEF ShownInv
  <1>2. CASE SessionStart
    <2>1. /\ state_' = "need_idr" /\ \A e \in Eye : got'[e] = 0 /\ shown'[e] = 0
      BY <1>2 DEF SessionStart, reset
    <2>2. \A e \in Eye : shown'[e] <= got'[e]
      BY <2>1
    <2> QED BY <2>1, <2>2 DEF ShownInv
  <1>3. CASE update_stream_description
    <2>1. UNCHANGED got
      BY <1>3 DEF update_stream_description
    <2>2. CASE UNCHANGED <<trackerVars, shown>>
      BY <2>1, <2>2 DEF ShownInv, trackerVars
    <2>3. CASE shown' = [e \in Eye |-> 0] /\ reset
      <3>1. state_' = "need_idr" /\ \A e \in Eye : shown'[e] = 0
        BY <2>3 DEF reset
      <3>2. \A e \in Eye : shown'[e] <= got'[e]
        BY <1>0, <2>1, <3>1
      <3> QED BY <3>1, <3>2 DEF ShownInv
    <2> QED BY <1>3, <2>2, <2>3 DEF update_stream_description
  <1>4. CASE ReceiveFeedback
    <2>1. UNCHANGED <<first_p_, got, shown>> /\ (state_' = "running" => state_ = "running")
      BY <1>4 DEF ReceiveFeedback, on_feedback
    <2> QED BY <2>1 DEF ShownInv
  <1>5. CASE UNCHANGED <<state_, first_p_, got, shown>>
    BY <1>5 DEF ShownInv
  <1>6. \/ finish_video_frame \/ SessionStart \/ update_stream_description \/ ReceiveFeedback
        \/ UNCHANGED <<state_, first_p_, got, shown>>
    BY DEF Next, Snapshot, ensure_encoder, EncodeOk, EncodeFails, StagingChanged, SessionEnd,
           SettingsChanged, poll, take_frames, begin_video_frame, PumpReturns, SendError, FloorExpires,
           vars, trackerVars, headsetVars
  <1> QED BY <1>1, <1>2, <1>3, <1>4, <1>5, <1>6

(* A stream that was decoded gets its next P frame: it is decoded, or what *)
(* was missing, or it, is reported.                                        *)
LEMMA OwnFrameSent ==
  ASSUME IInv, ChainOK(Waiting, reference, got), ShownInv, InfoInv, DescInv, finish_video_frame,
         NEW h \in EncodedFrame, h = Head(video_queue_), h.idr = FALSE,
         NEW e \in Eye, e = h.eye, state_ = "running", first_p_ <= shown[e],
         ~Asked, ~KeyFor(e), got[e] = shown[e], shown'[e] # h.frame_id
  PROVE  Asked'
  <1>1. /\ h \in Waiting /\ pcS # "none" /\ h.frame_id \in Nat /\ h.ref \in Nat
    BY SentMoves, FrameFields DEF Waiting
  <1>2. state_' = "running" /\ first_p_' = first_p_ /\ first_p_ \in Nat /\ got[e] \in Nat
    <2>1. state_' = "running" /\ first_p_' = first_p_
      BY DEF finish_video_frame, on_frame_sent
    <2>2. first_p_ \in FrameId
      BY DEF IInv, TypeOK
    <2>3. got \in [Eye -> Nat]
      BY RefTypes DEF IInv
    <2> QED BY <2>1, <2>2, <2>3 DEF FrameId
  <1>3. PICK ok \in BOOLEAN :
          /\ shown' = IF ok /\ Decodable(h) THEN [shown EXCEPT ![h.eye] = h.frame_id] ELSE shown
          /\ ok = FALSE => \E j \in 1 .. Len(feedback') :
               feedback'[j] = [frame_index |-> h.frame_id, sent_to_decoder |-> FALSE]
          /\ got[h.eye] # 0 => \A r \in Nat : got[h.eye] < r /\ r < h.frame_id =>
               \E j \in 1 .. Len(feedback') :
                 feedback'[j] = [frame_index |-> r, sent_to_decoder |-> FALSE]
    BY ReportsAre
  <1>4. got[e] < h.frame_id /\ got[e] # 0 /\ got[e] <= h.ref /\ h.ref < h.frame_id
    <2>1. h.ref < h.frame_id /\ got[e] <= h.ref
      BY <1>1 DEF ChainOK
    <2>2. first_p_ # 0
      BY DEF ShownInv
    <2> QED BY <1>1, <1>2, <2>1, <2>2
  <1>5. ASSUME NEW r \in Nat, NEW j \in 1 .. Len(feedback'), got[e] < r,
               feedback'[j] = [frame_index |-> r, sent_to_decoder |-> FALSE]
        PROVE  Asked'
    <2>1. first_p_' <= r
      BY <1>2, <1>5
    <2>2. NeedsIdr(feedback[j])'
      BY <1>2, <1>5, <2>1 DEF NeedsIdr
    <2> QED BY <2>2 DEF Asked
  <1>6. CASE ok = FALSE
    BY <1>1, <1>3, <1>4, <1>5, <1>6
  <1>7. CASE got[e] < h.ref
    <2>1. \E j \in 1 .. Len(feedback') : feedback'[j] = [frame_index |-> h.ref, sent_to_decoder |-> FALSE]
      BY <1>1, <1>3, <1>4, <1>7
    <2> QED BY <1>1, <1>5, <1>7, <2>1
  <1>8. CASE ok = TRUE /\ h.ref = got[e]
    <2>1. h.info = description_
      <3>1. ~(\E k \in Waiting : k.idr = TRUE /\ k.eye = h.eye)
        BY DEF KeyFor
      <3>2. ~IdrRequested /\ ~DescriptionDue
        BY DEF Asked
      <3>3. \/ h.info = description_
            \/ IdrRequested
            \/ DescriptionDue
            \/ \E k \in Waiting : k.idr = TRUE /\ k.eye = h.eye /\ k.frame_id > h.frame_id
        BY <1>1, InfoMeans
      <3> QED BY <3>1, <3>2, <3>3
    <2>2. Decodable(h)
      BY <1>4, <1>8, <2>1 DEF Decodable
    <2>3. shown' = [shown EXCEPT ![h.eye] = h.frame_id]
      BY <1>3, <1>8, <2>2
    <2>4. shown'[e] = h.frame_id
      BY <2>3 DEF IInv, TypeOK
    <2> QED BY <2>4
  <1>9. got[e] < h.ref \/ h.ref = got[e]
    BY <1>1, <1>2, <1>4
  <1> QED BY <1>6, <1>7, <1>8, <1>9

(* A frame is sent while IdrTracker counts, or the first that it counts.   *)
LEMMA FrameSent ==
  ASSUME IInv, RequestInv, ChainOK(Waiting, reference, got), ShownInv, InfoInv, DescInv, Recovers,
         finish_video_frame, [Next]_vars, NEW h \in EncodedFrame, h = Head(video_queue_),
         state_' = "running", NEW e \in Eye, first_p_' <= shown'[e]
  PROVE  Recovering(e)'
  <1>0. /\ pcS # "none" /\ h \in Waiting /\ Waiting = Waiting' \cup {h}
        /\ h.frame_id \in Nat /\ got[e] \in Nat /\ shown[e] \in Nat /\ first_p_ \in Nat
    <2>1. pcS # "none" /\ h \in Waiting /\ Waiting = Waiting' \cup {h}
      BY SentMoves
    <2>2. got \in [Eye -> Nat] /\ shown \in [Eye -> Nat]
      BY RefTypes DEF IInv
    <2>3. first_p_ \in FrameId
      BY DEF IInv, TypeOK
    <2>4. h.frame_id \in Nat
      BY FrameFields
    <2>5. got[e] \in Nat /\ shown[e] \in Nat
      BY <2>2
    <2>6. first_p_ \in Nat
      BY <2>3 DEF FrameId
    <2> QED BY <2>1, <2>4, <2>5, <2>6
  <1>1. h.idr = FALSE
    <2>1. h.idr # TRUE
      BY DEF finish_video_frame, on_frame_sent
    <2> QED BY <2>1, FrameFields
  <1>2. \/ state_ = "idr_received" /\ first_p_' = h.frame_id
        \/ state_ = "running" /\ first_p_' = first_p_
    BY <1>1 DEF finish_video_frame, on_frame_sent
  <1>3. /\ got'[h.eye] = h.frame_id /\ got[h.eye] < h.frame_id
        /\ e # h.eye => got'[e] = got[e] /\ shown'[e] = shown[e]
        /\ shown'[h.eye] = h.frame_id \/ shown'[h.eye] = shown[h.eye]
    BY GotIs, ShownIs
  <1>4. shown[e] <= got[e] /\ got[e] <= h.frame_id
    BY <1>0 DEF ShownInv, ChainOK
  <1>5. CASE state_ = "idr_received" /\ first_p_' = h.frame_id
    <2>1. got'[e] = shown'[e]
      <3>1. CASE e = h.eye
        BY <1>0, <1>3, <1>4, <1>5, <3>1
      <3>2. CASE e # h.eye
        BY <1>0, <1>3, <1>4, <1>5, <3>2
      <3> QED BY <3>1, <3>2
    <2> QED BY <2>1 DEF Recovering
  <1>6. CASE e = h.eye /\ shown'[e] = h.frame_id
    BY <1>3, <1>6 DEF Recovering
  <1>7. CASE /\ state_ = "running" /\ first_p_' = first_p_ /\ shown'[e] = shown[e]
             /\ ~(e = h.eye /\ shown'[e] = h.frame_id)
    <2>1. Recovering(e)
      BY <1>0, <1>7 DEF Recovers
    <2>2. CASE Asked
      <3>1. ~EncodeOk
        BY DEF finish_video_frame, EncodeOk, bridgeVars, encoderVars
      <3>2. Asked'
        BY <1>0, <1>7, <2>2, <3>1, AskedStays
      <3> QED BY <3>2 DEF Recovering
    <2>3. CASE KeyFor(e)
      <3>1. KeyFor(e)'
        BY <1>0, <1>1, <2>3 DEF KeyFor
      <3> QED BY <3>1 DEF Recovering
    <2>4. CASE ~Asked /\ ~KeyFor(e) /\ got[e] = shown[e]
      <3>1. CASE e = h.eye
        <4>1. Asked'
          BY <1>1, <1>7, <2>4, <3>1, OwnFrameSent
        <4> QED BY <4>1 DEF Recovering
      <3>2. CASE e # h.eye
        BY <1>3, <2>4, <3>2 DEF Recovering
      <3> QED BY <3>1, <3>2
    <2> QED BY <2>1, <2>2, <2>3, <2>4 DEF Recovering
  <1> QED BY <1>2, <1>3, <1>5, <1>6, <1>7

(* What the remaining steps do to the headset and the tracker. *)
LEMMA QuietMoves ==
  ASSUME [Next]_vars, pcS # "none", state_' = "running", ~finish_video_frame
  PROVE  state_ = "running" /\ UNCHANGED <<first_p_, got, shown>>
  <1>1. CASE ReceiveFeedback
    BY <1>1 DEF ReceiveFeedback, on_feedback
  <1>2. CASE update_stream_description
    BY <1>2 DEF update_stream_description, reset, trackerVars
  <1>3. CASE SessionStart
    BY <1>3 DEF SessionStart
  <1>4. CASE ~ReceiveFeedback /\ ~update_stream_description /\ ~SessionStart
    BY <1>4 DEF Next, Snapshot, ensure_encoder, EncodeOk, EncodeFails, StagingChanged, SessionEnd,
                SettingsChanged, poll, take_frames, begin_video_frame, PumpReturns, SendError,
                FloorExpires, vars, trackerVars, headsetVars
  <1> QED BY <1>1, <1>2, <1>3, <1>4

(* A key frame in a queue stays in one, unless it is sent. *)
LEMMA KeyForStays ==
  ASSUME LoseIdr = FALSE, 2 <= kMaxQueued, IInv, pcS # "none", pcS' # "none", [Next]_vars, [CutsSpare]_vars,
         ~finish_video_frame, NEW e \in Eye, KeyFor(e)
  PROVE  KeyFor(e)'
  <1>1. PICK k \in Waiting : k.idr = TRUE /\ k.eye = e
    BY DEF KeyFor
  <1>2. CASE EncodeOk
    <2>1. pcV' # pcV
      BY <1>2 DEF EncodeOk
    <2>2. CutsSpare
      BY <2>1 DEF vars, encoderVars
    <2> QED BY <1>1, <1>2, <2>2 DEF CutsSpare, KeyFor
  <1>3. CASE take_frames
    <2>1. pcS' # pcS
      BY <1>3 DEF take_frames
    <2>2. CutsSpare
      BY <2>1 DEF vars
    <2> QED BY <1>1, <1>3, <2>2 DEF CutsSpare, KeyFor
  <1>4. CASE SendError
    <2>1. Waiting = Waiting' \cup {Head(video_queue_)}
      BY <1>4, SentMoves
    <2>2. Head(video_queue_).idr # TRUE
      BY <1>4 DEF SendError, MayFail
    <2> QED BY <1>1, <2>1, <2>2 DEF KeyFor
  <1>5. CASE SessionStart
    BY <1>5 DEF SessionStart
  <1>6. CASE Waiting' = Waiting
    BY <1>1, <1>6 DEF KeyFor
  <1> QED BY <1>2, <1>3, <1>4, <1>5, <1>6, WaitingMoves

(* The key frame that was asked for is queued for both eyes.               *)
LEMMA KeyMade ==
  ASSUME 2 <= kMaxQueued, IInv, EncodeOk, force_idr, active = TRUE, NEW e \in Eye
  PROVE  KeyFor(e)'
  <1>1. Encoded(0) \in Frames(frames_') /\ Encoded(1) \in Frames(frames_')
    BY EncodeMoves
  <1>2. e = 0 \/ e = 1
    BY DEF Eye
  <1>3. Encoded(e) \in Waiting'
    <2>1. Waiting' = Frames(video_queue_') \cup Frames(frames_')
      BY DEF Waiting
    <2> QED BY <1>1, <1>2, <2>1
  <1>4. Encoded(e).idr = TRUE /\ Encoded(e).eye = e
    <2>1. force_idr = TRUE
      BY DEF force_idr
    <2> QED BY <2>1 DEF Encoded
  <1> QED BY <1>3, <1>4 DEF KeyFor

(* Every step keeps the headset recovering, as long as the queues spare    *)
(* the key frames.                                                         *)
LEMMA RecoverStep ==
  ASSUME LoseIdr = FALSE, 2 <= kMaxQueued,
         IInv, RequestInv, ChainInv, ShownInv, InfoInv, DescInv, Recovers,
         [Next]_vars, [CutsSpare]_vars
  PROVE  Recovers'
  <1> SUFFICES ASSUME pcS' # "none", state_' = "running", NEW e \in Eye, first_p_' <= shown'[e]
               PROVE  Recovering(e)'
    BY DEF Recovers
  <1>1. CASE pcS = "none"
    <2>1. SessionStart \/ UNCHANGED pcS
      BY <1>1 DEF Next, Snapshot, ensure_encoder, EncodeOk, EncodeFails, StagingChanged, SessionEnd,
                  SettingsChanged, ReceiveFeedback, poll, update_stream_description, take_frames,
                  begin_video_frame, PumpReturns, finish_video_frame, SendError, FloorExpires, vars
    <2> QED BY <1>1, <2>1 DEF SessionStart, reset
  <1>2. CASE pcS # "none" /\ finish_video_frame
    <2>1. PICK h \in EncodedFrame : h = Head(video_queue_)
      BY <1>2, SentMoves
    <2>2. ChainOK(Waiting, reference, got)
      BY <1>2 DEF ChainInv
    <2> QED BY <1>2, <2>1, <2>2, FrameSent
  <1>3. CASE pcS # "none" /\ ~finish_video_frame
    <2>1. state_ = "running" /\ UNCHANGED <<first_p_, got, shown>>
      BY <1>3, QuietMoves
    <2>2. Recovering(e)
      BY <1>3, <2>1 DEF Recovers
    <2>3. CASE Asked
      <3>1. CASE EncodeOk /\ force_idr
        <4>1. active = TRUE
          BY <1>3 DEF IInv, ThreadInv
        <4>2. KeyFor(e)'
          BY <3>1, <4>1, KeyMade
        <4> QED BY <4>2 DEF Recovering
      <3>2. CASE ~(EncodeOk /\ force_idr)
        <4>1. Asked'
          BY <1>3, <2>1, <2>3, <3>2, AskedStays
        <4> QED BY <4>1 DEF Recovering
      <3> QED BY <3>1, <3>2
    <2>4. CASE KeyFor(e)
      <3>1. KeyFor(e)'
        BY <1>3, <2>4, KeyForStays
      <3> QED BY <3>1 DEF Recovering
    <2>5. CASE got[e] = shown[e]
      BY <2>1, <2>5 DEF Recovering
    <2> QED BY <2>2, <2>3, <2>4, <2>5 DEF Recovering
  <1> QED BY <1>1, <1>2, <1>3

-----------------------------------------------------------------------------
(* What is known of a recovery, in one invariant.                          *)
RecoverInv ==
  /\ IInv /\ RequestInv /\ WaitInv
  /\ RefInv /\ ChainInv /\ PairInv /\ ShownInv /\ InfoInv /\ DescInv
  /\ Recovers

(* It holds before the first client. *)
LEMMA RecoverInit ==
  ASSUME Init
  PROVE  RecoverInv
  <1>1. IInv
    BY VideoInit
  <1>2. pcS = "none" /\ reference = [e \in Eye |-> 0] /\ frame_id = 0 /\ pcV = "idle" /\ encoder_ready_ = FALSE
    BY DEF Init
  <1>3. RequestInv /\ WaitInv /\ ChainInv /\ PairInv /\ InfoInv /\ Recovers
    BY <1>2 DEF Init, RequestInv, WaitInv, ChainInv, PairInv, InfoInv, Recovers
  <1>4. RefInv
    <2>1. \A e \in Eye : reference[e] = 0
      BY <1>2
    <2> QED BY <1>2, <2>1 DEF RefInv, Latest
  <1>6. ShownInv
    <2>1. state_ = "need_idr" /\ \A e \in Eye : shown[e] = 0 /\ got[e] = 0
      BY DEF Init
    <2> QED BY <2>1 DEF ShownInv
  <1>5. DescInv
    BY <1>2 DEF Init, DescInv
  <1> QED BY <1>1, <1>3, <1>4, <1>5, <1>6 DEF RecoverInv

(* Every step that spares the key frames keeps it. *)
LEMMA RecoverInvStep ==
  ASSUME LoseIdr = FALSE, 2 <= kMaxQueued,
         RecoverInv, [Next]_vars, [CutsSpare]_vars
  PROVE  RecoverInv'
  <1>1. /\ IInv /\ RequestInv /\ WaitInv
        /\ RefInv /\ ChainInv /\ PairInv /\ ShownInv /\ InfoInv /\ DescInv
        /\ Recovers /\ TypeOK /\ ThreadInv
    BY DEF RecoverInv, IInv
  <1>2. IInv' /\ RequestInv'
    BY <1>1, VideoStep, RequestStep
  <1>3. WaitInv'
    <2>1. [KeyFramesKept]_vars
      BY <1>1, SparedIsKept
    <2> QED BY <1>1, <2>1, WaitStep
  <1>4. RefInv' /\ ChainInv'
    BY <1>1, RefStep, ChainStep
  <1>5. PairInv'
    BY <1>1, PairStep
  <1>6. ShownInv'
    BY <1>1, ShownStep
  <1>7. InfoInv' /\ DescInv'
    BY <1>1, InfoStep, DescStep
  <1>8. Recovers'
    BY <1>1, RecoverStep
  <1> QED BY <1>2, <1>3, <1>4, <1>5, <1>6, <1>7, <1>8 DEF RecoverInv

(* A stream that is broken is one whose headset is recovering. *)
LEMMA RecoverMeans ==
  ASSUME RecoverInv
  PROVE  StreamRecovers
  <1> SUFFICES ASSUME NEW e \in Eye, pcS # "none", Broken(e), Counted(e)
               PROVE  \/ QueuedIdr(e) \/ IdrRequested \/ pending_ \/ DescriptionDue
                      \/ \E i \in DOMAIN feedback : NeedsIdr(feedback[i])
    BY DEF StreamRecovers
  <1>1. TypeOK /\ PairOK /\ Recovers
    BY DEF RecoverInv, IInv, PairInv
  <1>2. got[e] # shown[e]
    BY DEF Broken
  <1>3. Recovering(e)
    <2>1. CASE state_ = "need_idr"
      BY <1>1, <2>1, NeedIdrMeans DEF Recovering, RecoverInv
    <2>2. CASE state_ = "running" /\ first_p_ <= shown[e]
      BY <1>1, <2>2 DEF Recovers
    <2> QED BY <2>1, <2>2 DEF Counted
  <1>4. feedback \in Seq(Feedback) /\ frames_ \in Seq(EncodedFrame) /\ video_queue_ \in Seq(EncodedFrame)
    BY <1>1 DEF TypeOK, Feedback
  <1>5. CASE KeyFor(e)
    <2>1. PICK k \in Waiting : k.idr = TRUE /\ k.eye = e
      BY <1>5 DEF KeyFor
    <2>2. CASE k \in Frames(frames_)
      <3>1. \E i \in DOMAIN frames_ : frames_[i] = k
        BY <1>4, <2>2 DEF Frames
      <3>2. \E i \in DOMAIN frames_ : frames_[i].idr /\ frames_[i].eye = e
        BY <2>1, <3>1
      <3> QED BY <3>2 DEF QueuedIdr
    <2>3. CASE k \in Frames(video_queue_)
      <3>1. \E i \in DOMAIN video_queue_ : video_queue_[i] = k
        BY <1>4, <2>3 DEF Frames
      <3>2. \E i \in DOMAIN video_queue_ : video_queue_[i].idr /\ video_queue_[i].eye = e
        BY <2>1, <3>1
      <3> QED BY <3>2 DEF QueuedIdr
    <2> QED BY <2>1, <2>2, <2>3 DEF Waiting
  <1>6. CASE Asked
    <2>1. CASE \E i \in 1 .. Len(feedback) : NeedsIdr(feedback[i])
      <3>1. DOMAIN feedback = 1 .. Len(feedback)
        BY <1>4
      <3> QED BY <2>1, <3>1
    <2>2. CASE pending_ = TRUE
      BY <2>2
    <2> QED BY <1>6, <2>1, <2>2 DEF Asked
  <1> QED BY <1>2, <1>3, <1>5, <1>6 DEF Recovering

(* idr_tracker.h:42-44: "a genuinely undecodable stream still recovers".   *)
(* StreamRecovers for any queue sizes that hold a frame, and any number of *)
(* frames, clients and staging rings, with P frames lost at any time and   *)
(* pairs dropped by the encoder: while a stream that has shown a frame     *)
(* IdrTracker counts cannot be decoded a key frame of it is queued,        *)
(* requested or held back, its description is due, or a report that will   *)
(* ask for a key frame is on its way.  It needs that no key frame is lost, *)
(* neither to a full queue nor to a socket error.                          *)
THEOREM VideoStreamRecovers ==
  ASSUME LoseIdr = FALSE, 2 <= kMaxQueued
  PROVE  Spec /\ [][CutsSpare]_vars => []StreamRecovers
  <1>1. Init => RecoverInv
    BY RecoverInit
  <1>2. RecoverInv /\ [Next]_vars /\ [CutsSpare]_vars => RecoverInv'
    BY RecoverInvStep
  <1>3. RecoverInv => StreamRecovers
    BY RecoverMeans
  <1> QED BY <1>1, <1>2, <1>3, PTL DEF Spec

(* Nothing is cut: every frame is still there. *)
LEMMA NothingCut ==
  ASSUME NEW q \in Seq(EncodedFrame), NEW max \in Nat, NEW first \in 0 .. 1, first <= Len(q),
         Len(q) <= max
  PROVE  Frames(q) \subseteq Frames(DropOldest(q, first, max))
  <1> DEFINE r == DropOldest(q, first, max)
  <1>1. PICK k \in 0 .. Len(q) - first : Cut(q, r, first, k) /\ (Len(q) <= max => k = 0)
    BY DropOldestIs
  <1>2. Cut(q, r, first, 0) /\ Len(q) \in Nat
    BY <1>1
  <1> HIDE DEF r
  <1>3. Len(r) = Len(q) /\ \A i \in 1 .. Len(q) : r[i] = q[i]
    <2>1. Len(r) = Len(q)
      BY <1>2 DEF Cut
    <2>2. ASSUME NEW i \in 1 .. Len(q)
          PROVE  r[i] = q[i]
      BY <1>2 DEF Cut
    <2> QED BY <2>1, <2>2
  <1>4. Frames(q) \subseteq Frames(r)
    BY <1>3 DEF Frames
  <1> QED BY <1>4 DEF r

(* With room in the queues nothing is dropped at all. *)
LEMMA RoomSpares ==
  ASSUME 2 * MaxFrame <= kMaxQueued, 2 * MaxFrame <= kMaxVideoQueued, IInv, RoomInv
  PROVE  CutsSpare
  <1>0. TypeOK /\ ThreadInv
    BY DEF IInv
  <1>1. /\ frames_ \in Seq(EncodedFrame) /\ video_queue_ \in Seq(EncodedFrame)
        /\ Len(frames_) \in Nat /\ Len(video_queue_) \in Nat /\ MaxFrame \in Nat
        /\ kMaxQueued \in Nat /\ kMaxVideoQueued \in Nat
        /\ frame_id \in Nat /\ frame_id <= MaxFrame
    BY <1>0, VideoAssumption DEF TypeOK, FrameId
  <1>2. CASE EncodeOk
    <2>1. CASE frames_' = frames_
      <3>1. UNCHANGED video_queue_
        BY <1>2 DEF EncodeOk, queueVars
      <3>2. Waiting' = Waiting
        BY <2>1, <3>1 DEF Waiting
      <3> QED BY <3>2 DEF CutsSpare
    <2>2. CASE frames_' = DropOldest(frames_ \o BothEyes, 0, kMaxQueued)
      <3> DEFINE q == frames_ \o BothEyes
      <3>1. BothEyes \in Seq(EncodedFrame) /\ Len(BothEyes) = 2
        BY <1>0, EncodedTypes
      <3>2. q \in Seq(EncodedFrame) /\ Len(q) = Len(frames_) + Len(BothEyes)
        BY <1>1, <3>1, Joined
      <3>3. Latest = frame_id
        BY <1>2 DEF EncodeOk, Latest
      <3>4. Len(q) <= kMaxQueued /\ Len(q) \in Nat
        BY <1>1, <3>1, <3>2, <3>3 DEF RoomInv
      <3>5. Frames(frames_) \subseteq Frames(q)
        BY <1>1, <3>1, FramesMore
      <3> HIDE DEF q
      <3>6. Frames(q) \subseteq Frames(DropOldest(q, 0, kMaxQueued))
        BY <1>1, <3>2, <3>4, NothingCut
      <3>7. frames_' = DropOldest(q, 0, kMaxQueued)
        BY <2>2 DEF q
      <3>8. Frames(frames_) \subseteq Frames(frames_')
        BY <3>5, <3>6, <3>7
      <3>9. UNCHANGED video_queue_
        BY <1>2 DEF EncodeOk, queueVars
      <3>10. Waiting \ Waiting' = {}
        BY <3>8, <3>9 DEF Waiting
      <3> QED BY <3>10 DEF CutsSpare
    <2> QED BY <1>2, <2>1, <2>2 DEF EncodeOk, push_frames, BothEyes
  <1>3. CASE take_frames
    <2>1. frames_ = <<>> \/ frames_ # <<>>
      OBVIOUS
    <2>2. CASE frames_ = <<>>
      <3>1. video_queue_' = video_queue_ /\ frames_' = frames_
        BY <1>3, <2>2 DEF take_frames
      <3>2. Waiting' = Waiting
        BY <3>1 DEF Waiting
      <3> QED BY <3>2 DEF CutsSpare
    <2>3. CASE frames_ # <<>>
      <3> DEFINE q == video_queue_ \o frames_
                 w == Working
      <3>1. video_queue_' = DropOldest(q, w, kMaxVideoQueued)
        BY <1>3, <2>3 DEF take_frames, Working
      <3>2. /\ q \in Seq(EncodedFrame) /\ w \in 0 .. 1 /\ w <= Len(q) /\ Len(q) \in Nat
            /\ Len(q) = Len(video_queue_) + Len(frames_)
        BY <1>0, WorkingIs
      <3>3. Latest - 1 <= MaxFrame /\ Latest \in Nat
        BY <1>1 DEF Latest
      <3>4. Len(q) <= kMaxVideoQueued
        BY <1>1, <3>2, <3>3 DEF RoomInv
      <3>5. Frames(q) = Waiting
        BY <1>1, FramesMore DEF Waiting
      <3> HIDE DEF q, w
      <3>6. Frames(q) \subseteq Frames(video_queue_')
        BY <1>1, <3>1, <3>2, <3>4, NothingCut
      <3>7. Waiting \ Waiting' = {}
        BY <3>5, <3>6 DEF Waiting
      <3> QED BY <3>7 DEF CutsSpare
    <2> QED BY <2>1, <2>2, <2>3
  <1> QED BY <1>2, <1>3 DEF CutsSpare

(* StreamRecovers when the queues hold both eyes of every frame: nothing   *)
(* is dropped by them then, and P frames may still be lost anywhere else.  *)
THEOREM VideoRecoversWithRoom ==
  ASSUME LoseIdr = FALSE, 2 <= kMaxQueued,
         2 * MaxFrame <= kMaxQueued, 2 * MaxFrame <= kMaxVideoQueued
  PROVE  Spec => []StreamRecovers
  <1>1. Init => RecoverInv /\ RoomInv
    <2>1. Init => Len(video_queue_) = 0 /\ Len(frames_) = 0 /\ Latest = 1
      BY DEF Init, Latest
    <2> QED BY <2>1, RecoverInit DEF RoomInv
  <1>2. RecoverInv /\ RoomInv /\ [Next]_vars => RecoverInv' /\ RoomInv'
    <2> SUFFICES ASSUME RecoverInv, RoomInv, [Next]_vars
                 PROVE  RecoverInv' /\ RoomInv'
      OBVIOUS
    <2>1. IInv /\ TypeOK /\ ThreadInv
      BY DEF RecoverInv, IInv
    <2>2. CutsSpare /\ RoomInv'
      BY <2>1, RoomSpares, RoomStep
    <2> QED BY <2>2, RecoverInvStep
  <1>3. RecoverInv => StreamRecovers
    BY RecoverMeans
  <1> QED BY <1>1, <1>2, <1>3, PTL DEF Spec
=============================================================================
