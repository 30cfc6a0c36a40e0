----------------------------- MODULE PacedSender -----------------------------
(***************************************************************************)
(* How one session cuts its encoded frames into shards and spreads them    *)
(* over a frame period: Session::pump_video with PacedSender, ShardPacer   *)
(* and PacingSlot.  The session thread never sleeps for pacing.  It hands  *)
(* a micro-burst to the socket, notes when the next one is due, and polls  *)
(* the sockets for at most that long; a packet from the headset ends the   *)
(* poll earlier.                                                           *)
(*                                                                         *)
(* Bytes and time come in small units.  The queue that feeds the session,  *)
(* with the frames it drops, is VideoStream's; here it is never full.      *)
(***************************************************************************)
EXTENDS Integers, Sequences

CONSTANTS
    group_bytes,   \* bytes of a micro-burst
    min_sleep,     \* a shorter pause is not taken
    budget_bytes,  \* payload of a shard that shares a datagram budget
    view_bytes,    \* what view_info takes of the first shard's payload
    group_size,    \* data shards covered by a parity shard
    Periods,       \* frame periods the headset may ask for
    Sizes,         \* bytes of an encoded eye-frame, 0 included
    MaxPairs,      \* bound: frame pairs
    MaxSettings,   \* bound: changes of the headset's settings
    MaxErrors,     \* bound: socket errors
    MaxTime        \* bound: the clock, but for bursts already scheduled

ASSUME PacingAssumption ==
    /\ group_bytes \in Nat \ {0} /\ min_sleep \in Nat \ {0}
    /\ budget_bytes \in Nat \ {0} /\ view_bytes \in Nat /\ group_size \in Nat \ {0}
    /\ Periods \subseteq Nat \ {0} /\ Sizes \subseteq Nat
    /\ MaxPairs \in Nat /\ MaxSettings \in Nat /\ MaxErrors \in Nat /\ MaxTime \in Nat

VARIABLES
    now, period, pacing_enabled_, fec_enabled_,
    stream_,        \* there is a UDP socket
    pc,             \* "poll" or "pump"
    inbox,          \* encoded and not taken by the session yet
    video_queue_,
    slot,           \* PacingSlot
    sender_,        \* PacedSender, its ShardPacer included
    next_video_due_,
    wire,           \* what the current or last frame put on the sockets
    early,          \* pump was called before the next burst was due
    pairs, settings, errors

settingVars == <<period, pacing_enabled_, fec_enabled_, stream_, settings>>
vars == <<now, settingVars, pc, inbox, video_queue_, slot, sender_, next_video_due_, wire, early,
          pairs, errors>>

Frame == [id : 1 .. MaxPairs, eye : {0, 1}, size : Sizes, idr : BOOLEAN]

Idle ==
    [active |-> FALSE, idr |-> FALSE, fragment |-> FALSE, fec |-> FALSE, offset |-> 0,
     start |-> 0, budget |-> 0, total |-> 0, next_group |-> group_bytes, group |-> 0]

Init ==
    /\ now = 0 /\ period \in Periods
    /\ stream_ \in BOOLEAN /\ pacing_enabled_ \in BOOLEAN
    /\ fec_enabled_ \in {FALSE, stream_}
    /\ pc = "poll" /\ inbox = <<>> /\ video_queue_ = <<>>
    /\ slot = [open |-> FALSE, start |-> 0]
    /\ sender_ = Idle /\ next_video_due_ = 0 /\ wire = <<>> /\ early = FALSE
    /\ pairs = 0 /\ settings = 0 /\ errors = 0

(* What is on the wire. *)
DataShard ==
    [kind : {"data"}, from : Nat, bytes : Nat \ {0}, view_info : BOOLEAN, timing_info : BOOLEAN]
Parity == [kind |-> "parity"]

Sender ==
    [active : BOOLEAN, idr : BOOLEAN, fragment : BOOLEAN, fec : BOOLEAN, offset : Nat,
     start : Nat, budget : Nat, total : Nat, next_group : Nat, group : Nat]

TypeOK ==
    /\ now \in Nat /\ period \in Periods
    /\ pacing_enabled_ \in BOOLEAN /\ fec_enabled_ \in BOOLEAN /\ stream_ \in BOOLEAN
    /\ pc \in {"poll", "pump"}
    /\ inbox \in Seq(Frame) /\ video_queue_ \in Seq(Frame)
    /\ slot \in [open : BOOLEAN, start : Nat]
    /\ sender_ \in Sender
    /\ next_video_due_ \in Nat
    /\ wire \in Seq(DataShard \cup {Parity})
    /\ early \in BOOLEAN
    /\ pairs \in 0 .. MaxPairs /\ settings \in 0 .. MaxSettings /\ errors \in 0 .. MaxErrors

-----------------------------------------------------------------------------
(* PacingSlot::begin_frame.  The window is 2/5 of the period.               *)
Window == (period * 2) \div 5

OpenSlot == IF ~slot.open \/ now - slot.start >= period THEN [open |-> TRUE, start |-> now] ELSE slot

(* Broken on purpose: every frame is given the whole window. *)
begin_frame_WholeWindow(queued) == Window

(* The budget of a frame that `queued' frames wait behind. *)
begin_frame(queued) ==
    LET left == OpenSlot.start + Window - now
    IN IF left <= 0 THEN 0 ELSE left \div (queued + 1)

(* ShardPacer *)
paced(s) == s.budget > 0 /\ s.total > group_bytes

deadline(s, offset) ==
    CASE ~paced(s) -> s.start
      [] paced(s) /\ offset >= s.total -> s.start + s.budget
      [] OTHER -> s.start + (s.budget * offset) \div s.total

Crosses(s, sent) == paced(s) /\ sent >= s.next_group /\ sent < s.total

NextGroup(sent) == (sent \div group_bytes + 1) * group_bytes

(* VideoPacketizer::payload_budget less view_info, which only the first     *)
(* shard has; never 0, or the frame would never end.                       *)
Payload(s) ==
    LET overhead == IF s.offset = 0 THEN view_bytes ELSE 0
    IN CASE ~s.fragment -> s.total
         [] s.fragment /\ budget_bytes > overhead -> budget_bytes - overhead
         [] OTHER -> 1

-----------------------------------------------------------------------------
(* The encoder delivers both eyes of a frame. *)
Encoded ==
    /\ pairs < MaxPairs
    /\ pairs' = pairs + 1
    /\ \E left, right \in Sizes, idr \in BOOLEAN :
          inbox' = inbox \o <<[id |-> pairs + 1, eye |-> 0, size |-> left, idr |-> idr],
                              [id |-> pairs + 1, eye |-> 1, size |-> right, idr |-> idr]>>
    /\ pc = "poll"
    /\ UNCHANGED <<now, settingVars, pc, video_queue_, slot, sender_, next_video_due_, wire, early, errors>>

Tick ==
    /\ pc = "poll" /\ (now < MaxTime \/ now < next_video_due_)
    /\ now' = now + 1
    /\ UNCHANGED <<settingVars, pc, inbox, video_queue_, slot, sender_, next_video_due_, wire, early,
                   pairs, errors>>

(* on_settings: a switch that changes resets the slot; a new refresh rate   *)
(* leaves it alone.                                                        *)
on_settings ==
    /\ pc = "poll" /\ settings < MaxSettings
    /\ settings' = settings + 1
    /\ period' \in Periods
    /\ pacing_enabled_' \in BOOLEAN
    /\ fec_enabled_' \in {FALSE, stream_}
    /\ slot' = IF pacing_enabled_' # pacing_enabled_ THEN [slot EXCEPT !.open = FALSE] ELSE slot
    /\ UNCHANGED <<now, stream_, pc, inbox, video_queue_, sender_, next_video_due_, wire, early, pairs, errors>>

(* The poll ends and pump_video takes what the encoder delivered. *)
pump_video ==
    /\ pc' = "pump"
    /\ video_queue_' = video_queue_ \o inbox /\ inbox' = <<>>
    /\ next_video_due_' = 0
    /\ UNCHANGED <<now, settingVars, slot, sender_, wire, pairs, errors>>

PollTimeout ==
    /\ pc = "poll"
    /\ now >= next_video_due_
    /\ pump_video
    /\ UNCHANGED early

(* A packet of the headset's ends it before the next burst is due. *)
PollPacket ==
    /\ pc = "poll"
    /\ now < next_video_due_
    /\ pump_video
    /\ early' = TRUE

(* Nothing is left to send; what the sender still holds is never read. *)
PumpReturns ==
    /\ pc = "pump" /\ ~sender_.active /\ video_queue_ = <<>>
    /\ pc' = "poll"
    /\ sender_' = Idle /\ wire' = <<>>
    /\ UNCHANGED <<now, settingVars, inbox, video_queue_, slot, next_video_due_, early, pairs, errors>>

(* Broken on purpose: a frame without bytes stays at the head. *)
EmptyFrame_Stays ==
    /\ pc = "pump" /\ ~sender_.active /\ video_queue_ # <<>>
    /\ Head(video_queue_).size = 0
    /\ UNCHANGED vars

(* A frame without bytes is passed over. *)
EmptyFrame ==
    /\ pc = "pump" /\ ~sender_.active /\ video_queue_ # <<>>
    /\ Head(video_queue_).size = 0
    /\ video_queue_' = Tail(video_queue_)
    /\ UNCHANGED <<now, settingVars, pc, inbox, slot, sender_, next_video_due_, wire, early, pairs, errors>>

(* Broken on purpose: the offset of an aborted frame is kept. *)
begin_video_frame_KeepsOffset ==
    /\ pc = "pump" /\ ~sender_.active /\ video_queue_ # <<>>
    /\ Head(video_queue_).size > sender_.offset
    /\ sender_' = [Idle EXCEPT !.active = TRUE, !.total = Head(video_queue_).size, !.start = now,
                               !.fragment = TRUE, !.offset = sender_.offset]
    /\ wire' = <<>>
    /\ UNCHANGED <<now, settingVars, pc, inbox, video_queue_, slot, next_video_due_, early, pairs, errors>>

begin_video_frame ==
    /\ pc = "pump" /\ ~sender_.active /\ video_queue_ # <<>>
    /\ LET f == Head(video_queue_)
           pace == pacing_enabled_ /\ ~f.idr
       IN /\ f.size > 0
          /\ slot' = IF pace THEN OpenSlot ELSE slot
          /\ sender_' =
                [Idle EXCEPT !.active = TRUE, !.idr = f.idr, !.total = f.size, !.start = now,
                             !.fragment = ~f.idr /\ (stream_ \/ pacing_enabled_),
                             !.fec = fec_enabled_ /\ stream_ /\ ~f.idr,
                             !.budget = IF pace THEN begin_frame(Len(video_queue_) - 1) ELSE 0]
    /\ wire' = <<>>
    /\ UNCHANGED <<now, settingVars, pc, inbox, video_queue_, next_video_due_, early, pairs, errors>>

(* Broken on purpose: an empty group is sent too. *)
send_parity_Always(group) == <<Parity>>

(* send_parity: the group is closed, and sent if it holds a shard. *)
send_parity(group) == IF group > 0 THEN <<Parity>> ELSE <<>>

(* One turn of PacedSender::pump: a shard, the parity of a full group, and  *)
(* the pause the schedule asks for.  Without a pause, pump goes on.        *)
SendShard ==
    /\ pc = "pump" /\ sender_.active /\ sender_.offset < sender_.total
    /\ LET s == sender_
           take == IF Payload(s) < s.total - s.offset THEN Payload(s) ELSE s.total - s.offset
           sent == s.offset + take
           shard == [kind |-> "data", from |-> s.offset, bytes |-> take,
                     view_info |-> s.offset = 0, timing_info |-> sent = s.total]
           group == IF s.fec THEN s.group + 1 ELSE 0
           full == group = group_size
           at == deadline(s, sent)
           pause == Crosses(s, sent) /\ at - now >= min_sleep
       IN /\ wire' = Append(wire, shard) \o (IF full THEN send_parity(group) ELSE <<>>)
          /\ sender_' = [s EXCEPT !.offset = sent, !.group = IF full THEN 0 ELSE group,
                                  !.next_group = IF Crosses(s, sent) THEN NextGroup(sent) ELSE @]
          /\ next_video_due_' = IF pause THEN at ELSE 0
          /\ pc' = IF pause THEN "poll" ELSE "pump"
    /\ early' = FALSE
    /\ UNCHANGED <<now, settingVars, inbox, video_queue_, slot, pairs, errors>>

(* The end of pump, and finish_video_frame. *)
finish_video_frame ==
    /\ pc = "pump" /\ sender_.active /\ sender_.offset = sender_.total
    /\ wire' = wire \o send_parity(sender_.group)
    /\ sender_' = [sender_ EXCEPT !.active = FALSE, !.group = 0]
    /\ video_queue_' = Tail(video_queue_)
    /\ UNCHANGED <<now, settingVars, pc, inbox, slot, next_video_due_, early, pairs, errors>>

(* The socket throws on a data shard: the rest of the frame is dropped. *)
SendError ==
    /\ pc = "pump" /\ sender_.active /\ sender_.offset < sender_.total
    /\ errors < MaxErrors
    /\ errors' = errors + 1
    /\ sender_' = [sender_ EXCEPT !.active = FALSE]
    /\ video_queue_' = Tail(video_queue_)
    /\ early' = FALSE
    /\ UNCHANGED <<now, settingVars, pc, inbox, slot, next_video_due_, wire, pairs>>

PumpStep == PumpReturns \/ EmptyFrame \/ begin_video_frame \/ SendShard \/ finish_video_frame \/ SendError

Next == Encoded \/ Tick \/ on_settings \/ PollTimeout \/ PollPacket \/ PumpStep

(* The session thread runs, its polls time out and the clock goes on. *)
Fairness == WF_vars(Tick) /\ WF_vars(PollTimeout) /\ WF_vars(PumpStep)

Spec == Init /\ [][Next]_vars /\ Fairness

-----------------------------------------------------------------------------
IsData(w) == w.kind = "data"
DataAt == {i \in DOMAIN wire : IsData(wire[i])}

First(i) == \A j \in DataAt : i <= j
Last(i) == \A j \in DataAt : j <= i

Finished == ~sender_.active /\ sender_.total > 0 /\ sender_.offset = sender_.total

(* The headset can put the frame back together: the shards carry its bytes *)
(* once each and in order, the first and no other has view_info, the last  *)
(* and no other has timing_info, over every pause, error and change of     *)
(* settings (video_out.h:4-13, video_out.cpp:79-172).                      *)
WholeFrames ==
    /\ \A i \in DataAt :
          /\ wire[i].bytes > 0
          /\ wire[i].view_info <=> First(i)
          /\ First(i) => wire[i].from = 0
          /\ wire[i].timing_info => Last(i)
          /\ \A j \in DataAt : (i < j /\ \A k \in DataAt : k <= i \/ j <= k)
                                 => wire[j].from = wire[i].from + wire[i].bytes
    /\ Finished => \E i \in DataAt : /\ Last(i) /\ wire[i].timing_info
                                     /\ wire[i].from + wire[i].bytes = sender_.total

(* Every data shard of a finished frame that asked for parity is covered:  *)
(* a parity shard follows it before group_size more data shards do, and no *)
(* two parity shards close the same group (video_out.cpp:133-171).         *)
ParityInPlace ==
    Finished /\ sender_.fec =>
        /\ wire[Len(wire)] = Parity
        /\ \A i \in 1 .. Len(wire) - group_size : \E j \in i .. i + group_size : wire[j] = Parity
        /\ \A i \in 1 .. Len(wire) - 1 : wire[i] = Parity => IsData(wire[i + 1])

(* The eyes share one window: whatever a frame is given ends within the    *)
(* window of the slot it starts in, and no burst of it is scheduled later  *)
(* (shard_pacer.h:76-86, 131-137; video_out.cpp:147-150 "this can never    *)
(* push the end of the frame into the next one").                          *)
WindowShared ==
    [][/\ sender_'.active /\ ~sender_.active /\ sender_'.budget > 0
             => sender_'.start + sender_'.budget <= slot'.start + Window
       /\ next_video_due_' > now => next_video_due_' <= sender_'.start + sender_'.budget]_vars

(* Every frame the session has taken leaves its queue, sent or given up,   *)
(* however the pauses, the empty frames and the socket errors fall         *)
(* (session.cpp:1077-1114).                                                *)
FramesFinish == (video_queue_ # <<>>) ~> (video_queue_ = <<>>)

(* The poll's timeout is "rounded up, so a burst is never handed over      *)
(* early" (session.cpp:1425).                                              *)
NeverEarly == [][wire' # wire => ~early]_vars
=============================================================================
