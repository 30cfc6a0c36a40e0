--------------------------- MODULE BitrateController ---------------------------
(***************************************************************************)
(* The automatic bitrate of one session: BitrateController, the handlers   *)
(* of Session that feed it, and the bitrate Session hands to VideoBridge.  *)
(* Every method of the controller runs under its mutex, so each handler is *)
(* one action.                                                             *)
(*                                                                         *)
(* Two control laws share a ring of frames under way, a window of samples  *)
(* made of the frames that left the ring, and the trend of the headset's   *)
(* radio.  "aimd" answers congestion; "bbr" estimates the bandwidth the    *)
(* link delivers and takes a share of it.                                  *)
(*                                                                         *)
(* Bitrates are integers in a coarse unit, and factors are percentages     *)
(* that truncate as the casts of the code do.  A frame's bytes are in the  *)
(* unit of the bitrate (a frame of `bitrate' bytes is one of the nominal   *)
(* size) and its wire time is in the unit of frame_period.  The radio      *)
(* reports keep their times; the least squares fit over them is whatever   *)
(* the environment says it is.                                             *)
(***************************************************************************)
EXTENDS Integers, Sequences, FiniteSets

CONSTANTS
    ceiling,                  \* the bitrate the operator asked for
    min_bitrate_bps,          \* configured floor
    increase_step_min,
    window_duration, min_samples, evaluation_interval, frame_ring_size,
    lost_frames_severe, late_frames_decrease, late_frames_severe,
    decrease_cooldown, increase_hold, recovery_confirm, recovery_step_interval,
    radio_trend_window, radio_max_age, radio_min_samples, radio_step_interval, radio_stable_hold,
    estimator_window, estimator_min_samples,
    round_duration, startup_stall_rounds,
    probe_interval, probe_duration, steady_interval, change_settle,
    frame_period,             \* nominal wire time of a frame at full utilisation
    Wires, Lates,             \* wire times of a frame; whether it may be shown too late
    Loads,                    \* size of an encoded frame, in percent of the nominal one
    Connects,                 \* settings packets a headset connects with
    Settings,                 \* settings packets it may send later
    Trends,                   \* what the radio reports may add up to
    Uptime,                   \* the clock when the session starts; longer than every duration
    MaxTime,                  \* bound: the clock, counted from Uptime
    MaxFrame,                 \* bound: frames sent
    MaxSettings               \* bound: settings packets

Modes == {"aimd", "bbr"}

ASSUME RateAssumption ==
    /\ ceiling \in Nat \ {0} /\ min_bitrate_bps \in Nat \ {0} /\ increase_step_min \in Nat \ {0}
    /\ frame_period \in Nat \ {0} /\ Wires \subseteq Nat /\ Lates \subseteq BOOLEAN /\ Loads \subseteq Nat
    /\ Connects \cup Settings \subseteq
         [bitrate_auto : BOOLEAN, radio_aware : BOOLEAN, bitrate_control : Modes \cup {"none"},
          smooth_pacing : BOOLEAN, fec : BOOLEAN]
    /\ Trends \subseteq [signal : {"rising", "falling", "flat", "drifting"}, starved : BOOLEAN]

ASSUME TimeAssumption ==
    /\ window_duration \in Nat /\ evaluation_interval \in Nat /\ decrease_cooldown \in Nat
    /\ increase_hold \in Nat /\ recovery_confirm \in Nat /\ recovery_step_interval \in Nat
    /\ radio_trend_window \in Nat /\ radio_max_age \in Nat /\ radio_step_interval \in Nat
    /\ radio_stable_hold \in Nat \ {0} /\ estimator_window \in Nat /\ round_duration \in Nat
    /\ probe_interval \in Nat /\ probe_duration \in Nat /\ steady_interval \in Nat /\ change_settle \in Nat
    /\ Uptime \in Nat /\ MaxTime \in Nat /\ MaxFrame \in Nat /\ MaxSettings \in Nat
    /\ \A d \in {window_duration, decrease_cooldown, radio_max_age, estimator_window, probe_interval} : Uptime > d

ASSUME CountAssumption ==
    /\ min_samples \in Nat \ {0} /\ frame_ring_size \in Nat \ {0}
    /\ lost_frames_severe \in Nat \ {0} /\ late_frames_decrease \in Nat \ {0} /\ late_frames_severe \in Nat \ {0}
    /\ radio_min_samples \in Nat \ {0} /\ estimator_min_samples \in Nat \ {0} /\ startup_stall_rounds \in Nat

VARIABLES
    now,
    client_enabled, radio_aware, client_mode, pacing_enabled_, fec_enabled_,
    bitrate, st, recovery_target, first_recovery_step, last_decrease,
    frames, newest_frame, has_frames, stale_before,
    window, healthy_since, last_evaluation,
    radio_window, last_radio_sample, last_radio_step, radio_hold, radio_stable_since,
    bandwidth,                \* the maximum filter with its number of samples and the time of the last
    bbr_st, startup_mark, startup_stalled, round_started, last_probe, probe_until, last_bbr_change,
    target,                   \* what VideoBridge was last told
    sent,                     \* frames that left
    old_frames,               \* history: frames sent before v2 last changed the bitrate
    restarted,                \* history: frames sent before v2 last started over
    lowered,                  \* history: when v1 last lowered the bitrate
    flat_since,               \* history: first of the unbroken run of flat reports under a hold
    settings

switchVars == <<client_enabled, radio_aware, client_mode, pacing_enabled_, fec_enabled_, settings>>
lawVars    == <<bitrate, st, recovery_target, first_recovery_step, last_decrease>>
ringVars   == <<frames, newest_frame, has_frames>>
sampleVars == <<window, healthy_since, last_evaluation, stale_before>>
trendVars  == <<radio_window, last_radio_sample, last_radio_step, radio_stable_since, flat_since>>
bbrVars    == <<bbr_st, startup_mark, startup_stalled, round_started, last_probe, probe_until, last_bbr_change>>
vars == <<now, switchVars, lawVars, ringVars, sampleVars, trendVars, radio_hold, bandwidth, bbrVars,
          target, sent, old_frames, restarted, lowered>>

Epoch == 0     \* time_point{}, and an optional time that is empty
Mode == IF client_mode = "none" THEN "aimd" ELSE client_mode     \* mode_locked
min_bitrate == IF min_bitrate_bps < ceiling THEN min_bitrate_bps ELSE ceiling
Percent(p, x) == (p * x) \div 100
Smaller(x, y) == IF x < y THEN x ELSE y
Larger(x, y) == IF x > y THEN x ELSE y
(* Broken on purpose: no floor. *)
clamp_NoFloor(x) == Smaller(x, ceiling)

clamp(x) == Larger(min_bitrate, Smaller(x, ceiling))
IncreaseStep == Larger(increase_step_min, Percent(5, ceiling))

(* apply_bitrate: the parity shards have a ninth of the budget. *)
Share(b, fec) == IF fec THEN (b * 8) \div 9 ELSE b

Frame(f) == [index |-> f, valid |-> FALSE, wire |-> 0, lost |-> FALSE, late |-> FALSE, bytes |-> 0]
NoFrame == Frame(0)
NoBandwidth == [s |-> [i \in 1 .. 3 |-> [when |-> Epoch, value |-> 0]], samples |-> 0, last |-> Epoch]

(* configure, with the settings the headset sent when it connected. *)
Init ==
    /\ now = Uptime
    /\ \E s \in Connects :
          /\ client_enabled = s.bitrate_auto /\ radio_aware = s.radio_aware /\ client_mode = s.bitrate_control
          /\ pacing_enabled_ = s.smooth_pacing /\ fec_enabled_ = s.fec
          /\ target = Share(ceiling, s.fec)
    /\ bitrate = ceiling /\ recovery_target = ceiling
    /\ st = "steady" /\ first_recovery_step = TRUE /\ last_decrease = Epoch
    /\ frames = [i \in 0 .. frame_ring_size - 1 |-> NoFrame]
    /\ newest_frame = 0 /\ has_frames = FALSE /\ stale_before = 0
    /\ window = <<>> /\ healthy_since = Epoch /\ last_evaluation = Epoch
    /\ radio_window = <<>> /\ last_radio_sample = Epoch /\ last_radio_step = Epoch
    /\ radio_hold = FALSE /\ radio_stable_since = Epoch
    /\ bandwidth = NoBandwidth
    /\ bbr_st = "startup" /\ startup_mark = 0 /\ startup_stalled = 0 /\ round_started = Epoch
    /\ last_probe = Epoch /\ probe_until = Epoch /\ last_bbr_change = Epoch
    /\ sent = 0 /\ old_frames = 0 /\ restarted = 0 /\ lowered = Epoch /\ flat_since = Epoch
    /\ settings = 0

-----------------------------------------------------------------------------
(* max_filter: a maximum over estimator_window kept in three samples.       *)
Estimate(e) == e.s[1].value
Valid(e) == e.samples > 0

(* What update makes of the three samples s when a rate comes at time t. *)
Renewed(x) == [i \in 1 .. 3 |-> x]

Inserted(s, x) ==
    CASE x.value >= s[2].value -> [s EXCEPT ![2] = x, ![3] = x]
      [] x.value < s[2].value /\ x.value >= s[3].value -> [s EXCEPT ![3] = x]
      [] OTHER -> s

Aged(s, x) ==
    LET old(i) == x.when - s[i].when > estimator_window
    IN CASE old(1) /\ old(2) -> <<s[3], x, x>>
         [] old(1) /\ ~old(2) -> <<s[2], s[3], x>>
         [] ~old(1) /\ s[2].when = s[1].when /\ x.when - s[2].when > estimator_window \div 4 -> <<s[1], x, x>>
         [] ~old(1) /\ s[2].when # s[1].when /\ s[3].when = s[2].when
               /\ x.when - s[3].when > estimator_window \div 2 -> <<s[1], s[2], x>>
         [] OTHER -> s

(* Broken on purpose: a stale record is never dropped. *)
update_NeverExpires(e, x) ==
    IF e.samples = 0 \/ x.value >= e.s[1].value THEN Renewed(x) ELSE Aged(Inserted(e.s, x), x)

update(e, x) ==
    IF e.samples = 0 \/ x.value >= e.s[1].value \/ x.when - e.s[3].when > estimator_window
    THEN Renewed(x)
    ELSE Aged(Inserted(e.s, x), x)

cap(e, v) == [e EXCEPT !.s = [i \in 1 .. 3 |-> [e.s[i] EXCEPT !.value = Smaller(@, v)]]]

Sampled(e, rate) ==
    [s |-> update(e, [when |-> now, value |-> rate]),
     samples |-> Smaller(e.samples + 1, estimator_min_samples), last |-> now]

Seeded == [s |-> Renewed([when |-> now, value |-> bitrate]), samples |-> estimator_min_samples, last |-> now]

-----------------------------------------------------------------------------
(* close_frame: a frame that leaves the ring becomes a sample. *)
min_loaded_wire == Percent(IF pacing_enabled_ THEN 12 ELSE 10, frame_period)

Rate(fr) ==
    IF Mode = "bbr" /\ fr.wire > 0 /\ fr.wire >= min_loaded_wire
    THEN (fr.bytes * frame_period) \div fr.wire
    ELSE 0

Measures(fr) == fr.index # 0 /\ ~fr.lost /\ fr.valid

ClosedWindow(fr) ==
    IF fr.index # 0 /\ fr.index >= stale_before /\ (fr.lost \/ Measures(fr))
    THEN Append(window, [when |-> now, lost |-> fr.lost, late |-> fr.late, frame |-> fr.index,
                         wire |-> IF fr.lost THEN 0 ELSE fr.wire,
                         rate |-> IF fr.lost THEN 0 ELSE Rate(fr)])
    ELSE window

ClosedBandwidth(fr) ==
    IF Measures(fr) /\ Rate(fr) > 0 THEN Sampled(bandwidth, Rate(fr)) ELSE bandwidth

(* analyse: counts, and the 90th percentile of what each frame measured:    *)
(* the least value that more than `rank' of the frames do not exceed.      *)
Percentile(ids, value) ==
    LET rank == Smaller(Cardinality(ids) - 1, (9 * Cardinality(ids)) \div 10)
        reach == {i \in ids : Cardinality({j \in ids : value[j] <= value[i]}) > rank}
    IN IF ids = {} THEN 0 ELSE value[CHOOSE i \in reach : \A j \in reach : value[i] <= value[j]]

Recent(w) ==
    LET old == {i \in 1 .. Len(w) : now - w[i].when > window_duration}
    IN SubSeq(w, Cardinality(old) + 1, Len(w))

analyse(w) ==
    LET ids == 1 .. Len(w)
        lost == {i \in ids : w[i].lost}
        wire == Percentile(ids \ lost, [i \in ids |-> w[i].wire])
    IN [count |-> Len(w), lost |-> Cardinality(lost), late |-> Cardinality({i \in ids : w[i].late}),
        wire |-> IF lost # {} THEN Larger(wire, frame_period) ELSE wire,
        rate |-> Percentile({i \in ids : w[i].rate > 0}, [i \in ids |-> w[i].rate])]

Above(s, p) == s.wire * 100 > p * frame_period
Healthy(s) == s.wire * 100 < 60 * frame_period /\ s.lost = 0 /\ s.late = 0
Severe(s) == Above(s, 100) \/ s.lost >= lost_frames_severe \/ s.late >= late_frames_severe
Degraded(s) == Severe(s) \/ Above(s, 85) \/ s.lost >= 1 \/ s.late >= late_frames_decrease

(* Broken on purpose: frames in flight still count. *)
flush_WindowOnly ==
    /\ window' = <<>> /\ healthy_since' = Epoch /\ last_evaluation' = Epoch
    /\ UNCHANGED stale_before

(* flush, once the frame that caused it is in the ring. *)
flush ==
    /\ window' = <<>> /\ healthy_since' = Epoch /\ last_evaluation' = Epoch
    /\ stale_before' = IF has_frames' THEN newest_frame' + 1 ELSE stale_before

(* An evaluation that leaves the bitrate alone. *)
Settled(w, since) ==
    /\ window' = w /\ healthy_since' = since /\ last_evaluation' = now
    /\ UNCHANGED stale_before

HealthySince == IF healthy_since = Epoch THEN now ELSE healthy_since

-----------------------------------------------------------------------------
(* evaluate_aimd *)
(* Broken on purpose: the rebound keeps its aim. *)
LowerAim_Same == recovery_target

(* Congestion that returns during a rebound: aim lower next time. *)
LowerAim == clamp(Percent(75, recovery_target))

(* Broken on purpose: the hold stays in a rebound. *)
HoldAfter_Kept(severe, hold) == hold

(* The deep drop and its rebound are in charge from here. *)
HoldAfter(severe, hold) == hold /\ ~severe

Decrease(severe, hold) ==
    LET recovering == st = "recovering"
        aim == IF recovering THEN LowerAim ELSE recovery_target
    IN /\ bitrate' = clamp(Percent(IF severe THEN 40 ELSE 70, bitrate))
       /\ recovery_target' = IF severe /\ ~recovering THEN bitrate ELSE aim
       /\ st' = IF (severe \/ recovering) /\ recovery_target' > bitrate' THEN "recovering" ELSE "steady"
       /\ first_recovery_step' = (severe \/ first_recovery_step)
       /\ radio_hold' = HoldAfter(severe, hold)
       /\ last_decrease' = now

Rebound ==
    /\ bitrate' = Smaller(recovery_target, clamp(2 * bitrate))
    /\ first_recovery_step' = FALSE
    /\ st' = IF bitrate' >= recovery_target THEN "steady" ELSE st
    /\ UNCHANGED <<recovery_target, last_decrease>>

Probe ==
    /\ bitrate' = clamp(bitrate + IncreaseStep)
    /\ recovery_target' = bitrate'
    /\ UNCHANGED <<st, first_recovery_step, last_decrease>>

ReboundDue ==
    now - HealthySince >= IF first_recovery_step THEN recovery_confirm ELSE recovery_step_interval

ProbeDue(hold) == ~hold /\ now - HealthySince >= increase_hold /\ bitrate < ceiling

evaluate_aimd(s, w, hold) ==
    /\ UNCHANGED bbrVars
    /\ \/ /\ ~Healthy(s)          \* in the hysteresis band, or too soon to decrease again
          /\ Degraded(s) => now - last_decrease < decrease_cooldown
          /\ Settled(w, Epoch) /\ radio_hold' = hold /\ UNCHANGED lawVars
       \/ /\ Degraded(s) /\ now - last_decrease >= decrease_cooldown
          /\ Decrease(Severe(s), hold) /\ flush
       \/ /\ Healthy(s) /\ st = "recovering" /\ ReboundDue
          /\ Rebound /\ flush /\ radio_hold' = hold
       \/ /\ Healthy(s) /\ st = "steady" /\ ProbeDue(hold)
          /\ Probe /\ flush /\ radio_hold' = hold
       \/ /\ Healthy(s) /\ ~(IF st = "recovering" THEN ReboundDue ELSE ProbeDue(hold))
          /\ Settled(w, HealthySince) /\ radio_hold' = hold /\ UNCHANGED lawVars

-----------------------------------------------------------------------------
(* evaluate_bbr *)
Acute(s, e) ==
    \/ s.lost >= 1 \/ s.late >= late_frames_decrease
    \/ /\ bbr_st # "probe"
       /\ \/ Above(s, 100)
          \/ bbr_st # "startup" /\ Valid(e) /\ s.rate > 0 /\ 10 * Estimate(e) > 16 * s.rate

Refreshed(e) == IF Valid(e) /\ now - e.last > estimator_window THEN NoBandwidth ELSE e

(* Nothing measured: v1's additive probe, with its hold. *)
Fallback(s, w, hold) ==
    LET fit == Healthy(s) /\ ~hold
        due == fit /\ now - HealthySince >= increase_hold /\ bitrate < ceiling
    IN /\ \/ /\ due
             /\ bitrate' = clamp(bitrate + IncreaseStep) /\ flush
          \/ /\ ~due
             /\ Settled(w, IF fit THEN HealthySince ELSE Epoch) /\ UNCHANGED bitrate
       /\ UNCHANGED <<last_decrease, bbrVars>>

Backoff(s, e) ==
    /\ bandwidth' = cap(e, IF s.rate > 0 THEN s.rate ELSE Percent(70, Estimate(e)))
    /\ bitrate' = clamp(Percent(70, Estimate(bandwidth')))
    /\ bbr_st' = "steady" /\ startup_stalled' = startup_stall_rounds
    /\ last_probe' = now /\ probe_until' = Epoch /\ last_bbr_change' = now /\ last_decrease' = now
    /\ flush
    /\ UNCHANGED <<startup_mark, round_started>>

(* The rounds of the startup ramp: a round that does not grow the estimate  *)
(* by a quarter counts as stalled.                                         *)
Round(bw) ==
    CASE round_started = Epoch -> [begun |-> now, mark |-> bw, stalled |-> startup_stalled]
      [] round_started # Epoch /\ now - round_started >= round_duration ->
            [begun |-> now, mark |-> bw,
             stalled |-> IF 100 * bw > 125 * startup_mark THEN 0 ELSE startup_stalled + 1]
      [] OTHER -> [begun |-> round_started, mark |-> startup_mark, stalled |-> startup_stalled]

Held(hold) == hold /\ bbr_st # "steady"          \* the radio ends the ramp or the probe
Current(hold) == IF Held(hold) THEN "steady" ELSE bbr_st
ProbeOver(hold) == Current(hold) = "probe" /\ now >= probe_until
Plateau(bw, hold) == Current(hold) = "startup" /\ Round(bw).stalled >= startup_stall_rounds
ProbeStarts(hold) ==
    Current(hold) = "steady" /\ ~hold /\ now - last_probe >= probe_interval /\ bitrate < ceiling

NextState(bw, hold) ==
    CASE ProbeStarts(hold) -> "probe"
      [] ProbeOver(hold) \/ Plateau(bw, hold) -> "steady"
      [] OTHER -> Current(hold)

Machine(bw, hold) ==
    /\ bbr_st' = NextState(bw, hold)
    /\ last_probe' = IF Held(hold) \/ ProbeOver(hold) \/ Plateau(bw, hold) THEN now ELSE last_probe
    /\ probe_until' = CASE Held(hold) -> Epoch
                        [] ProbeStarts(hold) -> now + probe_duration
                        [] OTHER -> probe_until
    /\ IF Current(hold) = "startup"
       THEN /\ round_started' = Round(bw).begun /\ startup_mark' = Round(bw).mark
            /\ startup_stalled' = Round(bw).stalled
       ELSE UNCHANGED <<round_started, startup_mark, startup_stalled>>

Gain(state, hold) ==
    CASE state = "startup" -> 125
      [] state = "probe" -> 110
      [] state = "steady" /\ hold -> 75
      [] OTHER -> 85

Distance(x, y) == IF x > y THEN x - y ELSE y - x

Track(w, e, hold) ==
    LET bw == Estimate(e)
        aim == clamp(Percent(Gain(NextState(bw, hold), hold), bw))
        limited == /\ NextState(bw, hold) # "startup" /\ ~ProbeOver(hold)
                   /\ \/ now - last_bbr_change < steady_interval
                      \/ 100 * Distance(aim, bitrate) < 5 * bitrate
    IN /\ Machine(bw, hold)
       /\ bandwidth' = e
       /\ \/ /\ limited
             /\ Settled(w, healthy_since) /\ UNCHANGED <<bitrate, last_bbr_change>>
          \/ /\ ~limited
             /\ bitrate' = aim /\ last_bbr_change' = now
             /\ IF bitrate' # bitrate \/ ProbeOver(hold) THEN flush ELSE Settled(w, healthy_since)
       /\ UNCHANGED last_decrease

evaluate_bbr(s, w, e, hold) ==
    LET fresh == Refreshed(e)
        base == IF fresh.samples < estimator_min_samples THEN Seeded ELSE fresh
    IN /\ radio_hold' = hold
       /\ UNCHANGED <<st, recovery_target, first_recovery_step>>
       /\ \/ /\ now - last_bbr_change < change_settle
             /\ Settled(w, healthy_since) /\ bandwidth' = e
             /\ UNCHANGED <<bitrate, last_decrease, bbrVars>>
          \/ /\ now - last_bbr_change >= change_settle
             /\ \/ /\ ~Acute(s, e) /\ fresh.samples < estimator_min_samples
                   /\ Fallback(s, w, hold) /\ bandwidth' = fresh
                \/ /\ Acute(s, e) /\ now - last_decrease < decrease_cooldown
                   /\ Settled(w, healthy_since) /\ bandwidth' = base
                   /\ UNCHANGED <<bitrate, last_decrease, bbrVars>>
                \/ /\ Acute(s, e) /\ now - last_decrease >= decrease_cooldown
                   /\ Backoff(s, base)
                \/ /\ ~Acute(s, e) /\ fresh.samples >= estimator_min_samples
                   /\ Track(w, fresh, hold)

-----------------------------------------------------------------------------
(* evaluate, with the window w and the estimate e that close_frame left. *)
evaluate(w, e) ==
    \/ /\ now - last_evaluation < evaluation_interval
       /\ window' = w /\ bandwidth' = e
       /\ UNCHANGED <<healthy_since, last_evaluation, stale_before, radio_hold, lawVars, bbrVars>>
    \/ /\ now - last_evaluation >= evaluation_interval
       /\ LET hold == radio_hold /\ now - last_radio_sample <= radio_max_age
              recent == Recent(w)
              s == analyse(recent)
          IN \/ /\ s.count < min_samples
                /\ Settled(recent, healthy_since) /\ radio_hold' = hold /\ bandwidth' = e
                /\ UNCHANGED <<lawVars, bbrVars>>
             \/ /\ s.count >= min_samples /\ Mode = "aimd"
                /\ evaluate_aimd(s, recent, hold) /\ bandwidth' = e
             \/ /\ s.count >= min_samples /\ Mode = "bbr"
                /\ evaluate_bbr(s, recent, e, hold)

(* The session applies what a handler returned; the histories follow. *)
apply_bitrate ==
    /\ target' = IF bitrate' # bitrate THEN Share(bitrate', fec_enabled_) ELSE target
    /\ old_frames' = IF Mode = "bbr" /\ bitrate' # bitrate THEN sent ELSE old_frames
    /\ lowered' = IF Mode = "aimd" /\ bitrate' < bitrate THEN now ELSE lowered

Merged(fr, lost, wire, late) ==
    [fr EXCEPT !.lost = @ \/ lost, !.valid = @ \/ ~lost, !.late = @ \/ late,
               !.wire = IF lost THEN @ ELSE Larger(@, wire)]

(* One of the feedback packets of frame f: given up on, or received over    *)
(* `wire' and perhaps decoded too late to be shown.                        *)
on_feedback(f, lost, wire, late) ==
    /\ client_enabled
    /\ ~has_frames \/ f + frame_ring_size > newest_frame
    /\ newest_frame' = IF has_frames THEN Larger(f, newest_frame) ELSE f
    /\ has_frames' = TRUE
    /\ LET i == f % frame_ring_size
           closed == IF frames[i].index # f THEN frames[i] ELSE NoFrame
           open == IF frames[i].index # f THEN Frame(f) ELSE frames[i]
       IN /\ frames' = [frames EXCEPT ![i] = Merged(open, lost, wire, late)]
          /\ evaluate(ClosedWindow(closed), ClosedBandwidth(closed))
    /\ apply_bitrate
    /\ UNCHANGED <<now, switchVars, trendVars, sent, restarted>>

(* finish_video_frame: the next frame has left, and v2 is told its size. *)
on_frame_bytes(bytes) ==
    /\ sent < MaxFrame
    /\ sent' = sent + 1
    /\ \/ /\ Mode = "bbr" /\ client_enabled /\ bytes > 0
          /\ newest_frame' = sent' /\ has_frames' = TRUE
          /\ LET i == sent' % frame_ring_size
             IN /\ frames' = [frames EXCEPT ![i] = [Frame(sent') EXCEPT !.bytes = bytes]]
                /\ window' = ClosedWindow(frames[i]) /\ bandwidth' = ClosedBandwidth(frames[i])
       \/ /\ Mode = "aimd" \/ ~client_enabled \/ bytes = 0
          /\ UNCHANGED <<ringVars, window, bandwidth>>
    /\ UNCHANGED <<now, switchVars, lawVars, healthy_since, last_evaluation, stale_before, trendVars,
                   radio_hold, bbrVars, target, old_frames, restarted, lowered>>

-----------------------------------------------------------------------------
(* on_wifi_state.  A trend says whether the signal rises, falls low, is     *)
(* flat or merely drifts, and whether the PHY rate collapsed.              *)
RadioGap == radio_window # <<>> /\ now - last_radio_sample > radio_max_age

RadioWindow ==
    Append(IF RadioGap THEN <<>> ELSE SelectSeq(radio_window, LAMBDA t : now - t <= radio_trend_window), now)

Usable == Len(RadioWindow) >= radio_min_samples /\ RadioWindow[1] < now

(* The preemptive step, which only ever lowers the bitrate. *)
RadioAim ==
    IF Mode = "bbr" /\ Valid(bandwidth)
    THEN Smaller(bitrate, clamp(Percent(75, Estimate(bandwidth))))
    ELSE clamp(Percent(70, bitrate))

RadioStep ==
    LET modelled == Mode = "bbr" /\ Valid(bandwidth)
    IN /\ bitrate' = RadioAim
       /\ bbr_st' = IF modelled THEN "steady" ELSE bbr_st
       /\ last_bbr_change' = IF modelled /\ bitrate' # bitrate THEN now ELSE last_bbr_change
       /\ radio_hold' = TRUE /\ last_decrease' = now /\ last_radio_step' = now
       /\ radio_stable_since' = Epoch
       /\ IF bitrate' # bitrate THEN flush ELSE UNCHANGED sampleVars

(* Broken on purpose: one report too many. *)
FlatForLong_Longer == radio_stable_since # Epoch /\ now - radio_stable_since > radio_stable_hold

(* A hold lets go when the signal rises, or once it stayed flat. *)
FlatForLong == radio_stable_since # Epoch /\ now - radio_stable_since >= radio_stable_hold
HoldReview(trend) ==
    LET kept == radio_hold /\ trend.signal # "rising"
        flat == kept /\ trend.signal = "flat" /\ ~trend.starved
        over == flat /\ FlatForLong
    IN /\ radio_hold' = (kept /\ ~over)
       /\ radio_stable_since' = CASE ~flat \/ over -> Epoch
                                  [] flat /\ ~over /\ radio_stable_since = Epoch -> now
                                  [] OTHER -> radio_stable_since
       /\ UNCHANGED <<bitrate, last_decrease, last_radio_step, sampleVars, bbr_st, last_bbr_change>>

Alarm(trend) == trend.signal = "falling" \/ trend.starved
(* Broken on purpose: the cooldown of the other decreases is ignored. *)
StepAllowed_Anytime == now - last_radio_step >= radio_step_interval

StepAllowed ==
    now - last_decrease >= decrease_cooldown /\ now - last_radio_step >= radio_step_interval

on_wifi_state(trend) ==
    /\ last_radio_sample < now      \* the headset's reports are some time apart
    /\ client_enabled /\ radio_aware
    /\ radio_window' = RadioWindow /\ last_radio_sample' = now
    /\ UNCHANGED ringVars
    /\ LET deaf == ~Usable \/ (Mode = "aimd" /\ st = "recovering")
       IN \/ /\ deaf
             /\ radio_hold' = (radio_hold /\ ~RadioGap)
             /\ radio_stable_since' = IF RadioGap THEN Epoch ELSE radio_stable_since
             /\ UNCHANGED <<bitrate, last_decrease, last_radio_step, sampleVars, bbr_st, last_bbr_change>>
          \/ ~deaf /\ Alarm(trend) /\ StepAllowed /\ RadioStep
          \/ ~deaf /\ ~(Alarm(trend) /\ StepAllowed) /\ HoldReview(trend)
    /\ flat_since' = IF radio_hold' /\ Usable /\ trend.signal = "flat" /\ ~trend.starved
                     THEN IF flat_since = Epoch THEN now ELSE flat_since
                     ELSE Epoch
    /\ apply_bitrate
    /\ UNCHANGED <<now, switchVars, st, recovery_target, first_recovery_step, bandwidth, startup_mark,
                   startup_stalled, round_started, last_probe, probe_until, sent, restarted>>

-----------------------------------------------------------------------------
(* on_settings: the switches of the headset, in the order Session reads     *)
(* them.  A change of the automatic bitrate or of the law starts over.     *)
reset_locked ==
    /\ bitrate' = ceiling /\ recovery_target' = ceiling
    /\ st' = "steady" /\ first_recovery_step' = TRUE
    /\ frames' = [i \in 0 .. frame_ring_size - 1 |-> NoFrame]
    /\ has_frames' = FALSE /\ stale_before' = 0
    /\ window' = <<>> /\ healthy_since' = Epoch /\ last_evaluation' = Epoch
    /\ bandwidth' = NoBandwidth
    /\ bbr_st' = "startup" /\ startup_mark' = 0 /\ startup_stalled' = 0 /\ round_started' = Epoch
    /\ last_probe' = Epoch /\ probe_until' = Epoch /\ last_bbr_change' = Epoch
    /\ restarted' = IF Mode' = "bbr" THEN sent ELSE 0
    /\ old_frames' = 0 /\ lowered' = Epoch
    /\ UNCHANGED <<last_decrease, newest_frame>>

Restarts(s) == s.bitrate_auto # client_enabled \/ Mode' # Mode
RadioSwitched(s) == s.radio_aware # radio_aware          \* flush_radio

(* Broken on purpose: the radio switch leaves its hold. *)
Releases_OnRestart(s) == Restarts(s)

(* reset_locked and flush_radio both let go of the radio's hold. *)
Releases(s) == Restarts(s) \/ RadioSwitched(s)

(* Broken on purpose: the parity switch is not passed on. *)
Reapplies_OnRestart(s) == Restarts(s)

(* The session hands the bitrate on again when its parity share changed. *)
Reapplies(s) == Restarts(s) \/ s.fec # fec_enabled_

on_settings(s) ==
    /\ settings < MaxSettings /\ settings' = settings + 1
    /\ client_enabled' = s.bitrate_auto /\ radio_aware' = s.radio_aware
    /\ client_mode' = s.bitrate_control
    /\ pacing_enabled_' = s.smooth_pacing /\ fec_enabled_' = s.fec
    /\ \/ Restarts(s) /\ reset_locked
       \/ ~Restarts(s) /\ UNCHANGED <<lawVars, ringVars, sampleVars, bandwidth, bbrVars, old_frames, restarted, lowered>>
    /\ radio_window' = IF RadioSwitched(s) THEN <<>> ELSE radio_window
    /\ last_radio_sample' = IF RadioSwitched(s) THEN Epoch ELSE last_radio_sample
    /\ flat_since' = IF Releases(s) THEN Epoch ELSE flat_since
    /\ last_radio_step' = IF Releases(s) THEN Epoch ELSE last_radio_step
    /\ radio_stable_since' = IF Releases(s) THEN Epoch ELSE radio_stable_since
    /\ radio_hold' = (radio_hold /\ ~Releases(s))
    /\ target' = IF Reapplies(s) THEN Share(bitrate', s.fec) ELSE target
    /\ UNCHANGED <<now, sent>>

Tick ==
    /\ now < Uptime + MaxTime
    /\ now' = now + 1
    /\ UNCHANGED <<switchVars, lawVars, ringVars, sampleVars, trendVars, radio_hold, bandwidth, bbrVars,
                   target, sent, old_frames, restarted, lowered>>

Lose(f) == on_feedback(f, TRUE, 0, FALSE)
Deliver(f) == \E wire \in Wires, late \in Lates : on_feedback(f, FALSE, wire, late)
Send == \E load \in Loads : on_frame_bytes(Percent(load, bitrate))     \* parity included
Report == \E trend \in Trends : on_wifi_state(trend)
Set == \E s \in Settings : on_settings(s)

Next ==
    \/ \E f \in 1 .. sent : Lose(f) \/ Deliver(f)
    \/ Send \/ Report \/ Set \/ Tick

Spec == Init /\ [][Next]_vars

-----------------------------------------------------------------------------
(* Properties *)

FrameState ==
    [index : Nat, valid : BOOLEAN, wire : Nat, lost : BOOLEAN, late : BOOLEAN, bytes : Nat]
Sample ==
    [when : Nat, lost : BOOLEAN, late : BOOLEAN, frame : Nat, wire : Nat, rate : Nat]
Mark == [when : Nat, value : Nat]
Filter == [s : [1 .. 3 -> Mark], samples : Nat, last : Nat]

(* The types the laws' arithmetic rests on: whatever is delivered, lost and *)
(* truncated, every rate, wire time and instant is a natural number.        *)
TypeOK ==
    /\ now \in Nat /\ sent \in Nat /\ target \in Nat
    /\ client_enabled \in BOOLEAN /\ radio_aware \in BOOLEAN /\ client_mode \in Modes \cup {"none"}
    /\ fec_enabled_ \in BOOLEAN /\ radio_hold \in BOOLEAN
    /\ bitrate \in Nat /\ recovery_target \in Nat /\ st \in {"steady", "recovering"}
    /\ last_decrease \in Nat /\ lowered \in Nat
    /\ last_radio_sample \in Nat /\ radio_stable_since \in Nat /\ flat_since \in Nat
    /\ frames \in [0 .. frame_ring_size - 1 -> FrameState]
    /\ window \in Seq(Sample)
    /\ bandwidth \in Filter

(* Whatever is measured, by either law, through truncating factors and the  *)
(* radio's steps, the bitrate stays between the floor and the ceiling, and  *)
(* a ceiling below the configured floor is honoured.                        *)
InRange == min_bitrate <= bitrate /\ bitrate <= ceiling

(* A rebound always has somewhere to go and is alone in charge              *)
(* (bitrate_controller.cpp:717): while it runs the bitrate is below its     *)
(* target, which is no higher than the ceiling, and there is no radio hold, *)
(* which would keep v1 from probing any further once the rebound is over.   *)
ReboundAhead ==
    st = "recovering" => /\ Mode = "aimd" /\ ~radio_hold
                         /\ bitrate < recovery_target /\ recovery_target <= ceiling

(* A hold ends with the switches that allowed it: it never outlives the     *)
(* radio switch or the automatic bitrate.                                   *)
HoldHasSwitch == radio_hold => radio_aware /\ client_enabled

(* A hold lets go once the signal has been flat for radio_stable_hold,      *)
(* however the reports, the evaluations and the switches interleave.       *)
HoldLetsGo ==
    radio_hold => flat_since = Epoch \/ last_radio_sample - flat_since < radio_stable_hold

(* VideoBridge always has the bitrate in force less the parity's share.     *)
TargetFollows == target = Share(bitrate, fec_enabled_)

(* Under v2, whose ring follows what is sent, no sample of the window is of *)
(* a frame sent before the law last changed the bitrate.  Frames from       *)
(* before the controller started over are the exception, and v1, which      *)
(* learns the newest frame from feedback, is not spoken of.                 *)
WindowIsCurrent ==
    Mode = "bbr" =>
        \A i \in 1 .. Len(window) : window[i].frame <= restarted \/ window[i].frame > old_frames

(* What flush is documented to do: nothing in flight at a change of the     *)
(* bitrate is taken for a measurement of the new one, whatever came before. *)
InFlightExcluded ==
    Mode = "bbr" => \A i \in 1 .. Len(window) : window[i].frame > old_frames

(* The three samples of the maximum filter are in order, of value and of    *)
(* age, so that promoting one never raises the estimate or makes it older. *)
FilterOrdered ==
    bandwidth.samples > 0 =>
        /\ bandwidth.s[1].value >= bandwidth.s[2].value /\ bandwidth.s[2].value >= bandwidth.s[3].value
        /\ bandwidth.s[1].when <= bandwidth.s[2].when /\ bandwidth.s[2].when <= bandwidth.s[3].when
        /\ bandwidth.s[3].when <= bandwidth.last /\ bandwidth.last - bandwidth.s[1].when <= estimator_window

(* A single bad patch cannot collapse the bitrate: v1 never lowers it twice *)
(* within decrease_cooldown, be it by congestion, a deep drop or the radio. *)
DecreasesSpaced ==
    [][Mode = "aimd" /\ bitrate' < bitrate => now - lowered >= decrease_cooldown]_vars

(* Congestion that interrupts a rebound brings its target down, by a factor *)
(* that truncates and a clamp to the floor, and nothing raises the target   *)
(* before that rebound is over (bitrate_controller.cpp:701-719).  A rebound *)
(* that reached its target is over (746-747): severe congestion there       *)
(* starts the next one, at that height again (710-711).                     *)
ReboundAimsLower ==
    [][st = "recovering" /\ st' = "recovering" =>
          /\ recovery_target' <= recovery_target
          /\ last_decrease' # last_decrease => recovery_target' < recovery_target]_vars
=============================================================================
