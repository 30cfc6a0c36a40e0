------------------------ MODULE BitrateController_proofs ------------------------
(***************************************************************************)
(* Theorems about BitrateController, for every ceiling, floor, duration,   *)
(* threshold and set of measurements.                                      *)
(***************************************************************************)
EXTENDS BitrateController, FiniteSetTheorems, SequenceTheorems, WellFoundedInduction, TLAPS

-----------------------------------------------------------------------------
(* Arithmetic of the rates. *)

(* A non-empty set of naturals has a least element. *)
LEMMA LeastNat ==
    ASSUME NEW T \in SUBSET Nat, T # {}
    PROVE  \E x \in T : \A y \in T : x <= y
<1>1. PICK x \in T : \A y \in T : ~ (<<y, x>> \in OpToRel(<, Nat))
  BY NatLessThanWellFounded, WFMin
<1>2. ASSUME NEW y \in T  PROVE x <= y
  <2>1. <<y, x>> \in Nat \X Nat
    OBVIOUS
  <2>2. ~ (<<y, x>>[1] < <<y, x>>[2])
    BY <1>1, <2>1, Zenon DEF OpToRel
  <2> QED
    BY <2>2
<1> QED
  BY <1>2

(* Whatever a law asks for, clamp answers between the floor and the ceiling *)
(* (bitrate_controller.cpp:191-194), the floor never being above it.        *)
LEMMA ClampInRange ==
    /\ min_bitrate \in Nat /\ ceiling \in Nat /\ min_bitrate <= ceiling /\ min_bitrate >= 1
    /\ \A x \in Int : clamp(x) \in Nat /\ min_bitrate <= clamp(x) /\ clamp(x) <= ceiling
    /\ \A x \in Int : x >= min_bitrate /\ x <= ceiling => clamp(x) = x
BY RateAssumption DEF clamp, min_bitrate, Larger, Smaller

(* No factor makes a rate negative. *)
LEMMA PercentType ==
    ASSUME NEW p \in Nat, NEW x \in Nat
    PROVE  Percent(p, x) \in Nat
BY DEF Percent

(* A factor of three quarters, truncated, lowers every positive rate. *)
LEMMA PercentLowers ==
    ASSUME NEW x \in Nat, x >= 1
    PROVE  Percent(75, x) < x
BY DEF Percent

-----------------------------------------------------------------------------
(* What the analysis of a window returns. *)

(* The percentile analyse takes (bitrate_controller.cpp:398-413) exists and *)
(* is one of the measured values: some measurement is no smaller than all.  *)
LEMMA PercentileType ==
    ASSUME NEW ids, IsFiniteSet(ids), NEW value, \A i \in ids : value[i] \in Nat
    PROVE  Percentile(ids, value) \in Nat
<1> DEFINE n == Cardinality(ids)
           below(i) == {j \in ids : value[j] <= value[i]}
           rank == Smaller(n - 1, (9 * n) \div 10)
           reach == {i \in ids : Cardinality(below(i)) > rank}
<1>1. CASE ids = {}
  BY <1>1 DEF Percentile
<1>2. CASE ids # {}
  <2>1. n \in Nat
    BY FS_CardinalityType
  <2>2. rank \in Int /\ rank < n
    <3> HIDE DEF n
    <3> QED
      BY <2>1 DEF Smaller
  <2>3. ASSUME NEW i \in ids
        PROVE  /\ IsFiniteSet(below(i)) /\ Cardinality(below(i)) \in Nat
               /\ Cardinality(below(i)) <= n
    <3>1. below(i) \in SUBSET ids
      OBVIOUS
    <3> HIDE DEF below
    <3> QED
      BY <3>1, FS_Subset, FS_CardinalityType
  <2>4. PICK top \in ids : \A j \in ids : Cardinality(below(j)) <= Cardinality(below(top))
    <3> DEFINE spare(i) == n - Cardinality(below(i))
               Spares == {spare(i) : i \in ids}
    <3>1. \A i \in ids : spare(i) \in Nat
      <4> HIDE DEF n, below
      <4> QED
        BY <2>1, <2>3
    <3>2. Spares \in SUBSET Nat /\ Spares # {}
      <4> HIDE DEF spare
      <4> QED
        BY <3>1, <1>2
    <3>3. PICK x \in Spares : \A y \in Spares : x <= y
      <4> HIDE DEF Spares
      <4> QED
        BY <3>2, LeastNat
    <3>4. PICK i \in ids : x = spare(i)
      OBVIOUS
    <3>5. \A j \in ids : spare(i) <= spare(j)
      <4> HIDE DEF spare
      <4> QED
        BY <3>3, <3>4
    <3> HIDE DEF n, below, Spares
    <3> QED
      BY <2>1, <2>3, <3>5
  <2>5. below(top) = ids
    <3> SUFFICES ASSUME NEW j \in ids, ~(value[j] <= value[top])  PROVE FALSE
      OBVIOUS
    <3>1. below(top) \in SUBSET below(j) /\ j \in below(j) /\ j \notin below(top)
      OBVIOUS
    <3> HIDE DEF below
    <3>2. Cardinality(below(top)) # Cardinality(below(j)) /\ Cardinality(below(top)) <= Cardinality(below(j))
      BY <2>3, <3>1, FS_Subset
    <3> QED
      BY <2>3, <2>4, <3>2
  <2>6. top \in reach
    <3> HIDE DEF rank, below
    <3> QED
      BY <2>2, <2>5
  <2>7. \A i \in reach : value[i] \in Nat
    OBVIOUS
  <2>8. \E i \in reach : \A j \in reach : value[i] <= value[j]
    <3> HIDE DEF reach
    <3>1. {value[i] : i \in reach} \in SUBSET Nat /\ {value[i] : i \in reach} # {}
      BY <2>6, <2>7
    <3>2. PICK x \in {value[i] : i \in reach} : \A y \in {value[i] : i \in reach} : x <= y
      BY <3>1, LeastNat
    <3> QED
      BY <3>2
  <2>9. value[CHOOSE i \in reach : \A j \in reach : value[i] <= value[j]] \in Nat
    <3> HIDE DEF reach
    <3> QED
      BY <2>7, <2>8
  <2>10. Percentile(ids, value) = value[CHOOSE i \in reach : \A j \in reach : value[i] <= value[j]]
    BY <1>2 DEF Percentile
  <2> QED
    BY <2>9, <2>10
<1> QED
  BY <1>1, <1>2

(* What evaluate keeps of a window of samples is one. *)
LEMMA RecentType ==
    ASSUME NEW w \in Seq(Sample)
    PROVE  Recent(w) \in Seq(Sample)
<1> DEFINE old == {i \in 1 .. Len(w) : now - w[i].when > window_duration}
           first == Cardinality(old) + 1
<1>1. first \in Nat /\ first >= 1
  <2>1. IsFiniteSet(1 .. Len(w))
    BY FS_Interval
  <2>2. old \in SUBSET (1 .. Len(w))
    OBVIOUS
  <2> HIDE DEF old
  <2>3. Cardinality(old) \in Nat
    BY <2>1, <2>2, FS_Subset, FS_CardinalityType
  <2> QED
    BY <2>3
<1>2. Recent(w) = SubSeq(w, first, Len(w))
  BY DEF Recent
<1>3. \A i \in first .. Len(w) : w[i] \in Sample
  <2> HIDE DEF first
  <2> QED
    BY <1>1
<1> HIDE DEF first
<1> QED
  BY <1>1, <1>2, <1>3, SubSeqProperties

(* The bandwidth the window shows is a natural number, 0 if none was measured. *)
LEMMA AnalyseRate ==
    ASSUME NEW w \in Seq(Sample)
    PROVE  analyse(w).rate \in Nat
<1> DEFINE rates == [i \in 1 .. Len(w) |-> w[i].rate]
           ids == {i \in 1 .. Len(w) : w[i].rate > 0}
<1>1. IsFiniteSet(1 .. Len(w))
  BY FS_Interval
<1>2. ids \in SUBSET (1 .. Len(w))
  OBVIOUS
<1>3. \A i \in 1 .. Len(w) : rates[i] \in Nat
  <2>1. \A i \in 1 .. Len(w) : w[i] \in Sample
    OBVIOUS
  <2> QED
    BY <2>1 DEF Sample
<1>4. analyse(w).rate = Percentile(ids, rates)
  BY DEF analyse
<1> HIDE DEF rates, ids
<1>5. IsFiniteSet(ids)
  BY <1>1, <1>2, FS_Subset
<1> QED
  BY <1>2, <1>3, <1>4, <1>5, PercentileType

-----------------------------------------------------------------------------
(* The maximum filter and the ring. *)

(* max_filter::update (bitrate_controller.h:424-456) keeps three samples    *)
(* whichever of its branches it takes.                                      *)
LEMMA UpdateType ==
    ASSUME NEW e \in Filter, NEW x \in Mark
    PROVE  update(e, x) \in [1 .. 3 -> Mark]
<1>1. e.s \in [1 .. 3 -> Mark]
  BY DEF Filter
<1>2. Renewed(x) \in [1 .. 3 -> Mark]
  BY DEF Renewed
<1>3. Inserted(e.s, x) \in [1 .. 3 -> Mark]
  BY <1>1 DEF Inserted
<1>4. ASSUME NEW s \in [1 .. 3 -> Mark]  PROVE Aged(s, x) \in [1 .. 3 -> Mark]
  <2>1. ASSUME NEW a \in Mark, NEW b \in Mark, NEW c \in Mark
        PROVE  <<a, b, c>> \in [1 .. 3 -> Mark]
    OBVIOUS
  <2>2. s[1] \in Mark /\ s[2] \in Mark /\ s[3] \in Mark
    OBVIOUS
  <2> QED
    BY <2>1, <2>2 DEF Aged
<1> QED
  BY <1>2, <1>3, <1>4 DEF update

(* max_filter::cap (bitrate_controller.h:458-467) keeps the filter's shape. *)
LEMMA CapType ==
    ASSUME NEW e \in Filter, NEW v \in Nat
    PROVE  cap(e, v) \in Filter
<1>1. \A i \in 1 .. 3 : [e.s[i] EXCEPT !.value = Smaller(@, v)] \in Mark
  BY DEF Filter, Mark, Smaller
<1> QED
  BY <1>1 DEF cap, Filter

(* What v2 multiplies by its gains is a natural number. *)
LEMMA EstimateType ==
    ASSUME NEW e \in Filter
    PROVE  Estimate(e) \in Nat /\ e.samples \in Nat
BY DEF Estimate, Filter, Mark

(* The empty filter of flush_estimator is a filter. *)
LEMMA NoBandwidthType == NoBandwidth \in Filter
BY DEF NoBandwidth, Filter, Mark, Epoch

(* A sample taken now, and the filter v2 starts over with. *)
LEMMA SampledType ==
    ASSUME TypeOK, NEW e \in Filter, NEW rate \in Nat
    PROVE  Sampled(e, rate) \in Filter /\ Seeded \in Filter
<1>1. now \in Nat /\ bitrate \in Nat
  BY DEF TypeOK
<1>2. [when |-> now, value |-> rate] \in Mark /\ [when |-> now, value |-> bitrate] \in Mark
  BY <1>1 DEF Mark
<1>3. Smaller(e.samples + 1, estimator_min_samples) \in Nat /\ estimator_min_samples \in Nat
  BY EstimateType, CountAssumption DEF Smaller
<1>4. Sampled(e, rate) \in Filter
  BY <1>1, <1>2, <1>3, UpdateType DEF Sampled, Filter
<1>5. Renewed([when |-> now, value |-> bitrate]) \in [1 .. 3 -> Mark]
  BY <1>2 DEF Renewed
<1> QED
  BY <1>1, <1>3, <1>4, <1>5 DEF Seeded, Filter

(* The quotient of two naturals is one. *)
LEMMA QuotientType ==
    ASSUME NEW a \in Nat, NEW b \in Nat, b > 0
    PROVE  a \div b \in Nat
OBVIOUS

(* close_frame (bitrate_controller.cpp:305-342) leaves a window and a filter. *)
LEMMA ClosedTypes ==
    ASSUME TypeOK, NEW fr \in FrameState
    PROVE  ClosedWindow(fr) \in Seq(Sample) /\ ClosedBandwidth(fr) \in Filter
<1>1. Rate(fr) \in Nat
  <2>1. fr.bytes \in Nat /\ fr.wire \in Nat /\ frame_period \in Nat
    BY RateAssumption DEF FrameState
  <2>2. fr.bytes * frame_period \in Nat
    BY <2>1
  <2> QED
    BY <2>1, <2>2, QuotientType DEF Rate
<1>2. now \in Nat /\ window \in Seq(Sample) /\ bandwidth \in Filter
  BY DEF TypeOK
<1>3. ClosedBandwidth(fr) \in Filter
  BY <1>1, <1>2, SampledType DEF ClosedBandwidth
<1>4. [when |-> now, lost |-> fr.lost, late |-> fr.late, frame |-> fr.index,
       wire |-> IF fr.lost THEN 0 ELSE fr.wire, rate |-> IF fr.lost THEN 0 ELSE Rate(fr)] \in Sample
  BY <1>1, <1>2 DEF FrameState, Sample
<1>5. ClosedWindow(fr) \in Seq(Sample)
  BY <1>2, <1>4 DEF ClosedWindow
<1> QED
  BY <1>3, <1>5

(* A slot of the ring that was just opened, or is empty, is one. *)
LEMMA FrameType ==
    ASSUME NEW f \in Nat
    PROVE  Frame(f) \in FrameState /\ NoFrame \in FrameState
BY DEF Frame, NoFrame, FrameState

-----------------------------------------------------------------------------
(* The inductive invariant. *)

(* What a rebound aims at is itself a bitrate in range. *)
AimInRange == min_bitrate <= recovery_target /\ recovery_target <= ceiling

(* The instants the laws compare lie in the past, and v1 lowers nothing     *)
(* without starting the cooldown.                                           *)
PastInstants ==
    /\ now >= 1 /\ lowered <= last_decrease /\ last_decrease <= now
    /\ radio_stable_since <= now

(* Under a hold the controller times a run of flat reports from its first   *)
(* report or from earlier, and the run is not long enough yet.              *)
FlatRunTimed ==
    radio_hold /\ flat_since # Epoch =>
        /\ radio_stable_since # Epoch /\ radio_stable_since <= flat_since
        /\ last_radio_sample - flat_since < radio_stable_hold

Inv ==
    /\ TypeOK /\ InRange /\ AimInRange /\ ReboundAhead
    /\ HoldHasSwitch /\ PastInstants /\ FlatRunTimed /\ TargetFollows

(* What an evaluation or a radio step may do to the law's state. *)
LawStep ==
    /\ bitrate' \in min_bitrate .. ceiling
    /\ recovery_target' \in min_bitrate .. ceiling
    /\ st' \in {"steady", "recovering"}
    /\ last_decrease' \in {last_decrease, now}
    /\ st' = "recovering" => Mode = "aimd" /\ ~radio_hold' /\ bitrate' < recovery_target'
    /\ Mode = "aimd" /\ bitrate' < bitrate =>
          now - last_decrease >= decrease_cooldown /\ last_decrease' = now
    /\ st = "recovering" /\ st' = "recovering" =>
          /\ recovery_target' <= recovery_target
          /\ last_decrease' # last_decrease => recovery_target' < recovery_target

(* A step that leaves the law alone is one. *)
LEMMA LawUnchanged ==
    ASSUME Inv, UNCHANGED <<bitrate, st, recovery_target, last_decrease>>, radio_hold' => radio_hold
    PROVE  LawStep
BY ClampInRange DEF Inv, TypeOK, InRange, AimInRange, ReboundAhead, LawStep

(* evaluate_aimd's congestion branch (bitrate_controller.cpp:697-728). *)
LEMMA DecreaseStep ==
    ASSUME Inv, Mode = "aimd", NEW severe \in BOOLEAN, NEW hold \in BOOLEAN, hold => radio_hold,
           now - last_decrease >= decrease_cooldown, Decrease(severe, hold)
    PROVE  LawStep /\ radio_hold' \in BOOLEAN /\ (radio_hold' => radio_hold)
<1>1. /\ bitrate \in Nat /\ recovery_target \in Nat
      /\ Percent(40, bitrate) \in Nat /\ Percent(70, bitrate) \in Nat /\ Percent(75, recovery_target) \in Nat
  BY PercentType DEF Inv, TypeOK
<1>2. bitrate' \in min_bitrate .. ceiling
  <2>1. PICK x \in Nat : bitrate' = clamp(x)
    BY <1>1 DEF Decrease
  <2> QED
    BY <2>1, ClampInRange
<1>3. LowerAim \in min_bitrate .. ceiling
  BY <1>1, ClampInRange DEF LowerAim
<1>4. recovery_target' \in min_bitrate .. ceiling
  BY <1>1, <1>3, ClampInRange DEF Decrease, Inv, InRange, AimInRange
<1>5. st' = "recovering" => ~radio_hold' /\ bitrate' < recovery_target'
  <2>1. ASSUME st' = "recovering"  PROVE severe \/ st = "recovering"
    BY <2>1 DEF Decrease
  <2>2. ASSUME st' = "recovering"  PROVE bitrate' < recovery_target'
    BY <2>2, <1>2, <1>4, ClampInRange DEF Decrease
  <2>3. st = "recovering" => ~hold
    BY DEF Inv, ReboundAhead
  <2> QED
    BY <2>1, <2>2, <2>3 DEF Decrease, HoldAfter
<1>6. st = "recovering" => recovery_target' < recovery_target
  <2> SUFFICES ASSUME st = "recovering"  PROVE recovery_target' < recovery_target
    OBVIOUS
  <2>1. recovery_target' = clamp(Percent(75, recovery_target))
    BY DEF Decrease, LowerAim
  <2>2. min_bitrate <= bitrate /\ bitrate < recovery_target /\ recovery_target <= ceiling
    BY DEF Inv, InRange, ReboundAhead
  <2>3. Percent(75, recovery_target) < recovery_target
    BY <1>1, <2>2, ClampInRange, PercentLowers
  <2> QED
    BY <1>1, <2>1, <2>2, <2>3, ClampInRange DEF clamp, Larger, Smaller
<1>7. st' \in {"steady", "recovering"} /\ last_decrease' = now
  BY DEF Decrease
<1>8. radio_hold' \in BOOLEAN /\ (radio_hold' => radio_hold)
  BY DEF Decrease, HoldAfter
<1>9. recovery_target \in Nat /\ recovery_target' \in Nat
  BY <1>1, <1>4, ClampInRange
<1> QED
  BY <1>2, <1>4, <1>5, <1>6, <1>7, <1>8, <1>9 DEF LawStep

(* A rebound raises the bitrate towards its target and never past it. *)
LEMMA ReboundStep ==
    ASSUME Inv, st = "recovering", Rebound, radio_hold' => radio_hold
    PROVE  LawStep
<1>1. /\ bitrate \in Nat /\ recovery_target \in Nat /\ 2 * bitrate \in Nat
      /\ min_bitrate <= bitrate /\ bitrate < recovery_target /\ recovery_target <= ceiling
      /\ Mode = "aimd" /\ ~radio_hold
  BY DEF Inv, TypeOK, InRange, ReboundAhead
<1>2. clamp(2 * bitrate) \in min_bitrate .. ceiling /\ clamp(2 * bitrate) >= bitrate
  BY <1>1, ClampInRange DEF clamp, Larger, Smaller
<1>3. /\ bitrate' \in min_bitrate .. ceiling /\ bitrate' >= bitrate /\ bitrate' <= recovery_target
      /\ recovery_target' = recovery_target /\ last_decrease' = last_decrease
  BY <1>1, <1>2, ClampInRange DEF Rebound, Smaller
<1>4. st' \in {"steady", "recovering"} /\ (st' = "recovering" => bitrate' < recovery_target)
  BY <1>1, <1>3, ClampInRange DEF Rebound
<1>5. recovery_target \in min_bitrate .. ceiling /\ ~(bitrate' < bitrate)
  BY <1>1, <1>3, ClampInRange
<1> QED
  BY <1>1, <1>3, <1>4, <1>5 DEF LawStep

(* The additive step is a natural number. *)
LEMMA StepType == IncreaseStep \in Nat
<1>1. Percent(5, ceiling) \in Nat /\ increase_step_min \in Nat
  BY RateAssumption, PercentType
<1> QED
  BY <1>1 DEF IncreaseStep, Larger

(* An additive probe raises the bitrate within range, and its target with it. *)
LEMMA ProbeStep ==
    ASSUME Inv, st = "steady", Probe
    PROVE  LawStep
<1>1. bitrate \in Nat /\ min_bitrate <= bitrate /\ bitrate <= ceiling
  BY DEF Inv, TypeOK, InRange
<1>2. bitrate + IncreaseStep \in Nat /\ bitrate + IncreaseStep >= bitrate
  BY <1>1, StepType
<1>3. bitrate' \in min_bitrate .. ceiling /\ ~(bitrate' < bitrate)
  BY <1>1, <1>2, ClampInRange DEF Probe, clamp, Larger, Smaller
<1>4. recovery_target' = bitrate' /\ st' = "steady" /\ last_decrease' = last_decrease
  BY DEF Probe
<1> QED
  BY <1>3, <1>4 DEF LawStep

(* evaluate_aimd, and what it does to the window: kept or thrown away. *)
LEMMA AimdStep ==
    ASSUME Inv, Mode = "aimd", NEW s, NEW w, NEW hold \in BOOLEAN, hold => radio_hold,
           evaluate_aimd(s, w, hold)
    PROVE  LawStep /\ radio_hold' \in BOOLEAN /\ (radio_hold' => radio_hold) /\ window' \in {w, <<>>}
<1>1. CASE UNCHANGED lawVars /\ radio_hold' = hold /\ window' = w
  BY <1>1, LawUnchanged DEF lawVars
<1>2. CASE now - last_decrease >= decrease_cooldown /\ Decrease(Severe(s), hold) /\ flush
  <2>1. Severe(s) \in BOOLEAN
    BY DEF Severe
  <2> QED
    BY <1>2, <2>1, DecreaseStep DEF flush
<1>3. CASE st = "recovering" /\ Rebound /\ flush /\ radio_hold' = hold
  BY <1>3, ReboundStep DEF flush
<1>4. CASE st = "steady" /\ Probe /\ flush /\ radio_hold' = hold
  BY <1>4, ProbeStep DEF flush
<1> QED
  BY <1>1, <1>2, <1>3, <1>4 DEF evaluate_aimd, Settled

(* Whatever v2 estimates, what it asks for is clamped, and it never starts  *)
(* a rebound (bitrate_controller.cpp:790-996).                              *)
LEMMA BbrStep ==
    ASSUME Inv, Mode = "bbr", NEW s, s.rate \in Nat, NEW w, NEW e \in Filter,
           NEW hold \in BOOLEAN, hold => radio_hold, evaluate_bbr(s, w, e, hold)
    PROVE  LawStep /\ radio_hold' = hold /\ window' \in {w, <<>>} /\ bandwidth' \in Filter
<1> DEFINE fresh == Refreshed(e)
           base == IF fresh.samples < estimator_min_samples THEN Seeded ELSE fresh
<1>1. fresh \in Filter
  BY NoBandwidthType DEF Refreshed
<1>2. base \in Filter
  BY <1>1, NoBandwidthType, SampledType DEF Inv
<1>3. Estimate(fresh) \in Nat /\ Estimate(base) \in Nat
  BY <1>1, <1>2, EstimateType
<1>4. st = "steady" /\ bitrate \in min_bitrate .. ceiling /\ recovery_target \in min_bitrate .. ceiling
  BY ClampInRange DEF Inv, TypeOK, InRange, AimInRange, ReboundAhead
<1>5. radio_hold' = hold /\ st' = st /\ recovery_target' = recovery_target
  BY DEF evaluate_bbr
<1> DEFINE Goal == /\ bitrate' \in min_bitrate .. ceiling /\ last_decrease' \in {last_decrease, now}
                   /\ window' \in {w, <<>>} /\ bandwidth' \in Filter
<1>6. ASSUME Fallback(s, w, hold), bandwidth' = fresh  PROVE Goal
  <2>1. bitrate + IncreaseStep \in Nat
    BY <1>4, StepType, ClampInRange
  <2>2. bitrate' = bitrate \/ bitrate' = clamp(bitrate + IncreaseStep)
    BY <1>6 DEF Fallback
  <2>3. last_decrease' = last_decrease /\ window' \in {w, <<>>}
    BY <1>6 DEF Fallback, flush, Settled
  <2> HIDE DEF fresh
  <2> QED
    BY <1>1, <1>4, <1>6, <2>1, <2>2, <2>3, ClampInRange
<1>7. ASSUME Backoff(s, base)  PROVE Goal
  <2> HIDE DEF base
  <2>1. (IF s.rate > 0 THEN s.rate ELSE Percent(70, Estimate(base))) \in Nat
    BY <1>3, PercentType
  <2>2. bandwidth' \in Filter
    BY <1>2, <1>7, <2>1, CapType DEF Backoff
  <2>3. Percent(70, Estimate(bandwidth')) \in Nat
    BY <2>2, EstimateType, PercentType
  <2>4. bitrate' \in min_bitrate .. ceiling
    BY <1>7, <2>3, ClampInRange DEF Backoff
  <2>5. last_decrease' = now /\ window' = <<>>
    BY <1>7 DEF Backoff, flush
  <2> QED
    BY <2>2, <2>4, <2>5
<1>8. ASSUME Track(w, fresh, hold)  PROVE Goal
  <2> HIDE DEF fresh
  <2> DEFINE gain == Gain(NextState(Estimate(fresh), hold), hold)
  <2>1. gain \in Nat
    BY DEF Gain
  <2> HIDE DEF gain
  <2>2. Percent(gain, Estimate(fresh)) \in Nat
    BY <1>3, <2>1, PercentType
  <2>3. bitrate' = bitrate \/ bitrate' = clamp(Percent(gain, Estimate(fresh)))
    BY <1>8 DEF Track, gain
  <2>4. last_decrease' = last_decrease /\ bandwidth' = fresh /\ window' \in {w, <<>>}
    BY <1>8 DEF Track, flush, Settled
  <2> QED
    BY <1>1, <1>4, <2>2, <2>3, <2>4, ClampInRange
<1>9. ASSUME bandwidth' \in {e, base}, window' = w, UNCHANGED <<bitrate, last_decrease>>  PROVE Goal
  <2> HIDE DEF base
  <2> QED
    BY <1>2, <1>4, <1>9
<1>10. Goal
  <2>1. \/ Fallback(s, w, hold) /\ bandwidth' = fresh
        \/ Backoff(s, base)
        \/ Track(w, fresh, hold)
        \/ bandwidth' \in {e, base} /\ window' = w /\ UNCHANGED <<bitrate, last_decrease>>
    BY DEF evaluate_bbr, Settled
  <2> HIDE DEF fresh, base, Goal
  <2> QED
    BY <2>1, <1>6, <1>7, <1>8, <1>9
<1> HIDE DEF base, fresh
<1> QED
  BY <1>4, <1>5, <1>10 DEF LawStep

(* evaluate, whichever law is in force (bitrate_controller.cpp:658-677). *)
LEMMA EvaluateStep ==
    ASSUME Inv, NEW w \in Seq(Sample), NEW e \in Filter, evaluate(w, e)
    PROVE  /\ LawStep /\ radio_hold' \in BOOLEAN /\ (radio_hold' => radio_hold)
           /\ window' \in Seq(Sample) /\ bandwidth' \in Filter
<1> DEFINE hold == radio_hold /\ now - last_radio_sample <= radio_max_age
<1>1. hold \in BOOLEAN /\ (hold => radio_hold) /\ radio_hold \in BOOLEAN
  BY DEF Inv, TypeOK
<1>2. Recent(w) \in Seq(Sample) /\ analyse(Recent(w)).rate \in Nat /\ <<>> \in Seq(Sample)
  BY RecentType, AnalyseRate
<1>3. CASE UNCHANGED lawVars /\ radio_hold' \in {hold, radio_hold} /\ bandwidth' = e
           /\ window' \in {w, Recent(w)}
  BY <1>1, <1>2, <1>3, LawUnchanged DEF lawVars
<1>4. CASE Mode = "aimd" /\ evaluate_aimd(analyse(Recent(w)), Recent(w), hold) /\ bandwidth' = e
  <2> HIDE DEF hold
  <2> QED
    BY <1>1, <1>2, <1>4, AimdStep
<1>5. CASE Mode = "bbr" /\ evaluate_bbr(analyse(Recent(w)), Recent(w), e, hold)
  <2> HIDE DEF hold
  <2> QED
    BY <1>1, <1>2, <1>5, BbrStep
<1> QED
  BY <1>3, <1>4, <1>5 DEF evaluate, Settled

-----------------------------------------------------------------------------
(* Every action preserves the invariant. *)

(* Every frame has a slot in the ring. *)
LEMMA SlotType ==
    ASSUME NEW f \in Nat
    PROVE  f % frame_ring_size \in 0 .. frame_ring_size - 1
BY CountAssumption

(* What parity leaves of a bitrate is a natural number. *)
LEMMA ShareType ==
    ASSUME NEW b \in Nat, NEW fec
    PROVE  Share(b, fec) \in Nat
BY DEF Share

(* What the properties say of a single step. *)
Spaced == Mode = "aimd" /\ bitrate' < bitrate => now - lowered >= decrease_cooldown
AimsLower ==
    st = "recovering" /\ st' = "recovering" =>
        /\ recovery_target' <= recovery_target
        /\ last_decrease' # last_decrease => recovery_target' < recovery_target

(* A step of the law that apply_bitrate hands on (session.cpp) leaves the   *)
(* parts of the invariant about the bitrate in place.                       *)
LEMMA LawPreserves ==
    ASSUME Inv, LawStep, apply_bitrate, UNCHANGED <<now, client_mode, fec_enabled_>>
    PROVE  /\ bitrate' \in Nat /\ recovery_target' \in Nat /\ st' \in {"steady", "recovering"}
           /\ last_decrease' \in Nat /\ lowered' \in Nat /\ target' \in Nat
           /\ InRange' /\ AimInRange' /\ ReboundAhead' /\ TargetFollows'
           /\ lowered' <= last_decrease' /\ last_decrease' <= now
           /\ Spaced /\ AimsLower
<1>1. /\ now \in Nat /\ bitrate \in Nat /\ last_decrease \in Nat /\ lowered \in Nat /\ target \in Nat
      /\ decrease_cooldown \in Nat /\ lowered <= last_decrease /\ last_decrease <= now
  BY TimeAssumption DEF Inv, TypeOK, PastInstants
<1>2. bitrate' \in Nat /\ recovery_target' \in Nat /\ st' \in {"steady", "recovering"} /\ InRange' /\ AimInRange'
  BY ClampInRange DEF LawStep, InRange, AimInRange, min_bitrate
<1>3. ReboundAhead'
  BY <1>2 DEF LawStep, ReboundAhead, AimInRange, Mode
<1>4. target' \in Nat /\ TargetFollows'
  BY <1>1, <1>2, ShareType DEF apply_bitrate, TargetFollows, Inv
<1>5. last_decrease' \in Nat /\ last_decrease' <= now
  BY <1>1 DEF LawStep
<1>6. lowered' \in Nat /\ lowered' <= last_decrease'
  BY <1>1, <1>2 DEF LawStep, apply_bitrate
<1>7. Spaced /\ AimsLower
  BY <1>1 DEF LawStep, Spaced, AimsLower
<1> QED
  BY <1>2, <1>3, <1>4, <1>5, <1>6, <1>7

(* on_feedback (bitrate_controller.cpp:604-656) preserves the invariant. *)
LEMMA FeedbackStep ==
    ASSUME Inv, NEW f \in 1 .. sent, NEW lost \in BOOLEAN, NEW wire \in Nat, NEW late \in BOOLEAN,
           on_feedback(f, lost, wire, late)
    PROVE  Inv' /\ Spaced /\ AimsLower
<1> DEFINE i == f % frame_ring_size
           closed == IF frames[i].index # f THEN frames[i] ELSE NoFrame
           open == IF frames[i].index # f THEN Frame(f) ELSE frames[i]
<1>1. /\ f \in Nat /\ i \in 0 .. frame_ring_size - 1
      /\ frames \in [0 .. frame_ring_size - 1 -> FrameState]
  BY CountAssumption DEF Inv, TypeOK
<1>2. frames[i] \in FrameState
  BY <1>1
<1> HIDE DEF i
<1>3. closed \in FrameState /\ open \in FrameState
  BY <1>1, <1>2, FrameType
<1>4. frames' = [frames EXCEPT ![i] = Merged(open, lost, wire, late)]
  BY DEF on_feedback, i
<1>5. evaluate(ClosedWindow(closed), ClosedBandwidth(closed)) /\ apply_bitrate
  BY DEF on_feedback, i
<1>6. /\ client_enabled
      /\ UNCHANGED <<now, switchVars, trendVars, sent>>
  BY DEF on_feedback
<1> HIDE DEF open, closed
<1>7. frames' \in [0 .. frame_ring_size - 1 -> FrameState]
  <2>1. Merged(open, lost, wire, late) \in FrameState
    BY <1>3 DEF Merged, FrameState, Larger
  <2> QED
    BY <1>1, <1>4, <2>1
<1>8. ClosedWindow(closed) \in Seq(Sample) /\ ClosedBandwidth(closed) \in Filter
  BY <1>3, ClosedTypes DEF Inv
<1>9. /\ LawStep /\ radio_hold' \in BOOLEAN /\ (radio_hold' => radio_hold)
      /\ window' \in Seq(Sample) /\ bandwidth' \in Filter
  BY <1>5, <1>8, EvaluateStep
<1>10. /\ bitrate' \in Nat /\ recovery_target' \in Nat /\ st' \in {"steady", "recovering"}
       /\ last_decrease' \in Nat /\ lowered' \in Nat /\ target' \in Nat
       /\ InRange' /\ AimInRange' /\ ReboundAhead' /\ TargetFollows'
       /\ lowered' <= last_decrease' /\ last_decrease' <= now
       /\ Spaced /\ AimsLower
  BY <1>5, <1>6, <1>9, LawPreserves DEF switchVars
<1>11. TypeOK'
  BY <1>6, <1>7, <1>9, <1>10 DEF Inv, TypeOK, switchVars, trendVars
<1>12. HoldHasSwitch' /\ PastInstants' /\ FlatRunTimed'
  BY <1>6, <1>9, <1>10 DEF Inv, HoldHasSwitch, PastInstants, FlatRunTimed, switchVars, trendVars
<1> QED
  BY <1>10, <1>11, <1>12 DEF Inv

(* on_frame_bytes (bitrate_controller.cpp:344-374) preserves the invariant. *)
LEMMA SendStep ==
    ASSUME Inv, NEW bytes \in Nat, on_frame_bytes(bytes)
    PROVE  Inv' /\ Spaced /\ AimsLower
<1>1. UNCHANGED <<now, client_enabled, radio_aware, client_mode, fec_enabled_, radio_hold, bitrate, st,
                  recovery_target, last_decrease, lowered, target, last_radio_sample, radio_stable_since, flat_since>>
  BY DEF on_frame_bytes, switchVars, lawVars, trendVars
<1>2. sent' \in Nat
  BY DEF Inv, TypeOK, on_frame_bytes
<1>3. /\ frames' \in [0 .. frame_ring_size - 1 -> FrameState]
      /\ window' \in Seq(Sample) /\ bandwidth' \in Filter
  <2>1. CASE UNCHANGED <<ringVars, window, bandwidth>>
    BY <2>1 DEF Inv, TypeOK, ringVars
  <2>2. CASE LET i == sent' % frame_ring_size
             IN /\ frames' = [frames EXCEPT ![i] = [Frame(sent') EXCEPT !.bytes = bytes]]
                /\ window' = ClosedWindow(frames[i]) /\ bandwidth' = ClosedBandwidth(frames[i])
    <3> DEFINE i == sent' % frame_ring_size
    <3>1. i \in 0 .. frame_ring_size - 1
      BY <1>2, SlotType
    <3> HIDE DEF i
    <3>2. frames \in [0 .. frame_ring_size - 1 -> FrameState]
      BY DEF Inv, TypeOK
    <3>3. frames[i] \in FrameState
      BY <3>1, <3>2
    <3>4. [Frame(sent') EXCEPT !.bytes = bytes] \in FrameState
      BY <1>2 DEF Frame, FrameState
    <3>5. /\ frames' = [frames EXCEPT ![i] = [Frame(sent') EXCEPT !.bytes = bytes]]
          /\ window' = ClosedWindow(frames[i]) /\ bandwidth' = ClosedBandwidth(frames[i])
      BY <2>2 DEF i
    <3> QED
      BY <3>2, <3>3, <3>4, <3>5, ClosedTypes DEF Inv
  <2> QED
    BY <2>1, <2>2 DEF on_frame_bytes
<1>4. TypeOK'
  BY <1>1, <1>2, <1>3 DEF Inv, TypeOK
<1>5. InRange' /\ AimInRange' /\ ReboundAhead' /\ TargetFollows' /\ HoldHasSwitch' /\ PastInstants' /\ FlatRunTimed'
  BY <1>1 DEF Inv, InRange, AimInRange, ReboundAhead, TargetFollows, HoldHasSwitch, PastInstants, FlatRunTimed,
              Mode, min_bitrate
<1>6. Spaced /\ AimsLower
  BY <1>1 DEF Inv, TypeOK, Spaced, AimsLower
<1> QED
  BY <1>4, <1>5, <1>6 DEF Inv

(* So does the passage of time. *)
LEMMA TickStep ==
    ASSUME Inv, Tick
    PROVE  Inv' /\ Spaced /\ AimsLower
<1>1. /\ now' = now + 1
      /\ UNCHANGED <<client_enabled, radio_aware, client_mode, fec_enabled_, radio_hold, bitrate, st, sent,
                     recovery_target, last_decrease, lowered, target, last_radio_sample, radio_stable_since,
                     flat_since, frames, window, bandwidth>>
  BY DEF Tick, switchVars, lawVars, trendVars, ringVars, sampleVars
<1>2. TypeOK'
  BY <1>1 DEF Inv, TypeOK
<1>3. InRange' /\ AimInRange' /\ ReboundAhead' /\ TargetFollows' /\ HoldHasSwitch' /\ FlatRunTimed'
  BY <1>1 DEF Inv, InRange, AimInRange, ReboundAhead, TargetFollows, HoldHasSwitch, FlatRunTimed, Mode, min_bitrate
<1>4. PastInstants'
  BY <1>1 DEF Inv, TypeOK, PastInstants
<1>5. Spaced /\ AimsLower
  BY <1>1 DEF Inv, TypeOK, Spaced, AimsLower
<1> QED
  BY <1>2, <1>3, <1>4, <1>5 DEF Inv

(* The radio's preemptive step (bitrate_controller.cpp:560-588) is a step   *)
(* of the law: it is not taken during a rebound, and not too soon.          *)
LEMMA RadioLaw ==
    ASSUME Inv, RadioStep, StepAllowed, ~(Mode = "aimd" /\ st = "recovering"),
           UNCHANGED <<st, recovery_target>>
    PROVE  LawStep
<1>1. /\ st = "steady" /\ bitrate \in Nat /\ bitrate \in min_bitrate .. ceiling
      /\ recovery_target \in min_bitrate .. ceiling /\ bandwidth \in Filter
  BY ClampInRange DEF Inv, TypeOK, InRange, AimInRange, ReboundAhead
<1>2. /\ Percent(70, bitrate) \in Nat /\ Percent(75, Estimate(bandwidth)) \in Nat
  BY <1>1, EstimateType, PercentType
<1>3. RadioAim \in min_bitrate .. ceiling
  BY <1>1, <1>2, ClampInRange DEF RadioAim, Smaller
<1>4. bitrate' = RadioAim /\ last_decrease' = now
  BY DEF RadioStep
<1>5. now - last_decrease >= decrease_cooldown
  BY DEF StepAllowed
<1> QED
  BY <1>1, <1>3, <1>4, <1>5 DEF LawStep

(* on_wifi_state (bitrate_controller.cpp:471-602) preserves the invariant. *)
LEMMA WifiStep ==
    ASSUME Inv, NEW trend \in Trends, on_wifi_state(trend)
    PROVE  Inv' /\ Spaced /\ AimsLower
<1> DEFINE deaf == ~Usable \/ (Mode = "aimd" /\ st = "recovering")
<1>1. /\ client_enabled /\ radio_aware /\ last_radio_sample' = now /\ apply_bitrate
      /\ UNCHANGED <<now, switchVars, st, recovery_target, bandwidth, sent, ringVars>>
  BY DEF on_wifi_state
<1>2. \/ /\ deaf
         /\ radio_hold' = (radio_hold /\ ~RadioGap)
         /\ radio_stable_since' = IF RadioGap THEN Epoch ELSE radio_stable_since
         /\ UNCHANGED <<bitrate, last_decrease, sampleVars>>
      \/ ~deaf /\ Alarm(trend) /\ StepAllowed /\ RadioStep
      \/ ~deaf /\ HoldReview(trend)
  BY DEF on_wifi_state
<1>3. flat_since' = IF radio_hold' /\ Usable /\ trend.signal = "flat" /\ ~trend.starved
                    THEN IF flat_since = Epoch THEN now ELSE flat_since
                    ELSE Epoch
  BY DEF on_wifi_state
<1>4. /\ now \in Nat /\ now >= 1 /\ radio_stable_since \in Nat /\ flat_since \in Nat /\ radio_hold \in BOOLEAN
      /\ radio_stable_since <= now /\ radio_stable_hold \in Nat /\ radio_stable_hold >= 1
      /\ (st = "recovering" => ~radio_hold)
  BY TimeAssumption DEF Inv, TypeOK, PastInstants, ReboundAhead
<1>5. LawStep
  <2>1. CASE UNCHANGED <<bitrate, last_decrease>> /\ (radio_hold' => radio_hold)
    BY <1>1, <2>1, LawUnchanged
  <2>2. CASE ~deaf /\ StepAllowed /\ RadioStep
    BY <1>1, <2>2, RadioLaw
  <2> QED
    BY <1>2, <2>1, <2>2 DEF HoldReview
<1>6. /\ radio_hold' \in BOOLEAN /\ window' \in Seq(Sample)
      /\ radio_stable_since' \in Nat /\ radio_stable_since' <= now
  <2>1. window \in Seq(Sample) /\ <<>> \in Seq(Sample)
    BY DEF Inv, TypeOK
  <2>2. window' = window \/ window' = <<>>
    BY <1>2 DEF RadioStep, HoldReview, flush, sampleVars
  <2>3. radio_hold' \in BOOLEAN /\ radio_stable_since' \in {Epoch, now, radio_stable_since}
    BY <1>2 DEF RadioStep, HoldReview
  <2>4. radio_stable_since' \in Nat /\ radio_stable_since' <= now
    BY <1>4, <2>3 DEF Epoch
  <2>5. window' \in Seq(Sample)
    BY <2>1, <2>2
  <2> QED
    BY <2>3, <2>4, <2>5
<1>7. flat_since' \in Nat
  BY <1>3, <1>4 DEF Epoch
<1>8. FlatRunTimed'
  <2> SUFFICES ASSUME radio_hold', flat_since' # Epoch
               PROVE  /\ radio_stable_since' # Epoch /\ radio_stable_since' <= flat_since'
                      /\ now - flat_since' < radio_stable_hold
    BY <1>1 DEF FlatRunTimed
  <2>1. /\ Usable /\ trend.signal = "flat" /\ ~trend.starved
        /\ flat_since' = IF flat_since = Epoch THEN now ELSE flat_since
    BY <1>3
  <2>2. ~Alarm(trend)
    BY <2>1 DEF Alarm
  <2>3. HoldReview(trend) /\ radio_hold
    BY <1>2, <1>4, <2>1, <2>2 DEF HoldReview
  <2>4. ~FlatForLong
    BY <2>1, <2>3 DEF HoldReview
  <2>5. radio_stable_since' = IF radio_stable_since = Epoch THEN now ELSE radio_stable_since
    BY <2>1, <2>3, <2>4 DEF HoldReview
  <2>6. flat_since # Epoch => radio_stable_since # Epoch /\ radio_stable_since <= flat_since
    BY <2>3 DEF Inv, FlatRunTimed
  <2> QED
    BY <1>4, <2>1, <2>4, <2>5, <2>6 DEF FlatForLong, Epoch
<1>9. /\ bitrate' \in Nat /\ recovery_target' \in Nat /\ st' \in {"steady", "recovering"}
      /\ last_decrease' \in Nat /\ lowered' \in Nat /\ target' \in Nat
      /\ InRange' /\ AimInRange' /\ ReboundAhead' /\ TargetFollows'
      /\ lowered' <= last_decrease' /\ last_decrease' <= now
      /\ Spaced /\ AimsLower
  BY <1>1, <1>5, LawPreserves DEF switchVars
<1>10. TypeOK'
  BY <1>1, <1>6, <1>7, <1>9 DEF Inv, TypeOK, switchVars, ringVars
<1>11. HoldHasSwitch' /\ PastInstants'
  BY <1>1, <1>4, <1>6, <1>9 DEF HoldHasSwitch, PastInstants, switchVars
<1> QED
  BY <1>8, <1>9, <1>10, <1>11 DEF Inv

(* A settings packet (session.cpp:664-693) preserves the invariant. *)
LEMMA SettingsStep ==
    ASSUME Inv, NEW s \in Settings, on_settings(s)
    PROVE  Inv' /\ Spaced /\ AimsLower
<1>1. /\ s.bitrate_auto \in BOOLEAN /\ s.radio_aware \in BOOLEAN /\ s.fec \in BOOLEAN
      /\ s.bitrate_control \in Modes \cup {"none"}
  BY RateAssumption
<1>2. /\ client_enabled' = s.bitrate_auto /\ radio_aware' = s.radio_aware /\ client_mode' = s.bitrate_control
      /\ fec_enabled_' = s.fec /\ radio_hold' = (radio_hold /\ ~Releases(s)) /\ UNCHANGED <<now, sent>>
      /\ target' = IF Reapplies(s) THEN Share(bitrate', s.fec) ELSE target
  BY DEF on_settings
<1>3. /\ last_radio_sample' = (IF RadioSwitched(s) THEN Epoch ELSE last_radio_sample)
      /\ flat_since' = (IF Releases(s) THEN Epoch ELSE flat_since)
      /\ radio_stable_since' = (IF Releases(s) THEN Epoch ELSE radio_stable_since)
  BY DEF on_settings
<1>4. Inv /\ TypeOK /\ ceiling \in Nat /\ min_bitrate \in Nat /\ min_bitrate <= ceiling
  BY ClampInRange DEF Inv
<1>5. radio_hold' \in BOOLEAN /\ last_radio_sample' \in Nat /\ flat_since' \in Nat /\ radio_stable_since' \in Nat
  BY <1>2, <1>3, <1>4 DEF TypeOK, Epoch
<1>6. \/ /\ Restarts(s) /\ bitrate' = ceiling /\ recovery_target' = ceiling /\ st' = "steady"
         /\ frames' = [i \in 0 .. frame_ring_size - 1 |-> NoFrame] /\ window' = <<>>
         /\ bandwidth' = NoBandwidth /\ lowered' = Epoch /\ last_decrease' = last_decrease
      \/ /\ ~Restarts(s)
         /\ UNCHANGED <<bitrate, recovery_target, st, frames, window, bandwidth, lowered, last_decrease>>
  BY DEF on_settings, reset_locked, lawVars, ringVars, sampleVars
<1>7. /\ bitrate' \in Nat /\ recovery_target' \in Nat /\ st' \in {"steady", "recovering"}
      /\ frames' \in [0 .. frame_ring_size - 1 -> FrameState] /\ window' \in Seq(Sample)
      /\ bandwidth' \in Filter /\ lowered' \in Nat /\ last_decrease' \in Nat
  <2>1. [i \in 0 .. frame_ring_size - 1 |-> NoFrame] \in [0 .. frame_ring_size - 1 -> FrameState]
    BY FrameType
  <2>2. frames' \in [0 .. frame_ring_size - 1 -> FrameState]
    BY <1>4, <1>6, <2>1 DEF TypeOK
  <2>3. window' \in Seq(Sample)
    <3>1. window' = <<>> \/ window' = window
      BY <1>6
    <3>2. window \in Seq(Sample) /\ <<>> \in Seq(Sample)
      BY <1>4 DEF TypeOK
    <3> QED
      BY <3>1, <3>2
  <2>4. bandwidth' \in Filter
    BY <1>4, <1>6, NoBandwidthType DEF TypeOK
  <2>5. /\ bitrate' \in Nat /\ recovery_target' \in Nat /\ st' \in {"steady", "recovering"}
        /\ lowered' \in Nat /\ last_decrease' \in Nat
    BY <1>4, <1>6 DEF TypeOK, Epoch
  <2> QED
    BY <2>2, <2>3, <2>4, <2>5
<1>8. target' \in Nat
  BY <1>2, <1>4, <1>7, ShareType DEF TypeOK
<1>9. TypeOK'
  BY <1>1, <1>2, <1>4, <1>5, <1>7, <1>8 DEF TypeOK
<1>10. InRange' /\ AimInRange'
  BY <1>4, <1>6 DEF Inv, InRange, AimInRange, min_bitrate
<1>11. TargetFollows'
  BY <1>2, <1>4, <1>6 DEF Inv, TargetFollows, Reapplies
<1>12. ReboundAhead'
  BY <1>2, <1>6 DEF Inv, ReboundAhead, Restarts
<1>13. HoldHasSwitch'
  BY <1>2 DEF Inv, HoldHasSwitch, Releases, Restarts, RadioSwitched
<1>14. PastInstants'
  BY <1>2, <1>3, <1>4, <1>6 DEF Inv, TypeOK, PastInstants, Epoch
<1>15. FlatRunTimed'
  BY <1>2, <1>3 DEF Inv, FlatRunTimed, Releases
<1>16. Spaced /\ AimsLower
  BY <1>4, <1>6 DEF Inv, TypeOK, InRange, Spaced, AimsLower
<1> QED
  BY <1>9, <1>10, <1>11, <1>12, <1>13, <1>14, <1>15, <1>16 DEF Inv

(* Every step preserves the invariant and is spaced and aimed as stated. *)
LEMMA NextStep ==
    ASSUME Inv, [Next]_vars
    PROVE  Inv' /\ Spaced /\ AimsLower
<1>1. ASSUME NEW f \in 1 .. sent, Lose(f)  PROVE Inv' /\ Spaced /\ AimsLower
  BY <1>1, FeedbackStep DEF Lose
<1>2. ASSUME NEW f \in 1 .. sent, Deliver(f)  PROVE Inv' /\ Spaced /\ AimsLower
  <2>1. PICK wire \in Wires, late \in Lates : on_feedback(f, FALSE, wire, late)
    BY <1>2 DEF Deliver
  <2>2. wire \in Nat /\ late \in BOOLEAN
    BY RateAssumption
  <2> QED
    BY <2>1, <2>2, FeedbackStep
<1>3. ASSUME Send  PROVE Inv' /\ Spaced /\ AimsLower
  <2>1. PICK load \in Loads : on_frame_bytes(Percent(load, bitrate))
    BY <1>3 DEF Send
  <2>2. Percent(load, bitrate) \in Nat
    BY RateAssumption, PercentType DEF Inv, TypeOK
  <2> QED
    BY <2>1, <2>2, SendStep
<1>4. ASSUME Report  PROVE Inv' /\ Spaced /\ AimsLower
  BY <1>4, WifiStep DEF Report
<1>5. ASSUME Set  PROVE Inv' /\ Spaced /\ AimsLower
  BY <1>5, SettingsStep DEF Set
<1>6. ASSUME Tick  PROVE Inv' /\ Spaced /\ AimsLower
  BY <1>6, TickStep
<1>7. ASSUME UNCHANGED vars  PROVE Inv' /\ Spaced /\ AimsLower
  <2>1. UNCHANGED <<now, client_enabled, radio_aware, client_mode, fec_enabled_, radio_hold, bitrate, st, sent,
                    recovery_target, last_decrease, lowered, target, last_radio_sample, radio_stable_since,
                    flat_since, frames, window, bandwidth>>
    BY <1>7 DEF vars, switchVars, lawVars, trendVars, ringVars, sampleVars
  <2>2. Inv'
    BY <2>1 DEF Inv, TypeOK, InRange, AimInRange, ReboundAhead, TargetFollows, HoldHasSwitch, PastInstants,
                FlatRunTimed, Mode, min_bitrate
  <2> QED
    BY <2>1, <2>2 DEF Inv, TypeOK, Spaced, AimsLower
<1> QED
  BY <1>1, <1>2, <1>3, <1>4, <1>5, <1>6, <1>7 DEF Next

(* configure establishes the invariant. *)
LEMMA InitInv == Init => Inv
<1> SUFFICES ASSUME Init  PROVE Inv
  OBVIOUS
<1>1. PICK s \in Connects :
         /\ client_enabled = s.bitrate_auto /\ radio_aware = s.radio_aware /\ client_mode = s.bitrate_control
         /\ fec_enabled_ = s.fec /\ target = Share(ceiling, s.fec)
  BY DEF Init
<1>2. /\ s.bitrate_auto \in BOOLEAN /\ s.radio_aware \in BOOLEAN /\ s.fec \in BOOLEAN
      /\ s.bitrate_control \in Modes \cup {"none"}
  BY RateAssumption
<1>3. ceiling \in Nat /\ min_bitrate \in Nat /\ min_bitrate <= ceiling /\ Share(ceiling, s.fec) \in Nat
  BY ClampInRange, ShareType
<1>4. Uptime \in Nat /\ Uptime >= 1
  BY TimeAssumption
<1>5. /\ now = Uptime /\ bitrate = ceiling /\ recovery_target = ceiling /\ st = "steady" /\ last_decrease = Epoch
      /\ radio_hold = FALSE /\ radio_stable_since = Epoch /\ last_radio_sample = Epoch
      /\ sent = 0 /\ lowered = Epoch /\ flat_since = Epoch
  BY DEF Init
<1>6. frames \in [0 .. frame_ring_size - 1 -> FrameState]
  BY FrameType DEF Init
<1>7. window \in Seq(Sample) /\ bandwidth \in Filter
  BY NoBandwidthType DEF Init
<1>8. TypeOK
  BY <1>1, <1>2, <1>3, <1>4, <1>5, <1>6, <1>7 DEF TypeOK, Epoch
<1>9. InRange /\ AimInRange /\ ReboundAhead /\ HoldHasSwitch /\ PastInstants /\ FlatRunTimed /\ TargetFollows
  BY <1>1, <1>3, <1>4, <1>5 DEF InRange, AimInRange, ReboundAhead, HoldHasSwitch, PastInstants, FlatRunTimed,
                               TargetFollows, Epoch
<1> QED
  BY <1>8, <1>9 DEF Inv

-----------------------------------------------------------------------------
(* The maximum filter's three samples. *)

(* In order, of value and of age, none from the future, and the record not  *)
(* older than the window when the last sample came.                         *)
InOrder(e, t) ==
    e.samples > 0 =>
        /\ e.s[1].value >= e.s[2].value /\ e.s[2].value >= e.s[3].value
        /\ e.s[1].when <= e.s[2].when /\ e.s[2].when <= e.s[3].when
        /\ e.s[3].when <= e.last /\ e.last - e.s[1].when <= estimator_window
        /\ e.last <= t

(* update (bitrate_controller.h:424-456): whichever sample is renewed or    *)
(* promoted, the three stay in order and the record inside the window.      *)
LEMMA UpdateOrder ==
    ASSUME NEW e \in Filter, NEW x \in Mark, InOrder(e, x.when)
    PROVE  /\ update(e, x)[1].value >= update(e, x)[2].value
           /\ update(e, x)[2].value >= update(e, x)[3].value
           /\ update(e, x)[1].when <= update(e, x)[2].when
           /\ update(e, x)[2].when <= update(e, x)[3].when
           /\ update(e, x)[3].when <= x.when
           /\ x.when - update(e, x)[1].when <= estimator_window
<1> DEFINE Fine(s) == /\ s[1].value >= s[2].value /\ s[2].value >= s[3].value
                      /\ s[1].when <= s[2].when /\ s[2].when <= s[3].when
                      /\ s[3].when <= x.when
           Fresh(s) == x.when - s[1].when <= estimator_window
<1>1. /\ x.when \in Nat /\ x.value \in Nat /\ estimator_window \in Nat
      /\ e.samples \in Nat /\ e.last \in Nat /\ e.s \in [1 .. 3 -> Mark]
  BY TimeAssumption DEF Mark, Filter
<1>2. ASSUME NEW s \in [1 .. 3 -> Mark], NEW i \in 1 .. 3  PROVE s[i].when \in Nat /\ s[i].value \in Nat
  BY DEF Mark
<1>3. Fine(Renewed(x)) /\ Fresh(Renewed(x))
  <2>1. Renewed(x)[1] = x /\ Renewed(x)[2] = x /\ Renewed(x)[3] = x
    BY DEF Renewed
  <2> QED
    BY <1>1, <2>1
<1>4. ASSUME e.samples # 0, x.value < e.s[1].value, x.when - e.s[3].when <= estimator_window
      PROVE  Fine(Aged(Inserted(e.s, x), x)) /\ Fresh(Aged(Inserted(e.s, x), x))
  <2> DEFINE s == Inserted(e.s, x)
  <2>1. Fine(e.s) /\ e.s[1].when \in Nat /\ e.s[2].when \in Nat /\ e.s[3].when \in Nat
        /\ e.s[1].value \in Nat /\ e.s[2].value \in Nat /\ e.s[3].value \in Nat
    BY <1>1, <1>2, <1>4 DEF InOrder
  <2>2. /\ s \in [1 .. 3 -> Mark] /\ Fine(s)
        /\ x.value <= s[3].value /\ x.when - s[3].when <= estimator_window
    <3>1. CASE x.value >= e.s[2].value
      <4>1. s = [e.s EXCEPT ![2] = x, ![3] = x]
        BY <1>1, <2>1, <3>1 DEF Inserted
      <4>2. s[1] = e.s[1] /\ s[2] = x /\ s[3] = x /\ s \in [1 .. 3 -> Mark]
        BY <1>1, <4>1
      <4> HIDE DEF s
      <4> QED
        BY <1>1, <1>4, <2>1, <4>2
    <3>2. CASE x.value < e.s[2].value /\ x.value >= e.s[3].value
      <4>1. s = [e.s EXCEPT ![3] = x]
        BY <1>1, <2>1, <3>2 DEF Inserted
      <4>2. s[1] = e.s[1] /\ s[2] = e.s[2] /\ s[3] = x /\ s \in [1 .. 3 -> Mark]
        BY <1>1, <4>1
      <4> HIDE DEF s
      <4> QED
        BY <1>1, <1>4, <2>1, <3>2, <4>2
    <3>3. CASE x.value < e.s[2].value /\ x.value < e.s[3].value
      <4>1. s = e.s
        BY <1>1, <2>1, <3>3 DEF Inserted
      <4> HIDE DEF s
      <4> QED
        BY <1>1, <1>4, <2>1, <3>3, <4>1
    <3> QED
      BY <1>1, <2>1, <3>1, <3>2, <3>3
  <2> HIDE DEF s
  <2>3. /\ s[1].when \in Nat /\ s[2].when \in Nat /\ s[3].when \in Nat
        /\ s[1].value \in Nat /\ s[2].value \in Nat /\ s[3].value \in Nat
    BY <1>2, <2>2
  <2>4. \/ Aged(s, x) = <<s[3], x, x>>
        \/ Aged(s, x) = <<s[2], s[3], x>> /\ ~ (x.when - s[2].when > estimator_window)
        \/ Aged(s, x) = <<s[1], x, x>> /\ ~ (x.when - s[1].when > estimator_window)
        \/ Aged(s, x) = <<s[1], s[2], x>> /\ ~ (x.when - s[1].when > estimator_window)
        \/ Aged(s, x) = s /\ ~ (x.when - s[1].when > estimator_window)
    BY DEF Aged
  <2> DEFINE r == Aged(s, x)
             Is(a, b, c) == r[1] = a /\ r[2] = b /\ r[3] = c
             recent(m) == x.when - m.when <= estimator_window
  <2>5. \/ Is(s[3], x, x)
        \/ Is(s[2], s[3], x) /\ recent(s[2])
        \/ Is(s[1], x, x) /\ recent(s[1])
        \/ Is(s[1], s[2], x) /\ recent(s[1])
        \/ Is(s[1], s[2], s[3]) /\ recent(s[1])
    <3>1. \A i \in 1 .. 3 : s[i].when \in Nat
      BY <1>2, <2>2
    <3> QED
      BY <1>1, <2>3, <2>4
  <2> HIDE DEF r
  <2>6. ASSUME Is(s[3], x, x)  PROVE Fine(r) /\ Fresh(r)
    BY <1>1, <2>2, <2>3, <2>6
  <2>7. ASSUME Is(s[2], s[3], x), recent(s[2])  PROVE Fine(r) /\ Fresh(r)
    BY <1>1, <2>2, <2>3, <2>7
  <2>8. ASSUME Is(s[1], x, x), recent(s[1])  PROVE Fine(r) /\ Fresh(r)
    BY <1>1, <2>2, <2>3, <2>8
  <2>9. ASSUME Is(s[1], s[2], x), recent(s[1])  PROVE Fine(r) /\ Fresh(r)
    BY <1>1, <2>2, <2>3, <2>9
  <2>10. ASSUME Is(s[1], s[2], s[3]), recent(s[1])  PROVE Fine(r) /\ Fresh(r)
    BY <1>1, <2>2, <2>3, <2>10
  <2> QED
    BY <2>5, <2>6, <2>7, <2>8, <2>9, <2>10 DEF r, s
<1> HIDE DEF Fine, Fresh
<1>5. Fine(update(e, x)) /\ Fresh(update(e, x))
  <2>1. CASE e.samples = 0 \/ x.value >= e.s[1].value \/ x.when - e.s[3].when > estimator_window
    BY <1>3, <2>1 DEF update
  <2>2. CASE ~ (e.samples = 0 \/ x.value >= e.s[1].value \/ x.when - e.s[3].when > estimator_window)
    <3>1. e.s[1].value \in Nat /\ e.s[3].when \in Nat
      BY <1>1, <1>2
    <3>2. e.samples # 0 /\ x.value < e.s[1].value /\ x.when - e.s[3].when <= estimator_window
      BY <1>1, <2>2, <3>1
    <3> QED
      BY <1>4, <2>2, <3>2 DEF update
  <2> QED
    BY <2>1, <2>2
<1> QED
  BY <1>5 DEF Fine, Fresh

(* A sample taken now, v2's own seed, and an empty filter.                  *)
LEMMA SampledOrder ==
    ASSUME TypeOK, NEW e \in Filter, InOrder(e, now), NEW rate \in Nat
    PROVE  InOrder(Sampled(e, rate), now) /\ InOrder(Seeded, now) /\ InOrder(NoBandwidth, now)
<1>1. now \in Nat /\ bitrate \in Nat /\ estimator_window \in Nat
  BY TimeAssumption DEF TypeOK
<1> DEFINE x == [when |-> now, value |-> rate]
<1>2. x \in Mark /\ x.when = now
  BY <1>1 DEF Mark
<1>3. InOrder(Sampled(e, rate), now)
  <2>1. Sampled(e, rate).s = update(e, x) /\ Sampled(e, rate).last = now
    BY DEF Sampled
  <2> HIDE DEF x
  <2>2. /\ update(e, x)[1].value >= update(e, x)[2].value
        /\ update(e, x)[2].value >= update(e, x)[3].value
        /\ update(e, x)[1].when <= update(e, x)[2].when
        /\ update(e, x)[2].when <= update(e, x)[3].when
        /\ update(e, x)[3].when <= now
        /\ now - update(e, x)[1].when <= estimator_window
    BY <1>2, UpdateOrder
  <2> QED
    BY <1>1, <2>1, <2>2 DEF InOrder
<1>4. InOrder(Seeded, now)
  BY <1>1 DEF InOrder, Seeded, Renewed
<1>5. InOrder(NoBandwidth, now)
  BY DEF InOrder, NoBandwidth
<1> QED
  BY <1>3, <1>4, <1>5

(* cap (bitrate_controller.h:458-467) lowers what is above it, and leaves   *)
(* the order.                                                               *)
LEMMA CapOrder ==
    ASSUME NEW e \in Filter, NEW v \in Nat, NEW t, InOrder(e, t)
    PROVE  InOrder(cap(e, v), t)
<1>1. /\ e.s \in [1 .. 3 -> Mark] /\ cap(e, v).samples = e.samples /\ cap(e, v).last = e.last
      /\ \A i \in 1 .. 3 : cap(e, v).s[i] = [e.s[i] EXCEPT !.value = Smaller(@, v)]
  BY DEF cap, Filter
<1>2. ASSUME NEW i \in 1 .. 3
      PROVE  /\ e.s[i].value \in Nat
             /\ cap(e, v).s[i].when = e.s[i].when
             /\ cap(e, v).s[i].value = Smaller(e.s[i].value, v)
  <2>1. e.s[i] \in Mark
    BY <1>1
  <2> QED
    BY <1>1, <2>1 DEF Mark
<1>3. ASSUME NEW a \in Nat, NEW b \in Nat, a >= b  PROVE Smaller(a, v) >= Smaller(b, v)
  BY <1>3 DEF Smaller
<1>4. 1 \in 1 .. 3 /\ 2 \in 1 .. 3 /\ 3 \in 1 .. 3
  OBVIOUS
<1> QED
  BY <1>1, <1>2, <1>3, <1>4 DEF InOrder

(* close_frame's sample.                                                    *)
LEMMA ClosedOrder ==
    ASSUME TypeOK, NEW fr \in FrameState, InOrder(bandwidth, now)
    PROVE  InOrder(ClosedBandwidth(fr), now)
<1>1. Rate(fr) \in Nat
  <2>1. fr.bytes \in Nat /\ fr.wire \in Nat /\ frame_period \in Nat
    BY RateAssumption DEF FrameState
  <2>2. fr.bytes * frame_period \in Nat
    BY <2>1
  <2> QED
    BY <2>1, <2>2, QuotientType DEF Rate
<1>2. bandwidth \in Filter
  BY DEF TypeOK
<1> QED
  BY <1>1, <1>2, SampledOrder DEF ClosedBandwidth

(* What an evaluation leaves of the filter: v1 nothing of its own, v2 the   *)
(* same, an empty one, its seed, or one it capped.                          *)
LEMMA EvaluateOrder ==
    ASSUME Inv, NEW w \in Seq(Sample), NEW e \in Filter, InOrder(e, now), evaluate(w, e)
    PROVE  InOrder(bandwidth', now)
<1> DEFINE fresh == Refreshed(e)
           base == IF fresh.samples < estimator_min_samples THEN Seeded ELSE fresh
           s == analyse(Recent(w))
<1>1. TypeOK /\ 0 \in Nat
  BY DEF Inv
<1>2. InOrder(fresh, now) /\ fresh \in Filter
  BY <1>1, SampledOrder, NoBandwidthType DEF Refreshed
<1>3. InOrder(base, now) /\ base \in Filter
  BY <1>1, <1>2, SampledOrder, SampledType
<1>4. s.rate \in Nat
  BY AnalyseRate, RecentType
<1> HIDE DEF fresh, base, s
<1>5. (IF s.rate > 0 THEN s.rate ELSE Percent(70, Estimate(base))) \in Nat
  BY <1>3, <1>4, EstimateType, PercentType
<1>6. \/ bandwidth' \in {e, fresh, base}
      \/ bandwidth' = cap(base, IF s.rate > 0 THEN s.rate ELSE Percent(70, Estimate(base)))
  BY DEF evaluate, evaluate_bbr, Backoff, Track, fresh, base, s
<1> QED
  BY <1>2, <1>3, <1>5, <1>6, CapOrder

(* Every action keeps the filter in order.                                  *)
LEMMA FilterStep ==
    ASSUME Inv, InOrder(bandwidth, now), [Next]_vars
    PROVE  InOrder(bandwidth', now')
<1>1. TypeOK /\ now \in Nat /\ bandwidth.last \in Nat /\ sent \in Nat
      /\ frames \in [0 .. frame_ring_size - 1 -> FrameState]
  BY DEF Inv, TypeOK, Filter
<1>2. ASSUME NEW f \in 1 .. sent, NEW lost, NEW wire, NEW late, on_feedback(f, lost, wire, late)
      PROVE  InOrder(bandwidth', now')
  <2> DEFINE i == f % frame_ring_size
             closed == IF frames[i].index # f THEN frames[i] ELSE NoFrame
             w == ClosedWindow(closed)
             e == ClosedBandwidth(closed)
  <2>1. f \in Nat /\ i \in 0 .. frame_ring_size - 1
    BY <1>1, CountAssumption
  <2>2. closed \in FrameState
    BY <1>1, <2>1, FrameType
  <2>3. evaluate(w, e) /\ now' = now
    BY <1>2 DEF on_feedback
  <2> HIDE DEF closed
  <2>4. w \in Seq(Sample) /\ e \in Filter /\ InOrder(e, now)
    BY <1>1, <2>2, ClosedTypes, ClosedOrder
  <2> HIDE DEF w, e
  <2> QED
    BY <2>3, <2>4, EvaluateOrder
<1>3. ASSUME NEW bytes \in Nat, on_frame_bytes(bytes)  PROVE InOrder(bandwidth', now')
  <2>1. now' = now /\ sent' \in Nat
    BY <1>1, <1>3 DEF on_frame_bytes
  <2>2. sent' % frame_ring_size \in 0 .. frame_ring_size - 1
    BY <2>1, SlotType
  <2>3. \/ bandwidth' = bandwidth
        \/ \E i \in 0 .. frame_ring_size - 1 : bandwidth' = ClosedBandwidth(frames[i])
    BY <1>3, <2>2 DEF on_frame_bytes
  <2> QED
    BY <1>1, <2>1, <2>3, ClosedOrder
<1>4. CASE bandwidth' = NoBandwidth
  BY <1>4 DEF InOrder, NoBandwidth
<1>5. CASE bandwidth' = bandwidth /\ now' \in {now, now + 1}
  BY <1>1, <1>5 DEF InOrder
<1>6. CASE Send
  <2>1. PICK load \in Loads : on_frame_bytes(Percent(load, bitrate))
    BY <1>6 DEF Send
  <2>2. Percent(load, bitrate) \in Nat
    BY <1>1, RateAssumption, PercentType DEF TypeOK
  <2> QED
    BY <1>3, <2>1, <2>2
<1>7. ASSUME NEW f \in 1 .. sent, Lose(f) \/ Deliver(f)  PROVE InOrder(bandwidth', now')
  BY <1>2, <1>7 DEF Lose, Deliver
<1>8. Report \/ Set \/ Tick \/ UNCHANGED vars
        => bandwidth' = NoBandwidth \/ (bandwidth' = bandwidth /\ now' \in {now, now + 1})
  BY DEF Report, Set, Tick, on_wifi_state, on_settings, reset_locked, vars
<1> QED
  BY <1>4, <1>5, <1>6, <1>7, <1>8 DEF Next

-----------------------------------------------------------------------------
(* v2's window and the ring of the frames that were sent. *)

(* While v2 is in force the ring follows what is sent, and the gate of      *)
(* close_frame lets only frames through that left after the last change of  *)
(* the bitrate, or before the controller started over.                      *)
RingInv ==
    /\ newest_frame \in Nat /\ has_frames \in BOOLEAN /\ stale_before \in Nat
    /\ old_frames \in Nat /\ restarted \in Nat
    /\ old_frames <= sent /\ restarted <= sent /\ (has_frames => newest_frame <= sent)
    /\ Mode = "bbr" => stale_before > old_frames \/ old_frames <= restarted
    /\ Mode = "bbr" /\ client_enabled /\ sent > restarted => has_frames /\ newest_frame = sent

CurrentSamples(w) ==
    \A i \in 1 .. Len(w) : w[i].frame <= restarted \/ w[i].frame > old_frames

(* An evaluation that changes the bitrate flushes the window.               *)
LEMMA EvaluateFlushes ==
    ASSUME NEW w, NEW e, evaluate(w, e)
    PROVE  \/ flush
           \/ window' \in {w, Recent(w)} /\ UNCHANGED <<bitrate, stale_before>>
<1> DEFINE Goal == \/ flush
                   \/ window' \in {w, Recent(w)} /\ UNCHANGED <<bitrate, stale_before>>
<1>1. ASSUME NEW s, NEW hold, evaluate_aimd(s, Recent(w), hold)  PROVE Goal
  BY <1>1 DEF evaluate_aimd, Settled, lawVars
<1>2. ASSUME NEW s, NEW hold, evaluate_bbr(s, Recent(w), e, hold)  PROVE Goal
  <2>1. ASSUME NEW f, NEW b, Track(Recent(w), f, hold)  PROVE Goal
    BY <2>1 DEF Track, Settled
  <2>2. ASSUME NEW b, Backoff(s, b)  PROVE Goal
    BY <2>2 DEF Backoff
  <2>3. ASSUME Fallback(s, Recent(w), hold)  PROVE Goal
    BY <2>3 DEF Fallback, Settled
  <2> HIDE DEF Goal
  <2>4. \/ Fallback(s, Recent(w), hold) \/ (\E b : Backoff(s, b)) \/ (\E f : Track(Recent(w), f, hold))
        \/ \E since : Settled(Recent(w), since) /\ UNCHANGED bitrate
    BY <1>2 DEF evaluate_bbr
  <2>5. ASSUME NEW since, Settled(Recent(w), since), UNCHANGED bitrate  PROVE Goal
    BY <2>5 DEF Goal, Settled
  <2> QED
    BY <2>1, <2>2, <2>3, <2>4, <2>5
<1> HIDE DEF Goal
<1>3. \/ window' = w /\ UNCHANGED <<stale_before, lawVars>>
      \/ \E since : Settled(Recent(w), since) /\ UNCHANGED lawVars
      \/ \E s, hold : evaluate_aimd(s, Recent(w), hold)
      \/ \E s, hold : evaluate_bbr(s, Recent(w), e, hold)
  BY DEF evaluate
<1>4. ASSUME window' = w, UNCHANGED <<stale_before, lawVars>>  PROVE Goal
  BY <1>4 DEF Goal, lawVars
<1>5. ASSUME NEW since, Settled(Recent(w), since), UNCHANGED lawVars  PROVE Goal
  BY <1>5 DEF Goal, lawVars, Settled
<1> QED
  BY <1>1, <1>2, <1>3, <1>4, <1>5 DEF Goal

(* What is left of a window of current samples is one.                      *)
LEMMA RecentCurrent ==
    ASSUME NEW w \in Seq(Sample), CurrentSamples(w)
    PROVE  CurrentSamples(Recent(w))
<1> DEFINE old == {i \in 1 .. Len(w) : now - w[i].when > window_duration}
           first == Cardinality(old) + 1
<1>1. first \in Nat /\ first >= 1
  <2>1. IsFiniteSet(1 .. Len(w))
    BY FS_Interval
  <2>2. old \in SUBSET (1 .. Len(w))
    OBVIOUS
  <2> HIDE DEF old
  <2>3. Cardinality(old) \in Nat
    BY <2>1, <2>2, FS_Subset, FS_CardinalityType
  <2> QED
    BY <2>3
<1>2. Recent(w) = SubSeq(w, first, Len(w))
  BY DEF Recent
<1> HIDE DEF first
<1>3. ASSUME NEW i \in 1 .. Len(Recent(w))
      PROVE  first + i - 1 \in 1 .. Len(w) /\ Recent(w)[i] = w[first + i - 1]
  BY <1>1, <1>2
<1> QED
  BY <1>3 DEF CurrentSamples

(* What close_frame adds is current.                                        *)
LEMMA ClosedCurrent ==
    ASSUME TypeOK, RingInv, CurrentSamples(window), Mode = "bbr", NEW fr \in FrameState
    PROVE  CurrentSamples(ClosedWindow(fr))
<1>1. /\ window \in Seq(Sample) /\ fr.index \in Nat /\ old_frames \in Nat /\ restarted \in Nat
      /\ stale_before \in Nat
  BY DEF TypeOK, FrameState, RingInv
<1>2. CASE ClosedWindow(fr) = window
  BY <1>2
<1>3. ASSUME NEW x, ClosedWindow(fr) = Append(window, x), x.frame = fr.index, fr.index >= stale_before
      PROVE  CurrentSamples(ClosedWindow(fr))
  <2>1. x.frame <= restarted \/ x.frame > old_frames
    BY <1>1, <1>3 DEF RingInv
  <2>2. /\ Len(Append(window, x)) = Len(window) + 1 /\ Append(window, x)[Len(window) + 1] = x
        /\ \A i \in 1 .. Len(window) : Append(window, x)[i] = window[i]
        /\ Len(window) \in Nat
    BY <1>1
  <2>3. \A i \in 1 .. Len(window) + 1 : i \in 1 .. Len(window) \/ i = Len(window) + 1
    BY <2>2
  <2> QED
    BY <1>3, <2>1, <2>2, <2>3 DEF CurrentSamples
<1> DEFINE x == [when |-> now, lost |-> fr.lost, late |-> fr.late, frame |-> fr.index,
                 wire |-> IF fr.lost THEN 0 ELSE fr.wire, rate |-> IF fr.lost THEN 0 ELSE Rate(fr)]
<1>4. \/ ClosedWindow(fr) = window
      \/ ClosedWindow(fr) = Append(window, x) /\ fr.index >= stale_before
  BY DEF ClosedWindow
<1>5. x.frame = fr.index
  OBVIOUS
<1> HIDE DEF x
<1> QED
  BY <1>2, <1>3, <1>4, <1>5

(* A step of the law, with the ring as the handler left it: the window is   *)
(* flushed with the change of the bitrate, or keeps current samples.        *)
LEMMA LawCurrent ==
    ASSUME Inv, RingInv, NEW w,
           Mode = "bbr" => CurrentSamples(w),
           \/ flush
           \/ window' = w /\ UNCHANGED <<bitrate, stale_before>>,
           old_frames' = IF Mode = "bbr" /\ bitrate' # bitrate THEN sent ELSE old_frames,
           UNCHANGED <<client_mode, client_enabled, sent, restarted>>,
           newest_frame' \in Nat, has_frames' \in BOOLEAN, has_frames' => newest_frame' <= sent,
           Mode = "bbr" /\ client_enabled /\ sent > restarted => has_frames' /\ newest_frame' = sent,
           client_enabled
    PROVE  RingInv' /\ WindowIsCurrent'
<1>1. Mode' = Mode /\ sent \in Nat /\ sent' = sent /\ restarted' = restarted /\ client_enabled' = client_enabled
  BY DEF Mode, Inv, TypeOK
<1>2. /\ newest_frame \in Nat /\ has_frames \in BOOLEAN /\ stale_before \in Nat
      /\ old_frames \in Nat /\ restarted \in Nat
      /\ old_frames <= sent /\ restarted <= sent
      /\ old_frames' \in Nat /\ old_frames' <= sent
  BY <1>1 DEF RingInv
<1>3. CASE flush
  <2>1. stale_before' = (IF has_frames' THEN newest_frame' + 1 ELSE stale_before) /\ window' = <<>>
    BY <1>3 DEF flush
  <2>2. stale_before' \in Nat /\ (has_frames' => stale_before' = newest_frame' + 1)
    <3>1. has_frames' = TRUE \/ has_frames' = FALSE
      OBVIOUS
    <3>2. CASE has_frames' = TRUE
      <4>1. stale_before' = newest_frame' + 1
        BY <2>1, <3>2, Zenon
      <4>2. stale_before' \in Nat
        <5>1. newest_frame' \in Nat
          OBVIOUS
        <5>2. \A n \in Nat : n + 1 \in Nat
          OBVIOUS
        <5> QED
          BY <4>1, <5>1, <5>2, Zenon
      <4> QED
        BY <4>1, <4>2, Zenon
    <3>3. CASE has_frames' = FALSE
      BY <1>2, <2>1, <3>3
    <3> QED
      BY <3>1, <3>2, <3>3
  <2>3. ASSUME Mode = "bbr"  PROVE stale_before' > old_frames' \/ old_frames' <= restarted
    <3>1. CASE sent <= restarted
      BY <1>1, <1>2, <3>1
    <3>2. CASE sent > restarted
      BY <1>1, <1>2, <2>2, <2>3, <3>2
    <3> QED
      BY <1>1, <1>2, <3>1, <3>2
  <2>4. RingInv'
    BY <1>1, <1>2, <2>2, <2>3 DEF RingInv
  <2> QED
    BY <2>1, <2>4 DEF WindowIsCurrent
<1>4. CASE window' = w /\ UNCHANGED <<bitrate, stale_before>>
  BY <1>1, <1>2, <1>4 DEF RingInv, WindowIsCurrent, CurrentSamples
<1> QED
  BY <1>3, <1>4

(* on_feedback (bitrate_controller.cpp:604-656).                            *)
LEMMA FeedbackCurrent ==
    ASSUME Inv, RingInv, WindowIsCurrent, NEW f \in 1 .. sent,
           NEW lost \in BOOLEAN, NEW wire \in Nat, NEW late \in BOOLEAN,
           on_feedback(f, lost, wire, late)
    PROVE  RingInv' /\ WindowIsCurrent'
<1> DEFINE i == f % frame_ring_size
           closed == IF frames[i].index # f THEN frames[i] ELSE NoFrame
           w == ClosedWindow(closed)
           e == ClosedBandwidth(closed)
<1>1. /\ TypeOK /\ f \in Nat /\ i \in 0 .. frame_ring_size - 1 /\ sent \in Nat /\ f <= sent
      /\ frames \in [0 .. frame_ring_size - 1 -> FrameState]
  BY CountAssumption DEF Inv, TypeOK
<1>2. closed \in FrameState
  BY <1>1, FrameType
<1>3. evaluate(w, e) /\ apply_bitrate
  BY DEF on_feedback
<1>4. /\ client_enabled /\ has_frames' = TRUE
      /\ newest_frame' = IF has_frames THEN Larger(f, newest_frame) ELSE f
      /\ UNCHANGED <<now, client_mode, client_enabled, sent, restarted>>
  BY DEF on_feedback, switchVars
<1> HIDE DEF closed
<1>5. w \in Seq(Sample)
  BY <1>1, <1>2, ClosedTypes
<1>6. Mode = "bbr" => CurrentSamples(w) /\ CurrentSamples(Recent(w))
  BY <1>1, <1>2, <1>5, ClosedCurrent, RecentCurrent DEF WindowIsCurrent, CurrentSamples
<1> HIDE DEF w, e
<1>8. newest_frame' \in Nat /\ newest_frame' <= sent
  BY <1>1, <1>4 DEF RingInv, Larger
<1>9. Mode = "bbr" /\ client_enabled /\ sent > restarted => has_frames' /\ newest_frame' = sent
  BY <1>1, <1>4 DEF RingInv, Larger
<1>10. old_frames' = IF Mode = "bbr" /\ bitrate' # bitrate THEN sent ELSE old_frames
  BY <1>3 DEF apply_bitrate
<1>11. CASE flush
  BY <1>4, <1>6, <1>8, <1>9, <1>10, <1>11, LawCurrent
<1>12. CASE window' \in {w, Recent(w)} /\ UNCHANGED <<bitrate, stale_before>>
  <2>1. window' = w \/ window' = Recent(w)
    BY <1>12
  <2>2. CASE window' = w
    BY <1>4, <1>6, <1>8, <1>9, <1>10, <1>12, <2>2, LawCurrent
  <2> DEFINE r == Recent(w)
  <2>3. Mode = "bbr" => CurrentSamples(r)
    BY <1>6
  <2>4. CASE window' = r
    <3> HIDE DEF r
    <3> QED
      BY <1>4, <1>8, <1>9, <1>10, <1>12, <2>3, <2>4, LawCurrent
  <2> QED
    BY <2>1, <2>2, <2>4
<1> QED
  BY <1>3, <1>11, <1>12, EvaluateFlushes

(* on_wifi_state (bitrate_controller.cpp:489-602).                          *)
LEMMA WifiCurrent ==
    ASSUME Inv, RingInv, WindowIsCurrent, NEW trend, on_wifi_state(trend)
    PROVE  RingInv' /\ WindowIsCurrent'
<1>1. /\ client_enabled /\ UNCHANGED <<now, client_mode, client_enabled, sent, restarted,
                                       newest_frame, has_frames>>
      /\ old_frames' = IF Mode = "bbr" /\ bitrate' # bitrate THEN sent ELSE old_frames
  BY DEF on_wifi_state, switchVars, ringVars, apply_bitrate
<1>2. \/ flush
      \/ window' = window /\ UNCHANGED <<bitrate, stale_before>>
  <2>1. \/ RadioStep \/ UNCHANGED <<bitrate, sampleVars>>
    BY DEF on_wifi_state, HoldReview
  <2> QED
    BY <2>1 DEF RadioStep, sampleVars
<1>3. Mode = "bbr" => CurrentSamples(window)
  BY DEF WindowIsCurrent, CurrentSamples
<1>4. /\ newest_frame' \in Nat /\ has_frames' \in BOOLEAN /\ (has_frames' => newest_frame' <= sent)
      /\ Mode = "bbr" /\ client_enabled /\ sent > restarted => has_frames' /\ newest_frame' = sent
  BY <1>1 DEF RingInv
<1>5. RingInv' /\ WindowIsCurrent'
  BY <1>1, <1>2, <1>3, <1>4, LawCurrent
<1> QED
  BY <1>1, <1>5

(* on_frame_bytes (bitrate_controller.cpp:344-374), of a frame that has     *)
(* bytes: one that had none would not enter the ring.                       *)
LEMMA SendCurrent ==
    ASSUME Inv, RingInv, WindowIsCurrent, NEW bytes \in Nat, bytes > 0,
           on_frame_bytes(bytes)
    PROVE  RingInv' /\ WindowIsCurrent'
<1>1. /\ sent' = sent + 1 /\ sent \in Nat
      /\ UNCHANGED <<now, client_mode, client_enabled, restarted, old_frames, stale_before>>
  BY DEF Inv, TypeOK, on_frame_bytes, switchVars
<1>2. Mode' = Mode
  BY <1>1 DEF Mode
<1>3. CASE Mode = "bbr" /\ client_enabled
  <2> DEFINE i == sent' % frame_ring_size
  <2>1. i \in 0 .. frame_ring_size - 1
    BY <1>1, SlotType
  <2>2. /\ newest_frame' = sent' /\ has_frames' = TRUE
        /\ window' = ClosedWindow(frames[i])
    BY <1>3 DEF on_frame_bytes
  <2> HIDE DEF i
  <2>3. frames[i] \in FrameState /\ TypeOK
    BY <2>1 DEF Inv, TypeOK
  <2>4. CurrentSamples(window')
    BY <1>3, <2>2, <2>3, ClosedCurrent DEF WindowIsCurrent, CurrentSamples
  <2>5. RingInv'
    BY <1>1, <1>2, <2>2 DEF RingInv
  <2> QED
    BY <1>1, <1>2, <2>4, <2>5 DEF WindowIsCurrent, CurrentSamples
<1>4. CASE ~ (Mode = "bbr" /\ client_enabled)
  <2>1. UNCHANGED <<newest_frame, has_frames, window>>
    BY <1>4 DEF on_frame_bytes, ringVars
  <2>2. RingInv'
    BY <1>1, <1>2, <1>4, <2>1 DEF RingInv
  <2> QED
    BY <1>1, <1>2, <2>1, <2>2 DEF WindowIsCurrent
<1> QED
  BY <1>3, <1>4

(* A restart of the law empties the window, the ring and the filter.        *)
LEMMA SettingsCurrent ==
    ASSUME Inv, RingInv, WindowIsCurrent, NEW s, on_settings(s)
    PROVE  RingInv' /\ WindowIsCurrent'
<1>1. UNCHANGED <<now, sent>> /\ sent \in Nat /\ now \in Nat
  BY DEF on_settings, Inv, TypeOK
<1>2. CASE Restarts(s) /\ reset_locked
  <2>1. /\ has_frames' = FALSE /\ stale_before' = 0 /\ window' = <<>> /\ bandwidth' = NoBandwidth
        /\ restarted' = (IF Mode' = "bbr" THEN sent ELSE 0)
        /\ old_frames' = 0 /\ newest_frame' = newest_frame
    BY <1>2 DEF reset_locked
  <2>2. restarted' \in Nat /\ restarted' <= sent' /\ (Mode' = "bbr" => ~ (sent' > restarted'))
    BY <1>1, <2>1
  <2>3. RingInv'
    <3>1. /\ newest_frame' \in Nat /\ stale_before' \in Nat /\ old_frames' \in Nat
          /\ old_frames' <= sent' /\ old_frames' <= restarted'
      BY <1>1, <2>1, <2>2 DEF RingInv
    <3>2. has_frames' \in BOOLEAN /\ ~has_frames'
      BY <2>1, Zenon
    <3> QED
      BY <2>2, <3>1, <3>2, Zenon DEF RingInv
  <2> QED
    BY <2>1, <2>3 DEF WindowIsCurrent
<1>3. CASE ~Restarts(s)
  <2>1. Mode' = Mode /\ client_enabled' = client_enabled
    BY <1>3 DEF on_settings, Restarts
  <2>2. UNCHANGED <<newest_frame, has_frames, stale_before, window, old_frames, restarted>>
    BY <1>3 DEF on_settings, ringVars, sampleVars
  <2> QED
    BY <1>1, <2>1, <2>2 DEF RingInv, WindowIsCurrent
<1> QED
  BY <1>2, <1>3 DEF on_settings

(* Every action keeps the ring, the window and the filter.                  *)
LEMMA CurrentStep ==
    ASSUME \A load \in Loads, b \in min_bitrate .. ceiling : Percent(load, b) > 0,
           Inv, RingInv, WindowIsCurrent, [Next]_vars
    PROVE  RingInv' /\ WindowIsCurrent'
<1>1. ASSUME NEW f \in 1 .. sent, Lose(f) \/ Deliver(f)
      PROVE  RingInv' /\ WindowIsCurrent'
  <2>1. \E lost \in BOOLEAN, wire \in Nat, late \in BOOLEAN : on_feedback(f, lost, wire, late)
    BY <1>1, RateAssumption DEF Lose, Deliver
  <2> QED
    BY <2>1, FeedbackCurrent
<1>2. CASE Send
  <2>1. PICK load \in Loads : on_frame_bytes(Percent(load, bitrate))
    BY <1>2 DEF Send
  <2>2. bitrate \in min_bitrate .. ceiling /\ load \in Nat /\ bitrate \in Nat
    BY RateAssumption, ClampInRange DEF Inv, InRange, TypeOK
  <2>3. Percent(load, bitrate) \in Nat /\ Percent(load, bitrate) > 0
    BY <2>2, PercentType
  <2> QED
    BY <2>1, <2>3, SendCurrent
<1>3. CASE Report
  BY <1>3, WifiCurrent DEF Report
<1>4. CASE Set
  BY <1>4, SettingsCurrent DEF Set
<1>5. CASE Tick
  <2>1. /\ now' = now + 1 /\ now \in Nat
        /\ UNCHANGED <<client_mode, client_enabled, sent, newest_frame, has_frames, stale_before, window,
                       old_frames, restarted>>
    BY <1>5 DEF Tick, switchVars, ringVars, sampleVars, Inv, TypeOK
  <2>2. Mode' = Mode
    BY <2>1 DEF Mode
  <2> QED
    BY <2>1, <2>2 DEF RingInv, WindowIsCurrent
<1>6. CASE UNCHANGED vars
  <2>1. UNCHANGED <<now, client_mode, client_enabled, sent, newest_frame, has_frames, stale_before, window,
                    old_frames, restarted>>
    BY <1>6 DEF vars, switchVars, ringVars, sampleVars
  <2>2. Mode' = Mode
    BY <2>1 DEF Mode
  <2> QED
    BY <2>1, <2>2 DEF RingInv, WindowIsCurrent
<1> QED
  BY <1>1, <1>2, <1>3, <1>4, <1>5, <1>6 DEF Next

-----------------------------------------------------------------------------
(* The theorems. *)

(* The invariant holds in every reachable state of the controller.          *)
THEOREM Invariance == Spec => []Inv
BY InitInv, NextStep, PTL DEF Spec

(* No rate, wire time or instant the two laws compute is ever anything but  *)
(* a natural number: the percentile of analyse exists, and the filter of v2 *)
(* keeps three samples.                                                     *)
THEOREM Typing == Spec => []TypeOK
<1>1. Inv => TypeOK
  BY DEF Inv
<1> QED
  BY <1>1, Invariance, PTL

(* The bitrate stays between the floor and the ceiling (clamp,              *)
(* bitrate_controller.cpp:191-194), whatever v1, v2 and the radio do.       *)
THEOREM BitrateInRange == Spec => []InRange
<1>1. Inv => InRange
  BY DEF Inv
<1> QED
  BY <1>1, Invariance, PTL

(* A rebound is always below what it aims at and never under a radio hold,  *)
(* so it can end (evaluate_aimd and on_wifi_state).                         *)
THEOREM ReboundsCanEnd == Spec => []ReboundAhead
<1>1. Inv => ReboundAhead
  BY DEF Inv
<1> QED
  BY <1>1, Invariance, PTL

(* The radio's hold never outlives the switches that allowed it             *)
(* (set_client_radio_aware, set_client_enabled and reset_locked).           *)
THEOREM HoldsEndWithSwitches == Spec => []HoldHasSwitch
<1>1. Inv => HoldHasSwitch
  BY DEF Inv
<1> QED
  BY <1>1, Invariance, PTL

(* The radio's hold lets go of a signal that stayed flat for                *)
(* radio_stable_hold (on_wifi_state).                                       *)
THEOREM FlatSignalsRelease == Spec => []HoldLetsGo
<1>1. Inv => HoldLetsGo
  BY DEF Inv, FlatRunTimed, HoldLetsGo
<1> QED
  BY <1>1, Invariance, PTL

(* VideoBridge always has the bitrate in force less the share of parity     *)
(* (apply_bitrate, and the settings handler of Session).                    *)
THEOREM TargetIsCurrent == Spec => []TargetFollows
<1>1. Inv => TargetFollows
  BY DEF Inv
<1> QED
  BY <1>1, Invariance, PTL

(* v1 never lowers the bitrate twice within decrease_cooldown, by its own   *)
(* evaluation and by the radio's step together.                             *)
THEOREM NoDoubleDecrease == Spec => DecreasesSpaced
<1>1. Inv /\ [Next]_vars => [Mode = "aimd" /\ bitrate' < bitrate => now - lowered >= decrease_cooldown]_vars
  BY NextStep DEF Spaced
<1> QED
  BY <1>1, Invariance, PTL DEF Spec, DecreasesSpaced

(* Congestion that interrupts a rebound strictly lowers its target, and     *)
(* nothing raises it before that rebound is over (evaluate_aimd).           *)
THEOREM ReboundsAimLower == Spec => ReboundAimsLower
<1>1. Inv /\ [Next]_vars =>
        [st = "recovering" /\ st' = "recovering" =>
            /\ recovery_target' <= recovery_target
            /\ last_decrease' # last_decrease => recovery_target' < recovery_target]_vars
  BY NextStep DEF AimsLower
<1> QED
  BY <1>1, Invariance, PTL DEF Spec, ReboundAimsLower

(* FilterOrdered: the three samples of the maximum filter stay in order, of *)
(* value and of age, through every renewal, promotion, cap and seed.        *)
THEOREM FilterStaysOrdered == Spec => []FilterOrdered
<1>1. Init => InOrder(bandwidth, now)
  BY DEF Init, InOrder, NoBandwidth
<1>2. Inv /\ InOrder(bandwidth, now) /\ [Next]_vars => InOrder(bandwidth', now')
  BY FilterStep
<1>3. InOrder(bandwidth, now) => FilterOrdered
  BY DEF InOrder, FilterOrdered
<1> DEFINE Order == InOrder(bandwidth, now)
<1>4. Init => Order
  BY <1>1
<1>5. Inv /\ Order /\ [Next]_vars => Order'
  BY <1>2
<1>6. Order => FilterOrdered
  BY <1>3
<1> HIDE DEF Order
<1> QED
  BY <1>4, <1>5, <1>6, Invariance, PTL DEF Spec

(* WindowIsCurrent: no sample of v2's window is of a frame sent before the  *)
(* bitrate last changed, but for frames sent before a change of law started *)
(* the ring over, whatever is lost, late or still under way, as long as     *)
(* every frame has bytes (one of none would not enter the ring).            *)
THEOREM WindowStaysCurrent ==
    ASSUME \A load \in Loads, b \in min_bitrate .. ceiling : Percent(load, b) > 0
    PROVE  Spec => []WindowIsCurrent
<1> DEFINE RingFits == RingInv /\ WindowIsCurrent
<1>1. Init => RingFits
  <2> SUFFICES ASSUME Init  PROVE RingFits
    OBVIOUS
  <2>1. /\ newest_frame = 0 /\ has_frames = FALSE /\ stale_before = 0 /\ window = <<>>
        /\ sent = 0 /\ old_frames = 0 /\ restarted = 0
    BY DEF Init
  <2>2. newest_frame \in Nat /\ stale_before \in Nat /\ old_frames \in Nat /\ restarted \in Nat
        /\ old_frames <= sent /\ restarted <= sent /\ old_frames <= restarted /\ ~ (sent > restarted)
    BY <2>1
  <2>3. has_frames \in BOOLEAN /\ ~has_frames
    BY <2>1, Zenon
  <2>4. RingInv
    BY <2>2, <2>3, Zenon DEF RingInv
  <2> QED
    BY <2>1, <2>4 DEF WindowIsCurrent
<1>2. Inv /\ RingFits /\ [Next]_vars => RingFits'
  <2> SUFFICES ASSUME Inv, RingFits, [Next]_vars  PROVE RingFits'
    OBVIOUS
  <2>1. RingInv' /\ WindowIsCurrent'
    BY CurrentStep
  <2> QED
    BY <2>1
<1>3. RingFits => WindowIsCurrent
  OBVIOUS
<1> HIDE DEF RingFits
<1> QED
  BY <1>1, <1>2, <1>3, Invariance, PTL DEF Spec
=============================================================================
