SPECIFICATION Spec
CONSTANTS
    ceiling = 40
    min_bitrate_bps = 8
    increase_step_min = 4
    window_duration = 1
    min_samples = 1
    evaluation_interval = 1
    frame_ring_size = 1
    lost_frames_severe = 1
    late_frames_decrease = 1
    late_frames_severe = 2
    decrease_cooldown = 2
    increase_hold = 1
    recovery_confirm = 1
    recovery_step_interval = 1
    radio_trend_window = 1
    radio_max_age = 1
    radio_min_samples = 2
    radio_step_interval = 2
    radio_stable_hold = 1
    estimator_window = 2
    estimator_min_samples = 2
    round_duration = 1
    startup_stall_rounds = 1
    probe_interval = 2
    probe_duration = 1
    steady_interval = 2
    change_settle = 2
    frame_period = 100
    Lates = {FALSE}
    Wires = {20, 90}
    Loads = {100}
    Trends <- RadioTrends
    Connects <- BothLaws
    Settings <- RadioOff
    Uptime = 10
    MaxTime = 3
    MaxFrame = 4
    MaxSettings = 1
INVARIANTS
    InRange
    ReboundAhead
    HoldHasSwitch
    HoldLetsGo
    TargetFollows
    WindowIsCurrent
    FilterOrdered
PROPERTIES
    DecreasesSpaced
    ReboundAimsLower
CHECK_DEADLOCK FALSE
