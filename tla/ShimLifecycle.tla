---------------------------- MODULE ShimLifecycle ----------------------------
(***************************************************************************)
(* Loading and unloading of the driver inside vrserver, and the headset    *)
(* poses its threads report meanwhile.  Five threads:                      *)
(*                                                                         *)
(*   main        vrserver's own: Init, RunFrame, Activate, Cleanup         *)
(*   idle        DriverProvider::idle_pose_loop, the fallback poses        *)
(*   ipc         IpcClient::thread_main and the callbacks it makes         *)
(*   vsync       DirectModeComponent::vsync_loop                           *)
(*   compositor  calling PostPresent, which starts the vsync thread        *)
(*                                                                         *)
(* A thread that has fetched the host with vrctx::host() and not called it *)
(* yet is at "call".  Poses are told apart by their origin only.           *)
(***************************************************************************)
EXTENDS Naturals

CONSTANTS
    MaxInits,        \* bound: times vrserver loads the driver
    CompositorStops  \* vrserver calls Cleanup only once PostPresent has returned

ASSUME ShimAssumption ==
    /\ MaxInits \in Nat
    /\ CompositorStops \in BOOLEAN

VARIABLES
    main, inits,                       \* main thread
    g_live, context,                   \* vr_context.cpp; the driver context itself
    hmd_, activated_,                  \* HmdDevice
    last_helper_pose, last_pose_,
    shown,                             \* the pose vrserver was told last
    idle_running_, idle,
    running_, stop_event_, ipc, pose,  \* IpcClient; the pose its callback carries
    shut_down_, vsync_started_, vsync_running_, vsync, present,
    ticked                             \* vsync_counter_ # seen, in PostPresent

loadVars == <<main, inits, g_live, context>>
poseVars == <<last_helper_pose, last_pose_, shown>>
idleVars == <<idle_running_, idle>>
ipcVars == <<running_, stop_event_, ipc, pose>>
vsyncVars == <<shut_down_, vsync_started_, vsync_running_, vsync, present, ticked>>
vars == <<loadVars, hmd_, activated_, poseVars, idleVars, ipcVars, vsyncVars>>

HelperPoses == {"tracked", "disconnected"}
Poses == HelperPoses \cup {"idle", "none"}

(* The steps of cleanup_impl. *)
Cleaning ==
    {"stop_idle", "join_idle", "stop_ipc", "join_ipc", "shutdown", "stop_vsync", "join_vsync",
     "reset", "set_dead", "cleanup_context"}

TypeOK ==
    /\ main \in {"unloaded", "loaded", "asked"} \cup Cleaning
    /\ inits \in 0 .. MaxInits
    /\ g_live \in BOOLEAN /\ context \in BOOLEAN /\ activated_ \in BOOLEAN
    /\ hmd_ \in {"none", "created", "configured", "registered"}
    /\ last_helper_pose \in {"never", "fresh", "stale"}
    /\ last_pose_ \in Poses /\ shown \in Poses /\ pose \in HelperPoses
    /\ idle_running_ \in BOOLEAN /\ idle \in {"off", "loop", "stale", "submit", "call", "exited"}
    /\ running_ \in BOOLEAN /\ stop_event_ \in BOOLEAN
    /\ ipc \in {"off", "connect", "loop", "session", "pose", "submit", "call", "disconnected", "exited"}
    /\ shut_down_ \in BOOLEAN /\ vsync_started_ \in BOOLEAN /\ vsync_running_ \in BOOLEAN
    /\ vsync \in {"off", "sleep", "call", "exited"}
    /\ present \in {"idle", "checked", "wait"} /\ ticked \in BOOLEAN

Init ==
    /\ main = "unloaded" /\ inits = 0
    /\ g_live = FALSE /\ context = FALSE
    /\ hmd_ = "none" /\ activated_ = FALSE
    /\ last_helper_pose = "never" /\ last_pose_ = "none" /\ shown = "none"
    /\ idle_running_ = FALSE /\ idle = "off"
    /\ running_ = FALSE /\ stop_event_ = FALSE /\ ipc = "off" /\ pose = "tracked"
    /\ shut_down_ = FALSE /\ vsync_started_ = FALSE /\ vsync_running_ = FALSE
    /\ vsync = "off" /\ present = "idle" /\ ticked = FALSE

-----------------------------------------------------------------------------
(* vrctx::host() *)
host == g_live /\ context

(* A fresh HmdDevice, its DirectModeComponent included. *)
NewDevices ==
    /\ hmd_' = "created" /\ activated_' = FALSE
    /\ last_helper_pose' = "never" /\ last_pose_' = "none" /\ shown' = "none"
    /\ shut_down_' = FALSE /\ vsync_started_' = FALSE /\ vsync_running_' = FALSE
    /\ vsync' = "off" /\ present' = "idle" /\ ticked' = FALSE

CanInit == main = "unloaded" /\ inits < MaxInits

(* The host or properties interface is missing: the load is refused. *)
InitRefused ==
    /\ CanInit
    /\ inits' = inits + 1
    /\ g_live' = FALSE /\ context' = FALSE
    /\ UNCHANGED <<main, hmd_, activated_, poseVars, idleVars, ipcVars, vsyncVars>>

(* The devices cannot be allocated: Init fails and leaves the context up. *)
InitFails ==
    /\ CanInit
    /\ inits' = inits + 1
    /\ g_live' = TRUE /\ context' = TRUE
    /\ UNCHANGED <<main, hmd_, activated_, poseVars, idleVars, ipcVars, vsyncVars>>

(* Init loads the driver.  Either thread may fail to start: without the IPC *)
(* client the driver stays inert and no idle thread is started.            *)
InitLoads ==
    /\ CanInit
    /\ main' = "loaded" /\ inits' = inits + 1
    /\ g_live' = TRUE /\ context' = TRUE
    /\ NewDevices
    /\ \E ipcStarts \in BOOLEAN, idleStarts \in BOOLEAN :
          /\ running_' = ipcStarts
          /\ ipc' = IF ipcStarts THEN "connect" ELSE "off"
          /\ idle_running_' = (ipcStarts /\ idleStarts)
          /\ idle' = IF ipcStarts /\ idleStarts THEN "loop" ELSE "off"
    /\ stop_event_' = FALSE
    /\ UNCHANGED pose

(* RunFrame: bails out without a live context, else registers the headset  *)
(* once it is configured; a refusal is retried.  TrackedDeviceAdded        *)
(* re-enters Activate, which reports a fallback pose under pose_mutex_.    *)
RunFrameBails ==
    /\ main = "unloaded" /\ ~host
    /\ UNCHANGED vars

RunFrameRegisters ==
    /\ main \in {"loaded", "asked"} /\ host
    /\ hmd_ = "configured"
    /\ hmd_' = "registered" /\ activated_' = TRUE
    /\ last_pose_' = "idle" /\ shown' = "idle"
    /\ UNCHANGED <<loadVars, last_helper_pose, idleVars, ipcVars, vsyncVars>>

Deactivate ==
    /\ main = "asked" /\ activated_
    /\ activated_' = FALSE
    /\ UNCHANGED <<loadVars, hmd_, poseVars, idleVars, ipcVars, vsyncVars>>

-----------------------------------------------------------------------------
(* vrserver quits: it asks its compositor to stop, then calls Cleanup. *)
Quit ==
    /\ main = "loaded"
    /\ main' = "asked"
    /\ UNCHANGED <<inits, g_live, context, hmd_, activated_, poseVars, idleVars, ipcVars, vsyncVars>>

Cleanup ==
    /\ main = "asked"
    /\ CompositorStops => present = "idle"
    /\ main' = "stop_idle"
    /\ UNCHANGED <<inits, g_live, context, hmd_, activated_, poseVars, idleVars, ipcVars, vsyncVars>>

Advance(from, to) ==
    /\ main = from /\ main' = to
    /\ UNCHANGED <<inits, hmd_, activated_, poseVars, pose>>

StopIdle ==
    /\ Advance("stop_idle", "join_idle")
    /\ idle_running_' = FALSE
    /\ UNCHANGED <<g_live, context, idle, running_, stop_event_, ipc, vsyncVars>>

(* Broken on purpose: gives up on the thread after kJoinWarnAfter. *)
JoinIdle_GivesUp ==
    /\ Advance("join_idle", "stop_ipc")
    /\ UNCHANGED <<g_live, context, idleVars, running_, stop_event_, ipc, vsyncVars>>

(* idle_thread_.join(), skipped when there is no thread. *)
JoinIdle ==
    /\ idle \in {"off", "exited"}
    /\ Advance("join_idle", "stop_ipc")
    /\ idle' = "off"
    /\ UNCHANGED <<g_live, context, idle_running_, running_, stop_event_, ipc, vsyncVars>>

(* IpcClient::stop *)
stop ==
    /\ Advance("stop_ipc", "join_ipc")
    /\ running_' = FALSE
    /\ stop_event_' = (stop_event_ \/ running_)
    /\ UNCHANGED <<g_live, context, idleVars, ipc, vsyncVars>>

JoinIpc ==
    /\ ipc \in {"off", "exited"}
    /\ Advance("join_ipc", "shutdown")
    /\ ipc' = "off" /\ stop_event_' = FALSE
    /\ UNCHANGED <<g_live, context, idleVars, running_, vsyncVars>>

(* hmd_.reset(), through DirectModeComponent::shutdown. *)
Shutdown ==
    /\ Advance("shutdown", "stop_vsync")
    /\ shut_down_' = TRUE
    /\ UNCHANGED <<g_live, context, idleVars, running_, stop_event_, ipc, vsync_started_,
                   vsync_running_, vsync, present, ticked>>

StopVsync ==
    /\ Advance("stop_vsync", "join_vsync")
    /\ vsync_running_' = FALSE
    /\ UNCHANGED <<g_live, context, idleVars, running_, stop_event_, ipc, shut_down_,
                   vsync_started_, vsync, present, ticked>>

JoinVsync ==
    /\ vsync \in {"off", "exited"}
    /\ Advance("join_vsync", "reset")
    /\ vsync' = "off"
    /\ UNCHANGED <<g_live, context, idleVars, running_, stop_event_, ipc, shut_down_,
                   vsync_started_, vsync_running_, present, ticked>>

ResetDevices ==
    /\ main = "reset" /\ main' = "set_dead"
    /\ hmd_' = "none" /\ activated_' = FALSE
    /\ UNCHANGED <<inits, g_live, context, poseVars, idleVars, ipcVars, vsyncVars>>

SetDead ==
    /\ Advance("set_dead", "cleanup_context")
    /\ g_live' = FALSE
    /\ UNCHANGED <<context, idleVars, running_, stop_event_, ipc, vsyncVars>>

CleanupContext ==
    /\ Advance("cleanup_context", "unloaded")
    /\ context' = FALSE
    /\ UNCHANGED <<g_live, idleVars, running_, stop_event_, ipc, vsyncVars>>

CleanupStep ==
    \/ StopIdle \/ JoinIdle \/ stop \/ JoinIpc \/ Shutdown \/ StopVsync \/ JoinVsync
    \/ ResetDevices \/ SetDead \/ CleanupContext

-----------------------------------------------------------------------------
(* Idle thread. *)

IdleGoes(to) ==
    /\ idle' = to
    /\ UNCHANGED <<loadVars, hmd_, activated_, last_helper_pose, idle_running_, ipcVars, vsyncVars>>

IdleExits ==
    /\ idle = "loop" /\ ~idle_running_
    /\ IdleGoes("exited")
    /\ UNCHANGED <<last_pose_, shown>>

(* Broken on purpose: a helper that never sent a pose counts as recent. *)
tick_idle_OnlyStale ==
    /\ idle = "loop" /\ idle_running_
    /\ host /\ activated_ /\ last_helper_pose = "stale"
    /\ IdleGoes("stale")
    /\ UNCHANGED <<last_pose_, shown>>

(* tick_idle reads when the helper last sent a pose: too recently, and it   *)
(* sleeps again.                                                           *)
tick_idle ==
    /\ idle = "loop" /\ idle_running_
    /\ host /\ activated_ /\ last_helper_pose # "fresh"
    /\ IdleGoes("stale")
    /\ UNCHANGED <<last_pose_, shown>>

(* submit_pose keeps the pose under pose_mutex_ ... *)
IdleSubmits ==
    /\ idle = "stale"
    /\ last_pose_' = "idle"
    /\ IdleGoes("submit")
    /\ UNCHANGED shown

(* ... fetches the host outside it ... *)
IdleFetchesHost ==
    /\ idle = "submit"
    /\ IdleGoes(IF activated_ /\ host THEN "call" ELSE "loop")
    /\ UNCHANGED <<last_pose_, shown>>

(* ... and reports to vrserver. *)
IdleReports ==
    /\ idle = "call"
    /\ shown' = "idle"
    /\ IdleGoes("loop")
    /\ UNCHANGED last_pose_

IdleStep == IdleExits \/ tick_idle \/ IdleSubmits \/ IdleFetchesHost \/ IdleReports

(* kHelperPoseTimeout passes without a pose from the helper. *)
HelperGoesQuiet ==
    /\ last_helper_pose = "fresh"
    /\ last_helper_pose' = "stale"
    /\ UNCHANGED <<loadVars, hmd_, activated_, last_pose_, shown, idleVars, ipcVars, vsyncVars>>

-----------------------------------------------------------------------------
(* IPC thread. *)

IpcGoes(to) ==
    /\ ipc' = to
    /\ UNCHANGED <<loadVars, activated_, idleVars, running_, stop_event_, vsyncVars>>

(* open_pipe succeeds: a helper is there. *)
IpcConnects ==
    /\ ipc = "connect" /\ running_
    /\ IpcGoes("loop")
    /\ UNCHANGED <<hmd_, poseVars, pose>>

(* thread_main leaves its loop, from the top or out of wait_or_stop. *)
IpcExits ==
    /\ ipc = "connect" /\ (~running_ \/ stop_event_)
    /\ IpcGoes("exited")
    /\ UNCHANGED <<hmd_, poseVars, pose>>

(* Broken on purpose: relies on stop_event_ alone. *)
run_session_EventOnly ==
    /\ ipc = "loop"
    /\ IpcGoes("session")
    /\ UNCHANGED <<hmd_, poseVars, pose>>

(* run_session tests running_ before every wait for a message. *)
run_session ==
    /\ ipc = "loop"
    /\ IpcGoes(IF running_ THEN "session" ELSE "disconnected")
    /\ UNCHANGED <<hmd_, poseVars, pose>>

(* run_session hands HmdConfig and PoseUpdate to the callbacks. *)
OnConfig ==
    /\ ipc = "session" /\ hmd_ = "created"
    /\ hmd_' = "configured"
    /\ IpcGoes("loop")
    /\ UNCHANGED <<poseVars, pose>>

on_pose_update ==
    /\ ipc = "session"
    /\ last_helper_pose' = "fresh"
    /\ pose' \in HelperPoses
    /\ IpcGoes("pose")
    /\ UNCHANGED <<hmd_, last_pose_, shown>>

IpcSubmits ==
    /\ ipc = "pose"
    /\ last_pose_' = pose
    /\ IpcGoes("submit")
    /\ UNCHANGED <<hmd_, last_helper_pose, shown, pose>>

IpcFetchesHost ==
    /\ ipc = "submit"
    /\ IpcGoes(IF activated_ /\ host THEN "call" ELSE "loop")
    /\ UNCHANGED <<hmd_, poseVars, pose>>

IpcReports ==
    /\ ipc = "call"
    /\ shown' = pose
    /\ IpcGoes("loop")
    /\ UNCHANGED <<hmd_, last_helper_pose, last_pose_, pose>>

(* The helper goes away ... *)
SessionEnds ==
    /\ ipc = "session"
    /\ IpcGoes("disconnected")
    /\ UNCHANGED <<hmd_, poseVars, pose>>

(* ... or stop_event_ ends run_session's wait, which lasts one read slice  *)
(* at most.                                                                *)
SessionStopped ==
    /\ ipc = "session" /\ stop_event_
    /\ IpcGoes("disconnected")
    /\ UNCHANGED <<hmd_, poseVars, pose>>

ReadTimeout ==
    /\ ipc = "session" /\ ~stop_event_
    /\ IpcGoes("loop")
    /\ UNCHANGED <<hmd_, poseVars, pose>>

on_helper_disconnected ==
    /\ ipc = "disconnected"
    /\ last_helper_pose' = "never"
    /\ IpcGoes("connect")
    /\ UNCHANGED <<hmd_, last_pose_, shown, pose>>

(* What the IPC thread does without the helper's help. *)
IpcStep ==
    \/ IpcExits \/ run_session \/ IpcSubmits \/ IpcFetchesHost \/ IpcReports
    \/ SessionStopped \/ ReadTimeout \/ on_helper_disconnected

HelperStep == IpcConnects \/ OnConfig \/ on_pose_update \/ SessionEnds

-----------------------------------------------------------------------------
(* Compositor and vsync thread. *)

DirectModeStep == UNCHANGED <<loadVars, hmd_, activated_, poseVars, idleVars, ipcVars>>

(* PostPresent, once the component was handed out by a registered headset: *)
(* start_vsync_thread has tested shut_down_.                               *)
PostPresent ==
    /\ present = "idle" /\ hmd_ = "registered"
    /\ main = "loaded" \/ ~CompositorStops
    /\ present' = IF shut_down_ THEN "wait" ELSE "checked"
    /\ ticked' = FALSE
    /\ UNCHANGED <<shut_down_, vsync_started_, vsync_running_, vsync>>
    /\ DirectModeStep

(* The rest of start_vsync_thread: only the first caller creates the       *)
(* thread, and the creation may fail.                                      *)
start_vsync_thread ==
    /\ present = "checked"
    /\ present' = "wait" /\ ticked' = FALSE
    /\ vsync_started_' = TRUE
    /\ IF vsync_started_
       THEN UNCHANGED <<vsync_running_, vsync>>
       ELSE \E starts \in BOOLEAN :
               /\ vsync_running_' = starts
               /\ vsync' = IF starts THEN "sleep" ELSE "off"
    /\ UNCHANGED shut_down_
    /\ DirectModeStep

PresentReturns ==
    /\ present = "wait"
    /\ present' = "idle" /\ ticked' = FALSE
    /\ UNCHANGED <<shut_down_, vsync_started_, vsync_running_, vsync>>
    /\ DirectModeStep

(* wait_for ends with a tick, with the end of the vsync thread ... *)
PresentWakes == (ticked \/ ~vsync_running_) /\ PresentReturns

(* ... or after two frame intervals. *)
PresentTimesOut == PresentReturns

VsyncWakes ==
    /\ vsync = "sleep"
    /\ vsync' = CASE ~vsync_running_ -> "exited"
                  [] vsync_running_ /\ host -> "call"
                  [] OTHER -> "sleep"
    /\ ticked' = (ticked \/ (vsync_running_ /\ ~host))
    /\ UNCHANGED <<shut_down_, vsync_started_, vsync_running_, present>>
    /\ DirectModeStep

(* VsyncEvent, and the tick PostPresent waits for. *)
VsyncReports ==
    /\ vsync = "call"
    /\ vsync' = "sleep" /\ ticked' = TRUE
    /\ UNCHANGED <<shut_down_, vsync_started_, vsync_running_, present>>
    /\ DirectModeStep

CompositorStep == start_vsync_thread \/ PresentWakes \/ PresentTimesOut

VsyncStep == VsyncWakes \/ VsyncReports

-----------------------------------------------------------------------------
Next ==
    \/ InitRefused \/ InitFails \/ InitLoads \/ RunFrameBails \/ RunFrameRegisters \/ Deactivate
    \/ Quit \/ Cleanup \/ CleanupStep
    \/ IdleStep \/ HelperGoesQuiet \/ IpcStep \/ HelperStep
    \/ PostPresent \/ CompositorStep \/ VsyncStep

(* The system schedules every thread of vrserver and clocks run; neither   *)
(* the helper nor the user is obliged to do anything.                      *)
Fairness ==
    /\ WF_vars(Cleanup) /\ WF_vars(CleanupStep)
    /\ WF_vars(IdleStep) /\ WF_vars(IpcStep)
    /\ WF_vars(CompositorStep) /\ WF_vars(VsyncStep)

Spec == Init /\ [][Next]_vars /\ Fairness

-----------------------------------------------------------------------------
(* Once the headset is destroyed or the driver context cleaned up, no      *)
(* thread of the driver is left that could use either: cleanup_impl must   *)
(* "stop everything that can call back into vrserver before the driver     *)
(* context is torn down" (driver_provider.cpp:287-289).                    *)
ThreadsStopped ==
    main \in {"set_dead", "cleanup_context", "unloaded"} =>
        {idle, ipc, vsync} \subseteq {"off", "exited"}

(* An unload that was asked for completes, whatever the helper does and    *)
(* even with a present in flight: none of cleanup_impl's three joins waits *)
(* for ever, and PostPresent's timeout is enough where no vsync comes.     *)
UnloadCompletes == main = "asked" ~> main = "unloaded"

(* Once the helper stays quiet, the fallback takes over for good: both     *)
(* what vrserver was told and what GetPose returns are the idle pose ("tick_idle() *)
(* takes over as soon as the last helper pose goes stale",                 *)
(* hmd_device.cpp:493-494).                                                *)
IdleTakesOver ==
    (<>[](main = "loaded" /\ idle_running_ /\ activated_ /\ last_helper_pose # "fresh"))
        => <>[](shown = "idle" /\ last_pose_ = "idle")

(* The fallback thread "only actually submits a pose when the helper has   *)
(* gone quiet" (driver_provider.cpp:36-37): no idle pose replaces the pose *)
(* of a helper that is sending.                                            *)
IdleOnlyWhenQuiet ==
    [][IdleReports => last_helper_pose # "fresh"]_vars
=============================================================================
