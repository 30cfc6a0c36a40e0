----------------------------- MODULE DeviceBridge -----------------------------
(***************************************************************************)
(* Headset configuration, controller presence, poses and inputs on their   *)
(* way from the WiVRn session to vrserver:                                 *)
(*                                                                         *)
(*   helper, session thread   Session::on_tracking, on_inputs, ~Session    *)
(*                            writing into Bridge                          *)
(*   helper, pipe thread      PipeServer::flush_bridge with its Cursor     *)
(*   shim, IPC thread         HmdDevice and ControllerDevice callbacks     *)
(*   shim, RunFrame thread    DriverProvider::run_frame_impl, registering  *)
(*                            devices, which re-enters Activate            *)
(*                                                                         *)
(* Bridge holds the latest value of everything with a generation for each; *)
(* a cursor per pipe session says what its shim has been sent.             *)
(***************************************************************************)
EXTENDS Naturals, Sequences

CONSTANTS
    kDeviceCount,  \* the HMD, device 0, and the controllers
    Configs,       \* HmdConfig values
    MaxSamples,    \* bound: tracking samples of each controller
    MaxInputs,     \* bound: input updates of each controller
    MaxConfigs,    \* bound: generations of the configuration
    MaxSessions,   \* bound: pipe sessions
    MaxRefusals,   \* bound: registrations vrserver refuses
    MaxCrashes,    \* bound: helper crashes
    NoConfig

ASSUME DeviceAssumption ==
    /\ kDeviceCount \in Nat \ {0}
    /\ MaxSamples \in Nat /\ MaxInputs \in Nat /\ MaxConfigs \in Nat \ {0}
    /\ MaxSessions \in Nat /\ MaxRefusals \in Nat /\ MaxCrashes \in Nat
    /\ NoConfig \notin Configs

VARIABLES
    (* Bridge.  A pose is the number of a tracked sample, 0 for connected=0. *)
    config_, config_gen_, pose_, pose_gen_, present_, presence_gen_, input_gen_,
    tracking,          \* session thread: the device between set_pose and set_present
    (* pipe *)
    pcH, cursor, batch, link, toShim,
    (* shim, IPC thread *)
    pcI, got_config, job, connected_, last_pose_,
    (* shim, shared between its threads *)
    registered_, registration_wanted_, activated_,
    hmdConfig, properties_dirty_, geometry_dirty_,
    (* shim, RunFrame thread *)
    pcR, subject, copied, dirty,
    (* what vrserver has been told *)
    added, reported, components, hmdProperties, hmdGeometry,
    sessions, refusals, crashes

bridgeVars == <<config_, config_gen_, pose_, pose_gen_, present_, presence_gen_, input_gen_, tracking>>
pipeVars == <<pcH, cursor, batch, link, toShim>>
ipcVars == <<pcI, got_config, job>>
controllerVars == <<connected_, last_pose_, reported, components>>
registerVars == <<registered_, registration_wanted_, activated_, added>>
hmdVars == <<hmdConfig, properties_dirty_, geometry_dirty_, hmdProperties, hmdGeometry>>
frameVars == <<pcR, subject, copied, dirty>>
boundVars == <<sessions, refusals, crashes>>
vars == <<bridgeVars, pipeVars, ipcVars, controllerVars, registerVars, hmdVars, frameVars, boundVars>>

Hmd == 0
Controllers == 1 .. kDeviceCount - 1
Devices == 0 .. kDeviceCount - 1
NoDevice == kDeviceCount
Sample == 0 .. MaxSamples

Message ==
    [type : {"config"}, config : Configs]
      \cup [type : {"add", "remove"}, device : Controllers]
      \cup [type : {"pose"}, device : Controllers, pose : Sample]
      \cup [type : {"input"}, device : Controllers, input : 0 .. MaxInputs]

Cursor ==
    [config : 0 .. MaxConfigs, presence : [Controllers -> Nat], pose : [Controllers -> Nat],
     input : [Controllers -> Nat]]

FreshCursor ==
    [config |-> 0, presence |-> [c \in Controllers |-> 0], pose |-> [c \in Controllers |-> 0],
     input |-> [c \in Controllers |-> 0]]

NoJob == [device |-> NoDevice, pose |-> 0]

BridgeTypeOK ==
    /\ config_ \in Configs /\ config_gen_ \in 1 .. MaxConfigs
    /\ pose_ \in [Controllers -> Sample] /\ pose_gen_ \in [Controllers -> Nat]
    /\ present_ \in [Controllers -> BOOLEAN] /\ presence_gen_ \in [Controllers -> Nat]
    /\ input_gen_ \in [Controllers -> 0 .. MaxInputs]
    /\ tracking \in Controllers \cup {NoDevice}

PipeTypeOK ==
    /\ pcH \in {"listen", "flush", "send"} /\ cursor \in Cursor /\ batch \in SUBSET Message
    /\ link \in {"none", "open", "shimClosed", "helperClosed"} /\ toShim \in Seq(Message)

IpcTypeOK ==
    /\ pcI \in {"closed", "read", "check", "dirty", "geometry", "want", "wantWrite", "write",
                "publish", "bye", "byeWrite", "byePublish"}
    /\ got_config \in BOOLEAN
    /\ job \in [device : Devices \cup {NoDevice}, pose : Sample]

ControllerTypeOK ==
    /\ connected_ \in [Controllers -> BOOLEAN] /\ last_pose_ \in [Controllers -> Sample]
    /\ reported \in [Controllers -> Sample] /\ components \in [Controllers -> 0 .. MaxInputs]

RegisterTypeOK ==
    /\ registered_ \in [Devices -> BOOLEAN] /\ registration_wanted_ \in [Devices -> BOOLEAN]
    /\ activated_ \in [Devices -> BOOLEAN] /\ added \in [Devices -> Nat]

HmdTypeOK ==
    /\ hmdConfig \in Configs \cup {NoConfig}
    /\ properties_dirty_ \in BOOLEAN /\ geometry_dirty_ \in BOOLEAN
    /\ hmdProperties \in Configs \cup {NoConfig} /\ hmdGeometry \in Configs \cup {NoConfig}

FrameTypeOK ==
    /\ pcR \in {"idle", "add", "activate", "copy", "publish", "push", "exchange", "apply"}
    /\ subject \in Devices \cup {NoDevice}
    /\ copied \in Sample \cup Configs \cup {NoConfig}
    /\ dirty \in [properties : BOOLEAN, geometry : BOOLEAN]

TypeOK ==
    /\ BridgeTypeOK /\ PipeTypeOK /\ IpcTypeOK /\ ControllerTypeOK
    /\ RegisterTypeOK /\ HmdTypeOK /\ FrameTypeOK
    /\ sessions \in 0 .. MaxSessions /\ refusals \in 0 .. MaxRefusals /\ crashes \in 0 .. MaxCrashes

BridgeInit ==
    /\ config_ \in Configs /\ config_gen_ = 1
    /\ pose_ = [c \in Controllers |-> 0] /\ pose_gen_ = [c \in Controllers |-> 0]
    /\ present_ = [c \in Controllers |-> FALSE] /\ presence_gen_ = [c \in Controllers |-> 0]
    /\ input_gen_ = [c \in Controllers |-> 0]
    /\ tracking = NoDevice

Init ==
    /\ BridgeInit
    /\ pcH = "listen" /\ cursor = FreshCursor /\ batch = {} /\ link = "none" /\ toShim = <<>>
    /\ pcI = "closed" /\ got_config = FALSE /\ job = NoJob
    /\ connected_ = [c \in Controllers |-> FALSE] /\ last_pose_ = [c \in Controllers |-> 0]
    /\ registered_ = [d \in Devices |-> FALSE] /\ registration_wanted_ = [d \in Devices |-> FALSE]
    /\ activated_ = [d \in Devices |-> FALSE] /\ added = [d \in Devices |-> 0]
    /\ hmdConfig = NoConfig /\ properties_dirty_ = FALSE /\ geometry_dirty_ = FALSE
    /\ pcR = "idle" /\ subject = NoDevice /\ copied = 0
    /\ dirty = [properties |-> FALSE, geometry |-> FALSE]
    /\ reported = [c \in Controllers |-> 0] /\ components = [c \in Controllers |-> 0]
    /\ hmdProperties = NoConfig /\ hmdGeometry = NoConfig
    /\ sessions = 0 /\ refusals = 0 /\ crashes = 0

-----------------------------------------------------------------------------
(* Helper, session thread: the writers of Bridge.                          *)

shimVars == <<ipcVars, controllerVars, registerVars, hmdVars, frameVars>>

(* The same configuration again does not bump the generation.              *)
set_config(config) ==
    /\ config_gen_ < MaxConfigs
    /\ config # config_
    /\ config_' = config
    /\ config_gen_' = config_gen_ + 1
    /\ UNCHANGED <<pose_, pose_gen_, present_, presence_gen_, input_gen_, tracking, pipeVars, shimVars,
                   boundVars>>

(* A sample that is not usable is passed on as connected = 0.              *)
set_pose(c, usable) ==
    /\ tracking = NoDevice
    /\ pose_gen_[c] < MaxSamples
    /\ pose_' = [pose_ EXCEPT ![c] = IF usable THEN pose_gen_[c] + 1 ELSE 0]
    /\ pose_gen_' = [pose_gen_ EXCEPT ![c] = @ + 1]
    /\ tracking' = IF usable THEN c ELSE NoDevice
    /\ UNCHANGED <<config_, config_gen_, present_, presence_gen_, input_gen_, pipeVars, shimVars, boundVars>>

set_present ==
    /\ tracking # NoDevice
    /\ present_' = [present_ EXCEPT ![tracking] = TRUE]
    /\ presence_gen_' = [presence_gen_ EXCEPT ![tracking] = IF present_[tracking] THEN @ ELSE @ + 1]
    /\ tracking' = NoDevice
    /\ UNCHANGED <<config_, config_gen_, pose_, pose_gen_, input_gen_, pipeVars, shimVars, boundVars>>

(* The input state is named by its generation.                             *)
set_input(c) ==
    /\ tracking = NoDevice
    /\ input_gen_[c] < MaxInputs
    /\ input_gen_' = [input_gen_ EXCEPT ![c] = @ + 1]
    /\ UNCHANGED <<config_, config_gen_, pose_, pose_gen_, present_, presence_gen_, tracking, pipeVars,
                   shimVars, boundVars>>

on_client_gone ==
    /\ tracking = NoDevice
    /\ \E c \in Controllers : present_[c] \/ pose_[c] # 0
    /\ present_' = [c \in Controllers |-> FALSE]
    /\ presence_gen_' = [c \in Controllers |-> presence_gen_[c] + (IF present_[c] THEN 1 ELSE 0)]
    /\ pose_' = [c \in Controllers |-> 0]
    /\ pose_gen_' = [c \in Controllers |-> pose_gen_[c] + (IF pose_[c] # 0 THEN 1 ELSE 0)]
    /\ UNCHANGED <<config_, config_gen_, input_gen_, tracking, pipeVars, shimVars, boundVars>>

SessionThread ==
    \/ \E config \in Configs : set_config(config)
    \/ \E c \in Controllers, usable \in BOOLEAN : set_pose(c, usable)
    \/ set_present
    \/ \E c \in Controllers : set_input(c)
    \/ on_client_gone

-----------------------------------------------------------------------------
(* Helper, pipe thread.                                                    *)

Unseen(seen, gen) == {c \in Controllers : seen[c] # gen[c]}

(* What the cursor has not seen.                                           *)
News ==
    {m \in {[type |-> "config", config |-> config_]} : cursor.config # config_gen_}
      \cup {[type |-> IF present_[c] THEN "add" ELSE "remove", device |-> c] :
              c \in Unseen(cursor.presence, presence_gen_)}
      \cup {[type |-> "pose", device |-> c, pose |-> pose_[c]] : c \in Unseen(cursor.pose, pose_gen_)}
      \cup {[type |-> "input", device |-> c, input |-> input_gen_[c]] :
              c \in Unseen(cursor.input, input_gen_)}

(* "config, then presence, then poses, then inputs", each by device number *)
Order(m) ==
    CASE m.type = "config" -> 0
      [] m.type \in {"add", "remove"} -> m.device
      [] m.type = "pose" -> kDeviceCount + m.device
      [] m.type = "input" -> 2 * kDeviceCount + m.device

UpToDate ==
    [config |-> config_gen_, presence |-> presence_gen_, pose |-> pose_gen_, input |-> input_gen_]

(* The cursor moves on before anything is sent.                            *)
collect ==
    /\ pcH = "flush"
    /\ cursor # UpToDate
    /\ batch' = News
    /\ cursor' = UpToDate
    /\ pcH' = "send"
    /\ UNCHANGED <<bridgeVars, link, toShim, shimVars, boundVars>>

flush_bridge ==
    /\ pcH = "send"
    /\ \/ /\ link = "open"
          /\ \E m \in batch :
               /\ \A k \in batch : Order(m) <= Order(k)
               /\ toShim' = Append(toShim, m)
               /\ batch' = batch \ {m}
          /\ UNCHANGED pcH
       \/ /\ batch = {}
          /\ pcH' = "flush"
          /\ UNCHANGED <<toShim, batch>>
    /\ UNCHANGED <<bridgeVars, cursor, link, shimVars, boundVars>>

(* A failed read or write, or no ShimHello in time; the next client gets a *)
(* fresh cursor.                                                           *)
disconnect_client ==
    /\ pcH # "listen"
    /\ link \in {"open", "shimClosed"}
    /\ link' = IF link = "open" THEN "helperClosed" ELSE "none"
    /\ toShim' = <<>>
    /\ pcH' = "listen"
    /\ batch' = {}
    /\ UNCHANGED <<bridgeVars, cursor, shimVars, boundVars>>

PipeThread == collect \/ flush_bridge

-----------------------------------------------------------------------------
(* Shim, IPC thread.                                                       *)

(* Broken on purpose: the cursor of the last session is kept.              *)
Connect_OldCursor ==
    /\ pcI = "closed" /\ pcH = "listen" /\ link = "none"
    /\ sessions < MaxSessions
    /\ sessions' = sessions + 1
    /\ link' = "open"
    /\ toShim' = <<>>
    /\ batch' = {}
    /\ pcH' = "flush"
    /\ pcI' = "read"
    /\ UNCHANGED <<bridgeVars, cursor, got_config, job, controllerVars, registerVars, hmdVars, frameVars,
                   refusals, crashes>>

(* Both sides of the handshake up to HelperHello.                          *)
Connect ==
    /\ pcI = "closed" /\ pcH = "listen" /\ link = "none"
    /\ sessions < MaxSessions
    /\ sessions' = sessions + 1
    /\ link' = "open"
    /\ toShim' = <<>>
    /\ cursor' = FreshCursor
    /\ batch' = {}
    /\ pcH' = "flush"
    /\ pcI' = "read"
    /\ UNCHANGED <<bridgeVars, got_config, job, controllerVars, registerVars, hmdVars, frameVars, refusals,
                   crashes>>

Receives(type) ==
    /\ pcI = "read"
    /\ toShim # <<>>
    /\ Head(toShim).type = type
    /\ toShim' = Tail(toShim)

(* HmdDevice::set_config: the value first, then who has to act on it.      *)
OnConfig ==
    /\ Receives("config")
    /\ got_config' = TRUE
    /\ hmdConfig' = Head(toShim).config
    /\ job' = [device |-> Hmd, pose |-> 0]
    /\ pcI' = "check"
    /\ UNCHANGED <<bridgeVars, pcH, cursor, batch, link, controllerVars, registerVars, properties_dirty_,
                   geometry_dirty_, hmdProperties, hmdGeometry, frameVars, boundVars>>

ConfigCheck ==
    /\ pcI = "check"
    /\ pcI' = IF registered_[Hmd] THEN "dirty" ELSE "want"
    /\ UNCHANGED <<bridgeVars, pipeVars, got_config, job, controllerVars, registerVars, hmdVars, frameVars,
                   boundVars>>

(* Broken on purpose: only the geometry is refreshed.                      *)
ConfigDirty_GeometryOnly ==
    /\ pcI \in {"dirty", "geometry"}
    /\ geometry_dirty_' = TRUE
    /\ pcI' = "read"
    /\ job' = NoJob
    /\ UNCHANGED <<bridgeVars, pipeVars, got_config, controllerVars, registerVars, hmdConfig,
                   properties_dirty_, hmdProperties, hmdGeometry, frameVars, boundVars>>

ConfigDirty ==
    /\ pcI \in {"dirty", "geometry"}
    /\ \/ pcI = "dirty" /\ properties_dirty_' = TRUE /\ pcI' = "geometry" /\ UNCHANGED geometry_dirty_
       \/ pcI = "geometry" /\ geometry_dirty_' = TRUE /\ pcI' = "read" /\ UNCHANGED properties_dirty_
    /\ job' = NoJob
    /\ UNCHANGED <<bridgeVars, pipeVars, got_config, controllerVars, registerVars, hmdConfig,
                   hmdProperties, hmdGeometry, frameVars, boundVars>>

(* Broken on purpose: an implicit add does not ask for registration.       *)
Want_ExplicitOnly ==
    /\ pcI \in {"want", "wantWrite"}
    /\ registration_wanted_' = [registration_wanted_ EXCEPT ![job.device] = @ \/ pcI = "want"]
    /\ pcI' = IF pcI = "want" THEN "read" ELSE "write"
    /\ job' = IF pcI = "want" THEN NoJob ELSE job
    /\ UNCHANGED <<bridgeVars, pipeVars, got_config, controllerVars, registered_, activated_, added,
                   hmdVars, frameVars, boundVars>>

(* A device not registered yet asks the RunFrame thread for it.            *)
Want ==
    /\ pcI \in {"want", "wantWrite"}
    /\ registration_wanted_' = [registration_wanted_ EXCEPT ![job.device] = TRUE]
    /\ pcI' = IF pcI = "want" THEN "read" ELSE "write"
    /\ job' = IF pcI = "want" THEN NoJob ELSE job
    /\ UNCHANGED <<bridgeVars, pipeVars, got_config, controllerVars, registered_, activated_, added,
                   hmdVars, frameVars, boundVars>>

on_device_add(c) ==
    /\ Receives("add")
    /\ Head(toShim).device = c
    /\ connected_' = [connected_ EXCEPT ![c] = TRUE]
    /\ job' = IF registered_[c] THEN NoJob ELSE [device |-> c, pose |-> 0]
    /\ pcI' = IF registered_[c] THEN "read" ELSE "want"
    /\ UNCHANGED <<bridgeVars, pcH, cursor, batch, link, got_config, last_pose_, reported, components,
                   registerVars, hmdVars, frameVars, boundVars>>

on_device_remove(c) ==
    /\ Receives("remove")
    /\ Head(toShim).device = c
    /\ connected_' = [connected_ EXCEPT ![c] = FALSE]
    /\ job' = IF connected_[c] THEN [device |-> c, pose |-> 0] ELSE NoJob
    /\ pcI' = IF connected_[c] THEN "write" ELSE "read"
    /\ UNCHANGED <<bridgeVars, pcH, cursor, batch, link, got_config, last_pose_, reported, components,
                   registerVars, hmdVars, frameVars, boundVars>>

(* A connected pose for a controller believed gone is an implicit add.     *)
on_pose_update(c) ==
    /\ Receives("pose")
    /\ Head(toShim).device = c
    /\ LET adds == Head(toShim).pose # 0 /\ ~connected_[c]
       IN /\ connected_' = [connected_ EXCEPT ![c] = @ \/ adds]
          /\ pcI' = IF adds /\ ~registered_[c] THEN "wantWrite" ELSE "write"
    /\ job' = [device |-> c, pose |-> Head(toShim).pose]
    /\ UNCHANGED <<bridgeVars, pcH, cursor, batch, link, got_config, last_pose_, reported, components,
                   registerVars, hmdVars, frameVars, boundVars>>

(* submit_pose: last_pose_ under its mutex, then vrserver without it.      *)
SubmitWrite ==
    /\ pcI \in {"write", "byeWrite"}
    /\ last_pose_' = [last_pose_ EXCEPT ![job.device] = job.pose]
    /\ pcI' = IF pcI = "write" THEN "publish" ELSE "byePublish"
    /\ UNCHANGED <<bridgeVars, pipeVars, got_config, job, connected_, reported, components, registerVars,
                   hmdVars, frameVars, boundVars>>

SubmitPublish ==
    /\ pcI \in {"publish", "byePublish"}
    /\ reported' = IF activated_[job.device] THEN [reported EXCEPT ![job.device] = job.pose] ELSE reported
    /\ pcI' = IF pcI = "publish" THEN "read" ELSE "bye"
    /\ job' = NoJob
    /\ UNCHANGED <<bridgeVars, pipeVars, got_config, connected_, last_pose_, components, registerVars,
                   hmdVars, frameVars, boundVars>>

on_input_update(c) ==
    /\ Receives("input")
    /\ Head(toShim).device = c
    /\ components' = IF activated_[c] /\ connected_[c]
                       THEN [components EXCEPT ![c] = Head(toShim).input] ELSE components
    /\ UNCHANGED <<bridgeVars, pcH, cursor, batch, link, ipcVars, connected_, last_pose_, reported,
                   registerVars, hmdVars, frameVars, boundVars>>

(* A failed read or write.                                                 *)
EndSession ==
    /\ pcI = "read"
    /\ link' = IF link = "open" THEN "shimClosed" ELSE "none"
    /\ toShim' = <<>>
    /\ pcI' = "bye"
    /\ got_config' = FALSE
    /\ UNCHANGED <<bridgeVars, pcH, cursor, batch, job, controllerVars, registerVars, hmdVars,
                   frameVars, boundVars>>

(* The controllers are told one after the other.                           *)
on_helper_disconnected ==
    /\ pcI = "bye"
    /\ \/ \E c \in Controllers :
            /\ connected_[c]
            /\ \A d \in 1 .. c - 1 : ~connected_[d]
            /\ connected_' = [connected_ EXCEPT ![c] = FALSE]
            /\ job' = [device |-> c, pose |-> 0]
            /\ pcI' = "byeWrite"
       \/ /\ \A c \in Controllers : ~connected_[c]
          /\ pcI' = "closed"
          /\ UNCHANGED <<connected_, job>>
    /\ UNCHANGED <<bridgeVars, pipeVars, got_config, last_pose_, reported, components, registerVars,
                   hmdVars, frameVars, boundVars>>

IpcThread ==
    \/ OnConfig
    \/ ConfigCheck
    \/ ConfigDirty
    \/ Want
    \/ \E c \in Controllers :
         on_device_add(c) \/ on_device_remove(c) \/ on_pose_update(c) \/ on_input_update(c)
    \/ SubmitWrite
    \/ SubmitPublish
    \/ on_helper_disconnected

-----------------------------------------------------------------------------
(* Shim, RunFrame thread.                                                  *)

(* Broken on purpose: a late request registers a registered device again.  *)
Wanting_Again(d) == registration_wanted_[d]

Wanting(d) == ~registered_[d] /\ registration_wanted_[d]

(* "exactly one device per frame"                                          *)
consume_registration_request(d) ==
    /\ pcR = "idle"
    /\ Wanting(d)
    /\ \A e \in 0 .. d - 1 : ~Wanting(e)
    /\ registration_wanted_' = [registration_wanted_ EXCEPT ![d] = FALSE]
    /\ registered_' = [registered_ EXCEPT ![d] = TRUE]
    /\ subject' = d
    /\ pcR' = "add"
    /\ UNCHANGED <<bridgeVars, pipeVars, ipcVars, controllerVars, activated_, added, hmdVars, copied, dirty,
                   boundVars>>

(* Broken on purpose: a refused device is not asked for again.             *)
registration_failed_GivesUp ==
    /\ pcR = "add"
    /\ refusals < MaxRefusals
    /\ refusals' = refusals + 1
    /\ registered_' = [registered_ EXCEPT ![subject] = FALSE]
    /\ pcR' = "push"
    /\ UNCHANGED <<bridgeVars, pipeVars, ipcVars, controllerVars, registration_wanted_, activated_,
                   added, hmdVars, subject, copied, dirty, sessions, crashes>>

registration_failed ==
    /\ pcR = "add"
    /\ refusals < MaxRefusals
    /\ refusals' = refusals + 1
    /\ registered_' = [registered_ EXCEPT ![subject] = FALSE]
    /\ registration_wanted_' = [registration_wanted_ EXCEPT ![subject] = TRUE]
    /\ pcR' = "push"
    /\ UNCHANGED <<bridgeVars, pipeVars, ipcVars, controllerVars, activated_, added, hmdVars, subject,
                   copied, dirty, sessions, crashes>>

(* TrackedDeviceAdded accepts the device and calls Activate at once.       *)
TrackedDeviceAdded ==
    /\ pcR = "add"
    /\ added' = [added EXCEPT ![subject] = @ + 1]
    /\ pcR' = "activate"
    /\ UNCHANGED <<bridgeVars, pipeVars, ipcVars, controllerVars, registered_, registration_wanted_,
                   activated_, hmdVars, subject, copied, dirty, boundVars>>

(* HmdDevice::activate_impl: properties of a copy of the configuration,    *)
(* the geometry left to push_pending_geometry.                             *)
ActivateHmd ==
    /\ subject = Hmd
    /\ \/ /\ pcR = "activate"
          /\ copied' = hmdConfig
          /\ pcR' = "copy"
          /\ UNCHANGED <<activated_, geometry_dirty_, hmdProperties>>
       \/ /\ pcR = "copy"
          /\ hmdProperties' = copied
          /\ activated_' = [activated_ EXCEPT ![Hmd] = TRUE]
          /\ geometry_dirty_' = TRUE
          /\ pcR' = "push"
          /\ UNCHANGED copied
    /\ UNCHANGED <<bridgeVars, pipeVars, ipcVars, controllerVars, registered_, registration_wanted_, added,
                   hmdConfig, properties_dirty_, hmdGeometry, subject, dirty, boundVars>>

(* ControllerDevice::activate_impl: a copy of last_pose_ is published      *)
(* after pose_mutex_ has been released.                                    *)
ActivateController ==
    /\ subject \in Controllers
    /\ \/ /\ pcR = "activate"
          /\ activated_' = [activated_ EXCEPT ![subject] = TRUE]
          /\ pcR' = "copy"
          /\ UNCHANGED <<copied, reported>>
       \/ /\ pcR = "copy"
          /\ copied' = last_pose_[subject]
          /\ pcR' = "publish"
          /\ UNCHANGED <<activated_, reported>>
       \/ /\ pcR = "publish"
          /\ reported' = [reported EXCEPT ![subject] = copied]
          /\ pcR' = "push"
          /\ UNCHANGED <<activated_, copied>>
    /\ UNCHANGED <<bridgeVars, pipeVars, ipcVars, connected_, last_pose_, components, registered_,
                   registration_wanted_, added, hmdVars, subject, dirty, boundVars>>

NothingToRegister ==
    /\ pcR = "idle"
    /\ \A d \in Devices : ~Wanting(d)
    /\ activated_[Hmd] /\ (geometry_dirty_ \/ properties_dirty_)
    /\ pcR' = "push"
    /\ UNCHANGED <<bridgeVars, pipeVars, ipcVars, controllerVars, registerVars, hmdVars, subject, copied,
                   dirty, boundVars>>

(* Two atomics, then the configuration: three steps.                       *)
push_pending_geometry ==
    /\ \/ /\ pcR = "push"
          /\ dirty' = [dirty EXCEPT !.geometry = activated_[Hmd] /\ geometry_dirty_]
          /\ geometry_dirty_' = (geometry_dirty_ /\ ~activated_[Hmd])
          /\ pcR' = IF activated_[Hmd] THEN "exchange" ELSE "idle"
          /\ UNCHANGED <<properties_dirty_, hmdProperties, hmdGeometry>>
       \/ /\ pcR = "exchange"
          /\ dirty' = [dirty EXCEPT !.properties = properties_dirty_]
          /\ properties_dirty_' = FALSE
          /\ pcR' = "apply"
          /\ UNCHANGED <<geometry_dirty_, hmdProperties, hmdGeometry>>
       \/ /\ pcR = "apply"
          /\ hmdProperties' = IF dirty.properties THEN hmdConfig ELSE hmdProperties
          /\ hmdGeometry' = IF dirty.geometry THEN hmdConfig ELSE hmdGeometry
          /\ dirty' = [properties |-> FALSE, geometry |-> FALSE]
          /\ pcR' = "idle"
          /\ UNCHANGED <<properties_dirty_, geometry_dirty_>>
    /\ subject' = NoDevice
    /\ copied' = 0
    /\ UNCHANGED <<bridgeVars, pipeVars, ipcVars, controllerVars, registerVars, hmdConfig, boundVars>>

RunFrame ==
    \/ \E d \in Devices : consume_registration_request(d)
    \/ registration_failed
    \/ TrackedDeviceAdded
    \/ ActivateHmd
    \/ ActivateController
    \/ NothingToRegister
    \/ push_pending_geometry

-----------------------------------------------------------------------------
(* The helper dies and is started again with nothing known of the headset. *)
HelperCrash ==
    /\ crashes < MaxCrashes
    /\ crashes' = crashes + 1
    /\ link' = CASE link = "open" -> "helperClosed" [] link = "shimClosed" -> "none" [] OTHER -> link
    /\ toShim' = <<>> /\ batch' = {} /\ pcH' = "listen"
    /\ config_' \in Configs /\ config_gen_' = 1
    /\ pose_' = [c \in Controllers |-> 0] /\ pose_gen_' = [c \in Controllers |-> 0]
    /\ present_' = [c \in Controllers |-> FALSE] /\ presence_gen_' = [c \in Controllers |-> 0]
    /\ input_gen_' = [c \in Controllers |-> 0]
    /\ tracking' = NoDevice
    /\ UNCHANGED <<cursor, shimVars, sessions, refusals>>

Next ==
    \/ SessionThread
    \/ PipeThread
    \/ disconnect_client
    \/ Connect
    \/ IpcThread
    \/ EndSession
    \/ RunFrame
    \/ HelperCrash

Spec == Init /\ [][Next]_vars

(* vrserver calls RunFrame every frame; the pipe and IPC threads wait for  *)
(* nothing but each other.  Nothing is assumed of the headset.             *)
FairSpec ==
    /\ Spec
    /\ WF_vars(PipeThread)
    /\ WF_vars(IpcThread)
    /\ WF_vars(link = "helperClosed" /\ EndSession)
    /\ WF_vars(link = "shimClosed" /\ disconnect_client)
    /\ WF_vars(RunFrame)

-----------------------------------------------------------------------------
(* A shim in session that has been sent, and has handled, everything.      *)
Settled ==
    /\ link = "open" /\ pcI = "read" /\ pcH = "flush"
    /\ cursor = UpToDate /\ toShim = <<>>
    /\ tracking = NoDevice

(* bridge.h:11-14: "latest value wins".  When everything has been          *)
(* delivered the shim has the newest configuration, pose and presence of   *)
(* every device, whatever sessions, clients and helpers came before.       *)
LatestWins ==
    Settled =>
      /\ hmdConfig = config_
      /\ \A c \in Controllers : connected_[c] = present_[c] /\ last_pose_[c] = pose_[c]

(* hmd_device.cpp:88-103: a configuration that arrives at any point of the *)
(* HMD's registration reaches vrserver: once no flag is set and nothing is *)
(* under way, properties and geometry are those of the current config.     *)
ConfigApplied ==
    (activated_[Hmd] /\ pcR = "idle" /\ ~geometry_dirty_ /\ ~properties_dirty_
       /\ pcI \notin {"check", "dirty", "geometry"})
      => hmdProperties = hmdConfig /\ hmdGeometry = hmdConfig

(* A device the shim has been told of and vrserver has not is never        *)
(* forgotten: it is registered, being registered or wanted, also after a   *)
(* refused registration and a lost session.                                *)
Registering ==
    /\ (got_config /\ pcI \notin {"check", "want"}) => registered_[Hmd] \/ registration_wanted_[Hmd]
    /\ \A c \in Controllers :
         connected_[c] => \/ registered_[c] \/ registration_wanted_[c]
                          \/ pcI \in {"want", "wantWrite"} /\ job.device = c

(* controller_device.cpp:113-114: "vrserver cannot re-register a device".  *)
AddedOnce == \A d \in Devices : added[d] <= 1

(* A controller the helper has announced ends up activated in vrserver,    *)
(* even if the helper goes away meanwhile.                                 *)
EventuallyActive == \A c \in Controllers : connected_[c] ~> activated_[c]

(* controller_device.cpp:154-155: "No fallback pose for controllers:       *)
(* without the helper we have nothing truthful to say".  A controller that *)
(* has been removed is not reported as tracked once nothing is under way.  *)
NoPhantom ==
    \A c \in Controllers :
      (~connected_[c] /\ pcI \in {"read", "closed"} /\ pcR = "idle") => reported[c] = 0

(* bridge.h:11-14: "latest value wins ... SteamVR wants the newest sample, *)
(* not a backlog": of inputs as well as of poses.                          *)
NewestInput ==
    Settled => \A c \in Controllers :
                 (activated_[c] /\ connected_[c]) => components[c] = input_gen_[c]
=============================================================================
