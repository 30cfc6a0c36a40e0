-------------------------- MODULE DeviceBridge_proofs --------------------------
(***************************************************************************)
(* Proofs about DeviceBridge, for any number of controllers and any        *)
(* bounds: type correctness, AddedOnce, Registering, ConfigApplied and     *)
(* LatestWins.                                                             *)
(***************************************************************************)
EXTENDS DeviceBridge, TLAPS

-----------------------------------------------------------------------------
(* The shim's side.                                                        *)

InSession == pcI \notin {"closed", "bye", "byeWrite", "byePublish"}

(* Whom the IPC thread works for at each point.                            *)
JobInv ==
    /\ pcI = "check" => job.device = Hmd
    /\ pcI = "want" => job.device \in Devices
    /\ pcI \in {"wantWrite", "write", "publish", "byeWrite", "byePublish"} => job.device \in Controllers
    /\ pcI = "closed" => \A c \in Controllers : ~connected_[c]

(* What the RunFrame thread has copied for vrserver.                       *)
CopyInv ==
    /\ pcR = "publish" => copied \in Sample
    /\ (pcR = "copy" /\ subject = Hmd) => copied \in Configs \cup {NoConfig}

(* Registering, with the device a pending request is for.                  *)
RegisterInv ==
    /\ got_config => \/ registered_[Hmd] \/ registration_wanted_[Hmd]
                     \/ pcI \in {"check", "want"} /\ job.device = Hmd
    /\ \A c \in Controllers :
         connected_[c] => \/ registered_[c] \/ registration_wanted_[c]
                          \/ pcI \in {"want", "wantWrite"} /\ job.device = c

(* A device is added between its registration and no later one.            *)
AddInv ==
    /\ pcR \in {"add", "activate", "copy", "publish"} => subject \in Devices /\ registered_[subject]
    /\ \A d \in Devices : /\ added[d] # 0 => added[d] = 1 /\ registered_[d] /\ ~(pcR = "add" /\ subject = d)
                          /\ activated_[d] => added[d] = 1
                          /\ (pcR \in {"activate", "copy", "publish"} /\ subject = d) => added[d] = 1

(* A configuration not applied yet is flagged, or its flag has been taken  *)
(* or is about to be set.                                                  *)
ApplyInv ==
    /\ (pcR = "copy" /\ subject = Hmd) =>
         copied = hmdConfig \/ properties_dirty_ \/ pcI \in {"check", "dirty"}
    /\ activated_[Hmd] =>
         /\ \/ hmdProperties = hmdConfig \/ properties_dirty_ \/ pcI \in {"check", "dirty"}
            \/ pcR = "apply" /\ dirty.properties
         /\ \/ hmdGeometry = hmdConfig \/ geometry_dirty_ \/ pcI \in {"check", "dirty", "geometry"}
            \/ pcR \in {"exchange", "apply"} /\ dirty.geometry

(* The pose of controller c once the message at hand has been handled.     *)
Taken(c) ==
    IF pcI \in {"wantWrite", "write", "byeWrite"} /\ job.device = c THEN job.pose ELSE last_pose_[c]

Connected(c) == IF connected_[c] THEN 1 ELSE 0

GoneInv == \A c \in Controllers : Connected(c) = 0 => Taken(c) = 0

-----------------------------------------------------------------------------
(* The helper's side.                                                      *)

LinkInv ==
    /\ link = "open" => InSession /\ pcH # "listen"
    /\ link = "shimClosed" => ~InSession /\ pcH # "listen"
    /\ link = "helperClosed" => InSession /\ pcH = "listen"
    /\ link = "none" => ~InSession /\ pcH = "listen"
    /\ pcH # "send" => batch = {}

Present(c) == IF present_[c] THEN 1 ELSE 0

(* Only a device whose set_present is still to come has a pose and is not  *)
(* present; generation 0 is that of a device never heard of.               *)
BridgeInv ==
    \A c \in Controllers :
      /\ pose_[c] # 0 => (Present(c) = 1 \/ tracking = c) /\ pose_gen_[c] # 0
      /\ Present(c) = 1 => presence_gen_[c] # 0

(* The cursor is never ahead, and a removal it has not seen did not leave  *)
(* it with a pose it has seen.                                             *)
CursorInv ==
    pcH # "listen" =>
      /\ cursor.config <= config_gen_
      /\ \A c \in Controllers :
           /\ cursor.presence[c] <= presence_gen_[c]
           /\ cursor.pose[c] <= pose_gen_[c]
           /\ (cursor.presence[c] # presence_gen_[c] /\ Present(c) = 0 /\ pose_[c] # 0)
                => cursor.pose[c] # pose_gen_[c]

BatchInv == \A m, k \in batch : Order(m) = Order(k) => m = k

-----------------------------------------------------------------------------
(* What a queue of messages, followed by a batch, leaves the shim with.    *)

(* w: what is left of v after the queue q, where a message of S sets it to *)
(* what V says.                                                            *)
After(q, S, V, v, w) ==
    \/ v = w /\ \A i \in DOMAIN q : q[i] \notin S
    \/ \E i \in DOMAIN q : /\ q[i] \in S /\ V[q[i]] = w
                           /\ \A j \in DOMAIN q : j > i => q[j] \notin S

Finally(q, B, S, V, v, w) ==
    \/ \E m \in B : m \in S /\ V[m] = w /\ \A k \in B : k \in S => Order(k) <= Order(m)
    \/ (\A m \in B : m \notin S) /\ After(q, S, V, v, w)

ConfigNews == {m \in Message : m.type = "config"}
ConfigSays == [m \in ConfigNews |-> m.config]
PoseNews(c) == {m \in Message : m.type \in {"remove", "pose"} /\ m.device = c}
PoseSays(c) == [m \in PoseNews(c) |-> IF m.type = "pose" THEN m.pose ELSE 0]
PresenceNews(c) ==
    {m \in Message : m.type \in {"add", "remove", "pose"} /\ m.device = c /\ (m.type = "pose" => m.pose # 0)}
PresenceSays(c) == [m \in PresenceNews(c) |-> IF m.type = "remove" THEN 0 ELSE 1]

(* What is under way brings the shim to the newest value of whatever the   *)
(* cursor has seen.                                                        *)
DeliveryInv ==
    link = "open" =>
      /\ cursor.config = config_gen_ => Finally(toShim, batch, ConfigNews, ConfigSays, hmdConfig, config_)
      /\ \A c \in Controllers :
           /\ cursor.pose[c] = pose_gen_[c]
                => Finally(toShim, batch, PoseNews(c), PoseSays(c), Taken(c), pose_[c])
           /\ (cursor.presence[c] = presence_gen_[c] /\ (tracking # c \/ Present(c) = 1))
                => Finally(toShim, batch, PresenceNews(c), PresenceSays(c), Connected(c), Present(c))
-----------------------------------------------------------------------------
(* What each thread leaves alone.                                          *)
LEMMA Footprint ==
    /\ SessionThread => UNCHANGED <<pipeVars, shimVars, boundVars>>
    /\ PipeThread \/ disconnect_client => UNCHANGED <<bridgeVars, shimVars, boundVars>>
    /\ PipeThread => UNCHANGED link
    /\ Connect => UNCHANGED <<bridgeVars, got_config, job, controllerVars, registerVars, hmdVars,
                             frameVars, refusals, crashes>>
    /\ IpcThread => UNCHANGED <<bridgeVars, pcH, cursor, batch, link, registered_, activated_, added,
                               hmdProperties, hmdGeometry, frameVars, boundVars>>
    /\ EndSession => UNCHANGED <<bridgeVars, pcH, cursor, batch, job, controllerVars, registerVars,
                                hmdVars, frameVars, boundVars>>
    /\ RunFrame => UNCHANGED <<bridgeVars, pipeVars, ipcVars, connected_, last_pose_, components,
                              hmdConfig, sessions, crashes>>
    /\ HelperCrash => UNCHANGED <<cursor, shimVars, sessions, refusals>>
  <1> USE DEF bridgeVars, pipeVars, ipcVars, controllerVars, registerVars, hmdVars, frameVars,
              boundVars, shimVars
  <1>1. SessionThread => UNCHANGED <<pipeVars, shimVars, boundVars>>
    BY Zenon DEF SessionThread, set_config, set_pose, set_present, set_input, on_client_gone
  <1>2. /\ PipeThread \/ disconnect_client => UNCHANGED <<bridgeVars, shimVars, boundVars>>
        /\ PipeThread => UNCHANGED link
    BY Zenon DEF PipeThread, collect, flush_bridge, disconnect_client
  <1>3. IpcThread => UNCHANGED <<bridgeVars, pcH, cursor, batch, link, registered_, activated_, added,
                                 hmdProperties, hmdGeometry, frameVars, boundVars>>
    BY DEF IpcThread, OnConfig, ConfigCheck, ConfigDirty, Want, on_device_add, on_device_remove,
           on_pose_update, on_input_update, Receives, SubmitWrite, SubmitPublish, on_helper_disconnected
  <1>4. RunFrame => UNCHANGED <<bridgeVars, pipeVars, ipcVars, connected_, last_pose_, components,
                                hmdConfig, sessions, crashes>>
    BY DEF RunFrame, consume_registration_request, registration_failed, TrackedDeviceAdded,
           ActivateHmd, ActivateController, NothingToRegister, push_pending_geometry
  <1> QED BY <1>1, <1>2, <1>3, <1>4 DEF Connect, EndSession, HelperCrash

(* The devices and what may be sent about them.                            *)
LEMMA DeviceFacts ==
    /\ Hmd \in Devices /\ Controllers \subseteq Devices /\ NoDevice \notin Devices
    /\ 0 \in Sample /\ Sample \subseteq Nat /\ NoJob \in [device : Devices \cup {NoDevice}, pose : Sample]
    /\ FreshCursor \in Cursor
    /\ \A d \in Devices : d = Hmd \/ d \in Controllers
    /\ Hmd \notin Controllers
  BY DeviceAssumption DEF Hmd, Devices, Controllers, NoDevice, Sample, NoJob, FreshCursor, Cursor

(* The fields of a message on the pipe, by its type. *)
LEMMA MessageFacts ==
  ASSUME NEW m \in Message
  PROVE  /\ m.type \in {"config", "add", "remove", "pose", "input"}
         /\ m.type = "config" => m.config \in Configs
         /\ m.type # "config" => m.device \in Controllers
         /\ m.type = "pose" => m.pose \in Sample
         /\ m.type = "input" => m.input \in 0 .. MaxInputs
  BY DEF Message

(* set_config ... on_client_gone keep the types of Bridge.                 *)
LEMMA BridgeTypes == BridgeTypeOK /\ [Next]_vars => BridgeTypeOK'
  <1> SUFFICES ASSUME BridgeTypeOK, [Next]_vars PROVE BridgeTypeOK'
    OBVIOUS
  <1> USE DeviceAssumption, DeviceFacts DEF BridgeTypeOK
  <1>1. ASSUME NEW config \in Configs, set_config(config) PROVE BridgeTypeOK'
    BY <1>1 DEF set_config
  <1>2. ASSUME NEW c \in Controllers, NEW usable \in BOOLEAN, set_pose(c, usable) PROVE BridgeTypeOK'
    BY <1>2 DEF set_pose, Sample
  <1>3. CASE set_present
    BY <1>3 DEF set_present
  <1>4. ASSUME NEW c \in Controllers, set_input(c) PROVE BridgeTypeOK'
    BY <1>4 DEF set_input
  <1>5. CASE on_client_gone
    BY <1>5 DEF on_client_gone
  <1>6. CASE HelperCrash
    BY <1>6 DEF HelperCrash
  <1>7. CASE UNCHANGED bridgeVars
    BY <1>7 DEF bridgeVars
  <1> QED BY <1>1, <1>2, <1>3, <1>4, <1>5, <1>6, <1>7, Footprint DEF Next, SessionThread, vars

(* What flush_bridge finds to send are messages, and the cursor it then stores is a
   cursor. *)
LEMMA NewsTypes == BridgeTypeOK => News \subseteq Message /\ UpToDate \in Cursor
  BY DEF BridgeTypeOK, News, Unseen, Message, UpToDate, Cursor

(* The pipe's types.                                                       *)
LEMMA PipeTypes == BridgeTypeOK /\ PipeTypeOK /\ [Next]_vars => PipeTypeOK'
  <1> SUFFICES ASSUME BridgeTypeOK, PipeTypeOK, [Next]_vars PROVE PipeTypeOK'
    OBVIOUS
  <1> USE DEF PipeTypeOK
  <1>1. CASE collect
    BY <1>1, NewsTypes DEF collect
  <1>2. CASE flush_bridge
    BY <1>2 DEF flush_bridge
  <1>3. CASE disconnect_client
    BY <1>3 DEF disconnect_client
  <1>4. CASE Connect
    BY <1>4, DeviceFacts DEF Connect
  <1>5. CASE IpcThread
    <2>1. UNCHANGED <<pcH, cursor, batch, link>>
      BY <1>5, Footprint
    <2>2. toShim' = toShim \/ (toShim # <<>> /\ toShim' = Tail(toShim))
      BY <1>5 DEF IpcThread, OnConfig, ConfigCheck, ConfigDirty, Want, on_device_add, on_device_remove,
           on_pose_update, on_input_update, Receives, SubmitWrite, SubmitPublish, on_helper_disconnected,
           pipeVars
    <2> QED BY <2>1, <2>2
  <1>6. CASE EndSession
    BY <1>6 DEF EndSession
  <1>7. CASE HelperCrash
    BY <1>7 DEF HelperCrash
  <1>8. CASE UNCHANGED pipeVars
    BY <1>8 DEF pipeVars
  <1> QED BY <1>1, <1>2, <1>3, <1>4, <1>5, <1>6, <1>7, <1>8, Footprint DEF Next, PipeThread, vars

(* The IPC thread's types, and whom it works for.                          *)
LEMMA IpcTypes ==
    PipeTypeOK /\ IpcTypeOK /\ ControllerTypeOK /\ JobInv /\ [Next]_vars => IpcTypeOK' /\ JobInv'
  <1> SUFFICES ASSUME PipeTypeOK, IpcTypeOK, ControllerTypeOK, JobInv, [Next]_vars
               PROVE  IpcTypeOK' /\ JobInv'
    OBVIOUS
  <1> USE DeviceFacts DEF IpcTypeOK, JobInv
  <1>1. CASE OnConfig
    BY <1>1 DEF OnConfig, Receives, controllerVars
  <1>2. CASE ConfigCheck
    BY <1>2 DEF ConfigCheck, controllerVars
  <1>3. CASE ConfigDirty
    BY <1>3 DEF ConfigDirty, controllerVars
  <1>4. CASE Want
    BY <1>4 DEF Want, controllerVars
  <1>5. ASSUME NEW c \in Controllers, on_device_add(c) PROVE IpcTypeOK' /\ JobInv'
    BY <1>5 DEF on_device_add, Receives
  <1>6. ASSUME NEW c \in Controllers, on_device_remove(c) PROVE IpcTypeOK' /\ JobInv'
    BY <1>6 DEF on_device_remove, Receives
  <1>7. ASSUME NEW c \in Controllers, on_pose_update(c) PROVE IpcTypeOK' /\ JobInv'
    <2>1. toShim # <<>> /\ Head(toShim) \in Message /\ Head(toShim).type = "pose"
      BY <1>7 DEF on_pose_update, Receives, PipeTypeOK
    <2>2. Head(toShim).pose \in Sample
      BY <2>1, MessageFacts
    <2> QED BY <1>7, <2>2 DEF on_pose_update, Receives
  <1>8. ASSUME NEW c \in Controllers, on_input_update(c) PROVE IpcTypeOK' /\ JobInv'
    BY <1>8 DEF on_input_update, Receives, ipcVars
  <1>9. CASE SubmitWrite
    BY <1>9 DEF SubmitWrite
  <1>10. CASE SubmitPublish
    BY <1>10 DEF SubmitPublish
  <1>11. CASE on_helper_disconnected
    BY <1>11 DEF on_helper_disconnected
  <1>12. CASE Connect
    BY <1>12 DEF Connect, controllerVars
  <1>13. CASE EndSession
    BY <1>13 DEF EndSession, controllerVars
  <1>14. CASE UNCHANGED <<ipcVars, connected_>>
    BY <1>14 DEF ipcVars
  <1> QED BY <1>1, <1>2, <1>3, <1>4, <1>5, <1>6, <1>7, <1>8, <1>9, <1>10, <1>11, <1>12, <1>13, <1>14,
             Footprint DEF Next, IpcThread, vars, shimVars, controllerVars

(* The RunFrame thread's types, and what it has copied.                    *)
LEMMA FrameTypes ==
    ControllerTypeOK /\ HmdTypeOK /\ FrameTypeOK /\ CopyInv /\ [Next]_vars => FrameTypeOK' /\ CopyInv'
  <1> SUFFICES ASSUME ControllerTypeOK, HmdTypeOK, FrameTypeOK, CopyInv, [Next]_vars
               PROVE  FrameTypeOK' /\ CopyInv'
    OBVIOUS
  <1> USE DeviceFacts DEF FrameTypeOK, CopyInv
  <1>1. ASSUME NEW d \in Devices, consume_registration_request(d) PROVE FrameTypeOK' /\ CopyInv'
    BY <1>1 DEF consume_registration_request
  <1>2. CASE registration_failed \/ TrackedDeviceAdded
    BY <1>2 DEF registration_failed, TrackedDeviceAdded
  <1>3. CASE ActivateHmd
    BY <1>3 DEF ActivateHmd, HmdTypeOK
  <1>4. CASE ActivateController
    BY <1>4 DEF ActivateController, ControllerTypeOK
  <1>5. CASE NothingToRegister
    BY <1>5 DEF NothingToRegister
  <1>6. CASE push_pending_geometry
    <2>1. dirty' \in [properties : BOOLEAN, geometry : BOOLEAN]
      <3>1. (activated_[Hmd] /\ geometry_dirty_) \in BOOLEAN /\ properties_dirty_ \in BOOLEAN
        BY Zenon DEF HmdTypeOK
      <3>2. \A b \in BOOLEAN : /\ [dirty EXCEPT !.geometry = b] \in [properties : BOOLEAN, geometry : BOOLEAN]
                               /\ [dirty EXCEPT !.properties = b] \in [properties : BOOLEAN, geometry : BOOLEAN]
        OBVIOUS
      <3>3. [properties |-> FALSE, geometry |-> FALSE] \in [properties : BOOLEAN, geometry : BOOLEAN]
        OBVIOUS
      <3>4. \/ \E b \in BOOLEAN : dirty' = [dirty EXCEPT !.geometry = b]
            \/ \E b \in BOOLEAN : dirty' = [dirty EXCEPT !.properties = b]
            \/ dirty' = [properties |-> FALSE, geometry |-> FALSE]
        BY <1>6, <3>1, Zenon DEF push_pending_geometry
      <3> QED BY <3>2, <3>3, <3>4
    <2>2. pcR' \in {"exchange", "idle", "apply"} /\ subject' = NoDevice /\ copied' = 0
      BY <1>6 DEF push_pending_geometry
    <2> QED BY <2>1, <2>2
  <1>7. CASE UNCHANGED frameVars
    BY <1>7 DEF frameVars
  <1> QED BY <1>1, <1>2, <1>3, <1>4, <1>5, <1>6, <1>7, Footprint DEF Next, RunFrame, vars, shimVars

(* What the controllers hold, and what vrserver has of them.               *)
LEMMA ControllerTypes ==
    PipeTypeOK /\ IpcTypeOK /\ JobInv /\ ControllerTypeOK /\ CopyInv /\ [Next]_vars => ControllerTypeOK'
  <1> SUFFICES ASSUME PipeTypeOK, IpcTypeOK, JobInv, ControllerTypeOK, CopyInv, [Next]_vars
               PROVE  ControllerTypeOK'
    OBVIOUS
  <1> USE DeviceFacts DEF ControllerTypeOK
  <1>1. CASE UNCHANGED controllerVars
    BY <1>1 DEF controllerVars
  <1>2. ASSUME NEW c \in Controllers, on_device_add(c) \/ on_device_remove(c) PROVE ControllerTypeOK'
    BY <1>2 DEF on_device_add, on_device_remove
  <1>3. ASSUME NEW c \in Controllers, on_pose_update(c) PROVE ControllerTypeOK'
    BY <1>3 DEF on_pose_update
  <1>4. ASSUME NEW c \in Controllers, on_input_update(c) PROVE ControllerTypeOK'
    <2>1. toShim # <<>> /\ Head(toShim) \in Message /\ Head(toShim).type = "input"
      BY <1>4 DEF on_input_update, Receives, PipeTypeOK
    <2>2. Head(toShim).input \in 0 .. MaxInputs
      BY <2>1, MessageFacts
    <2> QED BY <1>4, <2>2 DEF on_input_update
  <1>5. CASE SubmitWrite
    BY <1>5 DEF SubmitWrite, IpcTypeOK, JobInv
  <1>6. CASE SubmitPublish
    BY <1>6 DEF SubmitPublish, IpcTypeOK, JobInv
  <1>7. CASE on_helper_disconnected
    BY <1>7 DEF on_helper_disconnected
  <1>8. CASE ActivateController
    BY <1>8 DEF ActivateController, CopyInv
  <1>9. OnConfig \/ ConfigCheck \/ ConfigDirty \/ Want => UNCHANGED controllerVars
    BY DEF OnConfig, ConfigCheck, ConfigDirty, Want
  <1>10. RunFrame /\ ~ActivateController => UNCHANGED controllerVars
    BY DEF RunFrame, consume_registration_request, registration_failed, TrackedDeviceAdded,
           ActivateHmd, NothingToRegister, push_pending_geometry
  <1> QED BY <1>1, <1>2, <1>3, <1>4, <1>5, <1>6, <1>7, <1>8, <1>9, <1>10, Footprint
          DEF Next, IpcThread, vars, shimVars

(* The registration flags.                                                 *)
LEMMA RegisterTypes ==
    IpcTypeOK /\ JobInv /\ FrameTypeOK /\ RegisterTypeOK /\ AddInv /\ [Next]_vars => RegisterTypeOK'
  <1> SUFFICES ASSUME IpcTypeOK, JobInv, FrameTypeOK, RegisterTypeOK, AddInv, [Next]_vars
               PROVE  RegisterTypeOK'
    OBVIOUS
  <1> USE DeviceFacts DEF RegisterTypeOK
  <1>1. CASE UNCHANGED registerVars
    BY <1>1 DEF registerVars
  <1>2. CASE Want
    BY <1>2 DEF Want, JobInv
  <1>3. ASSUME NEW d \in Devices, consume_registration_request(d) PROVE RegisterTypeOK'
    BY <1>3 DEF consume_registration_request
  <1>4. CASE registration_failed
    BY <1>4 DEF registration_failed, AddInv
  <1>5. CASE TrackedDeviceAdded
    BY <1>5 DEF TrackedDeviceAdded, AddInv
  <1>6. CASE ActivateHmd
    BY <1>6 DEF ActivateHmd
  <1>7. CASE ActivateController
    BY <1>7 DEF ActivateController
  <1>8. NothingToRegister \/ push_pending_geometry => UNCHANGED registerVars
    BY DEF NothingToRegister, push_pending_geometry
  <1>9. IpcThread /\ ~Want => UNCHANGED registerVars
    BY DEF IpcThread, OnConfig, ConfigCheck, ConfigDirty, on_device_add, on_device_remove,
           on_pose_update, on_input_update, SubmitWrite, SubmitPublish, on_helper_disconnected
  <1> QED BY <1>1, <1>2, <1>3, <1>4, <1>5, <1>6, <1>7, <1>8, <1>9, Footprint
          DEF Next, RunFrame, vars, shimVars

(* The headset's configuration, here and in vrserver.                      *)
LEMMA HmdTypes ==
    PipeTypeOK /\ HmdTypeOK /\ CopyInv /\ [Next]_vars => HmdTypeOK'
  <1> SUFFICES ASSUME PipeTypeOK, HmdTypeOK, CopyInv, [Next]_vars PROVE HmdTypeOK'
    OBVIOUS
  <1> USE DEF HmdTypeOK
  <1>1. CASE UNCHANGED hmdVars
    BY <1>1 DEF hmdVars
  <1>2. CASE OnConfig
    <2>1. toShim # <<>> /\ Head(toShim) \in Message /\ Head(toShim).type = "config"
      BY <1>2 DEF OnConfig, Receives, PipeTypeOK
    <2>2. Head(toShim).config \in Configs
      BY <2>1, MessageFacts
    <2> QED BY <1>2, <2>2 DEF OnConfig
  <1>3. CASE ConfigDirty
    BY <1>3 DEF ConfigDirty
  <1>4. CASE ActivateHmd
    BY <1>4 DEF ActivateHmd, CopyInv
  <1>5. CASE push_pending_geometry
    BY <1>5 DEF push_pending_geometry
  <1>6. IpcThread /\ ~OnConfig /\ ~ConfigDirty => UNCHANGED hmdVars
    BY DEF IpcThread, ConfigCheck, Want, on_device_add, on_device_remove,
           on_pose_update, on_input_update, SubmitWrite, SubmitPublish, on_helper_disconnected
  <1>7. RunFrame /\ ~ActivateHmd /\ ~push_pending_geometry => UNCHANGED hmdVars
    BY DEF RunFrame, consume_registration_request, registration_failed, TrackedDeviceAdded,
           ActivateController, NothingToRegister
  <1> QED BY <1>1, <1>2, <1>3, <1>4, <1>5, <1>6, <1>7, Footprint DEF Next, vars, shimVars

-----------------------------------------------------------------------------
(* vrserver accepts a device while it is marked registered, and only the   *)
(* RunFrame thread marks it.                                               *)
LEMMA AddStep == RegisterTypeOK /\ FrameTypeOK /\ AddInv /\ [Next]_vars => AddInv'
  <1> SUFFICES ASSUME RegisterTypeOK, FrameTypeOK, AddInv, [Next]_vars PROVE AddInv'
    OBVIOUS
  <1> USE DeviceFacts DEF RegisterTypeOK, FrameTypeOK, AddInv
  <1>1. CASE UNCHANGED <<registered_, activated_, added, pcR, subject>>
    BY <1>1
  <1>2. ASSUME NEW d \in Devices, consume_registration_request(d) PROVE AddInv'
    BY <1>2 DEF consume_registration_request, Wanting
  <1>3. CASE registration_failed
    BY <1>3 DEF registration_failed
  <1>4. CASE TrackedDeviceAdded
    BY <1>4 DEF TrackedDeviceAdded
  <1>5. CASE ActivateHmd
    BY <1>5 DEF ActivateHmd
  <1>6. CASE ActivateController
    BY <1>6 DEF ActivateController
  <1>7. CASE NothingToRegister
    BY <1>7 DEF NothingToRegister, registerVars
  <1>8. CASE push_pending_geometry
    BY <1>8 DEF push_pending_geometry, registerVars
  <1> QED BY <1>1, <1>2, <1>3, <1>4, <1>5, <1>6, <1>7, <1>8, Footprint
          DEF Next, RunFrame, vars, shimVars, registerVars, frameVars

(* A request is withdrawn by the step that marks the device registered,    *)
(* and made again by the one that takes the mark back.                     *)
LEMMA RegisterStep ==
    IpcTypeOK /\ ControllerTypeOK /\ RegisterTypeOK /\ JobInv /\ AddInv /\ RegisterInv /\ [Next]_vars
      => RegisterInv'
  <1> SUFFICES ASSUME IpcTypeOK, ControllerTypeOK, RegisterTypeOK, JobInv, AddInv, RegisterInv, [Next]_vars
               PROVE  RegisterInv'
    OBVIOUS
  <1> USE DeviceFacts DEF RegisterInv
  <1>1. CASE UNCHANGED <<ipcVars, connected_, registerVars>>
    BY <1>1 DEF ipcVars, registerVars
  <1>2. CASE Connect
    BY <1>2 DEF Connect, JobInv, controllerVars, registerVars
  <1>3. CASE EndSession
    BY <1>3 DEF EndSession, controllerVars, registerVars
  <1>4. CASE OnConfig
    BY <1>4 DEF OnConfig, Receives, controllerVars, registerVars
  <1>5. CASE ConfigCheck
    BY <1>5 DEF ConfigCheck, JobInv, controllerVars, registerVars
  <1>6. CASE ConfigDirty
    BY <1>6 DEF ConfigDirty, controllerVars, registerVars
  <1>7. CASE Want
    BY <1>7 DEF Want, JobInv, controllerVars, RegisterTypeOK
  <1>8. ASSUME NEW c \in Controllers, on_device_add(c) PROVE RegisterInv'
    BY <1>8 DEF on_device_add, Receives, registerVars, ControllerTypeOK
  <1>9. ASSUME NEW c \in Controllers, on_device_remove(c) PROVE RegisterInv'
    BY <1>9 DEF on_device_remove, Receives, registerVars, ControllerTypeOK
  <1>10. ASSUME NEW c \in Controllers, on_pose_update(c) PROVE RegisterInv'
    BY <1>10 DEF on_pose_update, Receives, registerVars, ControllerTypeOK
  <1>11. ASSUME NEW c \in Controllers, on_input_update(c) PROVE RegisterInv'
    BY <1>11 DEF on_input_update, Receives, registerVars, ipcVars
  <1>12. CASE SubmitWrite
    BY <1>12 DEF SubmitWrite, registerVars
  <1>13. CASE SubmitPublish
    BY <1>13 DEF SubmitPublish, registerVars
  <1>14. CASE on_helper_disconnected
    BY <1>14 DEF on_helper_disconnected, registerVars, ControllerTypeOK
  <1>15. ASSUME NEW d \in Devices, consume_registration_request(d) PROVE RegisterInv'
    BY <1>15 DEF consume_registration_request, ipcVars, controllerVars, RegisterTypeOK
  <1>16. CASE registration_failed
    BY <1>16 DEF registration_failed, ipcVars, controllerVars, RegisterTypeOK, AddInv
  <1>17. RunFrame /\ ~registration_failed
           => \/ \E d \in Devices : consume_registration_request(d)
              \/ UNCHANGED <<registered_, registration_wanted_>>
    BY DEF RunFrame, TrackedDeviceAdded, ActivateHmd, ActivateController, NothingToRegister,
           push_pending_geometry, registerVars
  <1>18. CASE UNCHANGED <<ipcVars, connected_, registered_, registration_wanted_>>
    BY <1>18 DEF ipcVars
  <1> QED BY <1>1, <1>2, <1>3, <1>4, <1>5, <1>6, <1>7, <1>8, <1>9, <1>10, <1>11, <1>12, <1>13, <1>14,
             <1>15, <1>16, <1>17, <1>18, Footprint
          DEF Next, IpcThread, vars, shimVars, controllerVars, registerVars

(* The flag is set after the configuration, taken before it is applied.    *)
LEMMA ApplyStep ==
    IpcTypeOK /\ RegisterTypeOK /\ HmdTypeOK /\ FrameTypeOK /\ JobInv /\ AddInv /\ ApplyInv /\ [Next]_vars
      => ApplyInv'
  <1> SUFFICES ASSUME IpcTypeOK, RegisterTypeOK, HmdTypeOK, FrameTypeOK, JobInv, AddInv, ApplyInv, [Next]_vars
               PROVE  ApplyInv'
    OBVIOUS
  <1> USE DeviceFacts DEF ApplyInv
  <1>1. CASE UNCHANGED <<pcI, activated_, hmdVars, frameVars>>
    BY <1>1 DEF hmdVars, frameVars
  <1>2. CASE Connect
    BY <1>2 DEF Connect, hmdVars, frameVars, registerVars
  <1>3. CASE EndSession
    BY <1>3 DEF EndSession, hmdVars, frameVars, registerVars
  <1>4. CASE OnConfig
    BY <1>4 DEF OnConfig, Receives, registerVars
  <1>5. CASE ConfigCheck
    <2>1. activated_[Hmd] => registered_[Hmd]
      BY DEF AddInv
    <2>2. (pcR = "copy" /\ subject = Hmd) => registered_[Hmd]
      BY DEF AddInv
    <2> QED BY <1>5, <2>1, <2>2 DEF ConfigCheck, hmdVars, frameVars, registerVars
  <1>6. CASE ConfigDirty
    BY <1>6 DEF ConfigDirty, frameVars, registerVars
  <1>7. ASSUME pcI \notin {"check", "dirty", "geometry"}, UNCHANGED <<activated_, hmdVars, frameVars>>
        PROVE  ApplyInv'
    BY <1>7 DEF hmdVars, frameVars
  <1>8. IpcThread /\ ~OnConfig /\ ~ConfigCheck /\ ~ConfigDirty
          => pcI \notin {"check", "dirty", "geometry"} /\ UNCHANGED <<activated_, hmdVars, frameVars>>
    BY DEF IpcThread, Want, on_device_add, on_device_remove, Receives, registerVars,
           on_pose_update, on_input_update, SubmitWrite, SubmitPublish, on_helper_disconnected
  <1>9. ASSUME NEW d \in Devices, consume_registration_request(d) PROVE ApplyInv'
    BY <1>9 DEF consume_registration_request, hmdVars, ipcVars
  <1>10. CASE registration_failed \/ TrackedDeviceAdded
    BY <1>10 DEF registration_failed, TrackedDeviceAdded, hmdVars, ipcVars
  <1>11. CASE ActivateHmd
    BY <1>11 DEF ActivateHmd, ipcVars, RegisterTypeOK
  <1>12. CASE ActivateController
    BY <1>12 DEF ActivateController, hmdVars, ipcVars, RegisterTypeOK
  <1>13. CASE NothingToRegister
    BY <1>13 DEF NothingToRegister, hmdVars, ipcVars, registerVars
  <1>14. CASE push_pending_geometry
    BY <1>14 DEF push_pending_geometry, ipcVars, registerVars, FrameTypeOK, HmdTypeOK
  <1> QED BY <1>1, <1>2, <1>3, <1>4, <1>5, <1>6, <1>7, <1>8, <1>9, <1>10, <1>11, <1>12, <1>13, <1>14,
             Footprint DEF Next, RunFrame, vars, shimVars, registerVars, ipcVars

-----------------------------------------------------------------------------
(* A controller that is not connected has no pose, or is about to be given *)
(* none.                                                                   *)
LEMMA GoneStep ==
    PipeTypeOK /\ IpcTypeOK /\ ControllerTypeOK /\ JobInv /\ GoneInv /\ [Next]_vars => GoneInv'
  <1> SUFFICES ASSUME PipeTypeOK, IpcTypeOK, ControllerTypeOK, JobInv, GoneInv, [Next]_vars
               PROVE  GoneInv'
    OBVIOUS
  <1> USE DeviceFacts DEF GoneInv, Taken, Connected
  <1>1. CASE UNCHANGED <<ipcVars, connected_, last_pose_>>
    BY <1>1 DEF ipcVars
  <1>2. CASE Connect \/ EndSession
    BY <1>2 DEF Connect, EndSession, controllerVars
  <1>3. CASE OnConfig \/ ConfigCheck \/ ConfigDirty
    BY <1>3 DEF OnConfig, ConfigCheck, ConfigDirty, Receives, controllerVars
  <1>4. CASE Want
    BY <1>4 DEF Want, controllerVars
  <1>5. ASSUME NEW c \in Controllers, on_device_add(c) PROVE GoneInv'
    BY <1>5 DEF on_device_add, Receives, ControllerTypeOK
  <1>6. ASSUME NEW c \in Controllers, on_device_remove(c) PROVE GoneInv'
    BY <1>6 DEF on_device_remove, Receives, ControllerTypeOK
  <1>7. ASSUME NEW c \in Controllers, on_pose_update(c) PROVE GoneInv'
    <2>1. job' = [device |-> c, pose |-> Head(toShim).pose] /\ pcI' \in {"wantWrite", "write"}
          /\ last_pose_' = last_pose_ /\ pcI = "read"
      BY <1>7 DEF on_pose_update, Receives
    <2>2. connected_' = [connected_ EXCEPT ![c] = connected_[c] \/ (Head(toShim).pose # 0 /\ ~connected_[c])]
      BY <1>7 DEF on_pose_update
    <2>3. Taken(c)' = Head(toShim).pose
      BY <2>1
    <2>4. ~connected_'[c] => Head(toShim).pose = 0
      BY <2>2, Zenon DEF ControllerTypeOK
    <2>5. \A d \in Controllers \ {c} : Taken(d)' = Taken(d) /\ connected_'[d] = connected_[d]
      BY <2>1, <2>2 DEF ControllerTypeOK
    <2> QED BY <2>3, <2>4, <2>5
  <1>8. ASSUME NEW c \in Controllers, on_input_update(c) PROVE GoneInv'
    BY <1>8 DEF on_input_update, Receives, ipcVars
  <1>9. CASE SubmitWrite
    BY <1>9 DEF SubmitWrite, ControllerTypeOK, JobInv
  <1>10. CASE SubmitPublish
    BY <1>10 DEF SubmitPublish
  <1>11. CASE on_helper_disconnected
    BY <1>11 DEF on_helper_disconnected, ControllerTypeOK
  <1> QED BY <1>1, <1>2, <1>3, <1>4, <1>5, <1>6, <1>7, <1>8, <1>9, <1>10, <1>11, Footprint
          DEF Next, IpcThread, vars, shimVars, controllerVars

(* Both ends of the pipe, and the link between them.                       *)
LEMMA LinkStep == PipeTypeOK /\ IpcTypeOK /\ LinkInv /\ [Next]_vars => LinkInv'
  <1> SUFFICES ASSUME PipeTypeOK, IpcTypeOK, LinkInv, [Next]_vars PROVE LinkInv'
    OBVIOUS
  <1> USE DEF LinkInv, InSession
  <1>1. CASE UNCHANGED <<pcI, pcH, link, batch>>
    BY <1>1
  <1>2. CASE collect \/ flush_bridge
    BY <1>2 DEF collect, flush_bridge, shimVars, ipcVars
  <1>3. CASE disconnect_client
    BY <1>3 DEF disconnect_client, shimVars, ipcVars
  <1>4. CASE Connect
    BY <1>4 DEF Connect
  <1>5. CASE EndSession
    BY <1>5 DEF EndSession, PipeTypeOK
  <1>6. CASE HelperCrash
    BY <1>6 DEF HelperCrash, shimVars, ipcVars, PipeTypeOK
  <1>7. IpcThread => (InSession <=> InSession')
    BY DEF IpcThread, OnConfig, ConfigCheck, ConfigDirty, Want, on_device_add, on_device_remove, ipcVars,
           on_pose_update, on_input_update, Receives, SubmitWrite, SubmitPublish, on_helper_disconnected
  <1>8. CASE IpcThread
    BY <1>7, <1>8, Footprint
  <1> QED BY <1>1, <1>2, <1>3, <1>4, <1>5, <1>6, <1>8, Footprint
          DEF Next, PipeThread, vars, shimVars, ipcVars, pipeVars

(* Bridge's own order: set_pose, then set_present.                         *)
LEMMA BridgeStep == BridgeTypeOK /\ BridgeInv /\ [Next]_vars => BridgeInv'
  <1> SUFFICES ASSUME BridgeTypeOK, BridgeInv, [Next]_vars PROVE BridgeInv'
    OBVIOUS
  <1> USE DeviceFacts DEF BridgeInv, BridgeTypeOK, Present
  <1>1. ASSUME NEW config \in Configs, set_config(config) PROVE BridgeInv'
    BY <1>1 DEF set_config
  <1>2. ASSUME NEW c \in Controllers, NEW usable \in BOOLEAN, set_pose(c, usable) PROVE BridgeInv'
    BY <1>2 DEF set_pose
  <1>3. CASE set_present
    BY <1>3 DEF set_present
  <1>4. ASSUME NEW c \in Controllers, set_input(c) PROVE BridgeInv'
    BY <1>4 DEF set_input
  <1>5. CASE on_client_gone
    BY <1>5 DEF on_client_gone
  <1>6. CASE HelperCrash
    BY <1>6 DEF HelperCrash
  <1>7. CASE UNCHANGED bridgeVars
    BY <1>7 DEF bridgeVars
  <1> QED BY <1>1, <1>2, <1>3, <1>4, <1>5, <1>6, <1>7, Footprint DEF Next, SessionThread, vars

(* The cursor against the generations.                                     *)
LEMMA CursorStep ==
    BridgeTypeOK /\ PipeTypeOK /\ BridgeInv /\ CursorInv /\ [Next]_vars => CursorInv'
  <1> SUFFICES ASSUME BridgeTypeOK, PipeTypeOK, BridgeInv, CursorInv, [Next]_vars PROVE CursorInv'
    OBVIOUS
  <1> USE DEF CursorInv, Present
  <1>t. /\ cursor.config \in Nat
        /\ \A c \in Controllers : cursor.presence[c] \in Nat /\ cursor.pose[c] \in Nat
    BY DEF PipeTypeOK, Cursor
  <1>1. ASSUME NEW config \in Configs, set_config(config) PROVE CursorInv'
    BY <1>1, <1>t DEF set_config, pipeVars, BridgeTypeOK
  <1>2. ASSUME NEW c \in Controllers, NEW usable \in BOOLEAN, set_pose(c, usable) PROVE CursorInv'
    BY <1>2, <1>t DEF set_pose, pipeVars, BridgeTypeOK
  <1>3. CASE set_present
    BY <1>3, <1>t, DeviceFacts DEF set_present, pipeVars, BridgeTypeOK
  <1>4. ASSUME NEW c \in Controllers, set_input(c) PROVE CursorInv'
    BY <1>4 DEF set_input, pipeVars
  <1>5. CASE on_client_gone
    BY <1>5, <1>t DEF on_client_gone, pipeVars, BridgeTypeOK
  <1>6. CASE HelperCrash
    BY <1>6 DEF HelperCrash
  <1>7. CASE UNCHANGED <<bridgeVars, pcH, cursor>>
    BY <1>7 DEF bridgeVars
  <1>8. CASE collect
    BY <1>8 DEF collect, bridgeVars, UpToDate, BridgeTypeOK
  <1>9. CASE flush_bridge \/ disconnect_client
    BY <1>9 DEF flush_bridge, disconnect_client, bridgeVars
  <1>10. CASE Connect
    BY <1>10 DEF Connect, bridgeVars, FreshCursor, BridgeInv, BridgeTypeOK, Present
  <1> QED BY <1>1, <1>2, <1>3, <1>4, <1>5, <1>6, <1>7, <1>8, <1>9, <1>10, Footprint
          DEF Next, SessionThread, PipeThread, vars, pipeVars

-----------------------------------------------------------------------------
(* What a queue and a batch leave behind, step by step.                    *)

(* The head of the queue is handled.                                       *)
LEMMA AfterHead ==
  ASSUME NEW T, NEW q \in Seq(T), q # <<>>, NEW S, NEW V, NEW v, NEW w, After(q, S, V, v, w)
  PROVE  After(Tail(q), S, V, IF Head(q) \in S THEN V[Head(q)] ELSE v, w)
  <1> DEFINE t == Tail(q)
  <1>1. 1 \in DOMAIN q /\ Head(q) = q[1] /\ DOMAIN q = 1 .. Len(q) /\ Len(q) \in Nat
    OBVIOUS
  <1>2. \A i \in DOMAIN t : i \in Nat \ {0} /\ i + 1 \in DOMAIN q /\ t[i] = q[i + 1]
    OBVIOUS
  <1>3. \A i \in DOMAIN q : i \in Nat /\ (i # 1 => i - 1 \in DOMAIN t /\ t[i - 1] = q[i])
    OBVIOUS
  <1> HIDE DEF t
  <1>4. CASE v = w /\ \A i \in DOMAIN q : q[i] \notin S
    BY <1>4, <1>1, <1>2 DEF After, t
  <1>5. ASSUME NEW i \in DOMAIN q, q[i] \in S, V[q[i]] = w, \A j \in DOMAIN q : j > i => q[j] \notin S
        PROVE  After(t, S, V, IF Head(q) \in S THEN V[Head(q)] ELSE v, w)
    <2>1. CASE i = 1
      <3>1. \A j \in DOMAIN t : t[j] \notin S
        BY <1>2, <1>5, <2>1
      <3> QED BY <3>1, <2>1, <1>1, <1>5 DEF After
    <2>2. CASE i # 1
      <3>1. i - 1 \in DOMAIN t /\ t[i - 1] \in S /\ V[t[i - 1]] = w
        BY <1>3, <1>5, <2>2
      <3>2. \A j \in DOMAIN t : j > i - 1 => t[j] \notin S
        BY <1>2, <1>3, <1>5
      <3> QED BY <3>1, <3>2 DEF After
    <2> QED BY <2>1, <2>2
  <1> QED BY <1>4, <1>5 DEF After, t

(* A message joins the queue.                                              *)
LEMMA AfterAppend ==
  ASSUME NEW T, NEW q \in Seq(T), NEW m \in T, NEW S, NEW V, NEW v, NEW w
  PROVE  /\ m \in S => After(Append(q, m), S, V, v, V[m])
         /\ m \notin S /\ After(q, S, V, v, w) => After(Append(q, m), S, V, v, w)
  <1> DEFINE a == Append(q, m)
  <1>1. /\ \A i \in DOMAIN q : i \in DOMAIN a /\ a[i] = q[i] /\ i \in Nat /\ i <= Len(q)
        /\ Len(q) + 1 \in DOMAIN a /\ a[Len(q) + 1] = m /\ Len(q) \in Nat
        /\ \A i \in DOMAIN a : i \in Nat /\ i <= Len(q) + 1 /\ (i \in DOMAIN q \/ i = Len(q) + 1)
    OBVIOUS
  <1> HIDE DEF a
  <1>2. ASSUME m \in S PROVE After(a, S, V, v, V[m])
    <2>1. \A j \in DOMAIN a : j > Len(q) + 1 => a[j] \notin S
      BY <1>1
    <2> QED BY <1>1, <1>2, <2>1 DEF After
  <1>3. ASSUME m \notin S, After(q, S, V, v, w) PROVE After(a, S, V, v, w)
    <2>1. CASE v = w /\ \A i \in DOMAIN q : q[i] \notin S
      BY <1>1, <1>3, <2>1 DEF After
    <2>2. ASSUME NEW i \in DOMAIN q, q[i] \in S, V[q[i]] = w, \A j \in DOMAIN q : j > i => q[j] \notin S
          PROVE  After(a, S, V, v, w)
      <3>1. i \in DOMAIN a /\ a[i] \in S /\ V[a[i]] = w /\ \A j \in DOMAIN a : j > i => a[j] \notin S
        BY <1>1, <1>3, <2>2
      <3> QED BY <3>1 DEF After
    <2> QED BY <1>3, <2>1, <2>2 DEF After
  <1> QED BY <1>2, <1>3 DEF a

(* Taking the head off a queue folds it into the value the reader holds: what the whole
   queue will finally leave there does not change. *)
LEMMA FinallyHead ==
  ASSUME NEW T, NEW q \in Seq(T), q # <<>>, NEW B, NEW S, NEW V, NEW v, NEW w, Finally(q, B, S, V, v, w)
  PROVE  Finally(Tail(q), B, S, V, IF Head(q) \in S THEN V[Head(q)] ELSE v, w)
  <1>1. CASE \E m \in B : m \in S /\ V[m] = w /\ \A k \in B : k \in S => Order(k) <= Order(m)
    BY <1>1 DEF Finally
  <1>2. CASE (\A m \in B : m \notin S) /\ After(q, S, V, v, w)
    BY <1>2, AfterHead DEF Finally
  <1> QED BY <1>1, <1>2 DEF Finally

(* The place of a message among those of a batch.                          *)
LEMMA OrderNat == \A m \in Message : Order(m) \in Nat
  <1> TAKE m \in Message
  <1>1. m.type \in {"config", "add", "remove", "pose", "input"} /\ (m.type # "config" => m.device \in Nat)
    BY MessageFacts DEF Controllers
  <1> QED BY <1>1, DeviceAssumption DEF Order

(* flush_bridge sends the first message of the batch.                      *)
LEMMA FinallyFlush ==
  ASSUME NEW q \in Seq(Message), NEW B \in SUBSET Message, NEW m \in B,
         \A k \in B : Order(m) <= Order(k), \A k, l \in B : Order(k) = Order(l) => k = l,
         NEW S, NEW V, NEW v, NEW w, Finally(q, B, S, V, v, w)
  PROVE  Finally(Append(q, m), B \ {m}, S, V, v, w)
  <1> DEFINE C == B \ {m}
  <1>1. CASE m \notin S
    <2>1. ASSUME NEW k \in B, k \in S, V[k] = w, \A l \in B : l \in S => Order(l) <= Order(k)
          PROVE  Finally(Append(q, m), C, S, V, v, w)
      <3>1. k \in C /\ \A l \in C : l \in S => Order(l) <= Order(k)
        BY <1>1, <2>1
      <3> QED BY <2>1, <3>1 DEF Finally
    <2>2. CASE (\A k \in B : k \notin S) /\ After(q, S, V, v, w)
      <3>1. After(Append(q, m), S, V, v, w)
        BY <1>1, <2>2, AfterAppend
      <3> QED BY <2>2, <3>1 DEF Finally
    <2> QED BY <2>1, <2>2 DEF Finally
  <1>2. CASE m \in S
    <2>1. PICK k \in B : k \in S /\ V[k] = w /\ \A l \in B : l \in S => Order(l) <= Order(k)
      BY <1>2 DEF Finally
    <2>2. CASE k = m
      <3>1. \A l \in C : l \notin S
        <4> SUFFICES ASSUME NEW l \in C, l \in S PROVE FALSE
          OBVIOUS
        <4>1. Order(l) <= Order(m) /\ Order(m) <= Order(l)
          BY <2>1, <2>2
        <4>2. Order(l) \in Nat /\ Order(m) \in Nat
          BY OrderNat
        <4>3. Order(l) = Order(m)
          BY <4>1, <4>2
        <4> QED BY <4>3
      <3>2. After(Append(q, m), S, V, v, V[m])
        BY <1>2, AfterAppend
      <3> QED BY <2>1, <2>2, <3>1, <3>2 DEF Finally
    <2>3. CASE k # m
      <3>1. k \in C /\ \A l \in C : l \in S => Order(l) <= Order(k)
        BY <2>1, <2>3
      <3> QED BY <2>1, <3>1 DEF Finally
    <2> QED BY <2>2, <2>3
  <1> QED BY <1>1, <1>2

(* Messages of one device and kind: a batch has at most one of each.       *)
LEMMA BatchOrder ==
  ASSUME BridgeTypeOK, NEW m \in News, NEW k \in News, Order(m) = Order(k)
  PROVE  m = k
  <1> DEFINE Cfg == [type |-> "config", config |-> config_]
             Prs(c) == [type |-> IF present_[c] THEN "add" ELSE "remove", device |-> c]
             Pos(c) == [type |-> "pose", device |-> c, pose |-> pose_[c]]
             Inp(c) == [type |-> "input", device |-> c, input |-> input_gen_[c]]
  <1>1. \A n \in News : \/ n = Cfg
                        \/ \E c \in Controllers : n = Prs(c) \/ n = Pos(c) \/ n = Inp(c)
    BY DEF News, Unseen
  <1>2. /\ Order(Cfg) = 0
        /\ \A c \in Controllers : /\ Order(Prs(c)) = c /\ Order(Pos(c)) = kDeviceCount + c
                                  /\ Order(Inp(c)) = 2 * kDeviceCount + c
    BY DEF Order
  <1> HIDE DEF Cfg, Prs, Pos, Inp
  <1>3. \A c \in Controllers : c \in Nat /\ 0 < c /\ c < kDeviceCount
    BY DeviceAssumption DEF Controllers
  <1> QED BY <1>1, <1>2, <1>3, DeviceAssumption

(* No two messages of the batch that the pipe thread is sending have the same place in
   it, so it is sent in one order. *)
LEMMA BatchStep == BridgeTypeOK /\ BatchInv /\ [Next]_vars => BatchInv'
  <1> SUFFICES ASSUME BridgeTypeOK, BatchInv, [Next]_vars PROVE BatchInv'
    OBVIOUS
  <1>1. CASE collect
    BY <1>1, BatchOrder DEF collect, BatchInv
  <1>2. CASE batch' \subseteq batch
    BY <1>2 DEF BatchInv
  <1>3. flush_bridge \/ disconnect_client \/ Connect \/ HelperCrash => batch' \subseteq batch
    BY DEF flush_bridge, disconnect_client, Connect, HelperCrash
  <1> QED BY <1>1, <1>2, <1>3, Footprint DEF Next, PipeThread, vars, pipeVars

(* Handled: a message, or nothing, has been handled.                        *)
Handled ==
    \/ /\ toShim' = toShim /\ hmdConfig' = hmdConfig
       /\ \A c \in Controllers : Taken(c)' = Taken(c) /\ Connected(c)' = Connected(c)
    \/ /\ toShim # <<>> /\ toShim' = Tail(toShim)
       /\ hmdConfig' = IF Head(toShim) \in ConfigNews THEN ConfigSays[Head(toShim)] ELSE hmdConfig
       /\ \A c \in Controllers :
            /\ Taken(c)' = IF Head(toShim) \in PoseNews(c) THEN PoseSays(c)[Head(toShim)] ELSE Taken(c)
            /\ Connected(c)' = IF Head(toShim) \in PresenceNews(c)
                                 THEN PresenceSays(c)[Head(toShim)] ELSE Connected(c)

(* What the IPC thread's steps in a session do to what the shim ends up    *)
(* with: a received message sets what it says, and nothing else does.      *)
LEMMA Digested ==
  ASSUME PipeTypeOK, IpcTypeOK, ControllerTypeOK, JobInv, GoneInv, InSession, IpcThread
  PROVE  Handled
  <1> DEFINE h == Head(toShim)
  <1>h. toShim # <<>> => h \in Message
    BY DEF PipeTypeOK
  <1>m. \A m \in Message : m.type # "config" => m.device \in Controllers
    BY MessageFacts
  <1> HIDE DEF h
  <1>1. CASE OnConfig
    <2>1. toShim # <<>> /\ h.type = "config" /\ toShim' = Tail(toShim) /\ hmdConfig' = h.config
          /\ pcI = "read" /\ pcI' = "check" /\ UNCHANGED <<connected_, last_pose_>>
      BY <1>1 DEF OnConfig, Receives, controllerVars, h
    <2>2. h \in ConfigNews /\ ConfigSays[h] = h.config
      BY <1>h, <2>1 DEF ConfigNews, ConfigSays
    <2>3. \A c \in Controllers : h \notin PoseNews(c) /\ h \notin PresenceNews(c)
      BY <2>1 DEF PoseNews, PresenceNews
    <2>4. \A c \in Controllers : Taken(c)' = Taken(c) /\ Connected(c)' = Connected(c)
      BY <2>1 DEF Taken, Connected
    <2> QED BY <2>1, <2>2, <2>3, <2>4 DEF h, Handled
  <1>2. CASE ConfigCheck \/ ConfigDirty
    BY <1>2 DEF ConfigCheck, ConfigDirty, pipeVars, hmdVars, controllerVars, Taken, Connected, Handled
  <1>3. CASE Want
    BY <1>3 DEF Want, pipeVars, hmdVars, controllerVars, Taken, Connected, Handled
  <1>4. ASSUME NEW c \in Controllers, on_device_add(c) PROVE Handled
    <2>1. toShim # <<>> /\ h.type = "add" /\ h.device = c /\ toShim' = Tail(toShim)
          /\ pcI = "read" /\ pcI' \in {"read", "want"} /\ UNCHANGED <<last_pose_, hmdConfig>>
          /\ connected_' = [connected_ EXCEPT ![c] = TRUE]
      BY <1>4 DEF on_device_add, Receives, hmdVars, h
    <2>2. h \notin ConfigNews /\ \A d \in Controllers : h \notin PoseNews(d)
      BY <2>1 DEF ConfigNews, PoseNews
    <2>3. h \in PresenceNews(c) /\ PresenceSays(c)[h] = 1 /\ \A d \in Controllers \ {c} : h \notin PresenceNews(d)
      BY <1>h, <2>1 DEF PresenceNews, PresenceSays
    <2>4. \A d \in Controllers : Taken(d)' = Taken(d)
      BY <2>1 DEF Taken
    <2>5. \A d \in Controllers : Connected(d)' = IF d = c THEN 1 ELSE Connected(d)
      BY <2>1 DEF Connected, ControllerTypeOK
    <2> QED BY <2>1, <2>2, <2>3, <2>4, <2>5 DEF h, Handled
  <1>5. ASSUME NEW c \in Controllers, on_device_remove(c) PROVE Handled
    <2>1. toShim # <<>> /\ h.type = "remove" /\ h.device = c /\ toShim' = Tail(toShim)
          /\ pcI = "read" /\ UNCHANGED <<last_pose_, hmdConfig>>
          /\ connected_' = [connected_ EXCEPT ![c] = FALSE]
      BY <1>5 DEF on_device_remove, Receives, hmdVars, h
    <2>2. h \notin ConfigNews
      BY <2>1 DEF ConfigNews
    <2>3. h \in PresenceNews(c) /\ PresenceSays(c)[h] = 0 /\ \A d \in Controllers \ {c} : h \notin PresenceNews(d)
      BY <1>h, <2>1 DEF PresenceNews, PresenceSays
    <2>4. h \in PoseNews(c) /\ PoseSays(c)[h] = 0 /\ \A d \in Controllers \ {c} : h \notin PoseNews(d)
      BY <1>h, <2>1 DEF PoseNews, PoseSays
    <2>5. \A d \in Controllers \ {c} : Taken(d)' = Taken(d)
      BY <1>5, <2>1, DeviceFacts DEF Taken, on_device_remove, NoJob
    <2>6. Taken(c)' = 0
      <3>1. CASE connected_[c]
        BY <1>5, <3>1 DEF Taken, on_device_remove
      <3>2. CASE ~connected_[c]
        BY <1>5, <2>1, <3>2 DEF Taken, on_device_remove, GoneInv, Connected
      <3> QED BY <3>1, <3>2
    <2>7. \A d \in Controllers : Connected(d)' = IF d = c THEN 0 ELSE Connected(d)
      BY <2>1 DEF Connected, ControllerTypeOK
    <2> QED BY <2>1, <2>2, <2>3, <2>4, <2>5, <2>6, <2>7 DEF h, Handled
  <1>6. ASSUME NEW c \in Controllers, on_pose_update(c) PROVE Handled
    <2>1. toShim # <<>> /\ h.type = "pose" /\ h.device = c /\ toShim' = Tail(toShim)
          /\ pcI = "read" /\ pcI' \in {"wantWrite", "write"} /\ UNCHANGED <<last_pose_, hmdConfig>>
          /\ job' = [device |-> c, pose |-> h.pose]
      BY <1>6 DEF on_pose_update, Receives, hmdVars, h
    <2>2. connected_' = [connected_ EXCEPT ![c] = connected_[c] \/ (h.pose # 0 /\ ~connected_[c])]
      BY <1>6 DEF on_pose_update, h
    <2>3. h \notin ConfigNews
      BY <2>1 DEF ConfigNews
    <2>4. /\ h.pose # 0 => h \in PresenceNews(c) /\ PresenceSays(c)[h] = 1
          /\ h.pose = 0 => h \notin PresenceNews(c)
          /\ \A d \in Controllers \ {c} : h \notin PresenceNews(d)
      BY <1>h, <2>1 DEF PresenceNews, PresenceSays
    <2>5. h \in PoseNews(c) /\ PoseSays(c)[h] = h.pose /\ \A d \in Controllers \ {c} : h \notin PoseNews(d)
      BY <1>h, <2>1 DEF PoseNews, PoseSays
    <2>6. \A d \in Controllers : Taken(d)' = IF d = c THEN h.pose ELSE Taken(d)
      BY <2>1 DEF Taken
    <2>7. \A d \in Controllers \ {c} : Connected(d)' = Connected(d)
      BY <2>2 DEF Connected, ControllerTypeOK
    <2>8. Connected(c)' = IF h.pose # 0 THEN 1 ELSE Connected(c)
      <3>1. connected_'[c] <=> connected_[c] \/ h.pose # 0
        BY <2>2, Zenon DEF ControllerTypeOK
      <3> QED BY <3>1 DEF Connected
    <2> QED BY <2>1, <2>3, <2>4, <2>5, <2>6, <2>7, <2>8 DEF h, Handled
  <1>7. ASSUME NEW c \in Controllers, on_input_update(c) PROVE Handled
    <2>1. toShim # <<>> /\ h.type = "input" /\ toShim' = Tail(toShim)
          /\ UNCHANGED <<pcI, job, connected_, last_pose_, hmdConfig>>
      BY <1>7 DEF on_input_update, Receives, hmdVars, ipcVars, h
    <2>2. h \notin ConfigNews /\ \A d \in Controllers : h \notin PoseNews(d) /\ h \notin PresenceNews(d)
      BY <2>1 DEF ConfigNews, PoseNews, PresenceNews
    <2>3. \A d \in Controllers : Taken(d)' = Taken(d) /\ Connected(d)' = Connected(d)
      BY <2>1 DEF Taken, Connected
    <2> QED BY <2>1, <2>2, <2>3 DEF h, Handled
  <1>8. CASE SubmitWrite
    BY <1>8 DEF SubmitWrite, pipeVars, hmdVars, Taken, Connected, Handled, JobInv, ControllerTypeOK
  <1>9. CASE SubmitPublish
    BY <1>9 DEF SubmitPublish, pipeVars, hmdVars, Taken, Connected, Handled
  <1>10. ~on_helper_disconnected
    BY DEF on_helper_disconnected, InSession
  <1> QED BY <1>1, <1>2, <1>3, <1>4, <1>5, <1>6, <1>7, <1>8, <1>9, <1>10 DEF IpcThread

(* With nothing under way the shim is left with what it has.               *)
LEMMA FinallyNothing ==
  ASSUME NEW S, NEW V, NEW v, NEW w
  PROVE  Finally(<<>>, {}, S, V, v, w) <=> v = w
  BY DEF Finally, After

(* A batch with nothing of S leaves it to the queue.                       *)
LEMMA FinallyOther ==
  ASSUME NEW q, NEW B, NEW S, NEW V, NEW v, NEW w, Finally(q, {}, S, V, v, w), \A m \in B : m \notin S
  PROVE  Finally(q, B, S, V, v, w)
  BY DEF Finally

(* collect: a batch takes the shim to the values it was made from.         *)
LEMMA Collected ==
  ASSUME BridgeTypeOK, PipeTypeOK, BridgeInv, CursorInv, pcH # "listen", NEW q
  PROVE  /\ \A v :
              (cursor.config = config_gen_ => Finally(q, {}, ConfigNews, ConfigSays, v, config_))
                => Finally(q, News, ConfigNews, ConfigSays, v, config_)
         /\ \A c \in Controllers : \A v :
              (cursor.pose[c] = pose_gen_[c] => Finally(q, {}, PoseNews(c), PoseSays(c), v, pose_[c]))
                => Finally(q, News, PoseNews(c), PoseSays(c), v, pose_[c])
         /\ \A c \in Controllers : \A v :
              (/\ tracking # c \/ Present(c) = 1
               /\ cursor.presence[c] = presence_gen_[c]
                    => Finally(q, {}, PresenceNews(c), PresenceSays(c), v, Present(c)))
                => Finally(q, News, PresenceNews(c), PresenceSays(c), v, Present(c))
  <1> DEFINE Cfg == [type |-> "config", config |-> config_]
             Prs(c) == [type |-> IF present_[c] THEN "add" ELSE "remove", device |-> c]
             Pos(c) == [type |-> "pose", device |-> c, pose |-> pose_[c]]
             Inp(c) == [type |-> "input", device |-> c, input |-> input_gen_[c]]
  <1>1. \A n \in News : \/ n = Cfg /\ cursor.config # config_gen_
                        \/ \E c \in Controllers : \/ n = Prs(c) /\ cursor.presence[c] # presence_gen_[c]
                                                  \/ n = Pos(c) /\ cursor.pose[c] # pose_gen_[c]
                                                  \/ n = Inp(c)
    BY DEF News, Unseen
  <1>2. /\ cursor.config # config_gen_ => Cfg \in News
        /\ \A c \in Controllers : /\ cursor.presence[c] # presence_gen_[c] => Prs(c) \in News
                                  /\ cursor.pose[c] # pose_gen_[c] => Pos(c) \in News
    BY DEF News, Unseen
  <1>3. /\ Order(Cfg) = 0
        /\ \A c \in Controllers : /\ Order(Prs(c)) = c /\ Order(Pos(c)) = kDeviceCount + c
                                  /\ c \in Nat /\ c <= kDeviceCount + c
    BY DeviceAssumption DEF Order, Controllers
  <1>4. /\ Cfg \in ConfigNews /\ ConfigSays[Cfg] = config_
        /\ \A c \in Controllers : Prs(c) \notin ConfigNews /\ Pos(c) \notin ConfigNews /\ Inp(c) \notin ConfigNews
    BY DEF ConfigNews, ConfigSays, Message, BridgeTypeOK
  <1>5. \A c \in Controllers :
          /\ Pos(c) \in PoseNews(c) /\ PoseSays(c)[Pos(c)] = pose_[c]
          /\ Present(c) = 0 => Prs(c) \in PoseNews(c) /\ PoseSays(c)[Prs(c)] = 0
          /\ Present(c) = 1 => Prs(c) \notin PoseNews(c)
          /\ Cfg \notin PoseNews(c) /\ Inp(c) \notin PoseNews(c)
          /\ \A d \in Controllers \ {c} : /\ Prs(d) \notin PoseNews(c) /\ Pos(d) \notin PoseNews(c)
                                          /\ Inp(d) \notin PoseNews(c)
    BY DEF PoseNews, PoseSays, Message, BridgeTypeOK, Present
  <1>6. \A c \in Controllers :
          /\ Prs(c) \in PresenceNews(c) /\ PresenceSays(c)[Prs(c)] = Present(c)
          /\ pose_[c] # 0 => Pos(c) \in PresenceNews(c) /\ PresenceSays(c)[Pos(c)] = 1
          /\ pose_[c] = 0 => Pos(c) \notin PresenceNews(c)
          /\ Cfg \notin PresenceNews(c) /\ Inp(c) \notin PresenceNews(c)
          /\ \A d \in Controllers \ {c} : /\ Prs(d) \notin PresenceNews(c) /\ Pos(d) \notin PresenceNews(c)
                                          /\ Inp(d) \notin PresenceNews(c)
    BY DEF PresenceNews, PresenceSays, Message, BridgeTypeOK, Present
  <1>p. \A c \in Controllers : Present(c) \in {0, 1}
    BY DEF Present
  <1> HIDE DEF Cfg, Prs, Pos, Inp
  <1>7. ASSUME NEW v, cursor.config # config_gen_ \/ Finally(q, {}, ConfigNews, ConfigSays, v, config_)
        PROVE  Finally(q, News, ConfigNews, ConfigSays, v, config_)
    <2>1. CASE cursor.config # config_gen_
      <3>1. \A n \in News : n \in ConfigNews => Order(n) <= Order(Cfg)
        BY <1>1, <1>3, <1>4
      <3> QED BY <2>1, <3>1, <1>2, <1>4 DEF Finally
    <2>2. CASE cursor.config = config_gen_
      BY <1>1, <1>4, <1>7, <2>2, FinallyOther
    <2> QED BY <2>1, <2>2
  <1>8. ASSUME NEW c \in Controllers, NEW v,
               \/ cursor.pose[c] # pose_gen_[c]
               \/ Finally(q, {}, PoseNews(c), PoseSays(c), v, pose_[c])
        PROVE  Finally(q, News, PoseNews(c), PoseSays(c), v, pose_[c])
    <2>1. CASE cursor.pose[c] # pose_gen_[c]
      <3>1. \A n \in News : n \in PoseNews(c) => n = Prs(c) \/ n = Pos(c)
        BY <1>1, <1>5
      <3>2. \A n \in News : n \in PoseNews(c) => Order(n) <= Order(Pos(c))
        BY <3>1, <1>3, DeviceAssumption
      <3> QED BY <2>1, <3>2, <1>2, <1>5 DEF Finally
    <2>2. CASE cursor.pose[c] = pose_gen_[c] /\ cursor.presence[c] # presence_gen_[c] /\ Present(c) = 0
      <3>1. \A n \in News : n \in PoseNews(c) => n = Prs(c)
        BY <1>1, <1>5, <2>2
      <3>2. pose_[c] = 0
        BY <2>2 DEF CursorInv
      <3>3. Prs(c) \in News /\ Prs(c) \in PoseNews(c) /\ PoseSays(c)[Prs(c)] = pose_[c]
        BY <2>2, <3>2, <1>2, <1>5
      <3>4. \A n \in News : n \in PoseNews(c) => Order(n) <= Order(Prs(c))
        BY <3>1, <1>3
      <3> QED BY <3>3, <3>4 DEF Finally
    <2>3. CASE cursor.pose[c] = pose_gen_[c] /\ ~(cursor.presence[c] # presence_gen_[c] /\ Present(c) = 0)
      <3>1. \A n \in News : n \notin PoseNews(c)
        BY <1>1, <1>5, <2>3, <1>p
      <3> QED BY <1>8, <2>3, <3>1, FinallyOther
    <2> QED BY <2>1, <2>2, <2>3
  <1>9. ASSUME NEW c \in Controllers, NEW v, tracking # c \/ Present(c) = 1,
               \/ cursor.presence[c] # presence_gen_[c]
               \/ Finally(q, {}, PresenceNews(c), PresenceSays(c), v, Present(c))
        PROVE  Finally(q, News, PresenceNews(c), PresenceSays(c), v, Present(c))
    <2>1. CASE cursor.pose[c] # pose_gen_[c] /\ pose_[c] # 0
      <3>1. Pos(c) \in News /\ Pos(c) \in PresenceNews(c) /\ PresenceSays(c)[Pos(c)] = 1
        BY <2>1, <1>2, <1>6
      <3>2. Present(c) = 1
        BY <1>9, <2>1 DEF BridgeInv
      <3>3. \A n \in News : n \in PresenceNews(c) => n = Prs(c) \/ n = Pos(c)
        BY <1>1, <1>6
      <3>4. \A n \in News : n \in PresenceNews(c) => Order(n) <= Order(Pos(c))
        BY <3>3, <1>3, DeviceAssumption
      <3> QED BY <3>1, <3>2, <3>4 DEF Finally
    <2>2. CASE ~(cursor.pose[c] # pose_gen_[c] /\ pose_[c] # 0) /\ cursor.presence[c] # presence_gen_[c]
      <3>1. Prs(c) \in News /\ Prs(c) \in PresenceNews(c) /\ PresenceSays(c)[Prs(c)] = Present(c)
        BY <2>2, <1>2, <1>6
      <3>2. \A n \in News : n \in PresenceNews(c) => n = Prs(c)
        BY <1>1, <1>6, <2>2
      <3>3. \A n \in News : n \in PresenceNews(c) => Order(n) <= Order(Prs(c))
        BY <3>2, <1>3
      <3> QED BY <3>1, <3>3 DEF Finally
    <2>3. CASE ~(cursor.pose[c] # pose_gen_[c] /\ pose_[c] # 0) /\ cursor.presence[c] = presence_gen_[c]
      <3>1. \A n \in News : n \notin PresenceNews(c)
        BY <1>1, <1>6, <2>3
      <3> QED BY <1>9, <2>3, <3>1, FinallyOther
    <2> QED BY <2>1, <2>2, <2>3
  <1> QED BY <1>7, <1>8, <1>9

(* Whatever is under way brings the shim up to date.                       *)
LEMMA DeliveryStep ==
    TypeOK /\ JobInv /\ GoneInv /\ LinkInv /\ BridgeInv /\ CursorInv /\ BatchInv /\ DeliveryInv /\ [Next]_vars
      => DeliveryInv'
  <1> DEFINE Goal == /\ cursor'.config = config_gen_'
                           => Finally(toShim', batch', ConfigNews, ConfigSays, hmdConfig', config_')
                     /\ \A c \in Controllers :
                           /\ cursor'.pose[c] = pose_gen_'[c]
                                => Finally(toShim', batch', PoseNews(c), PoseSays(c), Taken(c)', pose_'[c])
                           /\ (cursor'.presence[c] = presence_gen_'[c] /\ (tracking' # c \/ Present(c)' = 1))
                                => Finally(toShim', batch', PresenceNews(c), PresenceSays(c), Connected(c)',
                                           Present(c)')
  <1> SUFFICES ASSUME TypeOK, JobInv, GoneInv, LinkInv, BridgeInv, CursorInv, BatchInv, DeliveryInv,
                      [Next]_vars, link' = "open"
               PROVE  Goal
    BY DEF DeliveryInv
  <1> USE DEF TypeOK
  <1>k. \A c \in Controllers : Present(c) \in {0, 1}
    BY DEF Present
  <1>t. /\ cursor.config \in Nat
        /\ \A c \in Controllers : cursor.presence[c] \in Nat /\ cursor.pose[c] \in Nat
    BY DEF PipeTypeOK, Cursor
  <1>s. UNCHANGED shimVars => hmdConfig' = hmdConfig
                              /\ \A c \in Controllers : Taken(c)' = Taken(c) /\ Connected(c)' = Connected(c)
    BY DEF shimVars, ipcVars, controllerVars, hmdVars, Taken, Connected
  <1>b. UNCHANGED bridgeVars => UNCHANGED <<config_, config_gen_, pose_, pose_gen_, presence_gen_, tracking>>
                                /\ \A c \in Controllers : Present(c)' = Present(c)
    BY DEF bridgeVars, Present
  <1>1. CASE SessionThread
    <2>1. /\ link = "open" /\ UNCHANGED <<cursor, toShim, batch, hmdConfig>> /\ pcH # "listen"
          /\ \A c \in Controllers : Taken(c)' = Taken(c) /\ Connected(c)' = Connected(c)
      BY <1>1, <1>s, Footprint DEF pipeVars, LinkInv
    <2>2. /\ cursor.config = config_gen_ => Finally(toShim, batch, ConfigNews, ConfigSays, hmdConfig, config_)
          /\ \A c \in Controllers :
               /\ cursor.pose[c] = pose_gen_[c]
                    => Finally(toShim, batch, PoseNews(c), PoseSays(c), Taken(c), pose_[c])
               /\ (cursor.presence[c] = presence_gen_[c] /\ (tracking # c \/ Present(c) = 1))
                    => Finally(toShim, batch, PresenceNews(c), PresenceSays(c), Connected(c), Present(c))
          /\ cursor.config <= config_gen_
          /\ \A c \in Controllers : cursor.presence[c] <= presence_gen_[c] /\ cursor.pose[c] <= pose_gen_[c]
      BY <2>1 DEF DeliveryInv, CursorInv
    <2>3. \/ config_gen_' = config_gen_ /\ config_' = config_
          \/ config_gen_' = config_gen_ + 1
      BY <1>1 DEF SessionThread, set_config, set_pose, set_present, set_input, on_client_gone
    <2>4. ASSUME NEW c \in Controllers
          PROVE  \/ pose_gen_'[c] = pose_gen_[c] /\ pose_'[c] = pose_[c]
                 \/ pose_gen_'[c] = pose_gen_[c] + 1
      BY <1>1 DEF SessionThread, set_config, set_pose, set_present, set_input, on_client_gone, BridgeTypeOK
    <2> DEFINE Seen(c) == \/ presence_gen_'[c] = presence_gen_[c] + 1
                          \/ /\ presence_gen_'[c] = presence_gen_[c] /\ Present(c)' = Present(c)
                             /\ (tracking' # c \/ Present(c)' = 1) => (tracking # c \/ Present(c) = 1)
    <2>5. ASSUME NEW c \in Controllers PROVE Seen(c)
      <3> USE DeviceFacts DEF Present, BridgeTypeOK
      <3>1. ASSUME NEW config \in Configs, set_config(config) PROVE Seen(c)
        BY <3>1 DEF set_config
      <3>2. ASSUME NEW d \in Controllers, NEW usable \in BOOLEAN, set_pose(d, usable) PROVE Seen(c)
        BY <3>2 DEF set_pose
      <3>3. CASE set_present
        BY <3>3 DEF set_present
      <3>4. ASSUME NEW d \in Controllers, set_input(d) PROVE Seen(c)
        BY <3>4 DEF set_input
      <3>5. CASE on_client_gone
        BY <3>5 DEF on_client_gone
      <3> QED BY <1>1, <3>1, <3>2, <3>3, <3>4, <3>5 DEF SessionThread
    <2>6. config_gen_ \in Nat /\ \A c \in Controllers : pose_gen_[c] \in Nat /\ presence_gen_[c] \in Nat
      BY DEF BridgeTypeOK
    <2>7. cursor'.config = config_gen_'
            => Finally(toShim', batch', ConfigNews, ConfigSays, hmdConfig', config_')
      BY <2>1, <2>2, <2>3, <2>6, <1>t
    <2>8. ASSUME NEW c \in Controllers, cursor'.pose[c] = pose_gen_'[c]
          PROVE  Finally(toShim', batch', PoseNews(c), PoseSays(c), Taken(c)', pose_'[c])
      BY <2>1, <2>2, <2>4, <2>6, <2>8, <1>t
    <2>9. ASSUME NEW c \in Controllers, cursor'.presence[c] = presence_gen_'[c],
                 tracking' # c \/ Present(c)' = 1
          PROVE  Finally(toShim', batch', PresenceNews(c), PresenceSays(c), Connected(c)', Present(c)')
      BY <2>1, <2>2, <2>5, <2>6, <2>9, <1>t
    <2> QED BY <2>7, <2>8, <2>9
  <1>2. CASE collect
    <2>1. /\ link = "open" /\ UNCHANGED toShim /\ pcH = "flush" /\ batch = {} /\ batch' = News
          /\ UNCHANGED bridgeVars /\ UNCHANGED shimVars
      BY <1>2 DEF collect, LinkInv
    <2>2. /\ cursor.config = config_gen_ => Finally(toShim, {}, ConfigNews, ConfigSays, hmdConfig, config_)
          /\ \A c \in Controllers :
               /\ cursor.pose[c] = pose_gen_[c]
                    => Finally(toShim, {}, PoseNews(c), PoseSays(c), Taken(c), pose_[c])
               /\ (cursor.presence[c] = presence_gen_[c] /\ (tracking # c \/ Present(c) = 1))
                    => Finally(toShim, {}, PresenceNews(c), PresenceSays(c), Connected(c), Present(c))
      BY <2>1 DEF DeliveryInv
    <2>3. /\ Finally(toShim, News, ConfigNews, ConfigSays, hmdConfig, config_)
          /\ \A c \in Controllers :
               /\ Finally(toShim, News, PoseNews(c), PoseSays(c), Taken(c), pose_[c])
               /\ (tracking # c \/ Present(c) = 1)
                    => Finally(toShim, News, PresenceNews(c), PresenceSays(c), Connected(c), Present(c))
      <3> HIDE DEF TypeOK
      <3>1. BridgeTypeOK /\ PipeTypeOK
        BY DEF TypeOK
      <3> QED BY <2>1, <2>2, <3>1, Collected
    <2> QED BY <2>1, <2>3, <1>s, <1>b
  <1>3. CASE flush_bridge
    <2>1. /\ link = "open" /\ UNCHANGED bridgeVars /\ UNCHANGED shimVars /\ cursor' = cursor
      BY <1>3 DEF flush_bridge
    <2>2. CASE UNCHANGED <<toShim, batch>>
      BY <2>1, <2>2, <1>s, <1>b DEF DeliveryInv
    <2>3. ASSUME NEW m \in batch, \A n \in batch : Order(m) <= Order(n), toShim' = Append(toShim, m),
                 batch' = batch \ {m}
          PROVE  Goal
      <3>1. ASSUME NEW S, NEW V, NEW v, NEW w, Finally(toShim, batch, S, V, v, w)
            PROVE  Finally(toShim', batch', S, V, v, w)
        <4>1. toShim \in Seq(Message) /\ batch \in SUBSET Message /\ \A k, l \in batch : Order(k) = Order(l) => k = l
          BY DEF PipeTypeOK, BatchInv
        <4> HIDE DEF TypeOK
        <4> QED BY <2>3, <3>1, <4>1, FinallyFlush
      <3> QED BY <2>1, <3>1, <1>s, <1>b DEF DeliveryInv
    <2> QED BY <1>3, <2>2, <2>3 DEF flush_bridge
  <1>4. CASE Connect
    <2>1. /\ pcI = "closed" /\ cursor' = FreshCursor /\ toShim' = <<>> /\ batch' = {} /\ pcI' = "read"
          /\ UNCHANGED bridgeVars /\ UNCHANGED <<job, controllerVars, hmdVars>>
      BY <1>4 DEF Connect
    <2>2. config_gen_' # 0
      BY <2>1, <1>b DEF BridgeTypeOK
    <2>3. ASSUME NEW c \in Controllers
          PROVE  /\ Connected(c)' = 0 /\ Taken(c)' = 0
                 /\ pose_gen_[c] = 0 => pose_[c] = 0
                 /\ presence_gen_[c] = 0 => Present(c) = 0
      <3>1. Connected(c) = 0 /\ Connected(c)' = 0 /\ Taken(c)' = Taken(c)
        BY <2>1 DEF JobInv, Connected, Taken, controllerVars
      <3> QED BY <3>1, <1>k DEF GoneInv, BridgeInv
    <2>4. \A c \in Controllers : /\ FreshCursor.pose[c] = 0 /\ FreshCursor.presence[c] = 0
      BY DEF FreshCursor
    <2>5. FreshCursor.config = 0
      BY DEF FreshCursor
    <2>6. UNCHANGED <<pose_, pose_gen_, presence_gen_>> /\ \A c \in Controllers : Present(c)' = Present(c)
      BY <2>1, <1>b
    <2> QED BY <2>1, <2>2, <2>3, <2>4, <2>5, <2>6, FinallyNothing
  <1>5. CASE IpcThread
    <2>1. /\ link = "open" /\ UNCHANGED bridgeVars /\ cursor' = cursor /\ batch' = batch
      BY <1>5, Footprint
    <2>2. Handled
      BY <1>5, <2>1, Digested DEF LinkInv
    <2>3. CASE /\ toShim' = toShim /\ hmdConfig' = hmdConfig
               /\ \A c \in Controllers : Taken(c)' = Taken(c) /\ Connected(c)' = Connected(c)
      BY <2>1, <2>3, <1>b DEF DeliveryInv
    <2>4. CASE /\ toShim # <<>> /\ toShim' = Tail(toShim)
               /\ hmdConfig' = IF Head(toShim) \in ConfigNews THEN ConfigSays[Head(toShim)] ELSE hmdConfig
               /\ \A c \in Controllers :
                    /\ Taken(c)' = IF Head(toShim) \in PoseNews(c) THEN PoseSays(c)[Head(toShim)] ELSE Taken(c)
                    /\ Connected(c)' = IF Head(toShim) \in PresenceNews(c)
                                         THEN PresenceSays(c)[Head(toShim)] ELSE Connected(c)
      <3>1. ASSUME NEW S, NEW V, NEW v, NEW w, Finally(toShim, batch, S, V, v, w)
            PROVE  Finally(toShim', batch', S, V, IF Head(toShim) \in S THEN V[Head(toShim)] ELSE v, w)
        <4>1. toShim \in Seq(Message) /\ toShim # <<>> /\ toShim' = Tail(toShim) /\ batch' = batch
          BY <2>1, <2>4 DEF PipeTypeOK
        <4> HIDE DEF TypeOK
        <4> QED BY <3>1, <4>1, FinallyHead
      <3>2. cursor'.config = config_gen_'
              => Finally(toShim', batch', ConfigNews, ConfigSays, hmdConfig', config_')
        BY <2>1, <2>4, <3>1, <1>b DEF DeliveryInv
      <3>3. ASSUME NEW c \in Controllers, cursor'.pose[c] = pose_gen_'[c]
            PROVE  Finally(toShim', batch', PoseNews(c), PoseSays(c), Taken(c)', pose_'[c])
        <4>1. Finally(toShim, batch, PoseNews(c), PoseSays(c), Taken(c), pose_[c])
          BY <2>1, <3>3, <1>b DEF DeliveryInv
        <4> QED BY <4>1, <3>1, <2>1, <2>4, <1>b
      <3>4. ASSUME NEW c \in Controllers, cursor'.presence[c] = presence_gen_'[c],
                   tracking' # c \/ Present(c)' = 1
            PROVE  Finally(toShim', batch', PresenceNews(c), PresenceSays(c), Connected(c)', Present(c)')
        <4>1. Finally(toShim, batch, PresenceNews(c), PresenceSays(c), Connected(c), Present(c))
          BY <2>1, <3>4, <1>b DEF DeliveryInv
        <4> QED BY <4>1, <3>1, <2>1, <2>4, <1>b
      <3> QED BY <3>2, <3>3, <3>4
    <2> QED BY <2>2, <2>3, <2>4 DEF Handled
  <1>6. CASE RunFrame \/ UNCHANGED vars
    <2>1. /\ UNCHANGED bridgeVars /\ UNCHANGED pipeVars /\ UNCHANGED <<pcI, job, connected_, last_pose_, hmdConfig>>
      BY <1>6, Footprint DEF vars, ipcVars, controllerVars, hmdVars
    <2>2. \A c \in Controllers : Taken(c)' = Taken(c) /\ Connected(c)' = Connected(c)
      BY <2>1 DEF Taken, Connected
    <2> QED BY <2>1, <2>2, <1>b DEF DeliveryInv, pipeVars
  <1>7. ~disconnect_client /\ ~EndSession /\ ~HelperCrash
    BY DEF disconnect_client, EndSession, HelperCrash, PipeTypeOK
  <1> QED BY <1>1, <1>2, <1>3, <1>4, <1>5, <1>6, <1>7 DEF Next, PipeThread

-----------------------------------------------------------------------------
(* The inductive invariant.                                                *)
DeviceInv ==
    /\ TypeOK /\ JobInv /\ CopyInv
    /\ RegisterInv /\ AddInv /\ ApplyInv /\ GoneInv
    /\ LinkInv /\ BridgeInv /\ CursorInv /\ BatchInv /\ DeliveryInv

(* The invariant holds when neither process has done anything. *)
LEMMA DeviceInit == Init => DeviceInv
  <1> SUFFICES ASSUME Init PROVE DeviceInv
    OBVIOUS
  <1> USE DeviceAssumption, DeviceFacts DEF Init, BridgeInit
  <1>1. BridgeTypeOK
    BY DEF BridgeTypeOK
  <1>2. PipeTypeOK
    BY DEF PipeTypeOK
  <1>3. IpcTypeOK /\ ControllerTypeOK
    <2>1. IpcTypeOK
      BY DEF IpcTypeOK
    <2>2. last_pose_ \in [Controllers -> Sample] /\ reported \in [Controllers -> Sample]
      OBVIOUS
    <2>3. components \in [Controllers -> 0 .. MaxInputs]
      OBVIOUS
    <2>4. connected_ \in [Controllers -> BOOLEAN]
      OBVIOUS
    <2> QED BY <2>1, <2>2, <2>3, <2>4 DEF ControllerTypeOK
  <1>4. RegisterTypeOK
    BY DEF RegisterTypeOK
  <1>5. HmdTypeOK /\ FrameTypeOK
    BY DEF HmdTypeOK, FrameTypeOK
  <1>6. JobInv /\ CopyInv
    BY DEF JobInv, CopyInv
  <1>7. RegisterInv /\ AddInv
    BY DEF RegisterInv, AddInv
  <1>8. ApplyInv /\ GoneInv
    BY DEF ApplyInv, GoneInv, Taken, Connected
  <1>9. LinkInv /\ BridgeInv
    BY DEF LinkInv, InSession, BridgeInv, Present
  <1>10. CursorInv /\ BatchInv /\ DeliveryInv
    BY DEF CursorInv, BatchInv, DeliveryInv
  <1>11. TypeOK
    BY <1>1, <1>2, <1>3, <1>4, <1>5 DEF TypeOK
  <1> QED BY <1>6, <1>7, <1>8, <1>9, <1>10, <1>11 DEF DeviceInv

(* The bounds on sessions, refusals and crashes are kept.                  *)
LEMMA BoundStep ==
    TypeOK /\ [Next]_vars =>
      sessions' \in 0 .. MaxSessions /\ refusals' \in 0 .. MaxRefusals /\ crashes' \in 0 .. MaxCrashes
  <1> SUFFICES ASSUME TypeOK, [Next]_vars
               PROVE  /\ sessions' \in 0 .. MaxSessions /\ refusals' \in 0 .. MaxRefusals
                      /\ crashes' \in 0 .. MaxCrashes
    OBVIOUS
  <1>1. sessions \in 0 .. MaxSessions /\ refusals \in 0 .. MaxRefusals /\ crashes \in 0 .. MaxCrashes
    BY DEF TypeOK
  <1>2. /\ sessions' = sessions \/ (sessions < MaxSessions /\ sessions' = sessions + 1)
        /\ refusals' = refusals \/ (refusals < MaxRefusals /\ refusals' = refusals + 1)
        /\ crashes' = crashes \/ (crashes < MaxCrashes /\ crashes' = crashes + 1)
    <2>1. RunFrame => refusals' = refusals \/ (refusals < MaxRefusals /\ refusals' = refusals + 1)
      BY DEF RunFrame, consume_registration_request, registration_failed, TrackedDeviceAdded,
           ActivateHmd, ActivateController, NothingToRegister, push_pending_geometry, boundVars
    <2>2. Connect => sessions < MaxSessions /\ sessions' = sessions + 1
      BY DEF Connect
    <2>3. HelperCrash => crashes < MaxCrashes /\ crashes' = crashes + 1
      BY DEF HelperCrash
    <2> QED BY <2>1, <2>2, <2>3, Footprint DEF Next, vars, boundVars
  <1> QED BY <1>1, <1>2, DeviceAssumption

(* Every action of either process keeps the invariant. *)
LEMMA DeviceStep == DeviceInv /\ [Next]_vars => DeviceInv'
  <1> SUFFICES ASSUME DeviceInv, [Next]_vars PROVE DeviceInv'
    OBVIOUS
  <1>1. /\ BridgeTypeOK /\ PipeTypeOK /\ IpcTypeOK /\ ControllerTypeOK /\ RegisterTypeOK /\ HmdTypeOK
        /\ FrameTypeOK /\ TypeOK
    BY DEF DeviceInv, TypeOK
  <1>2. BridgeTypeOK' /\ PipeTypeOK' /\ IpcTypeOK' /\ JobInv' /\ FrameTypeOK' /\ CopyInv'
    BY <1>1, BridgeTypes, PipeTypes, IpcTypes, FrameTypes DEF DeviceInv
  <1>3. ControllerTypeOK' /\ RegisterTypeOK' /\ HmdTypeOK'
    BY <1>1, ControllerTypes, RegisterTypes, HmdTypes DEF DeviceInv
  <1>4. TypeOK'
    BY <1>1, <1>2, <1>3, BoundStep DEF TypeOK
  <1>5. RegisterInv' /\ AddInv' /\ ApplyInv' /\ GoneInv'
    BY <1>1, RegisterStep, AddStep, ApplyStep, GoneStep DEF DeviceInv
  <1>6. LinkInv' /\ BridgeInv' /\ CursorInv' /\ BatchInv'
    BY <1>1, LinkStep, BridgeStep, CursorStep, BatchStep DEF DeviceInv
  <1>7. DeliveryInv'
    BY <1>1, DeliveryStep DEF DeviceInv
  <1> QED BY <1>2, <1>4, <1>5, <1>6, <1>7 DEF DeviceInv

(* The inductive invariant holds of Bridge, the pipe, and the devices'     *)
(* IPC and RunFrame threads.                                               *)
THEOREM DeviceInvariant == Spec => []DeviceInv
  BY DeviceInit, DeviceStep, PTL DEF Spec

(* Type correctness of Bridge, the pipe and the devices.                   *)
THEOREM DeviceTypeOK == Spec => []TypeOK
  <1>1. DeviceInv => TypeOK
    BY DEF DeviceInv
  <1> QED BY <1>1, DeviceInvariant, PTL

(* TrackedDeviceAdded accepts a device at most once, whatever registration *)
(* requests the IPC thread makes while RunFrame registers                  *)
(* (controller_device.cpp:113-114).                                        *)
THEOREM DeviceAddedOnce == Spec => []AddedOnce
  <1>1. DeviceInv => AddedOnce
    BY DEF DeviceInv, AddInv, AddedOnce, TypeOK, RegisterTypeOK
  <1> QED BY <1>1, DeviceInvariant, PTL

(* A device the shim has been told of is registered, being registered or   *)
(* wanted, over refused registrations and lost sessions                    *)
(* (controller_device.cpp on_device_add, hmd_device.cpp set_config).       *)
THEOREM DeviceRegistering == Spec => []Registering
  <1>1. DeviceInv => Registering
    BY DEF DeviceInv, RegisterInv, Registering
  <1> QED BY <1>1, DeviceInvariant, PTL

(* A configuration that arrives at any point of the HMD's registration     *)
(* reaches vrserver (hmd_device.cpp:88-103, push_pending_geometry).        *)
THEOREM DeviceConfigApplied == Spec => []ConfigApplied
  <1>1. DeviceInv => ConfigApplied
    BY DEF DeviceInv, ApplyInv, ConfigApplied
  <1> QED BY <1>1, DeviceInvariant, PTL

(* "latest value wins" (bridge.h:11-14): a shim that has handled all it    *)
(* was sent has the newest configuration, presence and pose of every       *)
(* device, over any number of sessions, clients and helper crashes.        *)
THEOREM DeviceLatestWins == Spec => []LatestWins
  <1>1. DeviceInv => LatestWins
    <2> SUFFICES ASSUME DeviceInv, Settled
                 PROVE  /\ hmdConfig = config_
                        /\ \A c \in Controllers : connected_[c] = present_[c] /\ last_pose_[c] = pose_[c]
      BY DEF LatestWins
    <2>1. link = "open" /\ pcI = "read" /\ toShim = <<>> /\ batch = {} /\ tracking = NoDevice
      BY DEF Settled, DeviceInv, LinkInv
    <2>2. /\ cursor.config = config_gen_
          /\ \A c \in Controllers : cursor.pose[c] = pose_gen_[c] /\ cursor.presence[c] = presence_gen_[c]
      BY DEF Settled, UpToDate
    <2>3. hmdConfig = config_
      BY <2>1, <2>2, FinallyNothing DEF DeviceInv, DeliveryInv
    <2>4. ASSUME NEW c \in Controllers
          PROVE  connected_[c] = present_[c] /\ last_pose_[c] = pose_[c]
      <3>1. tracking # c
        BY <2>1, DeviceFacts
      <3>2. Taken(c) = pose_[c] /\ Connected(c) = Present(c)
        BY <2>1, <2>2, <3>1, FinallyNothing DEF DeviceInv, DeliveryInv
      <3>3. Taken(c) = last_pose_[c]
        BY <2>1 DEF Taken
      <3>4. connected_[c] \in BOOLEAN /\ present_[c] \in BOOLEAN
        BY DEF DeviceInv, TypeOK, ControllerTypeOK, BridgeTypeOK
      <3>5. connected_[c] <=> present_[c]
        BY <3>2 DEF Connected, Present
      <3>6. connected_[c] = present_[c]
        BY <3>4, <3>5
      <3> QED BY <3>2, <3>3, <3>6
    <2> QED BY <2>3, <2>4
  <1> QED BY <1>1, DeviceInvariant, PTL
=============================================================================
