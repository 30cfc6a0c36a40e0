# A TLA+ verification of wivrn-nx-windows

`wivrn-nx-windows` streams SteamVR on Windows to a WiVRn headset. It is two
processes joined by one named pipe:

* the **shim** (`src/shim`), an OpenVR driver loaded into `vrserver.exe`. It
  registers a headset and controllers, takes the frames the compositor
  presents, copies them into shared D3D11 textures and announces them;
* the **helper** (`src/helper`), a console process that owns the network. It
  pairs with the headset, forwards poses and inputs to the shim, encodes the
  announced frames with AMF and sends them in paced shards.

Either process may die and be started again while the other goes on, the pipe
breaks at any moment, frames and reports about frames are lost, and each
process has several threads over the same state. These modules model that
control; pixels, bitstreams, floating point and bytes on the wire are abstracted.

The project is TLA+ (no PlusCal), checked with TLC, and with TLAPS proofs in
the eight modules named `..._proofs`. `PROJECT.json` lists the runs, the mutants each
property is known to catch, the source lines behind every definition, the
hazards and the theorems.

    tlc -workers 2 -config transport.cfg TransportRefinesLease
    tlapm DriverSide_proofs.tla
    tlapm TransportRefinesLease_proofs.tla      (and so on)

## 1. The system's parts

| Part | State | Operations | Hard behaviour |
|---|---|---|---|
| Staging ring: `frame_staging.cpp`, `d3d11_stage.cpp` | slots (leased, helper-owned, frame id), ring generation, keyed mutex of each texture | create, destroy, acquire, release to helper, return, FrameDone, mark stale; the helper's acquire and release | ownership across two processes; abandoned mutexes; late FrameDones |
| Frame transport: `direct_mode.cpp`, `ipc_client.cpp`, `pipe_server.cpp`, `video_intake.cpp` | pending queue, session, mailbox of one frame, FrameDone queue, encoder's stage | Present, queue and evict, connect, flush, read, encode, answer | four threads, a bounded queue, sessions ending and processes dying between any two steps |
| Video stream and loss recovery: `video_bridge.cpp`, `video_intake.cpp`, `session.cpp`, `idr_tracker.h` | request and IDR generations, two frame queues, IdrTracker's state, stream description | encode, push, take, send, feedback, poll, describe | lost frames and reports, the 500 ms floor, full queues, a new client with old frames |
| Packetizer and pacing: `video_out.cpp`, `shard_pacer.h`, `session.cpp` | offset, parity group, burst deadline, slot window | begin, pump, parity, finish, poll | two eyes in one window, early wake-ups, errors in mid-frame |
| Device bridge and devices: `bridge.cpp`, `pipe_server.cpp`, `hmd_device.cpp`, `controller_device.cpp`, `driver_provider.cpp` | latest values with generations, cursor per session, registration flags, dirty flags | set and flush values, registration, activation, geometry | IPC thread against RunFrame, refused registrations, new sessions |
| Driver life cycle: `driver_provider.cpp`, `vr_context.cpp`, `ipc_client.cpp`, `direct_mode.cpp`, `hmd_device.cpp` | threads, liveness of the context, freshness of poses | Init, RunFrame, Cleanup, fallback poses, vsync | joins, callbacks during unload, fallback against live poses |
| Pairing and server loop: `store.cpp`, `server.cpp`, `session.cpp` | key file and its `.new`, session phase, encryption mode | accept, handshake, PIN, store, end | kill between write and rename, drop-outs in mid-handshake |
| Bitrate controller: `bitrate_controller.cpp`, `bitrate_controller.h`, `session.cpp` | bitrate, ring of frames under way, window of samples, radio window and hold, three-sample maximum filter, state of each law | feedback, sent bytes, radio report, settings; an evaluation inside each | two laws and a radio step over one bitrate; samples of an earlier bitrate; truncating factors; switches that change under a hold |
| Swap texture sets: `direct_mode.cpp` | table of sets, reference counts, last layer, device | create, destroy, next index, submit, present, shutdown | sets destroyed from another thread during a copy; creation that fails half way; handles that outlive their texture |
| Clock offset, pose sanitizer, mDNS, display component, AMF loader, fake tracker, logging | - | - | not modelled, see section 8 |

How they interact: the compositor calls `Present`, which leases a slot, blits,
and queues `FrameReady`; the shim's IPC thread writes it to the pipe; the
helper's pipe thread puts it in `VideoIntake`'s mailbox; the encoder thread
copies the slot, encodes and pushes a FrameDone (back over the pipe to free
the slot) and two encoded eye-frames into `VideoBridge`; the session thread
takes those, sends them paced, and tells `IdrTracker`; the headset's reports
come back to `IdrTracker`, which raises the bridge's IDR generation, which the
encoder thread reads with its next frame. The other way, tracking and input
packets go through `Bridge` and the pipe thread's cursor to the devices in
`vrserver`. `Pairing` decides which headset the session thread serves. The
same reports, the bytes the session thread sends and the headset's radio
reports feed `BitrateController`, whose answer `VideoBridge` hands to the
encoder.

## 2. Modules

| Module | Extends | Models |
|---|---|---|
| `FrameStagingRing` | - | The ring's data and operations, shared by the next two. |
| `SlotLease` | `FrameStagingRing` | Abstract: what the transport promises about a slot. |
| `FrameTransport` | `FrameStagingRing` | Four threads, the pipe and both processes' failures. |
| `TransportRefinesLease` | `FrameTransport` | The refinement mapping to `SlotLease`. |
| `VideoStream` | - | Encoder requests, queues, IDR recovery, an external headset. |
| `PacedSender` | - | Sharding, parity and pacing of the session thread. |
| `DeviceBridge` | - | Configuration, presence, poses, inputs, registration. |
| `ShimLifecycle` | - | Loading and unloading of the driver, its threads, fallback poses. |
| `Pairing` | - | Server loop, handshake, key file. |
| `BitrateController` | - | Both control laws, the radio's trend and hold, the settings, the encoder's share. |
| `SwapTextures` | - | Swap texture sets, layers, the textures Present holds, the D3D device. |
| `X_proofs` | the module `X`, library theorems, `TLAPS` | Theorems about `X`, for `X` one of `TransportRefinesLease`, `VideoStream`, `PacedSender`, `DeviceBridge`, `Pairing`, `BitrateController`, `SwapTextures`. |
| `DriverSide_proofs` | `SlotLease`, `ShimLifecycle`, `TLAPS` | Theorems about these two, which share no names and no state. |
| `MC...` | the module named | Symmetry sets; for the bitrate controller, the settings packets and radio trends of the run. |

Names are the source's wherever TLA+ allows it (`slots_`, `stale_`,
`idr_seen_`, `push_pending_geometry`). An operator whose comment says "Broken
on purpose" is a mutant: nothing uses it but the mutation check.

**Granularity.** A step of a thread lies between two points where another
thread can see it: one critical section, one access to an atomic, one pipe
message. State read before an unlock and used after it (the `connected_` test
of `queue_message`, the pose that `Activate` copies, the time `tick_idle`
reads) is read in one step and used in another. Program counters are named
`pcP`, `pcI`, `pcH`, `pcE`, `pcV`, `pcS`, `pcR`, and the step names are those
of the calls that follow.

**FrameStagingRing / SlotLease.** `slots_` is `FrameStagingRing::slots_`;
`keyed` is who holds each texture's mutex (`shim` or `helper`, else
the key it was released with, `k0` or `k1`, or `abandoned`), `pixels` which frame is in it. In `SlotLease` a frame is
`ready`, `copying`, `copied`, `done` or `gone`; `Lose` makes any set of frames
gone at any time, which covers every crash, lost session and discarded queue.
`Answer` may also push an older answer out of a full `done_`.

**FrameTransport.** Messages carry both what they really mean (`ring`,
`frame`) and the numbers on the wire (`generation`, `frame_id`), because the
latter restart with each vrserver process; the helper's guards look at the
numbers only. `homeGen` and `homeSlot` are history, for the refinement.
`HelperCrash` and `VrserverRestart` are actions that may occur
between any two steps.

**VideoStream.** A frame is its id, its eye, whether it is a key frame and the
frame it refers to; the headset decodes a frame if it is a key frame or refers
to the last one it decoded, in the format it was last told. `floor` stands for
the minimum interval between two recovery requests and expires at any time.
Each eye has an encoder of its own and a `reference`, the picture its next P
frame refers to. `EncodeFails` drops a pair after any of the two has moved on to
it, as `AmfVideoEncoder::encode` submits both eyes before it retrieves either.

**PacedSender.** Bytes and time are small integers; `deadline`, the window of
2/5 of the period, the micro-burst boundary and the group count are computed
as in the code, integer division included. `wire` is what the current frame
put on the sockets.

**DeviceBridge.** Poses and inputs are numbered samples. The HMD is device 0.
`reported`, `components`, `hmdProperties` and `hmdGeometry` are what vrserver
was told last. What one `collect` found to send is a set, sent in the order of
`Order`, which is that of `collect`.

**Pairing.** A name is its text, the numbers in brackets added to it, and
whether it has a tab or line end in it; the key file and its `.new` are sets of
lines, since no reader depends on their order; `sanitize_name`, writing a line and
reading it back are modelled by what they do to those. `proved` and `saved`
are history.

**BitrateController.** Every method of the class locks its mutex, so a handler
of `Session` with the evaluation it triggers is one action. Rates are integers
in a coarse unit and factors are percentages that truncate, as the casts of
the code do; a frame of `bitrate` bytes takes `frame_period` at full
utilisation. A frame's two eyes are reported and counted together, one radio
report falls in one tick at most, and the least squares fit over the radio
window is an input (`Trends`): falling, rising, flat or in between. The
percentile of `analyse` is its definition, not the sort. `old_frames`,
`restarted`, `lowered` and `flat_since` are history. `set_ceiling` and `reset`
have no caller and `--no-adaptive` builds no controller; they are left out.

**SwapTextures.** One thread per process that owns sets and the compositor's
present thread, `device_mutex_` as a lock held over steps, everything under
`sets_mutex_` as one step. `refs` is the reference count of each texture D3D
ever made, `handleOf` the handle D3D gave it. `last_layer_texture_` also
records which textures the handles named at the time. A sync texture that
could not be cached for want of memory keeps its reference in the code until
the process ends; that reference is not modelled.

**ShimLifecycle.** One program counter per thread; `call` is the state in
which a thread holds the host pointer and has not used it yet.

## 3. What the runs check

| Run (cfg) | Checks | Bounds that make the case happen | Distinct states |
|---|---|---|---|
| `transport` (TransportRefinesLease) | `LeaseInv`, `NoTornRead`, `HeldStaysOwned`, `IdMatchIsGenerationMatch`, `NoLostSlot`, `ConfigNotLost`, `EncodesItsFrame`, `ImplementsLease` | 2 slots, 2 rings, 2 frames, 2 sessions, helper crashes unbounded: an old ring's frame is in flight beside a new one's; queues of one message, so that a StagingConfig pushes a FrameReady out and a FrameDone another | 507,110 |
| `returns` | `SlotReturns` (fair) | 1 slot, 2 rings, 2 sessions, a haptic in the queue, one vrserver restart | 284,636 |
| `video` | `IdrOnItsWay`, `StreamRecovers` | 4 frames: key frame, loss or a pair dropped by the encoder, recovery inside the floor, loss again; 2 clients or settings changes | 7,812,311 |
| `video_queues` | `SentInOrder` | queues of 2 so that they overflow, all losses allowed, a ring rebuilt under the encoder | 3,759,658 |
| `devices` | `LatestWins`, `Registering`, `AddedOnce`, `ConfigApplied` | headset and one controller, 2 sessions, 2 configurations, one refusal | 1.37 million |
| `activation` | `EventuallyActive` (fair) | one refusal, one helper crash | 199,622 |
| `pairing` | `OnlyPairedHeadsets`, `PairedStaysPaired`, `NoDuplicates`, `VideoReleased` | 3 keys with one name (the second suffix clashes with the third), 4 sessions, one kill | 73,080 |
| `shim` | `ThreadsStopped`, `UnloadCompletes`, `IdleTakesOver` (fair) | two loads | 126,305 |
| `pacing` | `WholeFrames`, `ParityInPlace`, `WindowShared`, `FramesFinish` (fair) | empty, partial and full groups; a settings change and an error; two periods | 1.04 million |
| `bitrate` | `InRange`, `ReboundAhead`, `HoldHasSwitch`, `HoldLetsGo`, `TargetFollows`, `WindowIsCurrent`, `FilterOrdered`, `DecreasesSpaced`, `ReboundAimsLower` | both laws, 4 frames lost, fast or slow, 3 ticks with durations of 1 and 2, every radio trend, one settings packet that turns the radio or the automatic bitrate off, or parity on | 520,479 |
| `textures` | `RefsMatchHolders`, `DeadOwnsNothing`, `CopiesSubmitted` | 2 processes, 3 creations into a table of 2, every failure of a creation, presents at any point | 382,944 |
| `collide` (violation) | `DoneNeverCollides` | one restart of vrserver | |

What the properties say:

* `NoTornRead`: the helper never copies a texture while the compositor
  writes it, nor after it was given to another frame. `HeldStaysOwned`: a slot
  with an unanswered frame is not leased again. `IdMatchIsGenerationMatch`: a
  FrameDone matched by id alone is for the slot's own ring (within one vrserver).
* `ImplementsLease`: every behaviour of the four threads is one of
  `SlotLease`, so the above holds of them.
* `NoLostSlot`: a slot is lost if it waits for a FrameDone, in a ring that is
  not to be rebuilt and with a session up, while nothing is on its way for its
  frame. No step loses a slot, be it the end of a session, a crash or a full
  queue, but the one whose FrameReady or FrameDone it pushes out of a full
  queue. That exception is a fault of the code (section 6).
  `SlotReturns` is the liveness form, checked with the one frame of `returns`.
* `ConfigNotLost`: the last StagingConfig the helper has or will get is that of
  the current ring, or one will be sent. `EncodesItsFrame`: the pixels encoded
  are the announced frame's.
* `IdrOnItsWay`: `IdrTracker` asks once per transition, so whenever it waits a
  key frame must be requested or queued. `StreamRecovers`: whenever the headset
  cannot decode a stream that `IdrTracker` counts (`Counted`: it waits for a key
  frame, or the stream has shown a frame from `first_p_` on), something that leads
  to a key frame is under way, whatever P frames were lost and whatever pairs the
  encoder dropped. What is broken between a key frame's report and the first
  P frame after it is left out: the code has no remedy there (section 6).
* `SentInOrder`: each stream goes out in encoding order, overflows and client
  changes included.
* `LatestWins`: once everything is delivered the shim has the newest values.
  `Registering`: no announced device is forgotten; `AddedOnce`: none is added
  twice; `ConfigApplied`: once nothing is pending, vrserver has the current
  configuration; `EventuallyActive`: an announced controller becomes active.
* `OnlyPairedHeadsets`, `PairedStaysPaired`, `NoDuplicates`, `VideoReleased`:
  who may stream, that pairing is durable, that the list stays unambiguous,
  and that a failed handshake leaves no encoder running.
* `ThreadsStopped`: nothing can call into a destroyed headset or context;
  `UnloadCompletes`: no join waits for ever; `IdleTakesOver`: the fallback pose
  wins for good once the helper is quiet.
* `WholeFrames`, `ParityInPlace`, `WindowShared`, `FramesFinish`: shards
  rebuild the frame, groups have exactly one parity shard, both eyes keep to
  one window, every frame leaves the queue.

* `InRange`: through both laws, the radio's steps and truncation the bitrate
  keeps to floor and ceiling. `ReboundAhead`: a rebound is below its target and
  alone in charge, without a radio hold that would outlast it. `HoldHasSwitch`, `HoldLetsGo`: a hold ends with its
  switches, and with a signal that stayed flat. `TargetFollows`: the encoder
  has the bitrate in force less parity's share, however either changed.
  `WindowIsCurrent`: v2 does not take frames of an earlier bitrate for
  measurements of this one, but for those sent before a change of law started
  the ring over; v1, which learns of frames from feedback, is not spoken of. `FilterOrdered`: promoting a sample of the maximum
  filter never raises the estimate or makes it older. `DecreasesSpaced`:
  congestion, deep drop and radio together do not lower v1's bitrate twice
  within the cooldown. `ReboundAimsLower`: congestion that interrupts a rebound
  lowers its aim in spite of truncation and clamping. It says nothing of a
  rebound that reached its target, after which the next one may start at the
  same height (section 6).
* `RefsMatchHolders`: a texture has exactly one reference per holder, so a
  texture being copied is alive whatever is destroyed meanwhile, and nothing
  is leaked by a failed creation or left at shutdown. `DeadOwnsNothing`:
  destroying all sets of a process leaves none. `CopiesSubmitted`: Present
  copies the texture that was submitted or drops the frame.

`transport` has no third frame, so in it a slot is not used twice in one ring;
that case, like every other size, is covered by the proofs of section 4. The bound on the frames is set by the
size of the state space.

`bitrate` shortens every duration to one or two ticks: what matters is which of
two durations ends first, and with three ticks each can. Windows of one sample
and filters of two reach every branch of both laws.

`video` needs four frames: a request made inside the floor is the second
recovery of a session, and a tracker that dropped it instead of holding it is
found out with four frames and not with three.

Bounds are the constants named `Max...`, each tested in the guard of the
action it bounds. Queue limits (`kMaxPendingMessages` 64, `kMaxQueued`,
`kMaxVideoQueued`, `kMaxDone` in the code) are constants made small where
overflow is the question, and large enough not to matter where it is not.
Deadlock checking is off only where the bounded model, or the system (no more
sessions, driver unloaded), may stop; `transport`, `returns` and `collide` keep it on.

### Fairness

* `FairSpec` of `FrameTransport` and `DeviceBridge`: weak fairness of each
  thread taken as a whole (each is a loop that blocks only on its own waits)
  and of the end of a session whose other end is closed, because the system
  fails the next read of a broken pipe. Nothing is assumed of the compositor,
  the headset or the user; vrserver calls RunFrame every frame.
* `ShimLifecycle`: weak fairness of every thread and of the steps of Cleanup;
  none of the helper.
* `PacedSender`: the clock, the poll's timeout and the pump; none of the
  headset's packets.

### Assumptions about the environment

* `CompositorStops = TRUE` (`shim`): vrserver has returned from `PostPresent`
  before it calls `Cleanup`.
* `LoseIdr = FALSE` (`video`): key frames, which go over TCP, arrive; P frames
  may be lost and pairs dropped at any time. The queues are larger than the
  code's 4 and 6 so that they drop nothing. `video_queues` allows every loss and
  overflows both queues.
* `HashBases = {}` and `ReadMayFail = FALSE` (`pairing`): no headset's name
  starts with `#`; a key file that exists can be read.
* `ReuseHandles = FALSE` (`textures`): D3D does not give the handle of a freed
  texture again; shutdown runs in the destructor, with no call in progress.
* `Uptime` (`bitrate`): the clock is past every duration when a session
  starts, so a time that was never set counts as long ago, as in the code.

Section 6 says what happens without each.

## 4. What is proved

### The slot lease

`DriverSide_proofs`, for every number of slots, set of modes, number of rings
and frames, from `FrameStagingRing`'s assumptions only:

* `LeaseInvariant`: `LeaseSpec => []LeaseInv`;
* `NoTornReadHolds`, `HeldStaysOwnedHolds`, `IdMatchHolds`: the three safety
  lease properties of `transport`.

None of the three is inductive. A FrameDone frees the slot whose index and
frame id it names; that this is right needs that ids are handed out in order
(`BornInOrder`), that a helper-owned slot names a frame whose texture it is
(`OwnedNamesItsFrame`), and that a destroyed ring has no slots in use
(`NoRingNoLease`). That a copy is not torn needs that a frame not yet copied
is still in its texture (`PixelsWait`), kept because the shim takes a slot
only with its mutex and only when the helper does not own it, and because a
copier holds the mutex (`CopyHoldsMutex`). `HomeExists` says a frame's ring
is not a future one, so a new ring disturbs no frame. `LeaseInv` is the
conjunction. The proof has one step per action; facts about the ring's
operators are lemmas.

### The driver's life cycle

`DriverSide_proofs`, for any number of loads of the driver:

* `ShimTypeHolds`, with no hypothesis;
* `ShimThreadsStopped`: `ThreadsStopped`, if `CompositorStops` (no present is in
  progress when vrserver unloads the driver), without which it is false
  (section 6);
* `ShimHostOutlivesCall`: on the same condition, a thread that has read
  `vrctx::host()` and is about to call it finds the host still there. The code
  reads the pointer and calls through it without a lock, and no run checks this
  as a property of its own: the theorem covers it.

`ThreadsStopped` speaks of the unloaded driver only. `ThreadsJoined` says it of
every point of the unload: after the join of the fallback, IPC and vsync thread,
in that order, each stays ended, and no present is left that could start the vsync
thread again. `HostOutlivesCall` needs the same, since `set_dead` and the end of
the context come after all three joins.

### The threads of the transport implement the lease

`TransportRefinesLease_proofs`, for every number of slots, rings, frames,
sessions and haptics and every bound of the two queues:

* `TransportImplementsLease`: `Spec => ImplementsLease`. Every step of the four
  threads, of the pipe and of a dying helper is a step of `SlotLease` or a
  stutter;
* `TransportKeepsLease`, `TransportNoTornRead`, `TransportHeldStaysOwned`,
  `TransportIdMatch`: the four properties of the threads themselves;
* `TransportEncodesItsFrame`: the encoder reads the pixels it was told of;
* `TransportNoLostSlot`: `NoLostSlot`, full queues included: pushing a FrameReady
  or a FrameDone out is the only way in which the code loses a slot, and then
  it loses that one only;
* `TransportConfigNotLost`, `TransportTypeOK`.

All but the last two assume `MaxRestarts = 0`: with a restart of vrserver the
numbers begin again, and those about numbers are false (section 6, `collide`).
The last two hold with restarts too.

A frame's state in the lease is read off the place it is found in (`FrameAt`),
so a step refines the lease only if no frame is in two places. The
invariant `Wire` says so (`Apart`: the seven places a frame can be in are
disjoint, and each queue has it once); that every message agrees with the
history of its frame, the numbers on the wire included (`Numbers`); and that
the helper holds no mutex but that of the texture it copies (`Mutex`). Each
action then has a step that names the action of `SlotLease` it is; sessions that
end, evicted messages and dead helpers are `Lose` with the set of frames they
take with them. `ConfigNotLost` follows from a second invariant on the last
StagingConfig in each queue; `Sessions` adds that a session in use is connected,
without which a config could be queued into a session that is already gone. `NoLostSlot`
needs to know where the frames of owned slots are when no session is up: `KeptClosed`
has them in `ready` and `pending_` until the next one starts, which then begins
with no answer in the pipe (`Greeting`); a session's end, whatever it loses,
marks the ring stale.

### The bitrate controller

`BitrateController_proofs`, for every ceiling, floor, duration, threshold, ring
size and set of measurements, from `RateAssumption`, `TimeAssumption` and
`CountAssumption`:

* `Typing`, `BitrateInRange`, `ReboundsCanEnd`, `HoldsEndWithSwitches`,
  `FlatSignalsRelease`, `TargetIsCurrent`: `TypeOK` and five of the invariants
  of `bitrate`;
* `NoDoubleDecrease`, `ReboundsAimLower`: its two action properties.

They follow from one inductive invariant, `Inv` (theorem `Invariance`). To the
properties it adds what each needs to survive a step:

* `AimInRange`: the rebound's target is in range also while no rebound runs,
  since a deep drop starts one with the target it finds.
* `PastInstants`: no recorded instant is in the future, and v1's last decrease
  is no earlier than `lowered`; the cooldown that the code tests on
  `last_decrease` then spaces the decreases themselves, the radio's included.
* `FlatRunTimed`: under a hold `radio_stable_since` is at or before the first
  report of the current flat run; this, and not `HoldLetsGo`, survives a report.

The two action properties need a joint description of what an evaluation and a
radio step may do (`LawStep`), proved once per law and once for the radio.
`Typing` is not routine: `TypeOK` needs that the percentile `analyse` takes
exists for every window. Among finitely many measurements one is no smaller
than all others, it is reached by all of them, so the set the percentile is
chosen from is not empty, and a set of naturals has a least element.

Two more have hypotheses or invariants of their own:

* `FilterStaysOrdered`: `FilterOrdered` is inductive with `Invariance`; `UpdateOrder`
  goes through the promotions of the three samples, `CapOrder` through an acute
  failure that cuts all three.
* `WindowStaysCurrent`: `WindowIsCurrent` (v2, and not the frames from before a
  change of law), if a frame measured at a bitrate in
  range counts as some load (`Percent(load, b) > 0`): rates are in a coarse unit,
  and a frame of the real program always has bytes. `RingInv` relates the frame
  ring to the frames sent: every change of bitrate moves `stale_before` past the
  frames under way, except those sent before a change of law started the ring over.

### The device bridge

`DeviceBridge_proofs`, for any number of controllers, configurations, values
and sessions, from `DeviceAssumption` only: `DeviceTypeOK`, `DeviceAddedOnce`,
`DeviceRegistering`, `DeviceConfigApplied`, `DeviceLatestWins`. The invariant
`DeviceInv` has a part per race. `RegisterInv` and `AddInv` follow a device from
its announcement through RunFrame. `ApplyInv` says of each copy vrserver has of
the configuration that it is current, flagged, or about to be. For `LatestWins`,
`DeliveryInv` says that what is queued and still to be sent of a batch leaves the
shim with the newest value (`Finally`), as soon as the session's cursor claims to
have seen it; `CursorInv` and `BridgeInv` keep a removal from hiding a pose that
is newer.

### Pairing

`Pairing_proofs`, for any number of keys, names, sessions and kills:
`PairingOnlyPairedHeadsets`, `PairingNoDuplicates` and `PairingVideoReleased`
with no hypothesis, and `PairingPairedStaysPaired` under `HashBases = {}` and
`ReadMayFail = FALSE`, without either of which it is false (section 6). The
invariant joins the file to the session: both files are lists without
duplicates, `.new` holds everything the file does once it is about to replace
it, and a client in a given phase has proved its key.

### The packetizer and its pacing

`PacedSender_proofs`, for every frame size, payload, group size and period:
`PacingWholeFrames`, `PacingParityInPlace`, `PacingWindowShared`,
`PacingTypeOK`. `ChainInv` and `ParityInv` are what `WholeFrames` and `ParityInPlace`
say of a finished frame, said of every prefix: the shards so far are a chain up
to `offset`, with as many data shards since the last parity as the group
counter says. `SchedInv` bounds the schedule by the window, which needs that the
quotients of `deadline` never exceed the budget (`QuotientLe`, `CancelFactor`).
`WholeFrames` is stated with indices, not with a sum over the shards, so that it
needs no induction.

### Swap texture sets

`SwapTextures_proofs`, for any number of processes, creations and sync handles:
`SwapRefsMatchHolders`, `SwapDeadOwnsNothing` and `SwapTypeOK` unconditionally,
`SwapCopiesSubmitted` under `ReuseHandles = FALSE`. The invariant adds that no
texture belongs to two sets, that every texture in the table was made, that a creation
in progress has room for its three textures, and that Present holds textures
between `FindEyes` and `PresentReturns` only. `Counts` states the reference
counts of a table given as a parameter, so that each way of changing the table is
one lemma.

### The video stream

`VideoStream_proofs`, for any sizes of both queues and any number of frames,
clients and settings changes:

* `VideoTypeOK` (with both bounds) and `VideoSentInOrder`, unconditionally, all losses
  allowed. `OrderInv`: both queues are ordered for each eye, the session's queue
  is before the bridge's, and all of it is newer than what was sent, also when a new
  client starts with the old one's frames under way.
* `VideoNeverWaitsInVain`: `IdrOnItsWay` where no key frame is lost and the
  queues have room for every frame of the model, the situation of the `video` run;
* `VideoIdrOnItsWay`: `IdrOnItsWay` with no assumption on the constants, in
  every behaviour in which no step takes the last queued key frame away
  (`KeyFramesKept`: a full queue that drops it, or a socket error in it). These are the only
  ways to lose it: changes of client, of mode, of ring and of the encoder do
  not. With small queues the code does drop key frames (section 6).

* `VideoStreamRecovers`: `StreamRecovers` for every `kMaxQueued >= 2` (the code
  has 4), with P frames lost and pairs dropped by the encoder at any time, if no
  key frame is lost: none to a socket error (`LoseIdr = FALSE`) and none to a full
  queue (`[][CutsSpare]_vars`: what `push_frames` and `take_frames` drop are P
  frames). `video` never fills a queue, so its run says nothing of queues that
  drop P frames; the theorem does;
* `VideoRecoversWithRoom`: `StreamRecovers` with no condition on drops, where the
  queues have room for every frame. It is the statement of the `video` run, for
  every number of frames, clients, stream formats and staging rings.

The invariant `WaitInv` says what is requested by the generation that
`encode_one` has not seen yet (`RequestInv`).

`StreamRecovers` is far from inductive. That a stream is not broken now says
nothing of the next frame, which may refer to a picture that was dropped, by a
queue, by the network or by the encoder itself. `Recovers` says of a stream that
has shown a frame from `first_p_` on that a key frame is asked for (`Asked`) or
queued (`KeyFor`), or the headset has decoded the last frame it got. What keeps
it up:

* `ChainInv`: a P frame refers to a picture at least as new as every frame handed
  over before it for its eye, queued or received. If the headset has decoded
  its last frame and the next one refers to another picture, that picture's
  frame is therefore missing from what the headset got, and its report of the gap
  asks for a key frame (`OwnFrameSent`, `FrameSent`);
* `PairInv`: the two eyes of a key frame are queued together, or the left one has
  just gone out and the right one is next (`Half`), in which case nothing can
  take the tracker out of its wait before it is sent;
* `ShownInv`: no stream shows more than it got, so a stream that counts has got
  a frame the tracker listens to;
* `InfoInv` and `DescInv`: a queued frame of another stream format than the encoder's
  has a key frame requested or queued behind it, and a format the session has not
  described yet differs in its generation.

The proof (`RecoverStep`) goes by what happens: a request or report that was on
its way stays or becomes a key frame (`AskedStays`, `KeyMade`), a queued key frame
stays queued or is shown (`KeyForStays`, `OwnFrameSent`), and a stream that is decoded
stays so or is reported (`ShownStep`). Each of these invariants was checked with
TLC first, also with both queues of size 2.

## 5. What is only model-checked

* Liveness (`SlotReturns`, `EventuallyActive`, `UnloadCompletes`,
  `IdleTakesOver`, `FramesFinish`): out of the prover's reach.

Every safety invariant and every action property of a passing run is a theorem,
under the hypotheses section 4 names where it has any.

## 6. Statements of the source that the code does not keep

One has a run, and an entry under `findings`:

* `collide`: `frame_staging.cpp:371-373` says that a FrameDone of a ring already
  thrown away can never collide. Within one vrserver that is the theorem
  `IdMatchHolds`; across a restart of vrserver the numbers start again, and a
  FrameDone pushed after `on_shim_gone` cleared `done_` frees a slot of the
  new process.

The others are properties defined in the modules that TLC refutes with the
constants given:

| Property | Constants | Statement, and what happens |
|---|---|---|
| `FrameTransport!NoLeak` | any with 2 sessions | `ipc_client.cpp:219-221` "must not leak into the next one". `queue_message` tests `connected_` before it locks, so a message can be queued after the queue was emptied. `transport` shows that it is harmless for slots and configs. |
| `FrameTransport!Lost = {}` | those of `transport` | `direct_mode.cpp:853-855` "rather than silently losing a slot". Making room for a StagingConfig may pop a FrameReady of the same ring, and the helper's full `done_` drops its oldest FrameDone. With the code's limit of 64 that takes a queue full of haptics and of frames not yet written. `NoLostSlot` excepts exactly these. |
| `VideoStream!IdrOnItsWay` | `kMaxQueued = 4`, `kMaxVideoQueued = 6`, `MaxFrame = 4`, `MaxClients = 1`, `MaxRebuilds = 0` | `idr_tracker.h:40-42`: `push_frames` drops the oldest frames of a full queue, key frames too, after the request counts as served; `IdrTracker` then waits for a frame that does not come. `video` has `kMaxQueued = 8` and does not meet this. |
| `VideoStream!StreamRecovers` without `Counted(e)` | `MaxFrame = 3`, `kMaxQueued = kMaxVideoQueued = 8`, `MaxClients = 1`, `MaxRebuilds = 0`, `LoseIdr = FALSE` | `idr_tracker.h:42-44` "a genuinely undecodable stream still recovers". A P frame lost before the key frame's report, or a pair the encoder drops (`amf_video_encoder.cpp:226-230`) between that report and the first P frame sent, has no remedy: reports below `first_p_` are ignored, and nothing else asks. |
| `VideoStream!StreamRecovers` | `MaxFrame = 2`, the others as above, `LoseIdr = TRUE` | The same statement: a key frame given up after a socket error is not asked for again. |
| `VideoStream!StreamRecovers` | as for `IdrOnItsWay`, `LoseIdr = FALSE` | The drop of `IdrOnItsWay`: frames encoded before the session takes any push a key frame out of `frames_`, and what follows refers to it. `CutsSpare` excludes this. |
| `VideoStream!PairStaysWhole` | `kMaxVideoQueued = 6`, `kMaxQueued = 8`, `MaxFrame = 5` | `session.cpp:1053-1055`: with the sender on the left eye, the right eye of the same frame is the first victim. |
| `DeviceBridge!NoPhantom` | `MaxSamples = 1` | `controller_device.cpp:154-155`: `Activate` reports a copied pose outside the mutex, after the disconnect was reported. |
| `DeviceBridge!NewestInput` | `MaxInputs = 1` | `bridge.h:11`: an input that arrives before Activate is dropped, and the cursor has passed it. |
| `Pairing!PairedStaysPaired` | `HashBases = Bases` | `store.h:47`: a name that starts with `#` is read back as a comment. |
| `Pairing!PairedStaysPaired` | `ReadMayFail = TRUE` | `store.h:51`: an unreadable file is taken for an empty one and replaced. |
| `Pairing!NeverReturnsBeforeStop` | any | `server.h:64-65`: a failed accept looks like a stop. |
| `ShimLifecycle!ThreadsStopped` | `CompositorStops = FALSE` | `driver_provider.cpp:287-288`: a PostPresent past its `shut_down_` test creates the vsync thread after the join. |
| `ShimLifecycle!IdleOnlyWhenQuiet` | any | `driver_provider.cpp:36-37`: decided on one reading, reported later. |
| `PacedSender!NeverEarly` | any | `session.cpp:1425`: any packet ends the poll, and the next burst goes out with it. |
| `BitrateController!InFlightExcluded` | `Connects` an `aimd` packet, `Settings` a `bbr` packet, `MaxSettings = 1` | `bitrate_controller.h:554-556` "Moved past everything in flight by every flush()": frames sent before a change of law has started the ring over are still counted. `WindowIsCurrent` excepts them. |
| `SwapTextures!WholeOrEmpty` | any | `direct_mode.cpp:480-481` "a half-filled set with stale handles would be worse than an empty one": when the second or third texture fails, the handles of the released ones stay in the caller's struct. |
| `SwapTextures!CopiesSubmitted` | `ReuseHandles = TRUE` | `direct_mode.cpp:434-437`: a layer of a destroyed set is copied from the texture that got its handle. |

Four remarks on the bitrate controller that no property states.
`bitrate_controller.cpp:121` calls the hold "a latch that outlives the switch";
with the handlers of `Session` it never does (`HoldHasSwitch`). v2's backoff
after a loss asks for 0.7 of the measured bandwidth
(`bitrate_controller.h:136-141`), which may be more than the bitrate in force,
so a loss may raise it. A hold is reviewed only by a report whose window is
usable: reports slower than `radio_min_samples` per `radio_trend_window`, yet
within `radio_max_age` of each other, keep it for as long as they last. A
rebound that reached its target is steady (`bitrate_controller.cpp:746-747`), and
severe congestion there takes the bitrate as the next target (710-711), so on a
link that always fails at one height deep drops and rebounds go on at that
height (40, 16, 32, 40, 16, ...); only an interrupted rebound aims lower.

Also seen and not modelled: `video_intake.cpp:199` retries a failed configure
with every frame, although the comment at 218-220 says that it is not.

## 7. Mutants

Each property of each passing run is broken by at least one mutant of the code
it guards: a dropped ownership test, a missing resend, an unbounded push, a
swapped order, a cursor kept over sessions, a forgotten `clear_client`, a join
that gives up, a parity shard too many. They are the operators marked "Broken on purpose".

## 8. What is not modelled

* AMF (its formats, queue and bitstreams), D3D11 beyond the keyed mutex and
  reference counts, the WiVRn protocol library (a submodule), cryptography
  beyond who knows the PIN. `amf_encoder.cpp:587`, output that comes after
  `retrieve` gave up, depends on AMF's own queue.
* Clock offset: a floating point regression over 100 samples; its control is a
  counter.
* Pose sanitizer: per-sample floating point filters with two counters.
* Of the bitrate controller: the fit over the radio window, the units of bits
  and nanoseconds, and methods without a caller.
* mDNS, Winsock shim, logging, command line, fake tracker, synthetic video,
  display component: I/O, stateless answers or test stand-ins.
* The haptics path and a pipe write that blocks: their only effect modelled is
  a message in the queue and a session that ends.

## 9. Plan

Done: the core (`FrameStagingRing`, `SlotLease`, `FrameTransport`, refinement),
`VideoStream`, `PacedSender`, `DeviceBridge`, `Pairing`, `ShimLifecycle`,
`BitrateController`, `SwapTextures`, and the proofs of section 4.

Left for proofs: liveness, when the prover can do it. All the safety the runs check
is proved; the hypotheses that remain (`KeyFramesKept`, `CutsSpare`,
`LoseIdr = FALSE`, `MaxRestarts = 0`) each name a way in which the code does fail
(section 6).

Left for modelling, in order: the haptics queue; the pose sanitizer's freeze
and recovery counters; both ends of the pipe blocked in a write.
