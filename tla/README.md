# A TLA+ model of the SO-101 arm module

These modules model the control logic of `waypoint-so100`: the teleop loop and
pose recall, the calibration sessions and what they save, the recorder that
turns a hand-swept range into a calibration, the saved poses, and the dashboard
through which an operator drives and watches all of it over a bus that loses
messages. TLC checks them on small instances; TLAPS proves the main safety
properties for every value of the constants.

    tlc -workers 2 -config MCTeleopLoop.cfg MCTeleopLoop
    tlapm TeleopLoopProofs.tla

## 1. The system

One Go process runs on the rover, started and restarted by systemd
(`systemd/waypoint-module-so100.service`). It speaks NATS with the operator's
dashboard and drives six bus servos. Each NATS subscription delivers its
messages one at a time; the subscriptions, the loop and the publishers are
goroutines of their own.

| component | state | operations | who calls it |
|---|---|---|---|
| teleop loop (`internal/teleop`) | last snapshot and its time, `halted`, the angle reference `q`/`grip`, ramp state, pose set, pressed buttons, `recalling`, `goalSpeedDirty` | `SetInput`, `tick` (50 Hz), `Recall`, `Halt`, `SetPoses`, `SetJointEstimate`, `SetGripEstimate` | gamepad callback, ticker, command handler, arm server, joints publisher |
| calibration controller (`internal/control`) | `rec` (live session), `recording`, a `finish` and a `setHome` channel per session | `StartRecording`, `SetHome`, `FinishRecording`, `Abort`, the session goroutine | command handler |
| recorder (`internal/calibration`) | per joint: home tick, unwrapped position, extremes | `Sample`, `SetHome`, `Results` | session goroutine |
| calibration store | the file, its `.tmp` | `Save`, `Load` | session goroutine, boot |
| shared calibration map, arm server (`internal/armserver`) | the map of teleop and publishers; the arm server's own map | `applyCals`, `SetCalibration`, goals, stop, `State` | session goroutine, boot, `arm.cmd` |
| pose store (`internal/poses`) | poses by slot, the file | `Capture`, `Delete`, `Set`, `All`, `Map`, `Save`, `Load` | command handler, boot |
| publishers (`main.go`, `internal/jointstate`) | none of their own | read the servos, seed the loop, publish angles and stats | tickers |
| Arm tab (`dashboard/src/ArmPanel.tsx`, its hooks and cards) | the last `CalibrationState`, `PoseState` and servo states, readings merged joint by joint, the time of the last angles | mount, unmount, message callbacks, the cards' buttons, the age timer | host window, bus, operator |
| teleop window (`dashboard/src/teleop.tsx`, `arm/ArmTeleop.tsx`) | the same readings and poses, viewport mode, preset, view, opacity | message callbacks, recall buttons, viewport controls | host window, bus, operator |
| renderers (`Arm3DScene`, `useUrdfRobot`, `Arm2DScene`) | the robot and its materials, camera, effects that are due, what was drawn | mesh load, effects, frames on demand, context loss, resize | React, browser |

What interacts: the publisher seeds the loop's reference while the operator is
idle; a recall writes the reference and the ramp state that a tick may be using;
`arm.cmd stop` halts the loop and re-latches the servos; a session's end writes
the map that ticks and recalls read; `recording` silences the publishers while a
session reads the bus; the command handler and the boot both push pose sets.
The dashboard reaches the module only by `ArmCommand`s on one subject and sees it
only by four published states; NATS keeps no message, so what is published while
a window is closed, or lost, is not seen.

Where it is hard: a tick takes the lock three times and writes to the bus after
it; a recall runs beside ticks for as long as its bus writes take; a session
lets go of `rec` before it saves and applies, so sessions overlap; the command
subscription exists before the calibration and pose files are loaded; errors of
both `Save`s are dropped; the encoder is modulo a revolution and its seam may
lie in a joint's range. On the dashboard, buttons are enabled by the last state
received and act on the state there is when they arrive; the terminal state of a
session is published once; effects run after the render that made them due, in
the order they are written in, and frames are only drawn when asked for.

What makes each part correct:

* loop: one recall at a time; no goal without calibration or outside the soft
  limits; commands ramped and capped; sensors never fight the operator; a lost
  operator stops the arm;
* sessions: one live at a time, each ends when told to, nothing is used that a
  saved session did not measure cleanly, publishers get the bus back;
* recorder: an accepted calibration maps ticks to true angles, or the joint is
  flagged; soft limits are a proper range;
* poses: the loop, the store, the file and the cards agree; no capture loses
  another pose;
* cards: what a button does is what its card promised when it was pressed; a
  card does not stay in a state that is gone; readouts agree with the last
  message and with each other, and say when they are old;
* viewport: the model shown has the pose, the style and the camera that were
  asked for, whenever its meshes came and whatever happened to its canvas.

The hazards behind these are listed line by line in `PROJECT.json`.

## 2. The modules

| module | models | refines / extends |
|---|---|---|
| `TeleopLoop` | `loop.go`, with the callers in `main.go` and the stop of `armserver.go` | |
| `MCTeleopLoop` | values for TLC | extends `TeleopLoop` |
| `TeleopLoopProofs` | | extends `TeleopLoop` |
| `CalibrationSession` | `controller.go`, `store.go`, `publish`/`applyCals`/boot of `main.go`, `SetCalibration` | implements `CalibrationPromise`, `ControllerPromise` |
| `CalibrationPromise` | the abstract promise of calibration | |
| `ControllerPromise` | the abstract promise of the controller to its operator | |
| `CalibrationSessionProofs` | | extends `CalibrationSession` |
| `Recorder` | one joint of `record.go`, `DeriveHome`, `DeriveCentered`, `clampTick` | |
| `RecorderProofs` | | extends `Recorder` |
| `PoseStore` | `poses.go`, `publishPoses`, the pose commands, the boot | |
| `PoseStoreProofs` | | extends `PoseStore` |
| `Messages` | the values of the messages of `so100_pb.ts` | |
| `PosesPanel` | `usePoses`, the POSES card, the recall buttons, the command queue, `publishPoses`' message | extends (composes with) `PoseStore`, and implements it; `Messages` |
| `MCPosesPanel` | symmetry for TLC | extends `PosesPanel` |
| `PosesPanelProofs` | | extends `PosesPanel`, `PoseStoreProofs` |
| `CalibrationPanel` | `useCalibration`, the CALIBRATION card, the command queue, the controller and its sessions as the card sees them | extends `Messages`, implements `ControllerPromise` |
| `CalibrationPanelProofs` | | extends `CalibrationPanel` |
| `Telemetry` | both publishers, `jointstate.go`, `useJoints`, `useStats`, `useAgeMs` and the readouts of the cards | extends `Messages` |
| `MCTelemetry` | the servos' answers for TLC | extends `Telemetry` |
| `TelemetryProofs` | | extends `Telemetry` |
| `Scene3D` | `useUrdfRobot`, `Arm3DScene` with its effects, frames and context | |
| `Viewport` | the 3D/2D viewport of `ArmTeleop` and `Arm2DScene` | extends `Scene3D` |
| `ViewportProofs` | | extends `Viewport` |

Operators whose comment begins with "Mutant of" are deliberately wrong versions
of the definition that follows; each breaks one property.

### TeleopLoop

One action is one critical section of `Loop.mu`, one access to a field outside
it, or one batch of servo writes. A tick is `TickSample` (or `TickHalted`,
`TickUncalibrated`: the early returns), `TickRamp` (reads `prevTwist` without
the lock), `TickIntegrate` (writes it, computes the goals), `TickStore`
(overwrites the reference, takes the flag) and `TickWrite`. A recall is
`RecallBegin` or `RecallBusy` (the CompareAndSwap), `RecallRefused` (no pose,
uncalibrated arm, no usable joint), `RecallDrive`, `RecallWrite`, `RecallReseed`
and `RecallReturn`. The publisher reads when seeding is allowed and seeds in two
more steps, each gated again. The ticker's channel holds one tick with its time
stamp, so a late tick judges the snapshot's age by the stamp.

Abstractions. Angles are integers on a coarse grid. Time is whether
`StaleAfter` has passed. A snapshot is already a twist (`Vy`, `Vz`, `Wpitch`;
`MapInput` leaves `Vx` at 0), direct rates and pressed slots. `ClampTwist` scales
the linear part by `MaxLinear` over its magnitude, which the grid rounds toward
zero, and `TickRamp` slews component by component, as `ramp` does. The IK solver
may take any step up to `MaxStep`. The stop's re-latch commands the present
positions and is only a step. A goal write that fails is not told from one that
works: the loop goes on either way.

### CalibrationSession

A calibration is abstracted to the session that measured each joint. A session
goroutine goes through the stages `starting`, `record`, `results`, `create`,
`encode`, `rename`, `shared`, `arm`, `end`; the command handler is busy from
`StartRecording` to `StartFlag`. Files have identity: `os.Create` truncates the
`.tmp` there is, an open file can be renamed by another session's `Save`, and an
encoder that overwrites what another one wrote may leave a tail of it, as whole
entries or as TOML that does not decode (of two entries of one joint, `Load`'s
sort may leave either last). `Save` may fail at any of its steps.
The arm server starts with the very map `applyCals` merges into (`aliased`) and
gets one of its own with the first `SetCalibration`. The boot loads and applies
beside the command handler. A crash may come at any step; files and the limits
in the servos survive it.

A session lets go of `rec` before its tail, so the next one may start during it.
`overlap` is a history variable: a session was started while another one, or the
boot, was saving or applying. With it the flag, the file and the two maps lose
what their comments say of them; without it they do not, and the properties say
exactly that.

Left out: torque-off when a session starts and publication of the state to the
dashboard (`CalibrationPanel` has both); the limits are written to the servos
in one step; a failing encoder leaves the file as it was. `save`, `homed` and
`ok` are kept after a session's end so that properties can speak of it. The Go
runtime stops a process whose maps are written and read concurrently: that is a
crash here.

### Recorder

One joint, since the six share nothing. The hand moves it, the encoder reads
modulo `Rev`, reads may fail; the zero of the encoder lies anywhere. `Finish`
computes `Results`. Angles are counted in ticks because `TicksPerRad` is a fixed
factor. `Fold`, `Delta`, `SeamSeen`, `DeriveHome` and `ClampTick` are the code's
arithmetic, `U16` its 16-bit width. A flagged result keeps only its reason.
`Live` is display only.

### PoseStore

Two goroutines, the boot and the command handler, each take `All`/`Map` and
write, in separate steps. A pose is a value. `Save` of poses is one step,
because only the handler calls it; it works or fails. `clean`, `handled`,
`saved` and `touched` are history variables: they say when no command ran into
the boot, which is exactly when the properties hold.

### PosesPanel

`PoseStore` with its operator. `commands` is the queue of the command
subscription: NATS calls the handler for one message at a time, and `Take`
hands its head to `PoseStore`'s `Change`, or, for a recall or a capture that
reads no servo, to nothing of the store. `publishPoses` is split into the
snapshot for the message (`Report`), the message (`Publish`), and the snapshot
and `SetPoses` for the loop (`HandlerMap`, `BootMap` and their `Set`s): between
them the other goroutine may change the store and publish. A message reaches any
subset of the open windows, in order. `card` is the hook's state, `Assigned`
what the buttons are enabled by. `told` remembers the windows that were sent the
last message.

### CalibrationPanel

The card, the queue of commands, the handler and the sessions' goroutines, with
of each only what the card can see or what its commands do: `rec`, the channels,
`homed`, the torque. `Publish` queues a state for the mounted card or loses it.
A command and a message carry, as history, the session they are about, so that
`SignalsReachTheirSession` can say whether a Done or Abort ends the session that
was on the card. `torque` tells whether the start's torque-off still stands; a
`set_torque` or a recall's drive may raise it at any time, since neither looks
at the session. The boot publishes "idle" once, after the handler has
subscribed, or nothing if the file cannot be loaded. The range table of the card
is display only.

### Telemetry

The joints publisher builds its message from any set of servos that answer, or
from the loop's estimate while teleop is active. For the stats, `ReadServoState`
returns an error or the broker's answer, whose fields it copies one by one
(`adapter.go:69-86`): ok and the voltage are independent, so an answer may be ok
without a voltage, or carry one without being ok. `latestRead` is a history
variable: what was read for the last stats message that came. The hooks
merge angles joint by joint and replace servo states whole, and the age of the
feed is the time of the last render, which a message or the timer causes. What
the cards show are operators of the hooks' state: `Feed`, `RailRow`, `Pose`,
`Cal`, `GripShown`, `LiveMotors`, `Offline`, `Status`, `VoltsCell`, `BusVolts`.
The stats have no age: while they are silent the motors keep what they last
showed, and only the feed of the angles tells that it is stale.
Time is counted in the timer's intervals, up to the first that is stale. The
teleop window's own subscription is `useJoints` without the `try`: malformed
messages, which the module does not send, are left out.

### Scene3D and Viewport

React's effects are a set `due` that a render adds to and one step runs, in the
order they are written in; a frame is drawn if one was asked for since the last.
A mesh is loading, in or failed; its material is `grey` from the loader, `mono`
with an opacity after the effects. The camera is its distance, in frames, from
the preset. A lost context keeps the canvas until the browser restores it, and
the new key remounts it. `Viewport` mounts the scene or the schematic; the
schematic's resize observer has the data of its mount (`closure`). The Arm tab
shows both side by side, each behaves as here.

Left out: the drawing itself, the disposal of GPU memory, and a cancelled load
after its unmount, which nobody sees.

## 3. The runs

| run | constants | shows |
|---|---|---|
| `teleop_recall` | pan, one IK joint, roll, gripper; one slot, two recalls | `SingleRecall`, `UncalibratedRefused`, `RecallLeavesUncalibratedLimp` |
| `teleop_seed` | pan, one IK joint, gripper; no recalls; readings with and without angles | `TickGoalsWithinSoftLimits`, `SensorYieldsToOperator` |
| `teleop_live` | one recall, commands on an axis and on a diagonal beyond the cap of 3, fairness | `RampedCommands`, `GuardReleased`, `StaleArmStops` |
| `calibration` | one joint, two sessions, one crash, fairness | `OneLiveSession`, `OnlyMeasured`, `ArmWithinShared`, `FlagCoversSession`, `FileOfOneSession`, `MapsAgree`, refinements `KeepsPromise` and `KeepsController`, `SignalledSessionEnds`, `PublishersResume` |
| `recorder` | revolution 10, travel 6, encoder zeros 0 and 7, moves up to 4 | `ExtremesMatchTicks`, `AcceptedIsTrue`, `SoftLimitsInside` |
| `poses` | one window, two slots, one pose, one crash, one command and one message in flight | `LiveMatchesStore`, `DiskMatchesStore`, `OthersSurvive`, `CardMatchesStore` |
| `panel_calibration` | two sessions, one crash, two mounts, one lost message, one command and one message in flight, fairness | `SignalsReachTheirSession`, refinement `KeepsController`, `TorqueHint`, `LastWord`, `NoGhostRecording`, `SessionShown` |
| `telemetry` | two joints (one the gripper), one angle, two voltages, answers ok with and without a voltage and not ok with one, stale after four intervals, one message of a subject in flight, fairness | `FreshAngles`, `CalCount`, `MotorsCurrent`, `SilenceShown` |
| `viewport` | two meshes, readings, presets, opacities and views, a camera two frames away, one context loss, one drag, fairness | `SceneFollows`, `PictureCurrent`, `SchematicCurrent`, `CameraSettles`, `ViewerResolves` |

The type invariants are proved (section 4) and not run.

Bounds and why they are enough. Two recalls race for the guard, more only repeat
it; a pose with and without an angle for a joint, inside and outside its limits;
a twist on an axis and one on the diagonal beyond the cap, with a ramp of one, so
a command takes several ticks to arrive and turns outside the circle of the cap.
Two sessions overlap in every pair of stages.
A revolution of ten with moves of four covers unwrapping both ways, and failed
reads let a joint move further than half a revolution unseen; a zero at 7 puts
the seam inside the travel. Two slots are needed for one pose to be lost by a
change of the other, and one pose, because no step compares poses, only whether
a slot has one and whose snapshot it is in. One command in flight races the
handler's current one; a queue of one message per window already lets the boot's
and the handler's messages arrive in either order. Two mounts let a card be
opened in the middle of a session, and again in the next; one lost message can be
any of those that matter. Two joints let one be calibrated, read or answered
without the other. One mesh may fail while the other loads; two of everything
that is chosen lets it change and change back. `MaxCont` bounds the unwrapped position, `MaxCrashes` the
crashes; `Recallers` and `Sessions` are pools (a recaller is used again, a
session once).

Deadlock is checked except in the `calibration`, `panel_calibration` and
`recorder` runs, where the sessions are used up, or the recording is finished,
and nothing is left to do.

Fairness. The loop: the ticker fires, the tick goroutine, a started recall and a
started stop go on. The Go scheduler is fair to runnable goroutines and no step
waits for another goroutine except for a mutex that is held briefly; nothing is
assumed of the operator or the publisher. Sessions: a goroutine goes on, and a
`select` with a ready `finish` channel takes it at some point: it chooses
uniformly among the ready cases, and the ticker is not ready at every
iteration. Nothing is assumed of commands. The card: messages that are not lost
arrive, the boot goes on, a session's ticker republishes; nothing is assumed of
the operator, the command handler, losses or crashes (a bound on the losses means
that a loss does not repeat for ever). Telemetry: messages arrive, time passes,
the browser's timer fires; nothing is assumed of the publishers. The viewport: a
request ends with data or an error, React runs its effects and the browser draws
a frame that was asked for; nothing is assumed of the user or of a lost context.

### Where a comment and the code differ

Three runs check one property each, a sentence of a comment, and TLC shows a
behaviour of the code that breaks it.

| run | the comment | what happens |
|---|---|---|
| `teleop_caps` | `loop.go:63-65` caps are cleared by the next teleop motion | the next motion clears the flag, and lifts the caps of its own joints only |
| `teleop_stop` | `loop.go:189-191` a stop freezes motion immediately | a tick past its copy of the input writes its goals after the stop |
| `teleop_reseed` | `loop.go:125-127` the next stick input does not snap back after a recall | a tick in flight stores its older copy of the whole reference |

Others are exceptions a checked property states, so that the property says both
where the comment holds and where it does not:

* `loop.go:26`, `MaxLinear` caps the magnitude of planar and vertical motion: the
  ramp turns a clamped vector component by component, so a command that goes from
  the diagonal to an axis exceeds it on the way, by up to 8.3 % (`WithinCaps` in
  `RampedCommands`; in the run, from (2, 2) to (3, 1) with a cap of 3).
* `controller.go:31`, the flag is true while a session reads the bus: the end of
  the previous session may lower it (`~overlap` in `FlagCoversSession`).
* `store.go:16`, `Save` writes atomically: two overlapping saves share `.tmp`
  and may mix their entries (`~overlap` in `FileOfOneSession`).
* `record.go:15-17`, a range that straddles the seam is flagged: not if its span
  is within half of `SeamSlackTicks` of half a revolution (`AcceptedIsTrue`).
* `CalibrationCard.tsx:3-4` and `:45`, torque is off during recording: a
  `set_torque`, a recall or a standard goal turns it on, and none looks at the
  session (`TorqueHint`).
* `MotorDetail.tsx:4-5`, ok=false renders every cell as a dash: true of a servo that
  could not be read. The cells look at the values and not at ok, so an answer that
  is not ok and has a voltage shows it, and it may be the bus voltage
  (`MotorsCurrent`); whether the broker ever answers so is not in the repository.
* `Arm2DScene.tsx:142`, redraw on resize only: the redraw has the readings and
  the view of the mount (`SchematicCurrent`).

## 4. The proofs

No fact is assumed but the named `ASSUME`s of the modules: the joints' roles are
disjoint and finitely many, limits are ordered, `MaxLinear`, `MaxPitch`, ramps and
steps are naturals, `None`, `Nil`, `NA` and `NoValue` are no data, the joints of `Telemetry`
are finitely many naturals and its answers any set of servo states, and for the recorder
`ScaleAssumption` (a revolution fits 16 bits, `MinRange` and `Cap` exceed two
margins, which the constants of `config.go` and `jointmap.go` satisfy). TLC
evaluates each of them.

`TeleopLoopProofs`, for any number of recalls, slots, IK joints and inputs:

* `TypeCorrect`: the type invariant, used by all the others.
* `SingleRecallCorrect`: `SingleRecall` is inductive. Its second conjunct, the
  guard is up iff a recall is past it, is what makes the first one so;
  `SpawnedRecalls` shows that starting goroutines touches only idle ones.
* `UncalibratedRefusedCorrect` from `CalibrationSeen`: what a tick or recall
  checked stays true to its write because the map only grows.
* `SoftLimitsCorrect`: `TickIntegrate` clamps whatever the reference was, and
  only the tick changes its locals (`TickFrame`).
* `RampedCommandsCorrect` from `RampState`: outside the two steps that read and
  write it, `prevTwist` is the last command or rest, within the caps. A recall may
  set it to rest at any time. `ClampTwistBounds` puts what a command aims at into
  the octagon `|vy|, |vz| <= MaxLinear`, `|vy| + |vz| <= sqrt(2) * MaxLinear`, and
  `SlewDiamond` keeps the ramp inside: a component that has not arrived moves by
  the full ramp, so `|vy| + |vz|` never exceeds both its old value and its aim's.
  The circle itself is not kept (section 3); at the octagon's corners the
  magnitude is `sqrt(4 - 2 sqrt(2))`, 1.082, times the cap.
* `SensorYieldsCorrect`: the second gate, not the first, is what it rests on. It
  speaks of the operator's input only: during a panel recall with idle teleop a
  reading may replace the reference, also the one the recall has just seeded.
* `LimpCorrect`: `TorqueFrame` leaves `set_torque` and the drive of a recall, which
  torques `Usable` joints only.

`CalibrationSessionProofs`, for any joints, sessions and crashes:

* `OneLiveSessionCorrect` from `LiveInv`, which adds the session the handler is
  starting.
* `OnlyMeasuredCorrect` from `Settled` (what a session has decided at each
  stage) and `AllBacked` (every map and file, also files without a name, holds
  only joints that passed).
* `ArmWithinSharedCorrect` from `SharedFirst`: the shared map is updated before
  the arm server's and loses entries only in a crash (`SharedGrows`).
* `PromiseKept`: every step maps to a step of `CalibrationPromise` or a stutter,
  with the invariants above.
* `ControllerKept`: every step is one of `ControllerPromise`, or changes nothing of
  it, from `LiveInv` and `Unsignalled`: a session that has not been opened has no
  signal. The promise counts restarts, so that a session which closes without a
  signal cannot pass for one that a restart closed.
* `FlagCoversSessionCorrect` from `AloneInv`: without an overlap a recording
  session is alone, so the only flag that an end lowers is its own.
* `MapsAgreeCorrect` from `AgreeInv`: while one session at a time applies, what
  the arm server was last given is in the shared map too.
* `FileOfOneSessionCorrect` from `FilesInv`: a session that writes without an
  overlap writes to the file it has truncated, so what the rename moves is its
  result; the `.tmp` a crash leaves behind is never the file `disk` names.

`PoseStoreProofs`: `TypeCorrect`, and `LiveMatchesStoreCorrect`,
`DiskMatchesStoreCorrect` and `OthersSurviveCorrect` from `StoreInv`: in a clean
boot each slot of the file is in the store or pending (`CleanBoot`); from then on
snapshots are the store (`SnapshotsFresh`), and so is the file but for touched
slots (`FileFresh`).

`PosesPanelProofs`, for any windows, slots, poses, queues and crashes:

* `PanelTypeCorrect`: a window that is closed has no state and no messages.
* `PanelImplementsStore`: `PanelSpec => Spec` of `PoseStore`, so
  `StorePromisesKept` gets the three properties of the store for the composition.
* `CardMatchesStoreCorrect`: the goroutine that publishes last does so after the
  last change of the store, since a command changes it before it publishes and a
  clean boot publishes after it has set every pose.

`RecorderProofs`, for any revolution, travel, slack and margins:

* `SoftLimitsInsideCorrect`, from what an accepted result is (`ResultWindow`) and
  that its window is wider than two margins also where it is cut at the end of
  the scale (`CenteredWide`); no 16-bit sum wraps (`WindowLimits`).
* `ExtremesMatchTicksCorrect` from `Extremes` and `Congruent`: `Delta` keeps the
  unwrapped position congruent to the raw one modulo a revolution
  (`SameRemainder`), and the extremes were positions.
* `AcceptedIsTrueCorrect` from `Traced`: as long as no read moved further than
  half a revolution, the unwrapped position differs from the true one by a
  constant (`DeltaTrue`), so the extremes are the swept ones; `NoSeamInside` then
  turns the seam test into the absence of a seam, away from its blind spot.

`CalibrationPanelProofs`, for any sessions, crashes, losses and queues:
`TypeCorrect`, and `TorqueHintCorrect` from `LiveOK` (the controller has the one
session that is alive; a torque from before the start is gone when its goroutine
runs) and `Told` (no message in flight or on the card says "recording" of a
session whose goroutine has not begun). `CardKept` and `CardPublish` are the card's
side of every step of the module.

* `SignalsReachTheirSessionCorrect` from `Follow`, which relates the orders of
  three queues. A command on its way is about the live session, or none is live
  (`QueueOK`); a message that says "recording" is too, and the end of a session is
  the last message while the card shows that session (`SeenOK`); so a card that
  shows none has sent no signal that could meet the next session (`UnseenOK`), and
  one session at a time is ending (`EndingOK`). It holds of a card that was opened
  once over a module that had booted (`Orderly`, `BeforeOK`), as the property says:
  a second card can start a session while the first one's signals are queued. TLC
  found `Follow` to hold of two sessions with a crash, and of three with three
  commands in flight, before it was proved.
* `LastWordCorrect`: every step that ends a session or its goroutine publishes for
  it (`LastWordPublish`), and no other step takes a session that the card may have
  heard of out of its loop (`LastWordKept`). It is the safety half of
  `NoGhostRecording`.
* `ControllerKept`: the same promise, refined again. The two modules model one
  controller for two purposes, with channels that are emptied at different steps;
  both implementing `ControllerPromise` is what keeps them from drifting apart.

`TelemetryProofs`, for any joints, angles, voltages, answers and messages in flight:
`TypeCorrect`, `FreshAnglesCorrect`, `CalCountCorrect` and `MotorsCurrentCorrect`
from one invariant: what the publishers build names every joint (`Built`), either
nothing has come or every reading is that of the last message (`LatestOK`), and
the servo states are those built from the last read that came (`StatsOK`). A
message that named only some joints would break the first two, a merge of servo
states the last. `MotorsCurrent` goes from what the servos answered to each
readout; it does not say that a servo which is not ok shows no numbers, because
`ReadServoState` passes on what came with it. `LeastJoint` shows that the bus
voltage's joint exists.

`ViewportProofs`, for any meshes, readings, presets, opacities, losses and drags:

* `SceneFollowsCorrect` from `LoadOK` (the robot is published when no mesh loads
  any more), `AttachedOK` (a mesh has a material iff it is attached) and `StyleOK`
  (what is not as the props want it has its effect due; new materials never come
  without the opacity). `StyledMeshes` is what the order of the effects gives.
* `PictureCurrentCorrect` from `PictureOK`: an effect that changes a material or a
  joint is one that invalidates, and a moving camera has asked for a frame.
* `TypeCorrect` and `SchematicCurrentCorrect`.

Only model-checked: the liveness properties, since TLAPS does not handle liveness
under fairness. Every invariant and every action property of a passing run is a
theorem.

## 5. What is not modelled

* Kinematics (`internal/ik`), floating point: the loop allows any bounded step.
* Type conversions of the servo bus adapter, `RawFromRad`, configuration: no
  state. What the servos answer, or not, is a choice in the modules.
* The arm server's standard goals and `State`: one clamped write, one read, no
  state of its own. Its stop and its map are modelled.
* Servo tuning: one-time register writes at start.
* What the 2D and 3D scenes draw, number formats, layout, the range table of the
  calibration card, the torque note of the poses card (the last button pressed:
  there is no torque telemetry), disposal of GPU memory.
* Encoding of the messages (generated code), build, tests and packaging.

## 6. What could follow

Everything above is done. What is left needs the module's documents first: a
promise of the poses subject to windows that open late, or of the card's DONE.
Today the code makes none, and the hazards in `PROJECT.json` say so.
