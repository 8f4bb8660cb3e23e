----------------------------- MODULE TeleopLoop -----------------------------
(***************************************************************************)
(* The teleop loop of internal/teleop/loop.go with the goroutines that     *)
(* share it: the 50 Hz tick, the gamepad callback (SetInput), any number   *)
(* of Recall goroutines, arm.cmd stop (Halt, then the goals re-latched),   *)
(* the joints publisher that seeds the reference, and the command handler  *)
(* that replaces the pose set, switches torque and applies calibrations.   *)
(*                                                                         *)
(* One action is one critical section of Loop.mu, one access to a field    *)
(* used outside it, or one batch of servo writes.  Angles are integers on  *)
(* a coarse grid; the time since the last gamepad snapshot is abstracted   *)
(* to whether StaleAfter has passed.                                       *)
(***************************************************************************)
EXTENDS Integers, FiniteSets

CONSTANTS
    Pan,          \* joint 1: direct rate, outside the IK
    IK,           \* joints 2..4
    Roll,         \* joint 5, as a set of at most one joint: direct rate
    Grip,         \* joint 6: direct rate, outside q and never recalled
    Slots,        \* pose slots, each with a gamepad button
    Recallers,    \* Recall goroutines alive at a time (a bound for TLC)
    Inputs,       \* gamepad snapshots
    PoseMaps,     \* pose sets main can push
    Readings,     \* joint angles the publisher can read
    TorqueCommands, \* arguments of set_torque
    SoftLo, SoftHi, \* soft limits of each joint
    MaxLinear,    \* cap on the magnitude of the twist's linear part
    MaxPitch,     \* cap on its pitch rate
    Ramp, PanRamp, \* largest change of twist and of pan rate per tick
    MaxStep,      \* largest change of an angle per tick
    Nil, NA       \* no snapshot; no angle (unreadable, or not in the pose)

Arm    == {Pan} \cup IK \cup Roll        \* joints 1..5: q, and recall
Joints == Arm \cup {Grip}
Direct == {Pan, Grip} \cup Roll

MaybeAngle == Int \cup {NA}
Pose       == [Arm -> MaybeAngle]
NoPose     == [j \in Arm |-> NA]
Zero       == [d \in Direct |-> 0]
\* The twist's components; MapInput leaves Vx at 0.
Axis  == {"vy", "vz", "wpitch"}
Twist == [Axis -> Int]
Rest  == [a \in Axis |-> 0]

Input == [twist : Twist, rate : [Direct -> Int], pressed : SUBSET Slots]

ASSUME JointAssumption ==
    /\ IsFiniteSet(Joints)
    /\ Pan \notin IK \cup Roll \cup {Grip}
    /\ Grip \notin Arm
    /\ IK \cap Roll = {}
ASSUME LimitAssumption ==
    /\ SoftLo \in [Joints -> Int]
    /\ SoftHi \in [Joints -> Int]
    /\ \A j \in Joints : SoftLo[j] <= SoftHi[j]
ASSUME RateAssumption ==
    /\ MaxLinear \in Nat
    /\ MaxPitch \in Nat
    /\ Ramp \in Nat \ {0}
    /\ PanRamp \in Nat \ {0}
    /\ MaxStep \in Nat
ASSUME DataAssumption ==
    /\ Inputs \subseteq Input
    /\ Nil \notin Input
    /\ NA \notin Int
    /\ PoseMaps \subseteq [Slots -> Pose]
    /\ Readings \subseteq [Joints -> MaybeAngle]
    /\ TorqueCommands \subseteq BOOLEAN

VARIABLES
    last,         \* last gamepad snapshot, Nil when there is none
    fresh,        \* time.Since(lastAt) <= StaleAfter, for a snapshot in last
    halted,
    q,            \* q of joints 1..5 and grip: the angle reference
    held,         \* slots whose button was down in the last snapshot
    poses,        \* live pose set of the recall
    goalSpeedDirty,
    recalling,    \* the atomic guard
    prevTwist, prevPan,
    cals,         \* joints with a usable entry in the shared calibration map
    ticker,       \* time.Ticker's channel, and whether the pending tick's
                  \*   time stamp finds the last snapshot fresh
    tickPc, snap, tickQ, twist, rate, moved, dirty, \* the tick's locals
    recallPc, recallSlot, recallGoals,          \* each Recall's locals
    stop,         \* "relatch" between Halt and the end of an arm.cmd stop
    pubPc, reading,                             \* the publisher's locals
    capped,       \* servos with a reduced moving-speed cap
    torqued       \* servos with torque enabled

inputVars  == <<last, fresh, halted, held>>
refVars    == <<q, prevTwist, prevPan, goalSpeedDirty>>
tickVars   == <<ticker, tickPc, snap, tickQ, twist, rate, moved, dirty>>
recallVars == <<recalling, recallPc, recallSlot, recallGoals>>
pubVars    == <<pubPc, reading>>
servoVars  == <<capped, torqued>>
vars == <<inputVars, refVars, tickVars, recallVars, pubVars, servoVars,
          poses, cals, stop>>

Abs(n) == IF n < 0 THEN -n ELSE n

Clamp(n, lo, hi) == IF n < lo THEN lo ELSE IF n > hi THEN hi ELSE n

\* slew: move prev toward want by at most step.
Slew(prev, want, step) == Clamp(want, prev - step, prev + step)

\* The square of the magnitude of v's linear part.
Square(v) == v["vy"] * v["vy"] + v["vz"] * v["vz"]

\* Component a of v, brought within the cap: what the whole vector is scaled by
\* is MaxLinear over its magnitude, and the grid rounds toward zero.
Scaled(v, a) ==
    LET share == MaxLinear * MaxLinear * v[a] * v[a] IN
    IF Square(v) <= MaxLinear * MaxLinear THEN {v[a]}
    ELSE {k \in -MaxLinear .. MaxLinear :
              /\ k * v[a] >= 0
              /\ k * k * Square(v) <= share
              /\ (Abs(k) + 1) * (Abs(k) + 1) * Square(v) > share}

\* clampTwist: one twist, as a set.
ClampTwist(v) ==
    {[a \in Axis |-> IF a = "vy" THEN y ELSE IF a = "vz" THEN z
                     ELSE Clamp(v["wpitch"], -MaxPitch, MaxPitch)] :
        y \in Scaled(v, "vy"), z \in Scaled(v, "vz")}

\* Mutant of WithinSoft: the upper soft limit is not enforced.
WithinLowerLimit(j, angle) == IF angle < SoftLo[j] THEN SoftLo[j] ELSE angle

WithinSoft(j, angle) == Clamp(angle, SoftLo[j], SoftHi[j])

\* seedAllowedLocked: teleop is idle.
SeedAllowed == halted \/ last = Nil \/ ~fresh

\* calibrated: the pan and IK joints gate all motion.
Calibrated == {Pan} \cup IK \subseteq cals

Init ==
    /\ last = Nil /\ fresh = FALSE /\ halted = FALSE /\ held = {}
    /\ q = [j \in Joints |-> 0] /\ prevTwist = Rest /\ prevPan = 0
    /\ goalSpeedDirty = FALSE /\ recalling = FALSE
    /\ poses = [s \in Slots |-> NoPose]
    /\ cals = {}
    /\ ticker = "none" /\ tickPc = "idle" /\ snap = Nil
    /\ tickQ = [j \in Joints |-> 0]
    /\ twist = Rest /\ rate = Zero /\ moved = {} /\ dirty = FALSE
    /\ recallPc = [r \in Recallers |-> "none"]
    /\ recallSlot = [r \in Recallers |-> Nil]
    /\ recallGoals = [r \in Recallers |-> NoPose]
    /\ stop = "idle"
    /\ pubPc = "idle" /\ reading = [j \in Joints |-> NA]
    /\ capped = {} /\ torqued = {}

-----------------------------------------------------------------------------
(* Operator input and the recall goroutines it starts.                     *)

\* `go l.Recall(slot)` for every slot in fired, each in a goroutine of its own.
Spawn(fired) ==
    \E g \in [fired -> {r \in Recallers : recallPc[r] = "none"}] :
        /\ \A s, t \in fired : g[s] = g[t] => s = t
        /\ recallPc' = [r \in Recallers |->
               IF \E s \in fired : g[s] = r THEN "start" ELSE recallPc[r]]
        /\ recallSlot' = [r \in Recallers |->
               IF \E s \in fired : g[s] = r
               THEN CHOOSE s \in fired : g[s] = r
               ELSE recallSlot[r]]

\* A gamepad snapshot: it resumes a halted loop, and every slot button that
\* was up in the previous snapshot and is down in this one starts a recall.
SetInput(in) ==
    /\ last' = in
    /\ fresh' = TRUE
    /\ halted' = FALSE
    /\ held' = in.pressed
    /\ ticker' = IF ticker = "stale" THEN "fresh" ELSE ticker
    /\ Spawn(in.pressed \ held)
    /\ UNCHANGED <<refVars, tickPc, snap, tickQ, twist, rate, moved, dirty,
                   recalling, recallGoals, pubVars, servoVars, poses, cals,
                   stop>>

\* StaleAfter passes without a snapshot.
Expire ==
    /\ fresh
    /\ fresh' = FALSE
    /\ UNCHANGED <<last, halted, held, refVars, tickVars, recallVars, pubVars,
                   servoVars, poses, cals, stop>>

\* recall_pose on the private command subject.
RecallCommand(s) ==
    /\ Spawn({s})
    /\ UNCHANGED <<inputVars, refVars, tickVars, recalling, recallGoals,
                   pubVars, servoVars, poses, cals, stop>>

\* publishPoses pushes a pose set after a capture, a delete or the boot load.
SetPoses(p) ==
    /\ poses' = p
    /\ UNCHANGED <<inputVars, refVars, tickVars, recallVars, pubVars,
                   servoVars, cals, stop>>

\* set_torque on the private command subject.
SetTorqueAll(on) ==
    /\ torqued' = IF on THEN Joints ELSE {}
    /\ UNCHANGED <<inputVars, refVars, tickVars, recallVars, pubVars, capped,
                   poses, cals, stop>>

\* applyCals adds the joints that calibrated, one map entry at a time.
ApplyCal(j) ==
    /\ cals' = cals \cup {j}
    /\ UNCHANGED <<inputVars, refVars, tickVars, recallVars, pubVars,
                   servoVars, poses, stop>>

-----------------------------------------------------------------------------
(* arm.cmd stop: Halt, then every readable joint's goal re-latched.        *)

StopHalt ==
    /\ stop = "idle"
    /\ stop' = "relatch"
    /\ last' = Nil
    /\ halted' = TRUE
    /\ fresh' = FALSE
    /\ UNCHANGED <<held, refVars, tickVars, recallVars, pubVars, servoVars,
                   poses, cals>>

StopRelatch ==
    /\ stop = "relatch"
    /\ stop' = "idle"
    /\ UNCHANGED <<inputVars, refVars, tickVars, recallVars, pubVars,
                   servoVars, poses, cals>>

-----------------------------------------------------------------------------
(* The tick.  The locals are dead while tickPc = "idle"; twist keeps the   *)
(* last command so that properties can compare consecutive ticks.          *)

\* The ticker's channel holds one tick; a tick that finds it full is dropped.
TickerFire ==
    /\ ticker = "none"
    /\ ticker' = IF fresh THEN "fresh" ELSE "stale"
    /\ UNCHANGED <<inputVars, refVars, tickPc, snap, tickQ, twist, rate,
                   moved, dirty, recallVars, pubVars, servoVars, poses, cals, stop>>

\* Mutant of TickHalted: the ramp state survives a stop.
TickHaltedKeepsRamp ==
    /\ tickPc = "idle" /\ ticker # "none" /\ halted
    /\ ticker' = "none"
    /\ twist' = Rest
    /\ UNCHANGED <<inputVars, refVars, tickPc, snap, tickQ, rate, moved,
                   dirty, recallVars, pubVars, servoVars, poses, cals, stop>>

\* A halted loop discards its ramp state and does nothing.
TickHalted ==
    /\ tickPc = "idle" /\ ticker # "none" /\ halted
    /\ ticker' = "none"
    /\ prevTwist' = Rest /\ prevPan' = 0
    /\ twist' = Rest
    /\ UNCHANGED <<inputVars, q, goalSpeedDirty, tickPc, snap, tickQ, rate,
                   moved, dirty, recallVars, pubVars, servoVars, poses, cals, stop>>

\* Failsafe 5: an uncalibrated arm does not move.
TickUncalibrated ==
    /\ tickPc = "idle" /\ ticker # "none" /\ ~halted /\ ~Calibrated
    /\ ticker' = "none"
    /\ UNCHANGED <<inputVars, refVars, tickPc, snap, tickQ, twist, rate,
                   moved, dirty, recallVars, pubVars, servoVars, poses, cals, stop>>

\* Mutant of TickSample: an expired snapshot keeps driving the arm.
TickSampleStale ==
    /\ tickPc = "idle" /\ ticker # "none" /\ ~halted /\ Calibrated
    /\ ticker' = "none"
    /\ tickPc' = "sampled"
    /\ snap' = last
    /\ tickQ' = q
    /\ UNCHANGED <<inputVars, refVars, twist, rate, moved, dirty, recallVars,
                   pubVars, servoVars, poses, cals, stop>>

\* The locked copy of the input and of the reference; a snapshot that the
\* tick's time stamp finds stale is dropped (failsafe 1).
TickSample ==
    /\ tickPc = "idle" /\ ticker # "none" /\ ~halted /\ Calibrated
    /\ ticker' = "none"
    /\ tickPc' = "sampled"
    /\ snap' = IF ticker = "fresh" THEN last ELSE Nil
    /\ tickQ' = q
    /\ UNCHANGED <<inputVars, refVars, twist, rate, moved, dirty, recallVars,
                   pubVars, servoVars, poses, cals, stop>>

\* Failsafe 2: the command is clamped, then ramped from prevTwist, component by
\* component, and from prevPan; without a snapshot it asks for rest.
TickRamp ==
    LET wanted == IF snap = Nil THEN {Rest} ELSE ClampTwist(snap.twist)
        rates  == IF snap = Nil THEN Zero ELSE snap.rate
    IN
    /\ tickPc = "sampled"
    /\ tickPc' = "ramped"
    /\ snap' = Nil
    /\ \E want \in wanted :
           twist' = [a \in Axis |-> Slew(prevTwist[a], want[a], Ramp)]
    /\ rate' = [rates EXCEPT ![Pan] = Slew(prevPan, @, PanRamp)]
    /\ UNCHANGED <<inputVars, refVars, ticker, tickQ, moved, dirty,
                   recallVars, pubVars, servoVars, poses, cals, stop>>

\* directJoint: the angle moves in the rate's direction and stops at the
\* soft limit; a joint outside its limits is pulled back to them.
DirectStep(j, d) ==
    WithinSoft(j, tickQ[j] + (IF rate[j] < 0 THEN -d ELSE d))

\* The joints this tick commands: a direct joint with a rate and a usable
\* calibration, and every IK joint when there is a twist.
Commanded == {j \in Direct : rate[j] # 0 /\ j \in cals}
             \cup (IF twist # Rest THEN IK ELSE {})

\* prevTwist and prevPan are stored and the local reference integrated: any
\* step of the solver within MaxStep, clamped to the soft limits.
TickIntegrate ==
    /\ tickPc = "ramped"
    /\ prevTwist' = twist
    /\ prevPan' = rate[Pan]
    /\ moved' = Commanded
    /\ \E d \in [Commanded -> -MaxStep .. MaxStep] :
        /\ \A j \in Commanded \cap Direct : d[j] >= 0
        /\ tickQ' = [j \in Joints |->
               IF j \notin Commanded THEN tickQ[j]
               ELSE IF j \in Direct THEN DirectStep(j, d[j])
               ELSE WithinSoft(j, tickQ[j] + d[j])]
    /\ tickPc' = IF Commanded = {} THEN "idle" ELSE "store"
    /\ UNCHANGED <<inputVars, q, goalSpeedDirty, ticker, snap, twist, rate, dirty,
                   recallVars, pubVars, servoVars, poses, cals, stop>>

\* The whole reference is overwritten by the tick's copy, the flag taken.
TickStore ==
    /\ tickPc = "store"
    /\ q' = tickQ
    /\ dirty' = goalSpeedDirty
    /\ goalSpeedDirty' = FALSE
    /\ tickPc' = "write"
    /\ UNCHANGED <<inputVars, prevTwist, prevPan, ticker, snap, tickQ, twist,
                   rate, moved, recallVars, pubVars, servoVars, poses, cals, stop>>

\* The caps of this batch's joints are lifted if the flag was taken, and the
\* goals go out.
TickWrite ==
    /\ tickPc = "write"
    /\ capped' = IF dirty THEN capped \ moved ELSE capped
    /\ tickPc' = "idle"
    /\ moved' = {} /\ dirty' = FALSE
    /\ UNCHANGED <<inputVars, refVars, ticker, snap, tickQ, twist, rate,
                   recallVars, pubVars, torqued, poses, cals, stop>>

-----------------------------------------------------------------------------
(* Recall, one action per stage of goroutine r.                            *)

\* A Recall that returns: its locals are dead, the guard is released by the
\* deferred store unless the CompareAndSwap failed.
Return(r) ==
    /\ recallPc' = [recallPc EXCEPT ![r] = "none"]
    /\ recallSlot' = [recallSlot EXCEPT ![r] = Nil]
    /\ recallGoals' = [recallGoals EXCEPT ![r] = NoPose]

\* Mutant of RecallBusy: the release is deferred before the CompareAndSwap.
RecallBusyReleases(r) ==
    /\ recallPc[r] = "start" /\ recalling
    /\ recalling' = FALSE
    /\ Return(r)
    /\ UNCHANGED <<inputVars, refVars, tickVars, pubVars, servoVars, poses,
                   cals, stop>>

\* The CompareAndSwap fails: another recall is running.
RecallBusy(r) ==
    /\ recallPc[r] = "start" /\ recalling
    /\ Return(r)
    /\ UNCHANGED <<inputVars, refVars, tickVars, recalling, pubVars,
                   servoVars, poses, cals, stop>>

\* The guard is taken and the pose read under the lock.
RecallBegin(r) ==
    /\ recallPc[r] = "start" /\ ~recalling
    /\ recalling' = TRUE
    /\ recallPc' = [recallPc EXCEPT ![r] = "check"]
    /\ recallGoals' = [recallGoals EXCEPT ![r] = poses[recallSlot[r]]]
    /\ UNCHANGED <<inputVars, refVars, tickVars, recallSlot, pubVars,
                   servoVars, poses, cals, stop>>

\* Mutant of Usable: every joint of the pose.
Saved(r) == {j \in Arm : recallGoals[r][j] # NA}

\* The joints of r's pose that have a usable calibration.
Usable(r) == {j \in Arm \cap cals : recallGoals[r][j] # NA}

\* Mutant of RecallRefused: an early return that keeps the guard.
RecallRefusedKeepsGuard(r) ==
    /\ recallPc[r] = "check"
    /\ ~Calibrated \/ Usable(r) = {}
    /\ Return(r)
    /\ UNCHANGED <<inputVars, refVars, tickVars, recalling, pubVars,
                   servoVars, poses, cals, stop>>

\* Nothing to drive: an empty slot, an uncalibrated arm, or no usable joint.
RecallRefused(r) ==
    /\ recallPc[r] = "check"
    /\ ~Calibrated \/ Usable(r) = {}
    /\ recalling' = FALSE
    /\ Return(r)
    /\ UNCHANGED <<inputVars, refVars, tickVars, pubVars, servoVars, poses,
                   cals, stop>>

\* Mutant of RecallDrive: the arm's calibration is not checked.
RecallDriveUnchecked(r) ==
    /\ recallPc[r] = "check"
    /\ Usable(r) # {}
    /\ torqued' = torqued \cup Usable(r)
    /\ capped' = capped \cup Usable(r)
    /\ recallPc' = [recallPc EXCEPT ![r] = "write"]
    /\ UNCHANGED <<inputVars, refVars, tickVars, recalling, recallSlot,
                   recallGoals, pubVars, poses, cals, stop>>

\* Torque and the moving-speed cap of every joint to be driven.
RecallDrive(r) ==
    /\ recallPc[r] = "check"
    /\ Calibrated /\ Usable(r) # {}
    /\ torqued' = torqued \cup Usable(r)
    /\ capped' = capped \cup Usable(r)
    /\ recallPc' = [recallPc EXCEPT ![r] = "write"]
    /\ recallGoals' = [recallGoals EXCEPT ![r] =
           [j \in Arm |-> IF j \in Usable(r) THEN @[j] ELSE NA]]
    /\ UNCHANGED <<inputVars, refVars, tickVars, recalling, recallSlot,
                   pubVars, poses, cals, stop>>

\* The pose's goals go out in one batch.
RecallWrite(r) ==
    /\ recallPc[r] = "write"
    /\ recallPc' = [recallPc EXCEPT ![r] = "reseed"]
    /\ UNCHANGED <<inputVars, refVars, tickVars, recalling, recallSlot,
                   recallGoals, pubVars, servoVars, poses, cals, stop>>

\* The driven joints of the reference are reseeded, the twist's ramp state
\* dropped (not the pan's) and the caps marked dirty.
RecallReseed(r) ==
    /\ recallPc[r] = "reseed"
    /\ q' = [j \in Joints |->
           IF j \in Arm /\ recallGoals[r][j] # NA THEN recallGoals[r][j]
           ELSE q[j]]
    /\ prevTwist' = Rest
    /\ goalSpeedDirty' = TRUE
    /\ recallPc' = [recallPc EXCEPT ![r] = "return"]
    /\ UNCHANGED <<inputVars, prevPan, tickVars, recalling, recallSlot,
                   recallGoals, pubVars, servoVars, poses, cals, stop>>

\* The deferred release.
RecallReturn(r) ==
    /\ recallPc[r] = "return"
    /\ recalling' = FALSE
    /\ Return(r)
    /\ UNCHANGED <<inputVars, refVars, tickVars, pubVars, servoVars, poses,
                   cals, stop>>

-----------------------------------------------------------------------------
(* The joints publisher: a read only while teleop is idle, then two seeds, *)
(* each gated again.                                                       *)

\* The angles read from the bus; an uncalibrated joint reads as N/A.
PubRead(angles) ==
    /\ pubPc = "idle" /\ SeedAllowed
    /\ pubPc' = "joints"
    /\ reading' = [j \in Joints |-> IF j \in cals THEN angles[j] ELSE NA]
    /\ UNCHANGED <<inputVars, refVars, tickVars, recallVars, servoVars, poses,
                   cals, stop>>

\* Mutant of PubSeedJoints: only the read is gated, not the seed.
PubSeedJointsUngated ==
    /\ pubPc = "joints"
    /\ pubPc' = "grip"
    /\ q' = [j \in Joints |->
               IF j \notin Arm THEN q[j]
               ELSE IF reading[j] = NA THEN 0 ELSE reading[j]]
    /\ UNCHANGED <<inputVars, prevTwist, prevPan, goalSpeedDirty, tickVars,
                   recallVars, reading, servoVars, poses, cals, stop>>

\* SetJointEstimate: a joint without an angle is seeded with 0.
PubSeedJoints ==
    /\ pubPc = "joints"
    /\ pubPc' = "grip"
    /\ q' = IF SeedAllowed
            THEN [j \in Joints |->
                    IF j \notin Arm THEN q[j]
                    ELSE IF reading[j] = NA THEN 0 ELSE reading[j]]
            ELSE q
    /\ UNCHANGED <<inputVars, prevTwist, prevPan, goalSpeedDirty, tickVars,
                   recallVars, reading, servoVars, poses, cals, stop>>

\* SetGripEstimate, called only with a measured gripper angle.
PubSeedGrip ==
    /\ pubPc = "grip"
    /\ pubPc' = "idle"
    /\ q' = IF SeedAllowed /\ reading[Grip] # NA
            THEN [q EXCEPT ![Grip] = reading[Grip]]
            ELSE q
    /\ reading' = [j \in Joints |-> NA]
    /\ UNCHANGED <<inputVars, prevTwist, prevPan, goalSpeedDirty, tickVars,
                   recallVars, servoVars, poses, cals, stop>>

-----------------------------------------------------------------------------
Tick == \/ TickHalted \/ TickUncalibrated \/ TickSample \/ TickRamp
        \/ TickIntegrate \/ TickStore \/ TickWrite

Recall(r) == \/ RecallBusy(r) \/ RecallBegin(r) \/ RecallRefused(r)
             \/ RecallDrive(r) \/ RecallWrite(r) \/ RecallReseed(r)
             \/ RecallReturn(r)

Publisher == \/ \E angles \in Readings : PubRead(angles)
             \/ PubSeedJoints
             \/ PubSeedGrip

Operator == \/ \E in \in Inputs : SetInput(in)
            \/ \E s \in Slots : RecallCommand(s)
            \/ \E p \in PoseMaps : SetPoses(p)
            \/ \E on \in TorqueCommands : SetTorqueAll(on)
            \/ \E j \in Joints \ cals : ApplyCal(j)
            \/ StopHalt

Next == \/ Operator
        \/ Expire
        \/ StopRelatch
        \/ TickerFire
        \/ Tick
        \/ \E r \in Recallers : Recall(r)
        \/ Publisher

Spec == Init /\ [][Next]_vars

\* The ticker keeps firing and every goroutine that can run does: the Go
\* scheduler is fair, and no step waits on another goroutine for ever.
Fairness == /\ WF_vars(TickerFire)
            /\ WF_vars(Tick)
            /\ WF_vars(StopRelatch)
            /\ \A r \in Recallers : WF_vars(Recall(r))

FairSpec == Spec /\ Fairness

-----------------------------------------------------------------------------
(* Properties.                                                             *)

TypeOK ==
    /\ last \in Input \cup {Nil}
    /\ fresh \in BOOLEAN /\ halted \in BOOLEAN
    /\ held \subseteq Slots
    /\ q \in [Joints -> Int]
    /\ prevTwist \in Twist /\ prevPan \in Int
    /\ goalSpeedDirty \in BOOLEAN /\ recalling \in BOOLEAN
    /\ poses \in [Slots -> Pose]
    /\ cals \subseteq Joints
    /\ ticker \in {"none", "fresh", "stale"}
    /\ tickPc \in {"idle", "sampled", "ramped", "store", "write"}
    /\ snap \in Input \cup {Nil}
    /\ tickQ \in [Joints -> Int]
    /\ twist \in Twist
    /\ rate \in [Direct -> Int]
    /\ moved \subseteq Joints
    /\ dirty \in BOOLEAN
    /\ recallPc \in [Recallers ->
           {"none", "start", "check", "write", "reseed", "return"}]
    /\ recallSlot \in [Recallers -> Slots \cup {Nil}]
    /\ \A r \in Recallers : recallPc[r] = "start" => recallSlot[r] \in Slots
    /\ recallGoals \in [Recallers -> Pose]
    /\ stop \in {"idle", "relatch"}
    /\ pubPc \in {"idle", "joints", "grip"}
    /\ reading \in [Joints -> MaybeAngle]
    /\ capped \subseteq Joints
    /\ torqued \subseteq Joints

\* Recall r is past the CompareAndSwap and has not released the guard.
Guarded(r) == recallPc[r] \notin {"none", "start"}

\* The atomic guard admits a single recall, and is up exactly while one runs:
\* a recall that returns early or loses the CompareAndSwap neither leaves the
\* guard up for ever nor drops the guard of the one that holds it.
SingleRecall ==
    /\ \A r, s \in Recallers : Guarded(r) /\ Guarded(s) => r = s
    /\ recalling <=> \E r \in Recallers : Guarded(r)

\* The joints of the goal batches about to go out.
TickBatch   == IF tickPc \in {"store", "write"} THEN moved ELSE {}
RecallBatch == {j \in Arm : \E r \in Recallers :
                    recallPc[r] = "write" /\ recallGoals[r][j] # NA}

\* Failsafe 5 and its match in Recall: whatever the order in which calibrations
\* are applied and goals computed, no goal leaves the loop while one of the pan
\* and IK joints is uncalibrated, and none for a joint without a calibration.
UncalibratedRefused ==
    TickBatch \cup RecallBatch # {}
        => Calibrated /\ TickBatch \cup RecallBatch \subseteq cals

\* Failsafe 3: a goal the tick writes lies within the joint's soft limits, even
\* when the reference was seeded or recalled outside of them.
TickGoalsWithinSoftLimits ==
    \A j \in TickBatch : SoftLo[j] <= tickQ[j] /\ tickQ[j] <= SoftHi[j]

\* No component exceeds its cap, and the linear part stays in the octagon around
\* the circle of radius MaxLinear: |vy| + |vz| is at most sqrt(2) * MaxLinear.
WithinCaps(v) ==
    /\ Abs(v["vy"]) <= MaxLinear /\ Abs(v["vz"]) <= MaxLinear
    /\ Abs(v["wpitch"]) <= MaxPitch
    /\ (Abs(v["vy"]) + Abs(v["vz"])) * (Abs(v["vy"]) + Abs(v["vz"]))
           <= 2 * MaxLinear * MaxLinear

\* Failsafe 2: two consecutive commands differ by at most Ramp in each component,
\* or the ramp restarts from rest, whatever a stop or a recall does to prevTwist
\* between and during ticks.  The ramp turns a vector component by component after
\* its magnitude was clamped: the command may leave the circle of MaxLinear that
\* loop.go:26 speaks of, and never the octagon around it.
RampedCommands ==
    [][ tickPc = "sampled" /\ tickPc' = "ramped"
        => /\ \/ \A a \in Axis : Abs(twist'[a] - twist[a]) <= Ramp
              \/ \A a \in Axis : Abs(twist'[a]) <= Ramp
           /\ WithinCaps(twist') ]_vars

\* The reference of record: while the operator's input is fresh and not halted,
\* only a tick's store and a recall's reseed change the reference, although the
\* publisher may have read the servos when teleop was idle and delivers that
\* reading now.  A recall from the panel is no operator's input: while teleop is
\* idle, a reading may replace what the recall has seeded.
SensorYieldsToOperator ==
    [][ last # Nil /\ fresh /\ ~halted
        => q' = q \/ TickStore \/ \E r \in Recallers : RecallReseed(r) ]_vars

\* Only set_torque re-enables a servo that has no calibration: a recall leaves
\* the uncalibrated joints limp.
RecallLeavesUncalibratedLimp ==
    [][ torqued' \ torqued \subseteq cals
        \/ \E on \in TorqueCommands : SetTorqueAll(on) ]_vars

\* The guard is released again after every recall, so that no early return
\* disables recall until the module restarts.
GuardReleased == recalling ~> ~recalling

\* When the operator's stream stops for good the arm ramps down and the tick
\* writes no more goals (failsafe 1).
StaleArmStops ==
    <>[]~fresh => <>[](tickPc \notin {"store", "write"})

-----------------------------------------------------------------------------
(* What comments of the source promise and the code does not keep.         *)

\* loop.go:63-65: a recall's speed caps are remembered until the next teleop
\* motion clears them.
CapsRemembered ==
    tickPc = "idle" /\ ~recalling => (capped # {} => goalSpeedDirty)

\* loop.go:189-191: a stop freezes motion at once; when it has returned, no goal
\* of the tick goes out until the operator's next input.
StopFreezes ==
    [][ tickPc = "write" /\ tickPc' = "idle"
        => ~(halted /\ stop = "idle") ]_vars

\* loop.go:125-127: the reference is reseeded to the recalled pose, so that the
\* next stick input does not snap back: a tick changes the reference of the
\* joints it commands and of no other.
TickKeepsReseed ==
    [][ tickPc = "store" /\ tickPc' = "write"
        => \A j \in Joints \ moved : q'[j] = q[j] ]_vars
=============================================================================
