-------------------------- MODULE TeleopLoopProofs --------------------------
(***************************************************************************)
(* Theorems about TeleopLoop, for any joints, slots, recall goroutines,    *)
(* gamepad snapshots, poses, readings, limits and rates.                   *)
(***************************************************************************)
EXTENDS TeleopLoop, TLAPS

-----------------------------------------------------------------------------
(* Operators.                                                              *)

\* Clamp returns an integer between its bounds.
LEMMA ClampBounds ==
    ASSUME NEW n \in Int, NEW lo \in Int, NEW hi \in Int, lo <= hi
    PROVE  /\ Clamp(n, lo, hi) \in Int
           /\ lo <= Clamp(n, lo, hi)
           /\ Clamp(n, lo, hi) <= hi
BY DEF Clamp

\* A value clamped to the soft limits is an angle within them.
LEMMA WithinSoftBounds ==
    ASSUME NEW j \in Joints, NEW angle \in Int
    PROVE  /\ WithinSoft(j, angle) \in Int
           /\ SoftLo[j] <= WithinSoft(j, angle)
           /\ WithinSoft(j, angle) <= SoftHi[j]
<1>1. SoftLo[j] \in Int /\ SoftHi[j] \in Int /\ SoftLo[j] <= SoftHi[j]
  BY LimitAssumption
<1>2. QED
  BY <1>1, ClampBounds DEF WithinSoft

\* Slew moves prev by at most step, and stays within any interval around rest
\* that holds both of its arguments.
LEMMA SlewBounds ==
    ASSUME NEW prev \in Int, NEW want \in Int, NEW step \in Nat, NEW cap \in Nat
    PROVE  /\ Slew(prev, want, step) \in Int
           /\ Abs(Slew(prev, want, step) - prev) <= step
           /\ Abs(prev) <= cap /\ Abs(want) <= cap
                => Abs(Slew(prev, want, step)) <= cap
BY DEF Slew, Clamp, Abs

\* Two components slewed together do not leave the diamond around rest that holds
\* both vectors: a component that has not arrived moves by the full step.
LEMMA SlewDiamond ==
    ASSUME NEW p \in Int, NEW q1 \in Int, NEW v \in Int, NEW w \in Int,
           NEW step \in Nat
    PROVE  \/ Abs(Slew(p, v, step)) + Abs(Slew(q1, w, step)) <= Abs(p) + Abs(q1)
           \/ Abs(Slew(p, v, step)) + Abs(Slew(q1, w, step)) <= Abs(v) + Abs(w)
BY DEF Slew, Clamp, Abs

\* Squares are ordered as what they are squares of.
LEMMA Squares ==
    ASSUME NEW m \in Nat, NEW n \in Nat
    PROVE  m <= n <=> m * m <= n * n
<1>1. CASE m <= n
  <2>1. m * m <= m * n /\ m * n <= n * n
    BY <1>1
  <2>2. QED
    BY <1>1, <2>1
<1>2. CASE n < m
  <2>1. n * n <= n * m /\ n * m < m * m
    BY <1>2
  <2>2. QED
    BY <1>2, <2>1
<1>3. QED
  BY <1>1, <1>2

\* A scaled vector is within the circle of MaxLinear.
LEMMA ScaledBounds ==
    ASSUME NEW v \in Twist,
           NEW y \in Scaled(v, "vy"), NEW z \in Scaled(v, "vz")
    PROVE  y \in Int /\ z \in Int /\ y * y + z * z <= MaxLinear * MaxLinear
<1> DEFINE a == v["vy"]
           b == v["vz"]
           M == MaxLinear
           n == Square(v)
<1>1. a \in Int /\ b \in Int /\ M \in Nat /\ n = a * a + b * b
  BY RateAssumption DEF Twist, Axis, Square
<1>2. CASE n <= M * M
  BY <1>1, <1>2 DEF Scaled
<1>3. CASE ~(n <= M * M)
  <2>1. /\ y \in Int /\ z \in Int
        /\ y * y * n <= M * M * a * a /\ z * z * n <= M * M * b * b
    BY <1>1, <1>3 DEF Scaled
  <2> DEFINE k == y * y + z * z
  <2>2. k \in Int /\ k * n <= M * M * n
    <3>1. k * n = y * y * n + z * z * n
      BY <1>1, <2>1
    <3>2. M * M * n = M * M * a * a + M * M * b * b
      BY <1>1
    <3> HIDE DEF n, a, b, M
    <3>3. QED
      BY <1>1, <2>1, <3>1, <3>2
  <2>3. n > 0 /\ n \in Int /\ M * M \in Int
    BY <1>1, <1>3
  <2> HIDE DEF n, k
  <2>4. ASSUME k > M * M PROVE FALSE
    <3>1. (k - M * M) * n > 0
      BY <2>2, <2>3, <2>4
    <3>2. QED
      BY <2>2, <2>3, <3>1
  <2>5. QED
    BY <2>1, <2>2, <2>3, <2>4 DEF k
<1>4. QED
  BY <1>2, <1>3

\* A clamped twist is within the caps: its components, and their sum, since the
\* circle lies in the diamond through (1, 1).
LEMMA ClampTwistBounds ==
    ASSUME NEW v \in Twist, NEW want \in ClampTwist(v)
    PROVE  want \in Twist /\ WithinCaps(want)
<1> DEFINE M == MaxLinear
           t == Clamp(v["wpitch"], -MaxPitch, MaxPitch)
<1>1. PICK y \in Scaled(v, "vy"), z \in Scaled(v, "vz") :
          want = [a \in Axis |-> IF a = "vy" THEN y ELSE IF a = "vz" THEN z
                                 ELSE t]
  BY DEF ClampTwist
<1>2. y \in Int /\ z \in Int /\ y * y + z * z <= M * M
  BY ScaledBounds
<1>3. M \in Nat /\ t \in Int /\ Abs(t) <= MaxPitch
  BY RateAssumption DEF Twist, Axis, Clamp, Abs
<1> HIDE DEF M, t
<1>4. want \in Twist
      /\ want["vy"] = y /\ want["vz"] = z /\ want["wpitch"] = t
  BY <1>1, <1>2, <1>3 DEF Twist, Axis
<1> DEFINE b == Abs(y)
           c == Abs(z)
<1>5. /\ b \in Nat /\ c \in Nat
      /\ b * b = y * y /\ c * c = z * z
  BY <1>2 DEF Abs
<1> HIDE DEF b, c
<1>6. b * b \in Nat /\ c * c \in Nat /\ b * b + c * c <= M * M
  BY <1>2, <1>3, <1>5
<1>7. b <= M /\ c <= M
  <2>1. b * b <= M * M /\ c * c <= M * M
    BY <1>3, <1>6
  <2>2. QED
    BY <1>3, <1>5, <2>1, Squares
<1>8. (b + c) * (b + c) <= 2 * M * M
  <2>1. (b - c) * (b - c) >= 0
    BY <1>5
  <2>2. (b + c) * (b + c) + (b - c) * (b - c) = 2 * (b * b) + 2 * (c * c)
    BY <1>5
  <2>3. (b + c) * (b + c) \in Int /\ (b - c) * (b - c) \in Int /\ M * M \in Int
        /\ 2 * M * M = 2 * (M * M)
    BY <1>3, <1>5
  <2>4. QED
    BY <1>6, <2>1, <2>2, <2>3
<1>9. QED
  BY <1>3, <1>4, <1>7, <1>8 DEF WithinCaps, M, b, c

LEMMA RestBounds == Rest \in Twist /\ WithinCaps(Rest)
BY RateAssumption DEF Rest, Twist, Axis, WithinCaps, Abs

\* The ramp moves no component by more than Ramp, and does not leave the caps.
LEMMA RampBounds ==
    ASSUME NEW prev \in Twist, NEW want \in Twist,
           WithinCaps(prev), WithinCaps(want), NEW v,
           v = [a \in Axis |-> Slew(prev[a], want[a], Ramp)]
    PROVE  /\ v \in Twist /\ WithinCaps(v)
           /\ \A a \in Axis : Abs(v[a] - prev[a]) <= Ramp
<1>1. \A a \in Axis : prev[a] \in Int /\ want[a] \in Int
  BY DEF Twist
<1>2. Ramp \in Nat /\ MaxLinear \in Nat /\ MaxPitch \in Nat
  BY RateAssumption
<1>3. \A a \in Axis : /\ v[a] = Slew(prev[a], want[a], Ramp)
                      /\ v[a] \in Int /\ Abs(v[a] - prev[a]) <= Ramp
  BY <1>1, <1>2, SlewBounds
<1>4. v \in Twist
  BY <1>3 DEF Twist
<1>5. Abs(v["vy"]) <= MaxLinear /\ Abs(v["vz"]) <= MaxLinear
      /\ Abs(v["wpitch"]) <= MaxPitch
  <2>1. ASSUME NEW a \in Axis, NEW cap \in Nat,
               Abs(prev[a]) <= cap, Abs(want[a]) <= cap
        PROVE  Abs(v[a]) <= cap
    BY <1>1, <1>2, <1>3, <2>1, SlewBounds
  <2>2. QED
    BY <1>2, <2>1 DEF WithinCaps, Axis
<1> DEFINE sum(u) == Abs(u["vy"]) + Abs(u["vz"])
<1>6. sum(v) <= sum(prev) \/ sum(v) <= sum(want)
  BY <1>1, <1>2, <1>3, SlewDiamond DEF Axis
<1>7. sum(v) \in Nat /\ sum(prev) \in Nat /\ sum(want) \in Nat
  BY <1>1, <1>3 DEF Abs, Axis
<1>8. sum(prev) * sum(prev) <= 2 * MaxLinear * MaxLinear
      /\ sum(want) * sum(want) <= 2 * MaxLinear * MaxLinear
  BY DEF WithinCaps
<1>9. sum(v) * sum(v) <= 2 * MaxLinear * MaxLinear
  <2> HIDE DEF sum
  <2>1. sum(v) * sum(v) <= sum(prev) * sum(prev)
        \/ sum(v) * sum(v) <= sum(want) * sum(want)
    BY <1>6, <1>7, Squares
  <2>2. /\ sum(v) * sum(v) \in Int /\ sum(prev) * sum(prev) \in Int
        /\ sum(want) * sum(want) \in Int /\ 2 * MaxLinear * MaxLinear \in Int
    BY <1>2, <1>7
  <2>3. QED
    BY <1>8, <2>1, <2>2
<1>10. QED
  BY <1>3, <1>4, <1>5, <1>9 DEF WithinCaps

\* The goroutines Spawn starts are idle ones, each with a slot of its own; the
\* others keep their state.
LEMMA SpawnedRecalls ==
    ASSUME TypeOK, NEW fired \in SUBSET Slots, Spawn(fired)
    PROVE  /\ recallPc' \in [Recallers ->
                  {"none", "start", "check", "write", "reseed", "return"}]
           /\ recallSlot' \in [Recallers -> Slots \cup {Nil}]
           /\ \A r \in Recallers :
                  recallPc'[r] = "start" => recallSlot'[r] \in Slots
           /\ \A r \in Recallers :
                  \/ recallPc'[r] = recallPc[r]
                  \/ recallPc[r] = "none" /\ recallPc'[r] = "start"
<1>1. PICK g \in [fired -> {r \in Recallers : recallPc[r] = "none"}] :
        /\ recallPc' = [r \in Recallers |->
               IF \E s \in fired : g[s] = r THEN "start" ELSE recallPc[r]]
        /\ recallSlot' = [r \in Recallers |->
               IF \E s \in fired : g[s] = r
               THEN CHOOSE s \in fired : g[s] = r
               ELSE recallSlot[r]]
  BY DEF Spawn
<1>2. ASSUME NEW r \in Recallers, \E s \in fired : g[s] = r
      PROVE  /\ recallPc[r] = "none" /\ recallPc'[r] = "start"
             /\ recallSlot'[r] \in Slots
  <2>1. (CHOOSE s \in fired : g[s] = r) \in fired
    BY <1>2
  <2>2. recallSlot'[r] = CHOOSE s \in fired : g[s] = r
    BY <1>1, <1>2
  <2>3. QED
    BY <1>1, <1>2, <2>1, <2>2
<1>3. ASSUME NEW r \in Recallers, ~\E s \in fired : g[s] = r
      PROVE  recallPc'[r] = recallPc[r] /\ recallSlot'[r] = recallSlot[r]
  BY <1>1, <1>3
<1>4. \A r \in Recallers : recallPc[r] \in
        {"none", "start", "check", "write", "reseed", "return"}
  BY DEF TypeOK
<1>5. \A r \in Recallers : recallSlot[r] \in Slots \cup {Nil}
  BY DEF TypeOK
<1>6. \A r \in Recallers : recallPc[r] = "start" => recallSlot[r] \in Slots
  BY DEF TypeOK
<1>7. recallPc' = [r \in Recallers |-> recallPc'[r]]
  BY <1>1
<1>8. recallSlot' = [r \in Recallers |-> recallSlot'[r]]
  BY <1>1
<1>9. QED
  BY <1>2, <1>3, <1>4, <1>5, <1>6, <1>7, <1>8

-----------------------------------------------------------------------------
(* Type correctness.                                                       *)

LEMMA TypeInit == Init => TypeOK
<1> SUFFICES ASSUME Init PROVE TypeOK
  OBVIOUS
<1>1. NoPose \in Pose
  BY DEF NoPose, Pose, MaybeAngle
<1>2. poses \in [Slots -> Pose] /\ recallGoals \in [Recallers -> Pose]
  BY <1>1 DEF Init
<1>3. reading \in [Joints -> MaybeAngle]
  BY DEF Init, MaybeAngle
<1>4. q \in [Joints -> Int] /\ tickQ \in [Joints -> Int]
      /\ rate \in [Direct -> Int]
  BY DEF Init, Zero
<1>5. /\ recallPc \in [Recallers ->
             {"none", "start", "check", "write", "reseed", "return"}]
      /\ recallSlot \in [Recallers -> Slots \cup {Nil}]
      /\ \A r \in Recallers : recallPc[r] = "start" => recallSlot[r] \in Slots
  BY DEF Init
<1>6. /\ last \in Input \cup {Nil} /\ snap \in Input \cup {Nil}
      /\ held \subseteq Slots /\ prevTwist \in Twist /\ prevPan \in Int
      /\ cals \subseteq Joints /\ twist \in Twist /\ moved \subseteq Joints
      /\ capped \subseteq Joints /\ torqued \subseteq Joints
  BY RestBounds DEF Init
<1>7. /\ fresh \in BOOLEAN /\ halted \in BOOLEAN /\ goalSpeedDirty \in BOOLEAN
      /\ recalling \in BOOLEAN /\ dirty \in BOOLEAN
  BY DEF Init
<1>8. /\ ticker \in {"none", "fresh", "stale"}
      /\ tickPc \in {"idle", "sampled", "ramped", "store", "write"}
      /\ stop \in {"idle", "relatch"} /\ pubPc \in {"idle", "joints", "grip"}
  BY DEF Init
<1>9. QED
  BY <1>2, <1>3, <1>4, <1>5, <1>6, <1>7, <1>8 DEF TypeOK

LEMMA TypeNext == TypeOK /\ [Next]_vars => TypeOK'
<1> SUFFICES ASSUME TypeOK, [Next]_vars PROVE TypeOK'
  OBVIOUS
<1> USE DEF inputVars, refVars, tickVars, recallVars, pubVars, servoVars
<1>1. ASSUME NEW in \in Inputs, SetInput(in) PROVE TypeOK'
  <2>1. in \in Input /\ in.pressed \subseteq Slots
    BY DataAssumption DEF Input
  <2>2. Spawn(in.pressed \ held)
    BY <1>1 DEF SetInput
  <2>3. QED
    BY <1>1, <2>1, <2>2, SpawnedRecalls DEF SetInput, TypeOK
<1>2. ASSUME NEW s \in Slots, RecallCommand(s) PROVE TypeOK'
  <2>1. Spawn({s})
    BY <1>2 DEF RecallCommand
  <2>2. QED
    BY <1>2, <2>1, SpawnedRecalls DEF RecallCommand, TypeOK
<1>3. ASSUME NEW p \in PoseMaps, SetPoses(p) PROVE TypeOK'
  BY <1>3, DataAssumption DEF SetPoses, TypeOK
<1>4. ASSUME NEW on \in TorqueCommands, SetTorqueAll(on) PROVE TypeOK'
  BY <1>4 DEF SetTorqueAll, TypeOK
<1>5. ASSUME NEW j \in Joints \ cals, ApplyCal(j) PROVE TypeOK'
  BY <1>5 DEF ApplyCal, TypeOK
<1>6. CASE StopHalt
  BY <1>6 DEF StopHalt, TypeOK
<1>7. CASE Expire
  <2>1. /\ fresh' = FALSE
        /\ UNCHANGED <<last, halted, held, refVars, tickVars, recallVars,
                       pubVars, servoVars, poses, cals, stop>>
    BY <1>7 DEF Expire
  <2>2. fresh' \in BOOLEAN
    BY <2>1
  <2>3. QED
    BY <2>1, <2>2 DEF TypeOK
<1>8. CASE StopRelatch
  BY <1>8 DEF StopRelatch, TypeOK
<1>9. CASE TickerFire
  BY <1>9 DEF TickerFire, TypeOK
<1>10. CASE TickHalted
  BY <1>10, RestBounds DEF TickHalted, TypeOK
<1>11. CASE TickUncalibrated
  BY <1>11 DEF TickUncalibrated, TypeOK
<1>12. CASE TickSample
  BY <1>12 DEF TickSample, TypeOK
<1>13. CASE TickRamp
  <2> DEFINE wanted == IF snap = Nil THEN {Rest} ELSE ClampTwist(snap.twist)
             rates  == IF snap = Nil THEN Zero ELSE snap.rate
  <2>1. \A want \in wanted : want \in Twist
    <3>1. snap # Nil => snap.twist \in Twist
      BY DEF TypeOK, Input
    <3>2. QED
      BY <3>1, ClampTwistBounds, RestBounds
  <2>2. rates \in [Direct -> Int]
    BY DEF TypeOK, Input, Zero
  <2>3. PICK want \in wanted :
            twist' = [a \in Axis |-> Slew(prevTwist[a], want[a], Ramp)]
    BY <1>13 DEF TickRamp
  <2>4. twist' \in Twist
    <3>1. \A a \in Axis : Slew(prevTwist[a], want[a], Ramp) \in Int
      <4>1. \A a \in Axis : prevTwist[a] \in Int /\ want[a] \in Int
        BY <2>1 DEF TypeOK, Twist
      <4>2. QED
        BY <4>1, SlewBounds, RateAssumption
    <3>2. QED
      BY <2>3, <3>1 DEF Twist
  <2>5. Slew(prevPan, rates[Pan], PanRamp) \in Int
    BY <2>2, SlewBounds, RateAssumption DEF TypeOK, Direct
  <2>6. rate' = [rates EXCEPT ![Pan] = Slew(prevPan, rates[Pan], PanRamp)]
    BY <1>13, <2>2 DEF TickRamp
  <2>7. rate' \in [Direct -> Int]
    BY <2>2, <2>5, <2>6
  <2>8. QED
    BY <1>13, <2>4, <2>7 DEF TickRamp, TypeOK
<1>14. CASE TickIntegrate
  <2>1. PICK d \in [Commanded -> -MaxStep .. MaxStep] :
          tickQ' = [j \in Joints |->
              IF j \notin Commanded THEN tickQ[j]
              ELSE IF j \in Direct THEN DirectStep(j, d[j])
              ELSE WithinSoft(j, tickQ[j] + d[j])]
    BY <1>14 DEF TickIntegrate
  <2>2. Commanded \subseteq Joints
    BY DEF Commanded, Joints, Arm, Direct
  <2>3. ASSUME NEW j \in Joints PROVE tickQ'[j] \in Int
    <3>1. tickQ[j] \in Int
      BY DEF TypeOK
    <3>2. CASE j \notin Commanded
      BY <2>1, <3>1, <3>2
    <3>3. CASE j \in Commanded
      <4>1. d[j] \in Int
        BY <3>3, RateAssumption
      <4>2. tickQ[j] + d[j] \in Int /\ tickQ[j] - d[j] \in Int
        BY <3>1, <4>1
      <4>3. DirectStep(j, d[j]) \in Int
        BY <3>1, <4>1, WithinSoftBounds DEF DirectStep
      <4>4. QED
        BY <2>1, <3>3, <4>2, <4>3, WithinSoftBounds
    <3>4. QED
      BY <3>2, <3>3
  <2>4. tickQ' \in [Joints -> Int]
    <3>1. tickQ' = [j \in Joints |-> tickQ'[j]]
      BY <2>1
    <3>2. QED
      BY <3>1, <2>3
  <2>5. prevPan' \in Int
    BY <1>14 DEF TickIntegrate, TypeOK, Direct
  <2>6. QED
    BY <1>14, <2>2, <2>4, <2>5 DEF TickIntegrate, TypeOK
<1>15. CASE TickStore
  BY <1>15 DEF TickStore, TypeOK
<1>16. CASE TickWrite
  BY <1>16 DEF TickWrite, TypeOK
<1>17. ASSUME NEW r \in Recallers, Recall(r) PROVE TypeOK'
  <2>1. NoPose \in Pose
    BY DEF NoPose, Pose, MaybeAngle
  <2>0. Return(r) =>
          /\ recallPc' \in [Recallers ->
                 {"none", "start", "check", "write", "reseed", "return"}]
          /\ recallSlot' \in [Recallers -> Slots \cup {Nil}]
          /\ \A s \in Recallers :
                 recallPc'[s] = "start" => recallSlot'[s] \in Slots
          /\ recallGoals' \in [Recallers -> Pose]
    BY <2>1 DEF Return, TypeOK
  <2>2. Usable(r) \subseteq Joints
    BY DEF Usable, Joints
  <2>3. CASE RecallBusy(r)
    BY <2>3, <2>1 DEF RecallBusy, Return, TypeOK
  <2>4. CASE RecallBegin(r)
    <3>1. poses[recallSlot[r]] \in Pose
      BY <2>4 DEF RecallBegin, TypeOK
    <3>2. QED
      BY <2>4, <3>1 DEF RecallBegin, TypeOK
  <2>5. CASE RecallRefused(r)
    <3>1. /\ Return(r) /\ recalling' = FALSE
          /\ UNCHANGED <<inputVars, refVars, tickVars, pubVars, servoVars,
                         poses, cals, stop>>
      BY <2>5 DEF RecallRefused
    <3>2. recalling' \in BOOLEAN
      BY <3>1
    <3>3. QED
      BY <3>1, <3>2, <2>0 DEF TypeOK
  <2>6. CASE RecallDrive(r)
    <3>1. [j \in Arm |-> IF j \in Usable(r) THEN recallGoals[r][j] ELSE NA]
            \in Pose
      BY DEF TypeOK, Pose, MaybeAngle
    <3>2. recallGoals' \in [Recallers -> Pose]
      BY <2>6, <3>1 DEF RecallDrive, TypeOK
    <3>3. QED
      BY <2>6, <2>2, <3>2 DEF RecallDrive, TypeOK
  <2>7. CASE RecallWrite(r)
    BY <2>7 DEF RecallWrite, TypeOK
  <2>8. CASE RecallReseed(r)
    <3>1. recallGoals[r] \in [Arm -> Int \cup {NA}]
      BY DEF TypeOK, Pose, MaybeAngle
    <3>2. q' \in [Joints -> Int]
      BY <2>8, <3>1 DEF RecallReseed, TypeOK
    <3>3. QED
      BY <2>8, <3>2, RestBounds DEF RecallReseed, TypeOK
  <2>9. CASE RecallReturn(r)
    <3>1. /\ Return(r) /\ recalling' = FALSE
          /\ UNCHANGED <<inputVars, refVars, tickVars, pubVars, servoVars,
                         poses, cals, stop>>
      BY <2>9 DEF RecallReturn
    <3>2. recalling' \in BOOLEAN
      BY <3>1
    <3>3. QED
      BY <3>1, <3>2, <2>0 DEF TypeOK
  <2>10. QED
    BY <1>17, <2>3, <2>4, <2>5, <2>6, <2>7, <2>8, <2>9 DEF Recall
<1>18. ASSUME NEW angles \in Readings, PubRead(angles) PROVE TypeOK'
  <2>1. angles \in [Joints -> MaybeAngle]
    BY DataAssumption
  <2>2. reading' \in [Joints -> MaybeAngle]
    BY <1>18, <2>1 DEF PubRead, MaybeAngle
  <2>3. QED
    BY <1>18, <2>2 DEF PubRead, TypeOK
<1>19. CASE PubSeedJoints
  <2>1. reading \in [Joints -> Int \cup {NA}]
    BY DEF TypeOK, MaybeAngle
  <2>2. q' \in [Joints -> Int]
    BY <1>19, <2>1 DEF PubSeedJoints, TypeOK
  <2>3. QED
    BY <1>19, <2>2 DEF PubSeedJoints, TypeOK
<1>20. CASE PubSeedGrip
  <2>1. reading[Grip] \in Int \cup {NA}
    BY DEF TypeOK, MaybeAngle, Joints
  <2>2. q' \in [Joints -> Int]
    BY <1>20, <2>1 DEF PubSeedGrip, TypeOK
  <2>3. reading' \in [Joints -> MaybeAngle]
    BY <1>20 DEF PubSeedGrip, MaybeAngle
  <2>4. QED
    BY <1>20, <2>2, <2>3 DEF PubSeedGrip, TypeOK
<1>21. CASE UNCHANGED vars
  BY <1>21 DEF vars, TypeOK
<1>22. QED
  BY <1>1, <1>2, <1>3, <1>4, <1>5, <1>6, <1>7, <1>8, <1>9, <1>10, <1>11,
     <1>12, <1>13, <1>14, <1>15, <1>16, <1>17, <1>18, <1>19, <1>20, <1>21
     DEF Next, Operator, Tick, Publisher

\* Every variable stays within its type.
THEOREM TypeCorrect == Spec => []TypeOK
<1>1. QED
  BY TypeInit, TypeNext, PTL DEF Spec

-----------------------------------------------------------------------------
(* The recall guard.                                                       *)

\* Only recalls, and the two commands that start them, touch the recall state.
LEMMA RecallFrame ==
    ASSUME Next,
           ~\E in \in Inputs : SetInput(in),
           ~\E s \in Slots : RecallCommand(s),
           ~\E r \in Recallers : Recall(r)
    PROVE  UNCHANGED recallVars
BY DEF Next, Operator, SetPoses, SetTorqueAll, ApplyCal, StopHalt, Expire,
       StopRelatch, TickerFire, Tick, TickHalted, TickUncalibrated, TickSample,
       TickRamp, TickIntegrate, TickStore, TickWrite, Publisher, PubRead,
       PubSeedJoints, PubSeedGrip

\* A recall that is started is not guarded yet.
LEMMA SpawnKeepsGuard ==
    ASSUME TypeOK, NEW fired \in SUBSET Slots, Spawn(fired)
    PROVE  \A r \in Recallers : Guarded(r)' <=> Guarded(r)
BY SpawnedRecalls DEF Guarded

LEMMA SingleRecallNext ==
    TypeOK /\ SingleRecall /\ [Next]_vars => SingleRecall'
<1> SUFFICES ASSUME TypeOK, SingleRecall, [Next]_vars
             PROVE  SingleRecall'
  OBVIOUS
<1>1. CASE UNCHANGED recallVars
  BY <1>1 DEF recallVars, SingleRecall, Guarded
<1>2. ASSUME NEW in \in Inputs, SetInput(in) PROVE SingleRecall'
  <2>1. in.pressed \ held \in SUBSET Slots
    BY DataAssumption DEF Input
  <2>2. Spawn(in.pressed \ held) /\ recalling' = recalling
    BY <1>2 DEF SetInput
  <2>3. QED
    BY <2>1, <2>2, SpawnKeepsGuard DEF SingleRecall
<1>3. ASSUME NEW s \in Slots, RecallCommand(s) PROVE SingleRecall'
  <2>1. Spawn({s}) /\ recalling' = recalling
    BY <1>3 DEF RecallCommand
  <2>2. QED
    BY <2>1, SpawnKeepsGuard DEF SingleRecall
<1>4. ASSUME NEW r \in Recallers, Recall(r) PROVE SingleRecall'
  <2> USE DEF Guarded
  <2>1. recallPc \in [Recallers ->
          {"none", "start", "check", "write", "reseed", "return"}]
    BY DEF TypeOK
  <2>2. ASSUME ~Guarded(r), recallPc' = [recallPc EXCEPT ![r] = "none"],
               recalling' = recalling
        PROVE  SingleRecall'
    BY <2>1, <2>2 DEF SingleRecall
  <2>3. ASSUME Guarded(r), recallPc' = [recallPc EXCEPT ![r] = "none"],
               recalling' = FALSE
        PROVE  SingleRecall'
    BY <2>1, <2>3 DEF SingleRecall
  <2>4. ASSUME NEW stage \in {"check", "write", "reseed", "return"},
               Guarded(r), recallPc' = [recallPc EXCEPT ![r] = stage],
               recalling' = recalling
        PROVE  SingleRecall'
    BY <2>1, <2>4 DEF SingleRecall
  <2>5. CASE RecallBusy(r)
    BY <2>2, <2>5 DEF RecallBusy, Return
  <2>6. CASE RecallBegin(r)
    <3>1. ~\E s \in Recallers : Guarded(s)
      BY <2>6 DEF RecallBegin, SingleRecall
    <3>2. recallPc' = [recallPc EXCEPT ![r] = "check"] /\ recalling' = TRUE
      BY <2>6 DEF RecallBegin
    <3>3. QED
      BY <2>1, <3>1, <3>2 DEF SingleRecall
  <2>7. CASE RecallRefused(r)
    BY <2>3, <2>7 DEF RecallRefused, Return
  <2>8. CASE RecallDrive(r)
    BY <2>4, <2>8 DEF RecallDrive
  <2>9. CASE RecallWrite(r)
    BY <2>4, <2>9 DEF RecallWrite
  <2>10. CASE RecallReseed(r)
    BY <2>4, <2>10 DEF RecallReseed
  <2>11. CASE RecallReturn(r)
    BY <2>3, <2>11 DEF RecallReturn, Return
  <2>12. QED
    BY <1>4, <2>5, <2>6, <2>7, <2>8, <2>9, <2>10, <2>11 DEF Recall
<1>5. QED
  BY <1>1, <1>2, <1>3, <1>4, RecallFrame DEF vars, recallVars

\* However recalls, stops, snapshots and ticks interleave, one recall at most is
\* past the guard, and the guard is up exactly while there is one.
THEOREM SingleRecallCorrect == Spec => []SingleRecall
<1>1. Init => SingleRecall
  BY DEF Init, SingleRecall, Guarded
<1>2. QED
  BY <1>1, TypeCorrect, SingleRecallNext, PTL DEF Spec

-----------------------------------------------------------------------------
(* Failsafes 3 and 5: uncalibrated joints and soft limits.                 *)

\* What a tick and a recall know of the calibration map, which only grows,
\* from their check to their write.
CalibrationSeen ==
    /\ tickPc # "idle" => Calibrated
    /\ tickPc \in {"store", "write"} => moved \subseteq cals
    /\ \A r \in Recallers : recallPc[r] = "write" =>
           /\ Calibrated
           /\ \A j \in Arm : recallGoals[r][j] # NA => j \in cals

LEMMA CalibrationSeenNext ==
    TypeOK /\ CalibrationSeen /\ [Next]_vars => CalibrationSeen'
<1> SUFFICES ASSUME TypeOK, CalibrationSeen, [Next]_vars
             PROVE  CalibrationSeen'
  OBVIOUS
<1>1. cals \subseteq cals'
  BY DEF Next, Operator, SetInput, RecallCommand, SetPoses, SetTorqueAll,
         ApplyCal, StopHalt, Expire, StopRelatch, TickerFire, Tick, TickHalted,
         TickUncalibrated, TickSample, TickRamp, TickIntegrate, TickStore,
         TickWrite, Recall, RecallBusy, RecallBegin, RecallRefused,
         RecallDrive, RecallWrite, RecallReseed, RecallReturn, Publisher,
         PubRead, PubSeedJoints, PubSeedGrip, vars
<1>2. Calibrated => Calibrated'
  BY <1>1 DEF Calibrated
<1> DEFINE TickSeen == /\ tickPc # "idle" => Calibrated
                       /\ tickPc \in {"store", "write"} => moved \subseteq cals
           RecallSeen(r) == recallPc[r] = "write" =>
                              /\ Calibrated
                              /\ \A j \in Arm :
                                   recallGoals[r][j] # NA => j \in cals
<1>3. TickSeen'
  <2>1. CASE tickPc' = tickPc /\ moved' = moved
    BY <2>1, <1>1, <1>2 DEF CalibrationSeen
  <2>2. CASE TickSample
    BY <2>2, <1>2 DEF TickSample
  <2>3. CASE TickRamp
    BY <2>3, <1>2 DEF TickRamp, CalibrationSeen
  <2>4. CASE TickIntegrate
    <3>1. Calibrated /\ moved' = Commanded
      BY <2>4 DEF TickIntegrate, CalibrationSeen
    <3>2. Commanded \subseteq cals
      BY <3>1 DEF Commanded, Calibrated
    <3>3. QED
      BY <1>1, <1>2, <3>1, <3>2
  <2>5. CASE TickStore
    BY <2>5, <1>1, <1>2 DEF TickStore, CalibrationSeen
  <2>6. CASE TickWrite
    BY <2>6 DEF TickWrite
  <2>7. QED
    BY <2>1, <2>2, <2>3, <2>4, <2>5, <2>6
       DEF Next, Operator, SetInput, RecallCommand, SetPoses, SetTorqueAll,
           ApplyCal, StopHalt, Expire, StopRelatch, TickerFire, Tick,
           TickHalted, TickUncalibrated, Recall, RecallBusy, RecallBegin,
           RecallRefused, RecallDrive, RecallWrite, RecallReseed, RecallReturn,
           Publisher, PubRead, PubSeedJoints, PubSeedGrip, vars, tickVars
<1>4. ASSUME NEW r \in Recallers PROVE RecallSeen(r)'
  <2>1. CASE recallPc'[r] # "write"
    BY <2>1
  <2>2. CASE recallPc'[r] = recallPc[r] /\ recallGoals'[r] = recallGoals[r]
    BY <2>2, <1>1, <1>2 DEF CalibrationSeen
  <2>3. CASE UNCHANGED recallVars
    BY <2>2, <2>3 DEF recallVars
  <2>4. ASSUME NEW fired \in SUBSET Slots, Spawn(fired),
               recallGoals' = recallGoals
        PROVE  RecallSeen(r)'
    BY <2>1, <2>2, <2>4, SpawnedRecalls
  <2>5. ASSUME NEW in \in Inputs, SetInput(in) PROVE RecallSeen(r)'
    <3>1. in.pressed \ held \in SUBSET Slots
      BY DataAssumption DEF Input
    <3>2. QED
      BY <2>4, <2>5, <3>1 DEF SetInput
  <2>6. ASSUME NEW s \in Slots, RecallCommand(s) PROVE RecallSeen(r)'
    BY <2>4, <2>6 DEF RecallCommand
  <2>7. ASSUME NEW s \in Recallers, Recall(s) PROVE RecallSeen(r)'
    <3>1. /\ recallPc \in [Recallers ->
                {"none", "start", "check", "write", "reseed", "return"}]
          /\ recallGoals \in [Recallers -> [Arm -> MaybeAngle]]
      BY DEF TypeOK, Pose
    <3>2. CASE r # s
      <4>1. recallPc'[r] = recallPc[r] /\ recallGoals'[r] = recallGoals[r]
        BY <2>7, <3>1, <3>2
           DEF Recall, RecallBusy, RecallBegin, RecallRefused, RecallDrive,
               RecallWrite, RecallReseed, RecallReturn, Return
      <4>2. QED
        BY <2>2, <4>1
    <3>3. CASE r = s /\ RecallDrive(r)
      <4>1. Calibrated
        BY <3>3 DEF RecallDrive
      <4>2. recallGoals'[r] =
              [j \in Arm |-> IF j \in Usable(r) THEN recallGoals[r][j] ELSE NA]
        BY <3>1, <3>3 DEF RecallDrive
      <4>3. Usable(r) \subseteq cals
        BY DEF Usable
      <4>4. QED
        BY <1>1, <1>2, <4>1, <4>2, <4>3
    <3>4. CASE r = s /\ ~RecallDrive(r)
      <4>1. recallPc'[r] # "write"
        BY <2>7, <3>1, <3>4
           DEF Recall, RecallBusy, RecallBegin, RecallRefused, RecallWrite,
               RecallReseed, RecallReturn, Return
      <4>2. QED
        BY <2>1, <4>1
    <3>5. QED
      BY <3>2, <3>3, <3>4
  <2>8. QED
    BY <2>3, <2>5, <2>6, <2>7, RecallFrame DEF vars, recallVars
<1>5. QED
  BY <1>3, <1>4 DEF CalibrationSeen

LEMMA CalibrationSeenAlways == Spec => []CalibrationSeen
<1>1. Init => CalibrationSeen
  BY DEF Init, CalibrationSeen
<1>2. QED
  BY <1>1, TypeCorrect, CalibrationSeenNext, PTL DEF Spec

\* No goal goes out while a pan or IK joint is uncalibrated, nor for a joint
\* without a calibration.
THEOREM UncalibratedRefusedCorrect == Spec => []UncalibratedRefused
<1>1. TypeOK /\ CalibrationSeen => UncalibratedRefused
  BY DEF TypeOK, CalibrationSeen, UncalibratedRefused, TickBatch, RecallBatch
<1>2. QED
  BY <1>1, TypeCorrect, CalibrationSeenAlways, PTL

\* Only the tick changes its locals.
LEMMA TickFrame ==
    ASSUME [Next]_vars, ~Tick
    PROVE  UNCHANGED <<tickPc, snap, tickQ, twist, rate, moved, dirty>>
BY DEF Next, Operator, SetInput, RecallCommand, SetPoses, SetTorqueAll,
       ApplyCal, StopHalt, Expire, StopRelatch, TickerFire, Recall, RecallBusy,
       RecallBegin, RecallRefused, RecallDrive, RecallWrite, RecallReseed,
       RecallReturn, Publisher, PubRead, PubSeedJoints, PubSeedGrip, vars,
       tickVars

\* The goals of a tick lie within the soft limits from the step that computes
\* them on.
LEMMA SoftLimitsNext ==
    TypeOK /\ TickGoalsWithinSoftLimits /\ [Next]_vars
        => TickGoalsWithinSoftLimits'
<1> SUFFICES ASSUME TypeOK, TickGoalsWithinSoftLimits, [Next]_vars
             PROVE  TickGoalsWithinSoftLimits'
  OBVIOUS
<1> USE DEF TickGoalsWithinSoftLimits, TickBatch
<1>1. CASE ~Tick
  BY <1>1, TickFrame
<1>2. CASE TickIntegrate
  <2>1. PICK d \in [Commanded -> -MaxStep .. MaxStep] :
          tickQ' = [j \in Joints |->
              IF j \notin Commanded THEN tickQ[j]
              ELSE IF j \in Direct THEN DirectStep(j, d[j])
              ELSE WithinSoft(j, tickQ[j] + d[j])]
    BY <1>2 DEF TickIntegrate
  <2>2. moved' = Commanded /\ Commanded \subseteq Joints
    BY <1>2 DEF TickIntegrate, Commanded, Joints, Arm, Direct
  <2>3. ASSUME NEW j \in Commanded
        PROVE  SoftLo[j] <= tickQ'[j] /\ tickQ'[j] <= SoftHi[j]
    <3>1. j \in Joints /\ tickQ[j] \in Int /\ d[j] \in Int
      BY <2>2, RateAssumption DEF TypeOK
    <3>2. tickQ[j] + d[j] \in Int
      BY <3>1
    <3>3. \/ tickQ'[j] = DirectStep(j, d[j])
          \/ tickQ'[j] = WithinSoft(j, tickQ[j] + d[j])
      BY <2>1, <3>1
    <3>4. QED
      BY <3>1, <3>2, <3>3, WithinSoftBounds DEF DirectStep
  <2>4. QED
    BY <2>2, <2>3
<1>3. CASE Tick /\ ~TickIntegrate
  BY <1>3 DEF Tick, TickHalted, TickUncalibrated, TickSample, TickRamp,
              TickStore, TickWrite
<1>4. QED
  BY <1>1, <1>2, <1>3

\* The tick never writes a goal outside a joint's soft limits, wherever a seed
\* or a recall has left the reference.
THEOREM SoftLimitsCorrect == Spec => []TickGoalsWithinSoftLimits
<1>1. Init => TickGoalsWithinSoftLimits
  BY DEF Init, TickGoalsWithinSoftLimits, TickBatch
<1>2. QED
  BY <1>1, TypeCorrect, SoftLimitsNext, PTL DEF Spec

-----------------------------------------------------------------------------
(* Failsafe 2: the ramp.                                                   *)

\* Outside the two steps that read and write it, prevTwist is the last command
\* or rest; neither exceeds the cap.
RampState ==
    /\ tickPc # "ramped" => prevTwist = twist \/ prevTwist = Rest
    /\ WithinCaps(twist)
    /\ WithinCaps(prevTwist)

\* One TickRamp step: the new command is near prevTwist and within the caps.
LEMMA TickRampBounds ==
    ASSUME TypeOK, RampState, TickRamp
    PROVE  /\ twist' \in Twist /\ WithinCaps(twist')
           /\ \A a \in Axis : Abs(twist'[a] - prevTwist[a]) <= Ramp
<1>1. PICK want \in IF snap = Nil THEN {Rest} ELSE ClampTwist(snap.twist) :
          twist' = [a \in Axis |-> Slew(prevTwist[a], want[a], Ramp)]
  BY DEF TickRamp
<1>2. want \in Twist /\ WithinCaps(want)
  <2>1. CASE snap = Nil
    BY <1>1, <2>1, RestBounds
  <2>2. CASE snap # Nil
    <3>1. snap.twist \in Twist
      BY <2>2 DEF TypeOK, Input
    <3>2. QED
      BY <1>1, <2>2, <3>1, ClampTwistBounds
  <2>3. QED
    BY <2>1, <2>2
<1>3. prevTwist \in Twist /\ WithinCaps(prevTwist)
  BY DEF TypeOK, RampState
<1>4. QED
  BY <1>1, <1>2, <1>3, RampBounds

LEMMA RampStateNext == TypeOK /\ RampState /\ [Next]_vars => RampState'
<1> SUFFICES ASSUME TypeOK, RampState, [Next]_vars PROVE RampState'
  OBVIOUS
<1>1. WithinCaps(Rest)
  BY RestBounds
<1>2. CASE ~Tick
  <2>1. tickPc' = tickPc /\ twist' = twist
    BY <1>2, TickFrame
  <2>2. prevTwist' = prevTwist \/ prevTwist' = Rest
    BY <1>2 DEF Next, Operator, SetInput, RecallCommand, SetPoses,
                SetTorqueAll, ApplyCal, StopHalt, Expire, StopRelatch,
                TickerFire, Recall, RecallBusy, RecallBegin, RecallRefused,
                RecallDrive, RecallWrite, RecallReseed, RecallReturn,
                Publisher, PubRead, PubSeedJoints, PubSeedGrip, vars, refVars
  <2>3. QED
    BY <1>1, <2>1, <2>2 DEF RampState
<1>3. CASE TickHalted
  BY <1>1, <1>3 DEF TickHalted, RampState
<1>4. CASE TickUncalibrated
  BY <1>4 DEF TickUncalibrated, RampState, refVars
<1>5. CASE TickSample
  BY <1>5 DEF TickSample, RampState, refVars
<1>6. CASE TickRamp
  <2>1. tickPc' = "ramped" /\ prevTwist' = prevTwist
    BY <1>6 DEF TickRamp, refVars
  <2>2. QED
    BY <1>6, <2>1, TickRampBounds DEF RampState
<1>7. CASE TickIntegrate
  BY <1>7 DEF TickIntegrate, RampState
<1>8. CASE TickStore
  BY <1>8 DEF TickStore, RampState
<1>9. CASE TickWrite
  BY <1>9 DEF TickWrite, RampState, refVars
<1>10. QED
  BY <1>2, <1>3, <1>4, <1>5, <1>6, <1>7, <1>8, <1>9 DEF Tick

LEMMA RampStateAlways == Spec => []RampState
<1>1. Init => RampState
  BY RestBounds DEF Init, RampState
<1>2. QED
  BY <1>1, TypeCorrect, RampStateNext, PTL DEF Spec

\* Consecutive commands differ by at most Ramp in each component or restart from
\* rest, although a recall writes prevTwist while a tick uses it; they stay within
\* the caps and the octagon around the circle of MaxLinear (clampTwist, ramp).
THEOREM RampedCommandsCorrect == Spec => RampedCommands
<1> DEFINE Near   == \/ \A a \in Axis : Abs(twist'[a] - twist[a]) <= Ramp
                     \/ \A a \in Axis : Abs(twist'[a]) <= Ramp
           Ramped == tickPc = "sampled" /\ tickPc' = "ramped"
                       => Near /\ WithinCaps(twist')
<1>1. TypeOK /\ RampState /\ [Next]_vars => [Ramped]_vars
  <2> SUFFICES ASSUME TypeOK, RampState, [Next]_vars,
                      tickPc = "sampled", tickPc' = "ramped"
               PROVE  Near /\ WithinCaps(twist')
    OBVIOUS
  <2>1. TickRamp
    <3>1. Tick
      BY TickFrame
    <3>2. QED
      BY <3>1 DEF Tick, TickHalted, TickUncalibrated, TickSample,
                  TickIntegrate, TickStore, TickWrite
  <2>2. prevTwist = twist \/ prevTwist = Rest
    BY DEF RampState
  <2>3. /\ \A a \in Axis : Abs(twist'[a] - prevTwist[a]) <= Ramp
        /\ WithinCaps(twist') /\ twist' \in Twist
    BY <2>1, TickRampBounds
  <2>4. prevTwist = Rest => \A a \in Axis : Abs(twist'[a]) <= Ramp
    BY <2>3 DEF Rest, Twist
  <2>5. QED
    BY <2>2, <2>3, <2>4
<1>2. QED
  BY <1>1, TypeCorrect, RampStateAlways, PTL DEF Spec, RampedCommands

-----------------------------------------------------------------------------
(* The reference of record.                                                *)

\* seedAllowedLocked, asked again by each seed: the publisher's reading never
\* replaces the reference while the operator's input is fresh and not halted,
\* however late it is delivered.
THEOREM SensorYieldsCorrect == Spec => SensorYieldsToOperator
<1> DEFINE Yields == last # Nil /\ fresh /\ ~halted
                       => q' = q \/ TickStore \/ \E r \in Recallers : RecallReseed(r)
<1>1. [Next]_vars => [Yields]_vars
  <2> SUFFICES ASSUME [Next]_vars, last # Nil, fresh, ~halted, ~TickStore,
                      ~(\E r \in Recallers : RecallReseed(r))
               PROVE  q' = q
    OBVIOUS
  <2>1. ~SeedAllowed
    BY DEF SeedAllowed
  <2>2. QED
    BY <2>1
       DEF Next, Operator, SetInput, RecallCommand, SetPoses, SetTorqueAll,
           ApplyCal, StopHalt, Expire, StopRelatch, TickerFire, Tick,
           TickHalted, TickUncalibrated, TickSample, TickRamp, TickIntegrate,
           TickWrite, Recall, RecallBusy, RecallBegin, RecallRefused,
           RecallDrive, RecallWrite, RecallReturn, Publisher, PubRead,
           PubSeedJoints, PubSeedGrip, vars, refVars
<1>2. QED
  BY <1>1, PTL DEF Spec, SensorYieldsToOperator

-----------------------------------------------------------------------------
(* Torque.                                                                 *)

LEMMA TorqueFrame ==
    ASSUME [Next]_vars, ~(\E on \in TorqueCommands : SetTorqueAll(on)),
           ~(\E r \in Recallers : RecallDrive(r))
    PROVE  UNCHANGED torqued
BY DEF Next, Operator, SetInput, RecallCommand, SetPoses, ApplyCal, StopHalt,
       Expire, StopRelatch, TickerFire, Tick, TickHalted, TickUncalibrated,
       TickSample, TickRamp, TickIntegrate, TickStore, TickWrite, Recall,
       RecallBusy, RecallBegin, RecallRefused, RecallWrite, RecallReseed,
       RecallReturn, Publisher, PubRead, PubSeedJoints, PubSeedGrip, vars,
       servoVars

\* Recall (loop.go) torques the joints it drives, and only a calibrated one is
\* driven; every other torque comes from set_torque.
THEOREM LimpCorrect == Spec => RecallLeavesUncalibratedLimp
<1> DEFINE Limp == \/ torqued' \ torqued \subseteq cals
                   \/ \E on \in TorqueCommands : SetTorqueAll(on)
<1>1. [Next]_vars => [Limp]_vars
  <2>1. ASSUME NEW r \in Recallers, RecallDrive(r)
        PROVE  torqued' \ torqued \subseteq cals
    BY <2>1 DEF RecallDrive, Usable
  <2>2. QED
    BY <2>1, TorqueFrame
<1>2. QED
  BY <1>1, PTL DEF Spec, RecallLeavesUncalibratedLimp
=============================================================================
