--------------------------- MODULE TelemetryProofs ---------------------------
(***************************************************************************)
(* Proofs about Telemetry, for any joints, angles, voltages, limits and    *)
(* messages in flight.                                                     *)
(***************************************************************************)
EXTENDS Telemetry, FiniteSetTheorems, WellFoundedInduction, SequenceTheorems, TLAPS

-----------------------------------------------------------------------------
(* What the publishers build.                                              *)

JointsMessage == [joints : JointAngles(JointIds, Angles), cals : SUBSET JointIds]

\* Each joint is in the message, without an angle it has a reason, and the
\* reason "uncalibrated" is that of the joints without a calibration.
Built(m) ==
    /\ m.joints \in [JointIds -> Joint(Angles)] /\ m.cals \subseteq cals
    /\ \A j \in JointIds :
           /\ m.joints[j].naReason = "uncalibrated" <=> j \notin m.cals
           /\ m.joints[j].angleRad = NoValue => m.joints[j].naReason # ""

\* The stats with what was read for them.
StatsMessage == {[servos |-> BuildServoStats(read), read |-> read] : read \in Reads}

LEMMA JointsBuilt ==
    ASSUME NEW ok \in SUBSET JointIds, NEW angle \in [JointIds -> Angles],
           cals \subseteq JointIds
    PROVE  LET m == [joints |-> BuildJointAngles(cals, ok, angle), cals |-> cals]
           IN  m \in JointsMessage /\ Built(m)
<1> DEFINE joints == BuildJointAngles(cals, ok, angle)
           m      == [joints |-> joints, cals |-> cals]
<1>1. joints \in [JointIds -> Joint(Angles)]
  BY DEF BuildJointAngles, Joint, Reason
<1>2. joints \in JointAngles(JointIds, Angles)
  <2> HIDE DEF joints
  <2> QED
    BY <1>1 DEF JointAngles
<1>3. \A j \in JointIds :
          /\ joints[j].naReason = "uncalibrated" <=> j \notin cals
          /\ joints[j].angleRad = NoValue => joints[j].naReason # ""
  BY TelemetryAssumption DEF BuildJointAngles
<1>4. QED
  <2>1. m.joints = joints /\ m.cals = cals
    OBVIOUS
  <2>2. m \in JointsMessage
    <3> HIDE DEF joints
    <3> QED
      BY <1>2 DEF JointsMessage
  <2>3. Built(m)
    <3> HIDE DEF joints, m
    <3> QED
      BY <1>1, <1>3, <2>1 DEF Built
  <2>4. QED
    BY <2>2, <2>3

\* A sequence over a set is one over a larger set.
LEMMA WiderSeq ==
    ASSUME NEW S, NEW T, S \subseteq T, NEW s \in Seq(S)
    PROVE  s \in Seq(T)
<1>1. /\ Len(s) \in Nat /\ DOMAIN s = 1 .. Len(s)
      /\ s \in [1 .. Len(s) -> S]
  BY LenProperties
<1>2. s \in [1 .. Len(s) -> T]
  BY <1>1
<1>3. QED
  BY <1>1, <1>2, SeqDef

\* A stats message is what was read, and the servo states built from it.
LEMMA StatsType ==
    ASSUME NEW m \in StatsMessage
    PROVE  /\ m.read \in Reads /\ m.servos = BuildServoStats(m.read)
           /\ m.servos \in ServoStats(JointIds, Volts)
           /\ m \in [servos : ServoStats(JointIds, Volts), read : Reads]
<1>1. PICK read \in Reads : m = [servos |-> BuildServoStats(read), read |-> read]
  BY DEF StatsMessage
<1>2. NoState \in ServoState(Volts)
  <2>1. NoState.ok \in BOOLEAN /\ NoState.moving \in BOOLEAN
        /\ NoState.overcurrentTripped \in BOOLEAN
    BY DEF NoState
  <2>2. QED
    BY <2>1 DEF NoState, ServoState
<1>3. BuildServoStats(read) \in [JointIds -> ServoState(Volts)]
  <2>1. ASSUME NEW j \in JointIds
        PROVE  (IF read[j] = NoValue THEN NoState ELSE read[j]) \in ServoState(Volts)
    BY <1>1, <1>2, AnswersAssumption DEF Reads
  <2>2. QED
    BY <2>1 DEF BuildServoStats
<1>4. BuildServoStats(read) \in ServoStats(JointIds, Volts)
  BY <1>3 DEF ServoStats
<1>5. m.read = read /\ m.servos = BuildServoStats(read)
  BY <1>1
<1>6. QED
  BY <1>1, <1>4, <1>5

-----------------------------------------------------------------------------
(* The inductive invariant.                                                *)

ModOK == recording \in BOOLEAN /\ cals \subseteq JointIds

BusOK ==
    /\ jointsBus \in Seq(JointsMessage) /\ statsBus \in Seq(StatsMessage)
    /\ \A i \in 1 .. Len(jointsBus) : Built(jointsBus[i])

\* Either nothing has come yet, or every reading is that of the last message.
LatestOK ==
    \/ /\ latest = NoValue /\ age = NoValue
       /\ readings = [j \in JointIds |-> Awaiting]
    \/ /\ age # NoValue /\ Built(latest)
       /\ readings = [j \in JointIds |-> Reading(latest.joints[j])]

\* The servo states are those built from the last read that came, and before
\* that there are none.
StatsOK ==
    /\ latestRead \in Reads
    /\ \/ stats = [j \in {} |-> NoState] /\ latestRead = NoRead
       \/ stats = BuildServoStats(latestRead)

HookOK ==
    /\ LatestOK /\ StatsOK
    /\ {age, shownAge} \subseteq (0 .. StaleAfter + 1) \cup {NoValue}
    /\ age = NoValue => shownAge = NoValue

Inv == ModOK /\ BusOK /\ HookOK

LEMMA InvInit == Init => Inv
<1> SUFFICES ASSUME Init PROVE Inv
  OBVIOUS
<1>1. ModOK
  BY DEF Init, ModOK
<1>2. BusOK
  BY EmptySeq DEF Init, BusOK
<1>3. HookOK
  <2>1. StatsOK
    BY DEF Init, StatsOK, NoRead, Reads
  <2>2. QED
    BY <2>1 DEF Init, HookOK, LatestOK
<1>4. QED
  BY <1>1, <1>2, <1>3 DEF Inv

LEMMA ReadingsMerged ==
    ASSUME NEW prev, NEW joints \in [JointIds -> Joint(Angles)]
    PROVE  Merge(prev, joints) = [j \in JointIds |-> Reading(joints[j])]
BY DEF Merge

LEMMA InvNext == Inv /\ [Next]_vars => Inv'
<1> SUFFICES ASSUME Inv, [Next]_vars PROVE Inv'
  OBVIOUS
<1> USE TelemetryAssumption DEF modVars, busVars, hookVars
<1>1. ASSUME NEW on \in BOOLEAN, SetRecording(on) PROVE Inv'
  BY <1>1 DEF SetRecording, Inv, ModOK, BusOK, HookOK, LatestOK, StatsOK, Built
<1>2. ASSUME NEW j \in JointIds, ApplyCal(j) PROVE Inv'
  <2>1. ModOK' /\ cals \subseteq cals'
    BY <1>2 DEF ApplyCal, Inv, ModOK
  <2>2. ASSUME NEW m, Built(m) PROVE Built(m)'
    BY <2>1, <2>2 DEF Built
  <2>3. BusOK'
    BY <1>2, <2>1 DEF ApplyCal, Inv, BusOK, Built
  <2>4. HookOK'
    BY <1>2, <2>1 DEF ApplyCal, Inv, HookOK, LatestOK, StatsOK, Built
  <2>5. QED
    BY <2>1, <2>3, <2>4 DEF Inv
<1>3. ASSUME NEW ok \in SUBSET JointIds, NEW angle \in [JointIds -> Angles],
             NEW active \in BOOLEAN, PublishJoints(ok, angle, active)
      PROVE  Inv'
  <2>1. PICK got \in SUBSET JointIds :
            jointsBus' = Append(jointsBus,
                [joints |-> BuildJointAngles(cals, got, angle), cals |-> cals])
    BY <1>3 DEF PublishJoints, SendJoints, JointAnglesFromEstimate
  <2> DEFINE m == [joints |-> BuildJointAngles(cals, got, angle), cals |-> cals]
  <2>2. m \in JointsMessage /\ Built(m)
    BY JointsBuilt DEF Inv, ModOK
  <2>3. UNCHANGED <<modVars, statsBus, hookVars>>
    BY <1>3 DEF PublishJoints, SendJoints
  <2>4. BusOK'
    <3> HIDE DEF m
    <3>1. jointsBus' = Append(jointsBus, m) /\ jointsBus \in Seq(JointsMessage)
      BY <2>1 DEF Inv, BusOK, m
    <3>2. /\ jointsBus' \in Seq(JointsMessage)
          /\ Len(jointsBus') = Len(jointsBus) + 1
          /\ \A i \in 1 .. Len(jointsBus) : jointsBus'[i] = jointsBus[i]
          /\ jointsBus'[Len(jointsBus) + 1] = m
      BY <2>2, <3>1, AppendProperties
    <3>3. \A i \in 1 .. Len(jointsBus') : Built(jointsBus'[i])
      BY <2>2, <3>1, <3>2 DEF Inv, BusOK
    <3>4. QED
      BY <2>3, <3>2, <3>3 DEF Inv, BusOK, Built
  <2>5. QED
    BY <2>3, <2>4 DEF Inv, ModOK, HookOK, LatestOK, StatsOK, Built
<1>4. ASSUME NEW read \in Reads, PublishStats(read) PROVE Inv'
  <2> DEFINE m == [servos |-> BuildServoStats(read), read |-> read]
  <2>1. statsBus' \in Seq(StatsMessage)
    <3>1. m \in StatsMessage
      BY DEF StatsMessage
    <3>2. statsBus' = Append(statsBus, m)
      BY <1>4 DEF PublishStats
    <3> HIDE DEF m
    <3>3. QED
      BY <3>1, <3>2, AppendProperties DEF Inv, BusOK
  <2>2. QED
    BY <1>4, <2>1 DEF PublishStats, Inv, ModOK, BusOK, HookOK, LatestOK, StatsOK, Built
<1>5. CASE DeliverJoints
  <2> DEFINE m == Head(jointsBus)
  <2>1. jointsBus \in Seq(JointsMessage) /\ jointsBus # <<>>
    BY <1>5 DEF DeliverJoints, Inv, BusOK
  <2>2. /\ jointsBus' \in Seq(JointsMessage)
        /\ Len(jointsBus') = Len(jointsBus) - 1
        /\ \A i \in 1 .. Len(jointsBus') : jointsBus'[i] = jointsBus[i + 1]
    BY <1>5, <2>1, HeadTailProperties DEF DeliverJoints
  <2>3. Built(m)
    <3>1. Len(jointsBus) \in Nat /\ Len(jointsBus) # 0 /\ m = jointsBus[1]
      BY <2>1, EmptySeq
    <3>2. QED
      BY <3>1 DEF Inv, BusOK
  <2>4. BusOK'
    <3>1. \A i \in 1 .. Len(jointsBus') : Built(jointsBus'[i])
      BY <2>1, <2>2 DEF Inv, BusOK
    <3>2. QED
      BY <1>5, <2>2, <3>1 DEF DeliverJoints, Inv, BusOK, Built
  <2>5. /\ readings' = [j \in JointIds |-> Reading(m.joints[j])]
        /\ latest' = m /\ age' = 0 /\ shownAge' = 0
    BY <1>5, <2>3, ReadingsMerged DEF DeliverJoints, Built
  <2>6. Built(latest)'
    BY <1>5, <2>3, <2>5 DEF DeliverJoints, Built
  <2>7. HookOK'
    <3>1. 0 # NoValue /\ 0 \in 0 .. StaleAfter + 1
      OBVIOUS
    <3>2. LatestOK'
      BY <2>5, <2>6, <3>1 DEF LatestOK
    <3>3. StatsOK'
      BY <1>5 DEF DeliverJoints, Inv, HookOK, StatsOK
    <3>4. QED
      BY <2>5, <3>1, <3>2, <3>3 DEF Inv, HookOK
  <2>8. QED
    BY <1>5, <2>4, <2>7 DEF DeliverJoints, Inv, ModOK
<1>6. CASE DeliverStats
  <2> DEFINE m == Head(statsBus)
  <2>1. statsBus' \in Seq(StatsMessage) /\ m \in StatsMessage
    BY <1>6, HeadTailProperties DEF DeliverStats, Inv, BusOK
  <2>2. StatsOK'
    <3>1. stats' = m.servos /\ latestRead' = m.read
      BY <1>6 DEF DeliverStats
    <3> HIDE DEF m
    <3>2. QED
      BY <2>1, <3>1, StatsType DEF StatsOK
  <2>3. QED
    BY <1>6, <2>1, <2>2 DEF DeliverStats, Inv, ModOK, BusOK, HookOK, LatestOK, Built
<1>7. CASE Pass
  <2>1. age \in Nat /\ age <= StaleAfter
    BY <1>7 DEF Pass, Inv, HookOK
  <2>2. age' \in 0 .. StaleAfter + 1 /\ age' # NoValue
    BY <1>7, <2>1 DEF Pass
  <2>3. LatestOK'
    BY <1>7, <2>2 DEF Pass, Inv, HookOK, LatestOK, Built
  <2>4. QED
    BY <1>7, <2>2, <2>3 DEF Pass, Inv, ModOK, BusOK, HookOK, StatsOK, Built
<1>8. CASE Bump
  BY <1>8 DEF Bump, Inv, ModOK, BusOK, HookOK, LatestOK, StatsOK, Built
<1>9. CASE UNCHANGED vars
  BY <1>9 DEF vars, Inv, ModOK, BusOK, HookOK, LatestOK, StatsOK, Built
<1>10. QED
  BY <1>1, <1>2, <1>3, <1>4, <1>5, <1>6, <1>7, <1>8, <1>9
  DEF Next, Module, Publish

LEMMA AlwaysInv == Spec => []Inv
BY InvInit, InvNext, PTL DEF Spec

-----------------------------------------------------------------------------
(* The readouts.                                                           *)

LEMMA ReadingFields ==
    ASSUME NEW m
    PROVE  /\ Reading(m).angleRad = m.angleRad
           /\ Reading(m).naReason = IF m.angleRad # NoValue THEN NoValue
                                    ELSE IF m.naReason = "" THEN "no data"
                                    ELSE m.naReason
BY DEF Reading

\* What a row and a pose make of a joint of the last message.
LEMMA ReadingOf ==
    ASSUME Inv, age # NoValue, NEW j \in JointIds
    PROVE  LET m == latest.joints[j] IN
           /\ m \in Joint(Angles)
           /\ readings[j].angleRad = m.angleRad
           /\ m.angleRad = NoValue => readings[j].naReason = m.naReason
           /\ m.angleRad # NoValue => readings[j].naReason = NoValue
           /\ m.naReason = "uncalibrated" <=> j \notin latest.cals
<1>1. Built(latest)
  BY DEF Inv, HookOK, LatestOK
<1>2. readings[j] = Reading(latest.joints[j])
  BY DEF Inv, HookOK, LatestOK
<1>3. /\ latest.joints[j] \in Joint(Angles)
      /\ latest.joints[j].naReason = "uncalibrated" <=> j \notin latest.cals
      /\ latest.joints[j].angleRad = NoValue => latest.joints[j].naReason # ""
  BY <1>1 DEF Built
<1>4. /\ readings[j].angleRad = latest.joints[j].angleRad
      /\ readings[j].naReason =
             IF latest.joints[j].angleRad # NoValue THEN NoValue
             ELSE IF latest.joints[j].naReason = "" THEN "no data"
             ELSE latest.joints[j].naReason
  BY <1>2, ReadingFields, Zenon
<1>5. QED
  BY <1>3, <1>4, Zenon

\* The model, the rail and the hooks keep their types (useArmTelemetry), and the
\* hook has an age from the first message on.
THEOREM TypeCorrect == Spec => []TypeOK
<1>1. Inv => TypeOK
  <2> SUFFICES ASSUME Inv PROVE TypeOK
    OBVIOUS
  <2> USE TelemetryAssumption
  <2>1. jointsBus \in Seq([joints : JointAngles(JointIds, Angles),
                           cals : SUBSET JointIds])
    BY DEF Inv, BusOK, JointsMessage
  <2>2. statsBus \in Seq([servos : ServoStats(JointIds, Volts), read : Reads])
    <3>1. StatsMessage \subseteq [servos : ServoStats(JointIds, Volts), read : Reads]
      BY StatsType
    <3>2. statsBus \in Seq(StatsMessage)
      BY DEF Inv, BusOK
    <3>3. QED
      BY <3>1, <3>2, WiderSeq, Zenon
  <2>3. stats \in ServoStats(JointIds, Volts)
    <3>1. [j \in {} |-> NoState] \in ServoStats(JointIds, Volts)
      <4>1. [j \in {} |-> NoState] \in [{} -> ServoState(Volts)]
        OBVIOUS
      <4>2. QED
        BY <4>1 DEF ServoStats
    <3>2. [servos |-> BuildServoStats(latestRead), read |-> latestRead]
              \in StatsMessage
      BY DEF StatsMessage, Inv, HookOK, StatsOK
    <3>3. BuildServoStats(latestRead) \in ServoStats(JointIds, Volts)
      BY <3>2, StatsType
    <3>4. QED
      BY <3>1, <3>3 DEF Inv, HookOK, StatsOK
  <2>4. CASE age = NoValue
    <3>1. readings = [j \in JointIds |-> Awaiting] /\ latest = NoValue
      BY <2>4 DEF Inv, HookOK, LatestOK
    <3>2. Awaiting \in ReadingType
      BY DEF Awaiting, ReadingType
    <3>3. QED
      BY <2>1, <2>2, <2>3, <2>4, <3>1, <3>2 DEF TypeOK, Inv, ModOK, HookOK, StatsOK
  <2>5. CASE age # NoValue
    <3>1. /\ Built(latest)
          /\ readings = [j \in JointIds |-> Reading(latest.joints[j])]
      BY <2>5 DEF Inv, HookOK, LatestOK
    <3>2. ASSUME NEW j \in JointIds
          PROVE  /\ Reading(latest.joints[j]) \in ReadingType
                 /\ Reading(latest.joints[j]) # Awaiting
      <4>1. latest.joints[j] \in Joint(Angles)
        BY <3>1 DEF Built
      <4>2. latest.joints[j].angleRad = NoValue
                => latest.joints[j].naReason \in Reason \ {""}
        BY <3>1, <4>1 DEF Built, Joint
      <4>3. QED
        BY <4>1, <4>2 DEF Joint, Reading, Reason, ReadingType, Awaiting
    <3>3. QED
      BY <2>1, <2>2, <2>3, <2>5, <3>1, <3>2
      DEF TypeOK, Inv, ModOK, HookOK, StatsOK, Built
  <2>6. QED
    BY <2>4, <2>5
<1>2. QED
  BY <1>1, AlwaysInv, PTL

\* useJoints keeps one age for six readings: a live feed shows the last message,
\* whatever was lost, failed to be read or was calibrated in the meantime.
THEOREM FreshAnglesCorrect == Spec => []FreshAngles
<1>1. Inv => FreshAngles
  <2> SUFFICES ASSUME Inv, Feed = "live" PROVE FreshAngles
    BY DEF FreshAngles
  <2>1. age # NoValue
    BY DEF Feed, Inv, HookOK
  <2>2. latest.joints \in [JointIds -> Joint(Angles)]
    BY <2>1 DEF Inv, HookOK, LatestOK, Built
  <2>3. ASSUME NEW j \in JointIds
        PROVE  LET m == latest.joints[j] IN
               IF m.angleRad = NoValue THEN RailRow(j) = [na |-> m.naReason]
               ELSE RailRow(j) = [val |-> m.angleRad] /\ Pose[j] = m.angleRad
    BY <2>1, ReadingOf DEF RailRow, Pose
  <2>4. GripShown = latest.joints[Grip].angleRad
    BY <2>1, ReadingOf, TelemetryAssumption DEF GripShown
  <2>5. QED
    BY <2>2, <2>3, <2>4 DEF FreshAngles
<1>2. QED
  BY <1>1, AlwaysInv, PTL

\* The status card's cal n/6, which counts reasons, counts calibrations.
THEOREM CalCountCorrect == Spec => []CalCount
<1>1. Inv => CalCount
  <2> SUFFICES ASSUME Inv, latest # NoValue
               PROVE  Cal = Cardinality(latest.cals)
    BY DEF CalCount
  <2>1. age # NoValue /\ latest.cals \subseteq JointIds
    BY DEF Inv, ModOK, HookOK, LatestOK, StatsOK, Built
  <2>2. {j \in JointIds : readings[j].naReason = "uncalibrated"}
            = JointIds \ latest.cals
    <3>1. ASSUME NEW j \in JointIds
          PROVE  readings[j].naReason = "uncalibrated" <=> j \notin latest.cals
      BY <2>1, ReadingOf, TelemetryAssumption DEF Joint, Reason
    <3>2. QED
      BY <3>1
  <2>3. JointIds \cap latest.cals = latest.cals
    BY <2>1
  <2>4. Cardinality(JointIds \ latest.cals)
            = Cardinality(JointIds) - Cardinality(latest.cals)
    BY <2>3, FS_Difference, TelemetryAssumption
  <2>5. Cardinality(JointIds) \in Nat /\ Cardinality(latest.cals) \in Nat
    BY <2>1, FS_Subset, FS_CardinalityType, TelemetryAssumption
  <2>6. Uncal = Cardinality(JointIds) - Cardinality(latest.cals)
    BY <2>2, <2>4 DEF Uncal
  <2>7. QED
    BY <2>5, <2>6 DEF Cal
<1>2. QED
  BY <1>1, AlwaysInv, PTL

LEMMA LeastJoint ==
    ASSUME NEW S \in SUBSET JointIds, S # {}
    PROVE  \E j \in S : \A k \in S : j <= k
<1> DEFINE less == OpToRel(<, Nat)
<1>1. S \subseteq Nat
  BY TelemetryAssumption
<1>2. PICK j \in S : \A k \in S : ~(<<k, j>> \in less)
  BY <1>1, WFMin, NatLessThanWellFounded
<1>3. ASSUME NEW k \in S PROVE j <= k
  <2>1. ~(k < j)
    BY <1>1, <1>2 DEF OpToRel
  <2>2. QED
    BY <1>1, <2>1
<1>4. QED
  BY <1>3

\* MotorCards, MotorDetail and the tab's count each look at the stats by
\* themselves; each shows what the servos answered for the last message.
THEOREM MotorsCurrentCorrect == Spec => []MotorsCurrent
<1>1. Inv => MotorsCurrent
  <2> SUFFICES ASSUME Inv PROVE MotorsCurrent
    OBVIOUS
  <2> USE TelemetryAssumption, AnswersAssumption
  <2> DEFINE read    == {j \in JointIds : latestRead[j] # NoValue}
             ok      == {j \in read : latestRead[j].ok}
             powered == {j \in read : latestRead[j].voltageDeci # NoValue}
             known   == {j \in JointIds : VoltsCell(j) # NoValue}
  <2>1. ASSUME NEW j \in JointIds
        PROVE  /\ j \in DOMAIN stats /\ stats[j].ok <=> j \in ok
               /\ VoltsCell(j) = IF j \in powered THEN latestRead[j].voltageDeci
                                 ELSE NoValue
    <3>1. CASE stats = [i \in {} |-> NoState] /\ latestRead = NoRead
      <4>1. j \notin DOMAIN stats /\ j \notin read
        BY <3>1 DEF NoRead
      <4>2. QED
        BY <4>1 DEF VoltsCell
    <3>2. CASE stats = BuildServoStats(latestRead)
      <4>1. /\ j \in DOMAIN stats
            /\ stats[j] = IF latestRead[j] = NoValue THEN NoState ELSE latestRead[j]
        BY <3>2 DEF BuildServoStats
      <4>2. NoState.voltageDeci = NoValue /\ NoState.ok = FALSE
        BY DEF NoState
      <4>3. QED
        BY <4>1, <4>2 DEF VoltsCell
    <3>3. QED
      BY <3>1, <3>2 DEF Inv, HookOK, StatsOK
  <2>2. {j \in JointIds : j \in DOMAIN stats /\ stats[j].ok} = ok
    BY <2>1
  <2>3. LiveMotors = Cardinality(ok)
    BY <2>2 DEF LiveMotors
  <2>4. known = powered
    BY <2>1
  <2>5. CASE powered = {}
    <3>1. BusVolts = NoValue
      BY <2>4, <2>5 DEF BusVolts
    <3>2. QED
      BY <2>1, <2>3, <2>5, <3>1 DEF MotorsCurrent, Offline, Status
  <2>6. CASE powered # {}
    <3> DEFINE first == CHOOSE j \in known : \A k \in known : j <= k
    <3>1. first \in powered /\ \A k \in powered : first <= k
      BY <2>4, <2>6, LeastJoint
    <3>2. BusVolts = latestRead[first].voltageDeci
      BY <2>1, <2>4, <2>6, <3>1 DEF BusVolts
    <3> HIDE DEF first
    <3>3. QED
      BY <2>1, <2>3, <2>6, <3>1, <3>2 DEF MotorsCurrent, Offline, Status
  <2>7. QED
    BY <2>5, <2>6
<1>2. QED
  BY <1>1, AlwaysInv, PTL
=============================================================================
