----------------------------- MODULE Telemetry ------------------------------
(***************************************************************************)
(* The live readouts of the Arm tab and of the teleop window: the joints   *)
(* and stats publishers of main.go, their messages, the hooks that keep    *)
(* the last of each, and what the cards make of them.                      *)
(*                                                                         *)
(* Time passes in the 500 ms of useAgeMs' interval.  Messages travel in    *)
(* order and may be lost; the publishers' periods are not assumed.  One    *)
(* build of a message is one step: calibrations applied while it reads the *)
(* servos are in it or in the next.                                        *)
(***************************************************************************)
EXTENDS Messages, Sequences, FiniteSets

CONSTANTS
    JointIds, Grip,  \* SO100_JOINTS, and joint 6
    Angles, Volts,   \* what a servo can be read as
    Answers,         \* states the broker can answer with
    StaleAfter,      \* STALE_AFTER_MS, in intervals
    MaxBus           \* bound on the messages of a subject in flight

ASSUME TelemetryAssumption ==
    /\ JointIds \subseteq Nat /\ IsFiniteSet(JointIds) /\ Grip \in JointIds
    /\ StaleAfter \in Nat /\ MaxBus \in Nat
    /\ NoValue \notin Angles \cup Volts /\ NoValue \notin Reason
    /\ NoValue \notin Nat

\* ok, the voltage and the flags come from the broker one by one: an answer may
\* be ok without a voltage, or have one without being ok.
ASSUME AnswersAssumption ==
    Answers \subseteq ServoState(Volts) /\ NoValue \notin Answers

VARIABLES
    recording,   \* ctrl.Recording()
    cals,        \* joints with an entry in the shared calibration map
    jointsBus,   \* JointAngles in flight, with cals when they were built (history)
    statsBus,    \* ServoStats in flight, with what was read for them (history)
    readings,    \* useJoints
    stats,       \* useStats
    age,         \* intervals since lastAtMs, NoValue before the first message
    shownAge,    \* ageMs of the last render
    latest,      \* the last JointAngles delivered (history)
    latestRead   \* what was read for the last ServoStats delivered (history)

modVars  == <<recording, cals>>
busVars  == <<jointsBus, statsBus>>
hookVars == <<readings, stats, age, shownAge, latest, latestRead>>
vars == <<modVars, busVars, hookVars>>

-----------------------------------------------------------------------------
(* The messages and their readers.                                         *)

\* Mutant of BuildJointAngles: only joints with an angle are in the message.
BuildJointAnglesPresent(cal, ok, angle) ==
    [j \in cal \cap ok |-> [angleRad |-> angle[j], naReason |-> ""]]

\* Mutant of BuildJointAngles: a failed read is looked at first.
BuildJointAnglesReadFirst(cal, ok, angle) ==
    [j \in JointIds |->
        IF j \notin ok THEN [angleRad |-> NoValue, naReason |-> "no read"]
        ELSE IF j \notin cal THEN [angleRad |-> NoValue, naReason |-> "uncalibrated"]
        ELSE [angleRad |-> angle[j], naReason |-> ""]]

\* An angle for a calibrated joint that was read, else the reason.
BuildJointAngles(cal, ok, angle) ==
    [j \in JointIds |->
        IF j \notin cal THEN [angleRad |-> NoValue, naReason |-> "uncalibrated"]
        ELSE IF j \notin ok THEN [angleRad |-> NoValue, naReason |-> "no read"]
        ELSE [angleRad |-> angle[j], naReason |-> ""]]

\* While teleop commands, the loop's estimate: nothing is read, nothing fails.
JointAnglesFromEstimate(cal, angle) == BuildJointAngles(cal, JointIds, angle)

\* What ReadServoState can return for each joint: a state as the broker answers
\* it, field by field, or NoValue for an error.
Reads   == [JointIds -> Answers \cup {NoValue}]
NoRead  == [j \in JointIds |-> NoValue]
NoState == [voltageDeci |-> NoValue, ok |-> FALSE,
            moving |-> FALSE, overcurrentTripped |-> FALSE]

\* A servo that could not be read has an empty state.
BuildServoStats(read) ==
    [j \in JointIds |-> IF read[j] = NoValue THEN NoState ELSE read[j]]

\* One joint of a message: its angle, or its reason and "no data" without one.
Reading(m) ==
    [angleRad |-> m.angleRad,
     naReason |-> IF m.angleRad # NoValue THEN NoValue
                  ELSE IF m.naReason = "" THEN "no data" ELSE m.naReason]

Awaiting == [angleRad |-> NoValue, naReason |-> "awaiting telemetry"]

\* setReadings: joints that are not in the message keep their reading.
Merge(prev, joints) ==
    [j \in JointIds |->
        IF j \in DOMAIN joints THEN Reading(joints[j]) ELSE prev[j]]

-----------------------------------------------------------------------------
Init ==
    /\ recording = FALSE /\ cals = {}
    /\ jointsBus = <<>> /\ statsBus = <<>>
    /\ readings = [j \in JointIds |-> Awaiting]
    /\ stats = [j \in {} |-> NoState]
    /\ age = NoValue /\ shownAge = NoValue
    /\ latest = NoValue /\ latestRead = NoRead

\* The session's flag, and applyCals.
SetRecording(on) ==
    /\ recording # on /\ recording' = on
    /\ UNCHANGED <<cals, busVars, hookVars>>

ApplyCal(j) ==
    /\ j \notin cals /\ cals' = cals \cup {j}
    /\ UNCHANGED <<recording, busVars, hookVars>>

\* A message that gets lost is as if it was not published.
SendJoints(joints) ==
    /\ Len(jointsBus) < MaxBus
    /\ jointsBus' = Append(jointsBus, [joints |-> joints, cals |-> cals])
    /\ UNCHANGED <<modVars, statsBus, hookVars>>

\* The 33 ms publisher, silent while a session records.
PublishJoints(ok, angle, active) ==
    /\ ~recording
    /\ SendJoints(IF active THEN JointAnglesFromEstimate(cals, angle)
                  ELSE BuildJointAngles(cals, ok, angle))

\* The 200 ms publisher.
PublishStats(read) ==
    /\ ~recording
    /\ Len(statsBus) < MaxBus
    /\ statsBus' = Append(statsBus, [servos |-> BuildServoStats(read), read |-> read])
    /\ UNCHANGED <<modVars, jointsBus, hookVars>>

-----------------------------------------------------------------------------
(* The hooks.                                                              *)

\* The reading and the time of arrival, and the render they cause.
DeliverJoints ==
    /\ jointsBus # <<>>
    /\ jointsBus' = Tail(jointsBus)
    /\ readings' = Merge(readings, Head(jointsBus).joints)
    /\ latest' = Head(jointsBus)
    /\ age' = 0 /\ shownAge' = 0
    /\ UNCHANGED <<modVars, statsBus, stats, latestRead>>

\* Mutant of DeliverStats: a state without a voltage is merged into the one there is.
DeliverStatsMerged ==
    /\ statsBus # <<>>
    /\ statsBus' = Tail(statsBus)
    /\ stats' = [j \in JointIds |->
           LET s == Head(statsBus).servos[j] IN
           IF s.voltageDeci = NoValue /\ j \in DOMAIN stats
           THEN [s EXCEPT !.voltageDeci = stats[j].voltageDeci] ELSE s]
    /\ latestRead' = Head(statsBus).read
    /\ shownAge' = age
    /\ UNCHANGED <<modVars, jointsBus, readings, age, latest>>

\* setStats replaces the map; the render shows the feed's age of the moment.
DeliverStats ==
    /\ statsBus # <<>>
    /\ statsBus' = Tail(statsBus)
    /\ stats' = Head(statsBus).servos
    /\ latestRead' = Head(statsBus).read
    /\ shownAge' = age
    /\ UNCHANGED <<modVars, jointsBus, readings, age, latest>>

\* An interval passes; ages past StaleAfter are not told apart.
Pass ==
    /\ age # NoValue /\ age <= StaleAfter
    /\ age' = age + 1
    /\ UNCHANGED <<modVars, busVars, readings, stats, shownAge, latest, latestRead>>

\* Mutant of Bump: the interval's render is missing.
BumpNothing == FALSE /\ UNCHANGED vars

\* useAgeMs' interval re-renders.
Bump ==
    /\ shownAge # age
    /\ shownAge' = age
    /\ UNCHANGED <<modVars, busVars, readings, stats, age, latest, latestRead>>

-----------------------------------------------------------------------------
(* What is shown.                                                          *)

Feed == IF shownAge = NoValue THEN "awaiting telemetry"
        ELSE IF shownAge > StaleAfter THEN "stale" ELSE "live"

\* A row of the joint rail.
RailRow(j) ==
    IF readings[j].angleRad # NoValue THEN [val |-> readings[j].angleRad]
    ELSE [na |-> readings[j].naReason]

\* The pose of the 3D model: at rest without an angle.
Pose == [j \in JointIds |->
            IF readings[j].angleRad = NoValue THEN 0 ELSE readings[j].angleRad]

\* uncal, and the cal n/6 of the status card and of the footer.
Uncal == Cardinality({j \in JointIds : readings[j].naReason = "uncalibrated"})
Cal   == Cardinality(JointIds) - Uncal

\* grip: a percentage of the angle, or N/A.
GripShown == readings[Grip].angleRad

\* n/6 live
LiveMotors == Cardinality({j \in JointIds : j \in DOMAIN stats /\ stats[j].ok})

\* A motor card is dimmed.
Offline(j) == j \notin DOMAIN stats \/ ~stats[j].ok

Status(j) ==
    IF j \notin DOMAIN stats \/ ~stats[j].ok THEN "no rd"
    ELSE IF stats[j].overcurrentTripped THEN "OC!"
    ELSE IF stats[j].moving THEN "mov"
    ELSE "ok"

\* A cell of a servo's row.
VoltsCell(j) == IF j \in DOMAIN stats THEN stats[j].voltageDeci ELSE NoValue

\* firstBusVolts: of the first joint that has a voltage.
BusVolts ==
    LET known == {j \in JointIds : VoltsCell(j) # NoValue}
    IN  IF known = {} THEN NoValue
        ELSE VoltsCell(CHOOSE j \in known : \A k \in known : j <= k)

-----------------------------------------------------------------------------
Publish ==
    \/ \E ok \in SUBSET JointIds, angle \in [JointIds -> Angles], active \in BOOLEAN :
           PublishJoints(ok, angle, active)
    \/ \E read \in Reads : PublishStats(read)

Module == \/ \E on \in BOOLEAN : SetRecording(on)
          \/ \E j \in JointIds : ApplyCal(j)

Next ==
    \/ Module \/ Publish
    \/ DeliverJoints \/ DeliverStats
    \/ Pass \/ Bump

Spec == Init /\ [][Next]_vars

\* Messages arrive, time passes and the browser's timer fires.  Nothing is
\* assumed of the publishers.
Fairness == /\ WF_vars(DeliverJoints) /\ WF_vars(DeliverStats)
            /\ WF_vars(Pass) /\ WF_vars(Bump)

FairSpec == Spec /\ Fairness

-----------------------------------------------------------------------------
(* Properties.                                                             *)

ReadingType ==
    [angleRad : Angles, naReason : {NoValue}]
    \cup [angleRad : {NoValue},
          naReason : (Reason \ {""}) \cup {"no data", "awaiting telemetry"}]

TypeOK ==
    /\ recording \in BOOLEAN /\ cals \subseteq JointIds
    /\ jointsBus \in Seq([joints : JointAngles(JointIds, Angles),
                          cals : SUBSET JointIds])
    /\ statsBus \in Seq([servos : ServoStats(JointIds, Volts), read : Reads])
    /\ readings \in [JointIds -> ReadingType]
    /\ stats \in ServoStats(JointIds, Volts)
    /\ {age, shownAge} \subseteq (0 .. StaleAfter + 1) \cup {NoValue}
    /\ latest = NoValue \/ latest.cals \subseteq cals
    /\ latestRead \in Reads
    /\ age = NoValue <=> \A j \in JointIds : readings[j] = Awaiting

\* The readings are merged joint by joint, under one age for all: while the
\* feed is live, the rail, the pose of the models and the grip show what came
\* with the last message, and nothing of an older one.
FreshAngles ==
    Feed = "live" =>
        /\ \A j \in JointIds :
               /\ j \in DOMAIN latest.joints
               /\ LET m == latest.joints[j] IN
                  IF m.angleRad = NoValue THEN RailRow(j) = [na |-> m.naReason]
                  ELSE RailRow(j) = [val |-> m.angleRad] /\ Pose[j] = m.angleRad
        /\ GripShown = latest.joints[Grip].angleRad

\* After the first message, cal n/6 counts the calibrations there were when the
\* message was built, although a joint's one reason may also be a failed read,
\* and the count looks at the reasons only.
CalCount == latest # NoValue => Cal = Cardinality(latest.cals)

\* From the bus to the screen: the count, the dimmed cards, the status cells, the
\* numbers and the bus voltage show what the servos answered for the last stats
\* message that came.  A servo that could not be read for it has no number left
\* from an earlier one, and hides nobody's voltage.  A servo that answered and is
\* not ok keeps the numbers it answered with.
MotorsCurrent ==
    LET read    == {j \in JointIds : latestRead[j] # NoValue}
        ok      == {j \in read : latestRead[j].ok}
        powered == {j \in read : latestRead[j].voltageDeci # NoValue}
    IN
    /\ LiveMotors = Cardinality(ok)
    /\ \A j \in JointIds :
           /\ Offline(j) <=> j \notin ok
           /\ Status(j) = "no rd" <=> j \notin ok
           /\ VoltsCell(j) = IF j \in powered THEN latestRead[j].voltageDeci
                             ELSE NoValue
    /\ IF powered = {} THEN BusVolts = NoValue
       ELSE \E j \in powered : /\ \A k \in powered : j <= k
                               /\ BusVolts = latestRead[j].voltageDeci

\* A feed that falls silent for good is shown as stale, with no message to
\* render for: a long recording silences both publishers.
SilenceShown == <>[]recording => <>[](Feed # "live")
=============================================================================
