------------------------------ MODULE Messages ------------------------------
(***************************************************************************)
(* The messages of the module's private subjects, as the dashboard decodes *)
(* them: dashboard/src/proto/so100_pb.ts.                                  *)
(*                                                                         *)
(* Each definition is the set of values of one message.  A repeated field  *)
(* is the map by key that its reader makes of it, an optional scalar that  *)
(* is absent is NoValue; time stamps and names are left out.               *)
(***************************************************************************)
EXTENDS Naturals

CONSTANT NoValue

Button == {"runCalibration", "setHome", "finishCalibration", "abort"}

\* The oneof of module.so100.command.
ArmCommand(slots) ==
    [case : Button, value : {TRUE}]
    \cup [case : {"setTorque"}, value : BOOLEAN]
    \cup [case : {"capturePose", "deletePose", "recallPose"}, value : slots]

\* module.so100.poses
PoseSlot         == [assigned : BOOLEAN]
PoseState(slots) == UNION {[S -> PoseSlot] : S \in SUBSET slots}

\* module.so100.calibration
Phase            == {"idle", "recording", "done", "aborted"}
CalibrationState == [phase : Phase, homeSet : BOOLEAN]

\* module.so100.joints: an angle, or the reason why there is none.
Reason == {"uncalibrated", "no read", ""}

Joint(angles) ==
    [angleRad : angles, naReason : {""}]
    \cup [angleRad : {NoValue}, naReason : Reason]

JointAngles(ids, angles) == UNION {[I -> Joint(angles)] : I \in SUBSET ids}

\* module.so100.stats: a servo that could not be read has no scalar and not ok.
ServoState(volts) ==
    [voltageDeci : volts \cup {NoValue}, ok : BOOLEAN,
     moving : BOOLEAN, overcurrentTripped : BOOLEAN]

ServoStats(ids, volts) == UNION {[I -> ServoState(volts)] : I \in SUBSET ids}
=============================================================================
