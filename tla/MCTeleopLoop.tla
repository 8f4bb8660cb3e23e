---------------------------- MODULE MCTeleopLoop ----------------------------
(***************************************************************************)
(* Values for model-checking TeleopLoop: the pan joint, one IK joint, the  *)
(* roll joint (some runs) and the gripper.  The IK joint's grid reaches    *)
(* beyond its soft limits, the other joints have a single angle inside     *)
(* theirs.                                                                 *)
(***************************************************************************)
EXTENDS TeleopLoop, TLC

CONSTANTS pan, lift, roll, grip

MCIK     == {lift}
MCRoll   == {roll}
NoRoll   == {}
MCSoftLo == [j \in Joints |-> 0]
MCSoftHi == [j \in Joints |-> IF j = lift THEN 1 ELSE 0]

NoRate  == [d \in Direct |-> 0]
GripOn  == [NoRate EXCEPT ![grip] = 1]
PanOn   == [NoRate EXCEPT ![pan] = 1]

Moves(vy, vz, wpitch) ==
    [a \in Axis |-> CASE a = "vy" -> vy [] a = "vz" -> vz [] OTHER -> wpitch]

\* Neutral sticks; full reach with the recall button.
RecallInputs ==
    {[twist |-> Rest, rate |-> NoRate, pressed |-> {}],
     [twist |-> Moves(2, 0, 0), rate |-> NoRate, pressed |-> Slots]}

\* Full reach; full reach and lift with a tilt: the command comes to rest when
\* either expires.  Recalls come from the private command only.
LiveInputs ==
    {[twist |-> Moves(3, 0, 0), rate |-> NoRate, pressed |-> {}],
     [twist |-> Moves(3, 3, 1), rate |-> NoRate, pressed |-> {}]}

\* Neutral sticks; reach one way and the other; the gripper.
SeedInputs ==
    {[twist |-> Rest, rate |-> NoRate, pressed |-> {}],
     [twist |-> Moves(1, 0, 0), rate |-> NoRate, pressed |-> {}],
     [twist |-> Moves(-1, 0, 0), rate |-> PanOn, pressed |-> {}],
     [twist |-> Rest, rate |-> GripOn, pressed |-> {}]}

AllNA == [j \in Joints |-> NA]

NoReadings == {}
NoPoseMaps == {}

\* A pose outside the soft limits, and no pose.
MCPoseMaps ==
    {[s \in Slots |-> NoPose],
     [s \in Slots |-> [j \in Arm |-> IF j = pan THEN NA ELSE 2]]}

\* A pose where the reference is anyway, and no pose.
LivePoseMaps ==
    {[s \in Slots |-> NoPose],
     [s \in Slots |-> [j \in Arm |-> IF j = pan THEN NA ELSE 0]]}

MCReadings == {AllNA, [j \in Joints |-> IF j = lift THEN 2 ELSE 0]}

Symmetry == Permutations(Recallers)
=============================================================================
