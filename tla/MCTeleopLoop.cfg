SPECIFICATION Spec
CONSTANTS
    pan = pan
    lift = lift
    roll = roll
    grip = grip
    Pan = pan
    Grip = grip
    IK <- MCIK
    Roll <- MCRoll
    Slots = {s1}
    Recallers = {r1, r2}
    Inputs <- RecallInputs
    PoseMaps <- MCPoseMaps
    Readings <- NoReadings
    TorqueCommands = {}
    SoftLo <- MCSoftLo
    SoftHi <- MCSoftHi
    MaxLinear = 2
    MaxPitch = 1
    Ramp = 1
    PanRamp = 1
    MaxStep = 1
    Nil = Nil
    NA = NA
SYMMETRY Symmetry
INVARIANTS
    SingleRecall
    UncalibratedRefused
PROPERTIES
    RecallLeavesUncalibratedLimp
