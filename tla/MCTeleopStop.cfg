SPECIFICATION Spec
CONSTANTS
    pan = pan
    lift = lift
    roll = roll
    grip = grip
    Pan = pan
    Grip = grip
    IK <- MCIK
    Roll <- NoRoll
    Slots = {s1}
    Recallers = {r1}
    Inputs <- SeedInputs
    PoseMaps <- MCPoseMaps
    Readings <- NoReadings
    TorqueCommands = {}
    SoftLo <- MCSoftLo
    SoftHi <- MCSoftHi
    MaxLinear = 2
    MaxPitch = 1
    Ramp = 1
    PanRamp = 1
    MaxStep = 0
    Nil = Nil
    NA = NA
PROPERTIES
    StopFreezes
