SPECIFICATION Spec
CONSTANTS
    pan = pan
    lift = lift
    roll = roll
    grip = grip
    Pan = pan
    Grip = grip
    IK <- MCIK
    Roll <- NoRoll
    Slots = {}
    Recallers = {}
    Inputs <- SeedInputs
    PoseMaps <- NoPoseMaps
    Readings <- MCReadings
    TorqueCommands = {TRUE, FALSE}
    SoftLo <- MCSoftLo
    SoftHi <- MCSoftHi
    MaxLinear = 1
    MaxPitch = 1
    Ramp = 1
    PanRamp = 1
    MaxStep = 1
    Nil = Nil
    NA = NA
INVARIANTS
    TickGoalsWithinSoftLimits
PROPERTIES
    SensorYieldsToOperator
