SPECIFICATION FairSpec
CONSTANTS
    JointIds = {5, 6}
    Grip = 6
    Angles = {1}
    Volts = {120, 121}
    Answers <- MCAnswers
    StaleAfter = 4
    MaxBus = 1
    NoValue = NoValue
INVARIANTS
    FreshAngles
    CalCount
    MotorsCurrent
PROPERTIES
    SilenceShown
