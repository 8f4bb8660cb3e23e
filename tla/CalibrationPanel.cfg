SPECIFICATION FairSpec
CONSTANTS
    Sessions = {s1, s2}
    MaxCrashes = 1
    MaxMounts = 2
    MaxLost = 1
    MaxCommands = 1
    MaxBus = 1
    None = None
    NoValue = NoValue
INVARIANTS
    TorqueHint
    LastWord
PROPERTIES
    SignalsReachTheirSession
    KeepsController
    NoGhostRecording
    SessionShown
CHECK_DEADLOCK FALSE
