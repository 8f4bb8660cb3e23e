SPECIFICATION FairSpec
CONSTANTS
    Joints = {j1}
    Sessions = {s1, s2}
    MaxCrashes = 1
    None = None
INVARIANTS
    OneLiveSession
    OnlyMeasured
    ArmWithinShared
    FlagCoversSession
    FileOfOneSession
    MapsAgree
PROPERTIES
    KeepsPromise
    KeepsController
    SignalledSessionEnds
    PublishersResume
CHECK_DEADLOCK FALSE
