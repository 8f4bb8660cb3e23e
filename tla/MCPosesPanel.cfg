SPECIFICATION PanelSpec
CONSTANTS
    Slots = {share, options}
    Poses = {p1}
    MaxCrashes = 1
    MaxCommands = 1
    MaxBus = 1
    Windows = {tab}
    None = None
    NoValue = NoValue
SYMMETRY Symmetry
INVARIANTS
    LiveMatchesStore
    DiskMatchesStore
    CardMatchesStore
PROPERTIES
    OthersSurvive
