SPECIFICATION FairSpec
CONSTANTS
    Meshes = {m1, m2}
    Readings = {r1, r2}
    Presets = {iso, front}
    Default = iso
    Opacities = {opaque, faint}
    Opaque = opaque
    MaxDist = 2
    MaxLosses = 1
    MaxDrags = 1
    None = None
    FlatViews = {side, plan}
INVARIANTS
    SceneFollows
    PictureCurrent
    SchematicCurrent
PROPERTIES
    CameraSettles
    ViewerResolves
