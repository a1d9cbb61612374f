SPECIFICATION GridSpec
CONSTANTS
    Views <- MCViews
    MaxZoom = 2
    Sizes = {2}
    MaxCalls = 2
    Gestures = {}
    Nowhere = Nowhere
    TileSize = 4
    KeepBuffer = 0
INVARIANTS
    TilesFollowMap
PROPERTIES
    NoHoles
CHECK_DEADLOCK FALSE
