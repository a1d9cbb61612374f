SPECIFICATION Spec
CONSTANTS
  Objects = {"layer", "map"}
  Types = {"e"}
  Listeners = {"f"}
  EventParents <- MCEventParents
  MaxCells = 2
  MaxDepth = 2
  MaxFails = 1
  Views <- MCViews
  MaxZoom = 1
  Sizes = {2, 6}
  MaxCalls = 2
  Gestures = {"drag", "pinch"}
  Nowhere = Nowhere
  Leaves = {m1}
  Credited = {m1}
  Groups = {g}
  Popups = {p, q}
  MaxControls = 1
  NoPopup = NoPopup
  NoSource = NoSource
  DrawPaths = {p1, p2, p3}
  NoPath = NoPath
  Paths = {p1, p2}
  Width = 2
  Origins = {1, 2}
  Windows <- MCWindows
  Shapes <- MCShapes
  Styles = {0, 1}
  MaxOrphans = 1
  Nil = Nil
  Devices = {"mouse", "touch"}
  Nobody = Nobody
  MaxTouches = 3
  Debounce = 2
  MaxTicks = 6
  HoverTips = {h}
  StickyTips = {s}
  PermanentTips = {t}
  NoTip = NoTip
  TileLayers <- MCTileLayers
  Highest = 2
  Endless = 9
  Unset = Unset
  MaxUnderway = 2
  Bases = {a, b}
  Overlays = {o}
  Deep = {o}
  MaxEntries = 2
  Fingers = {1, 2}
  TapDelay = 2
  MaxTime = 13
  MaxTaps = 3
  Hearers = 2
  Fns = {"f", "g"}
  MaxHandlers = 4
  NoBox = NoBox
  Coords = {0, 1, 2}
  MaxGiven = 2
  Lines <- MCLines
  Spots <- MCSpots
  MapViews <- MCMapViews
  Weights = {2, 6}
  MaxRing = 3
  GeoData <- MCGeoData
  Whereabouts <- MCWhereabouts
  MaxAdded = 2
  Unit = 24
  Radius = 2
  Fall = 2
  MaxConfetti = 3
INVARIANTS
  EndsWhatItStarts
  DragsAreOrderly
  TipsFollowLayer
  BoundsAreRight
  LineIsWhereItIs
  DataComesBack
PROPERTIES
  MovementEnds
  ListenersAreCalled
  RegistersAgree
  ImplementsOrder
  CanvasIsTrue
  GesturesAreTold
  LimitsAreKept
  ListAndMapAgree
  EventsAreToldOnce
  PartyInOrder
CHECK_DEADLOCK FALSE
