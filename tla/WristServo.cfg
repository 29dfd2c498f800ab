SPECIFICATION WristSpec
CONSTANTS
  Detections = 3
  LeakPlaces = {2, 3}
  Leaks = {3}
  HalfTurn = 9
  Delta = 3
  Shortfall = 1
  Tolerance = 1
  ReturnScale = 1
  MaxDelta = 3
  MaxStep = 1
  LockFrames = 2
  SettleTicks = 1
  Low <- LowLimit
  High = 4
  Starts = {0}
  WholeTurns = {0}
  Leans = {1}
  Scenes = {0, 1, 5}
  Slopes <- TwoSlopes
  Centre = 0
  Strangers = {3}
  Reteaches = FALSE
  Disturbances = 1
CONSTRAINT Explored
INVARIANTS
    TaughtInOneScene
    AThingMustPersist
PROPERTIES
    NeverAway
    SpeedLock
CHECK_DEADLOCK FALSE
