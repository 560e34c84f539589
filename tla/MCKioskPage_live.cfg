CONSTANTS
  a = a
  b = b
  Playlist <- AB
  OnEnd = {b}
  Plain = {a, b}
  Media = {b}
  Dwell = 1
  DefaultDwell = 2
  RefreshPeriod = 2
  Cap = 2
  Prompt = FALSE
  MaxPresses = 2
  MaxReconnects = 1
  MaxEvents = 2
  MaxLoads = 1
  NoView = NoView
SPECIFICATION FairSpec
INVARIANTS TypeOK FallbackFitsStage
PROPERTIES RotationGoesOn StageRepaired
