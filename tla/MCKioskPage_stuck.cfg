CONSTANTS
  a = a
  b = b
  Playlist <- AB
  OnEnd = {b}
  Plain = {a, b}
  Media = {}
  Dwell = 3
  DefaultDwell = 2
  RefreshPeriod = 2
  Cap = 9
  Prompt = TRUE
  MaxPresses = 0
  MaxReconnects = 0
  MaxEvents = 4
  MaxLoads = 2
  NoView = NoView
SPECIFICATION Spec
INVARIANTS FallbackInTime
