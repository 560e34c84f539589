CONSTANTS
  Devices = {d1}
  Conns = {c1, c2}
  Callers = {r1}
  v1 = v1
  v2 = v2
  Views = {v1, v2}
  ClockViews = {v2}
  PlaylistIds = {p1}
  DefaultPlaylist = p1
  Contents <- MCTwo
  CmdCap = 1
  MaxCommands = 2
  MaxEdits = 0
  NoView = NoView
  NoConn = NoConn
  NoPlaylist = NoPlaylist
  NoPip = NoPip
SPECIFICATION Spec
INVARIANTS TypeOK RegistryExact NoLostWakeup AutomaticMoveSawUnpaused
