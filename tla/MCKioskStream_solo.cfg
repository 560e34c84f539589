CONSTANTS
  Devices = {d1}
  Conns = {c1}
  Callers = {r1}
  v1 = v1
  v2 = v2
  Views = {v1, v2}
  ClockViews = {v2}
  PlaylistIds = {p1}
  DefaultPlaylist = p1
  Contents <- MCContents
  CmdCap = 1
  MaxCommands = 2
  MaxEdits = 1
  NoView = NoView
  NoConn = NoConn
  NoPlaylist = NoPlaylist
  NoPip = NoPip
SPECIFICATION FairSpec
INVARIANTS IndexInRange
PROPERTIES StreamsCatchUp FollowsTheRemote
