CONSTANTS
  card = card
  pdf = pdf
  film = film
  Pages = 2
  Interval = 2
  MaxDraw = 1
  ZoomLimit = 1
  MaxKeys = 3
  Payloads <- Lists
  Medium <- MediaOf
  Longest = 2
  Retry = 2
  MaxDisturbances = 3
  MaxDelays = 1
  NoBody = NoBody
SPECIFICATION FairSpec
INVARIANTS TypeOK LabelTrue PanelAlive NoRunawayRotation
PROPERTIES PagesComeRound PanelGoesRound TurnsAreDue

