CONSTANTS
  Requests = {r1, r2}
  FirstItems = 3
  Budget = 3
  Posts = {p1, p2}
  Editors = {e1, e2}
  Widgets = {w1}
  Empty = empty
  One = 1
  MaxPanes = 3
  MaxClicks <- Clicks
  e1 = e1
  e2 = e2
  Uploads = {u1}
  Items = {A, B}
  Viewers = {v1, v2}
  MaxChoices = 2
  MaxForms = 1
  None = None
  Loop = loop
  Renewers = {loop, t1}
  MaxGrants = 2
  MaxMishaps = 2
  NoToken = NoToken
SPECIFICATION Spec
INVARIANTS TypeOK AloneAsAsked LayoutAsDrawn TokenLives
PROPERTIES PdfFollowsRow HealthTells
CHECK_DEADLOCK FALSE
