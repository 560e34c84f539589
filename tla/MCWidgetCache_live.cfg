CONSTANTS
  Widgets = {w1}
  Users = {w1}
  TokenWidgets = {}
  Loop = loop
  Tasks = {t1, t2}
  second = t2
  MaxEdits = 1
  MaxRestarts = 1
  Null = Null
  NoRow = NoRow
  NoWidget = NoWidget
SPECIFICATION BoundedSpec
INVARIANTS TypeOK NoOrphanRows RefreshingExact
PROPERTIES CacheConverges
