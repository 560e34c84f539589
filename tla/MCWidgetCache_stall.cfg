CONSTANTS
  Widgets = {w1}
  Users = {w1}
  TokenWidgets = {w1}
  Loop = loop
  Tasks = {t1}
  second = t1
  MaxEdits = 0
  MaxRestarts = 0
  Null = Null
  NoRow = NoRow
  NoWidget = NoWidget
SPECIFICATION FairSpec
PROPERTIES LoopComesRound
