CONSTANTS
  Shift = 60
  Before = 120
  After = 60
  Second = TRUE
  Settings <- MCSeeded
  PipsLead = 1
  SpeechLead = 3
  Start <- MCStart
  Horizon = 140
  MaxLate = 0
SPECIFICATION Spec
PROPERTIES BeatsFollowQuarters
