CONSTANTS
  Shift = 120
  Before = 60
  After = 120
  Second = TRUE
  Settings <- MCSettings
  PipsLead = 1
  SpeechLead = 3
  Start = 100
  Horizon = 155
  MaxLate = 18
  AttentionTime = 1
  RingTime = 1
  MaxSpeech = 2
  MaxTransit = 1
  MaxDisturbances = 3
SPECIFICATION ClockSpec
INVARIANTS TypeOK ToneNotEarly SnoozeSilences
PROPERTIES BeatsFollowQuarters EachBeatOnce TonesMarkTheBeat
CHECK_DEADLOCK FALSE
