CONSTANTS
  DayLength = 4
  ReloadHour <- NightHour
  Patience = 2
  Builds = 2
SPECIFICATION Spec
INVARIANT OncePerNight
