CONSTANTS
  Builds = {"v7", "v8"}
  Widgets = {"kitchen", "hall"}
  Sources = {"clip", "empty"}
  Blank = {"empty"}
  Links <- MCLinks
  MaxPlaylists = 2
  MaxCrashes = 2
  MaxFailures = 1
SPECIFICATION BoundedSpec
INVARIANTS TypeOK ServedRowsAreOfThisBuild MigrationKeepsURLs ManualSoundIsKept SeededViewsArePlayed
PROPERTY ServesAView
