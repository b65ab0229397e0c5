SPECIFICATION Spec
CONSTANTS
  MaxTasks = 3
  MaxPosted = 3
  MaxProjects = 1
  MaxSeries = 1
  MaxDate = 3
  MaxEvery = 1
  MaxDepth = 1
  Patches <- SeriesPatches
  NewTasks <- DatedTasks
  Calls <- SeriesCalls
INVARIANTS
  OneOccurrencePerDate
  TrashMarkersTruthful
PROPERTIES
  SkippedDateNotRevived
  UnskippedDateIsLive
CHECK_DEADLOCK FALSE
