SPECIFICATION UndoSpec
CONSTANTS
  MaxTasks = 3
  MaxPosted = 2
  MaxProjects = 2
  MaxSeries = 1
  MaxDate = 2
  MaxEvery = 1
  MaxDepth = 2
  Patches <- ProjectPatches
  NewTasks <- ProjectBodies
  Calls <- ArchiveCalls
INVARIANTS
  LiveTaskInLiveProject
  PurgeCountsExact
  CascadeWaitsForItsRoot
PROPERTIES
  UndoneProjectRedoes
CHECK_DEADLOCK FALSE
