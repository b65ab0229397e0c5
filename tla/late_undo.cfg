SPECIFICATION LateUndoSpec
CONSTANTS
  MaxTasks = 3
  MaxPosted = 3
  MaxProjects = 2
  MaxSeries = 1
  MaxDate = 2
  MaxEvery = 1
  MaxDepth = 2
  Patches <- ProjectPatches
  NewTasks <- ProjectBodies
  Calls <- LateUndoCalls
INVARIANT
  TrashedForOneReason
CHECK_DEADLOCK FALSE
