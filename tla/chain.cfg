SPECIFICATION Spec
CONSTANTS
  MaxTasks = 4
  MaxPosted = 3
  MaxProjects = 1
  MaxSeries = 2
  MaxDate = 2
  MaxEvery = 1
  MaxDepth = 2
  Patches <- Repeating
  NewTasks <- ChecklistTasks
  Calls <- ChainCalls
PROPERTIES
  CompletedSeriesGoOn
  ClonesKeepToThemselves
CHECK_DEADLOCK FALSE
