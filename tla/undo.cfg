SPECIFICATION UndoSpec
CONSTANTS
  MaxTasks = 4
  MaxPosted = 2
  MaxProjects = 1
  MaxSeries = 1
  MaxDate = 2
  MaxEvery = 1
  MaxDepth = 2
  Patches <- RoutinePatches
  NewTasks <- RoutineTasks
  Calls <- RoutineCalls
PROPERTIES
  UndoneRestoreRedoes
  UndoneUnskipRedoes
CHECK_DEADLOCK FALSE
