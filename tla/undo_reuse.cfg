SPECIFICATION UndoSpec
CONSTANTS
  MaxTasks = 3
  MaxPosted = 1
  MaxProjects = 1
  MaxSeries = 1
  MaxDate = 3
  MaxEvery = 1
  MaxDepth = 1
  Patches <- RetiredPatches
  NewTasks <- DatedTasks
  Calls <- RetiredCalls
PROPERTIES
  ReceiptNamesItsRow
CHECK_DEADLOCK FALSE
