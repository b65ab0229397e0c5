SPECIFICATION Spec
CONSTANTS
  MaxTasks = 3
  MaxPosted = 3
  MaxProjects = 2
  MaxSeries = 0
  MaxDate = 0
  MaxEvery = 0
  MaxDepth = 3
  Patches <- TreePatches
  NewTasks <- OpenBodies
  Calls <- TreeCalls
CONSTRAINT ProjectOfOne
INVARIANTS
  NoDanglingReference
  WaitsAcyclic
  DoneMeansAllDone
  ReadsAgree
  BlockersSurface
CHECK_DEADLOCK FALSE
