SPECIFICATION FairSpec
CONSTANTS
  k = k
  t1 = t1
  MaxRequests = 3
  Posts <- Mixed
  Key = {k}
  Token = {t1}
  Target = {x}
  Faults = {"busy", "crash", "toolCrash"}
  MaxCalls = 2
  MaxTurns = 1
  MaxEdits = 1
  None = None
  Other = Other
INVARIANTS
  AgentTypeOK
  WriterNeverWaits
  StopHitsRunInFlight
  TokenSpentOnce
PROPERTIES
  ThreadKeepsItsLog
  RunLockLetGo
CHECK_DEADLOCK FALSE
