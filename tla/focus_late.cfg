SPECIFICATION LateSpec
CONSTANTS
  Days = {1}
  Tasks = {a}
  None = None
  MaxMs = 1
  MaxMinutes = 3
  Planned = 3
  MaxActs = 2
  MaxNow = 1
INVARIANTS
  ScreenIsServed
CHECK_DEADLOCK FALSE
