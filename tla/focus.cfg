SPECIFICATION OpenedSpec
CONSTANTS
  FirstDay = 1
  Days = {1, 2}
  Tasks = {a}
  None = None
  MaxMs = 1
  MaxMinutes = 3
  Planned = 3
  MaxActs = 3
  MaxNow = 1
INVARIANTS
  OneRowPerClaim
  ScreenIsServed
PROPERTIES
  KeepsTheDay
  PhoneConverges
CHECK_DEADLOCK FALSE
