SPECIFICATION Spec
CONSTANTS
  None = None
  Days = {1, 2, 3, 4, 5, 6, 7, 8}
  Tasks = {1, 2, 3, 4, 5}
  Parent <- Checklist
  Lives <- TaskLives
  PinDays = {5}
  TouchedDays = {5}
  PinTimes = {None, 3}
  Bookings <- Meetings
  Edits <- Changes
  MaxRows = 3
  MaxWrites = 2
  WeekLength = 2
  WeekOf <- Weeks
  WeekdayOf <- Weekdays
  MonthOf <- Months
  DayOfMonth <- DaysOfMonth
  MonthLength <- MonthLengths
  DefaultEstimate = 1
  DueSoonDays = 1
  Asked <- Plans
INVARIANTS
  TableAccepts
  ReorderTradesSlots
  MonthlyNeverDrifts
  NothingLost
  NoDoubleBooking
  RankIsHonoured
PROPERTIES
  WritesReachTheirDay
CHECK_DEADLOCK FALSE
