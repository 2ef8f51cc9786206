CONSTANTS
  Jobs = {daily, once}
  Recurring = {daily}
  Services = {s1}
  MaxImmediate = 1
  MaxCrashes = 1
  MaxEdits = 1
SPECIFICATION FairSpec
INVARIANTS
  OneRunPerJob
  TimerArmed
PROPERTIES
  DisableSticks
  SlotsKept
  DueRuns
CHECK_DEADLOCK FALSE
