CONSTANTS
  main = main
  cron = cron
  a = a
  b = b
  c = c
  d = d
  Lanes = {main, cron}
  Tasks = {a, b, c, d}
  LaneOf <- MCLaneOf
  Limits = {0, 2}
  MaxResets = 1
SPECIFICATION Spec
INVARIANTS
  QueueMatchesStatus
  SlotsMatchGeneration
  NoIdleSlotWithBacklog
  DrainedMeansSettled
PROPERTIES
  NeverStartsBeyondLimit
  NoOvertaking
  ImplementsTaskLifecycle
