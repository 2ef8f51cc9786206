CONSTANTS
  main = main
  a = a
  b = b
  Lanes = {main}
  Tasks = {a, b}
  LaneOf <- MCLaneOf
  Limits = {1}
  MaxResets = 2
  MaxRestarts = 2
  MaxPolls = 0
SPECIFICATION FairLoopSpec
CHECK_DEADLOCK FALSE
INVARIANTS
  TeardownWaits
PROPERTIES
  ShutdownCompletes
  QueuedOutlivesRestart
