\* DrainedMeansNoTurnInFlight and ListeningUnderLock fail here as well.
CONSTANTS
  main = main
  a = a
  b = b
  Lanes = {main}
  Tasks = {a, b}
  LaneOf <- MCLaneOf
  Limits = {1}
  MaxResets = 1
  MaxRestarts = 1
  MaxPolls = 1
SPECIFICATION LoopSpec
CHECK_DEADLOCK FALSE
INVARIANTS
  DrainingOnlyInShutdown
