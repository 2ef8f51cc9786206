CONSTANTS
  Dispatchers = {d1, d2}
  Typed = d1
  MaxReplies = 1
  MaxFollowups = 1
  MaxRestarts = 1
SPECIFICATION FairSpec
INVARIANTS
  PendingExact
PROPERTIES
  RestartWaitsForTurns
  TurnsEnd
  TypingEnds
CHECK_DEADLOCK FALSE
