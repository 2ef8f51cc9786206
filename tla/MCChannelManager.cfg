CONSTANTS
  MaxBoots = 5
  Calls = {c1, c2, c3}
  MaxAttempts = 2
  StopHook = FALSE
SPECIFICATION FairSpec
INVARIANTS
  ProviderUnderControl
  StopSticks
PROPERTIES
  StopsReturn
  CrashRestarts
