\* A scan beside live deliveries; a crash, and a disk that fails.
CONSTANTS
  Deliveries = {m1, m2}
  Scans = {s1}
  BestEffort = {}
  ReportsErrors = {}
  NPayloads = 2
  MaxRetries = 2
  Gone = Gone
  MaxStarts = 2
  MaxOverlaps = 1
  MaxCrashes = 1
  MaxDiskErrors = 1
SPECIFICATION Spec
SYMMETRY Symmetry
CHECK_DEADLOCK FALSE
INVARIANTS
  NothingLost
  RetryBudget
  GivenUpLate
PROPERTIES
  FinalNeverSentAgain
