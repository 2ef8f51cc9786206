\* Gateways start without bound; two scans may overlap.
CONSTANTS
  Deliveries = {m1}
  Scans = {s1, s2}
  BestEffort = {}
  ReportsErrors = {}
  NPayloads = 1
  MaxRetries = 2
  Gone = Gone
  MaxStarts = 0
  MaxOverlaps = 2
  MaxCrashes = 1
  MaxDiskErrors = 1
SPECIFICATION FairSpec
CHECK_DEADLOCK FALSE
PROPERTIES
  EntriesEventuallyLeave
