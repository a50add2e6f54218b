SPECIFICATION FairSpec
CONSTANTS
  c1 = c1
  c2 = c2
  a1 = a1
  a2 = a2
  Calls = {c1, c2}
  Applications = {a1}
  Count = 2
  MaxRequests = 2
  MaxBatches = 1
  MaxSent = 1
  MaxFaults = 1
  Misfiling = TRUE
CHECK_DEADLOCK FALSE
INVARIANTS WrittenAhead
PROPERTIES NothingTakenBack EveryApprovedBatchIsIssued
