SPECIFICATION FairSpec
CONSTANTS
  a = a
  b = b
  Codes = {a}
  Stages = {"paying"}
  Timeout = 1
  Poll = 1
  Heartbeat = 2
  Lease = 8
  LastEnd = 10
  MaxTime = 14
  MaxFaults = 2
  MaxLate = 1
CHECK_DEADLOCK FALSE
INVARIANTS OneRunPerCode ReportsInTime OutcomeIsTheEngines
PROPERTIES KeepsPromise EndedJobsAreRecorded
