SPECIFICATION Spec
CONSTANTS
  Mailboxes = {"m"}
  Accounts = {"a"}
  Customers = {"c", "d"}
  Staff = {"boss", "ann"}
  Admins = {"boss"}
  MaxForms = 8
  MaxOthers = 2
  MaxFaults = 2
  MaxLoads = 1
  MaxEvents = 4
INVARIANT StockAddsUp
INVARIANT CommandsAnsweredTruly
INVARIANT PageAgreesWithServer
PROPERTY HistoryIsKept
PROPERTY EvidenceIsHeeded
CHECK_DEADLOCK FALSE
