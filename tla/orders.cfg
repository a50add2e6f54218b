SPECIFICATION Spec
CONSTANTS
  AppleIds = {"x", "y"}
  Openings <- MCOpenings
  MaxAmount = 2
  MaxForms = 4
  MaxOrders = 2
  MaxOthers = 1
  MaxFaults = 1
  MaxEvents = 5
INVARIANT PageAgreesWithServer
INVARIANT OneEffectPerForm
INVARIANT MoneyIsAccounted
PROPERTY NothingIsLost
CHECK_DEADLOCK FALSE
