SPECIFICATION FairSpec
CONSTANTS
  Jobs = {"j1", "j2", "j3", "k"}
  Early = {"j3"}
  Silent = {"j2"}
  Cards = {"x", "y"}
  CardOf <- MCCardOf
  FirstUse = {"j1"}
  PageSize = 1
  MaxSessionPages = 2
  MaxChecks = 1
  Openings <- OnlyLongList
CHECK_DEADLOCK FALSE
PROPERTIES EverySuccessIsEntered
