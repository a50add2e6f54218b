SPECIFICATION FairSpec
CONSTANTS
  Cold = TRUE
  AccountsPage = TRUE
  MaxVersion = 2
  MaxSaves = 0
  MaxFaults = 0
PROPERTIES CatchesUp
