SPECIFICATION FairSpec
CONSTANTS
  Cold = FALSE
  AccountsPage = TRUE
  MaxVersion = 2
  MaxSaves = 1
  MaxFaults = 1
INVARIANTS NewsIsRemembered

PROPERTIES ShownNeverGoesBack CatchesUp
