SPECIFICATION FairSpec
CONSTANTS
  Ids = {"i1", "i2"}
  Super = "i1"
  Emails = {"e1", "e2"}
  EmailOf <- MCEmailOf
  Passwords = {"x", "y"}
  FirstPassword = "x"
  Processes = {"p1", "p2"}
  Pages = {"w1", "w2"}
  Browsers = {"w1", "w2"}
  BrowserOf <- OwnBrowsers
  HomeOf <- OneHome
  LoggedIn <- SomeLoggedIn
  TokenOf <- Tokens
  Lifetime = 1
  MaxSessions = 2
  MaxTime = 1
  MaxRequests = 2
  MaxFaults = 1
CHECK_DEADLOCK FALSE
INVARIANTS SessionsAreCurrent FileIsValid
PROPERTIES EveryChangeIsCounted RevokedPagesLeave
