SPECIFICATION Spec
CONSTANTS
  c1 = c1  c2 = c2  j1 = j1  e1 = e1
  NoJob = NoJob  NoEvidence = NoEvidence
  Instances = {i1, i2}
  Codes = {c1}
  Registries <- PauseRegistries
  SessionLifetimes <- LongLifetimes
  Jobs = {j1}
  Evidence = {e1}
  Results <- ResultBodies
  SignatureWindow = 1
  QueuedLifetime = 2
  LeaseLifetime = 1
  LastCall = 1
  MaxTime = 2
  MaxRequests = 2
INVARIANT HandedOutOnce
PROPERTY KeepsPromise
