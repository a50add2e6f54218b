SPECIFICATION FairSpec
CONSTANTS
  c1 = c1  c2 = c2  j1 = j1  e1 = e1
  NoJob = NoJob  NoEvidence = NoEvidence
  Instances = {i1}
  Codes = {c1}
  Registries <- PauseRegistries
  SessionLifetimes <- ShortLifetimes
  Jobs = {j1}
  Evidence = {e1}
  Results <- ResultBodies
  SignatureWindow = 1
  QueuedLifetime = 2
  LeaseLifetime = 1
  LastCall = 1
  MaxTime = 3
  MaxRequests = 3
INVARIANT SessionsOnlyForQueued
PROPERTY SettledForGood
PROPERTY SnapshotsAdvance
PROPERTY RequestsTakeEffectOnce
PROPERTY EveryTaskSettles
