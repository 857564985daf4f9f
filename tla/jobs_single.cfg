SPECIFICATION Spec
CONSTANTS
  j1 = j1
  j2 = j2
  c1 = c1
  c2 = c2
  k1 = k1
  i1 = i1
  i2 = i2
  w1 = w1
  w2 = w2
  r1 = r1
  r2 = r2
  None = None
  Jobs <- TwoJobs
  Configs <- TwoConfigs
  Keys <- OneKey
  KeyOf <- OneKeyOf
  Persist <- PersistFirst
  Instances <- OneInstance
  WorkerIds <- OneId
  Clients <- OneClient
  Workers = 2
  MaxStops = 1
  MaxFaults = 2
SYMMETRY JobSymmetry
INVARIANTS
  OneActivePerConfig
  AuditMatchesOutcome
  ThreadLockHasHolder
PROPERTIES
  LifecycleSpec
  TerminalIsFinal
