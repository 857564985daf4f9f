SPECIFICATION Spec
CONSTANTS
  j1 = j1
  j2 = j2
  c1 = c1
  c2 = c2
  k1 = k1
  i1 = i1
  i2 = i2
  w1 = w1
  w2 = w2
  r1 = r1
  r2 = r2
  None = None
  Jobs <- OneJob
  Configs <- OneConfig
  Keys <- OneKey
  KeyOf <- OneKeyOf
  Persist <- PersistFirst
  Instances <- TwoInstances
  WorkerIds <- TwoIds
  Clients <- OneClient
  Workers = 1
  MaxStops = 0
  MaxFaults = 0
SYMMETRY FullSymmetry
INVARIANT
  ExclusiveExecution
