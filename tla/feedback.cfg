SPECIFICATION FairSpec
CONSTANTS
  v1 = v1
  v2 = v2
  i1 = i1
  i2 = i2
  None = None
  Versions <- TwoVersions
  Release <- TwoStatuses
  Instances <- TwoInstances
  MaxEvents = 3
  Gap = 1
INVARIANTS
  TypeOK
  StateFromApplied
  LatestUnlessRaced
  PathUnlessRaced
PROPERTIES
  VerdictIsFinal
  EveryEventIsAnswered
