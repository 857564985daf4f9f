SPECIFICATION Spec
CONSTANTS
  p1 = p1
  p2 = p2
  s1 = s1
  c1 = c1
  Pipelines = {p1, p2}
  Scripts = {s1}
  Creators = {c1}
  Foreign = Foreign
  None = None
  Workloads <- MCWorkloads
INVARIANTS TypeOK OwnEvidence LockShieldsRun CreatedIsCoherent ReportTellsOnnx
PROPERTY PackagedAfterStages
