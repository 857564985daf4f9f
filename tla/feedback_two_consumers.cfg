SPECIFICATION Spec
CONSTANTS
  v1 = v1
  v2 = v2
  i1 = i1
  i2 = i2
  None = None
  Versions <- OneVersion
  Release <- TwoStatuses
  Instances <- TwoInstances
  MaxEvents = 3
  Gap = 1
PROPERTY
  NeverGoesBack
