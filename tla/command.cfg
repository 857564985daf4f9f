\* A run of two commands: the first prints two lines and has a helper; one fault.
SPECIFICATION FairSpec
CONSTANTS
  loader = loader
  None = None
  Leader = leader
  Helpers <- OneHelper
  NCommands = 2
  MaxLines <- TwoLines
  Capacity = 1
  BatchSize = 2
  MaxFaults = 1
INVARIANTS
  TypeOK
  LinesAccounted
  EventsInOrder
  CommandsEndInRun
PROPERTIES
  SignalledTreeEnds
  ExpiredIsOver
  PipesDrain
