SPECIFICATION SpecComponents
CONSTANTS
  LineLength = 2
  NumberOfLines = 3
  Address = {0, 1, 2, 3, 4, 6, 8}
  QueueLength = 2
  BufferLength = 2
  PendingLength = 3
  MaxElements = 4
  MaxAbandoned = 1
INVARIANTS OrderedByUse KeptInOrder WithinLengths VisitsWholeList
PROPERTIES OnlyVictimLeaves LoopEnds
