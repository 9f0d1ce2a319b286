SPECIFICATION Spec
CONSTANTS
  LineLength = 2
  NumberOfLines = 2
  MemorySize = 5
  Sizes = {1, 2}
  Data = {0, 1}
INVARIANTS Invisible LoadsReadLastStore PanicOnlyAcrossLines
CONSTRAINT Undisturbed
