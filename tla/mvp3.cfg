SPECIFICATION Spec
CONSTANTS
  t0 = t0
  t1 = t1
  Register = {zero, ra, t0, t1}
  Zero = zero
  Ra = ra
  UpperShift = 3
  LoadCycles = 2
  InitMemories <- EightBytes
  InitRegisters <- SmallRegisters
  ByteBits = 4
  LineLength = 4
  NumberOfLines = 2
  Applications <- LoopPrograms
INVARIANTS Calm
PROPERTIES RefinesSequential
