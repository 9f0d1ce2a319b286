SPECIFICATION FairSpec
CONSTANTS
  t0 = t0
  t1 = t1
  Register = {zero, ra, t0, t1}
  Zero = zero
  Ra = ra
  ByteBits = 4
  UpperShift = 3
  LoadCycles = 3
  MemoryCycles = 3
  LineLength = 4
  NumberOfLines = 2
  L1ILineLength = 8
  L1INumberOfLines = 2
  Applications <- ProgressPrograms
  InitMemories <- EightBytes
  InitRegisters <- SmallRegisters
PROPERTIES Progress
