SPECIFICATION FairSpec
CONSTANTS
  t0 = t0
  t1 = t1
  Register = {zero, ra, t0, t1}
  Zero = zero
  Ra = ra
  ByteBits = 4
  UpperShift = 3
  LoadCycles = 50
  MemoryCycles = 50
  LineLength = 64
  NumberOfLines = 16
  L1ILineLength = 64
  L1INumberOfLines = 16
  BtbSize = 4
  Applications <- ReturnPrograms
  InitMemories <- EightBytes
  InitRegisters <- SmallRegisters
  Versions = {"6.0", "6.1"}
PROPERTIES Progress6
