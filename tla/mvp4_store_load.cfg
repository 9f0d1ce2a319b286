SPECIFICATION Spec
CONSTANTS
  t0 = t0
  t1 = t1
  Register = {zero, ra, t0, t1}
  Zero = zero
  Ra = ra
  ByteBits = 4
  UpperShift = 3
  LoadCycles = 50
  MemoryCycles = 50
  LineLength = 64
  NumberOfLines = 16
  L1ILineLength = 64
  L1INumberOfLines = 16
  Applications <- StoreLoadPrograms
  InitMemories <- EightBytes
  InitRegisters <- SmallRegisters
PROPERTIES LoadsSeeStores
