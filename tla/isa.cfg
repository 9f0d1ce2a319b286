SPECIFICATION SpecInstructions
CONSTANTS
  t0 = t0
  t1 = t1
  Register = {zero, ra, t0, t1}
  Zero = zero
  Ra = ra
  ByteBits = 2
  UpperShift = 3
  LoadCycles = 2
  Rd = ra
  Rs1 = t0
  Rs2 = t1
  Cases <- AllCases
  Values <- ValuesOf
  InitMemories <- EightBytes
  InitRegisters <- SmallRegisters
  RaRestarts = TRUE
  Applications <- SequentialPrograms
INVARIANTS WritesDeclared BitByBit DivRemIdentity StoreThenLoad TypeOK
PROPERTIES UndeclaredRegistersNotRead
