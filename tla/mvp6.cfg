SPECIFICATION FairSpec
CONSTANTS
  t0 = t0
  t1 = t1
  Register = {zero, ra, t0, t1}
  Zero = zero
  Ra = ra
  ByteBits = 4
  UpperShift = 3
  LoadCycles = 3
  MemoryCycles = 2
  LineLength = 4
  NumberOfLines = 2
  L1ILineLength = 8
  L1INumberOfLines = 5
  BtbSize = 2
  Applications <- Mvp6Programs
  InitMemories <- EightBytes
  InitRegisters <- SmallRegisters
  Versions = {"6.0", "6.1"}
INVARIANTS TypeOK6 ScoreboardExact6 NoHazardInFlight ForwardingServes DecodeWaitsForJump6 IssueOrder
PROPERTIES RefinesSequential6 Progress6
