----------------------------- MODULE Mvp3Proofs -----------------------------
(***************************************************************************)
(* MVP-3 implements the sequential processor: for every program, register  *)
(* file and memory, and every size of cache and line, a run in which the   *)
(* program does not disturb the data cache (Calm) is a run of MVP-1, with  *)
(* the same registers, the same memory behind the cache and, at its end,   *)
(* the same memory in Context.                                             *)
(***************************************************************************)
EXTENDS Mvp3, OperatorProofs

-----------------------------------------------------------------------------
(* The instructions of both                                                *)

\* Sequential and this module mean the same instruction set.
LEMMA SameInstructionSet ==
  /\ \A ins, ap, regs, p, bytes : Abstract!Run(ins, ap, regs, p, bytes) = Run(ins, ap, regs, p, bytes)
  /\ \A ins, regs : Abstract!MemoryRead(ins, regs) = MemoryRead(ins, regs)
  /\ \A ins, exe, regs, p : Abstract!DirectWrite(ins, exe, regs, p) = DirectWrite(ins, exe, regs, p)
  /\ \A regs, exe : Abstract!WriteRegister(regs, exe) = WriteRegister(regs, exe)
  /\ \A bytes, changes : Abstract!WriteMemory(bytes, changes) = WriteMemory(bytes, changes)
  /\ \A p : Abstract!IndexOf(p) = IndexOf(p)
<1>1. ASSUME NEW ins, NEW ap, NEW regs, NEW p, NEW bytes
      PROVE  Abstract!Run(ins, ap, regs, p, bytes) = Run(ins, ap, regs, p, bytes)
  BY Zenon
  DEF Run, RegRegOps, RegImmOps, UpperOps, LoadOps, StoreOps, BranchOps, JumpOps,
      NoChange, RegRegRun, AddOf, Wrap, WordBits, AndOf, SumOf, Bit, DivOf, TruncDiv, Abs,
      MulOf, OrOf, RemOf, TruncRem, SllOf, SltOf, SraOf, SubOf, XorOf, Failed,
      RegisterResult, RegImmRun, UpperRun, AuipcOf, LuiOf, LoadRun, I32FromBytes,
      StoreRun, BytesFromLowBits, WrapByte, AccessSize, Addresses, BranchRun, Goto, Taken,
      EqTaken, GeTaken, LtTaken, NeTaken, JumpRun, Abstract!Run, Abstract!RegRegOps,
      Abstract!RegImmOps, Abstract!UpperOps, Abstract!LoadOps, Abstract!StoreOps,
      Abstract!BranchOps, Abstract!JumpOps, Abstract!NoChange, Abstract!RegRegRun,
      Abstract!AddOf, Abstract!Wrap, Abstract!WordBits, Abstract!AndOf, Abstract!SumOf,
      Abstract!Bit, Abstract!DivOf, Abstract!TruncDiv, Abstract!Abs, Abstract!MulOf,
      Abstract!OrOf, Abstract!RemOf, Abstract!TruncRem, Abstract!SllOf, Abstract!SltOf,
      Abstract!SraOf, Abstract!SubOf, Abstract!XorOf, Abstract!Failed,
      Abstract!RegisterResult, Abstract!RegImmRun, Abstract!UpperRun, Abstract!AuipcOf,
      Abstract!LuiOf, Abstract!LoadRun, Abstract!I32FromBytes, Abstract!StoreRun,
      Abstract!BytesFromLowBits, Abstract!WrapByte, Abstract!AccessSize,
      Abstract!Addresses, Abstract!BranchRun, Abstract!Goto, Abstract!Taken,
      Abstract!EqTaken, Abstract!GeTaken, Abstract!LtTaken, Abstract!NeTaken,
      Abstract!JumpRun
<1>2. ASSUME NEW ins, NEW regs
      PROVE  Abstract!MemoryRead(ins, regs) = MemoryRead(ins, regs)
  BY Zenon
  DEF MemoryRead, Wrap, WordBits, LoadOps, AccessSize, Addresses, Abstract!MemoryRead,
      Abstract!Wrap, Abstract!WordBits, Abstract!LoadOps, Abstract!AccessSize,
      Abstract!Addresses
<1>3. ASSUME NEW ins, NEW exe, NEW regs, NEW p
      PROVE  Abstract!DirectWrite(ins, exe, regs, p) = DirectWrite(ins, exe, regs, p)
  BY Zenon
  DEF DirectWrite, Abstract!DirectWrite
<1>4. ASSUME NEW regs, NEW exe
      PROVE  Abstract!WriteRegister(regs, exe) = WriteRegister(regs, exe)
  BY Zenon
  DEF WriteRegister, Abstract!WriteRegister
<1>5. ASSUME NEW bytes, NEW changes
      PROVE  Abstract!WriteMemory(bytes, changes) = WriteMemory(bytes, changes)
  BY Zenon
  DEF WriteMemory, Abstract!WriteMemory
<1>6. ASSUME NEW p
      PROVE  Abstract!IndexOf(p) = IndexOf(p)
  BY Zenon
  DEF IndexOf, TruncDiv, Abs, Abstract!IndexOf, Abstract!TruncDiv, Abstract!Abs
<1> QED
  BY <1>1, <1>2, <1>3, <1>4, <1>5, <1>6, Zenon

\* The same instruction is next.
LEMMA SameFetch ==
  /\ Abstract!PastEnd <=> PastEnd
  /\ Abstract!BadFetch <=> BadFetch
  /\ Abstract!Fetched = Fetched
<1>1. Abstract!IndexOf(pc) = IndexOf(pc)
  BY SameInstructionSet, Zenon
<1> QED
  BY <1>1, Zenon DEF PastEnd, BadFetch, Fetched, Abstract!PastEnd, Abstract!BadFetch, Abstract!Fetched

-----------------------------------------------------------------------------
(* The invariant                                                           *)

Types3 ==
  /\ app \in Applications
  /\ IsRegisterFile(registers) /\ IsMemory(memory) /\ IsCacheOf(l1d, Byte)
  /\ pc \in Word
  /\ status \in {"running", "done", "error", "panic"}

\* Words and bytes, and no address in two lines.
CacheInv == Types3 /\ DisjointLines(l1d)

\* The instruction at a pc that is neither before nor behind the program is one of it, and
\* the next pc is an int32.
LEMMA FetchedIs ==
  ASSUME Types3, ~PastEnd, ~BadFetch
  PROVE  Fetched \in InstructionRunner /\ pc + 4 \in Word /\ LabelsAreWords(app)
<1>1. IsApplication(app) /\ pc \in Int
  BY Mvp3Assumption DEF Types3, Word
<1>2. PICK n \in Nat : n = Len(app.Instructions) /\ 4 * n + 4 \in Word
  BY <1>1 DEF IsApplication
<1>3. PICK i \in Int : i = IndexOf(pc)
  BY <1>1, TruncDivides DEF IndexOf
<1>4. 0 <= i /\ i < n
  BY <1>2, <1>3 DEF PastEnd, BadFetch
<1>5. Fetched \in InstructionRunner /\ LabelsAreWords(app)
  <2>1. i \in 0..Len(app.Instructions) - 1
    BY <1>2, <1>4
  <2> QED
    BY <1>1, <1>3, <2>1, ValuesOfProgram DEF Fetched
<1>6. pc + 4 \in Word
  BY <1>1, <1>2, <1>3, <1>4, PcsOfProgram, Zenon
<1> QED
  BY <1>5, <1>6

\* What the caches and the memory are while the program runs.
LEMMA MemoryShown ==
  ASSUME CacheInv, status = "running"
  PROVE  /\ seqMemory = View(l1d, memory) /\ DOMAIN seqMemory = DOMAIN memory
         /\ seqMemory = [a \in DOMAIN memory |-> seqMemory[a]]
         /\ Shows(l1d, memory, seqMemory)
         /\ l1d \in Seq(LineOf(Byte)) /\ DOMAIN memory \subseteq Int
         /\ memory \in [DOMAIN memory -> Byte] /\ 0 \in Byte
<1>1. seqMemory = View(l1d, memory)
  BY DEF seqMemory
<1>2. l1d \in Seq(LineOf(Byte)) /\ memory \in [DOMAIN memory -> Byte] /\ DOMAIN memory \subseteq Int
  BY DEF CacheInv, Types3, IsCacheOf, IsMemory
<1>3. Shows(l1d, memory, View(l1d, memory))
  BY <1>2, DisjointShow DEF CacheInv
<1>4. 0 \in Byte
  BY ByteRange
<1> QED
  BY <1>1, <1>2, <1>3, <1>4 DEF View

\* A load that does not disturb the cache reads what the memory of the sequential processor
\* has, and what the lines and the memory show stays.
LEMMA LoadIs ==
  ASSUME CacheInv, Calm, status = "running", ~PastEnd, ~BadFetch, ~BadRead
  PROVE  /\ Loaded = [k \in 1..Len(Addrs) |-> seqMemory[Addrs[k]]]
         /\ MemoryAfterRead = memory
         /\ IsCacheOf(LinesAfterRead, Byte) /\ DisjointLines(LinesAfterRead)
         /\ Shows(LinesAfterRead, memory, seqMemory)
<1>1. /\ seqMemory = View(l1d, memory) /\ DOMAIN seqMemory = DOMAIN memory
      /\ Shows(l1d, memory, seqMemory)
      /\ l1d \in Seq(LineOf(Byte)) /\ DOMAIN memory \subseteq Int
      /\ memory \in [DOMAIN memory -> Byte] /\ 0 \in Byte
  BY MemoryShown
<1>2. InMemory(Addrs) /\ DisjointLines(l1d) /\ IsCacheOf(l1d, Byte)
  BY DEF Calm, CalmLoad, CacheInv, Types3
<1>3. /\ IsCacheOf(LinesRead, Byte) /\ DisjointLines(LinesRead)
      /\ Shows(LinesRead, memory, seqMemory) /\ AllIn(LinesRead, Addrs)
      /\ MemoryAfterRead = memory
  <2>1. CASE Hit
    BY <1>1, <1>2, <2>1 DEF Hit, LinesRead, MemoryAfterRead
  <2>2. CASE ~Hit
    <3>1. PICK addr : addr = Addrs[1]
      OBVIOUS
    <3>2. LinesRead = PushedLines(Probe, memory, addr) /\ MemoryAfterRead = PushedMemory(Probe, memory, addr)
      BY <2>2, <3>1 DEF LinesRead, MemoryAfterRead
    <3>3. AllIn(LinesRead, Addrs)
      BY <2>2, <3>1, <3>2 DEF BadRead, NoLine
    <3>4. addr \in Int
      <4>1. Addrs # << >> /\ Len(Addrs) \in Nat /\ DOMAIN Addrs = 1..Len(Addrs)
        BY <2>2 DEF Hit, AllIn, Addrs, MemoryRead, Addresses, AccessSize
      <4>2. 1 \in 1..Len(Addrs)
        BY <2>2, <4>1 DEF Hit, AllIn
      <4> QED
        BY <1>1, <1>2, <3>1, <4>2 DEF InMemory
    <3>5. Rearranged(Probe, l1d) /\ IsCacheOf(Probe, Byte)
      BY <1>1, <1>2, TouchAllRearranges, LookupsKeepLines DEF Probe
    <3>6. DisjointLines(Probe) /\ Shows(Probe, memory, seqMemory)
      BY <1>1, <1>2, <3>5, RearrangedHolds, RearrangedShows, Zenon
    <3>7. /\ \A i \in 1..Len(Probe) : ~Overlap(LinesRead[1], Probe[i])
          /\ Evicts(Probe) => \A a \in DOMAIN memory :
               Holds(Probe[Len(Probe)], a) => Get(Probe[Len(Probe)], a) = memory[a]
      BY <2>2 DEF Calm, CalmLoad, Dirty
    <3>8. DisjointLines(LinesRead) /\ Shows(LinesRead, memory, seqMemory)
      BY <1>1, <3>2, <3>4, <3>5, <3>6, <3>7, PushedShows
    <3>9. IsCacheOf(LinesRead, Byte) /\ MemoryAfterRead = memory
      BY <1>1, <3>2, <3>4, <3>5, PushesKeepValues, PushKeepsMemory
    <3> QED
      BY <3>3, <3>8, <3>9
  <2> QED
    BY <2>1, <2>2
<1>4. LinesRead \in Seq(LineOf(Byte))
  BY <1>3 DEF IsCacheOf
<1>5. Loaded = [k \in 1..Len(Addrs) |-> seqMemory[Addrs[k]]]
  <2>1. \A k \in 1..Len(Addrs) : Addrs[k] \in DOMAIN memory /\ Contains(LinesRead, Addrs[k])
    BY <1>2, <1>3 DEF InMemory, AllIn
  <2>2. ReadValues(LinesRead, Addrs) = [k \in 1..Len(Addrs) |-> seqMemory[Addrs[k]]]
    BY <1>3, <1>4, <2>1, LoadShown
  <2> QED
    BY <2>2 DEF Loaded
<1>6. IsCacheOf(LinesAfterRead, Byte) /\ Rearranged(LinesAfterRead, LinesRead)
  BY <1>3, <1>4, TouchAllRearranges, LookupsKeepLines DEF LinesAfterRead
<1> QED
  BY <1>3, <1>5, <1>6, RearrangedHolds, RearrangedShows, Zenon

\* So both processors execute the same, on words.
LEMMA SameExecution ==
  ASSUME CacheInv, Calm, status = "running", ~PastEnd, ~BadFetch
  PROVE  /\ Abstract!BadRead <=> BadRead
         /\ ~BadRead => /\ Abstract!Execution = Execution /\ WordResult(Execution)
                        /\ Execution.Outcome \in {"ok", "error", "panic"}
<1>1. /\ seqMemory = View(l1d, memory) /\ DOMAIN seqMemory = DOMAIN memory
      /\ seqMemory = [a \in DOMAIN memory |-> seqMemory[a]]
      /\ Shows(l1d, memory, seqMemory) /\ l1d \in Seq(LineOf(Byte))
  BY MemoryShown
<1>2. PICK addrs : addrs = Addrs /\ addrs = MemoryRead(Fetched, registers)
  BY DEF Addrs
<1>3. Abstract!MemoryRead(Abstract!Fetched, registers) = addrs /\ Abstract!Fetched = Fetched
  BY <1>2, SameFetch, SameInstructionSet, Zenon
<1>4. DOMAIN addrs = 1..Len(addrs)
  BY <1>2 DEF MemoryRead, Addresses, AccessSize
<1>5. Abstract!BadRead <=> BadRead
  BY <1>1, <1>2, <1>3, <1>4 DEF Abstract!BadRead, Calm, CalmLoad, InMemory
<1>6. ASSUME ~BadRead
      PROVE  /\ Abstract!Execution = Execution /\ WordResult(Execution)
             /\ Execution.Outcome \in {"ok", "error", "panic"}
  <2>1. PICK bytes : bytes = Loaded /\ bytes = [k \in DOMAIN addrs |-> seqMemory[addrs[k]]]
    BY <1>2, <1>4, <1>6, LoadIs
  <2>2. Abstract!Execution = Abstract!Run(Fetched, app, registers, pc, bytes)
    BY <1>3, <2>1, Zenon DEF Abstract!Execution
  <2>3. Execution = Run(Fetched, app, registers, pc, bytes)
    BY <2>1 DEF Execution
  <2>4. /\ Fetched \in InstructionRunner /\ LabelsAreWords(app)
        /\ registers \in [Register -> Word] /\ pc \in Int
    BY FetchedIs DEF CacheInv, Types3, IsRegisterFile, Word
  <2>5. Fetched.op \in LoadOps => \A k \in 1..AccessSize(Fetched) : bytes[k] \in Byte
    <3>1. Fetched.op \in LoadOps => DOMAIN addrs = 1..AccessSize(Fetched)
      BY <1>2 DEF MemoryRead, Addresses
    <3>2. ASSUME NEW k \in DOMAIN addrs PROVE bytes[k] \in Byte
      <4>1. \A i \in 1..Len(addrs) : addrs[i] \in DOMAIN memory
        BY <1>2, <1>6 DEF Calm, CalmLoad, InMemory
      <4>2. PICK a \in DOMAIN memory : a = addrs[k]
        BY <1>4, <4>1
      <4>3. seqMemory[a] \in Byte
        BY <1>1, ViewIsValue DEF CacheInv, Types3, IsMemory
      <4> QED
        BY <2>1, <4>2, <4>3
    <3> QED
      BY <3>1, <3>2
  <2>6. WordResult(Run(Fetched, app, registers, pc, bytes))
    BY <2>4, <2>5, ResultsAreWords
  <2>7. Run(Fetched, app, registers, pc, bytes).Outcome \in {"ok", "error", "panic"}
    BY <2>4, OutcomesOfRun, Zenon
  <2> QED
    BY <2>2, <2>3, <2>6, <2>7, SameInstructionSet
<1> QED
  BY <1>5, <1>6
-----------------------------------------------------------------------------
(* Every step                                                              *)

\* A faulty fetch, load or execution ends both runs in the same way.
LEMMA FailIsFail ==
  ASSUME CacheInv, Calm, Fail
  PROVE  CacheInv' /\ Abstract!Fail
<1>1. status = "running" /\ ~PastEnd /\ UNCHANGED <<app, registers, memory, l1d, pc>>
  BY DEF Fail
<1>2. \/ BadFetch /\ status' = "panic"
      \/ ~BadFetch /\ BadRead /\ status' = "panic"
      \/ ~BadFetch /\ ~BadRead /\ Execution.Outcome # "ok" /\ status' = Execution.Outcome
  BY DEF Fail
<1>3. status' \in {"error", "panic"}
  BY <1>1, <1>2, SameExecution
<1>4. seqMemory' = seqMemory
  BY <1>1, <1>3 DEF seqMemory, View
<1>5. CacheInv'
  BY <1>1, <1>3 DEF CacheInv, Types3, DisjointLines
<1>6. ~Abstract!PastEnd /\ (Abstract!BadFetch <=> BadFetch)
  BY <1>1, SameFetch
<1>7. ~BadFetch => /\ Abstract!BadRead <=> BadRead
                   /\ ~BadRead => Abstract!Execution = Execution
  BY <1>1, SameExecution
<1> QED
  BY <1>1, <1>2, <1>4, <1>5, <1>6, <1>7, Zenon DEF Abstract!Fail, Abstract!Stop

\* The end of the run leaves in Context the memory that the program saw.
LEMMA EndIsEnd ==
  ASSUME CacheInv, Calm, End
  PROVE  CacheInv' /\ (Abstract!Return \/ Abstract!Finish)
<1>1. /\ status = "running" /\ status' = "done" /\ memory' = Flushed(l1d, memory)
      /\ UNCHANGED <<app, registers, l1d, pc>>
  BY DEF End, Running
<1>2. /\ seqMemory = View(l1d, memory) /\ Shows(l1d, memory, seqMemory)
      /\ seqMemory = [a \in DOMAIN memory |-> seqMemory[a]]
      /\ l1d \in Seq(LineOf(Byte)) /\ DOMAIN memory \subseteq Int
      /\ memory \in [DOMAIN memory -> Byte]
  BY <1>1, MemoryShown
<1>3. memory' = seqMemory
  BY <1>1, <1>2, FlushShown
<1>4. seqMemory' = seqMemory
  BY <1>1, <1>3 DEF seqMemory
<1>5. IsMemory(memory')
  <2>1. Flushed(l1d, memory) \in [DOMAIN memory -> Byte]
    BY <1>2, FlushKeepsValues
  <2> QED
    BY <1>1, <2>1 DEF IsMemory, CacheInv, Types3
<1>6. CacheInv'
  BY <1>1, <1>5 DEF CacheInv, Types3, DisjointLines
<1>7. CASE Running /\ Execution.Return
  <2>1. ~PastEnd /\ ~BadFetch /\ ~BadRead
    BY <1>7 DEF Running
  <2>2. ~Abstract!PastEnd /\ ~Abstract!BadFetch
    BY <2>1, SameFetch
  <2>3. ~Abstract!BadRead /\ Abstract!Execution = Execution
    BY <1>1, <2>1, SameExecution
  <2> QED
    BY <1>1, <1>4, <1>6, <1>7, <2>2, <2>3, Zenon DEF Abstract!Return, Abstract!Stop
<1>8. CASE PastEnd
  <2>1. Abstract!PastEnd
    BY <1>8, SameFetch
  <2> QED
    BY <1>1, <1>4, <1>6, <2>1, Zenon DEF Abstract!Finish, Abstract!Stop
<1> QED
  BY <1>7, <1>8 DEF End

\* The registers after a write-back.
LEMMA RegistersStay ==
  ASSUME IsRegisterFile(registers), pc \in Word, NEW exe, WordResult(exe), NEW ins
  PROVE  LET direct == DirectWrite(ins, exe, registers, pc)
         IN IsRegisterFile(direct) /\ IsRegisterFile(WriteRegister(direct, exe))
<1>1. PICK direct : direct = DirectWrite(ins, exe, registers, pc)
  OBVIOUS
<1>2. direct = registers \/ direct = [registers EXCEPT ![Ra] = pc]
  BY <1>1, Zenon DEF DirectWrite
<1>3. IsRegisterFile(direct)
  BY <1>2, IsaAssumption DEF IsRegisterFile
<1>4. IsRegisterFile(WriteRegister(direct, exe))
  BY <1>3 DEF WriteRegister, WordResult, IsRegisterFile
<1> QED
  BY <1>1, <1>3, <1>4

\* The next pc is an int32.
LEMMA GoesOn ==
  ASSUME CacheInv, Calm, Running, Go
  PROVE  pc' \in Word /\ (Abstract!Execution = Execution => Abstract!Go)
<1>1. pc + 4 \in Word
  BY FetchedIs DEF CacheInv, Running
<1>2. WordResult(Execution)
  BY SameExecution DEF Running
<1>3. pc' = IF Execution.PcChange THEN Execution.NextPc ELSE pc + 4
  BY DEF Go
<1>4. pc' \in Word
  BY <1>1, <1>2, <1>3 DEF WordResult
<1>5. Abstract!Execution = Execution => Abstract!Go
  BY <1>3, Zenon DEF Abstract!Go
<1> QED
  BY <1>4, <1>5

\* An instruction that is not a store.
LEMMA StepIsStep ==
  ASSUME CacheInv, Calm, Step
  PROVE  CacheInv' /\ Abstract!Step
<1>1. /\ Running /\ Execution.Outcome = "ok" /\ ~Execution.Return /\ ~Execution.MemoryChange
      /\ Go /\ l1d' = LinesAfterRead /\ memory' = MemoryAfterRead
      /\ UNCHANGED <<app, status>>
  BY DEF Step
<1>2. status = "running" /\ ~PastEnd /\ ~BadFetch /\ ~BadRead
  BY <1>1 DEF Running
<1>3. PICK exe : exe = Execution /\ exe = Abstract!Execution /\ WordResult(exe)
  BY <1>2, SameExecution
<1>4. /\ MemoryAfterRead = memory
      /\ IsCacheOf(LinesAfterRead, Byte) /\ DisjointLines(LinesAfterRead)
      /\ Shows(LinesAfterRead, memory, seqMemory)
  BY <1>2, LoadIs
<1>5. /\ seqMemory = [a \in DOMAIN memory |-> seqMemory[a]] /\ DOMAIN seqMemory = DOMAIN memory
  BY <1>2, MemoryShown
<1>6. seqMemory' = seqMemory
  <2>1. LinesAfterRead \in Seq(LineOf(Byte))
    BY <1>4 DEF IsCacheOf
  <2>2. View(LinesAfterRead, memory) = seqMemory
    BY <1>4, <1>5, <2>1, ViewShown
  <2>3. seqMemory' = View(LinesAfterRead, memory)
    BY <1>1, <1>2, <1>4 DEF seqMemory
  <2> QED
    BY <2>2, <2>3
<1>7. exe.MemoryChanges = << >>
  <2>1. Fetched \in InstructionRunner
    BY <1>2, FetchedIs DEF CacheInv
  <2>2. exe = Run(Fetched, app, registers, pc, Loaded)
    BY <1>3 DEF Execution
  <2>3. Fetched.op \notin StoreOps \cup {"ret"} => Silent(exe)
    BY <2>1, <2>2, StoresAndReturns, Zenon
  <2>4. Fetched.op \in StoreOps => Stores(exe)
    BY <2>1, <2>2, StoresAndReturns, Zenon
  <2>5. Fetched.op \notin StoreOps \cup {"ret"}
    <3>1. Fetched.op = "ret" => exe = [NoChange EXCEPT !.Return = TRUE]
      BY <2>1, <2>2, RunOfRet
    <3> QED
      BY <1>1, <1>3, <2>4, <3>1 DEF NoChange, Stores
  <2> QED
    BY <2>3, <2>5 DEF Silent
<1>8. PICK direct : direct = DirectWrite(Fetched, exe, registers, pc)
  OBVIOUS
<1>9. registers' = IF exe.RegisterChange THEN WriteRegister(direct, exe) ELSE direct
  BY <1>3, <1>8, Zenon DEF Step
<1>10. pc' \in Word /\ Abstract!Go
  BY <1>1, <1>3, GoesOn
<1>11. CacheInv'
  <2>1. IsRegisterFile(registers')
    BY <1>3, <1>8, <1>9, RegistersStay DEF CacheInv, Types3
  <2> QED
    BY <1>1, <1>4, <1>10, <2>1 DEF CacheInv, Types3
<1>12. Abstract!Step
  <2>1. ~Abstract!PastEnd /\ ~Abstract!BadFetch /\ ~Abstract!BadRead /\ Abstract!Fetched = Fetched
    BY <1>2, SameFetch, SameExecution
  <2>2. PICK ex2 : ex2 = Abstract!Execution /\ ex2 = exe
    BY <1>3
  <2>3. /\ Abstract!DirectWrite(Abstract!Fetched, ex2, registers, pc) = direct
        /\ Abstract!WriteRegister(direct, ex2) = WriteRegister(direct, exe)
    BY <1>8, <2>1, <2>2, SameInstructionSet, Zenon
  <2>4. seqMemory' = Abstract!WriteMemory(seqMemory, ex2.MemoryChanges)
    <3>1. PICK none : none = ex2.MemoryChanges /\ DOMAIN none = {}
      BY <1>7, <2>2
    <3>2. WriteMemory(seqMemory, none) = seqMemory
      BY <1>5, <3>1 DEF WriteMemory
    <3> QED
      BY <1>6, <3>1, <3>2, SameInstructionSet, Zenon
  <2>5. DOMAIN ex2.MemoryChanges \subseteq DOMAIN seqMemory
    BY <1>7, <2>2
  <2>6. registers' = IF ex2.RegisterChange
                     THEN Abstract!WriteRegister(Abstract!DirectWrite(Abstract!Fetched, ex2, registers, pc), ex2)
                     ELSE Abstract!DirectWrite(Abstract!Fetched, ex2, registers, pc)
    BY <1>9, <2>2, <2>3, Zenon
  <2>7. ex2.Outcome = "ok" /\ ~ex2.Return
    BY <1>1, <1>3, <2>2
  <2> QED
    BY <1>1, <1>2, <1>10, <2>1, <2>2, <2>4, <2>5, <2>6, <2>7, Zenon DEF Abstract!Step
<1> QED
  BY <1>11, <1>12
-----------------------------------------------------------------------------
(* Stores                                                                  *)

\* A store changes bytes of the memory, and nothing else.
LEMMA StoreIs ==
  ASSUME CacheInv, Calm, Running, Execution.MemoryChange,
         NEW changes, changes = Execution.MemoryChanges
  PROVE  /\ Abstract!Execution = Execution
         /\ Execution.Outcome = "ok" /\ ~Execution.Return /\ ~Execution.RegisterChange
         /\ DOMAIN changes # {} /\ \A a \in DOMAIN changes : changes[a] \in Byte
         /\ CalmStore(changes)
         /\ DirectWrite(Fetched, Execution, registers, pc) = registers
<1>1. status = "running" /\ ~PastEnd /\ ~BadFetch /\ ~BadRead
  BY DEF Running
<1>2. PICK exe : exe = Execution /\ exe = Abstract!Execution /\ WordResult(exe)
  BY <1>1, SameExecution
<1>3. Fetched \in InstructionRunner /\ exe = Run(Fetched, app, registers, pc, Loaded)
  BY <1>1, <1>2, FetchedIs DEF CacheInv, Execution
<1>4. Fetched.op \in StoreOps
  <2>1. Fetched.op \notin StoreOps \cup {"ret"} => Silent(exe)
    BY <1>3, StoresAndReturns, Zenon
  <2>2. Fetched.op = "ret" => exe = [NoChange EXCEPT !.Return = TRUE]
    BY <1>3, RunOfRet
  <2> QED
    BY <1>2, <2>1, <2>2 DEF Silent, NoChange
<1>5. /\ exe.Outcome = "ok" /\ exe.RegisterChange = FALSE /\ exe.Return = FALSE
      /\ DOMAIN exe.MemoryChanges # {}
  <2>1. Stores(exe)
    BY <1>3, <1>4, StoresAndReturns, Zenon
  <2> QED
    BY <2>1 DEF Stores
<1>6. CalmStore(changes)
  BY <1>1, Zenon DEF Calm
<1>7. DirectWrite(Fetched, exe, registers, pc) = registers
  BY <1>4 DEF DirectWrite, StoreOps
<1> QED
  BY <1>2, <1>5, <1>6, <1>7 DEF WordResult

\* The lookups of a store move lines only.
LEMMA ProbedIs ==
  ASSUME CacheInv, status = "running", NEW changes, NEW lines \in Probed(l1d, changes)
  PROVE  /\ IsCacheOf(lines, Byte) /\ Rearranged(lines, l1d)
         /\ DisjointLines(lines) /\ Shows(lines, memory, seqMemory)
<1>1. PICK s \in Orders(DOMAIN changes) : lines = TouchAll(l1d, s)
  BY DEF Probed
<1>2. IsCacheOf(l1d, Byte) /\ l1d \in Seq(LineOf(Byte)) /\ DisjointLines(l1d)
  BY DEF CacheInv, Types3, IsCacheOf
<1>3. IsCacheOf(lines, Byte) /\ Rearranged(lines, l1d)
  BY <1>1, <1>2, TouchAllRearranges, LookupsKeepLines
<1>4. Shows(l1d, memory, seqMemory)
  BY MemoryShown
<1> QED
  BY <1>2, <1>3, <1>4, RearrangedHolds, RearrangedShows, Zenon

\* A store after which cache and memory show the new bytes is the store of the
\* sequential processor.
LEMMA StoreIsStep ==
  ASSUME CacheInv, Calm, Running, Execution.MemoryChange, Go,
         NEW changes, changes = Execution.MemoryChanges,
         DOMAIN changes \subseteq DOMAIN memory,
         UNCHANGED <<app, registers, status>>,
         NEW m, \A a \in DOMAIN memory :
                  m[a] = (IF a \in DOMAIN changes THEN changes[a] ELSE seqMemory[a]),
         m = [a \in DOMAIN memory |-> m[a]],
         seqMemory' = m
  PROVE  Abstract!Step
<1>1. status = "running" /\ ~PastEnd /\ ~BadFetch /\ ~BadRead
  BY DEF Running
<1>2. PICK exe : exe = Abstract!Execution /\ exe = Execution
  BY StoreIs
<1>3. /\ exe.Outcome = "ok" /\ ~exe.Return /\ ~exe.RegisterChange
      /\ DirectWrite(Fetched, exe, registers, pc) = registers
  BY <1>2, StoreIs
<1>4. Abstract!Go
  BY <1>2, GoesOn
<1>5. ~Abstract!PastEnd /\ ~Abstract!BadFetch /\ ~Abstract!BadRead /\ Abstract!Fetched = Fetched
  BY <1>1, SameFetch, SameExecution
<1>6. DOMAIN seqMemory = DOMAIN memory
  BY <1>1, MemoryShown
<1>7. seqMemory' = Abstract!WriteMemory(seqMemory, exe.MemoryChanges)
  <2>1. m = [a \in DOMAIN memory |-> IF a \in DOMAIN changes THEN changes[a] ELSE seqMemory[a]]
    OBVIOUS
  <2>2. WriteMemory(seqMemory, changes) = m
    BY <1>6, <2>1 DEF WriteMemory
  <2> QED
    BY <1>2, <2>2, SameInstructionSet, Zenon
<1>8. Abstract!DirectWrite(Abstract!Fetched, exe, registers, pc) = registers
  BY <1>3, <1>5, SameInstructionSet, Zenon
<1>9. DOMAIN exe.MemoryChanges \subseteq DOMAIN seqMemory
  BY <1>2, <1>6
<1>10. UNCHANGED <<app, registers, status>>
  OBVIOUS
<1> QED
  BY <1>1, <1>2, <1>3, <1>4, <1>5, <1>7, <1>8, <1>9, <1>10, Zenon DEF Abstract!Step

\* A store into the cache: it is in one line, so that Write does not panic.
LEMMA StoreHitIsStep ==
  ASSUME CacheInv, Calm, StoreHit
  PROVE  CacheInv' /\ Abstract!Step
<1>1. PICK changes : changes = Execution.MemoryChanges
  OBVIOUS
<1>2. /\ Running /\ Execution.MemoryChange /\ AllChangesIn(l1d, changes) /\ Go
      /\ UNCHANGED <<app, registers, memory>>
  BY <1>1 DEF StoreHit
<1>3. PICK lines \in Probed(l1d, changes) :
        IF CrossesLine(lines, changes)
        THEN status' = "panic" /\ UNCHANGED l1d
        ELSE l1d' = Write(lines, changes) /\ UNCHANGED status
  BY <1>1 DEF StoreHit
<1>4. status = "running"
  BY <1>2 DEF Running
<1>5. /\ IsCacheOf(lines, Byte) /\ Rearranged(lines, l1d)
      /\ DisjointLines(lines) /\ Shows(lines, memory, seqMemory)
  BY <1>4, ProbedIs
<1>6. lines \in Seq(LineOf(Byte)) /\ DOMAIN memory \subseteq Nat
  BY <1>5 DEF IsCacheOf, CacheInv, Types3, IsMemory
<1>7. /\ DOMAIN changes # {} /\ \A a \in DOMAIN changes : changes[a] \in Byte
      /\ CalmStore(changes)
  BY <1>1, <1>2, StoreIs
<1>8. PICK i \in 1..Len(l1d) :
        DOMAIN changes \subseteq DOMAIN memory /\ \A a \in DOMAIN changes : Holds(l1d[i], a)
  BY <1>2, <1>7 DEF CalmStore, AllChangesIn
<1>9. PICK j \in 1..Len(lines) : lines[j] = l1d[i]
  <2>1. PICK old : old = l1d /\ Rearranged(lines, old)
    BY <1>5
  <2>2. \A k \in 1..Len(old) : \E j \in 1..Len(lines) : lines[j] = old[k]
    BY <2>1, RearrangedHolds
  <2> QED
    BY <2>1, <2>2
<1>10. PICK addr : addr = Lowest(changes) /\ addr \in DOMAIN changes
  <2>1. \E a \in DOMAIN changes : \A b \in DOMAIN changes : a <= b
    <3>1. PICK T : T = DOMAIN changes
      OBVIOUS
    <3>2. T \subseteq Nat /\ T # {}
      BY <1>6, <1>7, <1>8, <3>1
    <3> QED
      BY <3>1, <3>2, Smallest
  <2> QED
    BY <2>1 DEF Lowest
<1>11. Contains(lines, addr)
  BY <1>8, <1>9, <1>10 DEF Contains
<1>12. FirstWith(lines, addr) = j
  <2>1. PICK k : k = FirstWith(lines, addr) /\ k \in 1..Len(lines) /\ Holds(lines[k], addr)
    BY <1>6, <1>11, FirstWithFinds, Zenon
  <2>2. Holds(lines[j], addr) /\ addr \in Int
    BY <1>6, <1>8, <1>9, <1>10
  <2>3. k = j
    BY <1>5, <1>6, <2>1, <2>2, HeldOnce, Zenon
  <2> QED
    BY <2>1, <2>3
<1>13. ~CrossesLine(lines, changes)
  BY <1>8, <1>9, <1>10, <1>12, Zenon DEF CrossesLine
<1>14. l1d' = Write(lines, changes) /\ status' = status
  BY <1>3, <1>13
<1>15. PICK m : m = [a \in DOMAIN memory |-> IF a \in DOMAIN changes THEN changes[a] ELSE seqMemory[a]]
  OBVIOUS
<1>16. DisjointLines(l1d') /\ Shows(l1d', memory, m)
  <2>1. DOMAIN memory \subseteq Int
    BY <1>6
  <2> QED
    BY <1>5, <1>6, <1>7, <1>8, <1>10, <1>11, <1>13, <1>14, <1>15, <2>1, WriteShows, Zenon
<1>17. IsCacheOf(l1d', Byte)
  BY <1>5, <1>7, <1>14, WriteKeepsLines, Zenon
<1>18. pc' \in Word
  BY <1>2, GoesOn
<1>19. CacheInv'
  BY <1>2, <1>4, <1>14, <1>16, <1>17, <1>18 DEF CacheInv, Types3
<1>20. seqMemory' = m
  <2>1. PICK new : new = l1d' /\ new \in Seq(LineOf(Byte))
    BY <1>17 DEF IsCacheOf
  <2>2. m = [a \in DOMAIN memory |-> m[a]]
    BY <1>15
  <2>3. View(new, memory) = m
    BY <1>16, <2>1, <2>2, ViewShown
  <2> QED
    BY <1>2, <1>4, <1>14, <2>1, <2>3 DEF seqMemory
<1> QED
  BY <1>1, <1>2, <1>8, <1>14, <1>15, <1>19, <1>20, StoreIsStep

\* A store into the memory: no part of it is in the cache.  Outside the memory both
\* processors panic.
LEMMA StoreMissIsStep ==
  ASSUME CacheInv, Calm, StoreMiss
  PROVE  CacheInv' /\ (Abstract!Step \/ Abstract!Fail)
<1>1. PICK changes : changes = Execution.MemoryChanges
  OBVIOUS
<1>2. /\ Running /\ Execution.MemoryChange /\ ~AllChangesIn(l1d, changes) /\ Go
      /\ l1d' \in Probed(l1d, changes)
      /\ UNCHANGED <<app, registers>>
  BY <1>1 DEF StoreMiss
<1>3. IF DOMAIN changes \subseteq DOMAIN memory
      THEN memory' = WriteMemory(memory, changes) /\ UNCHANGED status
      ELSE status' = "panic" /\ UNCHANGED memory
  BY <1>1 DEF StoreMiss
<1>4. status = "running" /\ ~PastEnd /\ ~BadFetch /\ ~BadRead
  BY <1>2 DEF Running
<1>5. PICK lines : lines = l1d' /\ lines \in Probed(l1d, changes)
  BY <1>2
<1>6. /\ IsCacheOf(lines, Byte) /\ Rearranged(lines, l1d)
      /\ DisjointLines(lines) /\ Shows(lines, memory, seqMemory)
  BY <1>4, <1>5, ProbedIs
<1>7. lines \in Seq(LineOf(Byte))
  BY <1>6 DEF IsCacheOf
<1>8. /\ \A a \in DOMAIN changes : changes[a] \in Byte
      /\ CalmStore(changes)
  BY <1>1, <1>2, StoreIs
<1>9. \A a \in DOMAIN changes : ~Contains(lines, a)
  <2>1. \A a \in DOMAIN changes : ~Contains(l1d, a)
    BY <1>2, <1>8 DEF CalmStore, AllChangesIn, Contains
  <2> QED
    BY <1>6, <2>1, RearrangedHolds, Zenon
<1>10. pc' \in Word
  BY <1>2, GoesOn
<1>11. seqMemory = [a \in DOMAIN memory |-> seqMemory[a]] /\ DOMAIN seqMemory = DOMAIN memory
  BY <1>4, MemoryShown
<1>12. CASE DOMAIN changes \subseteq DOMAIN memory
  <2>1. PICK ram : ram = memory' /\ ram = WriteMemory(memory, changes) /\ status' = status
    BY <1>3, <1>12
  <2>2. /\ DOMAIN ram = DOMAIN memory
        /\ \A a \in DOMAIN memory :
             ram[a] = (IF a \in DOMAIN changes THEN changes[a] ELSE memory[a])
    BY <2>1 DEF WriteMemory
  <2>3. IsMemory(ram)
    BY <1>8, <2>1 DEF WriteMemory, IsMemory, CacheInv, Types3
  <2>4. CacheInv'
    BY <1>2, <1>4, <1>5, <1>6, <1>10, <2>1, <2>3 DEF CacheInv, Types3
  <2>5. PICK m : m = [a \in DOMAIN memory |-> IF a \in DOMAIN changes THEN changes[a] ELSE seqMemory[a]]
    OBVIOUS
  <2>6. \A a \in DOMAIN memory : m[a] = (IF a \in DOMAIN changes THEN changes[a] ELSE seqMemory[a])
    BY <2>5
  <2>7. Shows(lines, ram, m)
    BY <1>6, <1>9, <2>2, <2>6, StoreShows, Zenon
  <2>8. View(lines, ram) = m
    <3>1. m = [a \in DOMAIN ram |-> m[a]]
      BY <2>2, <2>5
    <3> QED
      BY <1>7, <2>7, <3>1, ViewShown
  <2>9. seqMemory' = m
    BY <1>4, <1>5, <2>1, <2>8 DEF seqMemory
  <2>10. Abstract!Step
    BY <1>1, <1>2, <1>12, <2>1, <2>5, <2>9, StoreIsStep
  <2> QED
    BY <2>4, <2>10
<1>13. CASE ~(DOMAIN changes \subseteq DOMAIN memory)
  <2>1. status' = "panic" /\ memory' = memory
    BY <1>3, <1>13
  <2>2. CacheInv'
    BY <1>2, <1>5, <1>6, <1>10, <2>1 DEF CacheInv, Types3
  <2>3. seqMemory' = seqMemory
    <3>1. View(lines, memory) = seqMemory
      BY <1>6, <1>7, <1>11, ViewShown
    <3> QED
      BY <1>5, <2>1, <3>1 DEF seqMemory
  <2>4. PICK exe : exe = Abstract!Execution /\ exe = Execution
    BY <1>1, <1>2, StoreIs
  <2>5. Abstract!Go
    BY <1>2, <2>4, GoesOn
  <2>6. ~Abstract!PastEnd /\ ~Abstract!BadFetch /\ ~Abstract!BadRead
    BY <1>4, SameFetch, SameExecution
  <2>7. ~(DOMAIN exe.MemoryChanges \subseteq DOMAIN seqMemory)
    BY <1>1, <1>11, <1>13, <2>4
  <2> QED
    BY <1>2, <1>4, <2>1, <2>2, <2>3, <2>4, <2>5, <2>6, <2>7, Zenon DEF Abstract!Fail
<1> QED
  BY <1>12, <1>13

-----------------------------------------------------------------------------
(* The refinement                                                          *)

LEMMA StartsAsSequential ==
  ASSUME Init
  PROVE  CacheInv /\ Abstract!Init
<1>1. /\ app \in Applications /\ registers \in InitRegisters /\ memory \in InitMemories
      /\ l1d = << >> /\ pc = 0 /\ status = "running"
  BY DEF Init
<1>2. IsRegisterFile(registers) /\ IsMemory(memory)
  BY <1>1, Mvp3Assumption
<1>3. IsCacheOf(l1d, Byte) /\ DisjointLines(l1d)
  BY <1>1, LRUCacheAssumption DEF IsCacheOf, DisjointLines
<1>4. CacheInv
  BY <1>1, <1>2, <1>3, SmallWords DEF CacheInv, Types3
<1>5. seqMemory = memory
  BY <1>1, <1>2 DEF seqMemory, View, Contains, IsMemory
<1>6. Abstract!Init
  BY <1>1, <1>5, Zenon DEF Abstract!Init
<1> QED
  BY <1>4, <1>6

\* Every step of MVP-3 keeps the invariant and is one of the sequential processor, or
\* changes nothing.
LEMMA StepsAsSequential ==
  ASSUME CacheInv, Calm, [Next]_vars
  PROVE  CacheInv' /\ [Abstract!Next]_(Abstract!vars)
<1>1. CASE Fail
  BY <1>1, FailIsFail, Zenon DEF Abstract!Next
<1>2. CASE End
  BY <1>2, EndIsEnd, Zenon DEF Abstract!Next
<1>3. CASE Step
  BY <1>3, StepIsStep, Zenon DEF Abstract!Next
<1>4. CASE StoreHit
  BY <1>4, StoreHitIsStep, Zenon DEF Abstract!Next
<1>5. CASE StoreMiss
  BY <1>5, StoreMissIsStep, Zenon DEF Abstract!Next
<1>6. CASE UNCHANGED vars
  <2>1. UNCHANGED <<app, registers, memory, l1d, pc, status>>
    BY <1>6 DEF vars
  <2>2. CacheInv'
    BY <2>1 DEF CacheInv, Types3, DisjointLines
  <2>3. seqMemory' = seqMemory
    BY <2>1 DEF seqMemory
  <2>4. UNCHANGED Abstract!vars
    BY <2>1, <2>3 DEF Abstract!vars
  <2> QED
    BY <2>2, <2>4
<1> QED
  BY <1>1, <1>2, <1>3, <1>4, <1>5, <1>6, Zenon DEF Next, Ended

\* A run of MVP-3 that never disturbs the cache (Calm) is a run of the sequential
\* processor: the same registers and pcs step by step, the same memory behind the cache,
\* the same end, and after the final flush that memory in Context (mvp3/cpu.go).
THEOREM Mvp3Refines == Spec /\ []Calm => RefinesSequential
<1>1. Init => CacheInv /\ Abstract!Init
  BY StartsAsSequential
<1>2. CacheInv /\ Calm /\ [Next]_vars => CacheInv' /\ [Abstract!Next]_(Abstract!vars)
  BY StepsAsSequential
<1> QED
  BY <1>1, <1>2, PTL DEF Spec, RefinesSequential
=============================================================================
