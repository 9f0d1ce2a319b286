--------------------------- MODULE PipelineProofs ---------------------------
(***************************************************************************)
(* Proofs about the two in-order pipelines, MVP-4 and MVP-5, for every     *)
(* program, memory, register file, buffer and size of the caches.          *)
(*                                                                         *)
(* MVP-4: the scoreboard is exact, a load keeps its operands and its place *)
(* on the write bus while it waits, the fetched instructions reach the     *)
(* execute unit in order, and the buses are queues.  All of it follows     *)
(* from the inductive invariant IInv.  The order of the proofs is that of  *)
(* the module Mvp4: what an instruction declares, then one lemma per unit; *)
(* then the queues, the operands, and the types: every unit works with     *)
(* int32 words and int8 bytes (ValueInv).                                  *)
(*                                                                         *)
(* MVP-5: the decode unit is stopped exactly while a jump is in front of   *)
(* it, and the branch target buffer holds what jumps have left there.      *)
(***************************************************************************)
EXTENDS Mvp5, OperatorProofs, SequenceTheorems, TLAPS

-----------------------------------------------------------------------------
(* MVP-4                                                                   *)

\* An instruction that declares a register to write asks for a register
\* change, unless it fails: the write unit will find it and count it down
\* (opcodes.go: WriteRegisters and Run of every opcode).
LEMMA DeclaredWriteHappens ==
  ASSUME NEW ins, NEW application, NEW regs, NEW pc, NEW bytes,
         WriteRegisters(ins) # {},
         Run(ins, application, regs, pc, bytes).Outcome = "ok"
  PROVE  Run(ins, application, regs, pc, bytes).RegisterChange
<1> DEFINE exe == Run(ins, application, regs, pc, bytes)
<1>0. ins.op \in RegRegOps \cup RegImmOps \cup UpperOps \cup {"lb", "lw", "jal", "jalr"}
  BY DEF WriteRegisters
<1>1. \A rd, value : RegisterResult(rd, value).RegisterChange
  BY DEF RegisterResult, NoChange
<1>2. \A outcome : Failed(outcome).Outcome = outcome
  BY DEF Failed, NoChange
<1>3. CASE ins.op \in RegRegOps
  <2> DEFINE a == regs[ins.rs1]
             b == regs[ins.rs2]
  <2>1. exe = RegRegRun(ins, a, b)
    BY <1>3 DEF Run, RegRegOps, RegImmOps, UpperOps, LoadOps, StoreOps, BranchOps, JumpOps
  <2>2. \/ exe = Failed("error") \/ exe = Failed("panic")
        \/ \E value : exe = RegisterResult(ins.rd, value)
    BY <2>1 DEF RegRegRun
  <2> QED BY <2>2, <1>1, <1>2
<1>4. CASE ins.op \in RegImmOps
  <2>1. exe = RegImmRun(ins, regs[ins.rs1], ins.imm)
    BY <1>4 DEF Run, RegRegOps, RegImmOps, UpperOps, LoadOps, StoreOps, BranchOps, JumpOps
  <2>2. exe = Failed("panic") \/ \E value : exe = RegisterResult(ins.rd, value)
    BY <2>1 DEF RegImmRun
  <2> QED BY <2>2, <1>1, <1>2
<1>5. CASE ins.op \in UpperOps
  <2>1. exe = UpperRun(ins, pc)
    BY <1>5 DEF Run, RegRegOps, RegImmOps, UpperOps, LoadOps, StoreOps, BranchOps, JumpOps
  <2> QED BY <2>1, <1>1 DEF UpperRun
<1>6. CASE ins.op \in LoadOps
  <2>1. exe = LoadRun(ins, bytes)
    BY <1>6 DEF Run, RegRegOps, RegImmOps, UpperOps, LoadOps, StoreOps, BranchOps, JumpOps
  <2> QED BY <2>1, <1>1 DEF LoadRun
<1>7. CASE ins.op \in {"jal", "jalr"}
  <2>1. exe = JumpRun(ins, application, regs[ins.rs1], pc)
    BY <1>7 DEF Run, RegRegOps, RegImmOps, UpperOps, LoadOps, StoreOps, BranchOps, JumpOps
  <2> QED BY <2>1, <1>7 DEF JumpRun, RegisterResult, NoChange
<1> QED BY <1>0, <1>3, <1>4, <1>5, <1>6, <1>7 DEF LoadOps

-----------------------------------------------------------------------------
(* The buses (bus.go)                                                      *)

\* Add fills the pending place of a bus and Get moves it up.
LEMMA BusSteps ==
  ASSUME NEW bus, IsBus(bus), NEW t
  PROVE  /\ IsBus(Add(bus, t)) /\ IsBus(AfterGet(bus))
         /\ Add(bus, t).pending = <<t>> /\ Add(bus, t).current = bus.current
         /\ AfterGet(bus).pending = << >> /\ AfterGet(bus).current = bus.pending
BY DEF IsBus, IsEntry, Add, AfterGet

\* SimpleBus.Flush.
LEMMA EmptyBusIsBus == IsBus(EmptyBus) /\ EmptyBus.pending = << >> /\ EmptyBus.current = << >>
BY DEF IsBus, IsEntry, EmptyBus

\* An entry counts for one write or none.
LEMMA WritesIsNat == \A entry, r : Writes(entry, r) \in 0..1 /\ Writes(<< >>, r) = 0
BY DEF Writes

\* Taking the oldest element of a bus of consecutive pcs leaves consecutive
\* pcs, beginning one instruction later; an empty place changes nothing.
LEMMA TakeKeepsOrder ==
  ASSUME NEW bus, IsBus(bus), NEW next, LinkedBus(bus, next)
  PROVE  /\ LinkedBus(AfterGet(bus), next)
         /\ bus.current = << >> => Oldest(AfterGet(bus), next) = Oldest(bus, next)
         /\ bus.current # << >> => /\ Oldest(bus, next) = bus.current[1]
                                  /\ Oldest(AfterGet(bus), next) = bus.current[1] + 4
BY BusSteps DEF LinkedBus, Linked, Oldest, Pending, First

\* Adding the next pc to a bus with room leaves consecutive pcs, beginning
\* with the same one.
LEMMA AddKeepsOrder ==
  ASSUME NEW bus, IsBus(bus), CanAdd(bus), NEW next, LinkedBus(bus, next)
  PROVE  /\ LinkedBus(Add(bus, next), next + 4)
         /\ Oldest(Add(bus, next), next + 4) = Oldest(bus, next)
<1>1. /\ Add(bus, next).pending = <<next>> /\ Add(bus, next).current = bus.current
      /\ bus.pending = << >>
  BY BusSteps DEF CanAdd
<1> QED BY <1>1 DEF LinkedBus, Linked, Oldest, Pending, First

-----------------------------------------------------------------------------
(* The units before the execute unit                                       *)

\* The fetch unit (fu.go) puts its pc on the bus and moves to the next one.
LEMMA FetchKeeps == ASSUME IInv, Fetch PROVE IInv'
<1> USE DEF IInv
<1>1. /\ UNCHANGED <<pendingWrites, executeBus, eu, writeBus, signal, status>>
      /\ phase = "fetch" /\ phase' = "decode" /\ app' = app
  BY DEF Fetch, At, GoTo, contextVars, backVars
<1>2. /\ DOMAIN fu' = DOMAIN fu /\ IsBus(decodeBus')
      /\ \/ UNCHANGED <<decodeBus, fu>>
         \/ decodeBus' = decodeBus /\ fu'.pc = fu.pc
         \/ CanAdd(decodeBus) /\ decodeBus' = Add(decodeBus, fu.pc) /\ fu'.pc = fu.pc + 4
  <2>1. DOMAIN fu = {"pc", "remaining", "complete", "processing"} /\ IsBus(decodeBus)
    BY DEF ControlTypeOK
  <2>2. DOMAIN FetchStarted = DOMAIN fu /\ FetchStarted.pc = fu.pc
    BY <2>1 DEF FetchStarted
  <2>3. CASE FetchIdle
    BY <2>1, <2>3 DEF FetchIdle, frontVars
  <2>4. CASE FetchCounts
    BY <2>1, <2>2, <2>4 DEF FetchCounts
  <2>5. CASE FetchBlocked
    BY <2>1, <2>2, <2>5 DEF FetchBlocked
  <2>6. CASE FetchPushes
    BY <2>1, <2>6, BusSteps DEF FetchPushes
  <2> QED BY <2>3, <2>4, <2>5, <2>6 DEF Fetch
<1>3. ControlTypeOK'
  BY <1>1, <1>2 DEF ControlTypeOK, Phases
<1>4. InOrder'
  <2> SUFFICES ASSUME status # "panic"
               PROVE  LinkedBus(decodeBus, fu.pc)' /\ ToDecode' = ToDecode
    BY <1>1 DEF InOrder, ToExecute, LinkedBus, Oldest, Pending
  <2>1. LinkedBus(decodeBus, fu.pc)
    BY DEF InOrder
  <2>2. CASE decodeBus' = decodeBus /\ fu'.pc = fu.pc
    BY <2>1, <2>2 DEF ToDecode
  <2>3. CASE CanAdd(decodeBus) /\ decodeBus' = Add(decodeBus, fu.pc) /\ fu'.pc = fu.pc + 4
    BY <2>1, <2>3, AddKeepsOrder DEF ToDecode, ControlTypeOK
  <2> QED BY <1>2, <2>2, <2>3
<1>5. (DeclaredWriters /\ ScoreboardExact /\ OperandsFinal /\ ResultHasRoom)'
  BY <1>1 DEF DeclaredWriters, ScoreboardExact, OperandsFinal, ResultHasRoom, InstructionAt
<1>6. IdleDuringFlush'
  BY <1>1 DEF IdleDuringFlush
<1> QED BY <1>3, <1>4, <1>5, <1>6

\* The decode unit (du.go) passes the oldest pc on, or panics.
LEMMA DecodeKeeps == ASSUME IInv, Decode PROVE IInv'
<1> USE DEF IInv
<1>1. /\ UNCHANGED <<pendingWrites, fu, eu, writeBus, signal, app>>
      /\ phase = "decode"
  BY DEF Decode, At, contextVars, backVars
<1>2. /\ IsBus(decodeBus) /\ IsBus(executeBus)
  BY DEF ControlTypeOK
<1>3. \/ UNCHANGED <<decodeBus, executeBus>> /\ GoTo("execute")
      \/ /\ decodeBus.current = << >> /\ decodeBus' = AfterGet(decodeBus)
         /\ UNCHANGED executeBus /\ GoTo("execute")
      \/ /\ CanAdd(executeBus) /\ decodeBus.current # << >>
         /\ decodeBus' = AfterGet(decodeBus)
         /\ executeBus' = Add(executeBus, decodeBus.current[1]) /\ GoTo("execute")
      \/ /\ decodeBus' = AfterGet(decodeBus)
         /\ status' = "panic" /\ UNCHANGED <<executeBus, phase>>
  BY DEF Decode, DecodeBlocked, DecodeNothing, DecodeOne
<1>4. ControlTypeOK' /\ IdleDuringFlush'
  <2>1. IsBus(decodeBus') /\ IsBus(executeBus')
    BY <1>2, <1>3, BusSteps
  <2>2. status' \in {status, "panic"} /\ phase' \in {"decode", "execute"}
    BY <1>1, <1>3 DEF GoTo
  <2> QED BY <1>1, <2>1, <2>2 DEF ControlTypeOK, IdleDuringFlush, Phases
<1>5. InOrder'
  <2> SUFFICES ASSUME status' # "panic", status # "panic"
               PROVE  InOrder'
    BY <1>3 DEF InOrder, GoTo
  <2>1. LinkedBus(decodeBus, fu.pc) /\ LinkedBus(executeBus, ToDecode)
    BY DEF InOrder
  <2> SUFFICES /\ LinkedBus(decodeBus', fu.pc)
               /\ LinkedBus(executeBus', Oldest(decodeBus', fu.pc))
               /\ Oldest(executeBus', Oldest(decodeBus', fu.pc)) = ToExecute
    BY <1>1 DEF InOrder, ToExecute, ToDecode
  <2>2. CASE UNCHANGED <<decodeBus, executeBus>>
    BY <2>1, <2>2 DEF ToDecode, ToExecute
  <2>3. CASE /\ decodeBus.current = << >> /\ decodeBus' = AfterGet(decodeBus)
             /\ UNCHANGED executeBus
    BY <1>2, <2>1, <2>3, TakeKeepsOrder DEF ToDecode, ToExecute
  <2>4. CASE /\ CanAdd(executeBus) /\ decodeBus.current # << >>
             /\ decodeBus' = AfterGet(decodeBus)
             /\ executeBus' = Add(executeBus, decodeBus.current[1])
    <3> DEFINE pc == decodeBus.current[1]
    <3>1. /\ LinkedBus(decodeBus', fu.pc) /\ ToDecode = pc
          /\ Oldest(decodeBus', fu.pc) = pc + 4
      BY <1>2, <2>1, <2>4, TakeKeepsOrder DEF ToDecode
    <3>2. /\ LinkedBus(executeBus', pc + 4)
          /\ Oldest(executeBus', pc + 4) = Oldest(executeBus, pc)
      BY <1>2, <2>1, <2>4, <3>1, AddKeepsOrder
    <3> QED BY <3>1, <3>2 DEF ToExecute
  <2> QED BY <1>3, <2>2, <2>3, <2>4
<1>6. (DeclaredWriters /\ ScoreboardExact /\ OperandsFinal /\ ResultHasRoom)'
  BY <1>1 DEF DeclaredWriters, ScoreboardExact, OperandsFinal, ResultHasRoom, InstructionAt
<1> QED BY <1>4, <1>5, <1>6

-----------------------------------------------------------------------------
(* The write unit and the end of the cycle                                 *)

\* The write unit (wu.go) takes an entry off its bus together with its counts.
LEMMA WriteUnitKeeps ==
  ASSUME IInv, WriteUnitCycle,
         UNCHANGED <<app, fu, decodeBus, executeBus, eu, signal>>,
         phase' \in Phases, phase' = "drain" => signal.flush,
         phase' \notin {"fetch", "decode", "execute"}, status = "running"
  PROVE  IInv'
<1> USE DEF IInv
<1>1. /\ IsBus(writeBus) /\ pendingWrites \in [Register -> Nat]
  BY DEF ControlTypeOK
<1>2. status' \in {"running", "panic"}
  BY DEF WriteUnitCycle, WriteWaits, WriteNothing, WriteRegisterBack, WriteMemoryBack, WriteNoChange
<1>3. \/ UNCHANGED <<writeBus, pendingWrites>>
      \/ /\ writeBus' = AfterGet(writeBus) /\ UNCHANGED pendingWrites
         /\ writeBus.current = << >> \/ writeBus.current[1].writes = {}
      \/ /\ writeBus' = AfterGet(writeBus) /\ writeBus.current # << >>
         /\ pendingWrites' = [r \in Register |->
              IF r \in writeBus.current[1].writes \ {Zero} THEN pendingWrites[r] - 1
              ELSE pendingWrites[r]]
  <2>1. CASE WriteWaits
    BY <2>1 DEF WriteWaits, contextVars
  <2>2. CASE WriteNothing
    BY <2>2 DEF WriteNothing, contextVars
  <2>3. CASE WriteRegisterBack
    BY <2>3 DEF WriteRegisterBack, CountedDown
  <2>4. CASE WriteMemoryBack
    BY <2>4 DEF WriteMemoryBack, DeclaredWriters
  <2>5. CASE WriteNoChange
    BY <2>5 DEF WriteNoChange, contextVars, DeclaredWriters
  <2> QED BY <2>1, <2>2, <2>3, <2>4, <2>5 DEF WriteUnitCycle
<1>4. /\ IsBus(writeBus')
      /\ writeBus' = writeBus \/ (/\ writeBus'.current = writeBus.pending
                                 /\ writeBus'.pending = << >>)
  BY <1>1, <1>3, BusSteps
<1>5. pendingWrites' \in [Register -> Nat] /\ ScoreboardExact'
  <2>1. CASE UNCHANGED <<writeBus, pendingWrites>>
    BY <1>1, <2>1 DEF ScoreboardExact
  <2>2. CASE /\ writeBus' = AfterGet(writeBus) /\ UNCHANGED pendingWrites
             /\ writeBus.current = << >> \/ writeBus.current[1].writes = {}
    <3>1. \A r : Writes(writeBus.current, r) = 0
      BY <2>2 DEF Writes
    <3>2. writeBus'.current = writeBus.pending /\ writeBus'.pending = << >>
      BY <1>1, <2>2, BusSteps
    <3> QED BY <1>1, <2>2, <3>1, <3>2, WritesIsNat DEF ScoreboardExact
  <2>3. CASE /\ writeBus' = AfterGet(writeBus) /\ writeBus.current # << >>
             /\ pendingWrites' = [r \in Register |->
                  IF r \in writeBus.current[1].writes \ {Zero} THEN pendingWrites[r] - 1
                  ELSE pendingWrites[r]]
    <3>1. writeBus'.current = writeBus.pending /\ writeBus'.pending = << >>
      BY <1>1, <2>3, BusSteps
    <3>2. ASSUME NEW r \in Register \ {Zero}
          PROVE  /\ pendingWrites'[r] = pendingWrites[r] - Writes(writeBus.current, r)
                 /\ pendingWrites[r] = Writes(writeBus.current, r) + Writes(writeBus.pending, r)
      BY <1>1, <2>3 DEF Writes, ScoreboardExact
    <3>3. ScoreboardExact'
      BY <1>1, <3>1, <3>2, WritesIsNat DEF ScoreboardExact
    <3>4. ASSUME NEW r \in Register PROVE pendingWrites'[r] \in Nat
      <4>1. CASE r = Zero BY <1>1, <2>3, <4>1
      <4>2. CASE r # Zero BY <3>2, <4>2, WritesIsNat
      <4> QED BY <4>1, <4>2
    <3> QED BY <2>3, <3>3, <3>4
  <2> QED BY <1>3, <2>1, <2>2, <2>3
<1>6. ControlTypeOK'
  BY <1>2, <1>4, <1>5 DEF ControlTypeOK
<1>7. (DeclaredWriters /\ OperandsFinal /\ ResultHasRoom)'
  BY <1>4, WritesIsNat DEF DeclaredWriters, OperandsFinal, ResultHasRoom, CanAdd, InstructionAt
<1>8. IdleDuringFlush' /\ InOrder'
  BY DEF IdleDuringFlush, InOrder, ToExecute, ToDecode, LinkedBus, Oldest, Pending
<1> QED BY <1>5, <1>6, <1>7, <1>8

\* One turn of the write unit in a cycle, and one before a flush (cpu.go).
LEMMA WriteBackKeeps == ASSUME IInv, WriteBack PROVE IInv'
BY WriteUnitKeeps DEF WriteBack, At, Phases, frontVars

LEMMA DrainKeeps == ASSUME IInv, Drain PROVE IInv'
BY WriteUnitKeeps DEF Drain, At, Phases, frontVars, IInv, IdleDuringFlush

\* The end of a cycle decides how the loop goes on.
LEMMA EndOfCycleKeeps == ASSUME IInv, EndOfCycle PROVE IInv'
<1>1. /\ UNCHANGED <<app, pendingWrites, fu, decodeBus, executeBus, eu, writeBus, signal>>
      /\ status = "running" /\ phase = "end"
      /\ \/ status' = "done" /\ phase' = "end"
         \/ status' = "running" /\ phase' = "drain" /\ signal.flush
         \/ status' = "running" /\ phase' = "fetch" /\ ~signal.flush
  BY DEF EndOfCycle, At, GoTo, frontVars, backVars
<1>2. ControlTypeOK' /\ IdleDuringFlush'
  BY <1>1 DEF IInv, ControlTypeOK, IdleDuringFlush, Phases
<1>3. (DeclaredWriters /\ ScoreboardExact /\ OperandsFinal /\ ResultHasRoom)'
  BY <1>1 DEF IInv, DeclaredWriters, ScoreboardExact, OperandsFinal, ResultHasRoom, InstructionAt
<1>4. InOrder'
  BY <1>1 DEF IInv, InOrder, ToExecute, ToDecode, LinkedBus, Oldest, Pending
<1> QED BY <1>2, <1>3, <1>4 DEF IInv

\* CPU.flush empties the buses and the scoreboard; the fetch unit goes on at
\* the branch's target.
LEMMA FlushPipelineKeeps == ASSUME IInv, FlushPipeline PROVE IInv'
<1>1. /\ UNCHANGED <<app, eu>> /\ ~eu.processing /\ ~eu.waiting
      /\ phase' = "fetch" /\ status = "running" /\ status' = "running"
      /\ signal' = NoSignal /\ pendingWrites' = NoWrites
      /\ decodeBus' = EmptyBus /\ executeBus' = EmptyBus /\ writeBus' = EmptyBus
      /\ DOMAIN fu' = DOMAIN fu
  BY DEF FlushPipeline, At, GoTo, IInv, IdleDuringFlush
<1>2. ControlTypeOK' /\ IdleDuringFlush'
  BY <1>1, EmptyBusIsBus DEF IInv, ControlTypeOK, IdleDuringFlush, Phases, NoSignal, NoWrites
<1>3. (DeclaredWriters /\ ScoreboardExact /\ OperandsFinal /\ ResultHasRoom)'
  BY <1>1, EmptyBusIsBus, WritesIsNat
  DEF DeclaredWriters, ScoreboardExact, OperandsFinal, ResultHasRoom, NoWrites
<1>4. InOrder'
  BY <1>1, EmptyBusIsBus DEF InOrder, LinkedBus, Linked
<1> QED BY <1>2, <1>3, <1>4 DEF IInv

-----------------------------------------------------------------------------
(* The execute unit                                                        *)

\* What an action of the execute unit may assume of the instruction it works
\* on: it is the oldest one not yet executed.
LEMMA JobTaken ==
  ASSUME IInv, HasJob, TakeJob, ~eu.waiting
  PROVE  /\ DOMAIN Job = DOMAIN IdleEu /\ Job.processing /\ Job.processing \in BOOLEAN
         /\ ~Job.waiting /\ Job.waiting \in BOOLEAN
         /\ IsBus(executeBus')
         /\ status # "panic" => /\ LinkedBus(executeBus', ToDecode)
                               /\ Oldest(executeBus', ToDecode) = Job.pc + 4
<1>1. IsBus(executeBus) /\ DOMAIN eu = DOMAIN IdleEu /\ eu.waiting \in BOOLEAN
      /\ eu.processing \in BOOLEAN
  BY DEF IInv, ControlTypeOK
<1>2. CASE eu.processing
  BY <1>1, <1>2 DEF Job, TakeJob, IInv, InOrder, ToExecute
<1>3. CASE ~eu.processing
  <2>1. executeBus' = AfterGet(executeBus) /\ executeBus.current # << >>
    BY <1>3 DEF TakeJob, HasJob
  <2>2. /\ DOMAIN Job = DOMAIN IdleEu /\ Job.processing = TRUE /\ Job.waiting = FALSE
        /\ Job.pc = executeBus.current[1]
    BY <1>3 DEF Job, IdleEu
  <2>3. status # "panic" => LinkedBus(executeBus, ToDecode)
    BY DEF IInv, InOrder
  <2> QED BY <1>1, <2>1, <2>2, <2>3, TakeKeepsOrder, BusSteps
<1> QED BY <1>2, <1>3

\* A step after which the execute unit goes on with its instruction and asks
\* nothing of the other units, waiting for the memory only if the operands are
\* final and the write bus has room.
LEMMA StillBusy ==
  ASSUME IInv, At("execute"), GoTo("write"),
         UNCHANGED <<app, fu, decodeBus, pendingWrites, writeBus, signal>>,
         IsBus(executeBus'), DOMAIN eu' = DOMAIN IdleEu,
         eu'.processing \in BOOLEAN, eu'.waiting \in BOOLEAN,
         eu'.waiting => /\ eu'.processing /\ CanAdd(writeBus)
                       /\ \A r \in ReadRegisters(InstructionAt(eu'.pc)) \ {Zero} :
                            r \in Register => pendingWrites[r] = 0,
         LinkedBus(executeBus', ToDecode),
         eu'.processing => Oldest(executeBus', ToDecode) = eu'.pc + 4
  PROVE  IInv'
<1>1. ControlTypeOK' /\ IdleDuringFlush'
  BY DEF IInv, ControlTypeOK, IdleDuringFlush, At, GoTo, Phases
<1>2. DeclaredWriters' /\ ScoreboardExact' /\ ResultHasRoom'
  BY DEF IInv, DeclaredWriters, ScoreboardExact, ResultHasRoom
<1>3. OperandsFinal'
  BY WritesIsNat DEF IInv, OperandsFinal, ScoreboardExact, InstructionAt
<1>4. InOrder'
  BY DEF IInv, InOrder, ToExecute, ToDecode, LinkedBus, Oldest, Pending, At, GoTo
<1> QED BY <1>1, <1>2, <1>3, <1>4 DEF IInv

\* executeUnit.run: the result takes the free place of the write bus together
\* with its counts, or the unit stops for good, or a store has gone to L1D.
LEMMA FinishKeeps ==
  ASSUME IInv, At("execute"), CanAdd(writeBus), UNCHANGED <<app, fu, decodeBus>>,
         NEW job, NEW bytes, NEW lines, NEW ram, NEW unit,
         DOMAIN job = DOMAIN IdleEu, job.processing, job.processing \in BOOLEAN,
         ~job.waiting, job.waiting \in BOOLEAN,
         IsBus(executeBus'), LinkedBus(executeBus', ToDecode),
         Oldest(executeBus', ToDecode) = job.pc + 4,
         Finish(job, bytes, lines, ram, unit)
  PROVE  IInv'
<1> DEFINE pc == job.pc
           ins == InstructionAt(pc)
           exe == Run(ins, app, registers, pc, bytes)
           entry == [pc |-> pc, exe |-> exe, writes |-> WriteRegisters(ins)]
           flush == exe.PcChange /\ ShouldFlush(unit, exe.NextPc)
<1>1. /\ IsBus(writeBus) /\ pendingWrites \in [Register -> Nat] /\ status = "running"
      /\ phase = "execute" /\ ~signal.flush /\ writeBus.pending = << >>
      /\ signal.flush \in BOOLEAN
      /\ signal = [flush |-> signal.flush, pc |-> signal.pc, ret |-> signal.ret]
  BY DEF IInv, ControlTypeOK, IdleDuringFlush, At, CanAdd
<1>2. /\ DOMAIN IdleEu = DOMAIN IdleEu /\ IdleEu.processing = FALSE /\ IdleEu.waiting = FALSE
  BY DEF IdleEu
<1>3. InOrder' <=> (status' # "panic" =>
                     /\ LinkedBus(decodeBus, fu.pc)
                     /\ LinkedBus(executeBus', ToDecode)
                     /\ eu'.processing => Oldest(executeBus', ToDecode) = eu'.pc + 4)
  BY DEF InOrder, ToExecute, ToDecode, LinkedBus, Oldest, Pending
<1>4. LinkedBus(decodeBus, fu.pc)
  BY <1>1 DEF IInv, InOrder
<1>5. CASE /\ UNCHANGED <<pendingWrites, writeBus>> /\ eu' \in {job, IdleEu}
           /\ \/ signal' = signal
              \/ signal' = [NoSignal EXCEPT !.ret = TRUE]
           /\ phase' \in {"execute", "write"}
  <2>1. ~signal'.flush /\ signal'.flush \in BOOLEAN /\ signal'.ret \in BOOLEAN
        /\ signal' = [flush |-> signal'.flush, pc |-> signal'.pc, ret |-> signal'.ret]
    BY <1>1, <1>5 DEF NoSignal, IInv, ControlTypeOK
  <2>2. ~eu'.waiting /\ DOMAIN eu' = DOMAIN IdleEu /\ eu'.waiting \in BOOLEAN
        /\ eu'.processing \in BOOLEAN
    BY <1>2, <1>5
  <2>3. ControlTypeOK' /\ IdleDuringFlush'
    BY <1>1, <1>5, <2>1, <2>2 DEF IInv, ControlTypeOK, IdleDuringFlush, Phases
  <2>4. (DeclaredWriters /\ ScoreboardExact /\ ResultHasRoom /\ OperandsFinal)'
    BY <1>5, <2>2 DEF IInv, DeclaredWriters, ScoreboardExact, ResultHasRoom, OperandsFinal
  <2>5. InOrder'
    BY <1>2, <1>3, <1>4, <1>5
  <2> QED BY <2>3, <2>4, <2>5 DEF IInv
<1>6. CASE /\ exe.Outcome = "ok" /\ eu' = IdleEu
           /\ writeBus' = Add(writeBus, entry)
           /\ pendingWrites' = [r \in Register |->
                IF r \in WriteRegisters(ins) \ {Zero} THEN pendingWrites[r] + 1
                ELSE pendingWrites[r]]
           /\ signal' = IF flush THEN [NoSignal EXCEPT !.flush = TRUE, !.pc = exe.NextPc]
                        ELSE NoSignal
           /\ phase' = "write" /\ status' = "running"
  <2>1. writeBus'.pending = <<entry>> /\ writeBus'.current = writeBus.current /\ IsBus(writeBus')
    BY <1>1, <1>6, BusSteps
  <2>2. /\ pendingWrites' \in [Register -> Nat]
        /\ \A r \in Register \ {Zero} :
             pendingWrites'[r] = pendingWrites[r] + Writes(<<entry>>, r)
    BY <1>1, <1>6 DEF Writes
  <2>3. ScoreboardExact'
    <3>1. ASSUME NEW r \in Register \ {Zero}
          PROVE  /\ pendingWrites[r] = Writes(writeBus.current, r) + Writes(<< >>, r)
                 /\ Writes(writeBus.current, r) \in Nat /\ Writes(<< >>, r) = 0
                 /\ Writes(<<entry>>, r) \in Nat
      BY <1>1, WritesIsNat DEF IInv, ScoreboardExact
    <3>2. \A r \in Register \ {Zero} :
            pendingWrites'[r] = Writes(writeBus'.current, r) + Writes(writeBus'.pending, r)
      BY <2>1, <2>2, <3>1
    <3> QED BY <3>2 DEF ScoreboardExact
  <2>4. DeclaredWriters'
    BY <1>1, <1>6, <2>1, DeclaredWriteHappens DEF IInv, DeclaredWriters
  <2>5. /\ signal' = [flush |-> signal'.flush, pc |-> signal'.pc, ret |-> signal'.ret]
        /\ signal'.flush \in BOOLEAN /\ signal'.ret \in BOOLEAN
    BY <1>6 DEF NoSignal
  <2>6. ControlTypeOK' /\ IdleDuringFlush'
    BY <1>1, <1>2, <1>6, <2>1, <2>2, <2>5 DEF IInv, ControlTypeOK, IdleDuringFlush, Phases
  <2>7. ResultHasRoom' /\ OperandsFinal'
    BY <1>2, <1>6 DEF ResultHasRoom, OperandsFinal
  <2>8. InOrder'
    BY <1>2, <1>3, <1>4, <1>6
  <2> QED BY <2>3, <2>4, <2>6, <2>7, <2>8 DEF IInv
<1>7. \/ /\ UNCHANGED <<pendingWrites, writeBus>> /\ eu' \in {job, IdleEu}
         /\ signal' = signal \/ signal' = [NoSignal EXCEPT !.ret = TRUE]
         /\ phase' \in {"execute", "write"}
      \/ /\ exe.Outcome = "ok" /\ eu' = IdleEu
         /\ writeBus' = Add(writeBus, entry)
         /\ pendingWrites' = [r \in Register |->
              IF r \in WriteRegisters(ins) \ {Zero} THEN pendingWrites[r] + 1
              ELSE pendingWrites[r]]
         /\ signal' = IF flush THEN [NoSignal EXCEPT !.flush = TRUE, !.pc = exe.NextPc]
                      ELSE NoSignal
         /\ phase' = "write" /\ status' = "running"
  BY <1>1 DEF Finish, GoTo, CountedUp
<1> QED BY <1>5, <1>6, <1>7
\* The execute unit (eu.go).
LEMMA ExecuteKeeps == ASSUME IInv, Execute PROVE IInv'
<1>1. /\ UNCHANGED <<app, fu, decodeBus>> /\ At("execute") /\ status = "running"
      /\ DOMAIN eu = DOMAIN IdleEu /\ eu.waiting \in BOOLEAN /\ eu.processing \in BOOLEAN
      /\ IsBus(executeBus) /\ LinkedBus(executeBus, ToDecode)
      /\ eu.waiting => eu.processing
      /\ eu.processing => Oldest(executeBus, ToDecode) = eu.pc + 4
  BY DEF Execute, frontVars, At, IInv, ControlTypeOK, IdleDuringFlush, InOrder, ToExecute
<1>2. ASSUME NotFinished
      PROVE  GoTo("write") /\ UNCHANGED <<pendingWrites, writeBus, signal>>
  BY <1>2 DEF NotFinished, contextVars
<1>3. CASE ExecuteWaits
  <2>1. /\ NotFinished /\ executeBus' = executeBus
        /\ eu' = [eu EXCEPT !.remaining = @ - 1] /\ eu.waiting
    BY <1>3 DEF ExecuteWaits
  <2>2. /\ DOMAIN eu' = DOMAIN IdleEu /\ eu'.waiting = eu.waiting
        /\ eu'.processing = eu.processing /\ eu'.pc = eu.pc
    BY <1>1, <2>1 DEF IdleEu
  <2>3. /\ CanAdd(writeBus)
        /\ \A r \in ReadRegisters(InstructionAt(eu.pc)) \ {Zero} :
             r \in Register => pendingWrites[r] = 0
    BY <2>1 DEF IInv, ResultHasRoom, OperandsFinal, ScoreboardExact
  <2>4. InstructionAt(eu'.pc) = InstructionAt(eu.pc)
    BY <2>2
  <2> QED BY <1>1, <1>2, <2>1, <2>2, <2>3, <2>4, StillBusy
<1>4. CASE ExecuteReceives
  <2>1. eu.waiting /\ executeBus' = executeBus /\ CanAdd(writeBus)
    BY <1>4 DEF ExecuteReceives, IInv, ResultHasRoom
  <2>2. /\ DOMAIN Received = DOMAIN IdleEu /\ Received.processing = TRUE
        /\ Received.waiting = FALSE /\ Received.pc = eu.pc
    BY DEF Received, IdleEu
  <2>3. ASSUME NEW bytes, NEW lines, NEW ram, NEW unit,
               Finish(Received, bytes, lines, ram, unit)
        PROVE  IInv'
    BY <1>1, <2>1, <2>2, <2>3, FinishKeeps
  <2>4. CASE status' = "panic" /\ UNCHANGED <<contextVars, l1d, eu, bu, writeBus, signal, phase>>
    <3>1. /\ UNCHANGED <<pendingWrites, eu, writeBus, signal, phase>> /\ status' = "panic"
      BY <2>4 DEF contextVars
    <3>2. ControlTypeOK' /\ IdleDuringFlush' /\ DeclaredWriters' /\ ScoreboardExact'
      BY <1>1, <2>1, <3>1 DEF IInv, ControlTypeOK, IdleDuringFlush, DeclaredWriters, ScoreboardExact
    <3>3. OperandsFinal' /\ ResultHasRoom' /\ InOrder'
      BY <1>1, <3>1 DEF IInv, OperandsFinal, ResultHasRoom, InOrder, InstructionAt
    <3> QED BY <3>2, <3>3 DEF IInv
  <2> QED BY <1>4, <2>3, <2>4 DEF ExecuteReceives
<1>5. CASE ExecuteNothing
  <2>1. /\ NotFinished /\ eu' = eu /\ ~eu.waiting /\ ~eu.processing
        /\ executeBus' = AfterGet(executeBus)
    BY <1>5 DEF ExecuteNothing, HasJob, TakeJob
  <2> QED BY <1>1, <1>2, <2>1, StillBusy, BusSteps, TakeKeepsOrder
<1>6. CASE ~eu.waiting /\ HasJob /\ TakeJob
  <2>1. /\ DOMAIN Job = DOMAIN IdleEu /\ Job.processing /\ Job.processing \in BOOLEAN
        /\ ~Job.waiting /\ Job.waiting \in BOOLEAN /\ IsBus(executeBus')
        /\ LinkedBus(executeBus', ToDecode) /\ Oldest(executeBus', ToDecode) = Job.pc + 4
    BY <1>1, <1>6, JobTaken
  <2>2. CASE ExecuteCounts
    <3>1. NotFinished /\ eu' = [Job EXCEPT !.remaining = @ - 1]
      BY <2>2 DEF ExecuteCounts
    <3>2. /\ DOMAIN eu' = DOMAIN IdleEu /\ eu'.waiting = Job.waiting
          /\ eu'.processing = Job.processing /\ eu'.pc = Job.pc
      BY <2>1, <3>1 DEF IdleEu
    <3> QED BY <1>1, <1>2, <2>1, <3>1, <3>2, StillBusy
  <2>3. CASE ExecuteBlocked \/ ExecuteHazard
    BY <1>1, <1>2, <2>1, <2>3, StillBusy DEF ExecuteBlocked, ExecuteHazard
  <2>4. CASE ExecuteReads
    <3>1. /\ NotFinished /\ CanAdd(writeBus)
          /\ ~IsWriteDataHazard(ReadRegisters(InstructionAt(Job.pc)))
          /\ \E addrs :
               eu' = IF AllIn(l1d, addrs)
                     THEN [Job EXCEPT !.waiting = TRUE, !.remaining = L1AccessCycles,
                                      !.bytes = ReadValues(l1d, addrs), !.cached = TRUE]
                     ELSE [Job EXCEPT !.waiting = TRUE, !.remaining = MemoryCycles,
                                      !.addrs = addrs]
      BY <2>4 DEF ExecuteReads, Ready
    <3>2. /\ DOMAIN eu' = DOMAIN IdleEu /\ eu'.waiting = TRUE
          /\ eu'.processing = Job.processing /\ eu'.pc = Job.pc
      BY <2>1, <3>1 DEF IdleEu
    <3>3. \A r \in ReadRegisters(InstructionAt(Job.pc)) \ {Zero} :
            r \in Register => pendingWrites[r] = 0
      BY <3>1 DEF IsWriteDataHazard, IInv, ControlTypeOK
    <3>4. InstructionAt(eu'.pc) = InstructionAt(Job.pc)
      BY <3>2
    <3> QED BY <1>1, <1>2, <2>1, <3>1, <3>2, <3>3, <3>4, StillBusy
  <2>5. CASE ExecuteRuns
    <3>1. CanAdd(writeBus) /\ Finish(Job, << >>, l1d, memory, Assert(Job.pc))
      BY <2>5 DEF ExecuteRuns, Ready
    <3> QED BY <1>1, <2>1, <3>1, FinishKeeps
  <2>6. CASE ~(ExecuteCounts \/ ExecuteBlocked \/ ExecuteHazard \/ ExecuteReads \/ ExecuteRuns)
    BY <1>3, <1>4, <1>5, <2>6 DEF Execute
  <2> QED BY <2>2, <2>3, <2>4, <2>5, <2>6
<1> QED
  BY <1>3, <1>4, <1>5, <1>6
  DEF Execute, ExecuteCounts, ExecuteBlocked, ExecuteHazard, ExecuteReads, ExecuteRuns, Ready

-----------------------------------------------------------------------------
(* The theorems                                                            *)

\* NewCPU leaves the pipeline empty.
LEMMA InitEstablishes == Init => IInv
<1> SUFFICES ASSUME Init PROVE IInv OBVIOUS
<1>1. /\ decodeBus = EmptyBus /\ executeBus = EmptyBus /\ writeBus = EmptyBus
      /\ eu = IdleEu /\ eu.waiting = FALSE /\ eu.processing = FALSE
      /\ signal = NoSignal /\ pendingWrites = NoWrites /\ phase = "fetch"
      /\ DOMAIN fu = {"pc", "remaining", "complete", "processing"}
  BY DEF Init, IdleEu
<1>2. ControlTypeOK /\ IdleDuringFlush
  BY <1>1, EmptyBusIsBus DEF ControlTypeOK, IdleDuringFlush, Phases, NoSignal, NoWrites
<1>3. DeclaredWriters /\ ScoreboardExact /\ OperandsFinal /\ ResultHasRoom
  BY <1>1, EmptyBusIsBus, WritesIsNat
  DEF DeclaredWriters, ScoreboardExact, OperandsFinal, ResultHasRoom, NoWrites
<1>4. InOrder
  BY <1>1, EmptyBusIsBus DEF InOrder, LinkedBus, Linked
<1> QED BY <1>2, <1>3, <1>4 DEF IInv

\* Every step of CPU.Run keeps the inductive invariant.
LEMMA NextKeeps == ASSUME IInv, [Next]_vars PROVE IInv'
<1>1. CASE Fetch BY <1>1, FetchKeeps
<1>2. CASE Decode BY <1>2, DecodeKeeps
<1>3. CASE Execute BY <1>3, ExecuteKeeps
<1>4. CASE WriteBack BY <1>4, WriteBackKeeps
<1>5. CASE EndOfCycle BY <1>5, EndOfCycleKeeps
<1>6. CASE Drain BY <1>6, DrainKeeps
<1>7. CASE FlushPipeline BY <1>7, FlushPipelineKeeps
<1>8. CASE UNCHANGED vars
  <2>1. UNCHANGED <<app, pendingWrites, fu, decodeBus, executeBus, eu, writeBus,
                    signal, phase, status>>
    BY <1>8 DEF vars, contextVars, frontVars, backVars
  <2>2. ControlTypeOK' /\ IdleDuringFlush' /\ DeclaredWriters' /\ ScoreboardExact'
    BY <2>1 DEF IInv, ControlTypeOK, IdleDuringFlush, DeclaredWriters, ScoreboardExact
  <2>3. OperandsFinal' /\ ResultHasRoom' /\ InOrder'
    BY <2>1 DEF IInv, OperandsFinal, ResultHasRoom, InOrder, InstructionAt, ToExecute,
                ToDecode, LinkedBus, Oldest, Pending
  <2> QED BY <2>2, <2>3 DEF IInv
<1> QED
  BY <1>1, <1>2, <1>3, <1>4, <1>5, <1>6, <1>7, <1>8 DEF Next, Ended

\* The inductive invariant holds in every run of MVP-4.
THEOREM InductiveInvariant == Spec => []IInv
BY InitEstablishes, NextKeeps, PTL DEF Spec

\* The counts of Context.PendingWriteRegisters are those of the write bus, in
\* every run of every program: the hazard check of the execute unit waits for
\* every declared writer, and for none that is gone.
THEOREM ScoreboardIsExact == Spec => []ScoreboardExact
<1>1. IInv => ScoreboardExact
  BY DEF IInv
<1> QED BY <1>1, InductiveInvariant, PTL

\* The registers of a load that waits for the memory are not written before it
\* executes (isDataHazard is asked once, when the load starts).
THEOREM LoadsWaitSafely == Spec => []OperandsFinal
<1>1. IInv => OperandsFinal
  BY DEF IInv
<1> QED BY <1>1, InductiveInvariant, PTL

\* Nor does anything take the place on the write bus that the load has seen free
\* (canAdd is asked once, too).
THEOREM ResultsHaveRoom == Spec => []ResultHasRoom
<1>1. IInv => ResultHasRoom
  BY DEF IInv
<1> QED BY <1>1, InductiveInvariant, PTL

\* Between the fetch and the execute unit are consecutive instructions, before
\* and after every flush.
THEOREM PipelineInOrder == Spec => []InOrder
<1>1. IInv => InOrder
  BY DEF IInv
<1> QED BY <1>1, InductiveInvariant, PTL

-----------------------------------------------------------------------------
(* The buses are queues                                                    *)

\* One entry after another, when each holds one element or none.
LEMMA JoinedEntries ==
  ASSUME NEW x, NEW y
  PROVE  /\ << >> \o << >> = << >>
         /\ <<x>> \o << >> = <<x>> /\ << >> \o <<x>> = <<x>>
         /\ <<x>> \o <<y>> = <<x, y>>
         /\ Tail(<<x>>) = << >> /\ Tail(<<x, y>>) = <<y>>
         /\ SubSeq(<<x>>, 1, 0) = << >> /\ SubSeq(<<x, y>>, 1, 1) = <<x>>
         /\ Len(<<x>>) = 1 /\ Len(<<x, y>>) = 2
         /\ <<x>> # << >> /\ <<x, y>> # << >>
<1> DEFINE joined == <<x>> \o <<y>>
           first == SubSeq(<<x, y>>, 1, 1)
<1>1. /\ <<x>> \in Seq({x, y}) /\ Len(<<x>>) = 1 /\ <<x>>[1] = x
      /\ <<x, y>> \in Seq({x, y}) /\ Len(<<x, y>>) = 2
      /\ <<x, y>>[1] = x /\ <<x, y>>[2] = y
  OBVIOUS
<1>2. joined = <<x, y>>
  <2>1. joined \in Seq({x, y}) /\ Len(joined) = 2 /\ joined[1] = x /\ joined[2] = y
    OBVIOUS
  <2>2. \A i \in 1..Len(joined) : joined[i] = <<x, y>>[i]
    BY <1>1, <2>1
  <2> QED BY <1>1, <2>1, <2>2, SeqEqual
<1>3. first = <<x>>
  <2>1. first \in Seq({x, y}) /\ Len(first) = 1 /\ first[1] = x
    BY <1>1
  <2>2. \A i \in 1..Len(first) : first[i] = <<x>>[i]
    BY <1>1, <2>1
  <2> QED BY <1>1, <2>1, <2>2, SeqEqual
<1>4. /\ << >> \o << >> = << >> /\ <<x>> \o << >> = <<x>> /\ << >> \o <<x>> = <<x>>
      /\ Tail(<<x>>) = << >> /\ SubSeq(<<x>>, 1, 0) = << >>
      /\ <<x>> # << >> /\ <<x, y>> # << >>
  OBVIOUS
<1>5. Tail(<<x, y>>) = <<y>>
  OBVIOUS
<1> QED BY <1>1, <1>2, <1>3, <1>4, <1>5

\* SimpleBus.Get takes the oldest element, if one is due.
LEMMA GetIsFifo == ASSUME NEW bus, IsBus(bus) PROVE FifoStep(bus, AfterGet(bus))
<1> DEFINE c == bus.current[1]
           p == bus.pending[1]
<1>1. /\ bus.current = << >> \/ bus.current = <<c>>
      /\ bus.pending = << >> \/ bus.pending = <<p>>
  BY DEF IsBus, IsEntry
<1>2. /\ Items(bus) = bus.current \o bus.pending
      /\ Items(AfterGet(bus)) = bus.pending \o << >>
  BY DEF Items, AfterGet
<1> HIDE DEF c, p
<1>3. << >> \o << >> = << >> /\ << >> \o <<p>> = <<p>> /\ <<p>> \o << >> = <<p>>
  BY JoinedEntries
<1>4. <<c>> \o << >> = <<c>> /\ <<c>> # << >> /\ Tail(<<c>>) = << >>
  BY JoinedEntries
<1>5. <<c>> \o <<p>> = <<c, p>> /\ <<c, p>> # << >> /\ Tail(<<c, p>>) = <<p>>
  BY JoinedEntries
<1>6. CASE bus.current = << >>
  <2>1. Items(AfterGet(bus)) = Items(bus)
    BY <1>1, <1>2, <1>3, <1>6
  <2> QED BY <2>1 DEF FifoStep
<1>7. CASE bus.current = <<c>>
  <2>1. Items(bus) # << >> /\ Items(AfterGet(bus)) = Tail(Items(bus))
    BY <1>1, <1>2, <1>3, <1>4, <1>5, <1>7
  <2> QED BY <2>1 DEF FifoStep
<1> QED BY <1>1, <1>6, <1>7

\* SimpleBus.Add adds the youngest, if CanAdd has been asked.
LEMMA AddIsFifo ==
  ASSUME NEW bus, IsBus(bus), CanAdd(bus), NEW t PROVE FifoStep(bus, Add(bus, t))
<1> DEFINE c == bus.current[1]
           new == Items(Add(bus, t))
<1>1. bus.current = << >> \/ bus.current = <<c>>
  BY DEF IsBus, IsEntry
<1>2. Items(bus) = bus.current \o << >> /\ new = bus.current \o <<t>>
  BY DEF Items, Add, CanAdd
<1> HIDE DEF c, new
<1>3. /\ << >> \o << >> = << >> /\ << >> \o <<t>> = <<t>>
      /\ Len(<<t>>) = 1 /\ <<t>> # << >> /\ SubSeq(<<t>>, 1, 0) = << >>
  BY JoinedEntries
<1>4. /\ <<c>> \o << >> = <<c>> /\ <<c>> \o <<t>> = <<c, t>>
      /\ Len(<<c, t>>) = 2 /\ <<c, t>> # << >> /\ SubSeq(<<c, t>>, 1, 1) = <<c>>
  BY JoinedEntries
<1>5. new # << >> /\ Items(bus) = SubSeq(new, 1, Len(new) - 1)
  <2>0. 1 - 1 = 0 /\ 2 - 1 = 1
    OBVIOUS
  <2>1. CASE bus.current = << >>
    BY <1>2, <1>3, <2>0, <2>1
  <2>2. CASE bus.current = <<c>>
    BY <1>2, <1>4, <2>0, <2>2
  <2> QED BY <1>1, <2>1, <2>2
<1> QED BY <1>5 DEF FifoStep, new

\* The write unit takes from the write bus, or leaves it alone.
LEMMA WriteUnitIsFifo ==
  ASSUME IsBus(writeBus), WriteUnitCycle PROVE FifoStep(writeBus, writeBus')
<1>1. writeBus' = writeBus \/ writeBus' = AfterGet(writeBus)
  BY DEF WriteUnitCycle, WriteWaits, WriteNothing, WriteRegisterBack, WriteMemoryBack,
         WriteNoChange
<1> QED BY <1>1, GetIsFifo DEF FifoStep, Items

\* The execute unit takes from the execute bus and adds to the write bus, whose
\* room it has made sure of: now, or when its load began.
LEMMA ExecuteIsFifo ==
  ASSUME IInv, Execute
  PROVE  FifoStep(writeBus, writeBus') /\ FifoStep(executeBus, executeBus')
<1>1. IsBus(writeBus) /\ IsBus(executeBus) /\ (eu.waiting => CanAdd(writeBus))
  BY DEF IInv, ControlTypeOK, ResultHasRoom
<1>2. executeBus' = executeBus \/ executeBus' = AfterGet(executeBus)
  BY DEF Execute, ExecuteWaits, ExecuteReceives, ExecuteNothing, ExecuteCounts,
         ExecuteBlocked, ExecuteHazard, ExecuteReads, ExecuteRuns, TakeJob
<1>3. ASSUME NEW job, NEW bytes, NEW lines, NEW ram, NEW unit,
             Finish(job, bytes, lines, ram, unit)
      PROVE  writeBus' = writeBus \/ \E t : writeBus' = Add(writeBus, t)
  BY <1>3 DEF Finish
<1>4. \/ writeBus' = writeBus
      \/ CanAdd(writeBus) /\ \E t : writeBus' = Add(writeBus, t)
  <2>1. CASE ExecuteReceives
    BY <1>1, <1>3, <2>1 DEF ExecuteReceives
  <2>2. CASE ExecuteRuns
    BY <1>3, <2>2 DEF ExecuteRuns, Ready
  <2>3. CASE NotFinished
    BY <2>3 DEF NotFinished
  <2> QED
    BY <2>1, <2>2, <2>3
    DEF Execute, ExecuteWaits, ExecuteNothing, ExecuteCounts, ExecuteBlocked, ExecuteHazard,
        ExecuteReads
<1>5. FifoStep(writeBus, writeBus')
  BY <1>1, <1>4, AddIsFifo DEF FifoStep, Items
<1>6. FifoStep(executeBus, executeBus')
  BY <1>1, <1>2, GetIsFifo DEF FifoStep, Items
<1> QED BY <1>5, <1>6

\* SimpleBus promises Add only after CanAdd: its four users keep to it, so no
\* element of the three buses is ever lost, doubled or overtaken, but for the
\* wrong path that a flush drops; and even a flush drops no result.
THEOREM QueuesBetweenStages == Spec => BusesAreFifo
<1>1. ASSUME IInv, [Next]_vars
      PROVE  /\ FifoStep(writeBus, writeBus')
             /\ \/ signal.flush
                \/ FifoStep(executeBus, executeBus') /\ FifoStep(decodeBus, decodeBus')
  <2>1. IsBus(decodeBus) /\ IsBus(executeBus) /\ IsBus(writeBus)
    BY <1>1 DEF IInv, ControlTypeOK
  <2>2. \A bus : FifoStep(bus, bus)
    BY DEF FifoStep
  <2>3. CASE Fetch
    <3>1. UNCHANGED <<writeBus, executeBus>>
      BY <2>3 DEF Fetch, backVars
    <3>2. \/ decodeBus' = decodeBus
          \/ CanAdd(decodeBus) /\ decodeBus' = Add(decodeBus, fu.pc)
      BY <2>3 DEF Fetch, FetchIdle, FetchCounts, FetchBlocked, FetchPushes, frontVars
    <3> QED BY <2>1, <2>2, <3>1, <3>2, AddIsFifo
  <2>4. CASE Decode
    <3>1. UNCHANGED writeBus
      BY <2>4 DEF Decode, backVars
    <3>2. /\ decodeBus' = decodeBus \/ decodeBus' = AfterGet(decodeBus)
          /\ \/ executeBus' = executeBus
             \/ CanAdd(executeBus) /\ \E pc : executeBus' = Add(executeBus, pc)
      BY <2>4 DEF Decode, DecodeBlocked, DecodeNothing, DecodeOne
    <3> QED BY <2>1, <2>2, <3>1, <3>2, AddIsFifo, GetIsFifo
  <2>5. CASE Execute
    BY <1>1, <2>2, <2>5, ExecuteIsFifo DEF Execute, frontVars
  <2>6. CASE WriteBack
    BY <2>1, <2>2, <2>6, WriteUnitIsFifo DEF WriteBack, frontVars
  <2>7. CASE Drain
    BY <2>1, <2>2, <2>7, WriteUnitIsFifo DEF Drain, frontVars
  <2>8. CASE FlushPipeline
    <3>1. signal.flush /\ IsEmpty(writeBus) /\ writeBus' = EmptyBus
      BY <1>1, <2>8 DEF FlushPipeline, Drained, At, IInv, IdleDuringFlush
    <3>2. Items(writeBus') = Items(writeBus)
      BY <3>1 DEF IsEmpty, Items, EmptyBus
    <3> QED BY <3>1, <3>2 DEF FifoStep
  <2>9. CASE EndOfCycle \/ UNCHANGED vars
    <3>1. UNCHANGED <<writeBus, executeBus, decodeBus>>
      BY <2>9 DEF EndOfCycle, vars, frontVars, backVars
    <3> QED BY <2>2, <3>1
  <2> QED
    BY <1>1, <2>3, <2>4, <2>5, <2>6, <2>7, <2>8, <2>9 DEF Next, Ended
<1> QED BY <1>1, InductiveInvariant, PTL DEF Spec, BusesAreFifo

-----------------------------------------------------------------------------
(* Operands                                                                *)

\* A place of a bus is a list of one element or none.
LEMMA EntriesAreLists ==
  ASSUME NEW bus, IsBus(bus)
  PROVE  \E S : bus.current \in Seq(S) /\ bus.pending \in Seq(S)
<1>1. ASSUME NEW entry, IsEntry(entry), NEW S, entry[1] \in S
      PROVE  entry \in Seq(S)
  <2>1. << >> \in Seq(S) /\ <<entry[1]>> \in Seq(S)
    BY <1>1
  <2> QED BY <1>1, <2>1 DEF IsEntry
<1> WITNESS {bus.current[1], bus.pending[1]}
<1> QED BY <1>1 DEF IsBus

\* Getting from a bus adds nothing to it, and what has been added is the
\* youngest.
LEMMA YoungestOfBus ==
  ASSUME NEW bus, IsBus(bus), NEW t
  PROVE  /\ ~(Len(Items(AfterGet(bus))) > Len(Items(bus)))
         /\ ~(Len(Items(bus)) > Len(Items(bus)))
         /\ Items(Add(bus, t))[Len(Items(Add(bus, t)))] = t
<1>1. PICK S : bus.current \in Seq(S) /\ bus.pending \in Seq(S)
  BY EntriesAreLists
<1>2. PICK current, pending : current = bus.current /\ pending = bus.pending
  OBVIOUS
<1>3. current \in Seq(S) /\ pending \in Seq(S)
  BY <1>1, <1>2
<1>4. /\ Items(AfterGet(bus)) = pending \o << >> /\ Items(bus) = current \o pending
      /\ Items(Add(bus, t)) = current \o <<t>>
  BY <1>2 DEF Items, AfterGet, Add, IsBus
<1>5. /\ Len(pending \o << >>) = Len(pending)
      /\ Len(current \o pending) = Len(current) + Len(pending)
      /\ Len(pending) \in Nat /\ Len(current) \in Nat
  BY <1>3
<1>6. (current \o <<t>>)[Len(current \o <<t>>)] = t
  <2>1. current \in Seq(S \cup {t}) /\ <<t>> \in Seq(S \cup {t})
    BY <1>3
  <2> QED BY <2>1
<1> QED BY <1>4, <1>5, <1>6

\* A step that adds nothing to the write bus has no new result.
LEMMA NoNewResult ==
  ASSUME IsBus(writeBus), NewResult
  PROVE  writeBus' \notin {writeBus, AfterGet(writeBus), EmptyBus}
<1>1. PICK S : writeBus.current \in Seq(S) /\ writeBus.pending \in Seq(S)
  BY EntriesAreLists
<1>2. PICK current, pending : current = writeBus.current /\ pending = writeBus.pending
  OBVIOUS
<1>3. Len(current \o pending) \in Nat /\ Items(writeBus) = current \o pending
  <2>1. current \in Seq(S) /\ pending \in Seq(S)
    BY <1>1, <1>2
  <2>2. Len(current \o pending) \in Nat
    BY <2>1
  <2> QED BY <1>2, <2>2 DEF Items
<1>4. Items(EmptyBus) = << >> \o << >> /\ Len(<< >> \o << >>) = 0
  BY JoinedEntries DEF Items, EmptyBus
<1>5. writeBus' # EmptyBus
  BY <1>3, <1>4 DEF NewResult
<1> QED BY <1>5, YoungestOfBus DEF NewResult

\* An instruction other than lh that asks for a register change has declared
\* the register.
LEMMA WriterDeclares ==
  ASSUME NEW ins \in InstructionRunner, ins.op # "lh",
         NEW application, NEW regs, NEW pc, NEW bytes,
         NEW exe, exe = Run(ins, application, regs, pc, bytes), exe.RegisterChange
  PROVE  exe.Register \in WriteRegisters(ins)
<1>0. \A rd, value : RegisterResult(rd, value).Register = rd
  BY DEF RegisterResult, NoChange
<1>1. /\ \A outcome : ~Failed(outcome).RegisterChange
      /\ \A label : ~Goto(application, label).RegisterChange
      /\ ~NoChange.RegisterChange
  BY DEF Failed, NoChange, Goto
<1>2. CASE ins.op \in RegRegOps
  <2>1. exe = RegRegRun(ins, regs[ins.rs1], regs[ins.rs2])
    BY <1>2 DEF Run, RegRegOps, RegImmOps, UpperOps, LoadOps, StoreOps, BranchOps, JumpOps
  <2>2. \/ exe = Failed("error") \/ exe = Failed("panic")
        \/ \E value : exe = RegisterResult(ins.rd, value)
    BY <2>1 DEF RegRegRun
  <2> QED BY <1>0, <1>1, <1>2, <2>2 DEF WriteRegisters
<1>3. CASE ins.op \in RegImmOps
  <2>1. exe = RegImmRun(ins, regs[ins.rs1], ins.imm)
    BY <1>3 DEF Run, RegRegOps, RegImmOps, UpperOps, LoadOps, StoreOps, BranchOps, JumpOps
  <2>2. exe = Failed("panic") \/ \E value : exe = RegisterResult(ins.rd, value)
    BY <2>1 DEF RegImmRun
  <2> QED BY <1>0, <1>1, <1>3, <2>2 DEF WriteRegisters
<1>4. CASE ins.op \in UpperOps
  <2>1. exe = UpperRun(ins, pc)
    BY <1>4 DEF Run, RegRegOps, RegImmOps, UpperOps, LoadOps, StoreOps, BranchOps, JumpOps
  <2> QED BY <1>0, <1>4, <2>1 DEF WriteRegisters, UpperRun
<1>5. CASE ins.op \in LoadOps
  <2>1. exe = LoadRun(ins, bytes)
    BY <1>5 DEF Run, RegRegOps, RegImmOps, UpperOps, LoadOps, StoreOps, BranchOps, JumpOps
  <2> QED BY <1>0, <1>5, <2>1 DEF WriteRegisters, LoadRun, LoadOps
<1>6. CASE ins.op \in JumpOps
  <2>1. exe = JumpRun(ins, application, regs[ins.rs1], pc)
    BY <1>6 DEF Run, RegRegOps, RegImmOps, UpperOps, LoadOps, StoreOps, BranchOps, JumpOps
  <2>2. CASE ins.op = "j"
    <3>1. exe = Goto(application, ins.label)
      BY <2>1, <2>2 DEF JumpRun
    <3> QED BY <1>1, <3>1
  <2>3. CASE ins.op # "j"
    <3>1. \/ exe = Goto(application, ins.label)
          \/ \E value, next : exe = [RegisterResult(ins.rd, value) EXCEPT !.PcChange = TRUE,
                                                                          !.NextPc = next]
      BY <2>1, <2>3 DEF JumpRun, NoChange
    <3>2. exe.Register = ins.rd
      BY <1>1, <3>1 DEF RegisterResult, NoChange
    <3> QED BY <1>6, <2>3, <3>2 DEF WriteRegisters, JumpOps
  <2> QED BY <2>2, <2>3
<1>7. CASE ins.op \in StoreOps \cup BranchOps \cup {"ret", "nop"}
  <2>1. CASE ins.op \in StoreOps
    <3>1. exe = StoreRun(ins, regs[ins.rs1], regs[ins.rs2])
      BY <2>1 DEF Run, RegRegOps, RegImmOps, UpperOps, LoadOps, StoreOps, BranchOps, JumpOps
    <3> QED BY <3>1 DEF StoreRun, NoChange
  <2>2. CASE ins.op \in BranchOps
    <3>1. exe = BranchRun(ins, application, regs[ins.rs1], regs[ins.rs2])
      BY <2>2 DEF Run, RegRegOps, RegImmOps, UpperOps, LoadOps, StoreOps, BranchOps, JumpOps
    <3> QED BY <1>1, <3>1 DEF BranchRun
  <2>3. CASE ins.op \in {"ret", "nop"}
    <3>1. exe = NoChange \/ exe = [NoChange EXCEPT !.Return = TRUE]
      BY <2>3 DEF Run, RegRegOps, RegImmOps, UpperOps, LoadOps, StoreOps, BranchOps, JumpOps
    <3> QED BY <3>1 DEF NoChange
  <2> QED BY <1>7, <2>1, <2>2, <2>3
<1> QED BY <1>2, <1>3, <1>4, <1>5, <1>6, <1>7 DEF InstructionRunner, Op

\* The pcs on a bus are those of instructions.
BusInProgram(bus) ==
  \A entry \in {bus.current, bus.pending} : entry # << >> => InProgram(entry[1])

\* An entry of the write bus writes no register but a declared one, lh apart.
Declared(entry) ==
  entry # << >> /\ entry[1].exe.RegisterChange /\ InstructionAt(entry[1].pc).op # "lh" =>
    entry[1].exe.Register \in entry[1].writes

\* What it takes besides IInv: only instructions of the program are decoded.
OperandInv ==
  /\ IInv /\ app \in Applications
  /\ BusInProgram(executeBus) /\ (eu.processing => InProgram(eu.pc))
  /\ Declared(writeBus.current) /\ Declared(writeBus.pending)

\* With the same program, the next state is about the same instructions.
LEMMA SameProgram ==
  ASSUME UNCHANGED app
  PROVE  /\ \A pc : InProgram(pc)' <=> InProgram(pc)
         /\ \A pc : InstructionAt(pc)' = InstructionAt(pc)
         /\ BusInProgram(executeBus)' <=> BusInProgram(executeBus')
         /\ InProgram(eu.pc)' <=> InProgram(eu'.pc)
         /\ Declared(writeBus.current)' <=> Declared(writeBus'.current)
         /\ Declared(writeBus.pending)' <=> Declared(writeBus'.pending)
BY DEF InProgram, InstructionAt, BusInProgram, Declared

\* The instruction at a pc of the program is one.
LEMMA ProgramInstruction ==
  ASSUME OperandInv, NEW pc, InProgram(pc) PROVE InstructionAt(pc) \in InstructionRunner
BY Mvp4Assumption DEF OperandInv, InProgram, InstructionAt, IsApplication

\* What the execute unit takes on is in the program, and so is what it leaves.
LEMMA JobInProgram ==
  ASSUME OperandInv, HasJob, TakeJob
  PROVE  InProgram(Job.pc) /\ BusInProgram(executeBus')
<1>1. IsBus(executeBus) /\ (eu.processing => InProgram(eu.pc)) /\ BusInProgram(executeBus)
  BY DEF OperandInv, IInv, ControlTypeOK
<1>2. CASE eu.processing
  BY <1>1, <1>2 DEF Job, TakeJob
<1>3. CASE ~eu.processing
  <2>1. /\ executeBus' = AfterGet(executeBus) /\ executeBus.current # << >>
        /\ Job.pc = executeBus.current[1]
    BY <1>3 DEF TakeJob, HasJob, Job, IdleEu
  <2> QED BY <1>1, <2>1 DEF BusInProgram, AfterGet
<1> QED BY <1>2, <1>3

\* executeUnit.run adds an entry that has declared what it writes.
LEMMA FinishDeclares ==
  ASSUME OperandInv, NEW job, NEW bytes, NEW lines, NEW ram, NEW unit,
         Finish(job, bytes, lines, ram, unit), InProgram(job.pc)
  PROVE  /\ eu' \in {job, IdleEu}
         /\ Declared(writeBus'.current) /\ Declared(writeBus'.pending)
<1>1. eu' \in {job, IdleEu}
  BY DEF Finish
<1>2. IsBus(writeBus) /\ Declared(writeBus.current) /\ Declared(writeBus.pending)
  BY DEF OperandInv, IInv, ControlTypeOK
<1>3. CASE writeBus' = writeBus
  BY <1>1, <1>2, <1>3
<1>4. CASE writeBus' # writeBus
  <2>1. PICK exe : exe = Run(InstructionAt(job.pc), app, registers, job.pc, bytes)
    OBVIOUS
  <2>2. PICK entry : /\ writeBus' = Add(writeBus, entry) /\ entry.pc = job.pc
                     /\ entry.exe = exe /\ entry.writes = WriteRegisters(InstructionAt(job.pc))
    BY <1>4, <2>1 DEF Finish
  <2>3. writeBus'.current = writeBus.current /\ writeBus'.pending = <<entry>>
    BY <1>2, <2>2, BusSteps
  <2>4. Declared(<<entry>>)
    <3>1. entry.exe.RegisterChange /\ InstructionAt(entry.pc).op # "lh" =>
            entry.exe.Register \in entry.writes
      BY <2>1, <2>2, WriterDeclares, ProgramInstruction
    <3> QED BY <3>1 DEF Declared
  <2> QED BY <1>1, <1>2, <2>3, <2>4
<1> QED BY <1>3, <1>4

\* The execute unit.
LEMMA ExecuteKeepsOperands == ASSUME OperandInv, Execute PROVE OperandInv'
<1>1. /\ IInv' /\ app' = app /\ app \in Applications
      /\ BusInProgram(executeBus) /\ IsBus(executeBus)
      /\ Declared(writeBus.current) /\ Declared(writeBus.pending)
      /\ DOMAIN eu = DOMAIN IdleEu /\ (eu.waiting => eu.processing)
      /\ eu.processing => InProgram(eu.pc)
      /\ IdleEu.processing = FALSE
  BY ExecuteKeeps DEF Execute, OperandInv, IInv, ControlTypeOK, IdleDuringFlush, IdleEu
<1> SUFFICES /\ BusInProgram(executeBus') /\ (eu'.processing => InProgram(eu'.pc))
             /\ Declared(writeBus'.current) /\ Declared(writeBus'.pending)
  BY <1>1, SameProgram DEF OperandInv
<1>2. HasJob /\ TakeJob => InProgram(Job.pc) /\ BusInProgram(executeBus')
  BY JobInProgram
<1>3. DOMAIN Job = DOMAIN IdleEu
  BY <1>1 DEF Job, IdleEu
<1>4. CASE ExecuteWaits
  <2>1. writeBus' = writeBus /\ executeBus' = executeBus
        /\ eu' = [eu EXCEPT !.remaining = @ - 1]
    BY <1>4 DEF ExecuteWaits, NotFinished
  <2>2. eu'.processing = eu.processing /\ eu'.pc = eu.pc
    BY <1>1, <2>1 DEF IdleEu
  <2> QED BY <1>1, <2>1, <2>2
<1>5. CASE ExecuteReceives
  <2>1. executeBus' = executeBus /\ eu.waiting /\ eu.processing
    BY <1>1, <1>5 DEF ExecuteReceives
  <2>2. Received.pc = eu.pc /\ InProgram(Received.pc)
    BY <1>1, <2>1 DEF Received, IdleEu
  <2>3. ASSUME NEW bytes, NEW lines, NEW ram, Finish(Received, bytes, lines, ram, bu)
        PROVE  /\ eu' \in {Received, IdleEu}
               /\ Declared(writeBus'.current) /\ Declared(writeBus'.pending)
    BY <2>2, <2>3, FinishDeclares
  <2>4. CASE UNCHANGED <<eu, writeBus>>
    BY <1>1, <2>1, <2>4
  <2> QED BY <1>1, <1>5, <2>1, <2>2, <2>3, <2>4 DEF ExecuteReceives
<1>6. CASE ExecuteNothing
  <2>1. writeBus' = writeBus /\ executeBus' = AfterGet(executeBus) /\ eu' = eu
    BY <1>6 DEF ExecuteNothing, NotFinished, TakeJob, HasJob
  <2>2. BusInProgram(executeBus')
    BY <1>1, <2>1 DEF BusInProgram, AfterGet
  <2> QED BY <1>1, <2>1, <2>2
<1>7. CASE ExecuteCounts \/ ExecuteBlocked \/ ExecuteHazard \/ ExecuteReads
  <2>1. /\ writeBus' = writeBus /\ HasJob /\ TakeJob
        /\ \/ eu' = Job \/ eu' = [Job EXCEPT !.remaining = @ - 1]
           \/ \E addrs :
                \/ eu' = [Job EXCEPT !.waiting = TRUE, !.remaining = L1AccessCycles,
                                     !.bytes = ReadValues(l1d, addrs), !.cached = TRUE]
                \/ eu' = [Job EXCEPT !.waiting = TRUE, !.remaining = MemoryCycles,
                                     !.addrs = addrs]
    BY <1>7 DEF ExecuteCounts, ExecuteBlocked, ExecuteHazard, ExecuteReads, Ready, NotFinished
  <2>2. eu'.pc = Job.pc
    BY <1>3, <2>1 DEF IdleEu
  <2> QED BY <1>1, <1>2, <2>1, <2>2
<1>8. CASE ExecuteRuns
  <2>1. HasJob /\ TakeJob /\ \E unit : Finish(Job, << >>, l1d, memory, unit)
    BY <1>8 DEF ExecuteRuns, Ready
  <2> QED BY <1>1, <1>2, <2>1, FinishDeclares
<1> QED BY <1>4, <1>5, <1>6, <1>7, <1>8 DEF Execute

\* Every step keeps it.
LEMMA NextKeepsOperands == ASSUME OperandInv, [Next]_vars PROVE OperandInv'
<1>1. /\ IInv' /\ app \in Applications /\ IsBus(writeBus) /\ IsBus(executeBus) /\ IsBus(decodeBus)
      /\ BusInProgram(executeBus) /\ (eu.processing => InProgram(eu.pc))
      /\ Declared(writeBus.current) /\ Declared(writeBus.pending) /\ Declared(<< >>)
  BY NextKeeps DEF OperandInv, IInv, ControlTypeOK, Declared
<1>2. CASE Execute
  BY <1>2, ExecuteKeepsOperands
<1>3. CASE ~Execute
  <2>1. UNCHANGED <<app, eu>>
    BY <1>3 DEF Next, Fetch, Decode, WriteBack, EndOfCycle, Drain, FlushPipeline, Ended, vars
  <2>2. BusInProgram(executeBus')
    <3>1. \/ executeBus' \in {executeBus, EmptyBus}
          \/ InProgram(decodeBus.current[1]) /\ executeBus' = Add(executeBus, decodeBus.current[1])
      BY <1>3 DEF Next, Fetch, Decode, DecodeBlocked, DecodeNothing, DecodeOne, WriteBack,
         EndOfCycle, Drain, FlushPipeline, Ended, vars
    <3>2. BusInProgram(EmptyBus)
      BY DEF BusInProgram, EmptyBus
    <3>3. CASE /\ InProgram(decodeBus.current[1])
               /\ executeBus' = Add(executeBus, decodeBus.current[1])
      <4>1. /\ executeBus'.pending = <<decodeBus.current[1]>>
            /\ executeBus'.current = executeBus.current
        BY <1>1, <3>3, BusSteps
      <4> QED BY <1>1, <3>3, <4>1 DEF BusInProgram
    <3> QED BY <1>1, <3>1, <3>2, <3>3
  <2>3. Declared(writeBus'.current) /\ Declared(writeBus'.pending)
    <3>1. writeBus' \in {writeBus, EmptyBus, AfterGet(writeBus)}
      BY <1>3 DEF Next, Fetch, Decode, WriteBack, WriteUnitCycle, WriteWaits, WriteNothing,
         WriteRegisterBack, WriteMemoryBack, WriteNoChange, EndOfCycle, Drain, FlushPipeline,
         Ended, vars, backVars
    <3> QED BY <1>1, <3>1, BusSteps, EmptyBusIsBus
  <2> QED BY <1>1, <2>1, <2>2, <2>3, SameProgram DEF OperandInv
<1> QED BY <1>2, <1>3

\* An element of a bus is in one of its two places.
LEMMA ItemsAreEntries ==
  ASSUME NEW bus, IsBus(bus), NEW i \in 1..Len(Items(bus))
  PROVE  \E entry \in {bus.current, bus.pending} : entry # << >> /\ Items(bus)[i] = entry[1]
<1> DEFINE c == bus.current[1]
           p == bus.pending[1]
<1>1. /\ bus.current = << >> \/ bus.current = <<c>>
      /\ bus.pending = << >> \/ bus.pending = <<p>>
      /\ Items(bus) = bus.current \o bus.pending
  BY DEF IsBus, IsEntry, Items
<1>2. /\ << >> \o << >> = << >> /\ <<c>> \o << >> = <<c>> /\ << >> \o <<p>> = <<p>>
      /\ <<c>> \o <<p>> = <<c, p>>
  BY JoinedEntries
<1> HIDE DEF c, p
<1>3. Items(bus) \in {<< >>, <<c>>, <<p>>, <<c, p>>}
  BY <1>1, <1>2
<1>4. CASE bus.current = << >> /\ bus.pending = << >>
  <2>1. Items(bus) = << >>
    BY <1>1, <1>2, <1>4
  <2> QED BY <2>1
<1>5. CASE bus.current = <<c>> /\ bus.pending = << >>
  <2>1. Items(bus) = <<c>> /\ i = 1
    BY <1>1, <1>2, <1>5
  <2> QED BY <1>5, <2>1 DEF c
<1>6. CASE bus.current = << >> /\ bus.pending = <<p>>
  <2>1. Items(bus) = <<p>> /\ i = 1
    BY <1>1, <1>2, <1>6
  <2> QED BY <1>6, <2>1 DEF p
<1>7. CASE bus.current = <<c>> /\ bus.pending = <<p>>
  <2>1. Items(bus) = <<c, p>> /\ i \in {1, 2}
    <3>1. Items(bus) = <<c, p>>
      BY <1>1, <1>2, <1>7
    <3>2. i \in 1..Len(<<c, p>>)
      BY <3>1
    <3>3. i \in 1..2
      BY <3>2
    <3> QED BY <3>1, <3>3
  <2> QED BY <1>7, <2>1 DEF c, p
<1> QED BY <1>1, <1>4, <1>5, <1>6, <1>7

\* An instruction whose registers no entry of the write bus is about to write.
OperandsThere(pc) ==
  \A r \in ReadRegisters(InstructionAt(pc)) \ {Zero} :
    Writes(writeBus.current, r) = 0 /\ Writes(writeBus.pending, r) = 0

\* The execute unit executes no other.
LEMMA ExecutesWithOperands ==
  ASSUME OperandInv, Execute, NewResult
  PROVE  OperandsThere(LastResult.pc)
<1>1. /\ IsBus(writeBus) /\ ScoreboardExact /\ OperandsFinal
      /\ pendingWrites \in [Register -> Nat]
      /\ writeBus' # writeBus /\ (eu.waiting => eu.processing)
  BY NoNewResult DEF OperandInv, IInv, ControlTypeOK, IdleDuringFlush
<1>2. \A pc : InProgram(pc) => ReadRegisters(InstructionAt(pc)) \subseteq Register
  <2>1. ASSUME NEW ins \in InstructionRunner PROVE ReadRegisters(ins) \subseteq Register
    BY <2>1 DEF InstructionRunner, ReadRegisters
  <2> QED BY <2>1, ProgramInstruction
<1>3. ASSUME NEW job, NEW bytes, NEW lines, NEW ram, NEW unit,
             Finish(job, bytes, lines, ram, unit)
      PROVE  LastResult.pc = job.pc
  <2>1. PICK t : writeBus' = Add(writeBus, t) /\ t.pc = job.pc
    BY <1>1, <1>3 DEF Finish
  <2>2. LastResult = t
    BY <1>1, <2>1, YoungestOfBus DEF LastResult
  <2> QED BY <2>1, <2>2
<1>4. CASE ExecuteReceives
  <2>1. LastResult.pc = Received.pc /\ eu.waiting
    BY <1>1, <1>3, <1>4 DEF ExecuteReceives
  <2>2. LastResult.pc = eu.pc
    BY <2>1 DEF Received, IdleEu
  <2>3. ReadRegisters(InstructionAt(eu.pc)) \subseteq Register
    BY <1>1, <1>2, <2>1 DEF OperandInv
  <2> QED BY <1>1, <2>1, <2>2, <2>3 DEF OperandsFinal, OperandsThere
<1>5. CASE ExecuteRuns
  <2>1. /\ HasJob /\ TakeJob /\ \E unit : Finish(Job, << >>, l1d, memory, unit)
        /\ \A r \in ReadRegisters(InstructionAt(Job.pc)) \ {Zero} : ~(pendingWrites[r] > 0)
    BY <1>5 DEF ExecuteRuns, Ready, IsWriteDataHazard
  <2>2. LastResult.pc = Job.pc /\ ReadRegisters(InstructionAt(Job.pc)) \subseteq Register
    BY <1>2, <1>3, <2>1, JobInProgram
  <2>3. ASSUME NEW r \in ReadRegisters(InstructionAt(Job.pc)) \ {Zero}
        PROVE  Writes(writeBus.current, r) = 0 /\ Writes(writeBus.pending, r) = 0
    <3>1. /\ pendingWrites[r] = Writes(writeBus.current, r) + Writes(writeBus.pending, r)
          /\ pendingWrites[r] = 0
      BY <1>1, <2>1, <2>2 DEF ScoreboardExact
    <3> QED BY <3>1, WritesIsNat
  <2> QED BY <2>2, <2>3 DEF OperandsThere
<1> QED
  BY <1>1, <1>4, <1>5 DEF Execute, ExecuteWaits, ExecuteNothing, ExecuteCounts, ExecuteBlocked,
     ExecuteHazard, ExecuteReads, NotFinished

\* The beginning of a run: nothing has been decoded.
LEMMA InitOperands == ASSUME Init PROVE OperandInv
<1>1. /\ app \in Applications /\ executeBus = EmptyBus /\ writeBus = EmptyBus
      /\ eu.processing = FALSE
  BY DEF Init, IdleEu
<1> QED BY <1>1, InitEstablishes, EmptyBusIsBus DEF OperandInv, BusInProgram, Declared

\* An instruction executes with the registers its elders have left it, in every
\* run of every program: the count of the scoreboard and the hazard check make
\* it wait for every execution that has still to write a register it reads, lh's
\* apart (isWriteDataHazard, AddPendingWriteRegisters, WriteRegisters).
THEOREM OperandsAreWritten == Spec => ReadersWaitForWriters
<1>1. Init => OperandInv
  BY InitOperands
<1>2. OperandInv /\ [Next]_vars => OperandInv'
  BY NextKeepsOperands
<1>3. ASSUME OperandInv, [Next]_vars, NewResult, NEW i \in 1..Len(Items(writeBus))
      PROVE  LET older == Items(writeBus)[i]
             IN older.exe.RegisterChange /\ InstructionAt(older.pc).op # "lh" =>
                  older.exe.Register \notin ReadRegisters(InstructionAt(LastResult.pc)) \ {Zero}
  <2>1. IsBus(writeBus) /\ Declared(writeBus.current) /\ Declared(writeBus.pending)
    BY <1>3 DEF OperandInv, IInv, ControlTypeOK
  <2>2. Execute
    <3>1. ~Execute => writeBus' \in {writeBus, EmptyBus, AfterGet(writeBus)}
      BY <1>3 DEF Next, Fetch, Decode, WriteBack, WriteUnitCycle, WriteWaits, WriteNothing,
         WriteRegisterBack, WriteMemoryBack, WriteNoChange, EndOfCycle, Drain, FlushPipeline,
         Ended, vars, backVars
    <3> QED BY <1>3, <2>1, <3>1, NoNewResult
  <2>3. PICK entry \in {writeBus.current, writeBus.pending} :
               entry # << >> /\ Items(writeBus)[i] = entry[1]
    BY <2>1, ItemsAreEntries
  <2>4. OperandsThere(LastResult.pc)
    BY <1>3, <2>2, ExecutesWithOperands
  <2>5. ASSUME entry[1].exe.RegisterChange, InstructionAt(entry[1].pc).op # "lh"
        PROVE  entry[1].exe.Register \notin ReadRegisters(InstructionAt(LastResult.pc)) \ {Zero}
    <3>1. Writes(entry, entry[1].exe.Register) = 1
      BY <2>1, <2>3, <2>5 DEF Declared, Writes
    <3> QED BY <2>3, <2>4, <3>1 DEF OperandsThere
  <2> QED BY <2>3, <2>5
<1>4. OperandInv /\ [Next]_vars =>
        [NewResult =>
           \A i \in 1..Len(Items(writeBus)) :
             LET older == Items(writeBus)[i]
             IN older.exe.RegisterChange /\ InstructionAt(older.pc).op # "lh" =>
                  older.exe.Register \notin ReadRegisters(InstructionAt(LastResult.pc)) \ {Zero}]_vars
  BY <1>3, Zenon
<1> QED BY <1>1, <1>2, <1>4, PTL DEF Spec, ReadersWaitForWriters

-----------------------------------------------------------------------------
(* Words and bytes: what the units compute with has the types of the code   *)

\* A pc on a bus is a number, and a result made of words and bytes.
PcsOf(bus) == \A entry \in {bus.current, bus.pending} : entry # << >> => entry[1] \in Int
Computed(entry) == entry # << >> => WordResult(entry[1].exe)

\* What the unit has while it waits for the memory is that of a load: the bytes, if they
\* were in the cache, and the addresses otherwise.
LoadsBytes(unit) ==
  /\ unit.cached => unit.waiting
  /\ unit.waiting =>
       /\ InstructionAt(unit.pc).op \in LoadOps
       /\ unit.cached =>
            \A i \in 1..AccessSize(InstructionAt(unit.pc)) : unit.bytes[i] \in Byte
       /\ ~unit.cached =>
            /\ Len(unit.addrs) = AccessSize(InstructionAt(unit.pc))
            /\ \A i \in 1..Len(unit.addrs) : unit.addrs[i] \in Int

\* What the processor computes with are words and bytes ...
DataInv ==
  /\ registers \in [Register -> Word]
  /\ IsMemory(memory) /\ IsCacheOf(l1d, Byte)
  /\ Computed(writeBus.current) /\ Computed(writeBus.pending)
  /\ LoadsBytes(eu)

\* ... its pcs are numbers, also where they are no pcs of the program ...
BranchUnit == [toCheck : BOOLEAN, expectation : Int]
PcInv ==
  /\ PcsOf(decodeBus) /\ PcsOf(executeBus) /\ eu.pc \in Int
  /\ bu \in BranchUnit
  /\ signal.pc \in Int

\* ... and a unit that counts down its cycles has not come to 0.
FetchUnit ==
  [pc : Int, remaining : 0..MemoryCycles, complete : BOOLEAN, processing : BOOLEAN]
WriteUnit == [pendingMemoryWrite : BOOLEAN, cycles : 0..MemoryCycles]
CountInv ==
  /\ fu \in FetchUnit /\ (fu.processing => fu.remaining # 0)
  /\ eu.remaining \in Nat /\ (eu.processing => eu.remaining # 0)
  /\ wu \in WriteUnit /\ (wu.pendingMemoryWrite => wu.cycles # 0)
  /\ Len(l1i) \in 0..L1INumberOfLines

\* How Run can have ended.
Ending == {"running", "done", "error", "panic"}

\* The invariant behind TypeOK.
ValueInv == OperandInv /\ DataInv /\ PcInv /\ CountInv /\ status \in Ending

\* The three parts of the invariant are about these variables.
LEMMA DataStays == ASSUME DataInv, UNCHANGED <<app, registers, memory, l1d, writeBus, eu>> PROVE DataInv'
BY DEF DataInv, LoadsBytes, Computed, InstructionAt

LEMMA PcStays == ASSUME PcInv, UNCHANGED <<decodeBus, executeBus, eu, bu, signal>> PROVE PcInv'
BY DEF PcInv, PcsOf

LEMMA CountStays == ASSUME CountInv, UNCHANGED <<fu, eu, wu, l1i>> PROVE CountInv'
BY DEF CountInv

\* A bus of pcs, and one of results, after its operations.
LEMMA BusesKeepValues ==
  /\ \A bus : IsBus(bus) /\ PcsOf(bus) => PcsOf(AfterGet(bus))
  /\ \A bus, t : IsBus(bus) /\ PcsOf(bus) /\ t \in Int => PcsOf(Add(bus, t))
  /\ \A bus : IsBus(bus) /\ Computed(bus.current) /\ Computed(bus.pending) =>
        Computed(AfterGet(bus).current) /\ Computed(AfterGet(bus).pending)
  /\ \A bus, t : IsBus(bus) /\ Computed(bus.current) /\ Computed(bus.pending) /\ Computed(<<t>>) =>
        Computed(Add(bus, t).current) /\ Computed(Add(bus, t).pending)
  /\ PcsOf(EmptyBus) /\ Computed(<< >>)
<1>1. ASSUME NEW bus, IsBus(bus), PcsOf(bus)
      PROVE  PcsOf(AfterGet(bus)) /\ \A t \in Int : PcsOf(Add(bus, t))
  <2>1. AfterGet(bus).pending = << >> /\ AfterGet(bus).current = bus.pending
    BY <1>1, BusSteps
  <2>2. ASSUME NEW t \in Int PROVE PcsOf(Add(bus, t))
    <3>1. Add(bus, t).pending = <<t>> /\ Add(bus, t).current = bus.current
      BY <1>1, BusSteps
    <3> QED BY <1>1, <3>1 DEF PcsOf
  <2> QED BY <1>1, <2>1, <2>2 DEF PcsOf
<1>2. ASSUME NEW bus, IsBus(bus), Computed(bus.current), Computed(bus.pending)
      PROVE  /\ Computed(AfterGet(bus).current) /\ Computed(AfterGet(bus).pending)
             /\ \A t : Computed(<<t>>) => Computed(Add(bus, t).current) /\ Computed(Add(bus, t).pending)
  BY <1>2, BusSteps DEF Computed
<1>3. PcsOf(EmptyBus) /\ Computed(<< >>)
  BY EmptyBusIsBus DEF PcsOf, Computed
<1> QED BY <1>1, <1>2, <1>3

\* What the invariant says of the types.
LEMMA ValuesHaveTypes == ASSUME ValueInv PROVE TypeOK
BY DEF ValueInv, DataInv, PcInv, CountInv, OperandInv, IInv, TypeOK, IsMemory, IsCacheOf, Ending,
   FetchUnit, WriteUnit, BranchUnit

\* The beginning of a run.
LEMMA InitValues == ASSUME Init, OperandInv PROVE ValueInv
<1>1. registers \in [Register -> Word] /\ IsMemory(memory)
  BY Mvp4Assumption DEF Init, IsRegisterFile
<1>2. /\ << >> \in Seq(LineOf(Byte))
      /\ Len(<< >>) = 0 /\ 0 <= NumberOfLines /\ 0 <= L1INumberOfLines
  BY LRUCacheAssumption, Mvp4Assumption
<1>3. IsCacheOf(l1d, Byte)
  BY <1>2 DEF Init, IsCacheOf
<1>4. DataInv
  <2>1. Computed(writeBus.current) /\ Computed(writeBus.pending)
    BY BusesKeepValues, EmptyBusIsBus DEF Init
  <2>2. LoadsBytes(eu)
    BY DEF Init, LoadsBytes, IdleEu
  <2> QED BY <1>1, <1>3, <2>1, <2>2 DEF DataInv
<1>5. PcInv
  BY BusesKeepValues DEF Init, PcInv, BranchUnit, IdleEu, NoSignal
<1>6. CountInv
  <2>1. 0 \in 0..MemoryCycles
    BY Mvp4Assumption
  <2> QED BY <1>2, <2>1 DEF Init, CountInv, FetchUnit, WriteUnit, IdleEu
<1>7. status \in Ending
  BY DEF Init, Ending
<1> QED BY <1>4, <1>5, <1>6, <1>7 DEF ValueInv

\* What a step has to keep; the rest is NextKeepsOperands.
Values == DataInv /\ PcInv /\ CountInv /\ status \in Ending

\* L1I after a lookup.
LEMMA L1IKeeps ==
  ASSUME Len(l1i) \in 0..L1INumberOfLines PROVE Len(L1IAfterFetch) \in 0..L1INumberOfLines
<1>1. PICK n \in Nat : n = Len(l1i) /\ n <= L1INumberOfLines
  BY Mvp4Assumption
<1>2. PICK m \in Nat : /\ m = (IF n < L1INumberOfLines THEN n + 1 ELSE L1INumberOfLines)
                      /\ m <= L1INumberOfLines
  BY <1>1, Mvp4Assumption
<1>3. Len(L1I!Promote(l1i, fu.pc)) = n
  BY <1>1 DEF L1I!Promote
<1>4. Len(L1I!PushLine(l1i, fu.pc, << >>)) = m
  BY <1>1, <1>2 DEF L1I!PushLine
<1> QED BY <1>1, <1>2, <1>3, <1>4, Mvp4Assumption DEF L1IAfterFetch

\* The fetch unit.
LEMMA FetchKeepsValues == ASSUME ValueInv, Fetch PROVE Values'
<1>1. /\ DataInv /\ PcInv /\ CountInv /\ status \in Ending
      /\ IsBus(decodeBus) /\ MemoryCycles \in Nat \ {0}
  BY Mvp4Assumption DEF ValueInv, OperandInv, IInv, ControlTypeOK
<1>2. DataInv' /\ status' \in Ending
  <2>1. UNCHANGED <<app, registers, memory, l1d, writeBus, eu, status>>
    BY DEF Fetch, GoTo, contextVars, backVars
  <2> QED BY <1>1, <2>1, DataStays
<1>3. /\ FetchStarted \in FetchUnit /\ FetchStarted.remaining # 0
      /\ FetchStarted.processing /\ FetchStarted.pc = fu.pc
  <2>1. CASE fu.processing
    BY <1>1, <2>1 DEF FetchStarted, CountInv
  <2>2. CASE ~fu.processing
    <3>1. PICK count : count = IF L1I!Contains(l1i, fu.pc) THEN 1 ELSE MemoryCycles
      OBVIOUS
    <3>2. count \in 0..MemoryCycles /\ count # 0
      BY <1>1, <3>1
    <3>3. FetchStarted = [fu EXCEPT !.processing = TRUE, !.remaining = count]
      BY <2>2, <3>1 DEF FetchStarted
    <3>4. fu \in FetchUnit
      BY <1>1 DEF CountInv
    <3> QED BY <3>2, <3>3, <3>4 DEF FetchUnit
  <2> QED BY <2>1, <2>2
<1>4. /\ fu' \in FetchUnit /\ (fu'.processing => fu'.remaining # 0)
      /\ decodeBus' = decodeBus \/ decodeBus' = Add(decodeBus, fu.pc)
  <2>1. CASE FetchIdle
    BY <1>1, <2>1 DEF FetchIdle, frontVars, CountInv
  <2>2. CASE FetchCounts
    <3>0. PICK started : started = FetchStarted
      OBVIOUS
    <3>1. fu' = [started EXCEPT !.remaining = started.remaining - 1] /\ started.remaining # 1
      BY <3>0, <2>2 DEF FetchCounts
    <3>2. started.remaining - 1 \in 0..MemoryCycles /\ started.remaining - 1 # 0
      BY <1>1, <1>3, <3>0, <3>1 DEF FetchUnit
    <3> QED BY <1>3, <2>2, <3>0, <3>1, <3>2 DEF FetchCounts, FetchUnit
  <2>3. CASE FetchBlocked
    BY <1>3, <2>3 DEF FetchBlocked
  <2>4. CASE FetchPushes
    <3>1. fu' = [pc |-> fu.pc + 4, remaining |-> 0, processing |-> FALSE,
                 complete |-> PastEnd(fu.pc + 4)]
      BY <2>4 DEF FetchPushes
    <3>2. fu.pc + 4 \in Int /\ 0 \in 0..MemoryCycles /\ PastEnd(fu.pc + 4) \in BOOLEAN
      BY <1>1 DEF CountInv, FetchUnit, PastEnd
    <3> QED BY <2>4, <3>1, <3>2 DEF FetchPushes, FetchUnit
  <2> QED BY <2>1, <2>2, <2>3, <2>4 DEF Fetch
<1>5. Len(l1i') \in 0..L1INumberOfLines
  <2>1. l1i' = l1i \/ l1i' = L1IAfterFetch
    BY DEF Fetch, FetchIdle, FetchCounts, FetchBlocked, FetchPushes, frontVars
  <2> QED BY <1>1, <2>1, L1IKeeps DEF CountInv
<1>6. CountInv'
  <2>1. UNCHANGED <<eu, wu>>
    BY DEF Fetch, backVars
  <2> QED BY <1>1, <1>4, <1>5, <2>1 DEF CountInv
<1>7. PcInv'
  <2>1. UNCHANGED <<executeBus, eu, bu, signal>>
    BY DEF Fetch
  <2>2. fu.pc \in Int
    BY <1>1 DEF CountInv, FetchUnit
  <2>3. PcsOf(decodeBus')
    BY <1>1, <1>4, <2>2, BusesKeepValues DEF PcInv
  <2> QED BY <1>1, <2>1, <2>3 DEF PcInv, PcsOf
<1> QED BY <1>2, <1>6, <1>7 DEF Values

\* The decode unit passes on a pc or stops the run.
LEMMA DecodeKeepsValues == ASSUME ValueInv, Decode PROVE Values'
<1>1. /\ DataInv /\ PcInv /\ CountInv /\ status \in Ending
      /\ IsBus(decodeBus) /\ IsBus(executeBus)
  BY DEF ValueInv, OperandInv, IInv, ControlTypeOK
<1>2. UNCHANGED <<app, registers, memory, l1d, l1i, writeBus, fu, eu, wu, bu, signal>>
  BY DEF Decode, contextVars, backVars
<1>3. status' \in Ending
  BY <1>1 DEF Decode, DecodeBlocked, DecodeNothing, DecodeOne, GoTo, Ending
<1>4. /\ decodeBus' \in {decodeBus, AfterGet(decodeBus)}
      /\ \/ executeBus' = executeBus
         \/ /\ decodeBus.current # << >>
            /\ executeBus' = Add(executeBus, decodeBus.current[1])
  BY DEF Decode, DecodeBlocked, DecodeNothing, DecodeOne
<1>5. PcsOf(decodeBus') /\ PcsOf(executeBus')
  <2>1. decodeBus.current # << >> => decodeBus.current[1] \in Int
    BY <1>1 DEF PcInv, PcsOf
  <2> QED BY <1>1, <1>4, <2>1, BusesKeepValues DEF PcInv
<1>6. PcInv'
  BY <1>1, <1>2, <1>5 DEF PcInv, PcsOf
<1> QED BY <1>1, <1>2, <1>3, <1>6, DataStays, CountStays DEF Values

\* The write unit.
LEMMA WriteUnitKeepsValues ==
  ASSUME ValueInv, WriteUnitCycle,
         UNCHANGED <<app, l1i, fu, decodeBus, l1d, executeBus, eu, bu, signal>>
  PROVE  Values'
<1>1. /\ DataInv /\ PcInv /\ CountInv /\ status \in Ending
      /\ IsBus(writeBus) /\ MemoryCycles \in Nat \ {0}
  BY Mvp4Assumption DEF ValueInv, OperandInv, IInv, ControlTypeOK
<1>2. status' \in Ending
  BY <1>1 DEF WriteUnitCycle, WriteWaits, WriteNothing, WriteRegisterBack, WriteMemoryBack,
     WriteNoChange, Ending
<1>3. PcInv'
  BY <1>1, PcStays
<1>4. wu' \in WriteUnit /\ (wu'.pendingMemoryWrite => wu'.cycles # 0)
  <2>1. CASE WriteWaits
    <3>1. /\ wu' = [wu EXCEPT !.cycles = wu.cycles - 1, !.pendingMemoryWrite = (wu.cycles # 1)]
          /\ wu.pendingMemoryWrite
      BY <2>1 DEF WriteWaits
    <3>2. wu.cycles - 1 \in 0..MemoryCycles /\ (wu.cycles # 1 => wu.cycles - 1 # 0)
      BY <1>1, <3>1 DEF CountInv, WriteUnit
    <3> QED BY <1>1, <3>1, <3>2 DEF CountInv, WriteUnit
  <2>2. CASE WriteMemoryBack
    <3>1. MemoryCycles \in 0..MemoryCycles
      BY <1>1
    <3> QED BY <1>1, <2>2, <3>1 DEF WriteMemoryBack, WriteUnit
  <2>3. CASE UNCHANGED wu
    BY <1>1, <2>3 DEF CountInv
  <2> QED BY <2>1, <2>2, <2>3 DEF WriteUnitCycle, WriteNothing, WriteRegisterBack, WriteNoChange
<1>5. CountInv'
  BY <1>1, <1>4 DEF CountInv
<1>6. Computed(writeBus'.current) /\ Computed(writeBus'.pending)
  <2>1. writeBus' \in {writeBus, AfterGet(writeBus)}
    BY DEF WriteUnitCycle, WriteWaits, WriteNothing, WriteRegisterBack, WriteMemoryBack,
       WriteNoChange
  <2> QED BY <1>1, <2>1, BusesKeepValues DEF DataInv
<1>7. registers' \in [Register -> Word] /\ IsMemory(memory')
  <2>1. CASE WriteRegisterBack
    <3>1. PICK done : done = writeBus.current[1] /\ WordResult(done.exe)
      BY <1>1, <2>1 DEF WriteRegisterBack, DataInv, Computed
    <3>2. PICK written : /\ written = WriteRegister(registers, done.exe)
                         /\ written \in [Register -> Word]
      <4>1. registers \in [Register -> Word] /\ done.exe.RegisterValue \in Word
        BY <1>1, <3>1 DEF WordResult, DataInv
      <4>2. WriteRegister(registers, done.exe) \in [Register -> Word]
        BY <4>1 DEF WriteRegister
      <4> QED BY <4>2
    <3>3. registers' = [r \in Register |->
             IF r \in done.writes /\ written[r] <= 0 THEN 0 ELSE written[r]]
      BY <2>1, <3>1, <3>2 DEF WriteRegisterBack
    <3>4. 0 \in Word
      BY SmallWords
    <3>5. UNCHANGED memory
      BY <2>1 DEF WriteRegisterBack
    <3> QED BY <1>1, <3>2, <3>3, <3>4, <3>5 DEF DataInv
  <2>2. CASE WriteMemoryBack
    <3>1. PICK changes : /\ changes = writeBus.current[1].exe.MemoryChanges
                         /\ \A a \in DOMAIN changes : changes[a] \in Byte
      BY <1>1, <2>2 DEF WriteMemoryBack, DataInv, Computed, WordResult
    <3>2. memory' = memory \/ memory' = WriteMemory(memory, changes)
      BY <2>2, <3>1 DEF WriteMemoryBack
    <3>3. IsMemory(WriteMemory(memory, changes))
      BY <1>1, <3>1 DEF DataInv, IsMemory, WriteMemory
    <3> QED BY <1>1, <2>2, <3>2, <3>3 DEF WriteMemoryBack, DataInv
  <2>3. CASE UNCHANGED <<registers, memory>>
    BY <1>1, <2>3 DEF DataInv
  <2> QED BY <2>1, <2>2, <2>3 DEF WriteUnitCycle, WriteWaits, WriteNothing, WriteNoChange, contextVars
<1>8. DataInv'
  BY <1>1, <1>6, <1>7 DEF DataInv, LoadsBytes, Computed, InstructionAt
<1> QED BY <1>2, <1>3, <1>5, <1>8 DEF Values

LEMMA WriteBackKeepsValues == ASSUME ValueInv, WriteBack PROVE Values'
BY WriteUnitKeepsValues DEF WriteBack, frontVars

LEMMA DrainKeepsValues == ASSUME ValueInv, Drain PROVE Values'
BY WriteUnitKeepsValues DEF Drain, frontVars

\* The end of a cycle writes the cache back if it is the last one.
LEMMA EndOfCycleKeepsValues == ASSUME ValueInv, EndOfCycle PROVE Values'
<1>1. DataInv /\ PcInv /\ CountInv /\ status \in Ending
  BY DEF ValueInv
<1>2. UNCHANGED <<app, registers, l1i, fu, decodeBus, l1d, executeBus, eu, bu, writeBus, wu, signal>>
  BY DEF EndOfCycle, frontVars, backVars
<1>3. status' \in Ending
  BY <1>1 DEF EndOfCycle, GoTo, Ending
<1>4. IsMemory(memory')
  <2>1. memory' = memory \/ memory' = Flushed(l1d, memory)
    BY DEF EndOfCycle
  <2>2. /\ memory \in [DOMAIN memory -> Byte] /\ DOMAIN memory \subseteq Int
        /\ l1d \in Seq(LineOf(Byte))
    BY <1>1 DEF DataInv, IsMemory, IsCacheOf
  <2>3. Flushed(l1d, memory) \in [DOMAIN memory -> Byte]
    BY <2>2, FlushKeepsValues
  <2> QED BY <1>1, <2>1, <2>3 DEF DataInv, IsMemory
<1>5. DataInv'
  BY <1>1, <1>2, <1>4 DEF DataInv, LoadsBytes, Computed, InstructionAt
<1> QED BY <1>1, <1>2, <1>3, <1>5, PcStays, CountStays DEF Values

\* The flush of the pipeline.
LEMMA PipelineFlushKeepsValues == ASSUME ValueInv, FlushPipeline PROVE Values'
<1>1. DataInv /\ PcInv /\ CountInv /\ status \in Ending
  BY DEF ValueInv
<1>2. /\ UNCHANGED <<app, registers, memory, l1i, l1d, eu, bu, wu, status>>
      /\ decodeBus' = EmptyBus /\ executeBus' = EmptyBus /\ writeBus' = EmptyBus
      /\ signal' = NoSignal
      /\ fu' = [fu EXCEPT !.processing = FALSE, !.complete = FALSE, !.pc = signal.pc]
  BY DEF FlushPipeline, GoTo
<1>3. DataInv'
  BY <1>1, <1>2, BusesKeepValues, EmptyBusIsBus DEF DataInv, LoadsBytes, InstructionAt, Computed
<1>4. PcInv'
  BY <1>1, <1>2, BusesKeepValues DEF PcInv, PcsOf, NoSignal
<1>5. CountInv'
  <2>1. fu' \in FetchUnit /\ ~fu'.processing
    BY <1>1, <1>2 DEF CountInv, PcInv, FetchUnit
  <2> QED BY <1>1, <1>2, <2>1 DEF CountInv
<1> QED BY <1>1, <1>2, <1>3, <1>4, <1>5 DEF Values

\* What the execute unit takes on.
LEMMA JobValues ==
  ASSUME ValueInv, HasJob, ~eu.waiting
  PROVE  /\ Job.pc \in Int /\ Job.remaining \in Nat \ {0} /\ ~Job.waiting /\ ~Job.cached
         /\ DOMAIN Job = DOMAIN IdleEu
<1>1. /\ eu.remaining \in Nat /\ (eu.processing => eu.remaining # 0) /\ eu.pc \in Int
      /\ (eu.cached => eu.waiting) /\ PcsOf(executeBus) /\ DOMAIN eu = DOMAIN IdleEu
  BY DEF ValueInv, DataInv, LoadsBytes, CountInv, PcInv, OperandInv, IInv, ControlTypeOK
<1>2. CASE eu.processing
  BY <1>1, <1>2 DEF Job
<1>3. CASE ~eu.processing
  <2>1. executeBus.current # << >> /\ executeBus.current[1] \in Int
    BY <1>1, <1>3 DEF HasJob, PcsOf
  <2>2. PICK count \in Nat \ {0} : count = Cycles(InstructionAt(executeBus.current[1]))
    BY IsaAssumption DEF Cycles
  <2>3. Job = [IdleEu EXCEPT !.processing = TRUE, !.pc = executeBus.current[1], !.remaining = count]
    BY <1>3, <2>2 DEF Job
  <2> QED BY <2>1, <2>2, <2>3 DEF IdleEu
<1> QED BY <1>2, <1>3

LEMMA TakeKeepsPcs == ASSUME ValueInv, TakeJob \/ UNCHANGED executeBus PROVE PcsOf(executeBus')
<1>1. IsBus(executeBus) /\ PcsOf(executeBus)
  BY DEF ValueInv, PcInv, OperandInv, IInv, ControlTypeOK
<1>2. executeBus' \in {executeBus, AfterGet(executeBus)}
  BY DEF TakeJob
<1> QED BY <1>1, <1>2, BusesKeepValues

\* An instruction of the program, its pc and the labels.
LEMMA ProgramValues ==
  ASSUME ValueInv, NEW pc \in Int, InProgram(pc)
  PROVE  InstructionAt(pc) \in InstructionRunner /\ pc \in Word /\ LabelsAreWords(app)
<1>1. app \in Applications /\ IsApplication(app)
  BY Mvp4Assumption DEF ValueInv, OperandInv
<1>2. IndexOf(pc) \in 0..Len(app.Instructions) - 1
  <2>1. IndexOf(pc) \in Int
    BY TruncDivides DEF IndexOf
  <2>2. Len(app.Instructions) \in Nat
    BY <1>1 DEF IsApplication
  <2> QED BY <2>1, <2>2 DEF InProgram
<1> QED BY <1>1, <1>2, ValuesOfProgram DEF InstructionAt

\* A load returns a word and nothing else.
LEMMA LoadSucceeds ==
  ASSUME NEW code, code.op \in LoadOps, NEW application, NEW regs, NEW pc, NEW bytes,
         NEW exe, exe = Run(code, application, regs, pc, bytes)
  PROVE  exe.Outcome = "ok" /\ ~exe.Return
<1>1. exe = LoadRun(code, bytes)
  BY RunOfLoad, Zenon
<1> QED BY <1>1 DEF LoadRun, RegisterResult, NoChange

\* executeUnit.run.
LEMMA FinishKeepsValues ==
  ASSUME ValueInv, NEW job, NEW bytes, NEW lines, NEW ram, NEW unit \in BranchUnit,
         Finish(job, bytes, lines, ram, unit),
         UNCHANGED <<app, l1i, fu, decodeBus, wu>>, PcsOf(executeBus'),
         job.pc \in Int, InProgram(job.pc), IsCacheOf(lines, Byte), IsMemory(ram),
         InstructionAt(job.pc).op \in LoadOps =>
           \A i \in 1..AccessSize(InstructionAt(job.pc)) : bytes[i] \in Byte,
         InstructionAt(job.pc).op \notin LoadOps =>
           job.remaining \in Nat \ {0} /\ ~job.waiting /\ ~job.cached
  PROVE  Values'
<1>1. DataInv /\ PcInv /\ CountInv /\ status \in Ending /\ IsBus(writeBus)
  BY DEF ValueInv, OperandInv, IInv, ControlTypeOK
<1>2. PICK pc, code : /\ pc = job.pc /\ code = InstructionAt(pc)
                      /\ code \in InstructionRunner /\ pc \in Int /\ pc \in Word
                      /\ LabelsAreWords(app)
  BY ProgramValues
<1>3. registers \in [Register -> Word]
  BY <1>1 DEF DataInv
<1>4. PICK exe : exe = Run(code, app, registers, pc, bytes)
  OBVIOUS
<1>5. WordResult(exe) /\ exe.Outcome \in {"ok", "error", "panic"}
  BY <1>2, <1>3, <1>4, ResultsAreWords, OutcomesOfRun
<1>6. code.op \in LoadOps => exe.Outcome = "ok" /\ ~exe.Return
  BY <1>4, LoadSucceeds
<1>7. status' \in Ending
  BY <1>1, <1>2, <1>4, <1>5 DEF Finish, GoTo, Ending
<1>8. PICK probed :
        /\ l1d' \in {l1d, lines, probed, Write(probed, exe.MemoryChanges)}
        /\ IsCacheOf(probed, Byte)
  <2>1. PICK probed : /\ probed = lines \/ probed \in Probed(lines, exe.MemoryChanges)
                      /\ l1d' \in {l1d, lines, probed, Write(probed, exe.MemoryChanges)}
    BY <1>2, <1>4 DEF Finish
  <2>2. IsCacheOf(probed, Byte)
    BY <2>1, LookupsKeepLines DEF Probed
  <2> QED BY <2>1, <2>2
<1>9. IsCacheOf(l1d', Byte)
  <2>1. IsCacheOf(Write(probed, exe.MemoryChanges), Byte)
    BY <1>5, <1>8, WriteKeepsLines DEF WordResult
  <2> QED BY <1>1, <1>8, <2>1 DEF DataInv
<1>10. memory' = ram
  BY DEF Finish
<1>11. registers' \in [Register -> Word]
  <2>1. registers' = registers \/ registers' = DirectWrite(code, exe, registers, pc)
    BY <1>2, <1>4 DEF Finish
  <2>2. DirectWrite(code, exe, registers, pc) \in [Register -> Word]
    BY <1>2, <1>3, IsaAssumption DEF DirectWrite
  <2> QED BY <1>3, <2>1, <2>2
<1>12. Computed(writeBus'.current) /\ Computed(writeBus'.pending)
  <2>1. \/ writeBus' = writeBus
        \/ \E t : writeBus' = Add(writeBus, t) /\ t.exe = exe
    BY <1>2, <1>4 DEF Finish
  <2>2. ASSUME NEW t, t.exe = exe PROVE Computed(<<t>>)
    BY <1>5, <2>2 DEF Computed
  <2> QED BY <1>1, <2>1, <2>2, BusesKeepValues DEF DataInv
<1>13. \/ eu' = IdleEu
       \/ eu' = job /\ job.remaining \in Nat \ {0} /\ ~job.waiting /\ ~job.cached
  <2>1. \/ eu' = IdleEu
        \/ eu' = job /\ (exe.Outcome # "ok" \/ exe.Return)
    BY <1>2, <1>4 DEF Finish
  <2> QED BY <1>2, <1>6, <2>1
<1>14. /\ eu'.pc \in Int /\ eu'.remaining \in Nat /\ ~eu'.waiting /\ ~eu'.cached
       /\ (eu'.processing => eu'.remaining # 0)
  BY <1>2, <1>13 DEF IdleEu
<1>15. bu' \in BranchUnit
  <2>1. bu' \in {unit, [unit EXCEPT !.toCheck = FALSE]}
    BY DEF Finish
  <2> QED BY <2>1 DEF BranchUnit
<1>16. signal'.pc \in Int
  <2>1. \/ signal' = signal \/ signal' = NoSignal \/ signal' = [NoSignal EXCEPT !.ret = TRUE]
        \/ signal' = [NoSignal EXCEPT !.flush = TRUE, !.pc = exe.NextPc]
    BY <1>2, <1>4 DEF Finish
  <2>2. exe.NextPc \in Int
    BY <1>5 DEF WordResult, Word
  <2>3. signal.pc \in Int
    BY <1>1 DEF PcInv
  <2>4. /\ NoSignal.pc \in Int /\ [NoSignal EXCEPT !.ret = TRUE].pc \in Int
        /\ [NoSignal EXCEPT !.flush = TRUE, !.pc = exe.NextPc].pc = exe.NextPc
    BY DEF NoSignal
  <2> QED BY <2>1, <2>2, <2>3, <2>4
<1>17. DataInv'
  BY <1>9, <1>10, <1>11, <1>12, <1>14 DEF DataInv, LoadsBytes, Computed, IsMemory, InstructionAt
<1>18. PcInv'
  BY <1>1, <1>14, <1>15, <1>16 DEF PcInv, PcsOf
<1>19. CountInv'
  BY <1>1, <1>14 DEF CountInv
<1> QED BY <1>7, <1>17, <1>18, <1>19 DEF Values

\* The execute unit.
LEMMA ExecuteKeepsValues == ASSUME ValueInv, Execute PROVE Values'
<1>1. /\ DataInv /\ PcInv /\ CountInv /\ status \in Ending /\ OperandInv
      /\ (eu.waiting => eu.processing) /\ (eu.processing => InProgram(eu.pc))
      /\ LoadsBytes(eu) /\ eu.pc \in Int /\ eu.remaining \in Nat
      /\ (eu.processing => eu.remaining # 0) /\ DOMAIN eu = DOMAIN IdleEu
      /\ IsCacheOf(l1d, Byte) /\ IsMemory(memory) /\ bu \in BranchUnit
      /\ MemoryCycles \in Nat \ {0} /\ LoadCycles \in Nat \ {0}
  BY IsaAssumption, Mvp4Assumption
     DEF ValueInv, OperandInv, IInv, ControlTypeOK, IdleDuringFlush, DataInv, PcInv, CountInv
<1>2. UNCHANGED <<app, l1i, fu, decodeBus, wu>>
  BY DEF Execute, frontVars
<1>3. PcsOf(executeBus')
  <2>1. TakeJob \/ UNCHANGED executeBus
    BY DEF Execute, ExecuteWaits, ExecuteReceives, ExecuteNothing, ExecuteCounts,
       ExecuteBlocked, ExecuteHazard, ExecuteReads, ExecuteRuns
  <2> QED BY <2>1, TakeKeepsPcs
<1>4. ASSUME NotFinished, LoadsBytes(eu'), eu'.pc \in Int, eu'.remaining \in Nat \ {0} \/ eu' = eu,
             IsCacheOf(l1d', Byte), bu' \in BranchUnit
      PROVE  Values'
  <2>1. UNCHANGED <<registers, memory, writeBus, signal, status>>
    BY <1>4 DEF NotFinished, GoTo, contextVars
  <2>2. DataInv'
    BY <1>1, <1>2, <1>4, <2>1 DEF DataInv, LoadsBytes, InstructionAt, Computed, IsMemory
  <2>3. PcInv'
    BY <1>1, <1>2, <1>3, <1>4, <2>1 DEF PcInv, PcsOf
  <2>4. CountInv'
    BY <1>1, <1>2, <1>4 DEF CountInv
  <2> QED BY <1>1, <2>1, <2>2, <2>3, <2>4 DEF Values
<1>5. ASSUME HasJob, ~eu.waiting
      PROVE  /\ Job.pc \in Int /\ Job.remaining \in Nat \ {0} /\ ~Job.waiting /\ ~Job.cached
             /\ DOMAIN Job = DOMAIN IdleEu /\ LoadsBytes(Job) /\ Assert(Job.pc) \in BranchUnit
             /\ (TakeJob => InProgram(Job.pc))
  <2>1. Job.pc \in Int /\ ~Job.waiting /\ ~Job.cached /\ Job.remaining \in Nat \ {0}
        /\ DOMAIN Job = DOMAIN IdleEu
    BY <1>5, JobValues
  <2>2. Assert(Job.pc) \in BranchUnit
    BY <1>1, <2>1 DEF Assert, BranchUnit
  <2>3. TakeJob => InProgram(Job.pc)
    BY <1>1, <1>5, JobInProgram
  <2> QED BY <2>1, <2>2, <2>3 DEF LoadsBytes
<1>6. CASE ExecuteWaits
  <2>1. eu' = [eu EXCEPT !.remaining = eu.remaining - 1] /\ eu.waiting /\ eu.remaining # 1
    BY <1>6 DEF ExecuteWaits
  <2>2. eu.remaining - 1 \in Nat \ {0}
    BY <1>1, <2>1
  <2>3. /\ eu'.remaining = eu.remaining - 1 /\ eu'.pc = eu.pc /\ eu'.waiting = eu.waiting
        /\ eu'.cached = eu.cached /\ eu'.bytes = eu.bytes /\ eu'.addrs = eu.addrs
    BY <1>1, <2>1 DEF IdleEu
  <2>4. LoadsBytes(eu')
    BY <1>1, <2>3 DEF LoadsBytes
  <2> QED BY <1>1, <1>4, <1>6, <2>2, <2>3, <2>4 DEF ExecuteWaits
<1>7. CASE ExecuteNothing
  BY <1>1, <1>4, <1>7 DEF ExecuteNothing
<1>8. CASE ExecuteCounts
  <2>1. /\ eu' = [Job EXCEPT !.remaining = Job.remaining - 1] /\ Job.remaining # 1
        /\ HasJob /\ ~eu.waiting
    BY <1>8 DEF ExecuteCounts
  <2>2. Job.remaining - 1 \in Nat \ {0}
    BY <1>5, <2>1
  <2>3. /\ eu'.remaining = Job.remaining - 1 /\ eu'.pc = Job.pc /\ ~eu'.waiting /\ ~eu'.cached
    BY <1>5, <2>1 DEF IdleEu
  <2> QED BY <1>1, <1>4, <1>5, <1>8, <2>1, <2>2, <2>3 DEF ExecuteCounts, LoadsBytes
<1>9. CASE ExecuteBlocked
  BY <1>1, <1>4, <1>5, <1>9 DEF ExecuteBlocked
<1>10. CASE ExecuteHazard
  BY <1>1, <1>4, <1>5, <1>10 DEF ExecuteHazard, Ready
<1>11. CASE ExecuteReads
  <2>1. PICK job, addrs :
          /\ job = Job /\ addrs = MemoryRead(InstructionAt(job.pc), registers) /\ addrs # << >>
          /\ l1d' = TouchAll(l1d, addrs)
          /\ \/ /\ AllIn(l1d, addrs)
                /\ eu' = [job EXCEPT !.waiting = TRUE, !.remaining = L1AccessCycles,
                                     !.bytes = ReadValues(l1d, addrs), !.cached = TRUE]
             \/ eu' = [job EXCEPT !.waiting = TRUE, !.remaining = MemoryCycles, !.addrs = addrs]
    BY <1>11, Zenon DEF ExecuteReads
  <2>2. job.pc \in Int /\ ~job.cached /\ DOMAIN job = DOMAIN IdleEu /\ bu' \in BranchUnit
    BY <1>5, <1>11, <2>1 DEF ExecuteReads, Ready
  <2>3. /\ InstructionAt(job.pc).op \in LoadOps
        /\ Len(addrs) = AccessSize(InstructionAt(job.pc))
        /\ \A i \in 1..Len(addrs) : addrs[i] \in Int
    <3>1. InstructionAt(job.pc) \in InstructionRunner
      BY <1>5, <1>11, <2>1, ProgramValues DEF ExecuteReads, Ready
    <3> QED BY <1>1, <2>1, <3>1, LoadAddresses DEF DataInv
  <2>4. AllIn(l1d, addrs) => \A i \in 1..Len(addrs) : ReadValues(l1d, addrs)[i] \in Byte
    BY <1>1, <2>3, ReadsValues DEF IsCacheOf
  <2>5. eu'.remaining \in Nat \ {0} /\ eu'.pc = job.pc
    <3>1. eu'.remaining \in {L1AccessCycles, MemoryCycles} /\ eu'.pc = job.pc
      BY <2>1, <2>2 DEF IdleEu
    <3>2. L1AccessCycles \in Nat \ {0}
      BY DEF L1AccessCycles
    <3> QED BY <1>1, <3>1, <3>2
  <2>6. LoadsBytes(eu')
    BY <2>1, <2>2, <2>3, <2>4 DEF LoadsBytes, IdleEu
  <2>7. IsCacheOf(l1d', Byte)
    BY <1>1, <2>1, LookupsKeepLines
  <2> QED BY <1>4, <1>11, <2>2, <2>5, <2>6, <2>7 DEF ExecuteReads
<1>12. CASE ExecuteReceives
  <2>1. /\ eu.waiting /\ eu.processing /\ InstructionAt(eu.pc).op \in LoadOps
        /\ Received.pc = eu.pc /\ InProgram(eu.pc)
    BY <1>1, <1>12 DEF ExecuteReceives, LoadsBytes, Received, IdleEu
  <2>2. CASE eu.cached
    <3>1. Finish(Received, eu.bytes, l1d, memory, bu)
      BY <1>12, <2>2 DEF ExecuteReceives
    <3>2. \A i \in 1..AccessSize(InstructionAt(eu.pc)) : eu.bytes[i] \in Byte
      BY <1>1, <2>1, <2>2 DEF LoadsBytes
    <3> QED BY <1>1, <1>2, <1>3, <2>1, <3>1, <3>2, FinishKeepsValues
  <2>3. CASE ~eu.cached /\ NoLine(l1d, memory, eu.addrs, Word)
    <3>1. status' = "panic" /\ UNCHANGED <<contextVars, l1d, eu, bu, writeBus, signal>>
      BY <1>12, <2>3 DEF ExecuteReceives
    <3>2. UNCHANGED executeBus
      BY <1>12 DEF ExecuteReceives
    <3> QED BY <1>1, <1>2, <3>1, <3>2, DataStays, PcStays, CountStays DEF Values, contextVars, Ending
  <2>4. CASE ~eu.cached /\ ~NoLine(l1d, memory, eu.addrs, Word)
    <3>1. PICK addrs, pushed : /\ addrs = eu.addrs /\ pushed = PushedLines(l1d, memory, addrs[1])
                               /\ Finish(Received, ReadValues(pushed, addrs),
                                         TouchAll(pushed, addrs),
                                         PushedMemory(l1d, memory, addrs[1]), bu)
      BY <1>12, <2>4 DEF ExecuteReceives
    <3>2. /\ Len(addrs) = AccessSize(InstructionAt(eu.pc)) /\ Len(addrs) \in 1..4
          /\ \A i \in 1..Len(addrs) : addrs[i] \in Int
      <4>1. /\ Len(addrs) = AccessSize(InstructionAt(eu.pc))
            /\ \A i \in 1..Len(addrs) : addrs[i] \in Int
        BY <1>1, <2>1, <2>4, <3>1, Zenon DEF LoadsBytes
      <4>2. AccessSize(InstructionAt(eu.pc)) \in 1..4
        BY <2>1 DEF AccessSize, LoadOps
      <4> QED BY <4>1, <4>2
    <3>3. addrs[1] \in Int /\ AllIn(pushed, addrs) /\ 0 \in Byte
      BY <2>4, <3>1, <3>2, ByteRange DEF NoLine
    <3>4. memory \in [DOMAIN memory -> Byte]
      BY <1>1 DEF IsMemory
    <3>5. /\ IsCacheOf(pushed, Byte)
          /\ PushedMemory(l1d, memory, addrs[1]) \in [DOMAIN memory -> Byte]
      BY <1>1, <3>1, <3>3, <3>4, PushesKeepValues
    <3>6. IsMemory(PushedMemory(l1d, memory, addrs[1])) /\ IsCacheOf(TouchAll(pushed, addrs), Byte)
      BY <1>1, <3>5, LookupsKeepLines DEF IsMemory
    <3>7. \A i \in 1..AccessSize(InstructionAt(eu.pc)) : ReadValues(pushed, addrs)[i] \in Byte
      BY <3>2, <3>3, <3>5, ReadsValues DEF IsCacheOf
    <3> QED BY <1>1, <1>2, <1>3, <2>1, <3>1, <3>6, <3>7, FinishKeepsValues
  <2> QED BY <2>2, <2>3, <2>4
<1>13. CASE ExecuteRuns
  <2>1. /\ Finish(Job, << >>, l1d, memory, Assert(Job.pc)) /\ TakeJob /\ HasJob /\ ~eu.waiting
        /\ MemoryRead(InstructionAt(Job.pc), registers) = << >>
    BY <1>13 DEF ExecuteRuns, Ready
  <2>2. InstructionAt(Job.pc).op \notin LoadOps
    <3>1. InstructionAt(Job.pc) \in InstructionRunner
      BY <1>5, <2>1, ProgramValues
    <3> QED BY <1>1, <2>1, <3>1, LoadAddresses DEF DataInv
  <2> QED BY <1>1, <1>2, <1>3, <1>5, <2>1, <2>2, FinishKeepsValues
<1> QED BY <1>6, <1>7, <1>8, <1>9, <1>10, <1>11, <1>12, <1>13 DEF Execute

\* Every step of MVP-4.
LEMMA NextKeepsValues == ASSUME ValueInv, [Next]_vars PROVE ValueInv'
<1>1. OperandInv'
  BY NextKeepsOperands DEF ValueInv
<1>2. CASE UNCHANGED vars
  <2>1. UNCHANGED <<app, registers, memory, l1d, writeBus, eu, decodeBus, executeBus, bu,
                    signal, fu, wu, l1i, status>>
    BY <1>2 DEF vars, contextVars, frontVars, backVars
  <2> QED BY <1>1, <2>1, DataStays, PcStays, CountStays DEF ValueInv
<1>3. CASE Next /\ ~UNCHANGED vars
  <2>1. Values'
    BY <1>3, FetchKeepsValues, DecodeKeepsValues, ExecuteKeepsValues, WriteBackKeepsValues,
       EndOfCycleKeepsValues, DrainKeepsValues, PipelineFlushKeepsValues DEF Next, Ended
  <2> QED BY <1>1, <2>1 DEF Values, ValueInv
<1> QED BY <1>2, <1>3

\* Whatever the program, every unit of MVP-4 works with what the code's types say: int32
\* words in the registers (and on the way to them), int8 bytes in the memory and in every
\* line of the data cache, counters that never pass zero, caches not longer than their
\* length, and a run that ends in one of the ways Run has.
THEOREM PipelineTypes == Spec => []TypeOK
<1>1. Init => ValueInv
  <2>1. Init => OperandInv
    BY InitOperands
  <2> QED BY <2>1, InitValues
<1>2. ValueInv /\ [Next]_vars => ValueInv'
  BY NextKeepsValues
<1>3. ValueInv => TypeOK
  BY ValuesHaveTypes
<1> QED BY <1>1, <1>2, <1>3, PTL DEF Spec

-----------------------------------------------------------------------------
(* The branch target buffer (btb.go)                                       *)

\* No pc has two entries.
Unambiguous(entries) ==
  \A i, j \in 1..Len(entries) : entries[i].pc = entries[j].pc => i = j

\* Every entry is the new one or one of the old ones.
OldOrNew(learned, buffer, entry) ==
  \A i \in 1..Len(learned) :
    learned[i] = entry \/ \E j \in 1..Len(buffer) : learned[i] = buffer[j]

\* An entry of a buffer after add is an old one or the new one, and no pc has
\* got a second entry.
LEMMA LearnedEntries ==
  ASSUME NEW S, NEW buffer \in Seq(S), NEW pc, NEW pcDest, Len(buffer) <= BtbSize,
         Unambiguous(buffer), NEW entry, entry = [pc |-> pc, pcDest |-> pcDest],
         NEW learned, learned = Learn(buffer, pc, pcDest)
  PROVE  /\ learned \in Seq(S \cup {entry}) /\ Len(learned) <= BtbSize
         /\ Unambiguous(learned)
         /\ OldOrNew(learned, buffer, entry)
<1>0. /\ BtbSize \in Nat \ {0} /\ entry.pc = pc
      /\ buffer \in Seq(S \cup {entry}) /\ Len(buffer) \in Nat
  BY BtbAssumption
<1>1. CASE Known(buffer, pc)
  <2>1. learned = [i \in 1..Len(buffer) |-> IF buffer[i].pc = pc THEN entry ELSE buffer[i]]
    BY <1>1 DEF Learn
  <2>2. \A i \in 1..Len(buffer) : buffer[i] \in S \cup {entry}
    BY <1>0
  <2>3. learned \in Seq(S \cup {entry}) /\ Len(learned) = Len(buffer)
    BY <1>0, <2>1, <2>2
  <2>4. \A i \in 1..Len(buffer) : learned[i].pc = buffer[i].pc
    BY <1>0, <2>1
  <2>5. Unambiguous(learned)
    BY <2>3, <2>4 DEF Unambiguous
  <2> QED BY <1>0, <2>1, <2>3, <2>5 DEF OldOrNew
<1>2. CASE ~Known(buffer, pc) /\ Len(buffer) # BtbSize
  <2>1. learned = Append(buffer, entry)
    BY <1>2 DEF Learn
  <2>2. \A i \in 1..Len(buffer) : buffer[i].pc # pc
    BY <1>2 DEF Known
  <2>3. /\ learned \in Seq(S \cup {entry}) /\ Len(learned) = Len(buffer) + 1
        /\ \A i \in 1..Len(buffer) : learned[i] = buffer[i]
        /\ learned[Len(buffer) + 1] = entry
    BY <1>0, <2>1
  <2>4. Len(learned) <= BtbSize
    BY <1>0, <1>2, <2>3
  <2>5. Unambiguous(learned)
    BY <1>0, <2>2, <2>3 DEF Unambiguous
  <2>6. OldOrNew(learned, buffer, entry)
    BY <1>0, <2>3 DEF OldOrNew
  <2> QED BY <2>3, <2>4, <2>5, <2>6
<1>3. CASE ~Known(buffer, pc) /\ Len(buffer) = BtbSize
  <2>1. learned = Append(Tail(buffer), entry)
    BY <1>3 DEF Learn
  <2>2. \A i \in 1..Len(buffer) : buffer[i].pc # pc
    BY <1>3 DEF Known
  <2>3. /\ learned \in Seq(S \cup {entry}) /\ Len(learned) = Len(buffer)
        /\ \A i \in 1..Len(buffer) - 1 : learned[i] = buffer[i + 1]
        /\ learned[Len(buffer)] = entry
    <3>1. /\ Tail(buffer) \in Seq(S \cup {entry}) /\ Len(Tail(buffer)) = Len(buffer) - 1
          /\ \A i \in 1..Len(buffer) - 1 : Tail(buffer)[i] = buffer[i + 1]
      BY <1>0, <1>3
    <3> QED BY <1>0, <2>1, <3>1
  <2>4. Unambiguous(learned)
    <3> SUFFICES ASSUME NEW i \in 1..Len(buffer), NEW j \in 1..Len(buffer),
                        learned[i].pc = learned[j].pc, i # j
                 PROVE  FALSE
      BY <2>3 DEF Unambiguous
    <3>1. \A k \in 1..Len(buffer) : k # Len(buffer) =>
            k + 1 \in 1..Len(buffer) /\ learned[k] = buffer[k + 1]
      BY <1>0, <2>3
    <3> QED BY <1>0, <2>2, <2>3, <3>1 DEF Unambiguous
  <2>5. OldOrNew(learned, buffer, entry)
    <3> SUFFICES ASSUME NEW i \in 1..Len(learned)
                 PROVE  learned[i] = entry \/ \E j \in 1..Len(buffer) : learned[i] = buffer[j]
      BY DEF OldOrNew
    <3>1. i # Len(buffer) => i + 1 \in 1..Len(buffer) /\ learned[i] = buffer[i + 1]
      BY <1>0, <2>3
    <3> QED BY <2>3, <3>1
  <2> QED BY <1>0, <1>3, <2>3, <2>4, <2>5
<1> QED BY <1>1, <1>2, <1>3

-----------------------------------------------------------------------------
(* The decoded instructions and the stop of the decode unit (du.go)        *)

\* The property DecodeWaitsForJump of a list of pcs and a decode unit.
Waits(pcs, stopped) ==
  /\ \A i \in 1..Len(pcs) : IsJump(pcs[i]) <=> stopped /\ i = Len(pcs)
  /\ stopped => Len(pcs) # 0

\* Decoding one more: the unit stops if it is a jump.
LEMMA DecodingKeepsWaits ==
  ASSUME NEW S, NEW pcs \in Seq(S), NEW pc, Waits(pcs, FALSE)
  PROVE  Waits(Append(pcs, pc), IsJump(pc))
<1>1. /\ Len(Append(pcs, pc)) = Len(pcs) + 1 /\ Append(pcs, pc)[Len(pcs) + 1] = pc
      /\ \A i \in 1..Len(pcs) : Append(pcs, pc)[i] = pcs[i]
      /\ Len(pcs) \in Nat
  <2>1. pcs \in Seq(S \cup {pc}) /\ pc \in S \cup {pc}
    OBVIOUS
  <2> QED BY <2>1
<1>2. \A i \in 1..Len(pcs) : ~IsJump(pcs[i])
  BY DEF Waits, IsJump, IsUnconditionalBranch
<1> QED BY <1>1, <1>2 DEF Waits, IsJump, IsUnconditionalBranch

\* Executing the oldest: if it is the jump, the unit is free again.
LEMMA ExecutingKeepsWaits ==
  ASSUME NEW S, NEW pcs \in Seq(S), pcs # << >>, NEW stopped \in BOOLEAN, Waits(pcs, stopped),
         NEW rest, rest = Tail(pcs)
  PROVE  Waits(rest, stopped /\ ~IsJump(pcs[1]))
<1>1. /\ Len(pcs) \in Nat \ {0} /\ Len(rest) = Len(pcs) - 1
      /\ \A i \in 1..Len(pcs) - 1 : rest[i] = pcs[i + 1]
  OBVIOUS
<1>2. /\ \A i \in 1..Len(pcs) : IsJump(pcs[i]) <=> stopped /\ i = Len(pcs)
      /\ 1 \in 1..Len(pcs)
  <2>1. \A i \in 1..Len(pcs) : IsJump(pcs[i]) <=> stopped /\ i = Len(pcs)
    BY Zenon DEF Waits
  <2>2. 1 \in 1..Len(pcs)
    BY <1>1
  <2> QED BY <2>1, <2>2
<1>3. IsJump(pcs[1]) <=> stopped /\ 1 = Len(pcs)
  BY <1>2, Zenon
<1>4. \A i \in 1..Len(pcs) - 1 : IsJump(pcs[i + 1]) <=> stopped /\ i + 1 = Len(pcs)
  <2>1. \A i \in 1..Len(pcs) - 1 : i + 1 \in 1..Len(pcs)
    BY <1>1
  <2> QED BY <1>2, <2>1, Zenon
<1>5. CASE 1 = Len(pcs)
  <2>1. Len(rest) = 0
    BY <1>1, <1>5
  <2>3. \A i : i \notin 1..Len(rest)
    BY <2>1
  <2>2. ~(stopped /\ ~IsJump(pcs[1]))
    BY <1>3, <1>5
  <2> QED BY <2>1, <2>2, <2>3, Zenon DEF Waits
<1>6. CASE 1 # Len(pcs)
  <2>1. ~IsJump(pcs[1]) /\ Len(rest) # 0
    BY <1>1, <1>3, <1>6
  <2>2. ASSUME NEW i \in 1..Len(rest)
        PROVE  i \in 1..Len(pcs) - 1 /\ rest[i] = pcs[i + 1]
               /\ (i + 1 = Len(pcs) <=> i = Len(rest))
    BY <1>1
  <2>3. \A i \in 1..Len(rest) :
          IsJump(rest[i]) <=> (stopped /\ ~IsJump(pcs[1])) /\ i = Len(rest)
    BY <1>4, <2>1, <2>2, Zenon
  <2> QED BY <2>1, <2>3, Zenon DEF Waits
<1> QED BY <1>5, <1>6

\* What the operations make of the elements of the bus.
LEMMA ItemsOfBus ==
  ASSUME NEW bus, IsBus(bus), NEW t
  PROVE  /\ IsBus(Add(bus, t)) /\ IsBus(AfterGet(bus))
         /\ CanAdd(bus) => Items(Add(bus, t)) = Append(Items(bus), t)
         /\ bus.current = << >> => Items(AfterGet(bus)) = Items(bus)
         /\ bus.current # << >> => Items(bus) = <<bus.current[1]>> \o Items(AfterGet(bus))
<1>1. PICK S : bus.current \in Seq(S) /\ bus.pending \in Seq(S)
  BY EntriesAreLists
<1>2. IsBus(Add(bus, t)) /\ IsBus(AfterGet(bus))
  BY DEF IsBus, IsEntry, Add, AfterGet
<1>3. CanAdd(bus) => Items(Add(bus, t)) = Append(Items(bus), t)
  <2> SUFFICES ASSUME bus.pending = << >> PROVE Items(Add(bus, t)) = Append(Items(bus), t)
    BY DEF CanAdd
  <2>1. Items(Add(bus, t)) = bus.current \o <<t>> /\ Items(bus) = bus.current \o << >>
    BY DEF Items, Add, IsBus
  <2>2. bus.current = << >> \/ bus.current = <<bus.current[1]>>
    BY DEF IsBus, IsEntry
  <2> QED BY <1>1, <2>1, <2>2
<1>4. bus.current = << >> => Items(AfterGet(bus)) = Items(bus)
  <2>1. Items(AfterGet(bus)) = bus.pending \o << >>
    BY DEF Items, AfterGet
  <2> QED BY <1>1, <2>1 DEF Items
<1>5. bus.current # << >> => Items(bus) = <<bus.current[1]>> \o Items(AfterGet(bus))
  <2>1. Items(AfterGet(bus)) = bus.pending \o << >>
    BY DEF Items, AfterGet
  <2>2. bus.pending \o << >> = bus.pending
    BY <1>1
  <2>3. bus.current # << >> => bus.current = <<bus.current[1]>>
    BY DEF IsBus, IsEntry
  <2> QED BY <2>1, <2>2, <2>3 DEF Items
<1> QED BY <1>2, <1>3, <1>4, <1>5

-----------------------------------------------------------------------------
(* What the execution of an instruction may ask for (opcodes.go)           *)

\* A jump neither returns nor stores, and a j or jal that succeeds goes to its
\* label.
LEMMA JumpExecution ==
  ASSUME NEW ins, IsUnconditionalBranch(ins), NEW regs, NEW pc, NEW bytes,
         NEW exe, exe = Run(ins, app, regs, pc, bytes)
  PROVE  /\ ~exe.Return /\ ~exe.MemoryChange
         /\ exe.Outcome = "ok" => exe.PcChange = TRUE
         /\ exe.Outcome = "ok" /\ ins.op # "jalr" => exe.NextPc = app.Labels[ins.label]
         /\ MemoryRead(ins, regs) = << >>
<1>1. ins.op \in {"j", "jal", "jalr"}
  BY DEF IsUnconditionalBranch, JumpOps
<1>2. exe = JumpRun(ins, app, regs[ins.rs1], pc) /\ MemoryRead(ins, regs) = << >>
  BY <1>1 DEF Run, MemoryRead, RegRegOps, RegImmOps, UpperOps, LoadOps, StoreOps, BranchOps,
     JumpOps
<1>3. CASE ins.op = "jalr"
  <2>1. exe = [RegisterResult(ins.rd, Wrap(pc + 4)) EXCEPT !.PcChange = TRUE,
                 !.NextPc = Wrap(regs[ins.rs1] + ins.imm)]
    BY <1>2, <1>3 DEF JumpRun, NoChange
  <2> QED BY <1>2, <1>3, <2>1 DEF RegisterResult, NoChange
<1>4. CASE ins.op # "jalr"
  <2> DEFINE target == Goto(app, ins.label)
  <2>1. /\ ~target.Return /\ ~target.MemoryChange
        /\ target.Outcome = "ok" =>
             target.NextPc = app.Labels[ins.label] /\ target.PcChange = TRUE
    BY DEF Goto, NoChange, Failed
  <2>2. CASE ins.op = "j" \/ target.Outcome # "ok"
    <3>1. exe = target
      BY <1>2, <1>4, <2>2 DEF JumpRun
    <3> QED BY <1>2, <2>1, <3>1
  <2>3. CASE ~(ins.op = "j" \/ target.Outcome # "ok")
    <3>1. exe = [RegisterResult(ins.rd, Wrap(pc + 4)) EXCEPT !.PcChange = TRUE,
                   !.NextPc = target.NextPc]
      BY <1>2, <1>4, <2>3 DEF JumpRun
    <3>2. /\ ~exe.Return /\ ~exe.MemoryChange /\ exe.NextPc = target.NextPc
          /\ exe.PcChange = TRUE
      BY <3>1 DEF RegisterResult, NoChange
    <3> QED BY <1>2, <2>1, <2>3, <3>2
  <2> QED BY <2>2, <2>3
<1> QED BY <1>3, <1>4

-----------------------------------------------------------------------------
(* The buffer in the running processor                                     *)

\* BtbSound with what it takes for LearnedEntries to apply.
BtbInv == BtbSound /\ \E S : btb \in Seq(S)

\* Learning the target of a jump that has just been executed.
LEMMA NotifyKeepsBtb ==
  ASSUME BtbInv, UNCHANGED app, NEW pc, NEW pcTo, Notify(pc, pcTo), IsJump(pc),
         InstructionAt(pc).op # "jalr" => pcTo = app.Labels[InstructionAt(pc).label]
  PROVE  BtbInv'
<1>1. PICK S : btb \in Seq(S)
  BY DEF BtbInv
<1> DEFINE entry == [pc |-> pc, pcDest |-> pcTo]
<1>2. /\ btb' \in Seq(S \cup {entry}) /\ Len(btb') <= BtbSize
      /\ Unambiguous(btb')
      /\ OldOrNew(btb', btb, entry)
  <2>1. btb' = Learn(btb, pc, pcTo)
    BY DEF Notify
  <2>2. Len(btb) <= BtbSize /\ Unambiguous(btb)
    BY Zenon DEF BtbInv, BtbSound, Unambiguous
  <2> QED BY <1>1, <2>1, <2>2, LearnedEntries, Zenon
<1> DEFINE Right(e) ==
      LET ins == InstructionAt(e.pc)
      IN IsJump(e.pc) /\ (ins.op # "jalr" => e.pcDest = app.Labels[ins.label])
<1>3. Right(entry) /\ \A j \in 1..Len(btb) : Right(btb[j])
  <2>1. entry.pc = pc /\ entry.pcDest = pcTo
    OBVIOUS
  <2>2. Right(entry)
    BY <2>1, Zenon
  <2>3. \A j \in 1..Len(btb) : Right(btb[j])
    BY Zenon DEF BtbInv, BtbSound
  <2> QED BY <2>2, <2>3
<1> HIDE DEF Right
<1>4. \A i \in 1..Len(btb') : Right(btb'[i])
  BY <1>2, <1>3, Zenon DEF OldOrNew
<1>5. \A e : Right(e) => LET ins == InstructionAt(e.pc)'
                         IN IsJump(e.pc)' /\ (ins.op # "jalr" => e.pcDest = app'.Labels[ins.label])
  BY DEF Right, IsJump, InstructionAt
<1>6. BtbSound'
  BY <1>2, <1>4, <1>5, Zenon DEF BtbSound, Unambiguous
<1>7. (\E T : btb \in Seq(T))'
  BY <1>2, Zenon
<1> QED BY <1>6, <1>7, Zenon DEF BtbInv

\* Where nothing is learned nothing changes: the program is the same.
LEMMA BtbUnchanged == ASSUME BtbInv, UNCHANGED <<app, btb>> PROVE BtbInv'
BY DEF BtbInv, BtbSound, IsJump, InstructionAt

\* Only a jump that succeeds is learned.
LEMMA NextKeepsBtb == ASSUME BtbInv, [Next5]_vars5 PROVE BtbInv'
<1>1. CASE Execute5
  <2>1. CASE ExecuteRuns5
    <3> DEFINE ins == InstructionAt(Job.pc)
               exe == Run(ins, app, registers, Job.pc, << >>)
    <3>1. CASE IsJump(Job.pc) /\ exe.Outcome = "ok"
      <4>1. Notify(Job.pc, exe.NextPc) /\ UNCHANGED app
        BY <1>1, <2>1, <3>1, Zenon DEF ExecuteRuns5, Execute5
      <4>2. IsUnconditionalBranch(ins)
        BY <3>1, Zenon DEF IsJump
      <4>3. ins.op # "jalr" => exe.NextPc = app.Labels[ins.label]
        BY <3>1, <4>2, JumpExecution, Zenon
      <4> QED BY <3>1, <4>1, <4>3, NotifyKeepsBtb, Zenon
    <3>2. CASE ~(IsJump(Job.pc) /\ exe.Outcome = "ok")
      <4>1. UNCHANGED NoJumpVars /\ UNCHANGED app
        BY <1>1, <2>1, <3>2, Zenon DEF ExecuteRuns5, Execute5
      <4> QED BY <4>1, BtbUnchanged DEF NoJumpVars
    <3> QED BY <3>1, <3>2
  <2>2. CASE ~ExecuteRuns5
    <3>1. UNCHANGED <<app, btb>>
      BY <1>1, <2>2 DEF Execute5, ExecuteHazard5, ExecuteReads5, NoJumpVars
    <3> QED BY <3>1, BtbUnchanged
  <2> QED BY <2>1, <2>2
<1>2. CASE ~Execute5
  <2>1. UNCHANGED <<app, btb>>
    BY <1>2 DEF Next5, Fetch5, Decode5, FlushPipeline5, FlushPipeline, WriteBack, EndOfCycle,
       Drain, Ended, vars, vars5
  <2> QED BY <2>1, BtbUnchanged
<1> QED BY <1>1, <1>2

\* The buffer never outgrows its length and has no two entries for a pc; it
\* holds jumps only, each j and jal with its own label's pc
\* (branchTargetBuffer.add, notifyJumpAddressResolved).
THEOREM BufferIsSound == Spec5 => []BtbSound
<1>1. Init5 => BtbInv
  <2>1. ASSUME Init5 PROVE btb \in Seq({}) /\ Len(btb) = 0
    BY <2>1 DEF Init5
  <2>2. ASSUME Init5 PROVE BtbSound
    BY <2>1, <2>2, BtbAssumption DEF BtbSound
  <2> QED BY <2>1, <2>2, Zenon DEF BtbInv
<1>2. BtbInv /\ [Next5]_vars5 => BtbInv'
  BY NextKeepsBtb
<1>3. BtbInv => BtbSound
  BY DEF BtbInv
<1> QED BY <1>1, <1>2, <1>3, PTL DEF Spec5

-----------------------------------------------------------------------------
(* The stop of the decode unit in the running processor                    *)

Stops == Waits(Decoded, pendingBranchResolution)

\* The inductive invariant: the execute unit waits for the memory with no jump,
\* and is idle while a flush is under way, which empties all that is decoded.
StopInv ==
  /\ IsBus(executeBus) /\ DOMAIN eu = DOMAIN IdleEu
  /\ eu.processing \in BOOLEAN /\ eu.waiting \in BOOLEAN
  /\ pendingBranchResolution \in BOOLEAN
  /\ eu.waiting => eu.processing /\ ~IsJump(eu.pc)
  /\ signal.flush => ~eu.processing
  /\ phase = "drain" => signal.flush
  /\ phase \in {"fetch", "decode", "execute"} => ~signal.flush
  /\ Stops

\* The lists that the lemmas on Waits are about.
LEMMA DecodedIsList ==
  ASSUME NEW bus, IsBus(bus), NEW pc
  PROVE  \E S : /\ Items(bus) \in Seq(S) /\ << >> \o Items(bus) \in Seq(S)
                /\ << >> \o Items(bus) = Items(bus)
                /\ <<pc>> \o Items(bus) \in Seq(S)
                /\ <<pc>> \o Items(bus) # << >>
                /\ (<<pc>> \o Items(bus))[1] = pc
                /\ Tail(<<pc>> \o Items(bus)) = Items(bus)
<1>1. PICK T : bus.current \in Seq(T) /\ bus.pending \in Seq(T)
  BY EntriesAreLists
<1>2. Items(bus) \in Seq(T)
  BY <1>1 DEF Items
<1>3. PICK items : items = Items(bus)
  OBVIOUS
<1>4. PICK S : S = T \cup {pc}
  OBVIOUS
<1>5. items \in Seq(S) /\ pc \in S
  BY <1>2, <1>3, <1>4
<1>6. /\ << >> \o items = items /\ <<pc>> \o items \in Seq(S) /\ <<pc>> \o items # << >>
      /\ (<<pc>> \o items)[1] = pc
  BY <1>5
<1>7. Tail(<<pc>> \o items) = items
  BY <1>5
<1> QED BY <1>3, <1>5, <1>6, <1>7

\* With the same program, Stops is about the lists of the next state.
LEMMA StopsNext ==
  ASSUME UNCHANGED app, Waits(Decoded', pendingBranchResolution')
  PROVE  Stops'
<1>1. \A pc : IsJump(pc)' <=> IsJump(pc)
  BY DEF IsJump, InstructionAt
<1> QED BY <1>1, Zenon DEF Stops, Waits

\* The instruction taken on is the oldest decoded one (executeUnit.cycle).
LEMMA JobIsOldest ==
  ASSUME StopInv, HasJob, TakeJob, ~eu.waiting
  PROVE  /\ IsBus(executeBus') /\ Decoded = <<Job.pc>> \o Items(executeBus')
         /\ DOMAIN Job = DOMAIN IdleEu /\ Job.processing = TRUE /\ Job.waiting = FALSE
<1>1. IsBus(executeBus) /\ DOMAIN eu = DOMAIN IdleEu
      /\ eu.waiting \in BOOLEAN /\ eu.processing \in BOOLEAN
  BY DEF StopInv
<1>2. CASE eu.processing
  BY <1>1, <1>2 DEF Job, TakeJob, Decoded
<1>3. CASE ~eu.processing
  <2>1. executeBus' = AfterGet(executeBus) /\ executeBus.current # << >>
    BY <1>3 DEF TakeJob, HasJob
  <2>2. /\ DOMAIN Job = DOMAIN IdleEu /\ Job.processing = TRUE /\ Job.waiting = FALSE
        /\ Job.pc = executeBus.current[1]
    BY <1>3 DEF Job, IdleEu
  <2>3. Decoded = Items(executeBus)
    BY <1>1, <1>3, DecodedIsList DEF Decoded
  <2>4. IsBus(executeBus') /\ Items(executeBus) = <<Job.pc>> \o Items(executeBus')
    BY <1>1, <2>1, <2>2, ItemsOfBus
  <2> QED BY <2>2, <2>3, <2>4
<1> QED BY <1>2, <1>3

\* A step that decodes nothing and executes nothing to its end.
LEMMA StillStopped ==
  ASSUME StopInv, UNCHANGED <<app, pendingBranchResolution, signal>>,
         IsBus(executeBus'), DOMAIN eu' = DOMAIN IdleEu,
         eu'.processing \in BOOLEAN, eu'.waiting \in BOOLEAN,
         eu'.waiting => eu'.processing /\ ~IsJump(eu'.pc),
         signal.flush => ~eu'.processing,
         phase' = "drain" => signal.flush,
         phase' \in {"fetch", "decode", "execute"} => ~signal.flush,
         Decoded' = Decoded
  PROVE  StopInv'
<1>1. Stops'
  <2>1. Waits(Decoded', pendingBranchResolution')
    BY Zenon DEF StopInv, Stops
  <2> QED BY <2>1, StopsNext
<1>2. eu'.waiting => ~IsJump(eu.pc)'
  BY DEF IsJump, InstructionAt
<1> QED BY <1>1, <1>2 DEF StopInv

\* executeUnit.run: the oldest decoded instruction is gone, and if it was a
\* jump the decode unit has been told, or the unit keeps it for good.
LEMMA FinishKeepsStop ==
  ASSUME StopInv, At("execute"), UNCHANGED app,
         NEW job, NEW bytes, NEW lines, NEW ram, NEW unit,
         DOMAIN job = DOMAIN IdleEu, job.processing = TRUE, job.waiting = FALSE,
         IsBus(executeBus'), Decoded = <<job.pc>> \o Items(executeBus'),
         Finish(job, bytes, lines, ram, unit),
         NEW exe, exe = Run(InstructionAt(job.pc), app, registers, job.pc, bytes),
         pendingBranchResolution' = (IF IsJump(job.pc) /\ exe.Outcome = "ok" THEN FALSE
                                     ELSE pendingBranchResolution)
  PROVE  StopInv'
<1>1. /\ pendingBranchResolution \in BOOLEAN /\ pendingBranchResolution' \in BOOLEAN
      /\ ~signal.flush /\ phase = "execute" /\ status = "running"
  BY DEF StopInv, At
<1>2. PICK S : /\ Decoded \in Seq(S) /\ Decoded # << >> /\ Decoded[1] = job.pc
               /\ Tail(Decoded) = Items(executeBus') /\ Items(executeBus') \in Seq(S)
               /\ << >> \o Items(executeBus') = Items(executeBus')
  BY DecodedIsList, Zenon
<1>3. IdleEu.processing = FALSE /\ IdleEu.waiting = FALSE
  BY DEF IdleEu
<1>4. CASE eu' = job /\ ~signal'.flush /\ phase' \in {"execute", "write"}
           /\ ~(IsJump(job.pc) /\ exe.Outcome = "ok")
  <2>1. Decoded' = Decoded
    BY <1>4 DEF Decoded
  <2>2. pendingBranchResolution' = pendingBranchResolution
    BY <1>4, Zenon
  <2>3. Stops'
    <3>1. Waits(Decoded', pendingBranchResolution')
      BY <2>1, <2>2, Zenon DEF StopInv, Stops
    <3> QED BY <3>1, StopsNext
  <2>4. eu'.processing = TRUE /\ eu'.waiting = FALSE /\ DOMAIN eu' = DOMAIN IdleEu
    BY <1>4
  <2> QED BY <1>1, <1>4, <2>3, <2>4 DEF StopInv
<1>5. CASE eu' = IdleEu /\ (phase' = "write" \/ (phase' = "execute" /\ ~signal'.flush))
           /\ exe.Outcome = "ok"
  <2>1. Decoded' = Tail(Decoded)
    BY <1>2, <1>3, <1>5 DEF Decoded
  <2>2. Waits(Decoded', pendingBranchResolution /\ ~IsJump(job.pc))
    <3>1. Waits(Decoded, pendingBranchResolution)
      BY Zenon DEF StopInv, Stops
    <3>2. PICK pcs, rest : pcs = Decoded /\ rest = Decoded'
      OBVIOUS
    <3>3. PICK stopped \in BOOLEAN : stopped = pendingBranchResolution
      BY <1>1
    <3>4. Waits(rest, stopped /\ ~IsJump(pcs[1]))
      <4>1. pcs \in Seq(S) /\ pcs # << >> /\ rest = Tail(pcs)
        BY <1>2, <2>1, <3>2
      <4>2. Waits(pcs, stopped)
        BY <3>1, <3>2, <3>3
      <4> QED BY <4>1, <4>2, ExecutingKeepsWaits
    <3>5. pcs[1] = job.pc
      BY <1>2, <3>2
    <3> QED BY <3>2, <3>3, <3>4, <3>5
  <2>3. Waits(Decoded', pendingBranchResolution')
    <3>1. CASE IsJump(job.pc)
      <4>1. pendingBranchResolution' = FALSE
        BY <1>5, <3>1, Zenon
      <4>2. (pendingBranchResolution /\ ~IsJump(job.pc)) = FALSE
        BY <3>1
      <4> QED BY <2>2, <4>1, <4>2
    <3>2. CASE ~IsJump(job.pc)
      <4>1. pendingBranchResolution' = pendingBranchResolution
        BY <3>2, Zenon
      <4>2. (pendingBranchResolution /\ ~IsJump(job.pc)) = pendingBranchResolution
        BY <1>1, <3>2
      <4> QED BY <2>2, <4>1, <4>2
    <3> QED BY <3>1, <3>2
  <2>4. Stops'
    BY <2>3, StopsNext
  <2>5. eu'.processing = FALSE /\ eu'.waiting = FALSE /\ DOMAIN eu' = DOMAIN IdleEu
    BY <1>3, <1>5
  <2> QED BY <1>1, <1>5, <2>4, <2>5 DEF StopInv
<1>6. IsJump(job.pc) => ~exe.Return
  <2>1. IsJump(job.pc) => IsUnconditionalBranch(InstructionAt(job.pc))
    BY DEF IsJump
  <2> QED BY <2>1, JumpExecution
<1>7. \/ /\ eu' = job /\ signal' = signal /\ phase' = phase /\ exe.Outcome # "ok"
      \/ /\ eu' = job /\ exe.Return /\ signal' = [NoSignal EXCEPT !.ret = TRUE]
         /\ phase' = "write"
      \/ /\ eu' = IdleEu /\ signal' = signal /\ phase' \in {"execute", "write"}
         /\ exe.Outcome = "ok"
      \/ eu' = IdleEu /\ phase' = "write" /\ exe.Outcome = "ok"
  BY <1>1 DEF Finish, GoTo
<1>8. NoSignal.flush = FALSE /\ [NoSignal EXCEPT !.ret = TRUE].flush = FALSE
  BY DEF NoSignal
<1>9. CASE eu' = job /\ signal' = signal /\ phase' = phase /\ exe.Outcome # "ok"
  BY <1>1, <1>4, <1>9
<1>10. CASE /\ eu' = job /\ exe.Return /\ signal' = [NoSignal EXCEPT !.ret = TRUE]
            /\ phase' = "write"
  BY <1>4, <1>6, <1>8, <1>10
<1>11. CASE eu' = IdleEu /\ exe.Outcome = "ok"
            /\ (phase' = "write" \/ (signal' = signal /\ phase' = "execute"))
  BY <1>1, <1>5, <1>11
<1> QED BY <1>7, <1>9, <1>10, <1>11

\* The execute unit (eu.go): a jump is told to the decode unit in the step that
\* executes it, and no other instruction is.
LEMMA ExecuteKeepsStop == ASSUME StopInv, Execute5 PROVE StopInv'
<1>1. /\ UNCHANGED app /\ At("execute") /\ IsBus(executeBus)
      /\ DOMAIN eu = DOMAIN IdleEu /\ eu.waiting \in BOOLEAN /\ eu.processing \in BOOLEAN
      /\ eu.waiting => eu.processing /\ ~IsJump(eu.pc)
      /\ pendingBranchResolution \in BOOLEAN
      /\ phase = "execute" /\ ~signal.flush
  BY DEF Execute5, At, StopInv
<1>2. ASSUME NotFinished PROVE phase' = "write" /\ UNCHANGED signal
  BY <1>2 DEF NotFinished, GoTo
<1>3. CASE ExecuteWaits /\ UNCHANGED NoJumpVars
  <2>1. /\ NotFinished /\ executeBus' = executeBus /\ UNCHANGED pendingBranchResolution
        /\ eu' = [eu EXCEPT !.remaining = @ - 1]
    BY <1>3 DEF ExecuteWaits, NoJumpVars
  <2>2. /\ DOMAIN eu' = DOMAIN IdleEu /\ eu'.waiting = eu.waiting
        /\ eu'.processing = eu.processing /\ eu'.pc = eu.pc
    BY <1>1, <2>1 DEF IdleEu
  <2>3. Decoded' = Decoded /\ (IsJump(eu'.pc) <=> IsJump(eu.pc))
    BY <2>1, <2>2 DEF Decoded
  <2> QED BY <1>1, <1>2, <2>1, <2>2, <2>3, StillStopped
<1>4. CASE ExecuteReceives /\ UNCHANGED NoJumpVars
  <2>1. /\ eu.waiting /\ executeBus' = executeBus /\ UNCHANGED pendingBranchResolution
    BY <1>4 DEF ExecuteReceives, NoJumpVars
  <2>2. /\ DOMAIN Received = DOMAIN IdleEu /\ Received.processing = TRUE
        /\ Received.waiting = FALSE /\ Received.pc = eu.pc
    BY DEF Received, IdleEu
  <2>3. Decoded = <<Received.pc>> \o Items(executeBus')
    BY <1>1, <2>1, <2>2 DEF Decoded
  <2>4. ~IsJump(Received.pc)
    BY <1>1, <2>1, <2>2
  <2>5. ASSUME NEW bytes, NEW lines, NEW ram, NEW unit,
               Finish(Received, bytes, lines, ram, unit)
        PROVE  StopInv'
    <3>1. PICK exe : exe = Run(InstructionAt(Received.pc), app, registers, Received.pc, bytes)
      OBVIOUS
    <3>2. pendingBranchResolution' = (IF IsJump(Received.pc) /\ exe.Outcome = "ok" THEN FALSE
                                      ELSE pendingBranchResolution)
      BY <2>1, <2>4, Zenon
    <3> QED BY <1>1, <2>1, <2>2, <2>3, <2>5, <3>1, <3>2, FinishKeepsStop
  <2>6. CASE UNCHANGED <<eu, signal, phase>>
    <3>1. Decoded' = Decoded
      BY <2>1, <2>6 DEF Decoded
    <3> QED BY <1>1, <2>1, <2>6, <3>1, StillStopped
  <2> QED BY <1>4, <2>5, <2>6 DEF ExecuteReceives
<1>5. CASE ExecuteNothing /\ UNCHANGED NoJumpVars
  <2>1. /\ NotFinished /\ eu' = eu /\ ~eu.waiting /\ ~eu.processing
        /\ executeBus.current = << >>
        /\ executeBus' = AfterGet(executeBus) /\ UNCHANGED pendingBranchResolution
    BY <1>5 DEF ExecuteNothing, HasJob, TakeJob, NoJumpVars
  <2>2. IsBus(executeBus') /\ Items(executeBus') = Items(executeBus)
    BY <1>1, <2>1, ItemsOfBus
  <2>3. Decoded' = Decoded
    BY <2>1, <2>2 DEF Decoded
  <2> QED BY <1>1, <1>2, <2>1, <2>2, <2>3, StillStopped
<1>6. ASSUME ~eu.waiting, HasJob, TakeJob
      PROVE  /\ IsBus(executeBus') /\ Decoded = <<Job.pc>> \o Items(executeBus')
             /\ DOMAIN Job = DOMAIN IdleEu /\ Job.processing = TRUE /\ Job.waiting = FALSE
  BY <1>6, JobIsOldest
<1>7. ASSUME ~eu.waiting, HasJob, TakeJob, NotFinished, UNCHANGED pendingBranchResolution,
             DOMAIN eu' = DOMAIN IdleEu, eu'.processing = TRUE, eu'.waiting \in BOOLEAN,
             eu'.pc = Job.pc, eu'.waiting => ~IsJump(Job.pc)
      PROVE  StopInv'
  <2>1. Decoded' = Decoded
    BY <1>6, <1>7 DEF Decoded
  <2>2. IsJump(eu'.pc) <=> IsJump(Job.pc)
    BY <1>7
  <2>3. IsBus(executeBus')
    BY <1>6, <1>7
  <2> QED BY <1>1, <1>2, <1>7, <2>1, <2>2, <2>3, StillStopped
<1>8. CASE ExecuteCounts /\ UNCHANGED NoJumpVars
  <2>1. /\ ~eu.waiting /\ HasJob /\ TakeJob /\ NotFinished /\ UNCHANGED pendingBranchResolution
        /\ eu' = [Job EXCEPT !.remaining = @ - 1]
    BY <1>8 DEF ExecuteCounts, NoJumpVars
  <2>2. /\ DOMAIN eu' = DOMAIN IdleEu /\ eu'.waiting = Job.waiting
        /\ eu'.processing = Job.processing /\ eu'.pc = Job.pc
    BY <1>6, <2>1 DEF IdleEu
  <2> QED BY <1>6, <1>7, <2>1, <2>2
<1>9. CASE ExecuteHazard5 \/ (ExecuteBlocked /\ UNCHANGED NoJumpVars)
  <2>1. /\ ~eu.waiting /\ HasJob /\ TakeJob /\ NotFinished /\ UNCHANGED pendingBranchResolution
        /\ eu' = Job
    BY <1>9 DEF ExecuteBlocked, ExecuteHazard5, Ready, NoJumpVars
  <2> QED BY <1>6, <1>7, <2>1
<1>10. CASE ExecuteReads5
  <2>1. /\ ~eu.waiting /\ HasJob /\ TakeJob /\ NotFinished /\ UNCHANGED pendingBranchResolution
        /\ MemoryRead(InstructionAt(Job.pc), registers) # << >>
        /\ \E addrs :
             eu' = IF AllIn(l1d, addrs)
                   THEN [Job EXCEPT !.waiting = TRUE, !.remaining = L1AccessCycles,
                                    !.bytes = ReadValues(l1d, addrs), !.cached = TRUE]
                   ELSE [Job EXCEPT !.waiting = TRUE, !.remaining = MemoryCycles,
                                    !.addrs = addrs]
    BY <1>10 DEF ExecuteReads5, Ready, NoJumpVars
  <2>2. /\ DOMAIN eu' = DOMAIN IdleEu /\ eu'.waiting = TRUE
        /\ eu'.processing = Job.processing /\ eu'.pc = Job.pc
    BY <1>6, <2>1 DEF IdleEu
  <2>3. ~IsJump(Job.pc)
    BY <2>1, JumpExecution DEF IsJump
  <2> QED BY <1>6, <1>7, <2>1, <2>2, <2>3
<1>11. CASE ExecuteRuns5
  <2>1. PICK exe : exe = Run(InstructionAt(Job.pc), app, registers, Job.pc, << >>)
    OBVIOUS
  <2>2. /\ ~eu.waiting /\ HasJob /\ TakeJob
        /\ Finish(Job, << >>, l1d, memory, Assert5(Job.pc))
        /\ IF IsJump(Job.pc) /\ exe.Outcome = "ok" THEN Notify(Job.pc, exe.NextPc)
           ELSE UNCHANGED NoJumpVars
    BY <1>11, <2>1, Zenon DEF ExecuteRuns5, Ready
  <2>3. pendingBranchResolution' = (IF IsJump(Job.pc) /\ exe.Outcome = "ok" THEN FALSE
                                    ELSE pendingBranchResolution)
    BY <2>2 DEF Notify, NoJumpVars
  <2>4. /\ IsBus(executeBus') /\ Decoded = <<Job.pc>> \o Items(executeBus')
        /\ DOMAIN Job = DOMAIN IdleEu /\ Job.processing = TRUE /\ Job.waiting = FALSE
    BY <1>6, <2>2
  <2> QED BY <1>1, <2>1, <2>2, <2>3, <2>4, FinishKeepsStop
<1> QED
  BY <1>3, <1>4, <1>5, <1>8, <1>9, <1>10, <1>11 DEF Execute5

\* The decode unit (du.go).
LEMMA DecodeKeepsStop == ASSUME StopInv, Decode5 PROVE StopInv'
<1>1. /\ UNCHANGED <<app, eu, signal>> /\ IsBus(executeBus) /\ ~signal.flush
      /\ DOMAIN eu = DOMAIN IdleEu /\ eu.waiting \in BOOLEAN /\ eu.processing \in BOOLEAN
      /\ eu.waiting => eu.processing /\ ~IsJump(eu.pc)
      /\ IsJump(eu'.pc) <=> IsJump(eu.pc)
      /\ phase = "decode"
  BY DEF Decode5, At, StopInv
<1>2. CASE UNCHANGED <<executeBus, pendingBranchResolution>> /\ phase' \in {"decode", "execute"}
  <2>1. Decoded' = Decoded
    BY <1>1, <1>2 DEF Decoded
  <2> QED BY <1>1, <1>2, <2>1, StillStopped
<1>3. CASE DecodeOne5 /\ InProgram(decodeBus.current[1])
  <2> DEFINE pc == decodeBus.current[1]
  <2>1. /\ ~pendingBranchResolution /\ executeBus' = Add(executeBus, pc) /\ CanAdd(executeBus)
        /\ phase' = "execute"
    BY <1>3 DEF DecodeOne5, DecodeOne, GoTo
  <2>2. pendingBranchResolution' = IsJump(pc)
    BY <1>3 DEF DecodeOne5, IsJump, IsUnconditionalBranch
  <2>3. IsBus(executeBus') /\ Items(executeBus') = Append(Items(executeBus), pc)
    BY <1>1, <2>1, ItemsOfBus
  <2>4. PICK S : /\ Items(executeBus) \in Seq(S)
                 /\ <<eu.pc>> \o Items(executeBus) \in Seq(S)
                 /\ << >> \o Items(executeBus) = Items(executeBus)
    BY <1>1, DecodedIsList
  <2>5. Decoded \in Seq(S)
    BY <2>4 DEF Decoded
  <2>6. Decoded' = Append(Decoded, pc)
    <3>1. PICK items, T : items = Items(executeBus) /\ T = S \cup {pc, eu.pc}
      OBVIOUS
    <3>2. items \in Seq(T) /\ eu.pc \in T /\ pc \in T
      BY <2>4, <3>1
    <3>3. <<eu.pc>> \o Append(items, pc) = Append(<<eu.pc>> \o items, pc)
      BY <3>2
    <3>4. << >> \o Append(items, pc) = Append(<< >> \o items, pc)
      BY <3>2
    <3> QED BY <1>1, <2>3, <3>1, <3>3, <3>4 DEF Decoded
  <2>7. Waits(Decoded, FALSE)
    <3>1. pendingBranchResolution = FALSE /\ Waits(Decoded, pendingBranchResolution)
      BY <2>1 DEF StopInv, Stops
    <3> QED BY <3>1
  <2>8. Waits(Decoded', pendingBranchResolution')
    <3>1. Waits(Append(Decoded, pc), IsJump(pc))
      BY <2>5, <2>7, DecodingKeepsWaits
    <3> QED BY <2>2, <2>6, <3>1
  <2>9. Stops'
    BY <1>1, <2>8, StopsNext
  <2>10. pendingBranchResolution' \in BOOLEAN
    BY <2>2 DEF IsJump, IsUnconditionalBranch
  <2>11. eu'.waiting => eu'.processing /\ ~IsJump(eu.pc)'
    BY <1>1 DEF IsJump, InstructionAt
  <2> QED BY <1>1, <2>1, <2>3, <2>9, <2>10, <2>11 DEF StopInv
<1>4. CASE ~(DecodeOne5 /\ InProgram(decodeBus.current[1]))
  <2>1. CASE DecodeOne5
    <3>1. ~pendingBranchResolution /\ ~InProgram(decodeBus.current[1])
          /\ UNCHANGED <<executeBus, phase>>
      BY <1>4, <2>1 DEF DecodeOne5, DecodeOne
    <3>2. pendingBranchResolution' = FALSE /\ pendingBranchResolution = FALSE
      BY <2>1, <3>1 DEF DecodeOne5, StopInv
    <3> QED BY <1>1, <1>2, <3>1, <3>2
  <2>2. CASE ~DecodeOne5
    <3>1. UNCHANGED <<executeBus, pendingBranchResolution>> /\ phase' = "execute"
      BY <2>2 DEF Decode5, DecodeStopped, DecodeBlocked, DecodeNothing, GoTo
    <3> QED BY <1>2, <3>1
  <2> QED BY <2>1, <2>2
<1> QED BY <1>3, <1>4

\* CPU.flush: nothing is decoded any more and the decode unit goes on.
LEMMA FlushKeepsStop == ASSUME StopInv, FlushPipeline5 PROVE StopInv'
<1>1. /\ UNCHANGED <<app, eu>> /\ ~eu.processing /\ ~eu.waiting /\ phase' = "fetch"
      /\ executeBus' = EmptyBus /\ pendingBranchResolution' = FALSE /\ signal' = NoSignal
  BY DEF FlushPipeline5, FlushPipeline, At, GoTo, StopInv
<1>2. IsBus(executeBus') /\ Decoded' = << >>
  BY <1>1 DEF EmptyBus, IsBus, IsEntry, Decoded, Items
<1>3. Waits(Decoded', pendingBranchResolution')
  <2>1. Waits(<< >>, FALSE)
    BY DEF Waits
  <2> QED BY <1>1, <1>2, <2>1
<1>4. Stops'
  BY <1>1, <1>3, StopsNext
<1> QED BY <1>1, <1>2, <1>4 DEF StopInv, NoSignal

\* The rest of the loop decodes and executes nothing.
LEMMA OthersKeepStop ==
  ASSUME StopInv,
         \/ Fetch5
         \/ (WriteBack \/ EndOfCycle \/ Drain \/ Ended) /\ UNCHANGED pendingBranchResolution
         \/ UNCHANGED vars5
  PROVE  StopInv'
<1>1. UNCHANGED <<app, executeBus, eu, signal, pendingBranchResolution>>
  BY DEF Fetch5, WriteBack, EndOfCycle, Drain, Ended, vars, vars5
<1>2. /\ phase' = "drain" => signal.flush
      /\ phase' \in {"fetch", "decode", "execute"} => ~signal.flush
  BY DEF StopInv, Fetch5, WriteBack, EndOfCycle, Drain, Ended, vars, vars5, At, GoTo
<1>3. Decoded' = Decoded
  BY <1>1 DEF Decoded
<1>4. eu'.waiting => eu'.processing /\ ~IsJump(eu'.pc)
  BY <1>1 DEF StopInv
<1> QED BY <1>1, <1>2, <1>3, <1>4, StillStopped DEF StopInv

\* NewCPU decodes nothing.
LEMMA InitStops == Init5 => StopInv
<1> SUFFICES ASSUME Init5 PROVE StopInv OBVIOUS
<1>1. /\ executeBus = EmptyBus /\ eu.processing = FALSE /\ eu.waiting = FALSE
      /\ DOMAIN eu = DOMAIN IdleEu /\ phase = "fetch" /\ ~signal.flush
      /\ pendingBranchResolution = FALSE
  BY DEF Init5, Init, IdleEu, NoSignal
<1>2. IsBus(executeBus) /\ Decoded = << >>
  BY <1>1 DEF EmptyBus, IsBus, IsEntry, Decoded, Items
<1>3. Stops
  BY <1>1, <1>2 DEF Stops, Waits
<1> QED BY <1>1, <1>2, <1>3 DEF StopInv

\* Every step of CPU.Run keeps the invariant of the stop.
LEMMA NextKeepsStop == ASSUME StopInv, [Next5]_vars5 PROVE StopInv'
BY ExecuteKeepsStop, DecodeKeepsStop, FlushKeepsStop, OthersKeepStop DEF Next5

\* The decode unit is stopped exactly while a jump is in front of it, in every
\* run of every program: nothing behind an unresolved jump is decoded, and
\* neither the report of a target (notifyJumpAddressResolved) nor a flush, nor
\* both, leave the unit stopped with no jump to wait for.
THEOREM DecodeUnitWaitsForJump == Spec5 => []DecodeWaitsForJump
<1>1. StopInv => DecodeWaitsForJump
  <2> SUFFICES ASSUME StopInv PROVE DecodeWaitsForJump OBVIOUS
  <2>1. Waits(Decoded, pendingBranchResolution)
    BY Zenon DEF StopInv, Stops
  <2>2. PICK S : Decoded \in Seq(S)
    <3>1. PICK T : /\ << >> \o Items(executeBus) \in Seq(T)
                   /\ <<eu.pc>> \o Items(executeBus) \in Seq(T)
      BY DecodedIsList DEF StopInv
    <3> QED BY <3>1 DEF Decoded
  <2>3. DOMAIN Decoded = 1..Len(Decoded) /\ (Decoded # << >> <=> Len(Decoded) # 0)
    BY <2>2
  <2> QED BY <2>1, <2>3, Zenon DEF DecodeWaitsForJump, Waits
<1> QED BY <1>1, InitStops, NextKeepsStop, PTL DEF Spec5
-----------------------------------------------------------------------------
(* The order of the instructions in the running processor                  *)

\* The inductive invariant.  The fetch unit empties the decode bus in the cycle
\* after its reset and before the decode unit looks at it.
OrderInv ==
  /\ StopInv /\ IsBus(decodeBus)
  /\ DOMAIN fu = {"pc", "remaining", "complete", "processing"}
  /\ phase = "decode" => ~toCleanPending
  /\ InOrder5

\* InOrder5 of the next state, in terms of the pc that is decoded next.
LEMMA InOrderNext ==
  ASSUME NEW next, next = IF toCleanPending' THEN fu'.pc ELSE Oldest(decodeBus', fu'.pc),
         ~toCleanPending' => LinkedBus(decodeBus', fu'.pc),
         ~pendingBranchResolution' =>
           LinkedBus(executeBus', next) /\ (eu'.processing => Oldest(executeBus', next) = eu'.pc + 4)
  PROVE  InOrder5'
<1>1. ToDecode5' = next /\ ToExecute5' = Oldest(executeBus', next)
  BY DEF ToDecode5, ToExecute5, ToDecode, Oldest, Pending
<1> QED BY <1>1 DEF InOrder5, LinkedBus, Pending

\* The fetch unit (fu.go): what it drops was never counted.
LEMMA FetchKeepsOrder == ASSUME OrderInv, Fetch5 PROVE OrderInv'
<1>1. /\ UNCHANGED <<executeBus, eu, pendingBranchResolution, status>> /\ status = "running"
      /\ phase' = "decode" /\ toCleanPending' = FALSE
      /\ IsBus(decodeBus) /\ DOMAIN fu = {"pc", "remaining", "complete", "processing"}
  BY DEF Fetch5, At, GoTo, OrderInv
<1>2. /\ IsBus(Cleaned) /\ LinkedBus(Cleaned, fu.pc) /\ Oldest(Cleaned, fu.pc) = ToDecode5
  <2>1. CASE toCleanPending
    BY <2>1, EmptyBusIsBus
    DEF Cleaned, ToDecode5, LinkedBus, Linked, Oldest, Pending, First
  <2>2. CASE ~toCleanPending
    BY <1>1, <2>2 DEF Cleaned, ToDecode5, ToDecode, OrderInv, InOrder5
  <2> QED BY <2>1, <2>2
<1>3. /\ DOMAIN fu' = DOMAIN fu /\ IsBus(decodeBus') /\ LinkedBus(decodeBus', fu'.pc)
      /\ Oldest(decodeBus', fu'.pc) = ToDecode5
  <2>1. DOMAIN FetchStarted = DOMAIN fu /\ FetchStarted.pc = fu.pc
    BY <1>1 DEF FetchStarted
  <2>2. CASE FetchIdle5
    BY <1>1, <1>2, <2>2 DEF FetchIdle5
  <2>3. CASE FetchCounts5
    BY <1>1, <1>2, <2>1, <2>3 DEF FetchCounts5
  <2>4. CASE FetchBlocked5
    BY <1>1, <1>2, <2>1, <2>4 DEF FetchBlocked5
  <2>5. CASE FetchPushes5
    <3>1. /\ CanAdd(Cleaned) /\ decodeBus' = Add(Cleaned, fu.pc) /\ fu'.pc = fu.pc + 4
          /\ DOMAIN fu' = DOMAIN fu
      BY <1>1, <2>5 DEF FetchPushes5
    <3> QED BY <1>2, <3>1, AddKeepsOrder, BusSteps
  <2> QED BY <2>2, <2>3, <2>4, <2>5 DEF Fetch5
<1>4. ~pendingBranchResolution =>
        /\ LinkedBus(executeBus, ToDecode5)
        /\ eu.processing => Oldest(executeBus, ToDecode5) = eu.pc + 4
  BY <1>1 DEF OrderInv, InOrder5, ToExecute5
<1>5. InOrder5'
  BY <1>1, <1>3, <1>4, InOrderNext
<1>6. StopInv'
  BY OthersKeepStop DEF OrderInv
<1> QED BY <1>1, <1>3, <1>5, <1>6 DEF OrderInv

\* The decode unit (du.go): behind a jump it decodes nothing.
LEMMA DecodeKeepsOrder == ASSUME OrderInv, Decode5 PROVE OrderInv'
<1>1. /\ UNCHANGED <<fu, eu, toCleanPending>> /\ ~toCleanPending /\ status = "running"
      /\ IsBus(decodeBus) /\ IsBus(executeBus) /\ phase = "decode"
      /\ LinkedBus(decodeBus, fu.pc)
      /\ ~pendingBranchResolution =>
           /\ LinkedBus(executeBus, Oldest(decodeBus, fu.pc))
           /\ eu.processing => Oldest(executeBus, Oldest(decodeBus, fu.pc)) = eu.pc + 4
  BY DEF Decode5, At, OrderInv, StopInv, InOrder5, ToExecute5, ToDecode5, ToDecode
<1>2. StopInv' /\ DOMAIN fu' = {"pc", "remaining", "complete", "processing"}
      /\ (phase' = "decode" => ~toCleanPending')
  BY <1>1, DecodeKeepsStop DEF OrderInv
<1> SUFFICES IsBus(decodeBus') /\ InOrder5'
  BY <1>2 DEF OrderInv
<1>3. CASE DecodeStopped
  <2>1. UNCHANGED <<decodeBus, executeBus, pendingBranchResolution>>
    BY <1>3 DEF DecodeStopped
  <2> QED BY <1>1, <2>1, InOrderNext
<1>4. CASE ~pendingBranchResolution /\ (DecodeBlocked \/ DecodeNothing)
           /\ UNCHANGED pendingBranchResolution
  <2>1. UNCHANGED executeBus
        /\ \/ decodeBus' = decodeBus
           \/ decodeBus.current = << >> /\ decodeBus' = AfterGet(decodeBus)
    BY <1>4 DEF DecodeBlocked, DecodeNothing
  <2>2. /\ LinkedBus(decodeBus', fu.pc) /\ IsBus(decodeBus')
        /\ Oldest(decodeBus', fu.pc) = Oldest(decodeBus, fu.pc)
    BY <1>1, <2>1, TakeKeepsOrder, BusSteps
  <2> QED BY <1>1, <1>4, <2>1, <2>2, InOrderNext
<1>5. CASE DecodeOne5
  <2> DEFINE pc == decodeBus.current[1]
  <2>1. /\ ~pendingBranchResolution /\ decodeBus.current # << >> /\ CanAdd(executeBus)
        /\ decodeBus' = AfterGet(decodeBus)
        /\ status' = "panic" \/ executeBus' = Add(executeBus, pc)
    BY <1>5 DEF DecodeOne5, DecodeOne
  <2>2. /\ LinkedBus(decodeBus', fu.pc) /\ IsBus(decodeBus')
        /\ Oldest(decodeBus, fu.pc) = pc /\ Oldest(decodeBus', fu.pc) = pc + 4
    BY <1>1, <2>1, TakeKeepsOrder, BusSteps
  <2>3. CASE status' = "panic"
    BY <2>2, <2>3 DEF InOrder5
  <2>4. CASE executeBus' = Add(executeBus, pc)
    <3>1. /\ LinkedBus(executeBus', pc + 4)
          /\ Oldest(executeBus', pc + 4) = Oldest(executeBus, pc)
      BY <1>1, <2>1, <2>2, <2>4, AddKeepsOrder
    <3> QED BY <1>1, <2>1, <2>2, <3>1, InOrderNext
  <2> QED BY <2>1, <2>3, <2>4
<1> QED BY <1>3, <1>4, <1>5 DEF Decode5

\* A jump that the execute unit works on is the last decoded instruction.
LEMMA JumpIsLast ==
  ASSUME StopInv, HasJob, TakeJob, ~eu.waiting, IsJump(Job.pc)
  PROVE  /\ pendingBranchResolution
         /\ executeBus'.current = << >> /\ executeBus'.pending = << >>
<1>1. IsBus(executeBus') /\ Decoded = <<Job.pc>> \o Items(executeBus')
  BY JobIsOldest
<1>2. PICK S : executeBus'.current \in Seq(S) /\ executeBus'.pending \in Seq(S)
  BY <1>1, EntriesAreLists
<1>3. PICK current, pending : current = executeBus'.current /\ pending = executeBus'.pending
  OBVIOUS
<1>4. PICK T, pc : T = S \cup {Job.pc} /\ pc = Job.pc
  OBVIOUS
<1>5. current \in Seq(T) /\ pending \in Seq(T) /\ <<pc>> \in Seq(T)
  BY <1>2, <1>3, <1>4
<1>6. /\ Len(<<pc>> \o (current \o pending)) = 1 + Len(current) + Len(pending)
      /\ (<<pc>> \o (current \o pending))[1] = pc
      /\ Len(current) \in Nat /\ Len(pending) \in Nat
  BY <1>5
<1>7. Decoded = <<pc>> \o (current \o pending)
  BY <1>1, <1>3, <1>4 DEF Items
<1>8. 1 \in 1..Len(Decoded) /\ Decoded[1] = Job.pc
  BY <1>4, <1>6, <1>7
<1>9. IsJump(Decoded[1]) <=> pendingBranchResolution /\ 1 = Len(Decoded)
  <2>1. \A i \in 1..Len(Decoded) : IsJump(Decoded[i]) <=> pendingBranchResolution /\ i = Len(Decoded)
    BY Zenon DEF StopInv, Stops, Waits
  <2> QED BY <1>8, <2>1, Zenon
<1>10. IsJump(Decoded[1])
  BY <1>8, Zenon
<1>11. pendingBranchResolution /\ 1 = Len(Decoded)
  BY <1>9, <1>10, Zenon
<1>12. Len(current) = 0 /\ Len(pending) = 0
  BY <1>6, <1>7, <1>11
<1> QED BY <1>3, <1>5, <1>11, <1>12

\* The rest of the execute bus begins one instruction after the one taken.
LEMMA TakenInOrder ==
  ASSUME StopInv, HasJob, TakeJob, NEW next, LinkedBus(executeBus, next),
         eu.processing => Oldest(executeBus, next) = eu.pc + 4
  PROVE  LinkedBus(executeBus', next) /\ Oldest(executeBus', next) = Job.pc + 4
<1>1. CASE eu.processing
  BY <1>1 DEF TakeJob, Job
<1>2. CASE ~eu.processing
  <2>1. /\ executeBus' = AfterGet(executeBus) /\ executeBus.current # << >>
        /\ Job.pc = executeBus.current[1] /\ IsBus(executeBus)
    BY <1>2 DEF TakeJob, HasJob, Job, IdleEu, StopInv
  <2> QED BY <2>1, TakeKeepsOrder
<1> QED BY <1>1, <1>2

\* A step that leaves the fetch and the decode unit alone.
LEMMA OrderKept ==
  ASSUME OrderInv, StopInv', status = "running", phase' # "decode",
         UNCHANGED <<decodeBus, fu, pendingBranchResolution, toCleanPending>>,
         ~pendingBranchResolution =>
           /\ LinkedBus(executeBus', ToDecode5)
           /\ eu'.processing => Oldest(executeBus', ToDecode5) = eu'.pc + 4
  PROVE  OrderInv'
<1>1. InOrder5'
  BY InOrderNext DEF OrderInv, InOrder5, ToDecode5, ToDecode
<1> QED BY <1>1 DEF OrderInv

\* A step that sends the fetch unit somewhere else, nothing decoded being left
\* or the decode unit being stopped (fetchUnit.reset).
LEMMA OrderReset ==
  ASSUME OrderInv, StopInv', phase' # "decode", decodeBus' = decodeBus, NEW pc, Reset(pc),
         \/ pendingBranchResolution'
         \/ executeBus'.current = << >> /\ executeBus'.pending = << >> /\ ~eu'.processing
  PROVE  OrderInv'
<1>1. toCleanPending' = TRUE
      /\ DOMAIN fu' = {"pc", "remaining", "complete", "processing"}
  BY DEF Reset, OrderInv
<1>2. ~pendingBranchResolution' => LinkedBus(executeBus', fu'.pc) /\ ~eu'.processing
  BY DEF LinkedBus, Linked
<1>3. InOrder5'
  BY <1>1, <1>2, InOrderNext
<1> QED BY <1>1, <1>3 DEF OrderInv

\* The execute unit and the branch unit (eu.go, bu.go): the fetch unit is sent
\* to a target only when the jump is all that is decoded.
LEMMA ExecuteKeepsOrder == ASSUME OrderInv, Execute5 PROVE OrderInv'
<1>1. /\ StopInv /\ StopInv' /\ status = "running" /\ phase = "execute" /\ decodeBus' = decodeBus
      /\ DOMAIN eu = DOMAIN IdleEu /\ (eu.waiting => eu.processing)
      /\ IdleEu.processing = FALSE
      /\ ~pendingBranchResolution =>
           /\ LinkedBus(executeBus, ToDecode5)
           /\ eu.processing => Oldest(executeBus, ToDecode5) = eu.pc + 4
  BY ExecuteKeepsStop DEF Execute5, At, OrderInv, StopInv, InOrder5, ToExecute5, IdleEu
<1>2. phase' # "decode"
  BY <1>1 DEF Execute5, ExecuteHazard5, ExecuteReads5, ExecuteRuns5, ExecuteWaits,
     ExecuteReceives, ExecuteNothing, ExecuteCounts, ExecuteBlocked, NotFinished, GoTo, Finish
<1>3. ASSUME HasJob, TakeJob, eu'.processing => eu'.pc = Job.pc, UNCHANGED NoJumpVars
      PROVE  OrderInv'
  BY <1>1, <1>2, <1>3, TakenInOrder, OrderKept DEF NoJumpVars
<1>4. ASSUME UNCHANGED executeBus, eu'.processing => eu.processing /\ eu'.pc = eu.pc,
             UNCHANGED NoJumpVars
      PROVE  OrderInv'
  BY <1>1, <1>2, <1>4, OrderKept DEF NoJumpVars
<1>5. DOMAIN Job = DOMAIN IdleEu
  BY <1>1 DEF Job, IdleEu
<1>6. CASE ExecuteWaits /\ UNCHANGED NoJumpVars
  <2>1. executeBus' = executeBus /\ eu' = [eu EXCEPT !.remaining = @ - 1]
    BY <1>6 DEF ExecuteWaits
  <2>2. eu'.processing = eu.processing /\ eu'.pc = eu.pc
    BY <1>1, <2>1 DEF IdleEu
  <2> QED BY <1>4, <1>6, <2>1, <2>2
<1>7. CASE ExecuteReceives /\ UNCHANGED NoJumpVars
  <2>1. executeBus' = executeBus /\ eu.processing /\ eu' \in {eu, Received, IdleEu}
    BY <1>1, <1>7 DEF ExecuteReceives, Finish
  <2>2. Received.pc = eu.pc
    BY DEF Received, IdleEu
  <2> QED BY <1>1, <1>4, <1>7, <2>1, <2>2
<1>8. CASE ExecuteNothing /\ UNCHANGED NoJumpVars
  <2>1. /\ executeBus' = AfterGet(executeBus) /\ executeBus.current = << >>
        /\ ~eu.processing /\ eu' = eu /\ IsBus(executeBus)
    BY <1>1, <1>8 DEF ExecuteNothing, TakeJob, HasJob, StopInv
  <2>2. ~pendingBranchResolution => LinkedBus(executeBus', ToDecode5)
    BY <1>1, <2>1, TakeKeepsOrder
  <2> QED BY <1>1, <1>2, <1>8, <2>1, <2>2, OrderKept DEF NoJumpVars
<1>9. CASE (ExecuteCounts \/ ExecuteBlocked) /\ UNCHANGED NoJumpVars
  <2>1. HasJob /\ TakeJob /\ (eu' = Job \/ eu' = [Job EXCEPT !.remaining = @ - 1])
    BY <1>9 DEF ExecuteCounts, ExecuteBlocked
  <2>2. eu'.pc = Job.pc
    BY <1>5, <2>1 DEF IdleEu
  <2> QED BY <1>3, <1>9, <2>1, <2>2
<1>10. CASE ExecuteHazard5
  <2>1. /\ HasJob /\ TakeJob /\ ~eu.waiting /\ eu' = Job /\ AssertFetch(Job.pc)
        /\ UNCHANGED <<btb, pendingBranchResolution>>
    BY <1>10 DEF ExecuteHazard5, Ready
  <2>2. CASE IsJump(Job.pc) /\ Known(btb, Job.pc)
    <3>1. pendingBranchResolution
      BY <1>1, <2>1, <2>2, JumpIsLast
    <3>2. Reset(Target(btb, Job.pc))
      BY <2>1, <2>2 DEF AssertFetch
    <3> QED BY <1>1, <1>2, <2>1, <3>1, <3>2, OrderReset
  <2>3. CASE ~(IsJump(Job.pc) /\ Known(btb, Job.pc))
    <3>1. UNCHANGED NoJumpVars
      BY <2>1, <2>3 DEF AssertFetch, NoJumpVars
    <3> QED BY <1>3, <2>1, <3>1
  <2> QED BY <2>2, <2>3
<1>11. CASE ExecuteReads5
  <2>1. /\ HasJob /\ TakeJob /\ UNCHANGED NoJumpVars
        /\ \E addrs :
             eu' = IF AllIn(l1d, addrs)
                   THEN [Job EXCEPT !.waiting = TRUE, !.remaining = L1AccessCycles,
                                    !.bytes = ReadValues(l1d, addrs), !.cached = TRUE]
                   ELSE [Job EXCEPT !.waiting = TRUE, !.remaining = MemoryCycles,
                                    !.addrs = addrs]
    BY <1>11 DEF ExecuteReads5, Ready
  <2>2. eu'.pc = Job.pc
    BY <1>5, <2>1 DEF IdleEu
  <2> QED BY <1>3, <2>1, <2>2
<1>12. CASE ExecuteRuns5
  <2>1. PICK exe : exe = Run(InstructionAt(Job.pc), app, registers, Job.pc, << >>)
    OBVIOUS
  <2>2. /\ ~eu.waiting /\ HasJob /\ TakeJob
        /\ Finish(Job, << >>, l1d, memory, Assert5(Job.pc))
        /\ IF IsJump(Job.pc) /\ exe.Outcome = "ok" THEN Notify(Job.pc, exe.NextPc)
           ELSE UNCHANGED NoJumpVars
    BY <1>12, <2>1, Zenon DEF ExecuteRuns5, Ready
  <2>3. /\ eu' \in {Job, IdleEu}
        /\ exe.Outcome = "ok" /\ ~exe.Return => eu' = IdleEu
    BY <2>1, <2>2 DEF Finish
  <2>4. CASE IsJump(Job.pc) /\ exe.Outcome = "ok"
    <3>1. Reset(exe.NextPc)
      BY <2>2, <2>4 DEF Notify
    <3>2. executeBus'.current = << >> /\ executeBus'.pending = << >>
      BY <1>1, <2>2, <2>4, JumpIsLast
    <3>3. ~exe.Return
      <4>1. IsUnconditionalBranch(InstructionAt(Job.pc))
        BY <2>4 DEF IsJump
      <4> QED BY <2>1, <4>1, JumpExecution
    <3>4. eu' = IdleEu
      BY <2>3, <2>4, <3>3
    <3> QED BY <1>1, <1>2, <3>1, <3>2, <3>4, OrderReset
  <2>5. CASE ~(IsJump(Job.pc) /\ exe.Outcome = "ok")
    <3>1. UNCHANGED NoJumpVars
      BY <2>2, <2>5
    <3>2. eu'.processing => eu'.pc = Job.pc
      BY <1>1, <2>3
    <3> QED BY <1>3, <2>2, <3>1, <3>2
  <2> QED BY <2>4, <2>5
<1> QED
  BY <1>6, <1>7, <1>8, <1>9, <1>10, <1>11, <1>12 DEF Execute5

\* CPU.flush: the order begins anew at the target of the branch, whether or not
\* the fetch unit has still to empty its bus.
LEMMA FlushKeepsOrder == ASSUME OrderInv, FlushPipeline5 PROVE OrderInv'
<1>1. /\ StopInv' /\ phase' = "fetch" /\ eu' = eu /\ ~eu.processing
      /\ decodeBus' = EmptyBus /\ executeBus' = EmptyBus
      /\ DOMAIN fu' = {"pc", "remaining", "complete", "processing"}
  BY FlushKeepsStop DEF FlushPipeline5, FlushPipeline, At, GoTo, OrderInv, StopInv
<1>2. \A next : LinkedBus(EmptyBus, next)
  BY EmptyBusIsBus DEF LinkedBus, Linked
<1>3. InOrder5'
  BY <1>1, <1>2, InOrderNext
<1> QED BY <1>1, <1>3, EmptyBusIsBus DEF OrderInv

\* The rest of the loop.
LEMMA OthersKeepOrder ==
  ASSUME OrderInv,
         \/ (WriteBack \/ EndOfCycle \/ Drain \/ Ended)
            /\ UNCHANGED <<btb, pendingBranchResolution, toCleanPending>>
         \/ UNCHANGED vars5
  PROVE  OrderInv'
<1>1. /\ UNCHANGED <<fu, decodeBus, executeBus, eu, pendingBranchResolution, toCleanPending>>
      /\ phase' = "decode" => phase = "decode"
      /\ status' = status \/ status = "running"
  BY DEF WriteBack, EndOfCycle, Drain, Ended, vars, vars5, frontVars, At, GoTo
<1>2. StopInv'
  BY OthersKeepStop DEF OrderInv
<1>3. InOrder5'
  BY <1>1 DEF OrderInv, InOrder5, ToExecute5, ToDecode5, ToDecode, Oldest, LinkedBus, Pending
<1> QED BY <1>1, <1>2, <1>3 DEF OrderInv

\* The pcs on their way through MVP-5 are consecutive instructions, in every run
\* of every program, but for the gap behind a jump whose target is open: the
\* fetch unit sent ahead by the buffer or by a report, and the bus it empties a
\* cycle later, neither skip nor repeat an instruction.
THEOREM PipelineInOrder5 == Spec5 => []InOrder5
<1>1. Init5 => OrderInv
  <2> SUFFICES ASSUME Init5 PROVE OrderInv OBVIOUS
  <2>1. /\ decodeBus = EmptyBus /\ executeBus = EmptyBus /\ eu.processing = FALSE
        /\ phase = "fetch" /\ DOMAIN fu = {"pc", "remaining", "complete", "processing"}
    BY DEF Init5, Init, IdleEu
  <2>2. \A next : LinkedBus(EmptyBus, next)
    BY EmptyBusIsBus DEF LinkedBus, Linked
  <2>3. InOrder5
    BY <2>1, <2>2 DEF InOrder5
  <2> QED BY <2>1, <2>3, InitStops, EmptyBusIsBus DEF OrderInv
<1>2. OrderInv /\ [Next5]_vars5 => OrderInv'
  BY FetchKeepsOrder, DecodeKeepsOrder, ExecuteKeepsOrder, FlushKeepsOrder, OthersKeepOrder
  DEF Next5
<1>3. OrderInv => InOrder5
  BY DEF OrderInv
<1> QED BY <1>1, <1>2, <1>3, PTL DEF Spec5

-----------------------------------------------------------------------------
(* Flushes                                                                 *)

\* What the branch unit asks of a jump that executes: nothing, or to go where it
\* cannot go.
LEMMA JumpFlushes ==
  ASSUME NEW pc, IsJump(pc), NEW unit, unit = Assert5(pc), DOMAIN bu = {"toCheck", "expectation"},
         NEW next
  PROVE  ShouldFlush(unit, next) <=> ~Known(btb, pc) /\ next # -1
BY DEF Assert5, ShouldFlush

FlushInv ==
  StopInv /\ IsBus(writeBus) /\ DOMAIN bu = {"toCheck", "expectation"}

LEMMA FinishKeepsFlushInv ==
  ASSUME FlushInv, NEW job, NEW bytes, NEW lines, NEW ram, NEW unit,
         DOMAIN unit = {"toCheck", "expectation"}, Finish(job, bytes, lines, ram, unit)
  PROVE  IsBus(writeBus') /\ DOMAIN bu' = {"toCheck", "expectation"}
<1>1. writeBus' = writeBus \/ \E t : writeBus' = Add(writeBus, t)
  BY DEF Finish
<1>2. bu' = unit \/ bu' = [unit EXCEPT !.toCheck = FALSE]
  BY DEF Finish
<1> QED BY <1>1, <1>2, BusSteps DEF FlushInv

LEMMA NextKeepsFlushInv == ASSUME FlushInv, [Next5]_vars5 PROVE FlushInv'
<1>1. /\ StopInv' /\ IsBus(writeBus) /\ DOMAIN bu = {"toCheck", "expectation"}
      /\ \A pc : DOMAIN Assert5(pc) = {"toCheck", "expectation"}
  BY NextKeepsStop DEF FlushInv, Assert5
<1>2. CASE Execute5
  <2>1. CASE ExecuteReceives
    <3>1. \/ UNCHANGED <<writeBus, bu>>
          \/ \E job, bytes, lines, ram : Finish(job, bytes, lines, ram, bu)
      BY <2>1 DEF ExecuteReceives
    <3> QED BY <1>1, <3>1, FinishKeepsFlushInv DEF FlushInv
  <2>2. CASE ExecuteRuns5
    <3>1. Finish(Job, << >>, l1d, memory, Assert5(Job.pc))
      BY <2>2, Zenon DEF ExecuteRuns5
    <3> QED BY <1>1, <3>1, FinishKeepsFlushInv DEF FlushInv
  <2>3. CASE ~ExecuteReceives /\ ~ExecuteRuns5
    <3>1. writeBus' = writeBus /\ (bu' = bu \/ bu' = Assert5(Job.pc))
      BY <1>2, <2>3 DEF Execute5, ExecuteHazard5, ExecuteReads5, ExecuteWaits, ExecuteNothing,
         ExecuteCounts, ExecuteBlocked, NotFinished
    <3> QED BY <1>1, <3>1 DEF FlushInv
  <2> QED BY <2>1, <2>2, <2>3
<1>3. CASE ~Execute5
  <2>1. bu' = bu /\ writeBus' \in {writeBus, AfterGet(writeBus), EmptyBus}
    BY <1>3 DEF Next5, Fetch5, Decode5, FlushPipeline5, FlushPipeline, WriteBack, EndOfCycle,
       Drain, Ended, WriteUnitCycle, WriteWaits, WriteNothing, WriteRegisterBack,
       WriteMemoryBack, WriteNoChange, vars, vars5, backVars
  <2> QED BY <1>1, <2>1, BusSteps, EmptyBusIsBus DEF FlushInv
<1> QED BY <1>2, <1>3

\* Only executeUnit.run has a new result, and a jump's comes with its check.
LEMMA JumpResult ==
  ASSUME FlushInv, [Next5]_vars5, NewResult, IsJump(LastResult.pc)
  PROVE  signal'.flush <=> ~Known(btb, LastResult.pc) /\ LastResult.exe.NextPc # -1
<1>1. /\ StopInv /\ IsBus(writeBus) /\ DOMAIN bu = {"toCheck", "expectation"}
      /\ writeBus' \notin {writeBus, AfterGet(writeBus), EmptyBus}
  BY NoNewResult DEF FlushInv
<1>3. Execute5
  BY <1>1 DEF Next5, Fetch5, Decode5, FlushPipeline5, FlushPipeline, WriteBack, EndOfCycle,
     Drain, Ended, WriteUnitCycle, WriteWaits, WriteNothing, WriteRegisterBack,
     WriteMemoryBack, WriteNoChange, vars, vars5, backVars
<1>4. ASSUME NEW job, NEW bytes, NEW lines, NEW ram, NEW unit,
             Finish(job, bytes, lines, ram, unit),
             NEW exe, exe = Run(InstructionAt(job.pc), app, registers, job.pc, bytes)
      PROVE  /\ exe.Outcome = "ok" /\ LastResult.pc = job.pc /\ LastResult.exe = exe
             /\ signal'.flush <=> exe.PcChange /\ ShouldFlush(unit, exe.NextPc)
  <2>1. PICK t : /\ exe.Outcome = "ok" /\ writeBus' = Add(writeBus, t)
                 /\ t.pc = job.pc /\ t.exe = exe
                 /\ signal' = IF exe.PcChange /\ ShouldFlush(unit, exe.NextPc)
                              THEN [NoSignal EXCEPT !.flush = TRUE, !.pc = exe.NextPc]
                              ELSE NoSignal
    BY <1>1, <1>4 DEF Finish
  <2>2. LastResult = t
    BY <1>1, <2>1, YoungestOfBus DEF LastResult
  <2> QED BY <2>1, <2>2 DEF NoSignal
<1>5. CASE ExecuteReceives
  <2>1. PICK bytes, lines, ram : Finish(Received, bytes, lines, ram, bu)
    BY <1>1, <1>5 DEF ExecuteReceives
  <2>2. LastResult.pc = eu.pc
    <3>1. LastResult.pc = Received.pc
      BY <1>4, <2>1, Zenon
    <3> QED BY <3>1 DEF Received, IdleEu
  <2>3. ~IsJump(eu.pc)
    BY <1>5 DEF ExecuteReceives, FlushInv, StopInv
  <2> QED BY <2>2, <2>3
<1>6. CASE ExecuteRuns5
  <2>1. PICK exe : exe = Run(InstructionAt(Job.pc), app, registers, Job.pc, << >>)
    OBVIOUS
  <2>2. Finish(Job, << >>, l1d, memory, Assert5(Job.pc))
    BY <1>6, Zenon DEF ExecuteRuns5
  <2>3. /\ exe.Outcome = "ok" /\ LastResult.pc = Job.pc /\ LastResult.exe = exe
        /\ signal'.flush <=> exe.PcChange /\ ShouldFlush(Assert5(Job.pc), exe.NextPc)
    BY <1>4, <2>1, <2>2
  <2>4. IsJump(Job.pc)
    BY <2>3
  <2>5. exe.PcChange = TRUE
    <3>1. IsUnconditionalBranch(InstructionAt(Job.pc))
      BY <2>4 DEF IsJump
    <3> QED BY <2>1, <2>3, <3>1, JumpExecution
  <2>6. ShouldFlush(Assert5(Job.pc), exe.NextPc) <=> ~Known(btb, Job.pc) /\ exe.NextPc # -1
    BY <1>1, <2>4, JumpFlushes
  <2> QED BY <2>3, <2>5, <2>6
<1>7. ExecuteReceives \/ ExecuteRuns5
  BY <1>1, <1>3 DEF Execute5, ExecuteHazard5, ExecuteReads5, ExecuteWaits, ExecuteNothing,
     ExecuteCounts, ExecuteBlocked, NotFinished
<1> QED BY <1>5, <1>6, <1>7

\* A jump in the buffer never flushes the pipeline, whether or not its target is
\* the one the buffer had; any other does, wherever the program can send it
\* (btbBranchUnit.assert, shouldFlushPipeline).
THEOREM KnownJumpsSpareTheFlush == Spec5 => KnownJumpsDoNotFlush
<1>1. Init5 => FlushInv
  <2> SUFFICES ASSUME Init5 PROVE FlushInv OBVIOUS
  <2>1. writeBus = EmptyBus /\ DOMAIN bu = {"toCheck", "expectation"}
    BY DEF Init5, Init
  <2> QED BY <2>1, InitStops, EmptyBusIsBus DEF FlushInv
<1>2. FlushInv /\ [Next5]_vars5 => FlushInv'
  BY NextKeepsFlushInv
<1>3. FlushInv /\ [Next5]_vars5 =>
        [NewResult /\ IsJump(LastResult.pc) =>
           (signal'.flush <=>
              ~Known(btb, LastResult.pc) /\ LastResult.exe.NextPc # -1)]_vars5
  BY JumpResult
<1> QED BY <1>1, <1>2, <1>3, PTL DEF Spec5, KnownJumpsDoNotFlush
=============================================================================
