-------------------------------- MODULE Mvp4 --------------------------------
(***************************************************************************)
(* MVP-4, the pipelined processor: a fetch, a decode, an execute and a     *)
(* write unit, each given one cycle in turn, connected by SimpleBuses.     *)
(*                                                                         *)
(* CPU.Run calls the units one after the other; the actions Fetch, Decode, *)
(* Execute, WriteBack are those calls, EndOfCycle and Drain the rest of    *)
(* the loop's body, and `phase' is the place reached in it.                *)
(*                                                                         *)
(* The cycle counter is left out.  L1I holds no data (the code fills its   *)
(* lines with zeros): it decides how long a fetch takes.  pendingWrites    *)
(* leaves Zero out, whose count the code never looks at.                   *)
(***************************************************************************)
EXTENDS Isa, Mmu, SimpleBus

CONSTANTS
  Applications,   \* the programs, records [Instructions, Labels]
  InitMemories,   \* the initial memories, functions on 0 .. size - 1
  InitRegisters,  \* the initial register files
  MemoryCycles,   \* cyclesMemoryAccess (50)
  L1ILineLength, L1INumberOfLines

L1AccessCycles == 1  \* cyclesL1Access

ASSUME Mvp4Assumption ==
  /\ \A application \in Applications : IsApplication(application)
  /\ \A bytes \in InitMemories : IsMemory(bytes)
  /\ \A file \in InitRegisters : IsRegisterFile(file)
  /\ MemoryCycles \in Nat \ {0}
  /\ L1ILineLength \in Nat \ {0} /\ L1INumberOfLines \in Nat \ {0}

L1I == INSTANCE LRUCache WITH LineLength <- L1ILineLength,
                              NumberOfLines <- L1INumberOfLines

VARIABLES
  app,           \* the program, chosen once
  registers,     \* Context.Registers; an absent entry reads as 0
  pendingWrites, \* Context.PendingWriteRegisters
  memory,        \* Context.Memory
  l1i, l1d,      \* the lines of the two caches
  fu,            \* fetch unit: pc, remaining, complete, processing
  decodeBus,     \* pcs from the fetch to the decode unit
  executeBus,    \* pcs of decoded instructions (the runner is app's)
  eu,            \* execute unit: see IdleEu
  bu,            \* branch unit: toCheck, expectation
  writeBus,      \* executions for the write unit: pc, exe, writes
  wu,            \* write unit: pendingMemoryWrite, cycles
  signal,        \* what executeUnit.cycle returned: flush, pc, ret
  phase,         \* the place in CPU.Run's loop
  status         \* "running", or how Run ended

contextVars == <<registers, pendingWrites, memory>>
frontVars == <<l1i, fu, decodeBus>>
backVars == <<writeBus, wu>>
vars == <<app, contextVars, frontVars, l1d, executeBus, eu, bu, backVars,
          signal, phase, status>>

NoSignal == [flush |-> FALSE, pc |-> 0, ret |-> FALSE]

\* pc stands for eu.runner, waiting for pendingMemoryRead; bytes is eu.memory
\* and cached says that it is not nil.
IdleEu == [processing |-> FALSE, pc |-> 0, remaining |-> 0, waiting |-> FALSE,
           addrs |-> << >>, bytes |-> << >>, cached |-> FALSE]

NoWrites == [r \in Register |-> 0]

Init ==
  /\ app \in Applications
  /\ registers \in InitRegisters
  /\ pendingWrites = NoWrites
  /\ memory \in InitMemories
  /\ l1i = << >> /\ l1d = << >>
  /\ fu = [pc |-> 0, remaining |-> 0, complete |-> FALSE, processing |-> FALSE]
  /\ decodeBus = EmptyBus /\ executeBus = EmptyBus /\ writeBus = EmptyBus
  /\ eu = IdleEu
  /\ bu = [toCheck |-> FALSE, expectation |-> 0]
  /\ wu = [pendingMemoryWrite |-> FALSE, cycles |-> 0]
  /\ signal = NoSignal
  /\ phase = "fetch"
  /\ status = "running"

InstructionAt(pc) == app.Instructions[IndexOf(pc) + 1]
InProgram(pc) == IndexOf(pc) + 1 \in 1..Len(app.Instructions)
PastEnd(pc) == IndexOf(pc) >= Len(app.Instructions)

At(p) == status = "running" /\ phase = p
GoTo(p) == phase' = p /\ UNCHANGED status

-----------------------------------------------------------------------------
(* Fetch unit                                                              *)

\* The unit at the start of its countdown: a new fetch looks the pc up in L1I
\* and pushes a line if it is not there.
FetchStartedEarly ==   \* faulty: a hit counts down from 0
  IF fu.processing THEN fu
  ELSE [fu EXCEPT !.processing = TRUE,
                  !.remaining = IF L1I!Contains(l1i, fu.pc) THEN 0 ELSE MemoryCycles]
FetchStarted ==
  IF fu.processing THEN fu
  ELSE [fu EXCEPT !.processing = TRUE,
                  !.remaining = IF L1I!Contains(l1i, fu.pc) THEN 1 ELSE MemoryCycles]
L1IAfterFetch ==
  IF fu.processing THEN l1i
  ELSE IF L1I!Contains(l1i, fu.pc) THEN L1I!Promote(l1i, fu.pc)
  ELSE L1I!PushLine(l1i, fu.pc, << >>)

FetchIdle == fu.complete /\ UNCHANGED frontVars

FetchCounts ==
  /\ ~fu.complete
  /\ FetchStarted.remaining # 1
  /\ fu' = [FetchStarted EXCEPT !.remaining = @ - 1]
  /\ l1i' = L1IAfterFetch
  /\ UNCHANGED decodeBus

FetchBlocked ==
  /\ ~fu.complete
  /\ FetchStarted.remaining = 1 /\ ~CanAdd(decodeBus)
  /\ fu' = FetchStarted
  /\ l1i' = L1IAfterFetch
  /\ UNCHANGED decodeBus

FetchPushes ==
  /\ ~fu.complete
  /\ FetchStarted.remaining = 1 /\ CanAdd(decodeBus)
  /\ fu' = [pc |-> fu.pc + 4, remaining |-> 0, processing |-> FALSE,
            complete |-> PastEnd(fu.pc + 4)]
  /\ decodeBus' = Add(decodeBus, fu.pc)
  /\ l1i' = L1IAfterFetch

Fetch ==
  /\ At("fetch") /\ GoTo("decode")
  /\ FetchIdle \/ FetchCounts \/ FetchBlocked \/ FetchPushes
  /\ UNCHANGED <<app, contextVars, l1d, executeBus, eu, bu, backVars, signal>>

-----------------------------------------------------------------------------
(* Decode unit                                                             *)

DecodeBlocked == ~CanAdd(executeBus) /\ GoTo("execute") /\ UNCHANGED <<decodeBus, executeBus>>

DecodeNothing ==
  /\ CanAdd(executeBus) /\ decodeBus.current = << >>
  /\ decodeBus' = AfterGet(decodeBus)
  /\ GoTo("execute") /\ UNCHANGED executeBus

\* A pc outside the program is an index out of range.
DecodeOne ==
  /\ CanAdd(executeBus) /\ decodeBus.current # << >>
  /\ decodeBus' = AfterGet(decodeBus)
  /\ LET pc == decodeBus.current[1]
     IN IF InProgram(pc)
        THEN executeBus' = Add(executeBus, pc) /\ GoTo("execute")
        ELSE status' = "panic" /\ UNCHANGED <<executeBus, phase>>

Decode ==
  /\ At("decode")
  /\ DecodeBlocked \/ DecodeNothing \/ DecodeOne
  /\ UNCHANGED <<app, contextVars, l1i, fu, l1d, eu, bu, backVars, signal>>

-----------------------------------------------------------------------------
(* Execute unit and branch unit                                            *)

\* simpleBranchUnit.assert: an unconditional branch is never predicted, a
\* conditional one is predicted not taken.  Any other opcode leaves the unit
\* as it is.
Assert(pc) ==
  IF IsUnconditionalBranch(InstructionAt(pc)) THEN [toCheck |-> TRUE, expectation |-> -1]
  ELSE IF IsConditionalBranch(InstructionAt(pc))
       THEN [toCheck |-> TRUE, expectation |-> pc + 4]
  ELSE bu

ShouldFlush(unit, pc) == unit.toCheck /\ unit.expectation # pc

\* The instruction the unit works on this cycle, if any.
HasJob == eu.processing \/ executeBus.current # << >>
Job ==
  IF eu.processing THEN eu
  ELSE [IdleEu EXCEPT !.processing = TRUE, !.pc = executeBus.current[1],
                      !.remaining = Cycles(InstructionAt(executeBus.current[1]))]
TakeJob == executeBus' = IF eu.processing THEN executeBus ELSE AfterGet(executeBus)

IsNeverHazard(regs) == FALSE   \* faulty
IsWriteDataHazard(regs) == \E r \in regs \ {Zero} : pendingWrites[r] > 0

\* AddPendingWriteRegisters; the faulty variant keeps a set, not a count.
CountedOnce(ins) ==
  [r \in Register |-> IF r \in WriteRegisters(ins) \ {Zero} THEN 1 ELSE pendingWrites[r]]
CountedUp(ins) ==
  [r \in Register |->
     IF r \in WriteRegisters(ins) \ {Zero} THEN pendingWrites[r] + 1 ELSE pendingWrites[r]]

\* executeUnit.run: the job with the bytes loaded, `lines' and `ram' being the
\* data cache and the memory, and `unit' the branch unit, by then.  After an
\* error or a ret the unit stays busy; the pc is kept, where the code clears
\* the runner, and nothing looks at it again.
Finish(job, bytes, lines, ram, unit) ==
  LET pc == job.pc
      ins == InstructionAt(pc)
      exe == Run(ins, app, registers, pc, bytes)
      flush == exe.PcChange /\ ShouldFlush(unit, exe.NextPc)
  IN
  \/ /\ exe.Outcome # "ok"
     /\ status' = exe.Outcome
     /\ l1d' = lines /\ memory' = ram /\ bu' = unit /\ eu' = job
     /\ UNCHANGED <<registers, pendingWrites, writeBus, signal, phase>>
  \/ /\ exe.Return
     /\ signal' = [NoSignal EXCEPT !.ret = TRUE]
     /\ l1d' = lines /\ memory' = ram /\ bu' = unit /\ eu' = job
     /\ GoTo("write")
     /\ UNCHANGED <<registers, pendingWrites, writeBus>>
  \/ /\ exe.Outcome = "ok" /\ exe.MemoryChange
     /\ AllChangesIn(lines, exe.MemoryChanges)
     /\ \E probed \in Probed(lines, exe.MemoryChanges) :
          IF CrossesLine(probed, exe.MemoryChanges)
          THEN status' = "panic" /\ UNCHANGED <<l1d, phase>>
          ELSE l1d' = Write(probed, exe.MemoryChanges) /\ GoTo("write")
     /\ memory' = ram /\ eu' = IdleEu /\ bu' = unit
     /\ UNCHANGED <<registers, pendingWrites, writeBus, signal>>
  \/ /\ exe.Outcome = "ok" /\ ~exe.Return
     /\ ~(exe.MemoryChange /\ AllChangesIn(lines, exe.MemoryChanges))
     /\ IF exe.MemoryChange THEN l1d' \in Probed(lines, exe.MemoryChanges) ELSE l1d' = lines
     /\ memory' = ram /\ eu' = IdleEu
     /\ registers' = DirectWrite(ins, exe, registers, pc)
     /\ writeBus' = Add(writeBus, [pc |-> pc, exe |-> exe, writes |-> WriteRegisters(ins)])
     /\ pendingWrites' = CountedUp(ins)
     /\ bu' = IF exe.PcChange THEN [unit EXCEPT !.toCheck = FALSE] ELSE unit
     /\ signal' = IF flush THEN [NoSignal EXCEPT !.flush = TRUE, !.pc = exe.NextPc]
                  ELSE NoSignal
     /\ GoTo("write")

NotFinished == GoTo("write") /\ UNCHANGED <<contextVars, writeBus, signal>>

ExecuteWaits ==
  /\ eu.waiting /\ eu.remaining # 1
  /\ eu' = [eu EXCEPT !.remaining = @ - 1]
  /\ NotFinished /\ UNCHANGED <<l1d, executeBus, bu>>

Received == [IdleEu EXCEPT !.processing = TRUE, !.pc = eu.pc]

\* The memory answers.  A line fetched from memory is read only now.
ExecuteReceives ==
  /\ eu.waiting /\ eu.remaining = 1
  /\ UNCHANGED executeBus
  /\ IF eu.cached THEN Finish(Received, eu.bytes, l1d, memory, bu)
     ELSE IF NoLine(l1d, memory, eu.addrs, Word)
     THEN status' = "panic" /\ UNCHANGED <<contextVars, l1d, eu, bu, writeBus, signal, phase>>
     ELSE LET pushed == PushedLines(l1d, memory, eu.addrs[1])
          IN Finish(Received, ReadValues(pushed, eu.addrs), TouchAll(pushed, eu.addrs),
                    PushedMemory(l1d, memory, eu.addrs[1]), bu)

ExecuteNothing ==
  /\ ~eu.waiting /\ ~HasJob
  /\ TakeJob
  /\ NotFinished /\ UNCHANGED <<l1d, eu, bu>>

ExecuteCounts ==
  /\ ~eu.waiting /\ HasJob /\ Job.remaining # 1
  /\ TakeJob /\ eu' = [Job EXCEPT !.remaining = @ - 1]
  /\ NotFinished /\ UNCHANGED <<l1d, bu>>

\* The result could not be passed on: try again in the next cycle.
ExecuteBlocked ==
  /\ ~eu.waiting /\ HasJob /\ Job.remaining = 1 /\ ~CanAdd(writeBus)
  /\ TakeJob /\ eu' = Job
  /\ NotFinished /\ UNCHANGED <<l1d, bu>>

ReadyWithoutRoom == ~eu.waiting /\ HasJob /\ Job.remaining = 1   \* faulty
Ready ==
  ~eu.waiting /\ HasJob /\ Job.remaining = 1 /\ CanAdd(writeBus)

\* A register to be read is still to be written: try again.
ExecuteHazard ==
  /\ Ready /\ IsWriteDataHazard(ReadRegisters(InstructionAt(Job.pc)))
  /\ TakeJob /\ eu' = Job /\ bu' = Assert(Job.pc)
  /\ NotFinished /\ UNCHANGED l1d

ExecuteReads ==
  /\ Ready /\ ~IsWriteDataHazard(ReadRegisters(InstructionAt(Job.pc)))
  /\ LET addrs == MemoryRead(InstructionAt(Job.pc), registers)
     IN /\ addrs # << >>
        /\ l1d' = TouchAll(l1d, addrs)
        /\ eu' = IF AllIn(l1d, addrs)
                 THEN [Job EXCEPT !.waiting = TRUE, !.remaining = L1AccessCycles,
                                  !.bytes = ReadValues(l1d, addrs), !.cached = TRUE]
                 ELSE [Job EXCEPT !.waiting = TRUE, !.remaining = MemoryCycles,
                                  !.addrs = addrs]
  /\ TakeJob /\ bu' = Assert(Job.pc)
  /\ NotFinished

ExecuteRuns ==
  /\ Ready /\ ~IsWriteDataHazard(ReadRegisters(InstructionAt(Job.pc)))
  /\ MemoryRead(InstructionAt(Job.pc), registers) = << >>
  /\ TakeJob
  /\ Finish(Job, << >>, l1d, memory, Assert(Job.pc))

Execute ==
  /\ At("execute")
  /\ \/ ExecuteWaits \/ ExecuteReceives \/ ExecuteNothing \/ ExecuteCounts
     \/ ExecuteBlocked \/ ExecuteHazard \/ ExecuteReads \/ ExecuteRuns
  /\ UNCHANGED <<app, frontVars, wu>>

-----------------------------------------------------------------------------
(* Write unit                                                              *)

WriteWaits ==
  /\ wu.pendingMemoryWrite
  /\ wu' = [wu EXCEPT !.cycles = @ - 1, !.pendingMemoryWrite = (wu.cycles # 1)]
  /\ UNCHANGED <<contextVars, writeBus, status>>

WriteNothing ==
  /\ ~wu.pendingMemoryWrite /\ writeBus.current = << >>
  /\ writeBus' = AfterGet(writeBus)
  /\ UNCHANGED <<contextVars, wu, status>>

\* DeletePendingWriteRegisters takes one off the count; the faulty variant
\* keeps it.
CountedForever(done) == pendingWrites
CountedDown(done) ==
  [r \in Register |->
     IF r \in done.writes \ {Zero} THEN pendingWrites[r] - 1 ELSE pendingWrites[r]]

\* Then, looking at the register instead of the count, it deletes a register
\* that is not positive.
WriteRegisterBack ==
  /\ ~wu.pendingMemoryWrite /\ writeBus.current # << >>
  /\ writeBus.current[1].exe.RegisterChange
  /\ writeBus' = AfterGet(writeBus)
  /\ LET done == writeBus.current[1]
         written == WriteRegister(registers, done.exe)
     IN /\ registers' = [r \in Register |->
             IF r \in done.writes /\ written[r] <= 0 THEN 0 ELSE written[r]]
        /\ pendingWrites' = CountedDown(done)
  /\ UNCHANGED <<memory, wu, status>>

\* A store changes the memory at once and keeps the unit busy afterwards.
WriteMemoryBack ==
  /\ ~wu.pendingMemoryWrite /\ writeBus.current # << >>
  /\ ~writeBus.current[1].exe.RegisterChange
  /\ writeBus.current[1].exe.MemoryChange
  /\ writeBus' = AfterGet(writeBus)
  /\ wu' = [pendingMemoryWrite |-> TRUE, cycles |-> MemoryCycles]
  /\ LET changes == writeBus.current[1].exe.MemoryChanges
     IN IF DOMAIN changes \subseteq DOMAIN memory
        THEN memory' = WriteMemory(memory, changes) /\ UNCHANGED status
        ELSE status' = "panic" /\ UNCHANGED memory
  /\ UNCHANGED <<registers, pendingWrites>>

\* A branch, or a nop, has nothing to write.
WriteNoChange ==
  /\ ~wu.pendingMemoryWrite /\ writeBus.current # << >>
  /\ ~writeBus.current[1].exe.RegisterChange
  /\ ~writeBus.current[1].exe.MemoryChange
  /\ writeBus' = AfterGet(writeBus)
  /\ UNCHANGED <<contextVars, wu, status>>

WriteUnitCycle ==
  WriteWaits \/ WriteNothing \/ WriteRegisterBack \/ WriteMemoryBack \/ WriteNoChange

WriteBack ==
  /\ At("write")
  /\ WriteUnitCycle
  /\ phase' = "end"
  /\ UNCHANGED <<app, frontVars, l1d, executeBus, eu, bu, signal>>

-----------------------------------------------------------------------------
(* The rest of CPU.Run's loop                                              *)

IsComplete ==
  /\ fu.complete /\ ~eu.processing /\ ~wu.pendingMemoryWrite
  /\ IsEmpty(decodeBus) /\ IsEmpty(executeBus) /\ IsEmpty(writeBus)

\* ret leaves the loop at once, whatever is still under way.
EndOfCycle ==
  /\ At("end")
  /\ \/ /\ signal.ret \/ (~signal.flush /\ IsComplete)
        /\ status' = "done"
        /\ memory' = Flushed(l1d, memory)
        /\ UNCHANGED phase
     \/ /\ ~signal.ret /\ signal.flush
        /\ GoTo("drain") /\ UNCHANGED memory
     \/ /\ ~signal.ret /\ ~signal.flush /\ ~IsComplete
        /\ GoTo("fetch") /\ UNCHANGED memory
  /\ UNCHANGED <<app, registers, pendingWrites, frontVars, l1d, executeBus, eu, bu,
                 backVars, signal>>

DrainedEarly == ~wu.pendingMemoryWrite   \* faulty
Drained == ~wu.pendingMemoryWrite /\ IsEmpty(writeBus)

\* Before a flush the write unit alone runs until it has nothing left ...
Drain ==
  /\ At("drain") /\ ~Drained
  /\ WriteUnitCycle
  /\ UNCHANGED <<app, frontVars, l1d, executeBus, eu, bu, signal, phase>>

\* Faulty: a decoded instruction survives.
FlushKeepingDecoded ==
  /\ At("drain") /\ Drained
  /\ fu' = [fu EXCEPT !.processing = FALSE, !.complete = FALSE, !.pc = signal.pc]
  /\ decodeBus' = EmptyBus /\ writeBus' = EmptyBus
  /\ pendingWrites' = NoWrites /\ signal' = NoSignal
  /\ GoTo("fetch")
  /\ UNCHANGED <<app, registers, memory, l1i, l1d, executeBus, eu, bu, wu>>

\* ... and then everything younger than the branch is dropped.
FlushPipeline ==
  /\ At("drain") /\ Drained
  /\ fu' = [fu EXCEPT !.processing = FALSE, !.complete = FALSE, !.pc = signal.pc]
  /\ decodeBus' = EmptyBus /\ executeBus' = EmptyBus /\ writeBus' = EmptyBus
  /\ pendingWrites' = NoWrites
  /\ signal' = NoSignal
  /\ GoTo("fetch")
  /\ UNCHANGED <<app, registers, memory, l1i, l1d, eu, bu, wu>>

\* A run that has ended stays as it is.
Ended == status # "running" /\ UNCHANGED vars

Next == Fetch \/ Decode \/ Execute \/ WriteBack \/ EndOfCycle \/ Drain
        \/ FlushPipeline \/ Ended

\* CPU.Run is one loop that never waits.
Fairness == WF_vars(Next)
Spec == Init /\ [][Next]_vars
FairSpec == Spec /\ Fairness

-----------------------------------------------------------------------------
(* Properties                                                              *)

Phases == {"fetch", "decode", "execute", "write", "end", "drain"}
\* The types of the variables.  Words stay words: no unit makes a value wider.
ControlTypeOK ==
  /\ pendingWrites \in [Register -> Nat]
  /\ DOMAIN fu = {"pc", "remaining", "complete", "processing"}
  /\ IsBus(decodeBus) /\ IsBus(executeBus) /\ IsBus(writeBus)
  /\ DOMAIN eu = DOMAIN IdleEu /\ eu.waiting \in BOOLEAN /\ eu.processing \in BOOLEAN
  /\ signal = [flush |-> signal.flush, pc |-> signal.pc, ret |-> signal.ret]
  /\ signal.flush \in BOOLEAN /\ signal.ret \in BOOLEAN
  /\ phase \in Phases
TypeOK ==
  /\ ControlTypeOK
  /\ app \in Applications
  /\ registers \in [Register -> Word]
  /\ memory \in [DOMAIN memory -> Byte]
  /\ Len(l1i) <= L1INumberOfLines /\ Len(l1d) <= NumberOfLines
  /\ fu \in [pc : Int, remaining : 0..MemoryCycles, complete : BOOLEAN,
             processing : BOOLEAN]
  /\ eu.remaining \in Nat
  /\ bu \in [toCheck : BOOLEAN, expectation : Int]
  /\ wu \in [pendingMemoryWrite : BOOLEAN, cycles : 0..MemoryCycles]
  /\ signal.pc \in Int
  /\ status \in {"running", "done", "error", "panic"}

\* How many writes to r an entry of the write bus stands for.
Writes(entry, r) == IF entry # << >> /\ r \in entry[1].writes THEN 1 ELSE 0

\* PendingWriteRegisters counts exactly the writes on their way to the write
\* unit: AddPendingWriteRegisters, DeletePendingWriteRegisters and Flush keep
\* it in step with the bus, so the hazard check neither misses a writer nor
\* waits for one that is gone.
ScoreboardExact ==
  \A r \in Register \ {Zero} :
    pendingWrites[r] = Writes(writeBus.current, r) + Writes(writeBus.pending, r)

\* A load that has passed the hazard check and waits for the memory still has
\* no older write to a register it reads: nothing is added in front of it.
OperandsFinal ==
  eu.waiting =>
    \A r \in Register \ {Zero} : r \in ReadRegisters(InstructionAt(eu.pc)) =>
      Writes(writeBus.current, r) = 0 /\ Writes(writeBus.pending, r) = 0

\* The place CanAdd has found on the write bus is still free when the answer
\* of the memory arrives, cycles later: Add overwrites no result.
ResultHasRoom == eu.waiting => CanAdd(writeBus)

\* Between two stages elements are neither lost nor duplicated nor reordered:
\* a step takes the oldest, or adds a youngest, or leaves the bus alone.
FifoStep(old, new) ==
  \/ Items(new) = Items(old)
  \/ Items(old) # << >> /\ Items(new) = Tail(Items(old))
  \/ Items(new) # << >> /\ Items(old) = SubSeq(Items(new), 1, Len(Items(new)) - 1)
BusesAreFifo ==
  [][/\ FifoStep(writeBus, writeBus')
     /\ \/ signal.flush
        \/ FifoStep(executeBus, executeBus') /\ FifoStep(decodeBus, decodeBus')]_vars

\* The pcs fetched and not yet executed are consecutive instructions, from the
\* execute unit back to the fetch unit: no instruction is skipped or taken
\* twice, and a flush leaves none of the wrong path behind.
First(entry, next) == IF entry = << >> THEN next ELSE entry[1]
Linked(entry, next) == entry = << >> \/ next = entry[1] + 4

Pending(bus, next) == First(bus.pending, next)
Oldest(bus, next) == First(bus.current, Pending(bus, next))
LinkedBus(bus, next) ==
  Linked(bus.pending, next) /\ Linked(bus.current, Pending(bus, next))

ToDecode == Oldest(decodeBus, fu.pc)     \* the oldest pc not yet decoded
ToExecute == Oldest(executeBus, ToDecode) \* the oldest pc not yet executing
InOrder ==
  status # "panic" =>
    /\ LinkedBus(decodeBus, fu.pc)
    /\ LinkedBus(executeBus, ToDecode)
    /\ eu.processing => ToExecute = eu.pc + 4

\* What makes the invariants above inductive.  An entry that declares a write
\* is one the write unit takes as a register change, or its count would never
\* come down ...
DeclaredWriters ==
  \A entry \in {writeBus.current, writeBus.pending} :
    entry # << >> /\ entry[1].writes # {} => entry[1].exe.RegisterChange

\* ... and the execute unit is idle from the branch that asks for a flush until
\* the pipeline has been flushed, so that it holds nothing of the wrong path.
IdleDuringFlush ==
  /\ eu.waiting => eu.processing
  /\ signal.flush => ~eu.processing
  /\ phase = "drain" => signal.flush
  /\ phase \in {"fetch", "decode", "execute"} => ~signal.flush

\* The inductive invariant of PipelineProofs.
IInv ==
  /\ ControlTypeOK /\ DeclaredWriters /\ IdleDuringFlush
  /\ ScoreboardExact /\ OperandsFinal /\ ResultHasRoom /\ InOrder

\* The result that a step of the execute unit puts on the write bus.
NewResult == Len(Items(writeBus')) > Len(Items(writeBus))
LastResult == Items(writeBus')[Len(Items(writeBus'))]

\* No instruction executes while a register it reads waits to be written,
\* going by the results of the executions and not by what they declare
\* (README.md: "The processor must wait").  The code breaks it after lh, which
\* declares no register to write; what jal writes into ra never waits.
ReadersWaitForWriters ==
  [][NewResult =>
       \A i \in 1..Len(Items(writeBus)) :
         LET older == Items(writeBus)[i]
         IN older.exe.RegisterChange /\ InstructionAt(older.pc).op # "lh" =>
              older.exe.Register \notin ReadRegisters(InstructionAt(LastResult.pc)) \ {Zero}]_vars

\* The write unit leaves in the register the value the instruction computed.
\* The code deletes a negative one: see the run mvp4_negative.
RegisterKeepsResult ==
  [][WriteRegisterBack => registers' = WriteRegister(registers, writeBus.current[1].exe)]_vars

\* Again and again an instruction is finished, until the run ends: stages that
\* wait on one another (a full bus, a hazard, a busy unit) always come free, and
\* a program without loops comes to its end.
Progress == ([]<><<At("execute") /\ NewResult>>_vars) \/ <>(status # "running")
=============================================================================
