-------------------------------- MODULE Mvp6 --------------------------------
(***************************************************************************)
(* MVP-6.0 and MVP-6.1, the superscalar processors: fetch and decode two   *)
(* instructions per cycle, a control unit that issues what depends on      *)
(* nothing in flight, two execute and two write units that finish out of   *)
(* order, BufferedBuses in between.  MVP-6.1 forwards a result from one    *)
(* execute unit to the other through a channel; apart from that the two    *)
(* programs are the same, and `version' says which one runs.               *)
(*                                                                         *)
(* CPU.Run calls the units in turn; `phase' and `unit' are the place in    *)
(* its loop.  Fetch and decode are one step per cycle, the control unit    *)
(* one step per instruction.  Cycle numbers, gauges and logs are left out; *)
(* so is MVP-6.1's list of skipped runners: every runner that is not       *)
(* pushed stops the control unit, so the list is never looked at.          *)
(***************************************************************************)
EXTENDS Isa, Mmu, BranchTargetBuffer

CONSTANTS
  Applications, InitMemories, InitRegisters,  \* as in Mvp4
  MemoryCycles,                    \* cyclesMemoryAccess (50)
  L1ILineLength, L1INumberOfLines,
  Versions                         \* "6.0", "6.1" or both

ASSUME Mvp6Assumption ==
  /\ \A application \in Applications : IsApplication(application)
  /\ \A bytes \in InitMemories : IsMemory(bytes)
  /\ \A file \in InitRegisters : IsRegisterFile(file)
  /\ MemoryCycles \in Nat \ {0}
  /\ L1ILineLength \in Nat \ {0} /\ L1INumberOfLines \in Nat \ {0}
  /\ Versions \subseteq {"6.0", "6.1"}

Seqs == INSTANCE SequencesExt

Unit == 1..2   \* the execute units, and the write units
BusSize == 2   \* busSize
Channel == 1..15  \* two for each runner on the execute bus, left over or in a unit, and one

L1I == INSTANCE LRUCache WITH LineLength <- L1ILineLength,
                              NumberOfLines <- L1INumberOfLines
Bus == INSTANCE BufferedBus WITH QueueLength <- BusSize, BufferLength <- BusSize

VARIABLES
  version,       \* which of the two processors, chosen once
  app,           \* the program, chosen once
  registers, memory,              \* Context.Registers, Context.Memory
  pendingReads, pendingWrites,    \* Context's counts, the scoreboard
  l1i, l1d,                       \* the lines of the two caches
  fu,            \* fetch unit: pc, toCleanPending, complete, coroutine, remaining
  decodeBus,     \* pcs
  du,            \* decode unit: ret, pendingBranchResolution
  controlBus,    \* pcs of decoded instructions
  pendings,      \* control unit: runners it could not issue
  previous,      \* control unit: how many runners it pushed in the last cycle
  issued,        \* control unit: how many it has pushed in this cycle
  executeBus,    \* runners
  eus,           \* execute units
  forwards,      \* by instruction: what Runner.Forward has left in it
  channels,      \* the channels of MVP-6.1, each empty or with a value
  bu, btb,       \* branch unit, its branch target buffer
  writeBus,      \* results: pc, exe
  wus,           \* write units: busy, remaining, result
  signal,        \* what the execute units returned: flush, from, pc, ret
  phase, unit,   \* the place in CPU.Run's loop
  status,        \* "running", or how Run ended
  window,        \* history: issued and not yet taken effect, in program order
  nextPc,        \* history: the instruction to be issued next
  diverted       \* history: what is issued now is on a wrong path

contextVars == <<registers, memory, pendingReads, pendingWrites>>
cacheVars == <<l1i, l1d>>
frontVars == <<fu, decodeBus, du, controlBus>>
controlVars == <<pendings, previous, issued>>
executeVars == <<eus, forwards, channels, bu, btb>>
placeVars == <<phase, unit, status>>
historyVars == <<window, nextPc, diverted>>
vars == <<version, app, contextVars, cacheVars, frontVars, controlVars, executeBus,
          executeVars, writeBus, wus, signal, placeVars, historyVars>>

-----------------------------------------------------------------------------
(* Instructions, runners and the scoreboard                                *)

InstructionAt(pc) == app.Instructions[IndexOf(pc) + 1]
PastEnd(pc) == IndexOf(pc) >= Len(app.Instructions)
IsJump(pc) == IsUnconditionalBranch(InstructionAt(pc))
IsBranch(pc) == IsJump(pc) \/ IsConditionalBranch(InstructionAt(pc))

\* ReadRegisters as the list it is: a register may be there twice.
ReadList(ins) ==
  IF ins.op \in RegRegOps \cup StoreOps \cup (BranchOps \ {"beqz"})
  THEN <<ins.rs1, ins.rs2>>
  ELSE IF ins.op = "lh" THEN <<ins.rs1, ins.rd>>
  ELSE IF ReadRegisters(ins) = {} THEN << >> ELSE <<ins.rs1>>
ReadsOf(pc, r) ==
  Cardinality({i \in DOMAIN ReadList(InstructionAt(pc)) :
                 r # Zero /\ ReadList(InstructionAt(pc))[i] = r})
WritesOf(pc, r) ==
  IF r \in WriteRegisters(InstructionAt(pc)) \ {Zero} THEN 1 ELSE 0

\* A runner: risc.InstructionRunnerPc.  Channels are numbered, 0 is nil.
NewRunner(pc) == [pc |-> pc, forwarder |-> 0, receiver |-> 0, forwardRegister |-> Zero]
NoForward == [Register |-> Zero, Value |-> 0]

NoRegisters == [r \in Register |-> 0]
AtLeast0(n) == IF n < 0 THEN 0 ELSE n

AddPendingRegisters(pc) ==
  /\ pendingReads' = [r \in Register |-> pendingReads[r] + ReadsOf(pc, r)]
  /\ pendingWrites' = [r \in Register |-> pendingWrites[r] + WritesOf(pc, r)]

DeletePendingWrites(pc) ==   \* faulty: the readers stay
  /\ pendingWrites' = [r \in Register |-> AtLeast0(pendingWrites[r] - WritesOf(pc, r))]
  /\ UNCHANGED pendingReads
DeletePendingRegisters(pc) ==
  /\ pendingReads' = [r \in Register |-> AtLeast0(pendingReads[r] - ReadsOf(pc, r))]
  /\ pendingWrites' = [r \in Register |-> AtLeast0(pendingWrites[r] - WritesOf(pc, r))]

\* IsDataHazard3: read after write, write after write, write after read.
RawHazards(pc) ==
  LET reads == ReadList(InstructionAt(pc))
  IN {i \in DOMAIN reads : reads[i] # Zero /\ pendingWrites[reads[i]] > 0}
WawHazards(pc) == {r \in Register : WritesOf(pc, r) > 0 /\ pendingWrites[r] > 0}
NoWarHazards(pc) == {}   \* faulty
WarHazards(pc) == {r \in Register : WritesOf(pc, r) > 0 /\ pendingReads[r] > 0}
HasHazard(pc) == RawHazards(pc) # {} \/ WawHazards(pc) # {} \/ WarHazards(pc) # {}

Put(bus, t) == Bus!Add(bus, t, 0)
Connected(bus) == Bus!Connect(bus, 1)

At(p) == status = "running" /\ phase = p
GoTo(p) == phase' = p /\ unit' = 1 /\ UNCHANGED status
\* After a unit of a stage the next one has its turn, then the next stage.
NextUnit(stage, after) ==
  /\ phase' = IF unit = 1 THEN stage ELSE after
  /\ unit' = 3 - unit
  /\ UNCHANGED status

-----------------------------------------------------------------------------
(* The sequential state, by the history                                    *)

Overlay(regs, item) ==
  LET direct == DirectWrite(InstructionAt(item.pc), item.exe, regs, item.pc)
  IN IF item.exe.RegisterChange THEN WriteRegister(direct, item.exe) ELSE direct
seqRegisters ==
  IF status = "done" THEN registers ELSE Seqs!FoldLeft(Overlay, registers, window)
Stored(ram, item) == WriteMemory(ram, item.exe.MemoryChanges)
seqMemory ==
  IF status = "done" THEN memory ELSE Seqs!FoldLeft(Stored, View(l1d, memory), window)

\* What the instruction at pc does when it runs after the window.
Expected(pc) ==
  LET ins == InstructionAt(pc)
      addrs == MemoryRead(ins, seqRegisters)
  IN Run(ins, app, seqRegisters, pc,
         [i \in DOMAIN addrs |-> IF addrs[i] \in DOMAIN memory THEN seqMemory[addrs[i]] ELSE 0])

\* History of an issue: on the right path the instruction joins the window; the
\* right path ends at a branch that goes elsewhere, a ret and a failure.
Issues(pc) ==
  LET exe == Expected(pc)
      accessed == Seqs!ToSet(MemoryRead(InstructionAt(pc), seqRegisters))
                  \cup DOMAIN exe.MemoryChanges
      goesOn == exe.Outcome = "ok" /\ ~exe.Return /\ accessed \subseteq DOMAIN memory
      target == IF exe.PcChange THEN exe.NextPc ELSE pc + 4
  IN IF diverted \/ pc # nextPc THEN UNCHANGED historyVars
     ELSE /\ window' = IF goesOn THEN Append(window, [pc |-> pc, exe |-> exe]) ELSE window
          /\ nextPc' = IF goesOn THEN target ELSE pc
          /\ diverted' = (~goesOn \/ (target # pc + 4 /\ ~IsJump(pc)))

\* History of an effect: the oldest instruction in the window with that pc.
TakesEffect(pc) ==
  LET here == {i \in DOMAIN window : window[i].pc = pc}
  IN /\ window' = IF here = {} THEN window
                  ELSE Seqs!RemoveAt(window, CHOOSE i \in here : \A j \in here : i <= j)
     /\ UNCHANGED <<nextPc, diverted>>

-----------------------------------------------------------------------------
NoSignal == [flush |-> FALSE, from |-> 0, pc |-> 0, ret |-> FALSE]
NoResult == [pc |-> 0, exe |-> NoChange]

\* stage: "start" (no coroutine), "prepare" (coPrepareRun), "hit" or "miss"
\* (the coroutines that wait for the memory).
IdleEu == [stage |-> "start", runner |-> NewRunner(0), remaining |-> 0,
           addrs |-> << >>, bytes |-> << >>]
IdleWu == [busy |-> FALSE, remaining |-> 0, result |-> NoResult]

Init ==
  /\ version \in Versions
  /\ app \in Applications
  /\ registers \in InitRegisters /\ memory \in InitMemories
  /\ pendingReads = NoRegisters /\ pendingWrites = NoRegisters
  /\ l1i = << >> /\ l1d = << >>
  /\ fu = [pc |-> 0, toCleanPending |-> FALSE, complete |-> FALSE,
           coroutine |-> "start", remaining |-> 0]
  /\ du = [ret |-> FALSE, pendingBranchResolution |-> FALSE]
  /\ decodeBus = Bus!NewBus /\ controlBus = Bus!NewBus
  /\ executeBus = Bus!NewBus /\ writeBus = Bus!NewBus
  /\ pendings = << >> /\ previous = 0 /\ issued = 0
  /\ eus = [i \in Unit |-> IdleEu] /\ wus = [i \in Unit |-> IdleWu]
  /\ forwards = [i \in 1..Len(app.Instructions) |-> NoForward]
  /\ channels = [c \in Channel |-> << >>]
  /\ bu = [toCheck |-> FALSE, expectation |-> 0] /\ btb = << >>
  /\ signal = NoSignal
  /\ phase = "fetch" /\ unit = 1 /\ status = "running"
  /\ window = << >> /\ nextPc = 0 /\ diverted = FALSE

-----------------------------------------------------------------------------
(* Fetch unit                                                              *)

\* The unit and its bus after the cleaning that a reset has asked for.
Uncleaned ==   \* faulty
  [unit |-> [fu EXCEPT !.toCleanPending = FALSE], bus |-> Connected(decodeBus), lines |-> l1i]
Cleaned ==
  [unit |-> [fu EXCEPT !.toCleanPending = FALSE],
   bus |-> IF fu.toCleanPending THEN Bus!NewBus ELSE Connected(decodeBus), lines |-> l1i]

Advance(s) ==
  LET next == s.unit.pc + 4
  IN [s EXCEPT !.bus = Put(@, s.unit.pc),
               !.unit = [@ EXCEPT !.pc = next, !.complete = s.unit.complete \/ PastEnd(next),
                                  !.coroutine = IF PastEnd(next) THEN "idle"
                                                ELSE s.unit.coroutine]]

\* One turn of the loop in coFetch.  A miss ends the loop; the last instruction
\* does not, and a pc past the end may follow it.
FetchOne(s) ==
  IF ~Bus!CanAdd(s.bus) \/ s.unit.coroutine = "wait" THEN s
  ELSE IF ~L1I!Contains(s.lines, s.unit.pc)
  THEN [s EXCEPT !.unit = [@ EXCEPT !.coroutine = "wait", !.remaining = MemoryCycles - 1]]
  ELSE Advance([s EXCEPT !.lines = L1I!Promote(@, s.unit.pc)])

\* The line has come; nobody asks whether the bus has room.
Arrived(s) ==
  Advance([s EXCEPT !.lines = L1I!PushLine(@, s.unit.pc, << >>),
                    !.unit = [@ EXCEPT !.coroutine = "start"]])

Fetched ==
  CASE fu.coroutine = "idle" -> {Cleaned}
    [] fu.coroutine = "start" -> {FetchOne(s) : s \in {FetchOne(Cleaned)}}
    [] fu.coroutine = "wait" /\ fu.remaining # 0
         -> {[Cleaned EXCEPT !.unit = [@ EXCEPT !.remaining = fu.remaining - 1]]}
    [] OTHER -> {Arrived(Cleaned)}

\* A cycle starts by connecting the four buses; then fetchUnit.cycle.
Fetch ==
  /\ At("fetch") /\ GoTo("decode")
  /\ \E s \in Fetched : fu' = s.unit /\ decodeBus' = s.bus /\ l1i' = s.lines
  /\ controlBus' = Connected(controlBus)
  /\ executeBus' = Connected(executeBus)
  /\ writeBus' = Connected(writeBus)
  /\ UNCHANGED <<version, app, contextVars, l1d, du, controlVars, executeVars, wus,
                 signal, historyVars>>

-----------------------------------------------------------------------------
(* Decode unit                                                             *)

\* One turn of the decode loop, on the unit and its two buses: a pc past the
\* end and a jump end it.  Nobody asks whether the control bus has room.
DecodeState ==
  [in |-> decodeBus, out |-> controlBus, unit |-> du, forwards |-> forwards,
   stop |-> du.ret \/ du.pendingBranchResolution, panic |-> FALSE]
DecodeOne(s) ==
  LET pc == Bus!Oldest(s.in)
      taken == [s EXCEPT !.in = Bus!AfterGet(@)]
  IN IF s.stop \/ ~Bus!CanGet(s.in) THEN s
     ELSE IF PastEnd(pc) THEN [taken EXCEPT !.stop = TRUE]
     ELSE IF IndexOf(pc) < 0 THEN [taken EXCEPT !.stop = TRUE, !.panic = TRUE]
     ELSE [taken EXCEPT
             !.out = Put(@, pc), !.stop = IsJump(pc),
             !.unit = [ret |-> @.ret \/ InstructionAt(pc).op = "ret",
                       pendingBranchResolution |-> IsJump(pc)],
             !.forwards = [@ EXCEPT ![IndexOf(pc) + 1] = NoForward]]

\* decodeUnit.cycle: as many turns as the queue of the bus has elements.
Decode ==
  /\ At("decode")
  /\ \E s \in {DecodeOne(once) : once \in {DecodeOne(DecodeState)}} :
        /\ decodeBus' = s.in /\ controlBus' = s.out /\ du' = s.unit
        /\ forwards' = s.forwards
        /\ IF s.panic THEN status' = "panic" /\ UNCHANGED <<phase, unit>> ELSE GoTo("control")
  /\ UNCHANGED <<version, app, contextVars, cacheVars, fu, controlVars, executeBus, eus,
                 channels, bu, btb, writeBus, wus, signal, historyVars>>

-----------------------------------------------------------------------------
(* Control unit                                                            *)

\* The next runner to handle: one left over from an earlier cycle, else the
\* oldest decoded one.  MVP-6.0 takes no more of these than the bus has room
\* for, MVP-6.1 finds out when it pushes.
MayIssue == issued > 0 \/ Bus!CanAdd(executeBus)
FromBus ==
  /\ pendings = << >> /\ Bus!CanGet(controlBus)
  /\ version = "6.1" \/ Bus!CanAdd(executeBus)
HasRunner == pendings # << >> \/ FromBus
Runner == IF pendings # << >> THEN Head(pendings) ELSE NewRunner(Bus!Oldest(controlBus))

\* The youngest runners on the bus, those pushed in the previous cycle, none of
\* which an execute unit can have taken yet ...
Previous ==
  LET runners == Bus!Elements(executeBus)
      old == Len(runners) - issued
  IN {i \in old - previous + 1..old : i >= 1}
\* ... and the one of them that writes the register the runner waits for.
Writers ==
  {i \in Previous : \E r \in ReadRegisters(InstructionAt(Runner.pc)) :
     WritesOf(Bus!Elements(executeBus)[i].pc, r) > 0}
ShouldUseForwarding ==
  /\ version = "6.1"
  /\ Cardinality(RawHazards(Runner.pc)) = 1
  /\ WawHazards(Runner.pc) = {} /\ WarHazards(Runner.pc) = {}
  /\ Writers # {}

Runners ==   \* the runners in flight that may hold a channel
  {Bus!Elements(executeBus)[i] : i \in DOMAIN Bus!Elements(executeBus)}
  \cup {pendings[i] : i \in DOMAIN pendings}
  \cup {eus[i].runner : i \in {j \in Unit : eus[j].stage # "start"}}
FreshChannel ==
  CHOOSE c \in Channel : \A runner \in Runners : c # runner.forwarder /\ c # runner.receiver

\* The execute bus with its i-th runner changed: the bus holds pointers.
Repointed(i, runner) ==
  LET q == Len(executeBus.queue)
  IN IF i <= q THEN [executeBus EXCEPT !.queue[i] = runner]
     ELSE [executeBus EXCEPT !.buffer[i - q].t = runner]

Takes ==   \* the runner leaves the place it was found in
  /\ pendings' = IF pendings # << >> THEN Tail(pendings) ELSE pendings
  /\ controlBus' = IF pendings # << >> THEN controlBus ELSE Bus!AfterGet(controlBus)
Keeps(runner) ==   \* a runner from the bus is put aside
  /\ pendings' = IF pendings # << >> THEN pendings ELSE <<runner>>
  /\ controlBus' = IF pendings # << >> THEN controlBus ELSE Bus!AfterGet(controlBus)

\* The end of the control unit's cycle.
Stops(pushed) == previous' = pushed /\ issued' = 0 /\ GoTo("execute")

Pushes(bus, runner) ==
  /\ executeBus' = Put(bus, runner)
  /\ AddPendingRegisters(runner.pc)
  /\ Issues(runner.pc)
  /\ Takes

\* A branch is not issued behind another runner in one cycle.
LaterBranch == issued > 0 /\ IsBranch(Runner.pc)

IssueNothing ==
  /\ ~MayIssue \/ ~HasRunner
  /\ Stops(issued)
  /\ UNCHANGED <<pendingReads, pendingWrites, controlBus, pendings, executeBus, channels,
                 historyVars>>

Issue ==
  /\ MayIssue /\ HasRunner /\ ~LaterBranch /\ ~HasHazard(Runner.pc)
  /\ Bus!CanAdd(executeBus)
  /\ Pushes(executeBus, Runner)
  /\ issued' = issued + 1
  /\ UNCHANGED <<previous, channels, placeVars>>

\* The previous runner sends what this one waits for.  The unit stops.
IssueForwarded ==
  /\ MayIssue /\ HasRunner /\ ~LaterBranch /\ ShouldUseForwarding
  /\ LET i == CHOOSE i \in Writers : TRUE
         writer == Bus!Elements(executeBus)[i]
         r == CHOOSE r \in ReadRegisters(InstructionAt(Runner.pc)) : WritesOf(writer.pc, r) > 0
         sending == Repointed(i, [writer EXCEPT !.forwarder = FreshChannel,
                                                !.forwardRegister = r])
         receiving == [Runner EXCEPT !.receiver = FreshChannel, !.forwardRegister = r]
     IN /\ channels' = [channels EXCEPT ![FreshChannel] = << >>]
        /\ IF Bus!CanAdd(executeBus)
           THEN Pushes(sending, receiving) /\ Stops(issued + 1)
           ELSE /\ executeBus' = sending
                /\ Keeps(receiving) /\ Stops(issued)
                /\ UNCHANGED <<pendingReads, pendingWrites, historyVars>>

IssueBlocked ==
  /\ MayIssue /\ HasRunner
  /\ \/ LaterBranch
     \/ HasHazard(Runner.pc) /\ ~ShouldUseForwarding
     \/ ~HasHazard(Runner.pc) /\ ~Bus!CanAdd(executeBus)
  /\ Keeps(Runner) /\ Stops(issued)
  /\ UNCHANGED <<pendingReads, pendingWrites, executeBus, channels, historyVars>>

Control ==
  /\ At("control")
  /\ IssueNothing \/ Issue \/ IssueForwarded \/ IssueBlocked
  /\ UNCHANGED <<version, app, registers, memory, cacheVars, fu, decodeBus, du, eus,
                 forwards, bu, btb, writeBus, wus, signal>>

-----------------------------------------------------------------------------
(* Execute units                                                           *)

\* The unit whose turn it is: a runner is taken from the bus when the unit has
\* none, and leaves the bus even if it then has to wait.
HasJob == eus[unit].stage # "start" \/ Bus!CanGet(executeBus)
Job ==
  IF eus[unit].stage # "start" THEN eus[unit]
  ELSE [IdleEu EXCEPT !.stage = "prepare", !.runner = Bus!Oldest(executeBus)]
TakeJob ==
  executeBus' = IF eus[unit].stage = "start" THEN Bus!AfterGet(executeBus) ELSE executeBus
JobPc == Job.runner.pc
JobInstruction == InstructionAt(JobPc)
Becomes(eu) == eus' = [eus EXCEPT ![unit] = eu]

\* The forwarded value, if the runner waits for one, goes into the instruction,
\* which all its runners share.
Receives == Job.stage = "prepare" /\ Job.runner.receiver # 0
Forwards ==
  IF ~Receives THEN forwards
  ELSE [forwards EXCEPT ![IndexOf(JobPc) + 1] =
          [Register |-> Job.runner.forwardRegister, Value |-> channels[Job.runner.receiver][1]]]
Received == IF Receives THEN [channels EXCEPT ![Job.runner.receiver] = << >>] ELSE channels

Ready ==
  /\ HasJob /\ Job.stage = "prepare" /\ Bus!CanAdd(writeBus)
  /\ Receives => channels[Job.runner.receiver] # << >>

\* registerRead: the registers as the instruction sees them.
OperandsUnforwarded == registers   \* faulty
Operands ==
  LET forward == Forwards[IndexOf(JobPc) + 1]
  IN [registers EXCEPT ![forward.Register] = forward.Value]
JobAddresses == MemoryRead(JobInstruction, Operands)

\* assert, when the runner is prepared.  It also sends the fetch unit to the
\* target of a jump in the buffer; so does run, in the same call, with the
\* target the jump turns out to have.
Assert ==
  IF Job.stage # "prepare" THEN bu
  ELSE IF IsJump(JobPc)
  THEN IF Known(btb, JobPc) THEN [bu EXCEPT !.toCheck = FALSE]
       ELSE [toCheck |-> TRUE, expectation |-> -1]
  ELSE IF IsBranch(JobPc) THEN [toCheck |-> TRUE, expectation |-> JobPc + 4]
  ELSE [bu EXCEPT !.toCheck = FALSE]

\* What coPrepareRun and the coroutines do before run is called.
ExecuteNothing ==
  /\ ~HasJob
  /\ UNCHANGED <<memory, l1d, executeBus, eus, forwards, channels, bu>>

ExecuteWaits ==
  /\ HasJob /\ Job.stage = "prepare" /\ ~Ready
  /\ TakeJob /\ Becomes(Job)
  /\ UNCHANGED <<memory, l1d, forwards, channels, bu>>

ExecuteReads ==
  /\ Ready /\ JobAddresses # << >>
  /\ TakeJob
  /\ Becomes(IF AllIn(l1d, JobAddresses)
             THEN [Job EXCEPT !.stage = "hit", !.bytes = ReadValues(l1d, JobAddresses)]
             ELSE [Job EXCEPT !.stage = "miss", !.addrs = JobAddresses,
                              !.remaining = MemoryCycles - 1])
  /\ l1d' = TouchAll(l1d, JobAddresses)
  /\ forwards' = Forwards /\ channels' = Received /\ bu' = Assert
  /\ UNCHANGED memory

ExecuteCounts ==
  /\ HasJob /\ Job.stage = "miss" /\ Job.remaining > 0
  /\ Becomes([Job EXCEPT !.remaining = @ - 1])
  /\ UNCHANGED <<memory, l1d, executeBus, forwards, channels, bu>>

ExecuteGoesOn ==
  /\ ExecuteNothing \/ ExecuteWaits \/ ExecuteReads \/ ExecuteCounts
  /\ NextUnit("execute", "write")
  /\ UNCHANGED <<registers, pendingReads, pendingWrites, fu, du, btb, writeBus, signal,
                 historyVars>>

\* The data cache, the memory and the loaded bytes at the call of run.
Arrives == Job.stage = "miss"
Lines == IF Arrives THEN TouchAll(PushedLines(l1d, memory, Job.addrs[1]), Job.addrs) ELSE l1d
Ram == IF Arrives THEN PushedMemory(l1d, memory, Job.addrs[1]) ELSE memory
Bytes ==
  IF Arrives THEN ReadValues(PushedLines(l1d, memory, Job.addrs[1]), Job.addrs) ELSE Job.bytes
Result == Run(JobInstruction, app, Operands, JobPc, Bytes)

BadAddress == Arrives /\ NoLine(l1d, memory, Job.addrs, Word)
Runs ==
  \/ Ready /\ JobAddresses = << >>
  \/ HasJob /\ (Job.stage = "hit" \/ (Arrives /\ Job.remaining = 0))

\* From here on the unit is free, whatever happens.
Free ==
  /\ TakeJob /\ Becomes(IdleEu)
  /\ forwards' = Forwards /\ memory' = Ram

ExecuteFails ==
  /\ Runs
  /\ \/ BadAddress /\ status' = "panic"
     \/ ~BadAddress /\ Result.Outcome # "ok" /\ status' = Result.Outcome
  /\ UNCHANGED <<contextVars, l1d, fu, du, executeBus, executeVars, writeBus, signal, phase,
                 unit, historyVars>>

ExecuteReturns ==
  /\ Runs /\ ~BadAddress /\ Result.Return
  /\ Free /\ channels' = Received /\ bu' = Assert /\ l1d' = Lines
  /\ signal' = [signal EXCEPT !.ret = TRUE]
  /\ NextUnit("execute", "write")
  /\ UNCHANGED <<registers, pendingReads, pendingWrites, fu, du, btb, writeBus, historyVars>>

Succeeds == Runs /\ ~BadAddress /\ Result.Outcome = "ok" /\ ~Result.Return
IsHit == Result.MemoryChange /\ AllChangesIn(Lines, Result.MemoryChanges)

\* A store that finds its addresses in the data cache ends here.
ExecuteStores ==
  /\ Succeeds /\ IsHit
  /\ Free /\ channels' = Received /\ bu' = Assert
  /\ \E lines \in Probed(Lines, Result.MemoryChanges) :
       IF CrossesLine(lines, Result.MemoryChanges)
       THEN /\ l1d' = lines /\ status' = "panic"
            /\ UNCHANGED <<phase, unit, pendingReads, pendingWrites, historyVars>>
       ELSE /\ l1d' = Write(lines, Result.MemoryChanges)
            /\ DeletePendingRegisters(JobPc) /\ TakesEffect(JobPc)
            /\ NextUnit("execute", "write")
  /\ UNCHANGED <<registers, fu, du, btb, writeBus, signal>>

\* fetchUnit.reset: `complete' stays what it was.
ResetTo(pc) == [fu EXCEPT !.pc = pc, !.coroutine = "start", !.toCleanPending = TRUE]

NotifySilently(pc, pcTo) ==   \* faulty: the decode unit is not told
  btb' = Learn(btb, pc, pcTo) /\ fu' = ResetTo(pcTo) /\ UNCHANGED du

\* notifyJumpAddressResolved
Notify(pc, pcTo) ==
  /\ btb' = Learn(btb, pc, pcTo) /\ du' = [du EXCEPT !.pendingBranchResolution = FALSE]
  /\ fu' = ResetTo(pcTo)

\* shouldFlushPipeline, asked by a runner whose result changes the pc.
Flushes == Result.PcChange /\ Assert.toCheck /\ Assert.expectation # Result.NextPc
Larger(a, b) == IF a < b THEN b ELSE a

\* Any other result goes to the write bus; the units' flushes are joined: the
\* largest target, and the pc of the last.
PassesOn ==
  /\ IF IsJump(JobPc) THEN Notify(JobPc, Result.NextPc) ELSE UNCHANGED <<fu, du, btb>>
  /\ bu' = IF Result.PcChange THEN [Assert EXCEPT !.toCheck = FALSE] ELSE Assert
  /\ signal' = IF ~Flushes THEN signal
               ELSE [signal EXCEPT !.flush = TRUE, !.from = JobPc,
                                   !.pc = Larger(@, Result.NextPc)]
  /\ channels' = Received
  /\ NextUnit("execute", "write")

\* A forwarder sends its result and looks at nothing else.
SendsNothing == channels' = Received   \* faulty
Sends == channels' = [Received EXCEPT ![Job.runner.forwarder] = <<Result.RegisterValue>>]
Forwarding ==
  /\ Sends
  /\ bu' = Assert
  /\ IF IsBranch(JobPc) THEN status' = "panic" /\ UNCHANGED <<phase, unit>>
     ELSE NextUnit("execute", "write")
  /\ UNCHANGED <<fu, du, btb, signal>>

ExecutePasses ==
  /\ Succeeds /\ ~IsHit
  /\ Free
  /\ l1d' \in IF Result.MemoryChange THEN Probed(Lines, Result.MemoryChanges) ELSE {Lines}
  /\ registers' = DirectWrite(JobInstruction, Result, registers, JobPc)
  /\ writeBus' = Put(writeBus, [pc |-> JobPc, exe |-> Result])
  /\ IF Job.runner.forwarder = 0 THEN PassesOn ELSE Forwarding
  /\ UNCHANGED <<pendingReads, pendingWrites, historyVars>>

Execute ==
  /\ At("execute")
  /\ ExecuteGoesOn \/ ExecuteFails \/ ExecuteReturns \/ ExecuteStores \/ ExecutePasses
  /\ UNCHANGED <<version, app, l1i, decodeBus, controlBus, controlVars, wus>>

-----------------------------------------------------------------------------
(* Write units                                                             *)

Wu == wus[unit]
Takable == ~Wu.busy /\ Bus!CanGet(writeBus)
Written == Bus!Oldest(writeBus)
TakeWritten == writeBus' = Bus!AfterGet(writeBus)

WriteNothing ==
  /\ ~Wu.busy /\ ~Bus!CanGet(writeBus)
  /\ UNCHANGED <<contextVars, writeBus, wus, historyVars>>

WriteWaits ==
  /\ Wu.busy /\ Wu.remaining > 0
  /\ wus' = [wus EXCEPT ![unit].remaining = @ - 1]
  /\ UNCHANGED <<contextVars, writeBus, historyVars>>

WriteMemoryBack ==
  /\ Wu.busy /\ Wu.remaining = 0
  /\ DOMAIN Wu.result.exe.MemoryChanges \subseteq DOMAIN memory
  /\ memory' = WriteMemory(memory, Wu.result.exe.MemoryChanges)
  /\ wus' = [wus EXCEPT ![unit] = IdleWu]
  /\ DeletePendingRegisters(Wu.result.pc) /\ TakesEffect(Wu.result.pc)
  /\ UNCHANGED <<registers, writeBus>>

\* In a drain before a flush, the results with a pc above the branch's.
WriteDrops(before) ==
  /\ Takable /\ before # -1 /\ Written.pc > before
  /\ TakeWritten
  /\ UNCHANGED <<contextVars, wus, historyVars>>

WriteRegisterBack ==
  /\ Written.exe.RegisterChange
  /\ registers' = WriteRegister(registers, Written.exe)
  /\ DeletePendingRegisters(Written.pc) /\ TakesEffect(Written.pc)
  /\ UNCHANGED <<memory, wus>>

WriteStarts ==
  /\ ~Written.exe.RegisterChange /\ Written.exe.MemoryChange
  /\ wus' = [wus EXCEPT ![unit] = [busy |-> TRUE, remaining |-> MemoryCycles,
                                   result |-> Written]]
  /\ UNCHANGED <<contextVars, historyVars>>

WriteNoChange ==
  /\ ~Written.exe.RegisterChange /\ ~Written.exe.MemoryChange
  /\ DeletePendingRegisters(Written.pc) /\ TakesEffect(Written.pc)
  /\ UNCHANGED <<registers, memory, wus>>

\* writeUnit.cycle, but for the panic of a store outside the memory.
WriteCycle(before) ==
  \/ WriteNothing \/ WriteWaits \/ WriteMemoryBack \/ WriteDrops(before)
  \/ /\ Takable /\ (before = -1 \/ Written.pc <= before)
     /\ TakeWritten
     /\ WriteRegisterBack \/ WriteStarts \/ WriteNoChange

OutsideWriteUnits == <<version, app, cacheVars, frontVars, controlVars, executeBus,
                       executeVars, signal>>

WriteBack ==
  /\ At("write") /\ WriteCycle(-1) /\ NextUnit("write", "end")
  /\ UNCHANGED OutsideWriteUnits

WritePanics ==
  /\ status = "running" /\ phase \in {"write", "return", "drain"}
  /\ Wu.busy /\ Wu.remaining = 0
  /\ ~(DOMAIN Wu.result.exe.MemoryChanges \subseteq DOMAIN memory)
  /\ status' = "panic"
  /\ nextPc' = Wu.result.pc + 4
  /\ UNCHANGED <<OutsideWriteUnits, contextVars, writeBus, wus, phase, unit, window, diverted>>

-----------------------------------------------------------------------------
(* The rest of CPU.Run's loop                                              *)

WriteUnitsEmpty == \A i \in Unit : ~wus[i].busy
IsEmpty ==
  /\ fu.complete /\ pendings = << >> /\ WriteUnitsEmpty
  /\ Bus!IsEmpty(decodeBus) /\ Bus!IsEmpty(controlBus)
  /\ Bus!IsEmpty(executeBus) /\ Bus!IsEmpty(writeBus)
  /\ \A i \in Unit : eus[i].stage = "start"

\* After the loop the data cache is written back.
Finish ==
  /\ status' = "done" /\ memory' = Flushed(l1d, memory)
  /\ UNCHANGED <<version, app, registers, pendingReads, pendingWrites, cacheVars, frontVars,
                 controlVars, executeBus, executeVars, writeBus, wus, signal, phase, unit,
                 historyVars>>

\* Both loops that empty the write bus start with one Connect.
EndOfCycle ==
  /\ At("end")
  /\ \/ ~signal.ret /\ ~signal.flush /\ IsEmpty /\ Finish
     \/ /\ signal.ret \/ signal.flush \/ ~IsEmpty
        /\ GoTo(IF signal.ret THEN "return" ELSE IF signal.flush THEN "drain" ELSE "fetch")
        /\ writeBus' = IF signal.ret \/ signal.flush THEN Connected(writeBus) ELSE writeBus
        /\ UNCHANGED <<OutsideWriteUnits, contextVars, wus, historyVars>>

\* After a ret the write units go on, and the bus is connected every cycle.
ReturnWrites ==
  /\ At("return")
  /\ unit = 1 => ~(WriteUnitsEmpty /\ Bus!IsEmpty(writeBus))
  /\ WriteCycle(-1)
  /\ NextUnit("return", "connect")
  /\ UNCHANGED OutsideWriteUnits

ReturnConnects ==
  /\ At("connect") /\ GoTo("return")
  /\ writeBus' = Connected(writeBus)
  /\ UNCHANGED <<OutsideWriteUnits, contextVars, wus, historyVars>>

ReturnEnds ==
  /\ At("return") /\ unit = 1 /\ WriteUnitsEmpty /\ Bus!IsEmpty(writeBus)
  /\ Finish

\* Before a flush the write units empty the bus one after the other, and
\* nothing connects it any more.
UnitDrained == ~Wu.busy /\ Bus!IsEmpty(writeBus)
DrainWrites ==
  /\ At("drain") /\ ~UnitDrained
  /\ WriteCycle(signal.from)
  /\ UNCHANGED <<OutsideWriteUnits, placeVars>>
DrainNext ==
  /\ At("drain") /\ unit = 1 /\ UnitDrained
  /\ unit' = 2
  /\ UNCHANGED <<OutsideWriteUnits, contextVars, writeBus, wus, phase, status, historyVars>>

\* Then everything else is dropped; the decode unit keeps `ret'.
FlushedUnits ==
  /\ fu' = [fu EXCEPT !.coroutine = "start", !.complete = FALSE, !.pc = signal.pc]
  /\ pendings' = << >> /\ previous' = 0
  /\ eus' = [i \in Unit |-> IdleEu]
  /\ decodeBus' = Bus!NewBus /\ controlBus' = Bus!NewBus
  /\ executeBus' = Bus!NewBus /\ writeBus' = Bus!NewBus
  /\ signal' = NoSignal
  /\ window' = << >> /\ diverted' = FALSE
  /\ GoTo("fetch")
  /\ UNCHANGED <<version, app, registers, memory, cacheVars, issued, forwards, channels, bu,
                 btb, wus, nextPc>>
FlushKeepingStop ==   \* faulty: the decode unit stays stopped
  /\ At("drain") /\ unit = 2 /\ UnitDrained /\ FlushedUnits
  /\ pendingReads' = NoRegisters /\ pendingWrites' = NoRegisters
  /\ UNCHANGED du
FlushPipeline ==
  /\ At("drain") /\ unit = 2 /\ UnitDrained /\ FlushedUnits
  /\ du' = [du EXCEPT !.pendingBranchResolution = FALSE]
  /\ pendingReads' = NoRegisters /\ pendingWrites' = NoRegisters

\* A run that has ended stays as it is.
Ended == status # "running" /\ UNCHANGED vars

Next ==
  \/ Fetch \/ Decode \/ Control \/ Execute \/ WriteBack \/ WritePanics \/ EndOfCycle
  \/ ReturnWrites \/ ReturnConnects \/ ReturnEnds
  \/ DrainWrites \/ DrainNext \/ FlushPipeline \/ Ended

\* CPU.Run is one loop that never waits.
Spec == Init /\ [][Next]_vars
FairSpec == Spec /\ WF_vars(Next)
=============================================================================
