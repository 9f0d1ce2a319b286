-------------------------------- MODULE Mvp3 --------------------------------
(***************************************************************************)
(* MVP-3: the sequential processor behind the memory management unit.      *)
(* Loads go through the data cache, stores go to the cache or the memory,  *)
(* and the end of the run, by ret or by falling off, writes the cache      *)
(* back.  Cycle counts, and with them the instruction cache, are left out. *)
(***************************************************************************)
EXTENDS Isa, Mmu

CONSTANTS Applications, InitMemories, InitRegisters  \* as in Sequential

ASSUME Mvp3Assumption ==
  /\ \A application \in Applications : IsApplication(application)
  /\ \A bytes \in InitMemories : IsMemory(bytes)
  /\ \A file \in InitRegisters : IsRegisterFile(file)

VARIABLES app, registers, memory, l1d, pc, status

vars == <<app, registers, memory, l1d, pc, status>>

Init ==
  /\ app \in Applications
  /\ registers \in InitRegisters
  /\ memory \in InitMemories
  /\ l1d = << >>
  /\ pc = 0
  /\ status = "running"

PastEnd == IndexOf(pc) >= Len(app.Instructions)
Fetched == app.Instructions[IndexOf(pc) + 1]

\* execute, first part: the bytes loaded, the cache and the memory afterwards.
Addrs == MemoryRead(Fetched, registers)
Hit == AllIn(l1d, Addrs)
Probe == TouchAll(l1d, Addrs)
LinesRead == IF Hit THEN l1d ELSE PushedLines(Probe, memory, Addrs[1])
Loaded == ReadValues(LinesRead, Addrs)
LinesAfterRead == TouchAll(LinesRead, Addrs)
MemoryAfterRead == IF Hit THEN memory ELSE PushedMemory(Probe, memory, Addrs[1])
Execution == Run(Fetched, app, registers, pc, Loaded)

BadFetch == IndexOf(pc) < 0
BadRead == ~Hit /\ NoLine(Probe, memory, Addrs, Word)

Running == status = "running" /\ ~PastEnd /\ ~BadFetch /\ ~BadRead
Go == pc' = IF Execution.PcChange THEN Execution.NextPc ELSE pc + 4

Fail ==
  /\ status = "running" /\ ~PastEnd
  /\ \/ BadFetch /\ status' = "panic"
     \/ ~BadFetch /\ BadRead /\ status' = "panic"
     \/ ~BadFetch /\ ~BadRead /\ Execution.Outcome # "ok" /\ status' = Execution.Outcome
  /\ UNCHANGED <<app, registers, memory, l1d, pc>>

\* Faulty: the cache is not written back.
EndWithoutFlush ==
  /\ (Running /\ Execution.Return) \/ (status = "running" /\ PastEnd)
  /\ status' = "done"
  /\ UNCHANGED <<app, registers, memory, l1d, pc>>

\* The end of the run.
End ==
  /\ \/ Running /\ Execution.Return
     \/ status = "running" /\ PastEnd
  /\ status' = "done"
  /\ memory' = Flushed(l1d, memory)
  /\ UNCHANGED <<app, registers, l1d, pc>>

\* Every opcode but the stores.
Step ==
  /\ Running /\ Execution.Outcome = "ok" /\ ~Execution.Return
  /\ ~Execution.MemoryChange
  /\ Go
  /\ LET direct == DirectWrite(Fetched, Execution, registers, pc)
     IN registers' = IF Execution.RegisterChange
                     THEN WriteRegister(direct, Execution) ELSE direct
  /\ l1d' = LinesAfterRead
  /\ memory' = MemoryAfterRead
  /\ UNCHANGED <<app, status>>

\* A store into the cache, which panics when it is not in a single line.
StoreHit ==
  LET changes == Execution.MemoryChanges
  IN /\ Running /\ Execution.MemoryChange /\ AllChangesIn(l1d, changes)
     /\ Go
     /\ \E lines \in Probed(l1d, changes) :
          IF CrossesLine(lines, changes)
          THEN status' = "panic" /\ UNCHANGED l1d
          ELSE l1d' = Write(lines, changes) /\ UNCHANGED status
     /\ UNCHANGED <<app, registers, memory>>

\* A store into the memory, where an address outside is a panic.
StoreMiss ==
  LET changes == Execution.MemoryChanges
  IN /\ Running /\ Execution.MemoryChange /\ ~AllChangesIn(l1d, changes)
     /\ Go
     /\ l1d' \in Probed(l1d, changes)
     /\ IF DOMAIN changes \subseteq DOMAIN memory
        THEN memory' = WriteMemory(memory, changes) /\ UNCHANGED status
        ELSE status' = "panic" /\ UNCHANGED memory
     /\ UNCHANGED <<app, registers>>

Ended == status # "running" /\ UNCHANGED vars

Next == Fail \/ End \/ Step \/ StoreHit \/ StoreMiss \/ Ended
Spec == Init /\ [][Next]_vars

-----------------------------------------------------------------------------
(* Properties                                                              *)

\* The memory a program sees: once the run is over, Context.Memory alone.
seqMemory == IF status = "done" THEN memory ELSE View(l1d, memory)

\* What a program must not do for the cache to be invisible (see DataCache): the
\* instruction to be executed next finds the cache as it should be.
\* A load reads inside the memory, or panics although it does not look there; the
\* line it fetches overlaps no other and cuts off no line written to.
Dirty(line) == \E a \in DOMAIN memory : Holds(line, a) /\ Get(line, a) # memory[a]
InMemory(addrs) == \A i \in 1..Len(addrs) : addrs[i] \in DOMAIN memory
CalmLoad ==
  /\ BadRead <=> ~InMemory(Addrs)
  /\ ~Hit /\ ~BadRead => /\ \A i \in 1..Len(Probe) : ~Overlap(LinesRead[1], Probe[i])
                         /\ Evicts(Probe) => ~Dirty(Probe[Len(Probe)])

\* A store is in one line as a whole, or no part of it is in the cache.
CalmStore(changes) ==
  \/ \A a \in DOMAIN changes : ~Contains(l1d, a)
  \/ /\ DOMAIN changes \subseteq DOMAIN memory
     /\ \E i \in 1..Len(l1d) : \A a \in DOMAIN changes : Holds(l1d[i], a)

Calm ==
  status = "running" /\ ~PastEnd /\ ~BadFetch =>
    /\ CalmLoad
    /\ ~BadRead => CalmStore(Execution.MemoryChanges)

Abstract == INSTANCE Sequential WITH memory <- seqMemory, RaRestarts <- FALSE

\* The data cache is invisible to a program that does not disturb it: MVP-3
\* computes what the sequential processor computes, ends with the same memory
\* and stops when it does.
RefinesSequential == Abstract!Init /\ [][Abstract!Next]_(Abstract!vars)
=============================================================================
