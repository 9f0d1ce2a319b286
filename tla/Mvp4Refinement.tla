--------------------------- MODULE Mvp4Refinement ---------------------------
(***************************************************************************)
(* MVP-4 looks like the sequential processor.  The mapping executes, in    *)
(* the abstract machine, an instruction when the execute unit does: the    *)
(* results still on the write bus count as written, and what the fetch and *)
(* decode units have taken in does not count as started.                   *)
(***************************************************************************)
EXTENDS Mvp4

\* The results on the write bus, the youngest first.
Overlay(item, regs) == IF item.exe.RegisterChange THEN WriteRegister(regs, item.exe) ELSE regs
Entry(entry, regs) == IF entry = << >> THEN regs ELSE Overlay(entry[1], regs)

\* Once the run is over nothing on the bus will be written any more.
seqRegisters ==
  IF status = "done" THEN registers
  ELSE Entry(writeBus.pending, Entry(writeBus.current, registers))

\* A store on the write bus missed the data cache and is bound for the memory.
Stored(entry, ram) ==
  IF entry = << >> THEN ram ELSE WriteMemory(ram, entry[1].exe.MemoryChanges)
seqMemory ==
  IF status = "done" THEN memory
  ELSE View(l1d, Stored(writeBus.pending, Stored(writeBus.current, memory)))

\* The next instruction to execute: the target of a flush under way, or the
\* oldest pc in flight.
seqPc ==
  IF signal.flush THEN signal.pc ELSE IF eu.processing THEN eu.pc ELSE ToExecute

Abstract == INSTANCE Sequential WITH
  registers <- seqRegisters, memory <- seqMemory, pc <- seqPc, RaRestarts <- FALSE

\* Pipelining, the two caches and branch prediction do not change what a
\* program computes: every step of MVP-4 is a step of the sequential processor
\* or leaves what a program can see alone.
RefinesSequential == Abstract!Init /\ [][Abstract!Next]_(Abstract!vars)

\* A load gives the bytes that the stores before it left (README.md: the MMU
\* "either returns the value directly from L1D or from memory").  The code
\* breaks it when stores pile up in front of the write unit: see the run
\* mvp4_store_load.
LoadsSeeStores ==
  [][NewResult /\ InstructionAt(LastResult.pc).op \in LoadOps =>
       LET ins == InstructionAt(LastResult.pc)
           addrs == MemoryRead(ins, registers)
       IN LastResult.exe = Run(ins, app, registers, LastResult.pc,
                               [i \in DOMAIN addrs |-> seqMemory[addrs[i]]])]_vars
=============================================================================
