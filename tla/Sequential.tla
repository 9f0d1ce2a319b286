----------------------------- MODULE Sequential -----------------------------
(***************************************************************************)
(* The sequential processor: MVP-1 and MVP-2 execute one instruction at a  *)
(* time, each on the result of the previous one.  With RaRestarts FALSE it *)
(* is what MVP-3 and the pipelined processors promise to look like, and    *)
(* they refine this module.                                                *)
(*                                                                         *)
(* A step is one turn of CPU.Run's loop: fetch, decode, execute, write.    *)
(* Cycle counts are left out: nothing reads them back.  MVP-2 differs from *)
(* MVP-1 only in the cycles its instruction cache saves.                   *)
(***************************************************************************)
EXTENDS Isa

CONSTANTS
  Applications,  \* the programs, records [Instructions, Labels]
  InitMemories,  \* the initial memories, functions on 0 .. size - 1
  InitRegisters, \* the initial register files
  RaRestarts     \* TRUE for MVP-1 and MVP-2, which restart while ra # 0

ASSUME SequentialAssumption ==
  /\ \A application \in Applications : IsApplication(application)
  /\ \A bytes \in InitMemories : IsMemory(bytes)
  /\ \A file \in InitRegisters : IsRegisterFile(file)
  /\ RaRestarts \in BOOLEAN

VARIABLES
  app,        \* the program, chosen once
  registers,  \* Context.Registers; an absent entry reads as 0
  memory,     \* Context.Memory
  pc,
  status      \* "running", or how Run ended: "done", "error", "panic"

vars == <<app, registers, memory, pc, status>>

Status == {"running", "done", "error", "panic"}

Init ==
  /\ app \in Applications
  /\ registers \in InitRegisters
  /\ memory \in InitMemories
  /\ pc = 0
  /\ status = "running"

PastEnd == IndexOf(pc) >= Len(app.Instructions)

\* A negative index is a Go panic, as is an address outside the memory.
Fetched == app.Instructions[IndexOf(pc) + 1]
BadFetch == IndexOf(pc) < 0
BadRead ==
  LET addrs == MemoryRead(Fetched, registers)
  IN \E i \in DOMAIN addrs : addrs[i] \notin DOMAIN memory

Execution ==
  LET addrs == MemoryRead(Fetched, registers)
  IN Run(Fetched, app, registers, pc, [i \in DOMAIN addrs |-> memory[addrs[i]]])

Stop(how) == status' = how /\ UNCHANGED <<app, registers, memory, pc>>

Go == pc' = IF Execution.PcChange THEN Execution.NextPc ELSE pc + 4

\* The end of the loop when the instruction could not be executed.
Fail ==
  /\ status = "running" /\ ~PastEnd
  /\ \/ BadFetch /\ Stop("panic")
     \/ ~BadFetch /\ BadRead /\ Stop("panic")
     \/ ~BadFetch /\ ~BadRead /\ Execution.Outcome # "ok" /\ Stop(Execution.Outcome)
     \/ /\ ~BadFetch /\ ~BadRead
        /\ ~(DOMAIN Execution.MemoryChanges \subseteq DOMAIN memory)
        /\ status' = "panic" /\ Go
        /\ UNCHANGED <<app, registers, memory>>

\* ret ends the program at once.
Return ==
  /\ status = "running" /\ ~PastEnd /\ ~BadFetch /\ ~BadRead
  /\ Execution.Return
  /\ Stop("done")

\* Any other instruction: write back, then go to the next pc.
Step ==
  /\ status = "running" /\ ~PastEnd /\ ~BadFetch /\ ~BadRead
  /\ Execution.Outcome = "ok" /\ ~Execution.Return
  /\ DOMAIN Execution.MemoryChanges \subseteq DOMAIN memory
  /\ Go
  /\ LET direct == DirectWrite(Fetched, Execution, registers, pc)
     IN registers' = IF Execution.RegisterChange
                     THEN WriteRegister(direct, Execution) ELSE direct
  /\ memory' = WriteMemory(memory, Execution.MemoryChanges)
  /\ UNCHANGED <<app, status>>

\* Falling off the end.  With a return address left, MVP-1 clears it and runs
\* the loop again; `goto loop' declares pc anew, so the run restarts at 0.
Finish ==
  /\ status = "running" /\ PastEnd
  /\ \/ ~(RaRestarts /\ registers[Ra] # 0) /\ Stop("done")
     \/ /\ RaRestarts /\ registers[Ra] # 0
        /\ registers' = [registers EXCEPT ![Ra] = 0]
        /\ pc' = 0
        /\ UNCHANGED <<app, memory, status>>

\* A run that has ended stays as it is.
Ended == status # "running" /\ UNCHANGED vars

Next == Fail \/ Return \/ Step \/ Finish \/ Ended

Spec == Init /\ [][Next]_vars

-----------------------------------------------------------------------------
(* Properties                                                              *)

\* Every opcode's result is an int32 word again, after any sequence of
\* instructions, bytes stay signed bytes, and the register zero reads 0
\* (IsRegisterChange).
TypeOK ==
  /\ app \in Applications
  /\ IsRegisterFile(registers) /\ IsMemory(memory)
  /\ pc \in Word
  /\ status \in Status
=============================================================================
