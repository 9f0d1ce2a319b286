-------------------------------- MODULE Mvp5 --------------------------------
(***************************************************************************)
(* MVP-5: MVP-4 with a branch target buffer.  The decode unit stops at an  *)
(* unconditional branch until the execute unit reports its target, and the *)
(* branch unit sends the fetch unit there without a pipeline flush when    *)
(* the buffer knows the branch.                                            *)
(*                                                                         *)
(* The units are MVP-4's; a name with a 5 is the changed version of the    *)
(* definition of Mvp4 with that name.                                      *)
(***************************************************************************)
EXTENDS Mvp4Refinement, BranchTargetBuffer

VARIABLES
  btb,                     \* the branch unit's buffer
  pendingBranchResolution, \* decode unit: stopped at a jump
  toCleanPending           \* fetch unit: empty the decode bus first

vars5 == <<vars, btb, pendingBranchResolution, toCleanPending>>

Init5 ==
  /\ Init
  /\ btb = << >> /\ pendingBranchResolution = FALSE /\ toCleanPending = FALSE

-----------------------------------------------------------------------------
(* Fetch unit                                                              *)

\* The bus that the fetch unit works on: what a reset has made obsolete is
\* dropped first, in the cycle after the reset and even by an idle unit.
Uncleaned == decodeBus   \* faulty
Cleaned == IF toCleanPending THEN EmptyBus ELSE decodeBus

FetchIdle5 == fu.complete /\ decodeBus' = Cleaned /\ UNCHANGED <<fu, l1i>>

FetchCounts5 ==
  /\ ~fu.complete /\ FetchStarted.remaining # 1
  /\ fu' = [FetchStarted EXCEPT !.remaining = @ - 1]
  /\ l1i' = L1IAfterFetch /\ decodeBus' = Cleaned

FetchBlocked5 ==
  /\ ~fu.complete /\ FetchStarted.remaining = 1 /\ ~CanAdd(Cleaned)
  /\ fu' = FetchStarted
  /\ l1i' = L1IAfterFetch /\ decodeBus' = Cleaned

FetchPushes5 ==
  /\ ~fu.complete /\ FetchStarted.remaining = 1 /\ CanAdd(Cleaned)
  /\ fu' = [pc |-> fu.pc + 4, remaining |-> 0, processing |-> FALSE,
            complete |-> PastEnd(fu.pc + 4)]
  /\ l1i' = L1IAfterFetch /\ decodeBus' = Add(Cleaned, fu.pc)

Fetch5 ==
  /\ At("fetch") /\ GoTo("decode")
  /\ FetchIdle5 \/ FetchCounts5 \/ FetchBlocked5 \/ FetchPushes5
  /\ toCleanPending' = FALSE
  /\ UNCHANGED <<app, contextVars, l1d, executeBus, eu, bu, backVars, signal, btb,
                 pendingBranchResolution>>

-----------------------------------------------------------------------------
(* Decode unit                                                             *)

IsJump(pc) == IsUnconditionalBranch(InstructionAt(pc))

DecodeStopped ==
  /\ pendingBranchResolution
  /\ GoTo("execute") /\ UNCHANGED <<decodeBus, executeBus, pendingBranchResolution>>

DecodeOne5 ==
  /\ ~pendingBranchResolution /\ DecodeOne
  /\ pendingBranchResolution' =
       (LET pc == decodeBus.current[1] IN InProgram(pc) /\ IsJump(pc))

Decode5 ==
  /\ At("decode")
  /\ \/ DecodeStopped
     \/ ~pendingBranchResolution /\ (DecodeBlocked \/ DecodeNothing)
        /\ UNCHANGED pendingBranchResolution
     \/ DecodeOne5
  /\ UNCHANGED <<app, contextVars, l1i, fu, l1d, eu, bu, backVars, signal, btb,
                 toCleanPending>>

-----------------------------------------------------------------------------
(* Branch unit and execute unit                                            *)

AssertKeepingCheck(pc) ==   \* faulty: the last check stays armed
  IF IsJump(pc)
  THEN IF Known(btb, pc) THEN bu ELSE [toCheck |-> TRUE, expectation |-> -1]
  ELSE IF IsConditionalBranch(InstructionAt(pc))
       THEN [toCheck |-> TRUE, expectation |-> pc + 4]
  ELSE [bu EXCEPT !.toCheck = FALSE]

\* btbBranchUnit.assert: a jump in the buffer needs no check ...
Assert5(pc) ==
  IF IsJump(pc)
  THEN IF Known(btb, pc) THEN [bu EXCEPT !.toCheck = FALSE]
       ELSE [toCheck |-> TRUE, expectation |-> -1]
  ELSE IF IsConditionalBranch(InstructionAt(pc))
       THEN [toCheck |-> TRUE, expectation |-> pc + 4]
  ELSE [bu EXCEPT !.toCheck = FALSE]

\* fetchUnit.reset; a countdown under way goes on, for the new pc.
Reset(pc) ==
  /\ fu' = [fu EXCEPT !.complete = FALSE, !.pc = pc]
  /\ toCleanPending' = TRUE

\* ... and sends the fetch unit to the target.  A jump that waits for its
\* register does so every cycle.
AssertFetch(pc) ==
  IF IsJump(pc) /\ Known(btb, pc) THEN Reset(Target(btb, pc))
  ELSE UNCHANGED <<fu, toCleanPending>>

NotifySilently(pc, pcTo) ==   \* faulty: the decode unit is not told
  btb' = Learn(btb, pc, pcTo) /\ Reset(pcTo) /\ UNCHANGED pendingBranchResolution
NotifyUnlearned(pc, pcTo) ==   \* faulty: the fetch unit goes to the old target
  /\ btb' = Learn(btb, pc, pcTo) /\ pendingBranchResolution' = FALSE
  /\ IF Known(btb, pc) THEN Reset(Target(btb, pc)) ELSE Reset(pcTo)

\* notifyJumpAddressResolved
Notify(pc, pcTo) ==
  btb' = Learn(btb, pc, pcTo) /\ Reset(pcTo) /\ pendingBranchResolution' = FALSE

\* What a step of the execute unit that runs no jump leaves alone.
NoJumpVars == <<fu, btb, pendingBranchResolution, toCleanPending>>

ExecuteHazard5 ==
  /\ Ready /\ IsWriteDataHazard(ReadRegisters(InstructionAt(Job.pc)))
  /\ TakeJob /\ eu' = Job /\ bu' = Assert5(Job.pc) /\ AssertFetch(Job.pc)
  /\ NotFinished /\ UNCHANGED <<l1d, btb, pendingBranchResolution>>

\* As in MVP-4, but that a load switches a check off that a branch left behind.
ExecuteReads5 ==
  /\ Ready /\ ~IsWriteDataHazard(ReadRegisters(InstructionAt(Job.pc)))
  /\ LET addrs == MemoryRead(InstructionAt(Job.pc), registers)
     IN /\ addrs # << >>
        /\ l1d' = TouchAll(l1d, addrs)
        /\ eu' = IF AllIn(l1d, addrs)
                 THEN [Job EXCEPT !.waiting = TRUE, !.remaining = L1AccessCycles,
                                  !.bytes = ReadValues(l1d, addrs), !.cached = TRUE]
                 ELSE [Job EXCEPT !.waiting = TRUE, !.remaining = MemoryCycles,
                                  !.addrs = addrs]
  /\ TakeJob /\ bu' = Assert5(Job.pc)
  /\ NotFinished /\ UNCHANGED NoJumpVars

\* A jump that succeeds is reported before the check for a flush.  One that
\* fails (its label is missing) was never in the buffer.
ExecuteRuns5 ==
  /\ Ready /\ ~IsWriteDataHazard(ReadRegisters(InstructionAt(Job.pc)))
  /\ MemoryRead(InstructionAt(Job.pc), registers) = << >>
  /\ TakeJob
  /\ Finish(Job, << >>, l1d, memory, Assert5(Job.pc))
  /\ LET exe == Run(InstructionAt(Job.pc), app, registers, Job.pc, << >>)
     IN IF IsJump(Job.pc) /\ exe.Outcome = "ok" THEN Notify(Job.pc, exe.NextPc)
        ELSE UNCHANGED NoJumpVars

Execute5 ==
  /\ At("execute")
  /\ \/ ExecuteHazard5 \/ ExecuteReads5 \/ ExecuteRuns5
     \/ /\ ExecuteWaits \/ ExecuteReceives \/ ExecuteNothing \/ ExecuteCounts
           \/ ExecuteBlocked
        /\ UNCHANGED NoJumpVars
  /\ UNCHANGED <<app, l1i, decodeBus, wu>>

-----------------------------------------------------------------------------
(* The rest of CPU.Run's loop                                              *)

FlushKeepingStop ==   \* faulty: the decode unit stays stopped
  FlushPipeline /\ UNCHANGED <<btb, pendingBranchResolution, toCleanPending>>
FlushPipeline5 ==
  FlushPipeline /\ pendingBranchResolution' = FALSE /\ UNCHANGED <<btb, toCleanPending>>

Next5 ==
  \/ Fetch5 \/ Decode5 \/ Execute5 \/ FlushPipeline5
  \/ (WriteBack \/ EndOfCycle \/ Drain \/ Ended)
     /\ UNCHANGED <<btb, pendingBranchResolution, toCleanPending>>

Spec5 == Init5 /\ [][Next5]_vars5
FairSpec5 == Spec5 /\ WF_vars5(Next5)

-----------------------------------------------------------------------------
(* Properties                                                              *)

\* The pcs decoded and not yet executed, and the one executing, oldest first.
Decoded == (IF eu.processing THEN <<eu.pc>> ELSE << >>) \o Items(executeBus)

\* The decode unit is stopped exactly while a jump is in front of it, and the
\* jump is then the youngest decoded instruction: nothing of the wrong path is
\* ever decoded, and no stop is left over when a flush or a notification, or
\* both, have dealt with the jump.
DecodeWaitsForJump ==
  /\ \A i \in DOMAIN Decoded : IsJump(Decoded[i]) <=> pendingBranchResolution /\ i = Len(Decoded)
  /\ pendingBranchResolution => Decoded # << >>

\* The oldest pc that will be decoded: what the fetch unit is about to drop
\* does not count.
ToDecode5 == IF toCleanPending THEN fu.pc ELSE ToDecode
ToExecute5 == Oldest(executeBus, ToDecode5)

\* From the execute unit back to the fetch unit the pcs are consecutive
\* instructions, but for the gap behind a jump whose target is open.
InOrder5 ==
  status # "panic" =>
    /\ ~toCleanPending => LinkedBus(decodeBus, fu.pc)
    /\ ~pendingBranchResolution =>
         LinkedBus(executeBus, ToDecode5) /\ (eu.processing => ToExecute5 = eu.pc + 4)

\* The buffer keeps within its length and has one entry for a pc, all of jumps,
\* and the target of a j or jal in it is the right one for good: only jalr's
\* may change.
BtbSound ==
  /\ Len(btb) <= BtbSize
  /\ \A i, j \in 1..Len(btb) : btb[i].pc = btb[j].pc => i = j
  /\ \A i \in 1..Len(btb) :
       LET ins == InstructionAt(btb[i].pc)
       IN IsJump(btb[i].pc) /\ (ins.op # "jalr" => btb[i].pcDest = app.Labels[ins.label])

\* A jump the buffer knows does not flush the pipeline (README.md: "This helps
\* in preventing a full pipeline flush"), even when a jalr has a new target; one
\* that it does not know does, unless it goes to the pc -1: that is what the
\* branch unit expects of every jump.
KnownJumpsDoNotFlush ==
  [][NewResult /\ IsJump(LastResult.pc) =>
       (signal'.flush <=>
          ~Known(btb, LastResult.pc) /\ LastResult.exe.NextPc # -1)]_vars5

seqPc5 ==
  IF signal.flush THEN signal.pc ELSE IF eu.processing THEN eu.pc ELSE ToExecute5

Abstract5 == INSTANCE Sequential WITH
  registers <- seqRegisters, memory <- seqMemory, pc <- seqPc5, RaRestarts <- FALSE

\* MVP-5 computes what the sequential processor computes: the fetch unit sent
\* ahead by the buffer, the bus cleaned late and the decode unit stopped are
\* not visible to a program.
RefinesSequential5 == Abstract5!Init /\ [][Abstract5!Next]_(Abstract5!vars)

\* As for MVP-4: no stage waits for ever, and above all not the decode unit for
\* a jump that has been flushed or resolved.
Progress5 == ([]<><<At("execute") /\ NewResult>>_vars5) \/ <>(status # "running")
=============================================================================
