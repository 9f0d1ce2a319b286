--------------------------- MODULE Mvp6Properties ---------------------------
(***************************************************************************)
(* What makes MVP-6.0 and MVP-6.1 correct: the scoreboard is exact, it     *)
(* lets no two dependent instructions into flight, forwarding serves the   *)
(* one that may be, the front end stays in program order, and a program    *)
(* sees a sequential processor.                                            *)
(***************************************************************************)
EXTENDS Mvp6

Stages == {"start", "prepare", "hit", "miss"}
Phases == {"fetch", "decode", "control", "execute", "write", "end", "return", "connect",
           "drain"}
InCode(pc) == pc % 4 = 0 /\ IndexOf(pc) \in 0..Len(app.Instructions) - 1

\* The types of the variables.  The control unit never has more than one runner
\* left over, so its queue of ten cannot fill up, and it keeps the execute bus
\* within its length.
TypeOK6 ==
  /\ registers \in [Register -> Word] /\ memory \in [DOMAIN memory -> Byte]
  /\ Len(l1i) <= L1INumberOfLines /\ Len(l1d) <= NumberOfLines
  /\ Len(btb) <= BtbSize
  /\ Len(pendings) <= 1
  /\ Len(executeBus.buffer) <= BusSize
  /\ \A n \in {Len(decodeBus.queue), Len(controlBus.queue), Len(executeBus.queue),
              Len(writeBus.queue)} : n <= BusSize
  /\ \A i \in Unit : eus[i].stage \in Stages /\ wus[i].remaining \in 0..MemoryCycles
  /\ fu.coroutine \in {"start", "wait", "idle"}
  /\ phase \in Phases /\ unit \in Unit
  /\ status \in {"running", "done", "error", "panic"}

\* The runners issued and not yet executed, and the pcs of the results that have
\* not been written.
Executing(eu) == IF eu.stage = "start" THEN << >> ELSE <<eu.runner>>
Writing(wu) == IF wu.busy THEN <<wu.result.pc>> ELSE << >>
IssuedRunners == Bus!Elements(executeBus) \o (Executing(eus[1]) \o Executing(eus[2]))
UnwrittenPcs ==
  [i \in DOMAIN Bus!Elements(writeBus) |-> Bus!Elements(writeBus)[i].pc]
  \o (Writing(wus[1]) \o Writing(wus[2]))
InFlightPcs == [i \in DOMAIN IssuedRunners |-> IssuedRunners[i].pc] \o UnwrittenPcs

\* The sum of a list of numbers: how many pairs are at or below it.
Total(numbers) == Cardinality(UNION {{i} \X (1..numbers[i]) : i \in DOMAIN numbers})
Counted(Count(_, _), r) == Total([i \in DOMAIN InFlightPcs |-> Count(InFlightPcs[i], r)])

\* The scoreboard counts exactly the reads and the writes of the instructions in
\* flight: AddPendingRegisters, DeletePendingRegisters and Flush stay in step
\* through two units that finish out of order, stores that end in the cache and
\* duplicated source registers.  (While the write bus is drained for a flush the
\* dropped results stay counted; Flush forgets them.)
ScoreboardExact6 ==
  status = "running" /\ phase # "drain" =>
    \A r \in Register \ {Zero} :
      pendingReads[r] = Counted(ReadsOf, r) /\ pendingWrites[r] = Counted(WritesOf, r)

\* No two instructions in flight depend on one another, going by what they
\* declare, which leaves out the rd of lh and jal's own write of ra (README.md: the control unit performs "dependency checking between
\* the decoded instructions to guarantee it won't lead to any hazard"): no two
\* write one register, nobody else in flight writes a register that an unexecuted
\* one reads, unless that one waits for a forwarded value, ...
Depends(pc, writer) == \E r \in Register : ReadsOf(pc, r) > 0 /\ WritesOf(writer, r) > 0
WritersApart ==
  status = "running" =>
    \A i, j \in DOMAIN InFlightPcs : i # j =>
      \A r \in Register : WritesOf(InFlightPcs[i], r) + WritesOf(InFlightPcs[j], r) <= 1
ReadersApart ==
  status = "running" =>
    \A i \in DOMAIN IssuedRunners, j \in DOMAIN InFlightPcs :
      i # j /\ Depends(InFlightPcs[i], InFlightPcs[j]) => IssuedRunners[i].receiver # 0

\* ... and then it waits for exactly that value.
NoHazardInFlight ==
  /\ WritersApart /\ ReadersApart
  /\ status = "running" =>
       \A i \in DOMAIN IssuedRunners, j \in DOMAIN InFlightPcs :
         i # j /\ Depends(InFlightPcs[i], InFlightPcs[j]) =>
           WritesOf(InFlightPcs[j], IssuedRunners[i].forwardRegister) = 1

\* A runner that waits on a channel will be served: the channel has its value, or
\* exactly one runner in flight will send it.  Nobody sends twice (the channel
\* has room for one value), and a value that waits has its receiver.
WaitingRunners ==
  {r \in Runners : r.receiver # 0}
  \ {eus[i].runner : i \in {j \in Unit : eus[j].stage \in {"hit", "miss"}}}
Senders(c) == {i \in DOMAIN IssuedRunners : IssuedRunners[i].forwarder = c}
ReceiversAreServed ==
  status = "running" =>
    /\ \A runner \in WaitingRunners :
         Cardinality(Senders(runner.receiver)) + Len(channels[runner.receiver]) = 1
    /\ \A c \in Channel : Senders(c) # {} =>
         channels[c] = << >> /\ \E runner \in WaitingRunners : runner.receiver = c

\* A forwarded value is used by the runner it was sent to and no other, although
\* it is stored in the instruction, which later runners of a loop share: it is
\* gone before the next runner of the instruction is issued.
ForwardIsOwn ==
  status = "running" =>
    \A i \in DOMAIN IssuedRunners :
      \/ forwards[IndexOf(IssuedRunners[i].pc) + 1].Register = Zero
      \/ IssuedRunners[i].receiver # 0

\* What one execute unit sends reaches the runner it was meant for, and it alone
\* (mvp6-1/cu.go, eu.go: the forwarder and the receiver of a channel).
ForwardingServes == ReceiversAreServed /\ ForwardIsOwn

\* The decoded instructions that have not been executed, oldest first, but for
\* the two in the execute units.
Undispatched == Bus!Elements(executeBus) \o pendings \o
  [i \in DOMAIN Bus!Elements(controlBus) |-> NewRunner(Bus!Elements(controlBus)[i])]

\* The decode unit is stopped exactly while one jump is in front of it, and the
\* jump is the youngest of all: no instruction of a wrong path follows it.
DecodeWaitsForJump6 ==
  status = "running" =>
    LET jumps == {i \in DOMAIN Undispatched : IsJump(Undispatched[i].pc)}
        executing == {i \in Unit : eus[i].stage # "start" /\ IsJump(eus[i].runner.pc)}
    IN /\ du.pendingBranchResolution <=> (jumps \cup executing # {})
       /\ Cardinality(jumps) + Cardinality(executing) <= 1
       /\ jumps \subseteq {Len(Undispatched)}
       /\ executing # {} => Undispatched = << >>

\* The front end is in program order: from the control unit's leftover back to
\* the fetch unit the pcs are consecutive, up to a jump whose target is open,
\* to the end of the program, and but for what the fetch unit will drop.
FrontEnd ==
  [i \in DOMAIN pendings |-> pendings[i].pc] \o Bus!Elements(controlBus)
  \o (IF du.pendingBranchResolution THEN << >>
      ELSE IF fu.toCleanPending THEN <<fu.pc>> ELSE Append(Bus!Elements(decodeBus), fu.pc))
IssueOrder ==
  status = "running" =>
    \A i \in 1..Len(FrontEnd) - 1 :
      FrontEnd[i + 1] = FrontEnd[i] + 4 \/ PastEnd(FrontEnd[i] + 4)

-----------------------------------------------------------------------------
Abstract == INSTANCE Sequential WITH
  registers <- seqRegisters, memory <- seqMemory, pc <- nextPc, RaRestarts <- FALSE

\* Two instructions at a time, out of order, forwarding included, change nothing
\* that a program can see: in every step the sequential processor executes the
\* instructions that the control unit issues on the right path, and what the
\* write units do is what they were expected to do.
RefinesSequential6 == Abstract!Init /\ [][Abstract!Next]_(Abstract!vars)

\* Again and again the control unit issues a runner, until the run ends: no unit
\* waits for ever for a register, a channel, a target or room on a bus.
HasIssued == At("execute") /\ unit = 1 /\ previous > 0
Progress6 == []<>HasIssued \/ <>(status # "running")
=============================================================================
