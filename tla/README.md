# Majorana in TLA+

Majorana is a family of virtual RISC-V processors written in Go, from a plain
sequential loop (MVP-1) to a superscalar processor with forwarding (MVP-6.1).
They share one instruction set, one execution context and a few hardware
components, and they all promise the same thing: **what a program computes does
not depend on the processor that runs it**. The specifications here say that, by
refinement of one sequential machine, and say what each mechanism on the way
(scoreboard, buses, flush, caches) must keep for it to hold.

Paths are relative to the repository's root, without `src/`.

## The system

| Component | State | Operations | Hard part | What makes it correct |
|---|---|---|---|---|
| Instruction set `risc/opcodes.go`, `risc/bit.go`, `risc/risc.go` | none | for each of 43 opcodes: `Run`, `ReadRegisters`, `WriteRegisters`, `MemoryRead`, cycles, branch class | declarations kept by hand beside `Run`; int32 edges | arithmetic as specified; an execution reads only what it declares, and writes what it declares and nothing else but for `lh` and `jal` |
| Context `risc/app.go` | registers, memory, pending reads and writes | write a register or the memory; count, test and delete pending registers; flush | counted in one stage, uncounted in another | the counts are those of the instructions in flight |
| MVP-1, MVP-2 `proc/mvp1`, `proc/mvp2` | pc, cycle, (L1I) | fetch, decode, execute, write, restart at `ra` | failing instructions | reference behaviour |
| LRU cache `proc/comp/cache.go` | list of lines | `Get`, `Write`, `PushLine` | the list is rebuilt in place | the victim is the least recently used line; nothing else is lost |
| MMU `proc/mvp*/mmu.go` | L1I, L1D | lookup, fetch of a line, write through or into the cache, final flush | eviction, overlapping lines, map order | invisible to the program |
| MVP-3 `proc/mvp3` | MVP-1's and the MMU's | MVP-1's loop through the MMU | accesses half in the cache | computes what MVP-1 computes |
| SimpleBus `proc/comp/bus.go` | pending, current | `Add`, `Get`, `CanAdd`, `Flush` | `Add` overwrites | first in, first out |
| MVP-4 `proc/mvp4` | four units, three buses, branch unit, MMU, scoreboard | one cycle of each unit in turn; drain and flush | register hazards, wrong predictions, latencies, waiting | computes what MVP-1 computes; always progresses |
| MVP-5 `proc/mvp5` | MVP-4's, a branch target buffer, a pending flag in decode, a cleaning flag in fetch | as MVP-4; jumps resolved by notification | the unit that resolves a jump resets two others in mid-cycle | as MVP-4; decode waits exactly while a jump is ahead of it |
| BufferedBus, Queue `proc/comp` | buffer and queue; a list | add, revert, delete last, connect; iterate and remove | over-full buffer; an iterator in its own goroutine | bounded FIFO; each pending element visited once |
| MVP-6.0 `proc/mvp6-0` | fetch, decode and control units, two execute and two write units, four BufferedBuses, reads and writes on the scoreboard | fetch, decode and issue two instructions a cycle; finish out of order; drain and flush | read-after-write, write-after-read, write-after-write; a flush with two units at work | no dependent instructions in flight; as MVP-4 |
| MVP-6.1 `proc/mvp6-1` | and channels, and a forwarded value in each instruction | a result sent to the unit that waits for it | receivers left waiting, values left behind | every receiver is served, by the value meant for it |
| Parser `risc/parser.go` | none | text to instructions and labels | - | not modelled |

The units of one processor run in one goroutine: `CPU.Run` calls them in a fixed
order, once a cycle, and they interact through the buses, the scoreboard in the
Context, the MMU and the memory. There are no messages, crashes or timeouts; what is
hard is that work of five to a dozen instructions overlaps and that latencies (1 to
50 cycles) decide how. The channels of MVP-6.1 are used by one goroutine, as places
for one value; concurrency proper appears only in the iterator of `comp.Queue`,
which walks the list in a goroutine of its own.

## The modules

| Module | Models | How |
|---|---|---|
| `Isa` | the instruction set, `Execution`, `Context.WriteRegister`, `WriteMemory` | pure operators; `Run` returns an execution record or the outcome "error" or "panic" |
| `IsaChecks` | - | the instruction set against reference definitions: a state is an instruction and a register file, a step changes one register |
| `IsaProofs` | - | the theorems about the instruction set and `Sequential` |
| `Sequential` | MVP-1, MVP-2; the abstract specification of all others | an action is one turn of `CPU.Run`'s loop |
| `LRUCache` | `comp.LRUCache` | operators on a list of lines |
| `LineCache` | its use in any order | `GetLine`, `Push` beside textbook counters of the lines used since |
| `Mmu` | `memoryManagementUnit` | operators on lines and memory |
| `OperatorProofs` | - | lemmas about the operators: powers of two, wrapping, sums over bits, single bits; the results of `Run`; lists of lines and the memory they show |
| `DataCache` | a client of the MMU | `Load`, `Store`, `Flush` beside a flat memory |
| `DataCacheProofs` | - | the theorems about it |
| `SimpleBus` | `comp.SimpleBus` | operators on a record `[pending, current]` |
| `Mvp3` | MVP-3 | an action is one turn of the loop; INSTANCE of `Sequential` |
| `Mvp3Proofs` | - | the refinement of `Sequential` |
| `Mvp4` | MVP-4 | an action is one call of a unit's `cycle` method, or one part of the loop; `phase` is the place reached in the body of the loop |
| `Mvp4Refinement` | - | the mapping to `Sequential` |
| `BranchTargetBuffer` | `branchTargetBuffer` of MVP-5 and MVP-6 | operators on a list of entries |
| `Mvp5` | MVP-5 | EXTENDS `Mvp4Refinement`; the definitions with a 5 replace those of `Mvp4`, all others are the same code |
| `PipelineProofs` | - | the theorems about MVP-4 and MVP-5 |
| `BufferedBus` | `comp.BufferedBus` | operators on a record `[buffer, queue]` |
| `BufferedBusProofs` | - | lemmas about them, for any lengths and elements |
| `PendingQueue` | `comp.Queue` between two BufferedBuses | an action is a step of the control unit's loops, of the goroutine that walks the list, or of one of the loops' goroutines left behind |
| `ComponentsProofs` | - | the theorems about `LineCache` and `PendingQueue` |
| `Mvp6` | MVP-6.0 and MVP-6.1; `version` says which | an action is one call of a unit's `cycle` method; the control unit takes one step an instruction |
| `Mvp6Properties` | - | what makes MVP-6 correct; the mapping to `Sequential` |
| `Mvp6Proofs` | - | the theorems about MVP-6 |
| `Programs` | - | families of programs for TLC |

`Isa` is parameterised by the width of a byte, so that TLC meets wrap-around, sign
and byte boundaries on small numbers; the program, the initial registers and the
initial memory are constants (sets) from which `Init` chooses. Variables have the
names of the Go fields. `Mvp4!Fetch`, `Decode`, `Execute`, `WriteBack` correspond
to the four `cycle` methods, `EndOfCycle`, `Drain`, `FlushPipeline` to the rest of
`CPU.Run`; each early return of a method is an action of its own below them
(`FetchIdle`, `FetchCounts`, `FetchBlocked`, ...). The execute unit's
`pendingMemoryRead` state is `eu.waiting`.

MVP-6 is one module because the two programs differ in three places only: the
control unit of 6.1 may push a runner that depends on the one pushed in the cycle
before (`IssueForwarded`), a receiving execute unit takes the value from the channel
(`Forwards`, `Operands`), and the decode unit clears a forwarded value. Coroutines
(`coFetch`, `coPrepareRun`, the two that wait for memory) are the values of
`fu.coroutine` and `eus[i].stage`.

Three abstractions hold everywhere: cycle *counts* are left out (nothing reads
them; the *countdowns* that decide when a unit goes on are kept), the contents of
L1I are left out (the code fills its lines with zeros), and text (parsing,
logging, debug output) is left out.

Some definitions marked "faulty" stand before the definition they are a variant
of: a dropped guard, an off-by-one, a forgotten reset. No specification uses
them. PROJECT.json names, for every property, a variant that breaks it; this is
how we know that the property sees the code.

## What the runs check

| Run | Specification | Question | Bounds |
|---|---|---|---|
| `isa` | `IsaChecks`, `Sequential` | Does every opcode read as declared, and write as declared but for `lh` and `jal`; are bytes, words, division and shifts right? Do words stay words and `zero` 0, through failing instructions and the restart at `ra`? | 2-bit bytes (8-bit words); 5 values in each register, 4 immediates, a destination that is `ra` or another register; 33x33 boundary values for the arithmetic; programs of 3 instructions of 8 (calls) or 9 (failures) |
| `components` | `LineCache`, `PendingQueue` | Is the cache a least-recently-used one? Does the pending list, walked by a goroutine while elements are removed, lose or reorder nothing, and does the loop over it end? | 3 lines of 2 addresses, 7 addresses, 5 pushes; 4 elements, a list of 3, buses of 2 and 2, one goroutine left behind at a time |
| `data_cache` | `DataCache` | Is the cache invisible, until an access disturbs it? | 2 lines of 2 bytes, 5 bytes of memory, accesses of 1 and 2 bytes |
| `mvp3` | `Mvp3` | Does MVP-3 refine `Sequential`, and is the cache left undisturbed (`Calm`)? | 3 instructions of 11, with loops; 8 bytes of memory, lines of 4 |
| `mvp4` | `Mvp4` | Does MVP-4 refine `Sequential`, and do the invariants behind it hold? | the families below; latencies of 3 cycles; 2 lines of 4 bytes |
| `mvp4_progress` | `Mvp4` | Does it always go on? | control and forward programs |
| `mvp5` | `Mvp5` | Does MVP-5 refine `Sequential`, stop and free its decode unit exactly at jumps, and go on? | control and jump programs; a buffer of 2 entries |
| `mvp6` | `Mvp6` | Do both MVP-6 refine `Sequential`, keep dependent instructions apart, serve every forwarded value, and go on? | ten families of 3 and 4 instructions and one of 8; a memory of 2 cycles, 2 lines of 4 bytes, a buffer of 2 entries, L1I with 5 lines |
| `mvp4_negative`, `mvp4_store_load` | `Mvp4` | a disagreement between code and documentation, by a counterexample | the code's own 50 cycles, 64-byte lines, 16 lines |
| `mvp6_ret`, `mvp6_chain` | `Mvp6` | the same | and a buffer of 4 entries |

The properties of MVP-4 and what they are about:

- `RefinesSequential`: every step of the pipeline is a step of the sequential
  machine or changes nothing a program can see. The mapping executes an
  instruction when the execute unit does: results still on the write bus count as
  written (`seqRegisters`, `seqMemory`), instructions fetched but not executed do
  not count as started (`seqPc`). It covers the end of the run: what is left in
  `Context` then is what the sequential machine leaves.
- `ScoreboardExact`: the pending counts are those of the write bus. Two units and
  the flush change the counts, three places change the bus.
- `OperandsFinal`, `ResultHasRoom`: the execute unit checks hazards and room once
  and uses both conclusions after the latency of the memory.
- `InOrder`: the pcs in flight are consecutive, from the execute unit back to the
  fetch unit, whatever was flushed.
- `BusesAreFifo`: no element of a bus is lost, doubled or overtaken.
- `ReadersWaitForWriters`: no instruction executes while a register it reads has a
  result on its way, by the results of the executions, not by what they declare. The
  results of `lh` are excepted: it declares none, and nobody waits for them. The `ra`
  that `jal` writes directly is not on its way at any time.
- `Progress`: again and again an instruction is finished, until the run ends;
  programs without loops therefore end.

MVP-5, beside the refinement and the progress:

- `DecodeWaitsForJump`: the decode unit is stopped if and only if a jump is among
  the decoded instructions, and then the jump is the youngest. A flush and a
  notification may come in the same cycle, and both free the unit.
- `InOrder5`: as `InOrder`, with a gap behind a jump whose target is open, and not
  counting what the fetch unit will drop in its next cycle.
- `BtbSound`: one entry for a pc, jumps only, and right targets but for `jalr`.
- `KnownJumpsDoNotFlush`: what the buffer is for. A jump flushes exactly if the buffer
  does not know its pc; the pc -1 is excepted, which the branch unit expects of every
  jump it does not know.

MVP-6:

- `ScoreboardExact6`: the counts of reads and of writes are those of the
  instructions on the execute bus, in the execute units, on the write bus and in
  the write units; they are taken down in three places and by the flush.
- `NoHazardInFlight`: of two instructions in flight neither writes what the other
  writes or, unexecuted, reads, unless the reader waits on a channel for exactly
  that value. Reads and writes are the declared ones, as for the control unit.
- `ForwardingServes`: a runner that waits on a channel has its value there or
  exactly one runner on its way that will send it; nobody sends to a channel that
  nobody reads; a value left in an instruction is seen by the runner it was sent
  to and no other.
- `DecodeWaitsForJump6`, `IssueOrder`: as for MVP-5, over four buses and two units.
- `RefinesSequential6`: instructions take effect out of order, so the mapping is
  at the moment of *issue*. The history variable `window` lists the instructions
  issued on the right path and not yet effective, with the execution the
  sequential machine would do; `diverted` marks issues behind a branch that goes
  elsewhere. The abstract state is `Context` (with the data cache) overlaid with
  the window. When a write unit writes something other than expected, or something
  that was never on the right path, that state changes without an issue, and the
  property fails.

The pending queue (`PendingQueue`):

- `KeptInOrder`, `WithinLengths`: between the decode unit and the execute units an
  element is in exactly one place, oldest first, and no queue outgrows its length.
- `VisitsWholeList`: what the loop receives is the list as it was at the call of
  `Iterator`, in order, although the loop removes elements on the way. It rests on
  the goroutine taking the next element before it sends the current one.
- `LoopEnds`: the channel is closed in the end, so the loop never waits for ever.

**Why the bounds are enough.** A pipeline of four stages with buses of two places
holds at most about nine instructions, but a hazard is a relation between an
instruction and one of the few before it: two on the write bus, one in the
execute unit. Programs of three and four instructions, over all combinations,
fill the write bus, the execute bus and the decode bus, and loops extend them
at run time. Latencies of 3 cycles let an access overlap with one, two or three
results of its neighbours; L1I with two lines of two instructions gives hits,
misses and evictions. 16-bit words (8-bit for `isa`) are wide enough for four
bytes with bits of their own; widths are constants
(`ByteBits`; a word is four bytes), and no definition depends on their values.

A buffer of two entries is replaced when three jumps take turns (`JumpCode` has four
places for them), and keeps one that a `jalr` with a changing target uses. In
MVP-6 at most six runners are in flight (two on the execute bus's queue, two in its
buffer, two in the units); a dependence concerns two of them, and the
distance between them on the buses is decided by loads, stores and a full bus: a
memory of two cycles lets a result of each kind come before, with and after its
neighbour's. `SuperCrowded` fills the execute bus behind a load, so that a forward
is prepared and then finds no room. A list of three in `PendingQueue` is the
shortest with an element before, at and behind the one removed.

**Program families** (`Programs`). `AluCode`: register hazards, with a division that
may fail. `ControlCode`: conditional branches forward and back, jumps, calls, a
computed jump, `ret`, an unknown label. `MemoryCode`: loads and stores of all sizes
on two lines. `OperandCode`: loads whose base register is in flight, behind
stores. `ForwardCode`: branches and memory, never back. `LoopCode`, `CallCode`,
`FailingCode`: for the processors without a pipeline. `JumpCode`: loops of jumps.
`SuperAlu` to `SuperCrowded`: for MVP-6.

**Fairness.** `mvp4_progress`, `mvp5`, `mvp6` and `mvp6_ret` assume `WF_vars(Next)`:
`CPU.Run` is one loop in one goroutine that neither blocks nor waits for anything
(a channel of MVP-6.1 is asked with `select` and a default); it takes its next step
as long as there is one. No unit is given a fairness of its own. `components` assumes weak
fairness of the goroutine of the iterator that is listened to and of the control
unit, as the Go scheduler gives; nothing is assumed of goroutines left behind, and
nothing of the units on the other sides of the buses.

## Limits of the refinement

The processors do not refine `Sequential` for every program. The disagreements
listed under Findings, and the following, delimit the families of the runs
`mvp3`, `mvp4`, `mvp5` and `mvp6`:

- no negative register result under MVP-4 and MVP-5 (`mvp4_negative`); no `lh`, which
  declares `rd` as read and writes nothing (`risc/opcodes.go:776`), so that nobody waits
  for it; no taken `bltu`, which `IsConditionalBranch` leaves out (`risc/risc.go:383`), so
  that the instructions behind it are executed too; at most two stores in flight
  before a load (`mvp4_store_load`);
- accesses that keep cache lines disjoint and whole: a line starts at the address
  that missed (`proc/mvp4/mmu.go:91`), so two lines can hold copies of one
  address, and a store that is only partly cached leaves the cached part old;
- no eviction of a line that has been written to: `PushLine` returns the wrong
  line and the stores to the right one are lost (`proc/comp/cache.go:78`);
- `ret` only where nothing is in flight behind a busy write unit: `CPU.Run` leaves
  its loop at once (`proc/mvp4/cpu.go:81`) with results still on the write bus;
- no branch to a label after the last instruction: the fetch unit pushes that pc
  and the decode unit indexes out of range (`proc/mvp4/du.go:19`), where MVP-1
  ends;
- `jal` with no write of `ra` in flight: `jal.Run` writes `ra` in the execute stage
  (`risc/opcodes.go:610`, with a TODO), an older write then overwrites it. When `rd` is
  not `ra` this write is not declared either, so the scoreboard does not know of it;
- no load outside the memory: MVP-3 and later read zeros there
  (`fetchCacheLine`), MVP-1 panics;
- MVP-1 and MVP-2 restart at pc 0 when the program falls off its end with `ra` not
  0 (`proc/mvp1/cpu.go:60`). MVP-3 and later do not; `RaRestarts` tells them
  apart.

Within one run every property is checked on every program of the family; the
invariants and theorems below are not limited to the families.

**MVP-6.** The same limits of the instruction set and the cache hold, and the
following were met while modelling `proc/mvp6-0` and `proc/mvp6-1`; the families
`SuperAlu` to `SuperCrowded` stay clear of them:

- a flush empties both execute units (`cpu.go:188`), also of a load older than the
  branch, which never runs: no load shortly before a jump or a taken branch;
- the drain before a flush connects the write bus once and then waits until it is
  empty (`cpu.go:143`); when its buffer holds more than the queue takes, it waits
  for ever: at most one store before a taken branch;
- what the write units drop in a drain is decided by `Pc > from`, program order only
  for a branch that is reached from lower pcs: no branch back behind a result of a
  later pc;
- a ret decoded on a wrong path stops the decode unit for good (`mvp6_ret`);
  a ret issued together with an older load loses it, and an instruction behind a
  ret issued in the same cycle takes effect: no branch or load before a `ret`, and
  `ret` last;
- two branches that execute in one cycle are joined by taking the larger target
  (`cpu.go:117`), and the wrong-path instruction issued in the same cycle as a
  branch runs on the other unit;
- three instructions that arrive cycle by cycle, each waiting for the one before and
  for nothing else, are forwarded to wrongly (`mvp6_chain`): no such chain, which needs
  three registers;
- a store and a load of the same line in flight see the line in either state, and
  two loads that miss push two copies of it;
- MVP-6.1 may leave a received value in an instruction for a later runner of it. When the
  write bus is full, a receiver waits in the second execute unit while a known jump in
  the first takes the one free place; the jump resets the fetch unit, the receiver's own
  instruction is decoded once more (`du.go:65` clears the value) before the first runner
  receives, the reception files the value in the instruction the two share (`eu.go:72`),
  and the second runner, issued without a channel, computes with it. With the code's
  latencies this takes a loop of some twenty instructions, half of them stores, so that no
  family of the run has it; it is why `ForwardingServes` is no theorem;
- `fetchUnit.reset` leaves `complete` set: a jump known to the buffer whose target is not
  in L1I lets the processor look finished. L1I of 1 KB never evicts in the
  programs here; the run gives it enough lines;
- the decode unit asks for room and adds without it (`du.go:54`), and `CanAdd` tests
  the buffer's length with `!=`: the control bus may hold more than its length.
  What is checked of lengths is the queues and the execute bus;
- `handleRunner` never answers "neither pushed nor stop", so the pending list has
  at most one element (`TypeOK6`), and MVP-6.1's list of skipped runners is empty
  whenever it is asked. `PendingQueue` covers the longer lists for which the queue
  is written; there a goroutine left behind may stay blocked on its full channel
  for ever, and nothing is promised of it.

## Findings

Each is shown by a run, with the code's own sizes where sizes matter.

- `mvp4_negative`: `DeletePendingWriteRegisters` tests and deletes the register's
  value where it means the count (`risc/app.go:96`); a negative result reads as 0.
- `mvp4_store_load`: a load fetches its line before older stores have reached the
  memory (`proc/mvp4/eu.go:39`).
- `mvp6_ret`: `decodeUnit.flush` frees the unit from a jump and not from a ret
  (`proc/mvp6-0/du.go:90`, `proc/mvp6-1/du.go:92`). After `bne` is taken over a decoded
  `ret` the processor goes round its loop for ever.
- `mvp6_chain`: a runner has one `ForwardRegister` for what it receives and what it
  sends. In `addi t0, t0, 1; addi t1, t0, 1; addi ra, t1, 1` the second waits for `t0`
  when, one cycle later, the third is given its `t1` (`proc/mvp6-1/cu.go:135`), before an
  execute unit has copied the runner: the value it receives is filed under `t1`, and
  it reads the old `t0`.

## Proofs

Everything proved holds for every program, register file, memory, word width,
latency and size of caches, buffers and buses; the runs check the same formulas on
the instances above.

### The cache, the buses and the pending queue

`OperatorProofs` says what `Get` and `PushLine` do to any list of lines:
`FirstWithFinds` (the lookup finds the first line with an address),
`PromoteRearranges` (a get keeps every line, each once), and that rearranging twice
is rearranging. `Smallest`, that a nonempty set of natural numbers has a smallest
element, stands for induction where the provers have none. `Shows` is the notion the
proofs about caches share: every line that holds an address has the byte of a given
memory, and the memory behind the lines has the others.

`ComponentsProofs`, on `LineCache`: `LeastRecentlyUsed` (`OrderedByUse`) and `OnlyVictimIsLost`
(`OnlyVictimLeaves`). The invariant `LInv` adds that the lines carry different
numbers, none of them that of the last victim; without it a line could come back
from the dead and have two ages. `EldestIsLast`: the line with the largest counter is
the one at the end of the list, which is the one the code cuts off.

`DataCacheProofs`: `CacheIsInvisible` (the final flush included), `LoadsAreRight` and
`WritePanicsOnlyAcrossLines`, about any access sizes that a line has room for. None of
the three is inductive: a memory that *looks* right through the first line that holds
an address looks wrong after a lookup has reordered the lines. The invariant
`Consistent` therefore says, while nothing has disturbed the cache, that no address
is in two lines and that *every* line shows the flat memory. `RearrangedShows` makes
lookups harmless, `PushedShows` is the fetch of a line with its eviction,
`WriteShows` the store into a cached line, `FlushShown` the write-back, for which no
order of the lines matters.

`BufferedBusProofs`: `AddAppends`, `GetTakesOldest` and `ConnectKeepsElements` say that
the elements of a bus, queue before buffer, are a first-in first-out list, whatever
`Connect` moves; also for a buffer longer than its length, which the decode unit of
MVP-6 produces.

`ComponentsProofs`, on `PendingQueue`: `NothingLostOrOvertaken` (`KeptInOrder`),
`StaysWithinLengths` (`WithinLengths`) and
`LoopVisitsWholeList` (`VisitsWholeList`). The invariant `QueueInv` says that every
element is in exactly one place (`InOnePlace`), that what the loop has still to
receive is the end of the list (`Looping`), and that the goroutine has sent the first
of it and holds the next in its hands (`Sends`). `QueueReceives` is the step that counts:
the loop removes elements only in front of the goroutine's `next` (`NextAhead`,
`RemovedHead`).

### The instruction set

`IsaProofs`:

- `DeclaredReads`: `SpecCase => UndeclaredRegistersNotRead`;
- `DeclaredWrites`: `SpecCase => []WritesDeclared`;
- `DivisionIsExact`: `SpecCase => []DivRemIdentity`;
- `BitsAreExact`: `SpecCase => []BitByBit`;
- `LoadsReadStores`: `SpecCase => []StoreThenLoad`;
- `SequentialTypes`: `Spec => []TypeOK` of `Sequential`.

The first two are what the scoreboard of every pipeline rests on: how far `ReadRegisters`
and `WriteRegisters` of an opcode tell what its `Run` does. They do but for two opcodes:
`lh` declares no write, and `jal` does not declare the `ra` that it writes inside `Run`,
before the write-back; `WritesDeclared` says that these are all. `RunOfRegReg` to `RunOfNop` say
which execution belongs to which kind of opcode; `DeclaredReadsSuffice` compares two
register files that agree on the declared registers, kind by kind (`beqz` is a branch
that does not look at its second operand), `DeclaredWritesAreMade` goes through the
results of all opcodes but `lh`, and `DirectlyRa` is about the writes inside `Run`.

`DivisionIsExact` is arithmetic. The prover knows nothing about powers, so `PowersOfTwo`
(2^(n+1) is twice 2^n) is derived from the library's theorem on the number of subsets of a
set: the subsets of 1..n+1 are those of 1..n, with n+1 and without. `HalfOfRange` and
`WrapOfWord` follow, the words are -h .. h-1 and `Wrap` leaves them alone;
`TruncDivides` is Go's rounding toward zero, by the signs of the two operands, and
`WordsDivide` finds the one quotient that is not a word, h for -h divided by -1.

`BitsAreExact` and `LoadsReadStores` are about sums over bits and over bytes. A sum is a
recursive function on 0..n, and what it is cannot be got from the library's induction
theorems, which the provers cannot instantiate. `Induction` replaces them: a set of numbers
that contains 0 and with each number the next contains all of them, since otherwise the
initial segments that leave the set would have no least one under inclusion. `SumOfBits`
and its like (the sum of the bits of a number times their weights is the number modulo a
power of two; bit i of a sum of bits is the i-th of them) follow, then `WrapOfBits`,
`WordOfBytes`, `BytesOfWord`, and the opcodes by `TruthTables` and `Shifts`.

`SequentialTypes` says that registers stay int32's, the memory bytes and `zero` 0.
`ResultsAreWords` goes through all opcodes; the pc needs `PcsOfProgram`, that the pcs of a
program and the one behind it are int32's, and that labels are.

### MVP-3

`Mvp3Proofs`: `Mvp3Refines`, `Spec /\ []Calm => RefinesSequential`. MVP-3 is the first
processor that sees the memory through the data cache, and the cache is *not* invisible to
every program (see Limits of the families), so that the theorem has a hypothesis: `Calm`
says of the instruction to be executed next that a load lies in the memory if and only if it
does not panic, that the line it fetches overlaps no other and cuts off no line
written to, and that a store is in one line as a whole or not in the cache at all. The run
`mvp3` checks `Calm` of all its programs. There is no assumption about anything the processor
does by itself.

The invariant is `CacheInv`: the types, and that no address is in two lines (`DisjointLines`).
Under it the lines and the memory show exactly `seqMemory`, the memory of the sequential
processor (`MemoryShown`). `LoadIs`: a calm load, hit or miss, through all its lookups,
reads the bytes of `seqMemory` and leaves what is shown alone; hence both processors execute
the same instruction on the same operands (`SameExecution`). Then a lemma for each action:
`FailIsFail`, `EndIsEnd` (the write-back leaves `seqMemory` in `Context`), `StepIsStep`,
`StoreHitIsStep` (a store in one line does not panic in `LRUCache.Write`, and is shown),
`StoreMissIsStep` (a store outside the memory panics in both). `SameInstructionSet` is
needed because `Sequential` is instantiated with its own copy of `Isa`.

### MVP-4

`PipelineProofs`, on `Mvp4`:

- `InductiveInvariant`: `Spec => []IInv`;
- `ScoreboardIsExact`: `Spec => []ScoreboardExact`;
- `LoadsWaitSafely`: `Spec => []OperandsFinal`; `ResultsHaveRoom`: `Spec => []ResultHasRoom`;
- `PipelineInOrder`: `Spec => []InOrder`;
- `QueuesBetweenStages`: `Spec => BusesAreFifo`;
- `OperandsAreWritten`: `Spec => ReadersWaitForWriters`;
- `PipelineTypes`: `Spec => []TypeOK`.

**The invariant.** None of the state properties is inductive alone. `ScoreboardExact` needs
`DeclaredWriters`: an entry of the write bus that declares a register is one the
write unit treats as a register change, or its count would stay up for ever; that
rests on `DeclaredWriteHappens`, a fact about every opcode: an execution that
succeeds and declares a write is a register change. `OperandsFinal` needs
`ScoreboardExact` (the hazard check looks at the counts) and `ResultHasRoom` needs
that only the execute unit adds to the write bus. `InOrder` needs
`IdleDuringFlush`: between the branch that asks for a flush and the flush the
execute unit holds nothing of the wrong path and no other unit runs. `ControlTypeOK`
is the part of the type invariant these arguments use. `IInv` is the conjunction.

**The argument.** `BusSteps` and `EmptyBusIsBus` say what the bus operations do,
`TakeKeepsOrder` and `AddKeepsOrder` that taking the oldest and adding the youngest
keep pcs consecutive. Then one lemma an action (`FetchKeeps`, `DecodeKeeps`,
`WriteBackKeeps`, `DrainKeeps`, `EndOfCycleKeeps`, `FlushPipelineKeeps`,
`ExecuteKeeps`), the last by the ways in which the unit goes on: it takes a job
(`JobTaken`), stays busy (`StillBusy`) or finishes (`FinishKeeps`). `NextKeeps`
combines them.

`QueuesBetweenStages` is about steps, and uses the invariant in each of them:
`GetIsFifo` and `AddIsFifo` say that `Get` takes the oldest element and that `Add`
adds the youngest *if* `CanAdd` held; `WriteUnitIsFifo` and `ExecuteIsFifo` follow
the units. Fetch, decode and a fresh execution ask `CanAdd` in the same cycle; a
load asked several cycles earlier, which is where `ResultHasRoom` is needed. A
flush finds the write bus drained, by `IdleDuringFlush`.

`OperandsAreWritten` closes the gap between what an opcode declares and what it does.
`WriterDeclares` goes through all opcodes: a result that changes a register changes
a declared one, `lh` apart. The invariant `OperandInv` carries this along the write
bus (`Declared`) and says that only instructions of the program are decoded; with
`OperandsFinal` no reader executes ahead of its writer.

`PipelineTypes` adds the values. `ValueInv` is `OperandInv` with `DataInv` (int32's in
the registers and on the write bus, bytes in the memory and the lines, and
`LoadsBytes`: what a load that waits for the memory already holds, since its bytes
are read before the wait and used after it), `PcInv` and `CountInv` (countdowns).

### MVP-5

`PipelineProofs`, on `Mvp5`:

- `BufferIsSound`: `Spec5 => []BtbSound`;
- `DecodeUnitWaitsForJump`: `Spec5 => []DecodeWaitsForJump`;
- `PipelineInOrder5`: `Spec5 => []InOrder5`;
- `KnownJumpsSpareTheFlush`: `Spec5 => KnownJumpsDoNotFlush`.

`LearnedEntries` says what `branchTargetBuffer.add` makes of a list: no longer than
the buffer, no pc twice, nothing but old entries and the new one; one case each for
a known jump, a buffer with room and a full one. `JumpExecution` says what `Run` may
ask for at a jump: neither a return nor a store, and for `j` and `jal` the label.
`BtbSound` is then inductive, because the execute unit notifies with the target it
has just computed, and only after a jump that succeeds.

`DecodeWaitsForJump` needs the invariant `StopInv`: the execute unit never waits for
the memory with a jump, and is idle from the branch that asks for a flush until the
flush. `DecodingKeepsWaits` and `ExecutingKeepsWaits` say that adding a youngest and
taking the oldest keep the relation between a list of pcs and a stop; the lemmas on
the units show that each of their steps does one of the two, or neither
(`StillStopped`), or empties everything (`FlushKeepsStop`). The step that counts is
`FinishKeepsStop`: the instruction that leaves is the oldest, and the unit is freed in
that very step if and only if it was a jump that succeeded; one that fails stays in the
execute unit for good, and so does the stop.

`InOrder5` needs both: `OrderInv` is `StopInv`, `InOrder5` and that the fetch unit has
cleaned its bus before the decode unit looks at it. When a jump finishes, it is the
last decoded one (`JumpIsLast`), so that the gap behind it closes just where the
fetch unit was reset to (`OrderReset`).

`KnownJumpsDoNotFlush` is a property of steps: at the moment a jump finishes, the
branch unit expects what `Assert5` has put there in the same step (`JumpFlushes`), and
no flush is open from before (`StopInv`).

### MVP-6

`Mvp6Proofs`, for both versions:

- `DecodeUnitWaitsForJump`: `Spec => []DecodeWaitsForJump6`;
- `FrontEndInOrder`: `Spec => []IssueOrder`;
- `ScoreboardIsExact6`: `Spec => []ScoreboardExact6`;
- `HazardsAreForwarded`: `Spec => [](WritersApart /\ ReadersApart)`, the first two parts of
  `NoHazardInFlight`;
- `NoHazardInFlight60`: `Spec => [](version = "6.0" => NoHazardInFlight)`;
- `ControlUnitKeepsRoom`: `Spec => []RoomInv`;
- `SuperscalarTypes`: `Spec => []TypeOK6`.

The invariant `FrontInv` is about the places in front of the execute units, taken
as one list of pcs: the elements of the execute bus, the leftover of the control unit,
those of the control bus, and behind them the decode bus and the fetch unit.
`ShapeInv` says that the buses are buses and what the units look like, `StopInv` and
`OrderInv` are the two properties over that list, `CleanInv` that the fetch unit has
cleaned its bus before decoding begins. A cycle of the decode unit or of an execute
unit has several ends; each lemma follows one of them: `FetchedInOrder` (a hit, a
miss, a line that arrives, twice a cycle), `DecodeOneInOrder` (one turn of the decode
loop), `MovedInOrder` (the control unit keeps or pushes a runner, which may
repoint the forwarder that is already on the bus: `RepointedInOrder`), `JobHeld`,
`HeldInOrder` and `FreedInOrder` (an execute unit goes on, starts or ends an
instruction). A jump in an execute unit was the last one decoded, so everything
behind the two units is empty, and the other unit holds no jump
(`JumpsNeitherReturnNorStore` keeps it from ending in any other way).

For the scoreboard, `Needs` says how often an instruction reads or writes a register, and
`InFlight` adds that up over the execute bus, the execute units, the write bus and the write
units; `CountsAreNeeds` shows that this is the sum `ScoreboardExact6` takes over one list of pcs
(a sum is the cardinality of a set of pairs, and `TotalOfJoined` adds two). The invariant
`ScoreInv` is that the counts are `InFlight` (`CountInv`), the shapes of the write
side (`WritersInv`) and `DrainInv`: while the second write unit empties the bus before a
flush, the first has nothing left. Without `DrainInv` the flush, which forgets all
counts, could leave a store in a write unit. Outside a drain every step is one of three:
it adds the needs of an instruction to the counts and to what is in flight
(`AddedToBoth`: the control unit), takes them from both (`TakenFromBoth`: the write
units, and a store that ends in the data cache) or moves an instruction from one place to
the next (`KeptInBoth`, `JobNeeds`, `WriterNeeds`, `WrittenNeeds`). `TakenFromBoth` shows
besides that the test for a negative count in `DeletePendingRegisters` never applies there.
An instruction that leaves the execute unit and is not written anywhere is a
`ret`, which declares nothing (`ReturnNeedsNothing`).

That nothing dependent is in flight follows from the exact counts. `IssueInv` says that at
most one write of a register is in flight, and that what an unexecuted runner without a
channel reads is written by nobody else. The control unit adds a runner when the
counts, which are `InFlight`, show no hazard (`IssueAdds`); then no runner that was
there reads what the new one writes, since the needs of a runner are part of the sum
(`UnexecutedNeeds`). Every other step takes away from what is in flight and adds no runner
(`IssueKept`, `ExecuteMoves`, `WriteCycleMoves`), also while the write bus is drained
and the counts are ahead. A runner that is forwarded to has a channel other than 0
because there is a free one (`FreshChannelIsFresh`): the control unit keeps room on
the execute bus and one runner left over at most (`RoomInv`), so at most seven runners hold
at most fourteen of the fifteen numbers the model gives to channels. The last part of
`NoHazardInFlight`, which register the forwarded value is for, is true of MVP-6.1 only
as long as no runner both receives and sends (run `mvp6_chain`).

`SuperscalarTypes` needs, beside `FrontInv` and the values of MVP-4, what the values of
6.1 are: those in channels, in instructions (the forward field) and in the execute units,
of which a receiver may hold one from a cycle before. Its invariant has a part for each
kind of place: `FrontTypes`, `RunnerTypes`, `DataTypes`, `ResultTypes`, `PlaceTypes`.

The attempt to prove the types found a panic that the model had left out: a load that
misses is looked up again in the line fetched for it, and `panic("cache line doesn't
exist")` follows when it is not there (`proc/mvp3/cpu.go:116`, `proc/mvp4/eu.go:40`,
`proc/mvp6-0/eu.go:80`, `proc/mvp6-1/eu.go:107`). `NoLine` of `Mmu` says when: for an access
longer than a line, or a line that would end beyond int32.

### Assumptions

The proofs assume what the modules declare and TLC evaluates on every run.
`SequentialAssumption`, `Mvp3Assumption`, `Mvp4Assumption` and `Mvp6Assumption` say of the
programs that they are applications (`IsApplication`): at least one instruction, each of a known opcode, with
registers as operands and an int32 as immediate, which is what `risc/parser.go` lets
through; that the pcs of the program, and the one behind it, are int32's, and the labels
too, which are pcs in the code. The memories are bytes at natural addresses (`IsMemory`),
the register files int32's with `zero` 0 (`IsRegisterFile`). `IsaChecksAssumption` says that
the checked instructions are instructions, `SourcesAssumption` that their operands are registers.
`DataCacheAssumption` says that an access fits into a line (at most 4 of 64
bytes). `Next` describes a panic as the end of a run, so that no restriction on
programs is needed.

### Only model-checked

- The refinements by the pipelined and superscalar processors (`RefinesSequential` of `Mvp4`,
  `RefinesSequential5`, `RefinesSequential6`). They are false for all programs (see
  Limits of the families), and what a program has to keep clear of is known; stating it
  for a pipeline takes a hypothesis about each unit.
- `Progress`, `Progress5`, `Progress6` and `LoopEnds`: liveness under fairness is out of
  the prover's reach.
- `ForwardingServes` of MVP-6.1, and which register a forwarded value is for (the third part
  of `NoHazardInFlight`). Both hold for the families of the run and are false in
  general: see the last points of the limits of MVP-6, and `mvp6_chain`.
- `Calm`, which is about programs.

## Plan

1. The refinement of `Sequential` by MVP-4 as a theorem, on the pattern of `Mvp3Refines`:
   `ValueInv` has the types, `OperandsAreWritten` says that the registers an instruction reads
   are those of the sequential processor, and the lemmas about `Shows` are those for
   loads and stores. What is missing is the hypothesis about the front end: no pc
   behind the program is decoded, and no result is on the write bus when `ret` leaves the loop.
2. The part of `ForwardingServes` that is true in general, about the channels
   (`ReceiversAreServed`), from the order of the runners on the bus.

## Not modelled

The parser has no state and no order of events: programs are sequences of
instruction records here. `risc/runner.go` is a loop for opcode tests that passes no
loaded bytes. Logging, gauges and benchmarks decide nothing. MVP-2's instruction
cache is two bounds and decides only cycle counts. L1I's contents and cycle counts:
see above. `IsDataHazard` and `IsDataHazard2` (`risc/app.go:116`, `:186`) and
`isDataHazardWithSkippedRunners` where its list is empty have no effect. `Revert` and
`DeleteLast` of `BufferedBus` are defined and have no caller.
