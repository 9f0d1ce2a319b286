-------------------------------- MODULE Mmu --------------------------------
(***************************************************************************)
(* The memoryManagementUnit, the same code in MVP-3 to MVP-6.1: a data     *)
(* cache in front of Context.Memory.  Loads go through the cache, a store  *)
(* goes to the cache when all its addresses are there and to the memory    *)
(* otherwise, and the cache is written back at the end of the run.         *)
(*                                                                         *)
(* Operators on (memory, lines) model the methods; a data line is a        *)
(* function on 0 .. LineLength - 1.  Loads and stores span at most four    *)
(* addresses.                                                              *)
(***************************************************************************)
EXTENDS LRUCache, FiniteSets

\* getFromL1D asks for the addresses in turn and stops at the first one that
\* is missing; each address found moves its line to the front.
AllIn(lines, addrs) == \A i \in 1..Len(addrs) : Contains(lines, addrs[i])
Touch(lines, addrs, k) ==
  IF k <= Len(addrs) /\ \A i \in 1..k : Contains(lines, addrs[i])
  THEN Promote(lines, addrs[k]) ELSE lines
TouchAll(lines, addrs) ==
  Touch(Touch(Touch(Touch(lines, addrs, 1), addrs, 2), addrs, 3), addrs, 4)

\* The values found: every address is looked up after the earlier ones moved.
TouchedBefore(lines, addrs, k) ==
  CASE k = 1 -> lines
    [] k = 2 -> Touch(lines, addrs, 1)
    [] k = 3 -> Touch(Touch(lines, addrs, 1), addrs, 2)
    [] OTHER -> Touch(Touch(Touch(lines, addrs, 1), addrs, 2), addrs, 3)
ReadValues(lines, addrs) ==
  [k \in 1..Len(addrs) |-> Value(TouchedBefore(lines, addrs, k), addrs[k])]

FetchCacheLineLate(memory, addr) ==   \* faulty
  [k \in 0..LineLength - 1 |->
     IF addr + k + 1 \in DOMAIN memory THEN memory[addr + k + 1] ELSE 0]

\* fetchCacheLine: the line that starts at addr, zeros past the memory's end.
\* A negative address is a panic.
FetchCacheLine(memory, addr) ==
  [k \in 0..LineLength - 1 |->
     IF addr + k \in DOMAIN memory THEN memory[addr + k] ELSE 0]

\* writeToMemory: the data at addr, cut at the end of the memory.
WriteToMemory(memory, addr, data) ==
  [a \in DOMAIN memory |->
     IF a - addr \in DOMAIN data THEN data[a - addr] ELSE memory[a]]

\* pushLineToL1D: when the cache was full, the line just read is written back
\* where it came from; the line cut off is dropped.
PushedLines(lines, memory, addr) == PushLine(lines, addr, FetchCacheLine(memory, addr))
PushedMemory(lines, memory, addr) ==
  IF Evicts(lines) THEN WriteToMemory(memory, addr, FetchCacheLine(memory, addr))
  ELSE memory

\* A load that misses panics when its line would start at a negative address
\* (fetchCacheLine), and when the second lookup finds nothing ("cache line
\* doesn't exist"): the access is longer than a line, or the line's Boundary
\* overflows, its end being no int32 (word).
NoLine(lines, memory, addrs, word) ==
  \/ addrs[1] < 0 \/ addrs[1] + LineLength \notin word
  \/ ~AllIn(PushedLines(lines, memory, addrs[1]), addrs)

\* doesExecutionMemoryChangesExistsInL1D walks a Go map, so in any order: the
\* lists of lines it may leave.  writeExecutionMemoryChangesToL1D is Write.
Orders(S) == {s \in [1..Cardinality(S) -> S] : \A a \in S : \E i \in DOMAIN s : s[i] = a}
Probed(lines, changes) == {TouchAll(lines, s) : s \in Orders(DOMAIN changes)}
AllChangesIn(lines, changes) == \A a \in DOMAIN changes : Contains(lines, a)

\* flush writes every line back, from the most to the least recently used, so
\* that the least recent of two overlapping lines decides.
LastWith(lines, addr) ==
  CHOOSE i \in 1..Len(lines) :
    Holds(lines[i], addr) /\ \A j \in i + 1..Len(lines) : ~Holds(lines[j], addr)
Flushed(lines, memory) ==
  [a \in DOMAIN memory |->
     IF Contains(lines, a) THEN Get(lines[LastWith(lines, a)], a) ELSE memory[a]]

\* The memory as a program sees it through the cache.
View(lines, memory) ==
  [a \in DOMAIN memory |-> IF Contains(lines, a) THEN Value(lines, a) ELSE memory[a]]
=============================================================================
