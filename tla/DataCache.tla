----------------------------- MODULE DataCache -----------------------------
(***************************************************************************)
(* The memory management unit as a component: a client loads and stores    *)
(* through the data cache, one access at a time, and flushes it at the     *)
(* end, as the execute and write stages of a processor do.                 *)
(*                                                                         *)
(* The cache is meant to be invisible.  It is, until an access disturbs    *)
(* it: the code fetches a line that overlaps another, drops a line that    *)
(* was written to, or sends to the memory a store that is only partly in   *)
(* the cache.  The history variable `disturbed' records that this has      *)
(* happened; `flat' is the memory of a machine without cache.              *)
(***************************************************************************)
EXTENDS Mmu

CONSTANTS
  MemorySize,  \* len(Context.Memory)
  Sizes,       \* the access sizes of the instruction set, 1, 2 and 4
  Data         \* the values of a byte

ASSUME DataCacheAssumption ==
  /\ MemorySize \in Nat \ {0}
  /\ Sizes \subseteq 1..4 /\ \A size \in Sizes : size <= LineLength
  /\ 0 \in Data

VARIABLES
  memory,    \* Context.Memory
  l1d,       \* the lines of the data cache
  flat,      \* history: the memory without a cache
  loaded,    \* history: the last load, [addrs, got, want]
  disturbed, \* history: an access the cache does not absorb has happened
  status     \* "running", "done" after the final flush, "panic"

vars == <<memory, l1d, flat, loaded, disturbed, status>>

Address == 0..MemorySize - 1
Consecutive(addr, size) == [i \in 1..size |-> addr + i - 1]
NoLoad == [addrs |-> << >>, got |-> << >>, want |-> << >>]

Init ==
  /\ memory \in [Address -> {0}]
  /\ l1d = << >>
  /\ flat = memory
  /\ loaded = NoLoad
  /\ disturbed = FALSE
  /\ status = "running"

\* A line written to since it was fetched.
Dirty(line) ==
  \E a \in Address : Holds(line, a) /\ Get(line, a) # memory[a]

LoadOf(addrs, lines) ==
  loaded' = [addrs |-> addrs, got |-> ReadValues(lines, addrs),
             want |-> [i \in 1..Len(addrs) |-> flat[addrs[i]]]]

LoadHit(addrs) ==
  /\ AllIn(l1d, addrs)
  /\ l1d' = TouchAll(l1d, addrs)
  /\ LoadOf(addrs, l1d)
  /\ UNCHANGED <<memory, flat, disturbed, status>>

\* The lookup that missed, the fetch, and the second lookup.
LoadMiss(addrs) ==
  LET probed == TouchAll(l1d, addrs)
      pushed == PushedLines(probed, memory, addrs[1])
  IN /\ ~AllIn(l1d, addrs)
     /\ memory' = PushedMemory(probed, memory, addrs[1])
     /\ l1d' = TouchAll(pushed, addrs)
     /\ LoadOf(addrs, pushed)
     /\ disturbed' = (\/ disturbed
                      \/ \E i \in 1..Len(probed) : Overlap(pushed[1], probed[i])
                      \/ Evicts(probed) /\ Dirty(probed[Len(probed)]))
     /\ UNCHANGED <<flat, status>>

Load ==
  /\ status = "running"
  /\ \E addr \in Address, size \in Sizes :
       /\ addr + size <= MemorySize
       /\ LoadHit(Consecutive(addr, size)) \/ LoadMiss(Consecutive(addr, size))

Absorb(changes) == flat' = [a \in Address |-> IF a \in DOMAIN changes
                                              THEN changes[a] ELSE flat[a]]

StoreHit(changes) ==
  /\ AllChangesIn(l1d, changes)
  /\ \E lines \in Probed(l1d, changes) :
       IF CrossesLine(lines, changes)
       THEN l1d' = lines /\ status' = "panic" /\ UNCHANGED flat
       ELSE l1d' = Write(lines, changes) /\ Absorb(changes) /\ UNCHANGED status
  /\ UNCHANGED <<memory, loaded, disturbed>>

StoreMiss(changes) ==
  /\ ~AllChangesIn(l1d, changes)
  /\ l1d' \in Probed(l1d, changes)
  /\ memory' = [a \in Address |-> IF a \in DOMAIN changes THEN changes[a] ELSE memory[a]]
  /\ Absorb(changes)
  /\ disturbed' = (disturbed \/ \E a \in DOMAIN changes : Contains(l1d, a))
  /\ UNCHANGED <<loaded, status>>

Store ==
  /\ status = "running"
  /\ \E addr \in Address, size \in Sizes :
       /\ addr + size <= MemorySize
       /\ \E changes \in [addr..addr + size - 1 -> Data] :
            StoreHit(changes) \/ StoreMiss(changes)

Flush ==
  /\ status = "running"
  /\ memory' = Flushed(l1d, memory)
  /\ status' = "done"
  /\ UNCHANGED <<l1d, flat, loaded, disturbed>>

Ended == status # "running" /\ UNCHANGED vars

Next == Load \/ Store \/ Flush \/ Ended
Spec == Init /\ [][Next]_vars

-----------------------------------------------------------------------------
\* As long as nothing disturbs it, the memory behind the cache is the flat
\* memory: fetchCacheLine, pushLineToL1D, Get, Write and the stores that
\* bypass the cache keep the two levels consistent, and the write-back at the
\* end of the run leaves the flat memory in Context.
Invisible ==
  ~disturbed => View(l1d, memory) = flat /\ (status = "done" => memory = flat)

\* A load, served by the cache or after a fetch, returned what was last stored.
LoadsReadLastStore == ~disturbed => loaded.got = loaded.want

\* A store panics only when it is in the cache as a whole but not in one line.
PanicOnlyAcrossLines ==
  status = "panic" /\ ~disturbed =>
    \E i, j \in 1..Len(l1d) : l1d[i].first + LineLength = l1d[j].first
=============================================================================
