--------------------------- MODULE DataCacheProofs ---------------------------
(***************************************************************************)
(* The memory management unit is invisible until something disturbs it,    *)
(* for every size of memory, cache and line, and all access sizes that a   *)
(* line has room for.                                                      *)
(***************************************************************************)
EXTENDS DataCache, OperatorProofs

CacheTypeOK ==
  /\ memory \in [Address -> Data] /\ flat \in [Address -> Data]
  /\ IsCacheOf(l1d, Data)
  /\ disturbed \in BOOLEAN /\ status \in {"running", "done", "panic"}

\* While nothing has disturbed the cache, no address is in two lines, and lines and
\* memory show the flat memory.
Consistent == ~disturbed => DisjointLines(l1d) /\ Shows(l1d, memory, flat)

\* The write-back at the end of the run leaves the flat memory in Context.
Restored == status = "done" /\ ~disturbed => memory = flat

DInv ==
  /\ CacheTypeOK /\ Consistent
  /\ LoadsReadLastStore /\ Restored /\ PanicOnlyAcrossLines

-----------------------------------------------------------------------------
(* Loads                                                                   *)

\* The addresses of an access are in the memory.
LEMMA AccessInMemory ==
  ASSUME NEW addr \in Address, NEW size \in Sizes, addr + size <= MemorySize
  PROVE  /\ size \in 1..4 /\ size <= LineLength
         /\ Len(Consecutive(addr, size)) = size
         /\ \A k \in 1..size : /\ Consecutive(addr, size)[k] = addr + k - 1
                               /\ Consecutive(addr, size)[k] \in Address
BY DataCacheAssumption DEF Consecutive, Address

\* A load that hits returns what is shown, and moves lines only.
LEMMA HitKeeps ==
  ASSUME DInv, status = "running", NEW addr \in Address, NEW size \in Sizes,
         addr + size <= MemorySize, LoadHit(Consecutive(addr, size))
  PROVE  DInv'
<1> DEFINE addrs == Consecutive(addr, size)
<1>1. /\ l1d \in Seq(LineOf(Data)) /\ Len(l1d) <= NumberOfLines
      /\ l1d' = TouchAll(l1d, addrs) /\ UNCHANGED <<memory, flat, disturbed, status>>
  BY DEF DInv, CacheTypeOK, IsCacheOf, LoadHit
<1>2. l1d' \in Seq(LineOf(Data)) /\ Rearranged(l1d', l1d)
  BY <1>1, TouchAllRearranges, Zenon
<1>3. Len(l1d') = Len(l1d)
  BY <1>2 DEF Rearranged
<1>4. CacheTypeOK'
  BY <1>1, <1>2, <1>3 DEF DInv, CacheTypeOK, IsCacheOf
<1>5. ASSUME ~disturbed PROVE DisjointLines(l1d') /\ Shows(l1d', memory, flat)
  BY <1>2, <1>5, RearrangedHolds, RearrangedShows, Zenon DEF DInv, Consistent
<1>6. ASSUME ~disturbed PROVE loaded'.got = loaded'.want
  <2>1. \A k \in 1..Len(addrs) : addrs[k] \in DOMAIN memory /\ Contains(l1d, addrs[k])
    BY AccessInMemory DEF LoadHit, AllIn, DInv, CacheTypeOK
  <2>2. ReadValues(l1d, addrs) = [k \in 1..Len(addrs) |-> flat[addrs[k]]]
    <3>1. Shows(l1d, memory, flat)
      BY <1>6 DEF DInv, Consistent
    <3> HIDE DEF addrs
    <3> QED
      BY <1>1, <2>1, <3>1, LoadShown
  <2> QED
    BY <2>2 DEF LoadHit, LoadOf
<1> QED
  BY <1>1, <1>4, <1>5, <1>6
  DEF DInv, Consistent, LoadsReadLastStore, Restored, PanicOnlyAcrossLines

\* A load that misses and disturbs nothing returns what is shown.
LEMMA MissKeeps ==
  ASSUME DInv, status = "running", NEW addr \in Address, NEW size \in Sizes,
         addr + size <= MemorySize, LoadMiss(Consecutive(addr, size))
  PROVE  DInv'
<1>1. PICK addrs : addrs = Consecutive(addr, size)
  OBVIOUS
<1>2. /\ size \in 1..4 /\ size <= LineLength /\ Len(addrs) = size /\ addrs[1] = addr
      /\ \A k \in 1..size : addrs[k] = addr + k - 1 /\ addrs[k] \in Address
  <2>1. /\ size \in 1..4 /\ size <= LineLength /\ Len(addrs) = size
        /\ \A k \in 1..size : addrs[k] = addr + k - 1 /\ addrs[k] \in Address
    BY <1>1, AccessInMemory
  <2>2. 1 \in 1..size /\ addr + 1 - 1 = addr
    BY <2>1, DataCacheAssumption DEF Address
  <2> QED
    BY <2>1, <2>2
<1>3. PICK probed : probed = TouchAll(l1d, addrs)
  OBVIOUS
<1>4. PICK pushed : pushed = PushedLines(probed, memory, addr)
  OBVIOUS
<1>5. /\ memory' = PushedMemory(probed, memory, addr)
      /\ l1d' = TouchAll(pushed, addrs)
      /\ loaded'.got = ReadValues(pushed, addrs)
      /\ loaded'.want = [k \in 1..Len(addrs) |-> flat[addrs[k]]]
      /\ disturbed' = (\/ disturbed
                       \/ \E i \in 1..Len(probed) : Overlap(pushed[1], probed[i])
                       \/ Evicts(probed) /\ Dirty(probed[Len(probed)]))
      /\ flat' = flat /\ status' = status
  BY <1>1, <1>2, <1>3, <1>4 DEF LoadMiss, LoadOf
<1>6. l1d \in Seq(LineOf(Data)) /\ Len(l1d) <= NumberOfLines /\ memory \in [Address -> Data]
      /\ flat \in [Address -> Data] /\ disturbed \in BOOLEAN /\ IsCacheOf(l1d, Data)
      /\ addr \in Int /\ DOMAIN memory = Address /\ Address \subseteq Int
  BY DataCacheAssumption DEF DInv, CacheTypeOK, IsCacheOf, Address
<1>7. probed \in Seq(LineOf(Data)) /\ Rearranged(probed, l1d) /\ Len(probed) = Len(l1d)
      /\ IsCacheOf(probed, Data)
  BY <1>3, <1>6, TouchAllRearranges DEF Rearranged, IsCacheOf
<1>8. memory' = memory
  BY <1>5, <1>6, PushKeepsMemory
<1>9. pushed \in Seq(LineOf(Data)) /\ Len(pushed) \in 1..NumberOfLines /\ pushed[1].first = addr
  <2>1. FetchedInFront(pushed, probed, memory, addr, Data)
    BY <1>4, <1>6, <1>7, PushedIs, DataCacheAssumption
  <2> QED
    BY <2>1, Zenon DEF FetchedInFront
<1>10. l1d' \in Seq(LineOf(Data)) /\ Rearranged(l1d', pushed) /\ Len(l1d') = Len(pushed)
  BY <1>5, <1>9, TouchAllRearranges DEF Rearranged
<1>11. CacheTypeOK'
  BY <1>5, <1>6, <1>8, <1>9, <1>10, LRUCacheAssumption DEF DInv, CacheTypeOK, IsCacheOf
<1>12. ASSUME ~disturbed'
       PROVE  DisjointLines(pushed) /\ Shows(pushed, memory, flat)
  <2>1. /\ ~disturbed /\ \A i \in 1..Len(probed) : ~Overlap(pushed[1], probed[i])
        /\ Evicts(probed) => ~Dirty(probed[Len(probed)])
    BY <1>5, <1>12
  <2>2. DisjointLines(l1d) /\ Shows(l1d, memory, flat)
    BY <2>1 DEF DInv, Consistent
  <2>3. DisjointLines(probed) /\ Shows(probed, memory, flat)
    BY <1>7, <2>2, RearrangedHolds, RearrangedShows, Zenon
  <2>4. \A a \in DOMAIN memory :
          Evicts(probed) /\ Holds(probed[Len(probed)], a) => Get(probed[Len(probed)], a) = memory[a]
    BY <1>6, <2>1 DEF Dirty
  <2> QED
    BY <1>4, <1>6, <1>7, <2>1, <2>3, <2>4, PushedShows, DataCacheAssumption
<1>13. Consistent'
  <2>1. ASSUME ~disturbed' PROVE DisjointLines(l1d') /\ Shows(l1d', memory, flat)
    BY <1>10, <1>12, <2>1, RearrangedHolds, RearrangedShows, Zenon
  <2> QED
    BY <1>5, <1>8, <2>1 DEF Consistent
<1>14. LoadsReadLastStore'
  <2> SUFFICES ASSUME ~disturbed' PROVE loaded'.got = loaded'.want
    BY DEF LoadsReadLastStore
  <2>1. \A k \in 1..Len(addrs) : addrs[k] \in Address /\ Contains(pushed, addrs[k])
    <3> SUFFICES ASSUME NEW k \in 1..size
                 PROVE  addrs[k] \in Address /\ Contains(pushed, addrs[k])
      BY <1>2
    <3>1. Holds(pushed[1], addrs[k])
      BY <1>2, <1>9, LRUCacheAssumption, DataCacheAssumption DEF Holds, Address
    <3>2. 1 \in 1..Len(pushed)
      BY <1>9, LRUCacheAssumption
    <3> QED
      BY <1>2, <3>1, <3>2 DEF Contains
  <2>2. Shows(pushed, memory, flat)
    BY <1>12
  <2>3. ReadValues(pushed, addrs) = [k \in 1..Len(addrs) |-> flat[addrs[k]]]
    <3>1. \A k \in 1..Len(addrs) : addrs[k] \in DOMAIN memory /\ Contains(pushed, addrs[k])
      BY <1>6, <2>1
    <3>2. pushed \in Seq(LineOf(Data))
      BY <1>9
    <3> QED
      BY <2>2, <3>1, <3>2, LoadShown, SMTT(30)
  <2> QED
    BY <1>5, <2>3
<1> QED
  BY <1>5, <1>11, <1>13, <1>14 DEF DInv, Restored, PanicOnlyAcrossLines

-----------------------------------------------------------------------------
(* Stores                                                                  *)

\* The changes of a store, and the lines that a lookup of them leaves.
LEMMA StoreStarts ==
  ASSUME DInv, NEW addr \in Address, NEW size \in Sizes, addr + size <= MemorySize,
         NEW changes \in [addr..addr + size - 1 -> Data],
         NEW lines \in Probed(l1d, changes)
  PROVE  /\ size \in 1..4 /\ addr \in Nat
         /\ DOMAIN changes \subseteq Address
         /\ Lowest(changes) = addr /\ addr \in DOMAIN changes
         /\ lines \in Seq(LineOf(Data)) /\ Rearranged(lines, l1d)
         /\ Len(lines) = Len(l1d) /\ IsCacheOf(lines, Data)
<1>1. size \in 1..4 /\ addr \in Nat
  BY DataCacheAssumption DEF Address
<1>2. addr \in DOMAIN changes /\ DOMAIN changes = addr..addr + size - 1
  BY <1>1
<1>3. DOMAIN changes \subseteq Address
  BY <1>1, <1>2, DataCacheAssumption DEF Address
<1>4. Lowest(changes) = addr
  <2>1. \A b \in DOMAIN changes : addr <= b
    BY <1>1, <1>2
  <2>2. \A a \in DOMAIN changes : (\A b \in DOMAIN changes : a <= b) => a = addr
    BY <1>1, <1>2, <2>1
  <2> QED
    BY <1>2, <2>1, <2>2 DEF Lowest
<1>5. lines \in Seq(LineOf(Data)) /\ Rearranged(lines, l1d)
  <2>1. PICK s \in Orders(DOMAIN changes) : lines = TouchAll(l1d, s)
    BY DEF Probed
  <2>2. l1d \in Seq(LineOf(Data))
    BY DEF DInv, CacheTypeOK, IsCacheOf
  <2> QED
    BY <2>1, <2>2, TouchAllRearranges, Zenon
<1>6. Len(lines) = Len(l1d) /\ IsCacheOf(lines, Data)
  BY <1>5 DEF Rearranged, DInv, CacheTypeOK, IsCacheOf
<1> QED
  BY <1>1, <1>2, <1>3, <1>4, <1>5, <1>6

\* The line at a place of the list starts at an address.
LEMMA LineStarts ==
  ASSUME NEW lines \in Seq(LineOf(Data)), NEW i \in 1..Len(lines)
  PROVE  lines[i] \in LineOf(Data) /\ lines[i].first \in Int
<1>1. lines[i] \in LineOf(Data)
  OBVIOUS
<1> QED
  BY <1>1 DEF LineOf

\* A store that is in the cache as a whole and runs over the end of a line continues
\* in a line that starts there.
LEMMA PanicIsAcrossLines ==
  ASSUME NEW lines \in Seq(LineOf(Data)), DisjointLines(lines),
         NEW addr \in Nat, NEW size \in 1..4,
         NEW changes, DOMAIN changes = addr..addr + size - 1, Lowest(changes) = addr,
         AllChangesIn(lines, changes), CrossesLine(lines, changes)
  PROVE  \E i, j \in 1..Len(lines) : lines[i].first + LineLength = lines[j].first
<1> USE LRUCacheAssumption
<1>1. PICK i : i = FirstWith(lines, addr)
  OBVIOUS
<1>2. i \in 1..Len(lines) /\ Holds(lines[i], addr)
  <2>1. Contains(lines, addr)
    BY DEF AllChangesIn
  <2> QED
    BY <1>1, <2>1, FirstWithFinds
<1>3. PICK b \in DOMAIN changes : ~Holds(lines[i], b)
  BY <1>1 DEF CrossesLine
<1>4. lines[i] \in LineOf(Data) /\ lines[i].first \in Int
  BY <1>2, LineStarts
<1> DEFINE c == lines[i].first + LineLength
<1>5. c \in DOMAIN changes /\ ~Holds(lines[i], c) /\ lines[i].first <= addr /\ addr < c
  BY <1>2, <1>3, <1>4 DEF Holds
<1>6. PICK j \in 1..Len(lines) : Holds(lines[j], c)
  BY <1>5 DEF AllChangesIn, Contains
<1>7. lines[j] \in LineOf(Data) /\ lines[j].first \in Int
  BY <1>6, LineStarts
<1>8. lines[j].first = c
  <2>1. CASE lines[j].first < c
    <3>1. Overlap(lines[i], lines[j])
      BY <1>4, <1>6, <1>7, <2>1 DEF Overlap, Holds
    <3>2. i # j
      BY <1>5, <1>6
    <3> QED
      BY <1>2, <3>1, <3>2 DEF DisjointLines
  <2>2. lines[j].first <= c
    BY <1>6 DEF Holds
  <2>3. c \in Int
    BY <1>4
  <2> HIDE DEF c
  <2> QED
    BY <1>7, <2>1, <2>2, <2>3
<1> QED
  BY <1>2, <1>6, <1>8

\* A store whose addresses are all in the cache.
LEMMA StoreHitKeeps ==
  ASSUME DInv, status = "running", NEW addr \in Address, NEW size \in Sizes,
         addr + size <= MemorySize, NEW changes \in [addr..addr + size - 1 -> Data],
         StoreHit(changes)
  PROVE  DInv'
<1>1. PICK lines \in Probed(l1d, changes) :
        IF CrossesLine(lines, changes)
        THEN l1d' = lines /\ status' = "panic" /\ UNCHANGED flat
        ELSE l1d' = Write(lines, changes) /\ Absorb(changes) /\ UNCHANGED status
  BY DEF StoreHit
<1>2. AllChangesIn(l1d, changes) /\ UNCHANGED <<memory, loaded, disturbed>>
  BY DEF StoreHit
<1>3. /\ size \in 1..4 /\ addr \in Nat /\ DOMAIN changes \subseteq Address
      /\ Lowest(changes) = addr /\ addr \in DOMAIN changes
      /\ lines \in Seq(LineOf(Data)) /\ Rearranged(lines, l1d)
      /\ Len(lines) = Len(l1d) /\ IsCacheOf(lines, Data)
  BY StoreStarts, Zenon
<1>4. AllChangesIn(lines, changes) /\ Contains(lines, addr)
  BY <1>2, <1>3, RearrangedHolds, Zenon DEF AllChangesIn
<1>5. ~disturbed => DisjointLines(lines) /\ Shows(lines, memory, flat)
  BY <1>3, RearrangedHolds, RearrangedShows, Zenon DEF DInv, Consistent
<1>6. /\ memory \in [Address -> Data] /\ flat \in [Address -> Data]
      /\ disturbed \in BOOLEAN /\ LoadsReadLastStore
      /\ DOMAIN memory = Address /\ Address \subseteq Int
  BY DEF DInv, CacheTypeOK, Address
<1>7. CASE CrossesLine(lines, changes)
  <2>1. l1d' = lines /\ status' = "panic" /\ flat' = flat
    BY <1>1, <1>7
  <2>2. ASSUME ~disturbed
        PROVE  \E i, j \in 1..Len(lines) : lines[i].first + LineLength = lines[j].first
    <3>1. DOMAIN changes = addr..addr + size - 1
      OBVIOUS
    <3> QED
      BY <1>3, <1>4, <1>5, <1>7, <2>2, <3>1, PanicIsAcrossLines, Zenon
  <2>3. PanicOnlyAcrossLines'
    BY <1>2, <2>1, <2>2 DEF PanicOnlyAcrossLines
  <2> QED
    BY <1>2, <1>3, <1>5, <1>6, <2>1, <2>3
    DEF DInv, CacheTypeOK, Consistent, LoadsReadLastStore, Restored
<1>8. CASE ~CrossesLine(lines, changes)
  <2>1. /\ l1d' = Write(lines, changes) /\ status' = status
        /\ flat' = [a \in Address |-> IF a \in DOMAIN changes THEN changes[a] ELSE flat[a]]
    BY <1>1, <1>8 DEF Absorb
  <2>2. \A a \in DOMAIN changes : changes[a] \in Data
    OBVIOUS
  <2>3. IsCacheOf(l1d', Data)
    BY <1>3, <2>1, <2>2, WriteKeepsLines, Zenon
  <2>4. flat' \in [Address -> Data]
    BY <1>6, <2>1, <2>2
  <2>5. ~disturbed => DisjointLines(l1d') /\ Shows(l1d', memory, flat')
    BY <1>3, <1>4, <1>5, <1>6, <1>8, <2>1, <2>2, WriteShows, Zenon
  <2> QED
    BY <1>2, <1>3, <1>6, <2>1, <2>3, <2>4, <2>5
    DEF DInv, CacheTypeOK, Consistent, LoadsReadLastStore, Restored,
        PanicOnlyAcrossLines
<1> QED
  BY <1>7, <1>8

\* A store that goes to the memory, if none of it is in the cache.
LEMMA StoreMissKeeps ==
  ASSUME DInv, status = "running", NEW addr \in Address, NEW size \in Sizes,
         addr + size <= MemorySize, NEW changes \in [addr..addr + size - 1 -> Data],
         StoreMiss(changes)
  PROVE  DInv'
<1>1. /\ l1d' \in Probed(l1d, changes)
      /\ memory' = [a \in Address |-> IF a \in DOMAIN changes THEN changes[a] ELSE memory[a]]
      /\ flat' = [a \in Address |-> IF a \in DOMAIN changes THEN changes[a] ELSE flat[a]]
      /\ disturbed' = (disturbed \/ \E a \in DOMAIN changes : Contains(l1d, a))
      /\ UNCHANGED <<loaded, status>>
  BY DEF StoreMiss, Absorb
<1>2. IsCacheOf(l1d', Data) /\ Rearranged(l1d', l1d)
  BY <1>1, StoreStarts, Zenon
<1>3. /\ memory \in [Address -> Data] /\ flat \in [Address -> Data]
      /\ disturbed \in BOOLEAN /\ DOMAIN memory = Address
  BY DEF DInv, CacheTypeOK
<1>4. CacheTypeOK'
  BY <1>1, <1>2, <1>3 DEF DInv, CacheTypeOK
<1>5. ASSUME ~disturbed' PROVE DisjointLines(l1d') /\ Shows(l1d', memory', flat')
  <2>1. ~disturbed /\ \A a \in DOMAIN changes : ~Contains(l1d, a)
    BY <1>1, <1>5
  <2>2. DisjointLines(l1d') /\ Shows(l1d', memory, flat)
    BY <1>2, <2>1, RearrangedHolds, RearrangedShows, Zenon DEF DInv, Consistent
  <2>3. \A a \in DOMAIN changes : ~Contains(l1d', a)
    BY <1>2, <2>1, RearrangedHolds, Zenon
  <2>4. Shows(l1d', memory', flat')
    <3>1. PICK lines, ram, m : lines = l1d' /\ ram = memory' /\ m = flat'
      OBVIOUS
    <3>2. /\ DOMAIN ram = DOMAIN memory
          /\ \A a \in DOMAIN memory :
               ram[a] = (IF a \in DOMAIN changes THEN changes[a] ELSE memory[a])
          /\ \A a \in DOMAIN memory :
               m[a] = (IF a \in DOMAIN changes THEN changes[a] ELSE flat[a])
      BY <1>1, <1>3, <3>1
    <3>3. Shows(lines, memory, flat) /\ \A a \in DOMAIN changes : ~Contains(lines, a)
      BY <2>2, <2>3, <3>1
    <3>4. Shows(lines, ram, m)
      BY <3>2, <3>3, StoreShows, Zenon
    <3> QED
      BY <3>1, <3>4
  <2> QED
    BY <2>2, <2>4
<1> QED
  BY <1>1, <1>4, <1>5
  DEF DInv, Consistent, LoadsReadLastStore, Restored, PanicOnlyAcrossLines

\* The final flush.
LEMMA FlushKeeps ==
  ASSUME DInv, Flush
  PROVE  DInv'
<1>1. /\ memory' = Flushed(l1d, memory) /\ status' = "done"
      /\ UNCHANGED <<l1d, flat, loaded, disturbed>>
  BY DEF Flush
<1>2. CacheTypeOK
  BY DEF DInv
<1>3. memory' \in [Address -> Data]
  <2>1. l1d \in Seq(LineOf(Data)) /\ DOMAIN memory = Address /\ Address \subseteq Int
        /\ memory \in [DOMAIN memory -> Data]
    BY <1>2 DEF CacheTypeOK, IsCacheOf, Address
  <2> QED
    BY <1>1, <2>1, FlushKeepsValues
<1>4. ASSUME ~disturbed PROVE memory' = flat /\ DisjointLines(l1d) /\ Shows(l1d, flat, flat)
  <2>1. l1d \in Seq(LineOf(Data)) /\ DOMAIN memory = Address /\ Address \subseteq Int
        /\ flat = [a \in DOMAIN memory |-> flat[a]] /\ DOMAIN flat = Address
    BY <1>2 DEF CacheTypeOK, IsCacheOf, Address
  <2>2. DisjointLines(l1d) /\ Shows(l1d, memory, flat)
    BY <1>4 DEF DInv, Consistent
  <2>3. Flushed(l1d, memory) = flat
    BY <2>1, <2>2, FlushShown
  <2>4. Shows(l1d, flat, flat)
    BY <2>1, <2>2, Zenon DEF Shows
  <2> QED
    BY <1>1, <2>2, <2>3, <2>4
<1> QED
  BY <1>1, <1>2, <1>3, <1>4
  DEF DInv, CacheTypeOK, Consistent, LoadsReadLastStore, Restored,
      PanicOnlyAcrossLines

-----------------------------------------------------------------------------
\* Whatever the client does, lines and memory show the flat memory until the cache
\* is disturbed (mmu.go).
THEOREM CacheInvariant == Spec => []DInv
<1>1. Init => DInv
  <2> SUFFICES ASSUME Init PROVE DInv
    OBVIOUS
  <2>1. l1d = << >> /\ Len(l1d) = 0 /\ flat = memory /\ loaded = NoLoad /\ status = "running"
        /\ disturbed = FALSE
    BY DEF Init
  <2>2. memory \in [Address -> Data]
    BY DataCacheAssumption DEF Init
  <2>3. DisjointLines(l1d) /\ Shows(l1d, memory, flat)
    BY <2>1 DEF DisjointLines, Shows
  <2>4. CacheTypeOK
    <3>1. IsCacheOf(l1d, Data)
      BY <2>1, LRUCacheAssumption DEF IsCacheOf
    <3>2. disturbed \in BOOLEAN /\ status \in {"running", "done", "panic"}
      BY <2>1
    <3> QED
      BY <2>1, <2>2, <3>1, <3>2, Zenon DEF CacheTypeOK
  <2>5. loaded.got = loaded.want
    BY <2>1 DEF NoLoad
  <2> QED
    BY <2>1, <2>3, <2>4, <2>5
    DEF DInv, Consistent, LoadsReadLastStore, Restored, PanicOnlyAcrossLines
<1>2. DInv /\ [Next]_vars => DInv'
  <2> SUFFICES ASSUME DInv, [Next]_vars PROVE DInv'
    OBVIOUS
  <2>1. CASE Load
    BY <2>1, HitKeeps, MissKeeps DEF Load
  <2>2. CASE Store
    BY <2>2, StoreHitKeeps, StoreMissKeeps DEF Store
  <2>3. CASE Flush
    BY <2>3, FlushKeeps
  <2>4. CASE UNCHANGED vars
    BY <2>4 DEF vars, DInv, CacheTypeOK, Consistent, Shows, DisjointLines,
       LoadsReadLastStore, Restored, PanicOnlyAcrossLines
  <2> QED
    BY <2>1, <2>2, <2>3, <2>4 DEF Next, Ended
<1> QED
  BY <1>1, <1>2, PTL DEF Spec

\* The memory behind the cache is the memory of a machine without one, and the final
\* flush leaves it in Context.Memory, until the cache is disturbed (mmu.go).
THEOREM CacheIsInvisible == Spec => []Invisible
<1>1. DInv => Invisible
  <2> SUFFICES ASSUME DInv, ~disturbed PROVE View(l1d, memory) = flat
    BY DEF Invisible, DInv, Restored
  <2>1. l1d \in Seq(LineOf(Data)) /\ DOMAIN memory = Address
        /\ flat = [a \in DOMAIN memory |-> flat[a]]
    BY DEF DInv, CacheTypeOK, IsCacheOf
  <2>2. Shows(l1d, memory, flat)
    BY DEF DInv, Consistent
  <2> QED
    BY <2>1, <2>2, ViewShown
<1> QED
  BY <1>1, CacheInvariant, PTL

\* Until the cache is disturbed, a load returns what was last stored (mmu.go).
THEOREM LoadsAreRight == Spec => []LoadsReadLastStore
<1>1. DInv => LoadsReadLastStore
  BY DEF DInv
<1> QED
  BY <1>1, CacheInvariant, PTL

\* LRUCache.Write is given data that go past the end of a line only where the next
\* line starts right behind it (comp/cache.go).
THEOREM WritePanicsOnlyAcrossLines == Spec => []PanicOnlyAcrossLines
<1>1. DInv => PanicOnlyAcrossLines
  BY DEF DInv
<1> QED
  BY <1>1, CacheInvariant, PTL
=============================================================================
