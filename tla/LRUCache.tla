------------------------------ MODULE LRUCache ------------------------------
(***************************************************************************)
(* comp.LRUCache, the cache both levels of every MVP use: a list of lines, *)
(* most recently used first.  A line is LineLength consecutive addresses   *)
(* starting at the address that was missing: lines are not aligned, and    *)
(* nothing keeps two of them from overlapping.                             *)
(*                                                                         *)
(* The operators take and return the list of lines; the processors keep it *)
(* in a variable.  They are defined pointwise, without recursion.          *)
(***************************************************************************)
EXTENDS Integers, Sequences

CONSTANTS
  LineLength,    \* addresses of a line (64)
  NumberOfLines  \* lines of the cache (cacheLength / lineLength, 16)

ASSUME LRUCacheAssumption ==
  LineLength \in Nat \ {0} /\ NumberOfLines \in Nat \ {0}

\* A line: Boundary is [first, first + LineLength).
NewLine(addr, data) == [first |-> addr, data |-> data]
HoldsShort(line, addr) ==   \* faulty
  line.first <= addr /\ addr < line.first + LineLength - 1
Holds(line, addr) == line.first <= addr /\ addr < line.first + LineLength
Get(line, addr) == line.data[addr - line.first]

Contains(lines, addr) == \E i \in 1..Len(lines) : Holds(lines[i], addr)

\* The line a search finds: the first one that holds the address.
FirstWith(lines, addr) ==
  CHOOSE i \in 1..Len(lines) :
    Holds(lines[i], addr) /\ \A j \in 1..i - 1 : ~Holds(lines[j], addr)

\* LRUCache.Get: the value found ...
Value(lines, addr) == Get(lines[FirstWith(lines, addr)], addr)

\* Faulty: a queue; and a front line overwritten by the line found.
PromoteNothing(lines, addr) == lines
PromoteOverwriting(lines, addr) ==
  IF ~Contains(lines, addr) THEN lines
  ELSE [lines EXCEPT ![1] = lines[FirstWith(lines, addr)]]

\* ... and the list afterwards, with the line found in front.
Promote(lines, addr) ==
  IF ~Contains(lines, addr) THEN lines
  ELSE LET i == FirstWith(lines, addr)
       IN [k \in 1..Len(lines) |->
             IF k = 1 THEN lines[i] ELSE IF k <= i THEN lines[k - 1] ELSE lines[k]]

\* LRUCache.Write sets consecutive bytes, from the lowest changed address on,
\* in the line that holds that address.  Data that goes past the end of the
\* line is an index out of range: see CrossesLine.  changes maps addresses to
\* bytes.
Lowest(changes) == CHOOSE a \in DOMAIN changes : \A b \in DOMAIN changes : a <= b
CrossesLineEarly(lines, changes) ==   \* faulty
  \E a \in DOMAIN changes : ~HoldsShort(lines[FirstWith(lines, Lowest(changes))], a)
CrossesLine(lines, changes) ==
  \E a \in DOMAIN changes : ~Holds(lines[FirstWith(lines, Lowest(changes))], a)
WriteFromStart(lines, changes) ==   \* faulty: at the start of the line
  [lines EXCEPT ![FirstWith(lines, Lowest(changes))].data =
     [k \in 0..LineLength - 1 |->
        IF Lowest(changes) + k \in DOMAIN changes THEN changes[Lowest(changes) + k]
        ELSE @[k]]]
Write(lines, changes) ==
  LET i == FirstWith(lines, Lowest(changes))
      first == lines[i].first
  IN [lines EXCEPT ![i].data =
        [k \in 0..LineLength - 1 |->
           IF first + k \in DOMAIN changes THEN changes[first + k] ELSE @[k]]]

PushLine(lines, addr, data) ==
  [k \in 1..(IF Len(lines) < NumberOfLines THEN Len(lines) + 1 ELSE NumberOfLines) |->
     IF k = 1 THEN NewLine(addr, data) ELSE lines[k - 1]]

\* PushLine answers only when it has cut the list: with the last line that is
\* left, not with the one cut off.  Its caller looks only for an answer.
Evicts(lines) == Len(lines) >= NumberOfLines

Overlap(l, m) == l.first < m.first + LineLength /\ m.first < l.first + LineLength
=============================================================================
