----------------------------- MODULE LineCache -----------------------------
(***************************************************************************)
(* comp.LRUCache on its own: a user gets and pushes lines in any order.    *)
(* The history variable `age' counts, for each cached line, the others     *)
(* used since its last use, as a textbook cache does with counters: a line *)
(* used becomes the youngest, and the oldest line is the victim.           *)
(***************************************************************************)
EXTENDS LRUCache

CONSTANT Address  \* the addresses the user asks for

ASSUME LineCacheAssumption == Address \subseteq Nat

VARIABLES
  lines,    \* LRUCache.lines
  pushes,   \* lines pushed so far; the data of a line is its number
  age,      \* history: by the number of a cached line, the lines used since
  victim    \* history: the number of the line cut off last, 0 if none

vars == <<lines, pushes, age, victim>>

MaxPushes == NumberOfLines + 2

Constant(n) == [k \in 0..LineLength - 1 |-> n]
Number(line) == line.data[0]
Used(n) ==
  [m \in DOMAIN age |->
     IF m = n THEN 0 ELSE IF age[m] < age[n] THEN age[m] + 1 ELSE age[m]]
Eldest == CHOOSE m \in DOMAIN age : \A other \in DOMAIN age : age[other] <= age[m]

Init ==
  /\ lines = << >> /\ pushes = 0
  /\ age = << >> /\ victim = 0

GetLine(addr) ==
  /\ lines' = Promote(lines, addr)
  /\ age' = IF Contains(lines, addr)
            THEN Used(Number(lines[FirstWith(lines, addr)])) ELSE age
  /\ UNCHANGED <<pushes, victim>>

\* The mmu pushes a line only for an address it has just missed.
Push(addr) ==
  /\ ~Contains(lines, addr) /\ pushes < MaxPushes
  /\ pushes' = pushes + 1
  /\ lines' = PushLine(lines, addr, Constant(pushes + 1))
  /\ LET kept == IF Evicts(lines) THEN DOMAIN age \ {Eldest} ELSE DOMAIN age
     IN age' = [m \in kept \cup {pushes + 1} |-> IF m = pushes + 1 THEN 0 ELSE age[m] + 1]
  /\ victim' = IF Evicts(lines) THEN Eldest ELSE victim

Next == \E addr \in Address : GetLine(addr) \/ Push(addr)
Spec == Init /\ [][Next]_vars

\* The list has the cached lines, each once, ordered by last use, so the line
\* that PushLine cuts off is the least recently used one.
OrderedByUse ==
  /\ DOMAIN age = {Number(lines[i]) : i \in 1..Len(lines)}
  /\ \A i \in 1..Len(lines) : age[Number(lines[i])] = i - 1

\* A line that is not the victim survives a push (the cache loses one line at
\* most), and a get loses none.
OnlyVictimLeaves ==
  [][\A i \in 1..Len(lines) :
       (\E j \in 1..Len(lines') : lines'[j] = lines[i])
       \/ (victim' # victim /\ Number(lines[i]) = victim')]_vars
=============================================================================
