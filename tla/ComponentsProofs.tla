-------------------------- MODULE ComponentsProofs --------------------------
(***************************************************************************)
(* What the storage components that several processors share promise.  For *)
(* every line length, number of lines and set of addresses, comp.LRUCache  *)
(* is a least-recently-used cache.  For any lengths and any number of      *)
(* elements, the pending list and its buses lose, double and overtake      *)
(* nothing, the list and the bus in front of the execute units keep to     *)
(* their lengths, and a loop over the iterator sees the whole list         *)
(* although it removes elements from it on the way.                        *)
(***************************************************************************)
EXTENDS LineCache, PendingQueue, OperatorProofs, BufferedBusProofs

-----------------------------------------------------------------------------
(* The line cache                                                          *)

Line == [first : Nat, data : [0..LineLength - 1 -> Nat]]

\* The lines have different numbers, all of them pushed before, and the line cut
\* off last is not among them.
LinesInv ==
  /\ lines \in Seq(Line) /\ Len(lines) <= NumberOfLines
  /\ pushes \in Nat /\ victim \in Nat
  /\ age \in [{Number(lines[i]) : i \in 1..Len(lines)} -> Nat]
  /\ \A i \in 1..Len(lines) :
       Number(lines[i]) \in 1..pushes /\ Number(lines[i]) # victim
  /\ \A i, j \in 1..Len(lines) : Number(lines[i]) = Number(lines[j]) => i = j
  /\ victim <= pushes
LInv == LinesInv /\ OrderedByUse

\* A get moves the line found in front of those used since its last use; the
\* counters say the same.
LEMMA GetKeepsOrder ==
  ASSUME LInv, NEW addr \in Address, GetLine(addr)
  PROVE  LInv'
<1> USE LRUCacheAssumption, LineCacheAssumption
<1>1. CASE ~Contains(lines, addr)
  <2>1. UNCHANGED vars
    BY <1>1 DEF GetLine, Promote, vars
  <2> QED
    BY <2>1 DEF LInv, LinesInv, OrderedByUse, vars
<1>2. CASE Contains(lines, addr)
  <2> DEFINE n == Len(lines)
             i == FirstWith(lines, addr)
  <2>1. lines \in Seq(Line) /\ n \in Nat /\ n <= NumberOfLines
    BY DEF LInv, LinesInv
  <2>2. i \in 1..n
    BY <1>2, <2>1, FirstWithFinds
  <2>3. lines' = [k \in 1..n |->
                    IF k = 1 THEN lines[i] ELSE IF k <= i THEN lines[k - 1] ELSE lines[k]]
    BY <1>2 DEF GetLine, Promote
  <2>4. /\ lines' \in Seq(Line)
        /\ Rearranged(lines', lines)
    BY <2>1, PromoteRearranges, Zenon DEF GetLine
  <2>5. Len(lines') = n
    BY <2>4 DEF Rearranged
  <2>6. /\ \A k \in 1..n : \E j \in 1..n : lines'[k] = lines[j]
        /\ \A j \in 1..n : \E k \in 1..n : lines'[k] = lines[j]
    <3>1. /\ \A k \in 1..Len(lines') : \E j \in 1..Len(lines) : lines'[k] = lines[j]
          /\ \A j \in 1..Len(lines) : \E k \in 1..Len(lines') : lines'[k] = lines[j]
      BY <2>4, RearrangedHolds
    <3> QED
      BY <2>5, <3>1, Zenon
  <2>7. age' = Used(Number(lines[i])) /\ pushes' = pushes /\ victim' = victim
    BY <1>2 DEF GetLine
  <2>8. /\ \A k \in 1..n : Number(lines[k]) \in DOMAIN age /\ age[Number(lines[k])] = k - 1
        /\ DOMAIN age = {Number(lines[k]) : k \in 1..n}
        /\ age \in [{Number(lines[k]) : k \in 1..n} -> Nat]
    BY DEF LInv, LinesInv, OrderedByUse
  <2>9. \A k \in 1..n : age'[Number(lines[k])] =
           IF k = i THEN 0 ELSE IF k < i THEN k ELSE k - 1
    <3> SUFFICES ASSUME NEW k \in 1..n
                 PROVE  age'[Number(lines[k])] = IF k = i THEN 0 ELSE IF k < i THEN k ELSE k - 1
      OBVIOUS
    <3>1. Number(lines[k]) = Number(lines[i]) <=> k = i
      BY <2>2 DEF LInv, LinesInv
    <3> DEFINE m == Number(lines[k])
               used == Number(lines[i])
    <3>2. m \in DOMAIN age /\ age[m] = k - 1 /\ age[used] = i - 1
      BY <2>2, <2>8
    <3>3. age'[m] = IF m = used THEN 0 ELSE IF age[m] < age[used] THEN age[m] + 1 ELSE age[m]
      <4> HIDE DEF m, used
      <4> QED
        BY <2>7, <3>2, Zenon DEF Used, used
    <3>4. k \in Nat /\ i \in Nat /\ (m = used <=> k = i)
      BY <2>1, <2>2, <3>1
    <3> HIDE DEF i, n, m, used
    <3> QED
      BY <3>2, <3>3, <3>4 DEF m
  <2>10. {Number(lines'[k]) : k \in 1..n} = {Number(lines[k]) : k \in 1..n}
    BY <2>6
  <2>11. DOMAIN age' = DOMAIN age /\ age' \in [DOMAIN age -> Nat]
    <3>1. PICK used : used = Number(lines[i])
      OBVIOUS
    <3>2. age \in [DOMAIN age -> Nat] /\ age[used] \in Nat
      BY <2>2, <2>8, <3>1
    <3>3. age' = Used(used)
      BY <2>7, <3>1
    <3> QED
      BY <3>2, <3>3 DEF Used
  <2>12. OrderedByUse'
    <3>1. \A k \in 1..n : age'[Number(lines'[k])] = k - 1
      <4> HIDE DEF i, n
      <4> QED
        BY <2>1, <2>2, <2>3, <2>9
    <3> QED
      BY <2>5, <2>8, <2>10, <2>11, <3>1 DEF OrderedByUse
  <2>13. LinesInv'
    <3>1. \A k \in 1..n : Number(lines'[k]) \in 1..pushes /\ Number(lines'[k]) # victim
      BY <2>6 DEF LInv, LinesInv
    <3>2. \A j, k \in 1..n : Number(lines'[j]) = Number(lines'[k]) => j = k
      <4> SUFFICES ASSUME NEW j \in 1..n, NEW k \in 1..n, Number(lines'[j]) = Number(lines'[k])
                   PROVE  j = k
        OBVIOUS
      <4>1. age'[Number(lines'[j])] = j - 1 /\ age'[Number(lines'[k])] = k - 1
        BY <2>5, <2>12 DEF OrderedByUse
      <4> QED
        BY <2>1, <4>1
    <3> QED
      BY <2>1, <2>4, <2>5, <2>7, <2>8, <2>10, <2>11, <3>1, <3>2 DEF LInv, LinesInv
  <2> QED
    BY <2>12, <2>13 DEF LInv
<1> QED
  BY <1>1, <1>2

\* The counters name the line at the end of a full list as the victim.
LEMMA EldestIsLast ==
  ASSUME LInv, Evicts(lines)
  PROVE  /\ Len(lines) = NumberOfLines
         /\ Eldest = Number(lines[NumberOfLines])
<1> DEFINE n == NumberOfLines
<1>1. n \in Nat \ {0} /\ Len(lines) = n
  BY LRUCacheAssumption DEF LInv, LinesInv, Evicts
<1>2. /\ DOMAIN age = {Number(lines[i]) : i \in 1..n}
      /\ \A i \in 1..n : age[Number(lines[i])] = i - 1
  BY <1>1 DEF LInv, OrderedByUse
<1>3. Number(lines[n]) \in DOMAIN age /\ age[Number(lines[n])] = n - 1
  BY <1>1, <1>2
<1>4. \A other \in DOMAIN age : age[other] <= n - 1
  BY <1>1, <1>2
<1>5. Eldest \in DOMAIN age /\ \A other \in DOMAIN age : age[other] <= age[Eldest]
  BY <1>3, <1>4 DEF Eldest
<1>6. PICK j \in 1..n : Eldest = Number(lines[j])
  BY <1>2, <1>5, Zenon
<1>7. age[Eldest] = j - 1 /\ n - 1 <= age[Eldest]
  BY <1>2, <1>3, <1>5, <1>6
<1>8. j = n
  BY <1>1, <1>7
<1> QED
  BY <1>1, <1>6, <1>8

\* A push puts the new line in front and moves all others back by one place; of a
\* full list it cuts off the last.
LEMMA PushKeepsOrder ==
  ASSUME LInv, NEW addr \in Address, Push(addr)
  PROVE  /\ LInv'
         /\ \A i \in 1..Len(lines) :
              \/ \E j \in 1..Len(lines') : lines'[j] = lines[i]
              \/ victim' # victim /\ Number(lines[i]) = victim'
<1> USE LRUCacheAssumption, LineCacheAssumption
<1> DEFINE n == Len(lines)
           kept == IF Evicts(lines) THEN NumberOfLines - 1 ELSE n
<1>1. /\ lines \in Seq(Line) /\ n \in Nat /\ n <= NumberOfLines
      /\ pushes \in Nat /\ victim \in Nat /\ victim <= pushes
      /\ \A i \in 1..n : Number(lines[i]) \in 1..pushes /\ Number(lines[i]) # victim
      /\ \A i, j \in 1..n : Number(lines[i]) = Number(lines[j]) => i = j
  BY DEF LInv, LinesInv
<1>2. /\ DOMAIN age = {Number(lines[i]) : i \in 1..n}
      /\ \A i \in 1..n : age[Number(lines[i])] = i - 1
      /\ age \in [DOMAIN age -> Nat]
  BY DEF LInv, LinesInv, OrderedByUse
<1>3. kept \in Nat /\ kept <= n /\ kept + 1 <= NumberOfLines
  BY <1>1 DEF Evicts
<1> DEFINE new == NewLine(addr, Constant(pushes + 1))
<1>4. lines' = [k \in 1..kept + 1 |-> IF k = 1 THEN new ELSE lines[k - 1]]
  BY <1>1 DEF Push, PushLine, Evicts
<1>5. new \in Line /\ Number(new) = pushes + 1 /\ pushes' = pushes + 1
  BY <1>1 DEF Line, NewLine, Number, Constant, Push
<1>6. lines' \in [1..kept + 1 -> Line]
  <2> HIDE DEF kept, new
  <2> QED
    BY <1>1, <1>3, <1>4, <1>5
<1>7. lines' \in Seq(Line) /\ Len(lines') = kept + 1
  BY <1>3, <1>6
<1>8. /\ lines'[1] = new
      /\ \A k \in 1..kept : lines'[k + 1] = lines[k]
      /\ \A k \in 2..kept + 1 : k - 1 \in 1..kept /\ lines'[k] = lines[k - 1]
  <2> HIDE DEF kept, new
  <2> QED
    BY <1>1, <1>3, <1>4
\* The numbers that stay are those of the first lines.
<1>9. (IF Evicts(lines) THEN DOMAIN age \ {Eldest} ELSE DOMAIN age)
        = {Number(lines[i]) : i \in 1..kept}
  <2>1. CASE Evicts(lines)
    <3>1. n = NumberOfLines /\ Eldest = Number(lines[n])
      BY <2>1, EldestIsLast
    <3>2. kept = n - 1 /\ n \in Nat /\ n > 0
      BY <2>1, <3>1, <1>1
    <3>3. \A i \in 1..n : Number(lines[i]) = Eldest <=> i = n
      BY <1>1, <3>1, <3>2
    <3>4. \A i \in 1..n : i = n \/ i \in 1..n - 1
      BY <3>2
    <3> HIDE DEF n, kept
    <3>5. \A m : (m \in DOMAIN age /\ m # Eldest) <=> \E i \in 1..n - 1 : m = Number(lines[i])
      BY <1>2, <3>2, <3>3, <3>4
    <3> QED
      BY <2>1, <3>2, <3>5
  <2>2. CASE ~Evicts(lines)
    BY <1>2, <2>2
  <2> QED
    BY <2>1, <2>2
<1> DEFINE stays == {Number(lines[i]) : i \in 1..kept}
<1>10. age' = [m \in stays \cup {pushes + 1} |-> IF m = pushes + 1 THEN 0 ELSE age[m] + 1]
  BY <1>9 DEF Push
<1>11. victim' = IF Evicts(lines) THEN Number(lines[n]) ELSE victim
  BY EldestIsLast DEF Push
<1>12. {Number(lines'[k]) : k \in 1..Len(lines')} = stays \cup {pushes + 1}
  <2> HIDE DEF kept, new
  <2>1. \A m : (\E k \in 1..kept + 1 : m = Number(lines'[k]))
                 <=> (m = pushes + 1 \/ \E i \in 1..kept : m = Number(lines[i]))
    <3> TAKE m
    <3>1. 1 \in 1..kept + 1 /\ \A k \in 1..kept + 1 : k = 1 \/ k \in 2..kept + 1
      BY <1>3
    <3>2. \A i \in 1..kept : i + 1 \in 1..kept + 1
      BY <1>3
    <3> QED
      BY <1>5, <1>8, <3>1, <3>2, Zenon
  <2> QED
    BY <1>7, <2>1
<1>13. \A i \in 1..kept : Number(lines[i]) \in stays /\ Number(lines[i]) # pushes + 1
  BY <1>1, <1>3
<1>14. OrderedByUse'
  <2>1. \A k \in 1..kept + 1 : age'[Number(lines'[k])] = k - 1
    <3>1. age'[Number(lines'[1])] = 0
      <4> HIDE DEF kept, new, stays
      <4> QED
        BY <1>5, <1>8, <1>10
    <3>2. ASSUME NEW k \in 2..kept + 1 PROVE age'[Number(lines'[k])] = k - 1
      <4>1. k - 1 \in 1..kept /\ k - 1 \in 1..n /\ k \in Nat /\ lines'[k] = lines[k - 1]
        BY <1>3, <1>8, <3>2
      <4>2. age[Number(lines[k - 1])] = k - 2
        BY <1>2, <4>1
      <4>3. PICK m : m = Number(lines[k - 1])
        OBVIOUS
      <4>4. m \in stays /\ m # pushes + 1
        BY <1>13, <4>1, <4>3
      <4> HIDE DEF stays
      <4>5. age'[m] = age[m] + 1
        BY <1>10, <4>4
      <4> QED
        BY <4>1, <4>2, <4>3, <4>5
    <3> QED
      BY <1>3, <3>1, <3>2
  <2>2. DOMAIN age' = stays \cup {pushes + 1}
    BY <1>10
  <2> QED
    BY <1>7, <1>12, <2>1, <2>2, Zenon DEF OrderedByUse
<1>15. LinesInv'
  <2>1. \A k \in 1..kept + 1 : Number(lines'[k]) \in 1..pushes'
    <3>1. pushes + 1 \in 1..pushes' /\ \A m \in 1..pushes : m \in 1..pushes'
      BY <1>1, <1>5
    <3>2. ASSUME NEW k \in 2..kept + 1 PROVE Number(lines'[k]) \in 1..pushes
      <4>1. k - 1 \in 1..n /\ lines'[k] = lines[k - 1]
        BY <1>3, <1>8, <3>2
      <4> QED
        BY <1>1, <4>1
    <3>3. ASSUME NEW k \in 1..kept + 1 PROVE k = 1 \/ k \in 2..kept + 1
      BY <1>3, <3>3
    <3>4. Number(lines'[1]) = pushes + 1
      BY <1>5, <1>8
    <3> QED
      BY <3>1, <3>2, <3>3, <3>4, Zenon
  <2>2. victim' \in Nat /\ victim' <= pushes' /\ victim' # pushes + 1
    BY <1>1, <1>3, <1>5, <1>11 DEF Evicts
  <2>3. \A i \in 1..kept : Number(lines[i]) # victim'
    BY <1>1, <1>3, <1>11 DEF Evicts
  <2>4. \A k \in 1..kept + 1 : Number(lines'[k]) # victim'
    <3>1. Number(lines'[1]) # victim'
      BY <1>5, <1>8, <2>2
    <3>2. ASSUME NEW k \in 2..kept + 1 PROVE Number(lines'[k]) # victim'
      <4>1. k - 1 \in 1..kept /\ lines'[k] = lines[k - 1]
        BY <1>8, <3>2
      <4> QED
        BY <2>3, <4>1, Zenon
    <3>3. ASSUME NEW k \in 1..kept + 1 PROVE k = 1 \/ k \in 2..kept + 1
      BY <1>3, <3>3
    <3> QED
      BY <3>1, <3>2, <3>3, Zenon
  <2>5. ASSUME NEW j \in 1..Len(lines'), NEW k \in 1..Len(lines'),
               Number(lines'[j]) = Number(lines'[k])
        PROVE  j = k
    <3>1. age'[Number(lines'[j])] = j - 1 /\ age'[Number(lines'[k])] = k - 1
      BY <1>14 DEF OrderedByUse
    <3> QED
      BY <1>3, <1>7, <2>5, <3>1
  <2>6. age' \in [stays \cup {pushes + 1} -> Nat]
    <3>1. \A m \in stays : age[m] \in Nat
      BY <1>1, <1>2, <1>3
    <3> HIDE DEF stays
    <3> QED
      BY <1>10, <3>1
  <2>7. age' \in [{Number(lines'[k]) : k \in 1..Len(lines')} -> Nat]
    BY <1>12, <2>6
  <2> QED
    BY <1>1, <1>3, <1>5, <1>7, <2>1, <2>2, <2>4, <2>5, <2>7 DEF LinesInv
<1>16. ASSUME NEW i \in 1..n
       PROVE  \/ \E j \in 1..Len(lines') : lines'[j] = lines[i]
              \/ victim' # victim /\ Number(lines[i]) = victim'
  <2>1. CASE i \in 1..kept
    BY <1>3, <1>7, <1>8, <2>1
  <2>2. CASE i \notin 1..kept
    <3>1. Evicts(lines) /\ i = n
      BY <1>1, <1>3, <1>16, <2>2 DEF Evicts
    <3> QED
      BY <1>1, <1>11, <1>16, <3>1
  <2> QED
    BY <2>1, <2>2
<1> QED
  BY <1>14, <1>15, <1>16 DEF LInv

-----------------------------------------------------------------------------
\* A get loses no line.
LEMMA GetLosesNothing ==
  ASSUME LInv, NEW addr \in Address, GetLine(addr)
  PROVE  \A i \in 1..Len(lines) : \E j \in 1..Len(lines') : lines'[j] = lines[i]
<1>1. lines \in Seq(Line)
  BY DEF LInv, LinesInv
<1>2. Rearranged(lines', lines)
  BY <1>1, PromoteRearranges, Zenon DEF GetLine
<1> QED
  BY <1>2, RearrangedHolds

\* Whatever the user asks for, the numbers on the list stay different and in the
\* order of the counters (LRUCache.Get, LRUCache.PushLine).
THEOREM CacheInvariant == Spec => []LInv
<1>1. Init => LInv
  <2> SUFFICES ASSUME Init PROVE LInv
    OBVIOUS
  <2>1. lines = << >> /\ age = << >> /\ pushes = 0 /\ victim = 0
    BY DEF Init
  <2>2. Len(lines) = 0 /\ lines \in Seq(Line) /\ DOMAIN age = {}
    BY <2>1
  <2>3. {Number(lines[i]) : i \in 1..Len(lines)} = {}
    BY <2>2
  <2> QED
    BY <2>1, <2>2, <2>3, LRUCacheAssumption DEF LInv, LinesInv, OrderedByUse
<1>2. LInv /\ [Next]_vars => LInv'
  <2> SUFFICES ASSUME LInv, [Next]_vars PROVE LInv'
    OBVIOUS
  <2>1. CASE Next
    BY <2>1, GetKeepsOrder, PushKeepsOrder DEF Next
  <2>2. CASE UNCHANGED vars
    BY <2>2 DEF vars, LInv, LinesInv, OrderedByUse
  <2> QED
    BY <2>1, <2>2
<1> QED
  BY <1>1, <1>2, PTL DEF Spec

\* The cached lines are ordered by last use, so that PushLine cuts off the least
\* recently used one (comp/cache.go).
THEOREM LeastRecentlyUsed == Spec => []OrderedByUse
<1>1. LInv => OrderedByUse
  BY DEF LInv
<1> QED
  BY <1>1, CacheInvariant, PTL

\* No operation of the cache loses a line but PushLine, and that one only the
\* least recently used line of a full cache (comp/cache.go).
THEOREM OnlyVictimIsLost == Spec => OnlyVictimLeaves
<1>1. LInv /\ [Next]_vars =>
        [\A i \in 1..Len(lines) :
           (\E j \in 1..Len(lines') : lines'[j] = lines[i])
           \/ (victim' # victim /\ Number(lines[i]) = victim')]_vars
  BY GetLosesNothing, PushKeepsOrder DEF Next
<1> QED
  BY <1>1, CacheInvariant, PTL DEF Spec, OnlyVictimLeaves

-----------------------------------------------------------------------------
(* The pending list and its buses                                          *)

Members(s) == {s[i] : i \in DOMAIN s}
Distinct(s) == \A i, j \in DOMAIN s : s[i] = s[j] => i = j
Increasing(s) == \A i \in DOMAIN s : \A j \in 1..i - 1 : s[j] < s[i]

\* Each of the numbers up to count is in one place: on the bus in front of the
\* list, on the list, on the bus behind it, or done.  The first two keep the
\* order of the program.
Placed(in, onList, out, done, count) ==
  /\ Increasing(in) /\ Increasing(onList) /\ Distinct(out)
  /\ \A x \in Members(onList), y \in Members(in) : x < y
  /\ Members(in) \cap Members(out) = {} /\ Members(onList) \cap Members(out) = {}
  /\ Members(in) \cap done = {} /\ Members(onList) \cap done = {}
  /\ Members(out) \cap done = {}
  /\ Members(in) \cup Members(onList) \cup Members(out) \cup done = 1..count

\* The goroutine w has sent the first of the elements ahead of the loop that it
\* feeds, and has the next of them in its hands.
Sends(w, ahead) ==
  LET sent == Len(w.channel)
      taken == IF w.current = 0 THEN sent ELSE sent + 1
  IN /\ taken <= Len(ahead)
     /\ \A i \in 1..sent : w.channel[i] = ahead[i]
     /\ w.current # 0 => w.current = ahead[taken]
     /\ w.next = IF taken < Len(ahead) THEN ahead[taken + 1] ELSE 0
     /\ w.closed => sent = Len(ahead)

WalkType ==
  [next : Nat, current : Nat, channel : Seq(Nat), capacity : Nat, closed : BOOLEAN]

QueueTypeOK ==
  /\ place \in {"decode", "control", "range", "take", "execute"}
  /\ inBus \in BusOf(Nat) /\ outBus \in BusOf(Nat)
  /\ list \in Seq(Nat) /\ walk \in WalkType /\ added \in Nat
  /\ snapshot \in Seq(Nat) /\ seen \in Seq(Nat)

InOnePlace == Placed(Elements(inBus), list, Elements(outBus), executed, added)

HasRoom == Len(outBus.buffer) <= BufferLength /\ Len(list) <= PendingLength

\* The loop has the elements ahead still to receive.  While it runs they are the
\* end of the list, whatever it has removed in front of them.
LoopIsAt(ahead) ==
  /\ snapshot = seen \o ahead
  /\ place = "range" =>
       Sends(walk, ahead) /\ \E front \in Seq(Nat) : list = front \o ahead
  /\ place = "take" => ahead = << >>
Looping ==
  /\ \E ahead \in Seq(Nat) : LoopIsAt(ahead)
  /\ place # "range" => walk.closed

QueueInv == QueueTypeOK /\ InOnePlace /\ HasRoom /\ Looping

-----------------------------------------------------------------------------
(* Sequences without repetition                                            *)

\* The members of a longer sequence.
LEMMA MembersOfAppend ==
  ASSUME NEW s \in Seq(Nat), NEW x \in Nat
  PROVE  Members(Append(s, x)) = Members(s) \cup {x}
<1>1. PICK t : t = Append(s, x)
  OBVIOUS
<1>2. /\ DOMAIN t = 1..Len(s) + 1 /\ DOMAIN s = 1..Len(s) /\ Len(s) \in Nat
      /\ t[Len(s) + 1] = x /\ \A i \in 1..Len(s) : t[i] = s[i]
  BY <1>1
<1>3. ASSUME NEW y \in Members(t) PROVE y \in Members(s) \cup {x}
  <2>1. PICK i \in 1..Len(s) + 1 : y = t[i]
    BY <1>2, <1>3 DEF Members
  <2>2. CASE i = Len(s) + 1
    BY <1>2, <2>1, <2>2
  <2>3. CASE i \in 1..Len(s)
    BY <1>2, <2>1, <2>3 DEF Members
  <2> QED
    BY <1>2, <2>2, <2>3
<1>4. ASSUME NEW y \in Members(s) PROVE y \in Members(t)
  <2>1. PICK i \in 1..Len(s) : y = s[i]
    BY <1>2, <1>4 DEF Members
  <2>2. i \in 1..Len(s) + 1
    BY <1>2
  <2> QED
    BY <1>2, <2>1, <2>2 DEF Members
<1>5. x \in Members(t)
  <2>1. Len(s) + 1 \in 1..Len(s) + 1
    BY <1>2
  <2> QED
    BY <1>2, <2>1 DEF Members
<1> QED
  BY <1>1, <1>3, <1>4, <1>5

\* The members of two sequences in a row.
LEMMA MembersOfConcat ==
  ASSUME NEW a \in Seq(Nat), NEW b \in Seq(Nat)
  PROVE  Members(a \o b) = Members(a) \cup Members(b)
<1>1. PICK t : t = a \o b
  OBVIOUS
<1>2. /\ DOMAIN t = 1..Len(a) + Len(b) /\ DOMAIN a = 1..Len(a) /\ DOMAIN b = 1..Len(b)
      /\ Len(a) \in Nat /\ Len(b) \in Nat
  BY <1>1
<1>3. \A i \in 1..Len(a) : t[i] = a[i]
  BY <1>1
<1>4. \A i \in 1..Len(b) : t[Len(a) + i] = b[i]
  BY <1>1
<1>5. ASSUME NEW y \in Members(t) PROVE y \in Members(a) \cup Members(b)
  <2>1. PICK i \in 1..Len(a) + Len(b) : y = t[i]
    BY <1>2, <1>5 DEF Members
  <2>2. CASE i \in 1..Len(a)
    BY <1>2, <1>3, <2>1, <2>2 DEF Members
  <2>3. CASE i \notin 1..Len(a)
    <3>1. i - Len(a) \in 1..Len(b) /\ Len(a) + (i - Len(a)) = i
      BY <1>2, <2>3
    <3>2. y = b[i - Len(a)]
      BY <1>4, <2>1, <3>1
    <3> QED
      BY <1>2, <3>1, <3>2 DEF Members
  <2> QED
    BY <2>2, <2>3
<1>6. ASSUME NEW y \in Members(a) PROVE y \in Members(t)
  <2>1. PICK i \in 1..Len(a) : y = a[i]
    BY <1>2, <1>6 DEF Members
  <2>2. i \in 1..Len(a) + Len(b)
    BY <1>2
  <2> QED
    BY <1>2, <1>3, <2>1, <2>2 DEF Members
<1>7. ASSUME NEW y \in Members(b) PROVE y \in Members(t)
  <2>1. PICK i \in 1..Len(b) : y = b[i]
    BY <1>2, <1>7 DEF Members
  <2>2. Len(a) + i \in 1..Len(a) + Len(b)
    BY <1>2
  <2> QED
    BY <1>2, <1>4, <2>1, <2>2 DEF Members
<1> QED
  BY <1>1, <1>5, <1>6, <1>7

\* A sequence is its head and its tail.
LEMMA HeadAndTail ==
  ASSUME NEW s \in Seq(Nat), s # << >>
  PROVE  /\ Head(s) \in Nat /\ Tail(s) \in Seq(Nat) /\ Len(Tail(s)) = Len(s) - 1
         /\ Len(s) \in Nat \ {0} /\ Head(s) = s[1]
         /\ \A i \in 1..Len(s) - 1 : Tail(s)[i] = s[i + 1]
         /\ s = <<Head(s)>> \o Tail(s)
         /\ Members(s) = {Head(s)} \cup Members(Tail(s))
<1>1. PICK t : t = Tail(s)
  OBVIOUS
<1>2. PICK h : h = Head(s)
  OBVIOUS
<1>3. /\ h \in Nat /\ t \in Seq(Nat) /\ Len(t) = Len(s) - 1 /\ Len(s) \in Nat \ {0} /\ h = s[1]
      /\ \A i \in 1..Len(s) - 1 : t[i] = s[i + 1]
  BY <1>1, <1>2
<1>4. s = <<h>> \o t
  <2>1. <<h>> \in Seq(Nat) /\ Len(<<h>>) = 1 /\ <<h>>[1] = h
    BY <1>3
  <2>2. PICK one : one = <<h>>
    OBVIOUS
  <2>3. PICK u : u = one \o t
    OBVIOUS
  <2>4. u \in Seq(Nat) /\ Len(u) = Len(s)
    BY <1>3, <2>1, <2>2, <2>3
  <2>5. ASSUME NEW i \in 1..Len(s) PROVE s[i] = u[i]
    <3>1. CASE i = 1
      BY <1>3, <2>1, <2>2, <2>3, <3>1
    <3>2. CASE i # 1
      <4>1. i - 1 \in 1..Len(s) - 1 /\ (i - 1) + 1 = i
        BY <1>3, <3>2
      <4>2. u[i] = t[i - 1]
        BY <1>3, <2>1, <2>2, <2>3, <3>2
      <4>3. t[i - 1] = s[(i - 1) + 1]
        BY <1>3, <4>1
      <4> QED
        BY <4>1, <4>2, <4>3
    <3> QED
      BY <3>1, <3>2
  <2>6. s = u
    BY <2>4, <2>5, SeqEqual, Zenon
  <2> QED
    BY <2>2, <2>3, <2>6
<1>5. Members(s) = {h} \cup Members(t)
  <2>1. <<h>> \in Seq(Nat) /\ Members(<<h>>) = {h}
    BY <1>3 DEF Members
  <2> QED
    BY <1>3, <1>4, <2>1, MembersOfConcat
<1> QED
  BY <1>1, <1>2, <1>3, <1>4, <1>5

\* An increasing sequence does not repeat itself.
LEMMA IncreasingIsDistinct ==
  ASSUME NEW s \in Seq(Nat), Increasing(s)
  PROVE  Distinct(s)
<1>1. DOMAIN s = 1..Len(s) /\ Len(s) \in Nat /\ \A i \in DOMAIN s : s[i] \in Nat
  OBVIOUS
<1>2. ASSUME NEW i \in DOMAIN s, NEW j \in DOMAIN s, s[i] = s[j], j < i PROVE FALSE
  <2>1. j \in 1..i - 1
    BY <1>1, <1>2
  <2> QED
    BY <1>1, <1>2, <2>1 DEF Increasing
<1> QED
  BY <1>1, <1>2 DEF Distinct

\* An increasing sequence stays one when a larger number is put behind it.
LEMMA IncreasingAppend ==
  ASSUME NEW s \in Seq(Nat), NEW x \in Nat, Increasing(s), \A y \in Members(s) : y < x
  PROVE  Increasing(Append(s, x))
<1>1. PICK t : t = Append(s, x)
  OBVIOUS
<1>2. /\ DOMAIN t = 1..Len(s) + 1 /\ DOMAIN s = 1..Len(s) /\ Len(s) \in Nat
      /\ t[Len(s) + 1] = x /\ \A i \in 1..Len(s) : t[i] = s[i]
  BY <1>1
<1>3. ASSUME NEW i \in 1..Len(s) + 1, NEW j \in 1..i - 1 PROVE t[j] < t[i]
  <2>1. j \in 1..Len(s) /\ t[j] = s[j] /\ s[j] \in Members(s)
    BY <1>2 DEF Members
  <2>2. CASE i = Len(s) + 1
    BY <1>2, <2>1, <2>2
  <2>3. CASE i \in 1..Len(s)
    BY <1>2, <2>1, <2>3 DEF Increasing
  <2> QED
    BY <1>2, <2>2, <2>3
<1>4. Increasing(t)
  BY <1>2, <1>3 DEF Increasing
<1> QED
  BY <1>1, <1>4

\* An increasing sequence without its first member is one, of larger numbers.
LEMMA IncreasingTail ==
  ASSUME NEW s \in Seq(Nat), s # << >>, Increasing(s)
  PROVE  Increasing(Tail(s)) /\ \A y \in Members(Tail(s)) : Head(s) < y
<1>1. PICK t : t = Tail(s)
  OBVIOUS
<1>2. /\ t \in Seq(Nat) /\ Len(t) = Len(s) - 1 /\ Len(s) \in Nat \ {0} /\ Head(s) = s[1]
      /\ \A i \in 1..Len(s) - 1 : t[i] = s[i + 1]
  BY <1>1, HeadAndTail
<1>3. DOMAIN t = 1..Len(s) - 1 /\ DOMAIN s = 1..Len(s)
  BY <1>2
<1>4. ASSUME NEW i \in 1..Len(s) - 1, NEW j \in 1..i - 1 PROVE t[j] < t[i]
  <2>1. j + 1 \in 1..(i + 1) - 1 /\ i + 1 \in 1..Len(s) /\ j \in 1..Len(s) - 1
    BY <1>2
  <2>2. s[j + 1] < s[i + 1]
    BY <1>3, <2>1 DEF Increasing
  <2> QED
    BY <1>2, <2>1, <2>2
<1>5. Increasing(t)
  BY <1>3, <1>4 DEF Increasing
<1>6. ASSUME NEW y \in Members(t) PROVE Head(s) < y
  <2>1. PICK i \in 1..Len(s) - 1 : y = t[i]
    BY <1>3, <1>6 DEF Members
  <2>2. i + 1 \in 1..Len(s) /\ 1 \in 1..(i + 1) - 1
    BY <1>2
  <2>3. s[1] < s[i + 1]
    BY <1>3, <2>2 DEF Increasing
  <2> QED
    BY <1>2, <2>1, <2>3
<1> QED
  BY <1>1, <1>5, <1>6

\* The empty sequence.
LEMMA EmptyIsIncreasing ==
  /\ << >> \in Seq(Nat) /\ Members(<< >>) = {} /\ Increasing(<< >>) /\ Distinct(<< >>)
  /\ Len(<< >>) = 0
BY DEF Members, Increasing, Distinct

\* A new number behind a sequence that does not repeat itself.
LEMMA DistinctAppend ==
  ASSUME NEW s \in Seq(Nat), NEW x \in Nat, Distinct(s), x \notin Members(s)
  PROVE  Distinct(Append(s, x))
<1>1. PICK t : t = Append(s, x)
  OBVIOUS
<1>2. /\ DOMAIN t = 1..Len(s) + 1 /\ DOMAIN s = 1..Len(s) /\ Len(s) \in Nat
      /\ t[Len(s) + 1] = x /\ \A i \in 1..Len(s) : t[i] = s[i]
  BY <1>1
<1>3. \A i \in 1..Len(s) : s[i] # x
  BY <1>2 DEF Members
<1>4. ASSUME NEW i \in 1..Len(s) + 1, NEW j \in 1..Len(s) + 1, t[i] = t[j] PROVE i = j
  <2>1. CASE i \in 1..Len(s) /\ j \in 1..Len(s)
    BY <1>2, <1>4, <2>1 DEF Distinct
  <2>2. CASE i = Len(s) + 1 /\ j \in 1..Len(s)
    BY <1>2, <1>3, <1>4, <2>2
  <2>3. CASE j = Len(s) + 1 /\ i \in 1..Len(s)
    BY <1>2, <1>3, <1>4, <2>3
  <2> QED
    BY <1>2, <2>1, <2>2, <2>3
<1>5. Distinct(t)
  BY <1>2, <1>4 DEF Distinct
<1> QED
  BY <1>1, <1>5

\* The parts of a sequence that does not repeat itself.
LEMMA DistinctParts ==
  ASSUME NEW a \in Seq(Nat), NEW b \in Seq(Nat), Distinct(a \o b)
  PROVE  Distinct(a) /\ Distinct(b) /\ Members(a) \cap Members(b) = {}
<1>1. PICK t : t = a \o b
  OBVIOUS
<1>2. /\ DOMAIN t = 1..Len(a) + Len(b) /\ DOMAIN a = 1..Len(a) /\ DOMAIN b = 1..Len(b)
      /\ Len(a) \in Nat /\ Len(b) \in Nat
  BY <1>1
<1>3. \A i \in 1..Len(a) : t[i] = a[i]
  BY <1>1
<1>4. \A i \in 1..Len(b) : t[Len(a) + i] = b[i]
  BY <1>1
<1>5. Distinct(t)
  BY <1>1
<1>6. ASSUME NEW i \in 1..Len(a), NEW j \in 1..Len(a), a[i] = a[j] PROVE i = j
  <2>1. i \in DOMAIN t /\ j \in DOMAIN t /\ t[i] = t[j]
    BY <1>2, <1>3, <1>6
  <2> QED
    BY <1>5, <2>1 DEF Distinct
<1>7. ASSUME NEW i \in 1..Len(b), NEW j \in 1..Len(b), b[i] = b[j] PROVE i = j
  <2>1. Len(a) + i \in DOMAIN t /\ Len(a) + j \in DOMAIN t
    BY <1>2
  <2>2. t[Len(a) + i] = t[Len(a) + j]
    BY <1>4, <1>7
  <2>3. Len(a) + i = Len(a) + j
    BY <1>5, <2>1, <2>2 DEF Distinct
  <2> QED
    BY <1>2, <2>3
<1>8. ASSUME NEW i \in 1..Len(a), NEW j \in 1..Len(b), a[i] = b[j] PROVE FALSE
  <2>1. i \in DOMAIN t /\ Len(a) + j \in DOMAIN t
    BY <1>2
  <2>2. t[i] = t[Len(a) + j]
    BY <1>3, <1>4, <1>8
  <2>3. i = Len(a) + j
    BY <1>5, <2>1, <2>2 DEF Distinct
  <2> QED
    BY <1>2, <2>3
<1>9. Distinct(a)
  BY <1>2, <1>6 DEF Distinct
<1>10. Distinct(b)
  BY <1>2, <1>7 DEF Distinct
<1>11. Members(a) \cap Members(b) = {}
  BY <1>2, <1>8 DEF Members
<1> QED
  BY <1>9, <1>10, <1>11

\* The two sequences u and t are a and b in a row, and the same without b's head.
LosesHead(a, b, u, t) ==
  /\ u = a \o b /\ t = a \o Tail(b)
  /\ Len(a) \in Nat /\ Len(u) \in Nat /\ Len(a) < Len(u) /\ Len(t) = Len(u) - 1
  /\ u[Len(a) + 1] = Head(b)
  /\ \A i \in 1..Len(a) : t[i] = u[i]
  /\ \A i \in Len(a) + 1..Len(u) - 1 : t[i] = u[i + 1]

\* Two sequences in a row, of which the second loses its head.
LEMMA WithoutOne ==
  ASSUME NEW a \in Seq(Nat), NEW b \in Seq(Nat), b # << >>
  PROVE  \E u \in Seq(Nat), t \in Seq(Nat) : LosesHead(a, b, u, t)
<1>1. PICK c \in Seq(Nat) : c = Tail(b)
  <2>1. Tail(b) \in Seq(Nat)
    BY HeadAndTail
  <2> QED
    BY <2>1, Zenon
<1>2. /\ Len(b) \in Nat \ {0} /\ Len(c) = Len(b) - 1 /\ Head(b) = b[1]
      /\ \A i \in 1..Len(b) - 1 : c[i] = b[i + 1]
  BY <1>1, HeadAndTail
<1>3. PICK u : u = a \o b
  OBVIOUS
<1>4. PICK t : t = a \o c
  OBVIOUS
<1>5. u \in Seq(Nat) /\ Len(u) = Len(a) + Len(b) /\ Len(a) \in Nat
  BY <1>3
<1>6. t \in Seq(Nat) /\ Len(t) = Len(a) + Len(c)
  BY <1>4
<1>7. \A i \in 1..Len(a) : u[i] = a[i] /\ t[i] = a[i]
  BY <1>3, <1>4
<1>8. \A i \in 1..Len(b) : u[Len(a) + i] = b[i]
  BY <1>3
<1>9. \A i \in 1..Len(c) : t[Len(a) + i] = c[i]
  BY <1>4
<1>10. ASSUME NEW i \in Len(a) + 1..Len(u) - 1 PROVE t[i] = u[i + 1]
  <2>1. PICK j : j = i - Len(a)
    OBVIOUS
  <2>2. /\ j \in 1..Len(c) /\ i = Len(a) + j /\ j + 1 \in 1..Len(b)
        /\ i + 1 = Len(a) + (j + 1) /\ j \in 1..Len(b) - 1
    BY <1>2, <1>5, <1>10, <2>1
  <2>3. t[i] = c[j] /\ c[j] = b[j + 1]
    BY <1>2, <1>9, <2>2
  <2>4. u[i + 1] = b[j + 1]
    BY <1>8, <2>2
  <2> QED
    BY <2>3, <2>4
<1>11. u[Len(a) + 1] = Head(b)
  BY <1>2, <1>8
<1>12. /\ Len(u) \in Nat /\ Len(a) < Len(u) /\ Len(t) = Len(u) - 1
  BY <1>2, <1>5, <1>6
<1>13. t = a \o Tail(b)
  BY <1>1, <1>4, Zenon
<1>14. \A i \in 1..Len(a) : t[i] = u[i]
  BY <1>7
<1>15. \A i \in Len(a) + 1..Len(u) - 1 : t[i] = u[i + 1]
  BY <1>10, Zenon
<1>16. u \in Seq(Nat) /\ t \in Seq(Nat) /\ Len(a) \in Nat
  BY <1>5, <1>6
<1> QED
  BY <1>3, <1>11, <1>12, <1>13, <1>14, <1>15, <1>16, Zenon DEF LosesHead

\* What is left is increasing, and has lost one member.
LEMMA IncreasingWithoutOne ==
  ASSUME NEW a \in Seq(Nat), NEW b \in Seq(Nat), b # << >>, Increasing(a \o b)
  PROVE  /\ Increasing(a \o Tail(b)) /\ a \o Tail(b) \in Seq(Nat)
         /\ Len(a \o Tail(b)) <= Len(a \o b)
         /\ Members(a \o b) = Members(a \o Tail(b)) \cup {Head(b)}
         /\ Head(b) \notin Members(a \o Tail(b))
<1>0. PICK u \in Seq(Nat), t \in Seq(Nat) : LosesHead(a, b, u, t)
  BY WithoutOne, Zenon
<1>1. /\ u = a \o b /\ t = a \o Tail(b)
      /\ Len(a) \in Nat /\ Len(u) \in Nat /\ Len(a) < Len(u) /\ Len(t) = Len(u) - 1
      /\ u[Len(a) + 1] = Head(b)
      /\ \A i \in 1..Len(a) : t[i] = u[i]
      /\ \A i \in Len(a) + 1..Len(u) - 1 : t[i] = u[i + 1]
  BY <1>0, Zenon DEF LosesHead
<1>2. PICK m \in Nat : m = Len(a)
  BY <1>1
<1>3. PICK n \in Nat : n = Len(u)
  BY <1>1
<1>4. /\ m < n /\ DOMAIN u = 1..n /\ DOMAIN t = 1..n - 1
      /\ \A i \in 1..m : t[i] = u[i]
      /\ \A i \in m + 1..n - 1 : t[i] = u[i + 1]
  BY <1>1, <1>2, <1>3
<1>5. \A i \in 1..n : \A j \in 1..i - 1 : u[j] < u[i]
  BY <1>1, <1>4 DEF Increasing
<1>6. ASSUME NEW i \in 1..n - 1, NEW j \in 1..i - 1 PROVE t[j] < t[i]
  <2>1. CASE i <= m
    <3>1. i \in 1..m /\ j \in 1..m /\ i \in 1..n
      BY <1>4, <2>1
    <3> QED
      BY <1>4, <1>5, <3>1
  <2>2. CASE m < i
    <3>1. i \in m + 1..n - 1 /\ i + 1 \in 1..n /\ j \in 1..(i + 1) - 1 /\ j + 1 \in 1..(i + 1) - 1
      BY <1>4, <2>2
    <3>2. t[i] = u[i + 1] /\ u[j] < u[i + 1] /\ u[j + 1] < u[i + 1]
      BY <1>4, <1>5, <3>1
    <3>3. j \in 1..m \/ j \in m + 1..n - 1
      BY <1>4
    <3> QED
      BY <1>4, <3>2, <3>3
  <2> QED
    BY <2>1, <2>2
<1>7. Increasing(t)
  BY <1>4, <1>6 DEF Increasing
<1>8. Members(u) = Members(t) \cup {Head(b)}
  <2>1. Members(b) = {Head(b)} \cup Members(Tail(b)) /\ Tail(b) \in Seq(Nat)
    BY HeadAndTail, Zenon
  <2>2. Members(u) = Members(a) \cup Members(b)
    BY <1>1, MembersOfConcat, Zenon
  <2>3. Members(t) = Members(a) \cup Members(Tail(b))
    BY <1>1, <2>1, MembersOfConcat, Zenon
  <2> QED
    BY <2>1, <2>2, <2>3
<1>9. ASSUME Head(b) \in Members(t) PROVE FALSE
  <2>1. PICK i \in 1..n - 1 : u[m + 1] = t[i]
    BY <1>1, <1>2, <1>4, <1>9 DEF Members
  <2>2. Distinct(u)
    BY <1>1, IncreasingIsDistinct
  <2>3. CASE i \in 1..m
    <3>1. i \in DOMAIN u /\ m + 1 \in DOMAIN u /\ u[m + 1] = u[i] /\ m + 1 # i
      BY <1>4, <2>1, <2>3
    <3> QED
      BY <2>2, <3>1 DEF Distinct
  <2>4. CASE i \in m + 1..n - 1
    <3>1. i + 1 \in DOMAIN u /\ m + 1 \in DOMAIN u /\ u[m + 1] = u[i + 1] /\ m + 1 # i + 1
      BY <1>4, <2>1, <2>4
    <3> QED
      BY <2>2, <3>1 DEF Distinct
  <2> QED
    BY <2>3, <2>4
<1>10. Len(t) <= Len(u)
  BY <1>1
<1> QED
  BY <1>1, <1>7, <1>8, <1>9, <1>10, Zenon

-----------------------------------------------------------------------------
(* The goroutine and the loop                                              *)

\* The next element of one that is on the list is the one behind it.
LEMMA NextAhead ==
  ASSUME list \in Seq(Nat), Distinct(list),
         NEW front \in Seq(Nat), NEW ahead \in Seq(Nat), list = front \o ahead,
         NEW i \in 1..Len(ahead)
  PROVE  NextOf(ahead[i]) = IF i < Len(ahead) THEN ahead[i + 1] ELSE 0
<1>1. PICK m \in Nat : m = Len(front)
  OBVIOUS
<1>2. PICK n \in Nat : n = Len(ahead)
  OBVIOUS
<1>3. Len(list) = m + n /\ DOMAIN list = 1..m + n /\ i \in 1..n
  BY <1>1, <1>2
<1>4. \A k \in 1..n : list[m + k] = ahead[k]
  BY <1>1, <1>2
<1>5. PICK after : after = {k \in 2..Len(list) : list[k - 1] = ahead[i]}
  OBVIOUS
<1>6. ASSUME NEW k \in after PROVE k = m + i + 1
  <2>1. k \in 2..m + n /\ list[k - 1] = list[m + i]
    BY <1>3, <1>4, <1>5, <1>6
  <2>2. k - 1 \in DOMAIN list /\ m + i \in DOMAIN list
    BY <1>3, <2>1
  <2>3. k - 1 = m + i
    BY <2>1, <2>2 DEF Distinct
  <2> QED
    BY <2>1, <2>3
<1>7. CASE i < n
  <2>1. m + i + 1 \in 2..m + n /\ (m + i + 1) - 1 = m + i /\ i + 1 \in 1..n
        /\ m + i + 1 = m + (i + 1)
    BY <1>3, <1>7
  <2>2. m + i + 1 \in after
    BY <1>3, <1>4, <1>5, <2>1
  <2>3. after # {} /\ (CHOOSE k \in after : TRUE) = m + i + 1
    BY <1>6, <2>2
  <2>4. NextOf(ahead[i]) = list[m + i + 1]
    BY <1>5, <2>3, Zenon DEF NextOf
  <2>5. list[m + i + 1] = ahead[i + 1]
    BY <1>4, <2>1
  <2> QED
    BY <1>2, <1>7, <2>4, <2>5
<1>8. CASE ~(i < n)
  <2>1. after = {}
    <3> SUFFICES ASSUME NEW k \in after PROVE FALSE
      OBVIOUS
    <3>1. k = m + i + 1 /\ k \in 2..m + n
      BY <1>3, <1>5, <1>6
    <3> QED
      BY <1>3, <1>8, <3>1
  <2>2. NextOf(ahead[i]) = 0
    BY <1>5, <2>1, Zenon DEF NextOf
  <2> QED
    BY <1>2, <1>8, <2>2
<1> QED
  BY <1>7, <1>8

\* Remove takes the element the loop has just received off the list.
LEMMA RemovedHead ==
  ASSUME list \in Seq(Nat), Distinct(list),
         NEW front \in Seq(Nat), NEW ahead \in Seq(Nat), list = front \o ahead,
         ahead # << >>
  PROVE  Removed(Head(ahead)) = front \o Tail(ahead)
<1>0. PICK u \in Seq(Nat), t \in Seq(Nat) : LosesHead(front, ahead, u, t)
  BY WithoutOne, Zenon
<1>1. /\ u = front \o ahead /\ t = front \o Tail(ahead)
      /\ Len(front) \in Nat /\ Len(u) \in Nat /\ Len(front) < Len(u) /\ Len(t) = Len(u) - 1
      /\ u[Len(front) + 1] = Head(ahead)
      /\ \A i \in 1..Len(front) : t[i] = u[i]
      /\ \A i \in Len(front) + 1..Len(u) - 1 : t[i] = u[i + 1]
  BY <1>0, Zenon DEF LosesHead
<1>2. PICK m \in Nat : m = Len(front)
  BY <1>1
<1>3. PICK n \in Nat : n = Len(list)
  BY <1>1
<1>4. list = u
  BY <1>1
<1>5. PICK e : e = Head(ahead)
  OBVIOUS
<1>6. /\ m + 1 \in 1..n /\ DOMAIN list = 1..n /\ list[m + 1] = e
      /\ Len(t) = n - 1 /\ \A i \in 1..m : t[i] = list[i]
      /\ \A i \in m + 1..n - 1 : t[i] = list[i + 1]
  BY <1>1, <1>2, <1>3, <1>4, <1>5
<1>7. (CHOOSE i \in 1..Len(list) : list[i] = e) = m + 1
  <2>1. \A i \in 1..n : list[i] = e => i = m + 1
    BY <1>6 DEF Distinct
  <2> QED
    BY <1>3, <1>6, <2>1
<1>8. Removed(e) = [k \in 1..Len(list) - 1 |-> IF k < m + 1 THEN list[k] ELSE list[k + 1]]
  BY <1>7, Zenon DEF Removed
<1>9. PICK r : r = [k \in 1..n - 1 |-> IF k < m + 1 THEN list[k] ELSE list[k + 1]]
  OBVIOUS
<1>10. ASSUME NEW k \in 1..n - 1 PROVE r[k] = t[k] /\ r[k] \in Nat
  <2>1. r[k] = IF k < m + 1 THEN list[k] ELSE list[k + 1]
    BY <1>9
  <2>2. k \in 1..Len(t)
    BY <1>6
  <2>3. t[k] \in Nat
    BY <2>2
  <2>4. CASE k < m + 1
    <3>1. k \in 1..m
      BY <2>4
    <3> QED
      BY <1>6, <2>1, <2>3, <2>4, <3>1
  <2>5. CASE ~(k < m + 1)
    <3>1. k \in m + 1..n - 1
      BY <2>5
    <3> QED
      BY <1>6, <2>1, <2>3, <2>5, <3>1
  <2> QED
    BY <2>4, <2>5
<1>11. r \in Seq(Nat) /\ Len(r) = Len(t)
  <2>1. r \in [1..n - 1 -> Nat]
    BY <1>9, <1>10
  <2>2. PICK l \in Nat : l = n - 1
    BY <1>6
  <2>3. r \in [1..l -> Nat]
    BY <2>1, <2>2
  <2>4. r \in Seq(Nat) /\ Len(r) = l
    BY <2>3
  <2> QED
    BY <1>6, <2>2, <2>4
<1>12. r = t
  <2>1. \A k \in 1..Len(r) : r[k] = t[k]
    BY <1>6, <1>10, <1>11
  <2> QED
    BY <1>11, <2>1, SeqEqual, Zenon
<1> QED
  BY <1>1, <1>3, <1>5, <1>8, <1>9, <1>12, Zenon

\* What a step of the goroutine makes of a record of this type.
LEMMA WalkParts ==
  ASSUME NEW w \in WalkType
  PROVE  /\ w.next \in Nat /\ w.current \in Nat /\ w.channel \in Seq(Nat)
         /\ Len(w.channel) \in Nat /\ w.closed \in BOOLEAN
BY DEF WalkType

\* The goroutine goes on sending the elements ahead, and closes the channel
\* behind the last of them.
LEMMA SendsStep ==
  ASSUME list \in Seq(Nat), Distinct(list), 0 \notin Members(list),
         NEW front \in Seq(Nat), NEW ahead \in Seq(Nat), list = front \o ahead,
         NEW w \in WalkType, Sends(w, ahead), NEW x \in Steps(w)
  PROVE  x \in WalkType /\ Sends(x, ahead)
<1>1. /\ w.next \in Nat /\ w.current \in Nat /\ w.channel \in Seq(Nat)
      /\ Len(w.channel) \in Nat /\ w.closed \in BOOLEAN
  BY WalkParts
<1>2. PICK sent \in Nat : sent = Len(w.channel)
  BY <1>1
<1>3. PICK n \in Nat : n = Len(ahead)
  OBVIOUS
<1>4. \A i \in 1..n : ahead[i] \in Nat \ {0}
  <2>1. Members(list) = Members(front) \cup Members(ahead)
    BY MembersOfConcat
  <2>2. DOMAIN ahead = 1..n /\ \A i \in 1..n : ahead[i] \in Nat
    BY <1>3
  <2>3. \A i \in 1..n : ahead[i] \in Members(ahead)
    BY <2>2 DEF Members
  <2> QED
    BY <2>1, <2>2, <2>3
<1>5. \A i \in 1..n : NextOf(ahead[i]) = IF i < n THEN ahead[i + 1] ELSE 0
  BY <1>3, NextAhead
<1>6. CASE w.current = 0 /\ w.next = 0
  <2>1. x = [w EXCEPT !.closed = TRUE]
    BY <1>6 DEF Steps
  <2>2. x \in WalkType /\ x.next = 0 /\ x.current = 0 /\ x.channel = w.channel
    BY <1>6, <2>1 DEF WalkType
  <2>3. sent <= n /\ (\A i \in 1..sent : w.channel[i] = ahead[i])
        /\ (0 = IF sent < n THEN ahead[sent + 1] ELSE 0)
    BY <1>2, <1>3, <1>6 DEF Sends
  <2>4. sent = n
    BY <1>4, <2>3
  <2> QED
    BY <1>2, <1>3, <2>2, <2>3, <2>4 DEF Sends
<1>7. CASE w.current = 0 /\ w.next # 0
  <2>1. x = [w EXCEPT !.current = w.next, !.next = NextOf(w.next)]
    BY <1>7 DEF Steps
  <2>2. sent <= n /\ (\A i \in 1..sent : w.channel[i] = ahead[i])
        /\ (w.next = IF sent < n THEN ahead[sent + 1] ELSE 0)
        /\ (w.closed => sent = n)
    BY <1>2, <1>3, <1>7 DEF Sends
  <2>3. sent < n /\ sent + 1 \in 1..n /\ w.next = ahead[sent + 1] /\ ~w.closed
    BY <1>7, <2>2
  <2>4. NextOf(w.next) = IF sent + 1 < n THEN ahead[(sent + 1) + 1] ELSE 0
    BY <1>5, <2>3
  <2>5. NextOf(w.next) \in Nat
    BY <1>4, <2>3, <2>4
  <2>6. /\ x \in WalkType /\ x.next = NextOf(w.next) /\ x.current = w.next
        /\ x.channel = w.channel /\ x.closed = w.closed
    BY <2>1, <2>5 DEF WalkType
  <2> QED
    BY <1>2, <1>3, <1>7, <2>2, <2>3, <2>4, <2>6 DEF Sends
<1>8. CASE w.current # 0
  <2>1. x = [w EXCEPT !.channel = Append(w.channel, w.current), !.current = 0]
    BY <1>8 DEF Steps
  <2>2. sent + 1 <= n /\ (\A i \in 1..sent : w.channel[i] = ahead[i])
        /\ w.current = ahead[sent + 1]
        /\ (w.next = IF sent + 1 < n THEN ahead[(sent + 1) + 1] ELSE 0)
        /\ (w.closed => sent = n)
    BY <1>2, <1>3, <1>8 DEF Sends
  <2>3. PICK longer \in Seq(Nat) : longer = Append(w.channel, w.current)
    <3>1. Append(w.channel, w.current) \in Seq(Nat)
      BY <1>1
    <3> QED
      BY <3>1, Zenon
  <2>4. Len(longer) = sent + 1 /\ longer[sent + 1] = w.current
        /\ \A i \in 1..sent : longer[i] = w.channel[i]
    BY <1>1, <1>2, <2>3
  <2>5. \A i \in 1..sent + 1 : longer[i] = ahead[i]
    BY <2>2, <2>4
  <2>6. /\ x \in WalkType /\ x.next = w.next /\ x.current = 0
        /\ x.channel = longer /\ x.closed = w.closed
    BY <2>1, <2>3 DEF WalkType
  <2>7. ~w.closed
    BY <2>2
  <2> QED
    BY <1>3, <2>2, <2>4, <2>5, <2>6, <2>7 DEF Sends
<1> QED
  BY <1>6, <1>7, <1>8

\* What the loop receives is the first of the elements ahead.
LEMMA SendsReceived ==
  ASSUME NEW ahead \in Seq(Nat), NEW w \in WalkType, Sends(w, ahead), w.channel # << >>
  PROVE  /\ ahead # << >> /\ Head(w.channel) = Head(ahead)
         /\ [w EXCEPT !.channel = Tail(@)] \in WalkType
         /\ Sends([w EXCEPT !.channel = Tail(@)], Tail(ahead))
<1>1. /\ w.next \in Nat /\ w.current \in Nat /\ w.channel \in Seq(Nat)
      /\ Len(w.channel) \in Nat /\ w.closed \in BOOLEAN
  BY WalkParts
<1>2. PICK channel \in Seq(Nat) : channel = w.channel
  BY <1>1
<1>3. PICK rest \in Seq(Nat) : rest = Tail(channel)
  <2>1. Tail(channel) \in Seq(Nat)
    BY <1>2
  <2> QED
    BY <2>1, Zenon
<1>4. PICK sent \in Nat : sent = Len(channel)
  BY <1>1, <1>2
<1>5. PICK n \in Nat : n = Len(ahead)
  OBVIOUS
<1>6. /\ sent # 0 /\ Len(rest) = sent - 1 /\ Head(channel) = channel[1]
      /\ \A i \in 1..sent - 1 : rest[i] = channel[i + 1]
  BY <1>2, <1>3, <1>4, HeadAndTail
<1>7. PICK taken \in Nat : taken = IF w.current = 0 THEN sent ELSE sent + 1
  OBVIOUS
<1>8. /\ taken <= n /\ (\A i \in 1..sent : channel[i] = ahead[i])
      /\ (w.current # 0 => w.current = ahead[taken])
      /\ w.next = (IF taken < n THEN ahead[taken + 1] ELSE 0)
      /\ (w.closed => sent = n)
  BY <1>2, <1>4, <1>5, <1>7 DEF Sends
<1>9. n # 0 /\ ahead # << >>
  <2>1. n # 0
    BY <1>6, <1>7, <1>8
  <2> QED
    BY <1>5, <2>1
<1>10. PICK later \in Seq(Nat) : later = Tail(ahead)
  <2>1. Tail(ahead) \in Seq(Nat)
    BY <1>9
  <2> QED
    BY <2>1, Zenon
<1>11. /\ Len(later) = n - 1 /\ Head(ahead) = ahead[1]
       /\ \A i \in 1..n - 1 : later[i] = ahead[i + 1]
  BY <1>5, <1>9, <1>10, HeadAndTail
<1>12. Head(w.channel) = Head(ahead)
  <2>1. 1 \in 1..sent
    BY <1>6
  <2> QED
    BY <1>2, <1>6, <1>8, <1>11, <2>1
<1>13. PICK x : x = [w EXCEPT !.channel = Tail(@)]
  OBVIOUS
<1>14. x = [w EXCEPT !.channel = rest]
  BY <1>2, <1>3, <1>13
<1>15. /\ x \in WalkType /\ x.next = w.next /\ x.current = w.current
       /\ x.channel = rest /\ x.closed = w.closed
  BY <1>14 DEF WalkType
<1>16. Sends(x, later)
  <2>1. PICK less \in Nat : less = taken - 1
    BY <1>6, <1>7
  <2>2. less = IF w.current = 0 THEN sent - 1 ELSE (sent - 1) + 1
    BY <1>7, <2>1
  <2>3. less <= n - 1
    BY <1>8, <2>1
  <2>4. \A i \in 1..sent - 1 : rest[i] = later[i]
    <3> TAKE i \in 1..sent - 1
    <3>1. i + 1 \in 1..sent /\ i \in 1..n - 1
      BY <1>7, <1>8
    <3> QED
      BY <1>6, <1>8, <1>11, <3>1
  <2>5. w.current # 0 => w.current = later[less]
    <3>1. w.current # 0 => less \in 1..n - 1 /\ less + 1 = taken
      BY <1>6, <1>7, <1>8, <2>1, SMTT(30)
    <3> QED
      BY <1>8, <1>11, <3>1
  <2>6. w.next = IF less < n - 1 THEN later[less + 1] ELSE 0
    <3>1. CASE taken < n
      <4>1. less + 1 \in 1..n - 1 /\ (less + 1) + 1 = taken + 1 /\ less < n - 1
        BY <2>1, <3>1
      <4> QED
        BY <1>8, <1>11, <3>1, <4>1
    <3>2. CASE ~(taken < n)
      BY <1>8, <2>1, <3>2
    <3> QED
      BY <3>1, <3>2
  <2>7. w.closed => sent - 1 = n - 1
    BY <1>8
  <2>8. Len(x.channel) = sent - 1 /\ Len(later) = n - 1
    BY <1>6, <1>11, <1>15
  <2> QED
    BY <1>15, <2>2, <2>3, <2>4, <2>5, <2>6, <2>7, <2>8 DEF Sends
<1> QED
  BY <1>9, <1>10, <1>12, <1>13, <1>15, <1>16

-----------------------------------------------------------------------------
(* Every element in one place                                              *)

\* The decode unit adds the next number.
LEMMA PlacedAdd ==
  ASSUME NEW in \in Seq(Nat), NEW l \in Seq(Nat), NEW out \in Seq(Nat), NEW done,
         NEW c \in Nat, Placed(in, l, out, done, c)
  PROVE  Placed(Append(in, c + 1), l, out, done, c + 1)
<1>1. PICK x \in Nat : x = c + 1
  OBVIOUS
<1>2. PICK A : A = Members(in)
  OBVIOUS
<1>3. PICK L : L = Members(l)
  OBVIOUS
<1>4. PICK O : O = Members(out)
  OBVIOUS
<1>5. /\ Increasing(in) /\ Increasing(l) /\ Distinct(out)
      /\ \A a \in L, b \in A : a < b
      /\ A \cap O = {} /\ L \cap O = {} /\ A \cap done = {} /\ L \cap done = {}
      /\ O \cap done = {} /\ A \cup L \cup O \cup done = 1..c
  BY <1>2, <1>3, <1>4 DEF Placed
<1>6. /\ \A a \in A : a \in Nat /\ a < x
      /\ \A a \in L : a \in Nat /\ a < x
      /\ x \notin O /\ x \notin L /\ x \notin done /\ 1..x = 1..c \cup {x}
  BY <1>1, <1>5
<1>7. Increasing(Append(in, x)) /\ Members(Append(in, x)) = A \cup {x}
  BY <1>2, <1>5, <1>6, IncreasingAppend, MembersOfAppend
<1>8. PICK B : B = A \cup {x}
  OBVIOUS
<1>9. /\ \A a \in L, b \in B : a < b
      /\ B \cap O = {} /\ B \cap done = {} /\ B \cup L \cup O \cup done = 1..x
  BY <1>5, <1>6, <1>8
<1> QED
  BY <1>1, <1>3, <1>4, <1>5, <1>7, <1>8, <1>9, Zenon DEF Placed

\* An element goes from the list to the bus behind it.
LEMMA PlacedIssue ==
  ASSUME NEW in \in Seq(Nat), NEW out \in Seq(Nat), NEW done, NEW c \in Nat,
         NEW front \in Seq(Nat), NEW ahead \in Seq(Nat), ahead # << >>,
         Placed(in, front \o ahead, out, done, c)
  PROVE  Placed(in, front \o Tail(ahead), Append(out, Head(ahead)), done, c)
<1>1. PICK x \in Nat : x = Head(ahead)
  <2>1. Head(ahead) \in Nat
    BY HeadAndTail
  <2> QED
    BY <2>1, Zenon
<1>2. PICK A : A = Members(in)
  OBVIOUS
<1>3. PICK L : L = Members(front \o ahead)
  OBVIOUS
<1>4. PICK O : O = Members(out)
  OBVIOUS
<1>5. PICK M : M = Members(front \o Tail(ahead))
  OBVIOUS
<1>6. /\ Increasing(in) /\ Increasing(front \o ahead) /\ Distinct(out)
      /\ \A a \in L, b \in A : a < b
      /\ A \cap O = {} /\ L \cap O = {} /\ A \cap done = {} /\ L \cap done = {}
      /\ O \cap done = {} /\ A \cup L \cup O \cup done = 1..c
  BY <1>2, <1>3, <1>4 DEF Placed
<1>7. Increasing(front \o Tail(ahead)) /\ L = M \cup {x} /\ x \notin M
  BY <1>1, <1>3, <1>5, <1>6, IncreasingWithoutOne
<1>8. x \notin O /\ x \notin A /\ x \notin done
  <2>1. x \in L /\ ~(x < x)
    BY <1>7
  <2> QED
    BY <1>6, <2>1
<1>9. Distinct(Append(out, x)) /\ Members(Append(out, x)) = O \cup {x}
  BY <1>4, <1>6, <1>8, DistinctAppend, MembersOfAppend
<1>10. PICK P : P = O \cup {x}
  OBVIOUS
<1>11. /\ \A a \in M, b \in A : a < b
       /\ A \cap P = {} /\ M \cap P = {} /\ M \cap done = {} /\ P \cap done = {}
       /\ A \cup M \cup P \cup done = 1..c
  BY <1>6, <1>7, <1>8, <1>10
<1> QED
  BY <1>1, <1>2, <1>5, <1>6, <1>7, <1>9, <1>10, <1>11, Zenon DEF Placed

\* The control unit takes an element from the bus in front of it: it goes on
\* the list or on the bus behind it.
LEMMA PlacedTake ==
  ASSUME NEW in \in Seq(Nat), NEW l \in Seq(Nat), NEW out \in Seq(Nat), NEW done,
         NEW c \in Nat, in # << >>, Placed(in, l, out, done, c)
  PROVE  /\ Placed(Tail(in), l, Append(out, Head(in)), done, c)
         /\ Placed(Tail(in), Append(l, Head(in)), out, done, c)
<1>1. PICK x \in Nat : x = Head(in)
  <2>1. Head(in) \in Nat
    BY HeadAndTail
  <2> QED
    BY <2>1, Zenon
<1>2. PICK A : A = Members(in)
  OBVIOUS
<1>3. PICK L : L = Members(l)
  OBVIOUS
<1>4. PICK O : O = Members(out)
  OBVIOUS
<1>5. PICK B : B = Members(Tail(in))
  OBVIOUS
<1>6. /\ Increasing(in) /\ Increasing(l) /\ Distinct(out)
      /\ \A a \in L, b \in A : a < b
      /\ A \cap O = {} /\ L \cap O = {} /\ A \cap done = {} /\ L \cap done = {}
      /\ O \cap done = {} /\ A \cup L \cup O \cup done = 1..c
  BY <1>2, <1>3, <1>4 DEF Placed
<1>7. Increasing(Tail(in)) /\ \A b \in B : x < b
  BY <1>1, <1>5, <1>6, IncreasingTail
<1>8. A = {x} \cup B
  BY <1>1, <1>2, <1>5, HeadAndTail
<1>9. x \notin O /\ x \notin done /\ x \notin L /\ x \notin B /\ \A a \in L : a < x
  <2>1. x \in A /\ ~(x < x)
    BY <1>8
  <2>2. x \notin L
    BY <1>6, <2>1
  <2>3. x \notin B
    BY <1>7, <2>1
  <2> QED
    BY <1>6, <2>1, <2>2, <2>3
<1>10. Distinct(Append(out, x)) /\ Members(Append(out, x)) = O \cup {x}
  BY <1>4, <1>6, <1>9, DistinctAppend, MembersOfAppend
<1>11. Increasing(Append(l, x)) /\ Members(Append(l, x)) = L \cup {x}
  BY <1>3, <1>6, <1>9, IncreasingAppend, MembersOfAppend
<1>12. PICK P : P = O \cup {x}
  OBVIOUS
<1>13. PICK M : M = L \cup {x}
  OBVIOUS
<1>14. /\ \A a \in L, b \in B : a < b
       /\ B \cap P = {} /\ L \cap P = {} /\ B \cap done = {} /\ P \cap done = {}
       /\ B \cup L \cup P \cup done = 1..c
  BY <1>6, <1>8, <1>9, <1>12
<1>15. /\ \A a \in M, b \in B : a < b
       /\ B \cap O = {} /\ M \cap O = {} /\ M \cap done = {}
       /\ B \cup M \cup O \cup done = 1..c
  BY <1>6, <1>7, <1>8, <1>9, <1>13
<1>16. Placed(Tail(in), l, Append(out, x), done, c)
  BY <1>3, <1>5, <1>6, <1>7, <1>10, <1>12, <1>14, Zenon DEF Placed
<1>17. Placed(Tail(in), Append(l, x), out, done, c)
  BY <1>4, <1>5, <1>6, <1>7, <1>11, <1>13, <1>14, <1>15, Zenon DEF Placed
<1> QED
  BY <1>1, <1>16, <1>17, Zenon

\* The execute units take the first elements of their bus.
LEMMA PlacedExecute ==
  ASSUME NEW in \in Seq(Nat), NEW l \in Seq(Nat), NEW out \in Seq(Nat), NEW done,
         NEW c \in Nat, Placed(in, l, out, done, c),
         NEW n \in Nat, n <= Len(out)
  PROVE  Placed(in, l, SubSeq(out, n + 1, Len(out)), done \cup {out[i] : i \in 1..n}, c)
<1>1. PICK first : first = SubSeq(out, 1, n)
  OBVIOUS
<1>2. PICK rest : rest = SubSeq(out, n + 1, Len(out))
  OBVIOUS
<1>3. /\ first \in Seq(Nat) /\ Len(first) = n /\ \A i \in 1..n : first[i] = out[i]
  BY <1>1
<1>4. rest \in Seq(Nat)
  BY <1>2
<1>5. out = first \o rest
  <2>1. PICK m \in Nat : m = Len(out)
    OBVIOUS
  <2>2. 1 \in 1..Len(out) + 1 /\ n \in 1 - 1..Len(out) /\ Len(out) \in n..Len(out)
    BY <2>1
  <2>3. SubSeq(out, 1, n) \o SubSeq(out, n + 1, Len(out)) = SubSeq(out, 1, Len(out))
    BY <2>2, ConcatAdjacentSubSeq, Zenon
  <2>4. SubSeq(out, 1, Len(out)) = out
    BY SubSeqFull, Zenon
  <2> QED
    BY <1>1, <1>2, <2>3, <2>4, Zenon
<1>6. PICK F : F = Members(first)
  OBVIOUS
<1>7. F = {out[i] : i \in 1..n}
  <2>1. DOMAIN first = 1..n
    BY <1>3
  <2> QED
    BY <1>3, <1>6, <2>1 DEF Members
<1>8. PICK R : R = Members(rest)
  OBVIOUS
<1>9. PICK O : O = Members(out)
  OBVIOUS
<1>10. PICK A : A = Members(in)
  OBVIOUS
<1>11. PICK L : L = Members(l)
  OBVIOUS
<1>12. /\ Increasing(in) /\ Increasing(l) /\ Distinct(out)
       /\ \A a \in L, b \in A : a < b
       /\ A \cap O = {} /\ L \cap O = {} /\ A \cap done = {} /\ L \cap done = {}
       /\ O \cap done = {} /\ A \cup L \cup O \cup done = 1..c
  BY <1>9, <1>10, <1>11 DEF Placed
<1>13. O = F \cup R
  <2>1. Members(first \o rest) = Members(first) \cup Members(rest)
    BY <1>3, <1>4, MembersOfConcat, Zenon
  <2> QED
    BY <1>5, <1>6, <1>8, <1>9, <2>1, Zenon
<1>14. Distinct(rest) /\ F \cap R = {}
  <2>1. Distinct(first \o rest)
    BY <1>5, <1>12, Zenon
  <2>2. Distinct(rest) /\ Members(first) \cap Members(rest) = {}
    BY <1>3, <1>4, <2>1, DistinctParts, Zenon
  <2> QED
    BY <1>6, <1>8, <2>2, Zenon
<1>15. PICK D : D = done \cup F
  OBVIOUS
<1>16. /\ A \cap R = {} /\ L \cap R = {} /\ A \cap D = {} /\ L \cap D = {}
       /\ R \cap D = {} /\ A \cup L \cup R \cup D = 1..c
  BY <1>12, <1>13, <1>14, <1>15
<1>17. Placed(in, l, rest, D, c)
  BY <1>8, <1>10, <1>11, <1>12, <1>14, <1>16, Zenon DEF Placed
<1> QED
  BY <1>2, <1>7, <1>15, <1>17, Zenon

\* A sequence that does not repeat itself has as many members as it is long.
LEMMA MembersCounted ==
  ASSUME NEW s \in Seq(Nat), Distinct(s)
  PROVE  IsFiniteSet(Members(s)) /\ Cardinality(Members(s)) = Len(s)
<1>1. PICK n \in Nat : n = Len(s)
  OBVIOUS
<1>2. DOMAIN s = 1..n /\ s \in [1..n -> Nat]
  BY <1>1
<1>3. s \in Bijection(1..n, Members(s))
  <2>1. s \in [1..n -> Members(s)]
    BY <1>2 DEF Members
  <2>2. \A a, b \in 1..n : s[a] = s[b] => a = b
    BY <1>2 DEF Distinct
  <2>3. \A y \in Members(s) : \E i \in 1..n : s[i] = y
    BY <1>2 DEF Members
  <2>4. s \in Injection(1..n, Members(s))
    BY <1>2, <2>1, <2>2 DEF Injection, IsInjective
  <2>5. s \in Surjection(1..n, Members(s))
    BY <2>1, <2>3 DEF Surjection
  <2> QED
    BY <2>4, <2>5 DEF Bijection
<1>4. ExistsBijection(1..n, Members(s))
  BY <1>3, Zenon DEF ExistsBijection
<1>5. IsFiniteSet(Members(s)) /\ Cardinality(Members(s)) = n
  BY <1>4, FS_CountingElements, FS_NatBijection, Zenon
<1> QED
  BY <1>1, <1>5

\* Two finite sets without a common member.
LEMMA DisjointCounted ==
  ASSUME NEW X, NEW Y, IsFiniteSet(X), IsFiniteSet(Y), X \cap Y = {}
  PROVE  /\ IsFiniteSet(X \cup Y) /\ Cardinality(X) \in Nat /\ Cardinality(Y) \in Nat
         /\ Cardinality(X \cup Y) = Cardinality(X) + Cardinality(Y)
<1>1. Cardinality(X) \in Nat /\ Cardinality(Y) \in Nat
  BY FS_CardinalityType
<1>2. /\ IsFiniteSet(X \cup Y)
      /\ Cardinality(X \cup Y) = Cardinality(X) + Cardinality(Y) - Cardinality(X \cap Y)
  BY FS_Union, Zenon
<1>3. Cardinality(X \cap Y) = 0
  BY FS_EmptySet
<1> QED
  BY <1>1, <1>2, <1>3

\* All elements together are as many as were added.
LEMMA PlacedCounts ==
  ASSUME NEW in \in Seq(Nat), NEW l \in Seq(Nat), NEW out \in Seq(Nat), NEW done,
         NEW c \in Nat, Placed(in, l, out, done, c)
  PROVE  Len(in) + Len(l) + Len(out) + Cardinality(done) = c
<1>1. PICK A : A = Members(in)
  OBVIOUS
<1>2. PICK L : L = Members(l)
  OBVIOUS
<1>3. PICK O : O = Members(out)
  OBVIOUS
<1>4. /\ Increasing(in) /\ Increasing(l) /\ Distinct(out)
      /\ \A a \in L, b \in A : a < b
      /\ A \cap O = {} /\ L \cap O = {} /\ A \cap done = {} /\ L \cap done = {}
      /\ O \cap done = {} /\ A \cup L \cup O \cup done = 1..c
  BY <1>1, <1>2, <1>3 DEF Placed
<1>5. /\ IsFiniteSet(A) /\ Cardinality(A) = Len(in) /\ IsFiniteSet(L) /\ Cardinality(L) = Len(l)
      /\ IsFiniteSet(O) /\ Cardinality(O) = Len(out)
  BY <1>1, <1>2, <1>3, <1>4, IncreasingIsDistinct, MembersCounted
<1>6. IsFiniteSet(1..c) /\ Cardinality(1..c) = c
  BY FS_Interval
<1>7. IsFiniteSet(done)
  <2>1. done \subseteq 1..c
    BY <1>4
  <2> QED
    BY <1>6, <2>1, FS_Subset, Zenon
<1>8. A \cap L = {}
  <2>1. \A a \in A : a \in Nat
    BY <1>4
  <2> QED
    BY <1>4, <2>1
<1>9. IsFiniteSet(A \cup L) /\ Cardinality(A \cup L) = Len(in) + Len(l)
  BY <1>5, <1>8, DisjointCounted, SMTT(30), ZenonT(40)
<1>10. IsFiniteSet(A \cup L \cup O) /\ Cardinality(A \cup L \cup O) = Len(in) + Len(l) + Len(out)
  <2>1. (A \cup L) \cap O = {}
    BY <1>4
  <2>2. PICK X : X = A \cup L
    OBVIOUS
  <2>3. IsFiniteSet(X \cup O) /\ Cardinality(X \cup O) = Cardinality(X) + Cardinality(O)
    BY <1>5, <1>9, <2>1, <2>2, DisjointCounted
  <2> QED
    BY <1>5, <1>9, <2>2, <2>3
<1>11. Cardinality(A \cup L \cup O \cup done)
         = Cardinality(A \cup L \cup O) + Cardinality(done)
  <2>1. PICK X : X = A \cup L \cup O
    OBVIOUS
  <2>2. X \cap done = {}
    BY <1>4, <2>1
  <2>3. IsFiniteSet(X)
    BY <1>10, <2>1
  <2>4. Cardinality(X \cup done) = Cardinality(X) + Cardinality(done)
    BY <1>7, <2>2, <2>3, DisjointCounted
  <2> QED
    BY <2>1, <2>4
<1> QED
  BY <1>4, <1>6, <1>10, <1>11

-----------------------------------------------------------------------------
(* The operations of the control unit                                      *)

\* An element is issued or not, and finds room on the bus.
LEMMA IssuedElement ==
  ASSUME outBus \in BusOf(Nat), Len(outBus.buffer) <= BufferLength,
         NEW e \in Nat, NEW push \in BOOLEAN, NEW stop \in BOOLEAN, Handled(push, stop)
  PROVE  /\ Issued(push, e) \in BusOf(Nat)
         /\ Len(Issued(push, e).buffer) <= BufferLength
         /\ push => Elements(Issued(push, e)) = Append(Elements(outBus), e)
         /\ ~push => Issued(push, e) = outBus
<1>1. CASE push
  <2>1. Issued(push, e) = Add(outBus, e, 0)
    BY <1>1, Zenon DEF Issued
  <2>2. PICK bus : bus = Add(outBus, e, 0)
    OBVIOUS
  <2>3. /\ bus \in BusOf(Nat) /\ Elements(bus) = Append(Elements(outBus), e)
        /\ Len(bus.buffer) = Len(outBus.buffer) + 1
    <3>1. 0 \in Nat
      OBVIOUS
    <3>2. /\ Add(outBus, e, 0) \in BusOf(Nat)
          /\ Elements(Add(outBus, e, 0)) = Append(Elements(outBus), e)
          /\ Len(Add(outBus, e, 0).buffer) = Len(outBus.buffer) + 1
      BY <3>1, AddAppends, Zenon
    <3> QED
      BY <2>2, <3>2, Zenon
  <2>4. Len(outBus.buffer) # BufferLength
    BY <1>1, Zenon DEF Handled, CanAdd
  <2>5. Len(outBus.buffer) \in Nat
    BY ElementsAreSeq, Zenon
  <2>6. Len(bus.buffer) <= BufferLength
    BY <2>3, <2>4, <2>5, BufferedBusAssumption
  <2> QED
    BY <1>1, <2>1, <2>2, <2>3, <2>6, Zenon
<1>2. CASE ~push
  BY <1>2, Zenon DEF Issued
<1> QED
  BY <1>1, <1>2, Zenon

\* The queue starts empty.
LEMMA QueueInitially == InitQueue => QueueInv
<1> SUFFICES ASSUME InitQueue PROVE QueueInv
  OBVIOUS
<1>1. /\ NewBus \in BusOf(Nat) /\ Elements(NewBus) = << >>
      /\ NewBus.queue = << >> /\ Len(NewBus.buffer) = 0
  BY NewBusIsEmpty
<1>2. << >> \in Seq(Nat) /\ Len(<< >>) = 0
  OBVIOUS
<1>3. NoWalk \in WalkType /\ NoWalk.closed
  BY <1>2 DEF NoWalk, WalkType
<1>4. QueueTypeOK
  BY <1>1, <1>2, <1>3 DEF InitQueue, QueueTypeOK
<1>5. Placed(<< >>, << >>, << >>, {}, 0)
  <2>1. 1..0 = {}
    OBVIOUS
  <2> QED
    BY <2>1, EmptyIsIncreasing DEF Placed
<1>6. InOnePlace
  BY <1>1, <1>5 DEF InitQueue, InOnePlace
<1>7. HasRoom
  BY <1>1, <1>2, BufferedBusAssumption, PendingQueueAssumption DEF InitQueue, HasRoom
<1>8. Looping
  <2>1. << >> = << >> \o << >>
    BY <1>2, ConcatEmptySeq
  <2>2. LoopIsAt(<< >>)
    BY <2>1 DEF InitQueue, LoopIsAt
  <2> QED
    BY <1>2, <1>3, <2>2 DEF InitQueue, Looping
<1> QED
  BY <1>4, <1>6, <1>7, <1>8 DEF QueueInv

\* What the steps below know of the sequences in a state.
LEMMA QueueFacts ==
  ASSUME QueueInv
  PROVE  /\ inBus \in BusOf(Nat) /\ outBus \in BusOf(Nat) /\ list \in Seq(Nat)
         /\ walk \in WalkType /\ added \in Nat /\ snapshot \in Seq(Nat) /\ seen \in Seq(Nat)
         /\ Elements(inBus) \in Seq(Nat) /\ Elements(outBus) \in Seq(Nat)
         /\ Len(outBus.buffer) \in Nat /\ Len(outBus.buffer) <= BufferLength
         /\ Len(list) \in Nat /\ Len(list) <= PendingLength
         /\ Placed(Elements(inBus), list, Elements(outBus), executed, added)
         /\ Increasing(list) /\ Distinct(list) /\ 0 \notin Members(list)
<1>1. /\ inBus \in BusOf(Nat) /\ outBus \in BusOf(Nat) /\ list \in Seq(Nat)
      /\ walk \in WalkType /\ added \in Nat /\ snapshot \in Seq(Nat) /\ seen \in Seq(Nat)
  BY Zenon DEF QueueInv, QueueTypeOK
<1>2. /\ Elements(inBus) \in Seq(Nat) /\ Elements(outBus) \in Seq(Nat)
      /\ Len(outBus.buffer) \in Nat
  BY <1>1, ElementsAreSeq, Zenon
<1>3. Placed(Elements(inBus), list, Elements(outBus), executed, added)
  BY Zenon DEF QueueInv, InOnePlace
<1>4. Increasing(list)
  BY <1>3, Zenon DEF Placed
<1>5. Distinct(list)
  BY <1>1, <1>4, IncreasingIsDistinct, Zenon
<1>6. 0 \notin Members(list)
  <2>1. PICK A : A = Members(Elements(inBus))
    OBVIOUS
  <2>2. PICK L : L = Members(list)
    OBVIOUS
  <2>3. PICK O : O = Members(Elements(outBus))
    OBVIOUS
  <2>4. A \cup L \cup O \cup executed = 1..added
    BY <1>3, <2>1, <2>2, <2>3, Zenon DEF Placed
  <2> QED
    BY <2>2, <2>4
<1>7. Len(list) \in Nat
  BY <1>1
<1>8. Len(outBus.buffer) <= BufferLength /\ Len(list) <= PendingLength
  BY Zenon DEF QueueInv, HasRoom
<1> QED
  BY <1>1, <1>2, <1>3, <1>4, <1>5, <1>6, <1>7, <1>8, Zenon

\* Outside the loop over the iterator nothing is sent.
LEMMA NotLooping ==
  ASSUME QueueInv, UNCHANGED <<walk, snapshot, seen>>, place # "range",
         place' # "range", place' = "take" => place = "take"
  PROVE  Looping'
<1>1. PICK ahead \in Seq(Nat) : LoopIsAt(ahead)
  BY Zenon DEF QueueInv, Looping
<1>2. snapshot' = seen' \o ahead /\ (place' = "take" => ahead = << >>)
  BY <1>1 DEF LoopIsAt
<1>3. LoopIsAt(ahead)'
  BY <1>2 DEF LoopIsAt
<1>4. walk'.closed
  BY DEF QueueInv, Looping
<1> QED
  BY <1>3, <1>4, Zenon DEF Looping

\* The decode unit adds up to two elements.
LEMMA QueueDecodes == QueueInv /\ DecodeCycle => QueueInv'
<1> SUFFICES ASSUME QueueInv, DecodeCycle PROVE QueueInv'
  OBVIOUS
<1>1. /\ inBus \in BusOf(Nat) /\ outBus \in BusOf(Nat) /\ list \in Seq(Nat)
      /\ walk \in WalkType /\ added \in Nat /\ snapshot \in Seq(Nat) /\ seen \in Seq(Nat)
      /\ Elements(inBus) \in Seq(Nat) /\ Elements(outBus) \in Seq(Nat)
      /\ Placed(Elements(inBus), list, Elements(outBus), executed, added)
  BY QueueFacts, Zenon
<1>2. PICK one : one = Add(inBus, added + 1, 0)
  OBVIOUS
<1>3. PICK two : two = Add(one, added + 2, 0)
  OBVIOUS
<1>4. PICK n \in 0..2 : added' = added + n /\ inBus' = <<inBus, one, two>>[n + 1]
  BY <1>2, <1>3 DEF DecodeCycle
<1>5. /\ place = "decode" /\ place' = "control"
      /\ UNCHANGED <<outBus, list, walkVars, executed, snapshot, seen>>
  BY DEF DecodeCycle, GoTo
<1>6. /\ one \in BusOf(Nat) /\ Elements(one) = Append(Elements(inBus), added + 1)
  <2>1. added + 1 \in Nat /\ 0 \in Nat
    BY <1>1
  <2> QED
    BY <1>1, <1>2, <2>1, AddAppends, Zenon
<1>7. /\ two \in BusOf(Nat) /\ Elements(two) = Append(Elements(one), added + 2)
  <2>1. added + 2 \in Nat /\ 0 \in Nat
    BY <1>1
  <2> QED
    BY <1>3, <1>6, <2>1, AddAppends, Zenon
<1>8. Placed(Elements(one), list, Elements(outBus), executed, added + 1)
  BY <1>1, <1>6, PlacedAdd, Zenon
<1>9. Placed(Elements(two), list, Elements(outBus), executed, added + 2)
  <2>1. added + 1 \in Nat /\ (added + 1) + 1 = added + 2
    BY <1>1
  <2>2. Elements(one) \in Seq(Nat)
    BY <1>6, ElementsAreSeq, Zenon
  <2>3. Placed(Append(Elements(one), (added + 1) + 1), list, Elements(outBus), executed,
               (added + 1) + 1)
    BY <1>1, <1>8, <2>1, <2>2, PlacedAdd, Zenon
  <2> QED
    BY <1>7, <2>1, <2>3, Zenon
<1>10. /\ inBus' \in BusOf(Nat) /\ added' \in Nat
       /\ Placed(Elements(inBus'), list, Elements(outBus), executed, added')
  <2>1. CASE n = 0
    <3>1. inBus' = inBus /\ added' = added
      BY <1>1, <1>4, <2>1
    <3> QED
      BY <1>1, <3>1
  <2>2. CASE n = 1
    <3>1. inBus' = one /\ added' = added + 1 /\ added' \in Nat
      BY <1>1, <1>4, <2>2
    <3> QED
      BY <1>6, <1>8, <3>1
  <2>3. CASE n = 2
    <3>1. inBus' = two /\ added' = added + 2 /\ added' \in Nat
      BY <1>1, <1>4, <2>3
    <3> QED
      BY <1>7, <1>9, <3>1
  <2> QED
    BY <2>1, <2>2, <2>3
<1>11. QueueTypeOK'
  BY <1>1, <1>5, <1>10 DEF QueueTypeOK, walkVars
<1>12. InOnePlace'
  BY <1>5, <1>10 DEF InOnePlace
<1>13. HasRoom'
  BY <1>5 DEF QueueInv, HasRoom
<1>14. Looping'
  BY <1>5, NotLooping DEF walkVars
<1> QED
  BY <1>11, <1>12, <1>13, <1>14, Zenon DEF QueueInv

\* The control unit starts, with the loop over the iterator or without.
LEMMA QueueStarts == QueueInv /\ ControlStarts => QueueInv'
<1> SUFFICES ASSUME QueueInv, ControlStarts PROVE QueueInv'
  OBVIOUS
<1>1. /\ inBus \in BusOf(Nat) /\ outBus \in BusOf(Nat) /\ list \in Seq(Nat)
      /\ walk \in WalkType /\ added \in Nat /\ snapshot \in Seq(Nat) /\ seen \in Seq(Nat)
  BY QueueFacts, Zenon
<1>2. /\ place = "control"
      /\ UNCHANGED <<inBus, outBus, list, abandoned, added, executed>>
  BY DEF ControlStarts
<1>3. InOnePlace' /\ HasRoom'
  BY <1>2 DEF QueueInv, InOnePlace, HasRoom
<1>4. CASE place' = "execute" /\ UNCHANGED <<walk, snapshot, seen>>
  <2>1. QueueTypeOK'
    BY <1>1, <1>2, <1>4 DEF QueueTypeOK
  <2>2. Looping'
    BY <1>2, <1>4, NotLooping
  <2> QED
    BY <1>3, <2>1, <2>2, Zenon DEF QueueInv
<1>5. CASE place' = "range" /\ walk' = Iterator /\ snapshot' = list /\ seen' = << >>
  <2>1. << >> \in Seq(Nat) /\ Len(<< >>) = 0 /\ << >> \o list = list /\ Len(list) \in Nat
    BY <1>1, ConcatEmptySeq
  <2>2. list # << >> => Head(list) \in Nat /\ Head(list) = list[1] /\ Len(list) # 0
    BY <1>1, HeadAndTail
  <2>3. PICK head \in Nat : head = IF list = << >> THEN 0 ELSE Head(list)
    BY <2>2
  <2>4. Iterator = [next |-> head, current |-> 0, channel |-> << >>,
                    capacity |-> Len(list), closed |-> FALSE]
    BY <2>3, Zenon DEF Iterator
  <2>5. Iterator \in WalkType
    BY <2>1, <2>4 DEF WalkType
  <2>6. /\ Iterator.next = head /\ Iterator.current = 0 /\ Iterator.channel = << >>
        /\ Iterator.closed = FALSE
    BY <2>4
  <2>7. head = IF 0 < Len(list) THEN list[0 + 1] ELSE 0
    BY <2>1, <2>2, <2>3
  <2>8. Sends(Iterator, list)
    BY <2>1, <2>6, <2>7 DEF Sends
  <2>9. QueueTypeOK'
    BY <1>1, <1>2, <1>5, <2>1, <2>5 DEF QueueTypeOK
  <2>10. LoopIsAt(list)'
    <3>1. snapshot' = seen' \o list /\ list' = << >> \o list' /\ list' = list
      BY <1>2, <1>5, <2>1
    <3>2. Sends(walk', list')
      BY <1>2, <1>5, <2>8
    <3>3. \E front \in Seq(Nat) : list' = front \o list'
      BY <2>1, <3>1, Zenon
    <3>4. place' # "take"
      BY <1>5
    <3> QED
      BY <3>1, <3>2, <3>3, <3>4, Zenon DEF LoopIsAt
  <2>11. Looping'
    <3>1. list' \in Seq(Nat) /\ place' = "range"
      BY <1>1, <1>2, <1>5
    <3> QED
      BY <2>10, <3>1, Zenon DEF Looping
  <2> QED
    BY <1>3, <2>9, <2>11, Zenon DEF QueueInv
<1> QED
  BY <1>4, <1>5, Zenon DEF ControlStarts, GoTo

\* The head of what is ahead goes behind what is in front.
LEMMA ShiftHead ==
  ASSUME NEW front \in Seq(Nat), NEW ahead \in Seq(Nat), ahead # << >>
  PROVE  /\ Append(front, Head(ahead)) \in Seq(Nat) /\ Tail(ahead) \in Seq(Nat)
         /\ front \o ahead = Append(front, Head(ahead)) \o Tail(ahead)
<1>1. PICK h \in Nat : h = Head(ahead)
  <2>1. Head(ahead) \in Nat
    BY HeadAndTail
  <2> QED
    BY <2>1, Zenon
<1>2. Tail(ahead) \in Seq(Nat)
  BY HeadAndTail
<1>3. PICK t \in Seq(Nat) : t = Tail(ahead)
  BY <1>2, Zenon
<1>4. PICK one \in Seq(Nat) : one = <<h>>
  <2>1. <<h>> \in Seq(Nat)
    OBVIOUS
  <2> QED
    BY <2>1, Zenon
<1>5. ahead = one \o t
  BY <1>1, <1>3, <1>4, HeadAndTail, Zenon
<1>6. (front \o one) \o t = front \o (one \o t)
  BY ConcatAssociative, SMTT(30), ZenonT(40)
<1>7. front \o one = Append(front, h) /\ Append(front, h) \in Seq(Nat)
  BY <1>4
<1> QED
  BY <1>1, <1>3, <1>5, <1>6, <1>7, Zenon

\* The loop receives an element, and may remove it or leave the loop.
LEMMA QueueReceives == QueueInv /\ RangeReceives => QueueInv'
<1> SUFFICES ASSUME QueueInv, RangeReceives PROVE QueueInv'
  OBVIOUS
<1>1. /\ inBus \in BusOf(Nat) /\ outBus \in BusOf(Nat) /\ list \in Seq(Nat)
      /\ walk \in WalkType /\ added \in Nat /\ snapshot \in Seq(Nat) /\ seen \in Seq(Nat)
      /\ Elements(inBus) \in Seq(Nat) /\ Elements(outBus) \in Seq(Nat)
      /\ Len(outBus.buffer) \in Nat /\ Len(outBus.buffer) <= BufferLength
      /\ Len(list) \in Nat /\ Len(list) <= PendingLength
      /\ Placed(Elements(inBus), list, Elements(outBus), executed, added)
      /\ Increasing(list) /\ Distinct(list) /\ 0 \notin Members(list)
  BY QueueFacts, Zenon
<1>2. /\ place = "range" /\ walk.channel # << >>
      /\ UNCHANGED <<inBus, added, executed, snapshot>>
  BY Zenon DEF RangeReceives
<1>3. PICK e : e = Head(walk.channel)
  OBVIOUS
<1>4. PICK rest : rest = [walk EXCEPT !.channel = Tail(@)]
  OBVIOUS
<1>5. PICK push \in BOOLEAN, stop \in BOOLEAN :
        /\ Handled(push, stop)
        /\ seen' = Append(seen, e)
        /\ outBus' = Issued(push, e)
        /\ list' = (IF push THEN Removed(e) ELSE list)
        /\ place' = (IF stop THEN "execute" ELSE "range")
        /\ walk' = (IF stop THEN NoWalk ELSE rest)
  BY <1>3, <1>4, Zenon DEF RangeReceives, GoTo
<1>6. PICK ahead \in Seq(Nat) : LoopIsAt(ahead)
  BY Zenon DEF QueueInv, Looping
<1>7. PICK front \in Seq(Nat) : list = front \o ahead
  BY <1>2, <1>6, Zenon DEF LoopIsAt
<1>8. snapshot = seen \o ahead /\ Sends(walk, ahead)
  BY <1>2, <1>6, Zenon DEF LoopIsAt
<1>9. ahead # << >> /\ e = Head(ahead) /\ rest \in WalkType /\ Sends(rest, Tail(ahead))
  BY <1>1, <1>2, <1>3, <1>4, <1>8, SendsReceived, Zenon
<1>10. e \in Nat /\ Tail(ahead) \in Seq(Nat)
  BY <1>9, HeadAndTail
<1>11. PICK later \in Seq(Nat) : later = Tail(ahead)
  BY <1>10, Zenon
<1>12. /\ Append(front, e) \in Seq(Nat) /\ list = Append(front, e) \o later
       /\ Append(seen, e) \in Seq(Nat) /\ snapshot = Append(seen, e) \o later
  <2>1. /\ Append(front, e) \in Seq(Nat)
        /\ front \o ahead = Append(front, e) \o later
    BY <1>9, <1>11, ShiftHead, Zenon
  <2>2. /\ Append(seen, e) \in Seq(Nat)
        /\ seen \o ahead = Append(seen, e) \o later
    BY <1>1, <1>9, <1>11, ShiftHead, Zenon
  <2> QED
    BY <1>7, <1>8, <2>1, <2>2, Zenon
<1>13. /\ front \o later \in Seq(Nat) /\ Len(front \o later) <= Len(list)
       /\ Removed(e) = front \o later
  <2>1. Increasing(front \o ahead)
    BY <1>1, <1>7, Zenon
  <2>2. /\ front \o later \in Seq(Nat) /\ Len(front \o later) <= Len(front \o ahead)
    BY <1>9, <1>11, <2>1, IncreasingWithoutOne, Zenon
  <2>3. Removed(e) = front \o later
    BY <1>1, <1>7, <1>9, <1>11, RemovedHead, Zenon
  <2> QED
    BY <1>7, <2>2, <2>3, Zenon
<1>14. /\ outBus' \in BusOf(Nat) /\ Len(outBus'.buffer) <= BufferLength
       /\ (push => Elements(outBus') = Append(Elements(outBus), e))
       /\ (~push => outBus' = outBus)
  BY <1>1, <1>5, <1>10, IssuedElement, Zenon
<1>15. list' \in Seq(Nat) /\ Len(list') <= PendingLength
  <2>1. CASE push
    <3>1. list' = front \o later
      BY <1>5, <1>13, <2>1, Zenon
    <3>2. PICK new \in Seq(Nat) : new = list'
      BY <1>13, <3>1, Zenon
    <3>3. Len(new) <= Len(list) /\ Len(new) \in Nat
      BY <1>13, <3>1, <3>2
    <3>4. Len(new) <= PendingLength
      BY <1>1, <3>3, PendingQueueAssumption
    <3> QED
      BY <3>2, <3>4, Zenon
  <2>2. CASE ~push
    BY <1>1, <1>5, <2>2, Zenon
  <2> QED
    BY <2>1, <2>2, Zenon
<1>16. InOnePlace'
  <2>1. CASE push
    <3>1. Placed(Elements(inBus), front \o ahead, Elements(outBus), executed, added)
      BY <1>1, <1>7, Zenon
    <3>2. Placed(Elements(inBus), front \o later, Append(Elements(outBus), e), executed, added)
      BY <1>1, <1>9, <1>11, <3>1, PlacedIssue, Zenon
    <3>3. Elements(inBus') = Elements(inBus) /\ executed' = executed /\ added' = added
      BY <1>2
    <3>4. list' = front \o later /\ Elements(outBus') = Append(Elements(outBus), e)
      BY <1>5, <1>13, <1>14, <2>1, Zenon
    <3>5. Placed(Elements(inBus'), list', Elements(outBus'), executed', added')
      BY <3>2, <3>3, <3>4
    <3> QED
      BY <3>5, Zenon DEF InOnePlace
  <2>2. CASE ~push
    <3>1. list' = list /\ outBus' = outBus
      BY <1>5, <1>14, <2>2, Zenon
    <3> QED
      BY <1>1, <1>2, <3>1 DEF InOnePlace
  <2> QED
    BY <2>1, <2>2, Zenon
<1>17. HasRoom'
  BY <1>14, <1>15, Zenon DEF HasRoom
<1>18. NoWalk \in WalkType /\ NoWalk.closed
  <2>1. << >> \in Seq(Nat)
    OBVIOUS
  <2> QED
    BY <2>1 DEF NoWalk, WalkType
<1>19. walk' \in WalkType /\ (stop => walk'.closed) /\ (~stop => walk' = rest)
  BY <1>5, <1>9, <1>18
<1>20. place' \in {"decode", "control", "range", "take", "execute"}
  BY <1>5
<1>21. QueueTypeOK'
  <2>1. /\ inBus' \in BusOf(Nat) /\ added' \in Nat /\ snapshot' \in Seq(Nat)
    BY <1>1, <1>2
  <2>2. seen' \in Seq(Nat)
    BY <1>5, <1>12, Zenon
  <2> QED
    BY <1>14, <1>15, <1>19, <1>20, <2>1, <2>2, Zenon DEF QueueTypeOK
<1>22. \E start \in Seq(Nat) : list' = start \o later
  <2>1. CASE push
    BY <1>5, <1>13, <2>1, Zenon
  <2>2. CASE ~push
    BY <1>5, <1>12, <2>2, Zenon
  <2> QED
    BY <2>1, <2>2, Zenon
<1>23. LoopIsAt(later)'
  <2>1. snapshot' = seen' \o later
    <3>1. snapshot' = snapshot
      BY <1>2
    <3> QED
      BY <1>5, <1>12, <3>1, Zenon
  <2>2. place' # "take"
    BY <1>5
  <2>3. place' = "range" => Sends(walk', later)
    <3>1. place' = "range" => ~stop
      BY <1>5
    <3> QED
      BY <1>9, <1>11, <1>19, <3>1, Zenon
  <2> QED
    BY <1>22, <2>1, <2>2, <2>3, Zenon DEF LoopIsAt
<1>24. Looping'
  <2>1. place' # "range" => stop
    BY <1>5
  <2> QED
    BY <1>19, <1>23, <2>1, Zenon DEF Looping
<1> QED
  BY <1>16, <1>17, <1>21, <1>24, Zenon DEF QueueInv

\* The channel is closed and empty: the loop has received everything.
LEMMA QueueRangeEnds == QueueInv /\ RangeEnds => QueueInv'
<1> SUFFICES ASSUME QueueInv, RangeEnds PROVE QueueInv'
  OBVIOUS
<1>1. /\ place = "range" /\ walk.channel = << >> /\ walk.closed /\ place' = "take"
      /\ UNCHANGED <<inBus, outBus, list, walk, abandoned, added, executed, snapshot, seen>>
  BY DEF RangeEnds, GoTo, walkVars
<1>2. InOnePlace' /\ HasRoom'
  BY <1>1 DEF QueueInv, InOnePlace, HasRoom
<1>3. QueueTypeOK'
  <2>1. place' \in {"decode", "control", "range", "take", "execute"}
    BY <1>1
  <2> QED
    BY <1>1, <2>1 DEF QueueInv, QueueTypeOK
<1>4. PICK ahead \in Seq(Nat) : LoopIsAt(ahead)
  BY Zenon DEF QueueInv, Looping
<1>5. snapshot = seen \o ahead /\ Sends(walk, ahead)
  BY <1>1, <1>4, Zenon DEF LoopIsAt
<1>6. ahead = << >>
  <2>1. Len(walk.channel) = 0
    BY <1>1
  <2>2. Len(ahead) = 0
    BY <1>1, <1>5, <2>1 DEF Sends
  <2> QED
    BY <2>2
<1>7. LoopIsAt(ahead)'
  BY <1>1, <1>5, <1>6 DEF LoopIsAt
<1>8. Looping'
  <2>1. walk'.closed
    BY <1>1
  <2> QED
    BY <1>7, <2>1, Zenon DEF Looping
<1> QED
  BY <1>2, <1>3, <1>8, Zenon DEF QueueInv

\* The control unit takes an element the decode unit has sent.
LEMMA QueueTakes == QueueInv /\ ControlTakes => QueueInv'
<1> SUFFICES ASSUME QueueInv, ControlTakes PROVE QueueInv'
  OBVIOUS
<1>1. /\ inBus \in BusOf(Nat) /\ outBus \in BusOf(Nat) /\ list \in Seq(Nat)
      /\ walk \in WalkType /\ added \in Nat /\ snapshot \in Seq(Nat) /\ seen \in Seq(Nat)
      /\ Elements(inBus) \in Seq(Nat) /\ Elements(outBus) \in Seq(Nat)
      /\ Len(outBus.buffer) \in Nat /\ Len(outBus.buffer) <= BufferLength
      /\ Len(list) \in Nat /\ Len(list) <= PendingLength
      /\ Placed(Elements(inBus), list, Elements(outBus), executed, added)
  BY QueueFacts, Zenon
<1>2. PICK e : e = Oldest(inBus)
  OBVIOUS
<1>3. /\ place = "take" /\ ~IsFull /\ CanGet(inBus)
      /\ UNCHANGED <<walk, abandoned, added, executed, snapshot, seen>>
  BY DEF ControlTakes, walkVars
<1>4. PICK push \in BOOLEAN, stop \in BOOLEAN :
        /\ Handled(push, stop)
        /\ inBus' = AfterGet(inBus)
        /\ outBus' = Issued(push, e)
        /\ list' = (IF push THEN list ELSE Append(list, e))
        /\ place' = (IF stop THEN "execute" ELSE "take")
  BY <1>2, Zenon DEF ControlTakes, GoTo
<1>5. PICK in \in Seq(Nat) : in = Elements(inBus)
  BY <1>1, Zenon
<1>6. /\ inBus' \in BusOf(Nat) /\ in # << >> /\ e = Head(in) /\ Elements(inBus') = Tail(in)
  BY <1>1, <1>2, <1>3, <1>4, <1>5, GetTakesOldest, Zenon
<1>7. e \in Nat
  BY <1>6, HeadAndTail
<1>8. /\ outBus' \in BusOf(Nat) /\ Len(outBus'.buffer) <= BufferLength
      /\ (push => Elements(outBus') = Append(Elements(outBus), e))
      /\ (~push => outBus' = outBus)
  BY <1>1, <1>4, <1>7, IssuedElement, Zenon
<1>9. /\ Placed(Tail(in), list, Append(Elements(outBus), e), executed, added)
      /\ Placed(Tail(in), Append(list, e), Elements(outBus), executed, added)
  BY <1>1, <1>5, <1>6, PlacedTake, Zenon
<1>10. executed' = executed /\ added' = added
  BY <1>3
<1>11. /\ InOnePlace' /\ list' \in Seq(Nat) /\ Len(list') <= PendingLength
  <2>1. CASE push
    <3>1. list' = list /\ Elements(outBus') = Append(Elements(outBus), e)
      BY <1>4, <1>8, <2>1, Zenon
    <3>2. Placed(Elements(inBus'), list', Elements(outBus'), executed', added')
      BY <1>6, <1>9, <1>10, <3>1
    <3> QED
      BY <1>1, <3>1, <3>2, Zenon DEF InOnePlace
  <2>2. CASE ~push
    <3>1. list' = Append(list, e) /\ outBus' = outBus
      BY <1>4, <1>8, <2>2, Zenon
    <3>2. Placed(Elements(inBus'), list', Elements(outBus'), executed', added')
      BY <1>6, <1>9, <1>10, <3>1
    <3>3. list' \in Seq(Nat) /\ Len(list') = Len(list) + 1
      BY <1>1, <1>7, <3>1
    <3>4. Len(list) < PendingLength
      BY <1>1, <1>3, PendingQueueAssumption DEF IsFull
    <3>5. Len(list') <= PendingLength
      BY <1>1, <3>3, <3>4, PendingQueueAssumption
    <3> QED
      BY <3>2, <3>3, <3>5, Zenon DEF InOnePlace
  <2> QED
    BY <2>1, <2>2, Zenon
<1>12. HasRoom'
  BY <1>8, <1>11, Zenon DEF HasRoom
<1>13. place' \in {"decode", "control", "range", "take", "execute"} /\ place' # "range"
  BY <1>4
<1>14. QueueTypeOK'
  <2>1. walk' \in WalkType /\ added' \in Nat /\ snapshot' \in Seq(Nat) /\ seen' \in Seq(Nat)
    BY <1>1, <1>3
  <2> QED
    BY <1>6, <1>8, <1>11, <1>13, <2>1, Zenon DEF QueueTypeOK
<1>15. Looping'
  <2>1. UNCHANGED <<walk, snapshot, seen>> /\ place # "range" /\ place = "take"
    BY <1>3
  <2> QED
    BY <1>13, <2>1, NotLooping, Zenon
<1> QED
  BY <1>11, <1>12, <1>14, <1>15, Zenon DEF QueueInv

\* The control unit ends its cycle.
LEMMA QueueTakeEnds == QueueInv /\ TakeEnds => QueueInv'
<1> SUFFICES ASSUME QueueInv, TakeEnds PROVE QueueInv'
  OBVIOUS
<1>1. /\ place = "take" /\ place' = "execute"
      /\ UNCHANGED <<inBus, outBus, list, walk, abandoned, added, executed, snapshot, seen>>
  BY DEF TakeEnds, GoTo, walkVars
<1>2. InOnePlace' /\ HasRoom'
  BY <1>1 DEF QueueInv, InOnePlace, HasRoom
<1>3. QueueTypeOK'
  <2>1. place' \in {"decode", "control", "range", "take", "execute"}
    BY <1>1
  <2> QED
    BY <1>1, <2>1 DEF QueueInv, QueueTypeOK
<1>4. Looping'
  BY <1>1, NotLooping
<1> QED
  BY <1>2, <1>3, <1>4, Zenon DEF QueueInv

\* The execute units take elements, and the buses connect.
LEMMA QueueExecutes == QueueInv /\ ExecuteCycle => QueueInv'
<1> SUFFICES ASSUME QueueInv, ExecuteCycle PROVE QueueInv'
  OBVIOUS
<1>1. /\ inBus \in BusOf(Nat) /\ outBus \in BusOf(Nat) /\ list \in Seq(Nat)
      /\ added \in Nat
      /\ Elements(inBus) \in Seq(Nat) /\ Elements(outBus) \in Seq(Nat)
      /\ Len(outBus.buffer) \in Nat /\ Len(outBus.buffer) <= BufferLength
      /\ Len(list) \in Nat /\ Len(list) <= PendingLength
      /\ Placed(Elements(inBus), list, Elements(outBus), executed, added)
  BY QueueFacts, Zenon
<1>2. /\ place' = "decode" /\ walk' = NoWalk /\ snapshot' = << >> /\ seen' = << >>
      /\ inBus' = Connect(inBus, 1) /\ UNCHANGED <<list, added>>
  BY DEF ExecuteCycle, GoTo
<1>3. PICK n \in 0..Len(outBus.queue) :
        /\ executed' = executed \cup {outBus.queue[i] : i \in 1..n}
        /\ outBus' = Connect(AfterGets(outBus, n), 1)
  BY Zenon DEF ExecuteCycle
<1>4. n \in Nat /\ n <= Len(outBus.queue)
  <2>1. outBus.queue \in Seq(Nat)
    BY <1>1, ElementsAreSeq, Zenon
  <2>2. Len(outBus.queue) \in Nat
    BY <2>1
  <2> QED
    BY <2>2
<1>5. PICK out \in Seq(Nat) : out = Elements(outBus)
  BY <1>1, Zenon
<1>6. PICK bus : bus = AfterGets(outBus, n)
  OBVIOUS
<1>7. /\ bus \in BusOf(Nat) /\ bus.buffer = outBus.buffer /\ n <= Len(out)
      /\ (\A i \in 1..n : outBus.queue[i] = out[i])
      /\ Elements(bus) = SubSeq(out, n + 1, Len(out))
  BY <1>1, <1>4, <1>5, <1>6, GetTakesSeveral, Zenon
<1>8. 1 \in Nat
  OBVIOUS
<1>9. /\ outBus' \in BusOf(Nat) /\ Elements(outBus') = Elements(bus)
      /\ Len(outBus'.buffer) <= Len(bus.buffer)
  BY <1>3, <1>6, <1>7, <1>8, ConnectKeepsElements, Zenon
<1>10. inBus' \in BusOf(Nat) /\ Elements(inBus') = Elements(inBus)
  BY <1>1, <1>2, <1>8, ConnectKeepsElements, Zenon
<1>11. InOnePlace'
  <2>1. Placed(Elements(inBus), list, SubSeq(out, n + 1, Len(out)),
               executed \cup {out[i] : i \in 1..n}, added)
    BY <1>1, <1>4, <1>5, <1>7, PlacedExecute, Zenon
  <2>2. executed' = executed \cup {out[i] : i \in 1..n}
    <3>1. {outBus.queue[i] : i \in 1..n} = {out[i] : i \in 1..n}
      BY <1>7
    <3> QED
      BY <1>3, <3>1, Zenon
  <2>3. list' = list /\ added' = added
    BY <1>2
  <2>4. Elements(outBus') = SubSeq(out, n + 1, Len(out))
    BY <1>7, <1>9, Zenon
  <2>5. Placed(Elements(inBus'), list', Elements(outBus'), executed', added')
    BY <1>10, <2>1, <2>2, <2>3, <2>4
  <2> QED
    BY <2>5, Zenon DEF InOnePlace
<1>12. HasRoom'
  <2>1. Len(outBus'.buffer) \in Nat
    BY <1>9, ElementsAreSeq, Zenon
  <2>2. Len(bus.buffer) = Len(outBus.buffer)
    BY <1>7, Zenon
  <2>3. Len(outBus'.buffer) <= BufferLength
    BY <1>1, <1>9, <2>1, <2>2, BufferedBusAssumption
  <2>4. Len(list') <= PendingLength
    BY <1>1, <1>2
  <2> QED
    BY <2>3, <2>4, Zenon DEF HasRoom
<1>13. << >> \in Seq(Nat) /\ << >> = << >> \o << >>
  BY ConcatEmptySeq
<1>14. NoWalk \in WalkType /\ NoWalk.closed
  BY <1>13 DEF NoWalk, WalkType
<1>15. QueueTypeOK'
  <2>1. place' \in {"decode", "control", "range", "take", "execute"}
    BY <1>2
  <2>2. list' \in Seq(Nat) /\ added' \in Nat /\ walk' \in WalkType
        /\ snapshot' \in Seq(Nat) /\ seen' \in Seq(Nat)
    BY <1>1, <1>2, <1>13, <1>14
  <2> QED
    BY <1>9, <1>10, <2>1, <2>2, Zenon DEF QueueTypeOK
<1>16. Looping'
  <2>1. place' # "range" /\ place' # "take" /\ walk'.closed
        /\ snapshot' = seen' \o << >>
    BY <1>2, <1>13, <1>14
  <2>2. LoopIsAt(<< >>)'
    BY <2>1 DEF LoopIsAt
  <2> QED
    BY <1>13, <2>1, <2>2 DEF Looping
<1> QED
  BY <1>11, <1>12, <1>15, <1>16, Zenon DEF QueueInv

\* The goroutine that is listened to takes a step.
LEMMA QueueWalks == QueueInv /\ Walk => QueueInv'
<1> SUFFICES ASSUME QueueInv, Walk PROVE QueueInv'
  OBVIOUS
<1>1. /\ list \in Seq(Nat) /\ walk \in WalkType /\ Distinct(list) /\ 0 \notin Members(list)
  BY QueueFacts, Zenon
<1>2. /\ ~walk.closed /\ walk' \in Steps(walk)
      /\ UNCHANGED <<place, inBus, outBus, list, abandoned, added, executed, snapshot, seen>>
  BY DEF Walk
<1>3. InOnePlace' /\ HasRoom'
  BY <1>2 DEF QueueInv, InOnePlace, HasRoom
<1>4. place = "range"
  BY <1>2, Zenon DEF QueueInv, Looping
<1>5. PICK ahead \in Seq(Nat) : LoopIsAt(ahead)
  BY Zenon DEF QueueInv, Looping
<1>6. PICK front \in Seq(Nat) : list = front \o ahead
  BY <1>4, <1>5, Zenon DEF LoopIsAt
<1>7. snapshot = seen \o ahead /\ Sends(walk, ahead)
  BY <1>4, <1>5, Zenon DEF LoopIsAt
<1>8. walk' \in WalkType /\ Sends(walk', ahead)
  BY <1>1, <1>2, <1>6, <1>7, SendsStep, Zenon
<1>9. QueueTypeOK'
  BY <1>2, <1>8 DEF QueueInv, QueueTypeOK
<1>10. LoopIsAt(ahead)'
  <2>1. snapshot' = seen' \o ahead /\ place' # "take"
    BY <1>2, <1>4, <1>7
  <2>2. \E start \in Seq(Nat) : list' = start \o ahead
    BY <1>2, <1>6
  <2> QED
    BY <1>8, <2>1, <2>2, Zenon DEF LoopIsAt
<1>11. Looping'
  <2>1. place' = "range"
    BY <1>2, <1>4
  <2> QED
    BY <1>10, <2>1, Zenon DEF Looping
<1> QED
  BY <1>3, <1>9, <1>11, Zenon DEF QueueInv

\* What a goroutine that was left behind does, and a step that changes nothing
\* of the queue, leaves the queue as it is.
LEMMA QueueUnchanged ==
  ASSUME QueueInv,
         UNCHANGED <<place, inBus, outBus, list, walk, added, executed, snapshot, seen>>
  PROVE  QueueInv'
BY DEF QueueInv, QueueTypeOK, InOnePlace, HasRoom, Looping, LoopIsAt

\* Every step keeps the invariant: each element is in one place, the list and
\* its bus are within their lengths, and what the loop has still to receive is
\* the end of the list (queue.go, bus.go).
THEOREM QueueInvariant == SpecQueue => []QueueInv
<1>1. InitQueue => QueueInv
  BY QueueInitially
<1>2. QueueInv /\ [NextQueue]_pendingVars => QueueInv'
  <2> SUFFICES ASSUME QueueInv, [NextQueue]_pendingVars PROVE QueueInv'
    OBVIOUS
  <2>1. CASE DecodeCycle
    BY <2>1, QueueDecodes, Zenon
  <2>2. CASE ControlStarts
    BY <2>2, QueueStarts, Zenon
  <2>3. CASE RangeReceives
    BY <2>3, QueueReceives, Zenon
  <2>4. CASE RangeEnds
    BY <2>4, QueueRangeEnds, Zenon
  <2>5. CASE ControlTakes
    BY <2>5, QueueTakes, Zenon
  <2>6. CASE TakeEnds
    BY <2>6, QueueTakeEnds, Zenon
  <2>7. CASE ExecuteCycle
    BY <2>7, QueueExecutes, Zenon
  <2>8. CASE Walk
    BY <2>8, QueueWalks, Zenon
  <2>9. CASE AbandonedWalk
    BY <2>9, QueueUnchanged DEF AbandonedWalk
  <2>10. CASE UNCHANGED pendingVars
    BY <2>10, QueueUnchanged DEF pendingVars, walkVars
  <2> QED
    BY <2>1, <2>2, <2>3, <2>4, <2>5, <2>6, <2>7, <2>8, <2>9, <2>10, Zenon
       DEF NextQueue, Control
<1> QED
  BY <1>1, <1>2, PTL DEF SpecQueue

-----------------------------------------------------------------------------
(* The properties                                                          *)

\* The list, the bus in front of the execute units and the queues of the buses
\* stay within their lengths (CanAdd compares for equality only).
THEOREM StaysWithinLengths == SpecQueue => []WithinLengths
<1>1. QueueInv => WithinLengths
  <2> SUFFICES ASSUME QueueInv PROVE WithinLengths
    OBVIOUS
  <2>1. Len(outBus.buffer) <= BufferLength /\ Len(list) <= PendingLength
    BY QueueFacts, Zenon
  <2>2. Len(inBus.queue) <= QueueLength /\ Len(outBus.queue) <= QueueLength
    BY QueueFacts, Zenon DEF BusOf
  <2> QED
    BY <2>1, <2>2, Zenon DEF WithinLengths
<1> QED
  BY <1>1, QueueInvariant, PTL

\* A loop over the iterator sees the elements that were on the list when it was
\* called, in order, and all of them when it is not stopped, whatever it removes
\* on the way (Queue.Iterator, Queue.Remove).
THEOREM LoopVisitsWholeList == SpecQueue => []VisitsWholeList
<1>1. QueueInv => VisitsWholeList
  <2> SUFFICES ASSUME QueueInv PROVE VisitsWholeList
    OBVIOUS
  <2>1. snapshot \in Seq(Nat) /\ seen \in Seq(Nat)
    BY QueueFacts, Zenon
  <2>2. PICK ahead \in Seq(Nat) : LoopIsAt(ahead)
    BY Zenon DEF QueueInv, Looping
  <2>3. snapshot = seen \o ahead /\ (place = "take" => ahead = << >>)
    BY <2>2, Zenon DEF LoopIsAt
  <2>4. seen = SubSeq(snapshot, 1, Len(seen))
    <3>1. PICK first : first = SubSeq(snapshot, 1, Len(seen))
      OBVIOUS
    <3>2. /\ Len(seen) \in Nat /\ Len(snapshot) = Len(seen) + Len(ahead) /\ Len(ahead) \in Nat
          /\ \A i \in 1..Len(seen) : snapshot[i] = seen[i]
      BY <2>1, <2>3
    <3>3. /\ first \in Seq(Nat) /\ Len(first) = Len(seen)
          /\ \A i \in 1..Len(seen) : first[i] = snapshot[i]
      BY <2>1, <3>1, <3>2, SMTT(30)
    <3>4. \A i \in 1..Len(seen) : seen[i] = first[i]
      BY <3>2, <3>3
    <3> QED
      BY <2>1, <3>1, <3>3, <3>4, SeqEqual, Zenon
  <2>5. place = "take" => seen = snapshot
    <3>1. seen \o << >> = seen
      BY <2>1, ConcatEmptySeq
    <3> QED
      BY <2>3, <3>1, Zenon
  <2> QED
    BY <2>4, <2>5, Zenon DEF VisitsWholeList
<1> QED
  BY <1>1, QueueInvariant, PTL

\* Between the decode unit and the execute units no element is lost, doubled or
\* overtaken but by the control unit's choice (Queue, BufferedBus).
THEOREM NothingLostOrOvertaken == SpecQueue => []KeptInOrder
<1>1. QueueInv => KeptInOrder
  <2> SUFFICES ASSUME QueueInv PROVE KeptInOrder
    OBVIOUS
  <2>1. PICK in \in Seq(Nat) : in = Elements(inBus)
    BY QueueFacts, Zenon
  <2>2. PICK out \in Seq(Nat) : out = Elements(outBus)
    BY QueueFacts, Zenon
  <2>3. PICK l \in Seq(Nat) : l = list
    BY QueueFacts, Zenon
  <2>4. added \in Nat /\ Placed(in, l, out, executed, added)
    BY <2>1, <2>2, <2>3, QueueFacts, Zenon
  <2>5. NothingLost
    <3>1. PICK held \in Seq(Nat) : held = (in \o l) \o out
      <4>1. (in \o l) \o out \in Seq(Nat)
        OBVIOUS
      <4> QED
        BY <4>1, Zenon
    <3>2. Len(held) = Len(in) + Len(l) + Len(out)
      BY <3>1
    <3>3. Members(held) = Members(in) \cup Members(l) \cup Members(out)
      <4>1. in \o l \in Seq(Nat) /\ Members(in \o l) = Members(in) \cup Members(l)
        BY MembersOfConcat
      <4> QED
        BY <3>1, <4>1, MembersOfConcat, Zenon
    <3>4. Len(in) + Len(l) + Len(out) + Cardinality(executed) = added
      BY <2>4, PlacedCounts
    <3>5. Len(held) + Cardinality(executed) = added
      BY <3>2, <3>4, Zenon
    <3>6. Members(held) \cup executed = 1..added
      BY <2>4, <3>3, Zenon DEF Placed
    <3>7. held = Elements(inBus) \o list \o Elements(outBus)
      BY <2>1, <2>2, <2>3, <3>1, Zenon
    <3> QED
      BY <3>5, <3>6, <3>7, Zenon DEF NothingLost, Members
  <2>6. OldestFirst
    <3>1. PICK waiting \in Seq(Nat) : waiting = l \o in
      <4>1. l \o in \in Seq(Nat)
        OBVIOUS
      <4> QED
        BY <4>1, Zenon
    <3>2. PICK m \in Nat : m = Len(l)
      OBVIOUS
    <3>3. PICK n \in Nat : n = Len(in)
      OBVIOUS
    <3>4. /\ DOMAIN waiting = 1..m + n /\ DOMAIN l = 1..m /\ DOMAIN in = 1..n
          /\ \A i \in 1..m : waiting[i] = l[i]
      BY <3>1, <3>2, <3>3
    <3>5. \A i \in 1..n : waiting[m + i] = in[i]
      BY <3>1, <3>2, <3>3
    <3>6. /\ \A i \in 1..m : \A j \in 1..i - 1 : l[j] < l[i]
          /\ \A i \in 1..n : \A j \in 1..i - 1 : in[j] < in[i]
      BY <2>4, <3>4 DEF Placed, Increasing
    <3>7. \A i \in 1..m, j \in 1..n : l[i] < in[j]
      <4>1. \A x \in Members(l), y \in Members(in) : x < y
        BY <2>4, Zenon DEF Placed
      <4>2. /\ \A i \in 1..m : l[i] \in Members(l)
            /\ \A i \in 1..n : in[i] \in Members(in)
        BY <3>4 DEF Members
      <4> QED
        BY <4>1, <4>2, Zenon
    <3>8. ASSUME NEW i \in 1..m + n, NEW j \in 1..i - 1 PROVE waiting[j] < waiting[i]
      <4>1. CASE i <= m
        <5>1. i \in 1..m /\ j \in 1..m
          BY <4>1
        <5> QED
          BY <3>4, <3>6, <5>1
      <4>2. CASE m < i
        <5>1. PICK k \in 1..n : i = m + k
          <6>1. i - m \in 1..n /\ i = m + (i - m)
            BY <4>2
          <6> QED
            BY <6>1, Zenon
        <5>2. waiting[i] = in[k]
          BY <3>5, <5>1
        <5>3. CASE j <= m
          <6>1. j \in 1..m
            BY <5>3
          <6> QED
            BY <3>4, <3>7, <5>2, <6>1
        <5>4. CASE m < j
          <6>1. PICK h \in 1..n : j = m + h
            <7>1. j - m \in 1..n /\ j = m + (j - m)
              BY <5>4
            <7> QED
              BY <7>1, Zenon
          <6>2. h \in 1..k - 1
            BY <5>1, <6>1
          <6> QED
            BY <3>5, <3>6, <5>2, <6>1, <6>2
        <5> QED
          BY <5>3, <5>4
      <4> QED
        BY <4>1, <4>2
    <3>9. \A i \in DOMAIN waiting : \A j \in 1..i - 1 : waiting[j] < waiting[i]
      BY <3>4, <3>8
    <3>10. waiting = list \o Elements(inBus)
      BY <2>1, <2>3, <3>1, Zenon
    <3> QED
      BY <3>9, <3>10, Zenon DEF OldestFirst
  <2> QED
    BY <2>5, <2>6, Zenon DEF KeptInOrder
<1> QED
  BY <1>1, QueueInvariant, PTL
=============================================================================
