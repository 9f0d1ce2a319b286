----------------------------- MODULE Mvp6Proofs -----------------------------
(***************************************************************************)
(* Proofs about MVP-6.0 and MVP-6.1, for every program, cache and latency: *)
(* the decode unit is stopped exactly while one jump is in front of it,    *)
(* the front end is in program order, the scoreboard is exact, what is     *)
(* issued depends on nothing in flight but for a forwarded value, and all  *)
(* that is computed, forwarded, stored and cached has its type.            *)
(***************************************************************************)
EXTENDS Mvp6Properties, OperatorProofs, SequenceTheorems, FiniteSetTheorems, TLAPS

Facts == INSTANCE BufferedBusProofs WITH QueueLength <- BusSize, BufferLength <- BusSize

-----------------------------------------------------------------------------
(* Lists, and the elements of the four buses (bus.go)                      *)

IsList(s) == \E S : s \in Seq(S)
IsBus(bus) == \E S : bus \in Facts!BusOf(S)

\* Two lists are lists of elements of one set.
LEMMA ListsOfOneSet ==
  ASSUME NEW a, IsList(a), NEW b, IsList(b), NEW x
  PROVE  \E S : a \in Seq(S) /\ b \in Seq(S) /\ x \in S
<1>1. PICK S, T : a \in Seq(S) /\ b \in Seq(T)
  BY DEF IsList
<1>2. a \in Seq(S \cup T \cup {x}) /\ b \in Seq(S \cup T \cup {x})
  BY <1>1
<1> QED BY <1>2

\* What is made of lists is a list.
LEMMA ListsMadeOfLists ==
  ASSUME NEW a, IsList(a), NEW b, IsList(b), NEW x
  PROVE  IsList(a \o b) /\ IsList(Append(a, x)) /\ IsList(<< >>) /\ IsList(<<x>>)
<1>1. PICK S : a \in Seq(S) /\ b \in Seq(S) /\ x \in S
  BY ListsOfOneSet
<1>2. a \o b \in Seq(S) /\ Append(a, x) \in Seq(S) /\ << >> \in Seq(S) /\ <<x>> \in Seq(S)
  BY <1>1
<1> QED BY <1>2 DEF IsList

\* Nothing is added by an empty list.
LEMMA NothingJoined == ASSUME NEW a, IsList(a) PROVE a \o << >> = a /\ << >> \o a = a
BY DEF IsList

\* Adding one is joining a list of one.
LEMMA AddedIsJoined == ASSUME NEW a, IsList(a), NEW x PROVE Append(a, x) = a \o <<x>>
<1>1. PICK S : a \in Seq(S) /\ x \in S
  BY ListsOfOneSet
<1> QED BY <1>1

\* Adding one to the second of two lists adds it to both.
LEMMA AddedToJoined ==
  ASSUME NEW a, IsList(a), NEW b, IsList(b), NEW x
  PROVE  Append(a \o b, x) = a \o Append(b, x)
<1>1. PICK S : a \in Seq(S) /\ b \in Seq(S) /\ x \in S
  BY ListsOfOneSet
<1> QED BY <1>1

\* The first of a list may join the list in front.
LEMMA FirstJoinsFront ==
  ASSUME NEW a, IsList(a), NEW b, IsList(b), NEW x
  PROVE  a \o (<<x>> \o b) = Append(a, x) \o b
<1>1. PICK S : a \in Seq(S) /\ b \in Seq(S) /\ x \in S
  BY ListsOfOneSet
<1>2. a \o (<<x>> \o b) = (a \o <<x>>) \o b
  BY <1>1
<1>3. Append(a, x) = a \o <<x>>
  BY AddedIsJoined
<1> QED BY <1>2, <1>3, Zenon

\* The lemmas on BufferedBus are about these buses.
LEMMA SameBus ==
  /\ Facts!NewBus = Bus!NewBus /\ BusSize \in Nat \ {0}
  /\ \A bus : /\ Facts!CanGet(bus) <=> Bus!CanGet(bus)
              /\ Facts!Oldest(bus) = Bus!Oldest(bus)
              /\ Facts!AfterGet(bus) = Bus!AfterGet(bus)
              /\ Facts!Elements(bus) = Bus!Elements(bus)
              /\ Facts!Connect(bus, 1) = Connected(bus)
              /\ \A t : Facts!Add(bus, t, 0) = Put(bus, t)
BY DEF BusSize, Connected, Put, Facts!NewBus, Bus!NewBus, Facts!CanGet, Bus!CanGet,
   Facts!Oldest, Bus!Oldest, Facts!AfterGet, Bus!AfterGet, Facts!Elements, Bus!Elements,
   Facts!Connect, Bus!Connect, Facts!Movable, Bus!Movable, Facts!Add, Bus!Add,
   Facts!Entry, Bus!Entry

\* An empty bus.
LEMMA NewBusIsBus == IsBus(Bus!NewBus) /\ Bus!Elements(Bus!NewBus) = << >>
<1>1. ASSUME NEW S PROVE Facts!NewBus \in Facts!BusOf(S) /\ Facts!Elements(Facts!NewBus) = << >>
  BY SameBus, Facts!NewBusIsEmpty, Zenon
<1> QED BY <1>1, SameBus DEF IsBus

\* What is put on a bus comes behind all others, and Connect changes no order.
LEMMA PutAndConnect ==
  ASSUME NEW bus, IsBus(bus), NEW t
  PROVE  /\ IsBus(Put(bus, t)) /\ Bus!Elements(Put(bus, t)) = Append(Bus!Elements(bus), t)
         /\ IsBus(Connected(bus)) /\ Bus!Elements(Connected(bus)) = Bus!Elements(bus)
         /\ IsList(Bus!Elements(bus))
<1>1. PICK S : bus \in Facts!BusOf(S)
  BY DEF IsBus
<1>2. PICK T : T = S \cup {t}
  OBVIOUS
<1>3. bus \in Facts!BusOf(T) /\ t \in T /\ 0 \in Nat /\ 1 \in Nat
  <2>1. /\ bus.buffer \in Seq(Facts!EntryOf(S)) /\ bus.queue \in Seq(S)
        /\ bus = [buffer |-> bus.buffer, queue |-> bus.queue] /\ Len(bus.queue) <= BusSize
    BY <1>1 DEF Facts!BusOf
  <2>2. S \subseteq T /\ t \in T /\ Facts!EntryOf(S) \subseteq Facts!EntryOf(T)
    BY <1>2 DEF Facts!EntryOf
  <2>3. bus.buffer \in Seq(Facts!EntryOf(T)) /\ bus.queue \in Seq(T)
    BY <2>1, <2>2
  <2> QED BY <2>1, <2>2, <2>3 DEF Facts!BusOf
<1>4. ASSUME NEW U, NEW b \in Facts!BusOf(U), NEW x \in U, NEW cycle \in Nat
      PROVE  /\ Facts!Add(b, x, cycle) \in Facts!BusOf(U)
             /\ Facts!Elements(Facts!Add(b, x, cycle)) = Append(Facts!Elements(b), x)
  BY SameBus, Facts!AddAppends, Zenon
<1>5. ASSUME NEW U, NEW b \in Facts!BusOf(U), NEW cycle \in Nat
      PROVE  /\ Facts!Connect(b, cycle) \in Facts!BusOf(U)
             /\ Facts!Elements(Facts!Connect(b, cycle)) = Facts!Elements(b)
  BY SameBus, Facts!ConnectKeepsElements, Zenon
<1>6. ASSUME NEW U, NEW b \in Facts!BusOf(U) PROVE Facts!Elements(b) \in Seq(U)
  BY SameBus, Facts!ElementsAreSeq, Zenon
<1>7. /\ Put(bus, t) \in Facts!BusOf(T)
      /\ Bus!Elements(Put(bus, t)) = Append(Bus!Elements(bus), t)
  <2>1. Facts!Add(bus, t, 0) = Put(bus, t)
    BY SameBus, Zenon
  <2>2. /\ Facts!Add(bus, t, 0) \in Facts!BusOf(T)
        /\ Facts!Elements(Facts!Add(bus, t, 0)) = Append(Facts!Elements(bus), t)
    BY <1>3, <1>4, Zenon
  <2> QED BY <2>1, <2>2, SameBus
<1>8. /\ Connected(bus) \in Facts!BusOf(T)
      /\ Bus!Elements(Connected(bus)) = Bus!Elements(bus)
  BY <1>3, <1>5, SameBus, Zenon
<1>9. Bus!Elements(bus) \in Seq(T)
  BY <1>3, <1>6, SameBus, Zenon
<1> QED BY <1>7, <1>8, <1>9, Zenon DEF IsBus, IsList

\* What is taken from a bus is the oldest element.
LEMMA GetFromBus ==
  ASSUME NEW bus, IsBus(bus), Bus!CanGet(bus)
  PROVE  /\ IsBus(Bus!AfterGet(bus)) /\ IsList(Bus!Elements(Bus!AfterGet(bus)))
         /\ Bus!Elements(bus) = <<Bus!Oldest(bus)>> \o Bus!Elements(Bus!AfterGet(bus))
<1>1. PICK S : bus \in Facts!BusOf(S)
  BY DEF IsBus
<1>2. ASSUME NEW b \in Facts!BusOf(S), Facts!CanGet(b)
      PROVE  /\ Facts!AfterGet(b) \in Facts!BusOf(S)
             /\ Facts!Elements(b) # << >> /\ Facts!Oldest(b) = Head(Facts!Elements(b))
             /\ Facts!Elements(Facts!AfterGet(b)) = Tail(Facts!Elements(b))
  BY <1>2, SameBus, Facts!GetTakesOldest, Zenon
<1>3. ASSUME NEW b \in Facts!BusOf(S) PROVE Facts!Elements(b) \in Seq(S)
  BY SameBus, Facts!ElementsAreSeq, Zenon
<1>4. /\ Bus!AfterGet(bus) \in Facts!BusOf(S)
      /\ Bus!Elements(bus) # << >> /\ Bus!Oldest(bus) = Head(Bus!Elements(bus))
      /\ Bus!Elements(Bus!AfterGet(bus)) = Tail(Bus!Elements(bus))
  BY <1>1, <1>2, SameBus, Zenon
<1>5. PICK elements \in Seq(S) : elements = Bus!Elements(bus)
  BY <1>1, <1>3, SameBus, Zenon
<1>6. /\ Tail(elements) \in Seq(S)
      /\ elements = <<Head(elements)>> \o Tail(elements)
  BY <1>4, <1>5
<1>7. Bus!Elements(bus) = <<Bus!Oldest(bus)>> \o Bus!Elements(Bus!AfterGet(bus))
  BY <1>4, <1>5, <1>6, Zenon
<1>8. Bus!Elements(Bus!AfterGet(bus)) \in Seq(S)
  BY <1>4, <1>5, <1>6, Zenon
<1> QED BY <1>4, <1>7, <1>8, Zenon DEF IsBus, IsList

-----------------------------------------------------------------------------
(* Lists of pcs: the stop of the decode unit (du.go), and program order    *)

\* The property DecodeWaitsForJump6 of a list of pcs and a decode unit.
Waits(pcs, stopped) ==
  /\ \A i \in 1..Len(pcs) : IsJump(pcs[i]) <=> stopped /\ i = Len(pcs)
  /\ stopped => Len(pcs) # 0

\* Decoding one more: the unit stops if it is a jump.
LEMMA DecodingKeepsWaits ==
  ASSUME NEW pcs, IsList(pcs), NEW pc, Waits(pcs, FALSE)
  PROVE  Waits(Append(pcs, pc), IsJump(pc))
<1>1. PICK S : pcs \in Seq(S) /\ pc \in S
  BY ListsOfOneSet
<1>2. /\ Len(Append(pcs, pc)) = Len(pcs) + 1 /\ Append(pcs, pc)[Len(pcs) + 1] = pc
      /\ \A i \in 1..Len(pcs) : Append(pcs, pc)[i] = pcs[i]
      /\ Len(pcs) \in Nat
  BY <1>1
<1>3. \A i \in 1..Len(pcs) : ~IsJump(pcs[i])
  BY DEF Waits, IsJump, IsUnconditionalBranch
<1> QED BY <1>2, <1>3 DEF Waits, IsJump, IsUnconditionalBranch

\* Taking the oldest on: if it is the jump, nothing is behind it.
LEMMA TakingKeepsWaits ==
  ASSUME NEW rest, IsList(rest), NEW pc, NEW stopped \in BOOLEAN, Waits(<<pc>> \o rest, stopped)
  PROVE  /\ Waits(rest, stopped /\ ~IsJump(pc))
         /\ IsJump(pc) => stopped /\ rest = << >>
<1>1. PICK S : rest \in Seq(S) /\ pc \in S
  BY ListsOfOneSet
<1>2. PICK pcs \in Seq(S) : pcs = <<pc>> \o rest
  <2>1. <<pc>> \o rest \in Seq(S)
    BY <1>1
  <2> QED BY <2>1, Zenon
<1>3. /\ Len(rest) \in Nat /\ Len(pcs) = Len(rest) + 1 /\ pcs[1] = pc
      /\ \A i \in 1..Len(rest) : pcs[i + 1] = rest[i]
  BY <1>1, <1>2
<1>4. \A i \in 1..Len(pcs) : IsJump(pcs[i]) <=> stopped /\ i = Len(pcs)
  BY <1>2, Zenon DEF Waits
<1>5. IsJump(pc) <=> stopped /\ 1 = Len(pcs)
  <2>1. 1 \in 1..Len(pcs)
    BY <1>3
  <2> QED BY <1>3, <1>4, <2>1, Zenon
<1>6. ASSUME NEW i \in 1..Len(rest)
      PROVE  IsJump(rest[i]) <=> (stopped /\ ~IsJump(pc)) /\ i = Len(rest)
  <2>1. i + 1 \in 1..Len(pcs) /\ (i + 1 = Len(pcs) <=> i = Len(rest)) /\ 1 # Len(pcs)
    BY <1>3
  <2>2. pcs[i + 1] = rest[i]
    BY <1>3
  <2> QED BY <1>4, <1>5, <2>1, <2>2, Zenon
<1>7. stopped /\ ~IsJump(pc) => Len(rest) # 0
  BY <1>3, <1>5
<1>8. IsJump(pc) => stopped /\ rest = << >>
  BY <1>1, <1>3, <1>5
<1> QED BY <1>6, <1>7, <1>8 DEF Waits

\* The property IssueOrder of two neighbours and of a list of pcs.
Follows(pc, next) == next = pc + 4 \/ PastEnd(pc + 4)
InSequence(pcs) == \A i \in 1..Len(pcs) - 1 : Follows(pcs[i], pcs[i + 1])

\* The parts of a list in order are in order.
LEMMA PartsInSequence ==
  ASSUME NEW a, IsList(a), NEW b, IsList(b), InSequence(a \o b)
  PROVE  InSequence(a) /\ InSequence(b)
<1>1. PICK S : a \in Seq(S) /\ b \in Seq(S)
  BY ListsOfOneSet
<1>2. PICK all \in Seq(S) : all = a \o b
  <2>1. a \o b \in Seq(S)
    BY <1>1
  <2> QED BY <2>1, Zenon
<1>3. /\ Len(a) \in Nat /\ Len(b) \in Nat /\ Len(all) = Len(a) + Len(b)
      /\ \A i \in 1..Len(a) : all[i] = a[i]
      /\ \A i \in 1..Len(b) : all[Len(a) + i] = b[i]
  BY <1>1, <1>2
<1>4. \A i \in 1..Len(all) - 1 : Follows(all[i], all[i + 1])
  BY <1>2, Zenon DEF InSequence
<1>5. ASSUME NEW i \in 1..Len(a) - 1 PROVE Follows(a[i], a[i + 1])
  <2>1. i \in 1..Len(all) - 1 /\ all[i] = a[i] /\ all[i + 1] = a[i + 1]
    BY <1>3
  <2> QED BY <1>4, <2>1
<1>6. ASSUME NEW i \in 1..Len(b) - 1 PROVE Follows(b[i], b[i + 1])
  <2>1. /\ i \in 1..Len(b) /\ i + 1 \in 1..Len(b) /\ Len(a) + i \in 1..Len(all) - 1
        /\ (Len(a) + i) + 1 = Len(a) + (i + 1)
    BY <1>3
  <2>2. all[Len(a) + i] = b[i] /\ all[(Len(a) + i) + 1] = b[i + 1]
    BY <1>3, <2>1
  <2> QED BY <1>4, <2>1, <2>2
<1> QED BY <1>5, <1>6 DEF InSequence

\* The next pc may follow.
LEMMA NextInSequence ==
  ASSUME NEW a, IsList(a), NEW pc, InSequence(Append(a, pc))
  PROVE  InSequence(Append(Append(a, pc), pc + 4))
<1>1. PICK S : Append(a, pc) \in Seq(S) /\ pc + 4 \in S /\ a \in Seq(S) /\ pc \in S
  <2>1. PICK T : a \in Seq(T) /\ pc \in T
    BY ListsOfOneSet
  <2>2. a \in Seq(T \cup {pc + 4}) /\ Append(a, pc) \in Seq(T \cup {pc + 4})
    BY <2>1
  <2> QED BY <2>1, <2>2
<1>2. PICK pcs \in Seq(S) : pcs = Append(a, pc)
  BY <1>1, Zenon
<1>3. PICK next \in S : next = pc + 4
  BY <1>1, Zenon
<1>4. PICK longer \in Seq(S) : longer = Append(pcs, next)
  <2>1. Append(pcs, next) \in Seq(S)
    BY <1>2, <1>3
  <2> QED BY <2>1, Zenon
<1>5. Len(pcs) \in Nat \ {0} /\ pcs[Len(pcs)] = pc
  BY <1>1, <1>2
<1>6. /\ Len(longer) = Len(pcs) + 1 /\ longer[Len(pcs) + 1] = next
      /\ \A i \in 1..Len(pcs) : longer[i] = pcs[i]
  BY <1>4
<1>7. \A i \in 1..Len(pcs) - 1 : Follows(pcs[i], pcs[i + 1])
  BY <1>2, Zenon DEF InSequence
<1>8. ASSUME NEW i \in 1..Len(longer) - 1 PROVE Follows(longer[i], longer[i + 1])
  <2>1. CASE i = Len(pcs)
    <3>1. longer[i] = pc /\ longer[i + 1] = next
      BY <1>5, <1>6, <2>1
    <3> QED BY <1>3, <3>1 DEF Follows
  <2>2. CASE i # Len(pcs)
    <3>1. i \in 1..Len(pcs) - 1 /\ longer[i] = pcs[i] /\ longer[i + 1] = pcs[i + 1]
      BY <1>5, <1>6, <2>2
    <3> QED BY <1>7, <3>1
  <2> QED BY <2>1, <2>2
<1>9. InSequence(longer)
  BY <1>8 DEF InSequence
<1> QED BY <1>2, <1>3, <1>4, <1>9

\* A pc past the end of the program may be left out.
LEMMA WithoutPastEnd ==
  ASSUME NEW a, IsList(a), NEW b, IsList(b), NEW pc, PastEnd(pc),
         InSequence(a \o (<<pc>> \o b))
  PROVE  InSequence(a \o b)
<1>1. PICK S : a \in Seq(S) /\ b \in Seq(S) /\ pc \in S
  BY ListsOfOneSet
<1>2. PICK all \in Seq(S), rest \in Seq(S) : all = a \o (<<pc>> \o b) /\ rest = a \o b
  <2>1. a \o (<<pc>> \o b) \in Seq(S) /\ a \o b \in Seq(S)
    BY <1>1
  <2> QED BY <2>1, Zenon
<1>3. PICK m \in Nat, n \in Nat : m = Len(a) /\ n = Len(b)
  BY <1>1
<1>4. /\ Len(all) = m + 1 + n /\ Len(rest) = m + n
      /\ \A i \in 1..m : all[i] = a[i] /\ rest[i] = a[i]
      /\ all[m + 1] = pc
      /\ \A i \in 1..n : all[m + 1 + i] = b[i] /\ rest[m + i] = b[i]
  BY <1>1, <1>2, <1>3
<1>5. \A i \in 1..m + n : Follows(all[i], all[i + 1])
  <2>1. \A i \in 1..Len(all) - 1 : Follows(all[i], all[i + 1])
    BY <1>2, Zenon DEF InSequence
  <2> QED BY <1>4, <2>1
<1>6. ASSUME NEW i \in 1..Len(rest) - 1 PROVE Follows(rest[i], rest[i + 1])
  <2>1. CASE i < m
    <3>1. i \in 1..m + n /\ rest[i] = all[i] /\ rest[i + 1] = all[i + 1]
      BY <1>4, <2>1
    <3> QED BY <1>5, <3>1
  <2>2. CASE i > m
    <3>1. PICK j \in 1..n : i = m + j /\ j + 1 \in 1..n
      <4>1. i - m \in 1..n /\ i = m + (i - m) /\ (i - m) + 1 \in 1..n
        BY <1>4, <2>2
      <4> QED BY <4>1
    <3>2. rest[i] = b[j] /\ rest[i + 1] = b[j + 1]
      <4>1. i + 1 = m + (j + 1)
        BY <3>1
      <4> QED BY <1>4, <3>1, <4>1
    <3>3. all[i + 1] = b[j] /\ all[(i + 1) + 1] = b[j + 1] /\ i + 1 \in 1..m + n
      <4>1. i + 1 = m + 1 + j /\ (i + 1) + 1 = m + 1 + (j + 1) /\ i + 1 \in 1..m + n
        BY <3>1
      <4> QED BY <1>4, <3>1, <4>1
    <3> QED BY <1>5, <3>2, <3>3
  <2>3. CASE i = m
    <3>1. /\ m \in 1..m /\ m \in 1..m + n /\ m + 1 \in 1..m + n /\ 1 \in 1..n
      BY <1>4, <2>3
    <3>2. rest[i] = all[m] /\ all[m + 1] = pc /\ all[(m + 1) + 1] = rest[i + 1]
      BY <1>4, <2>3, <3>1
    <3>3. Follows(all[m], all[m + 1]) /\ Follows(all[m + 1], all[(m + 1) + 1])
      BY <1>5, <3>1
    <3> QED BY <3>2, <3>3 DEF Follows
  <2> QED BY <1>3, <2>1, <2>2, <2>3
<1> QED BY <1>2, <1>6 DEF InSequence

-----------------------------------------------------------------------------
(* Runners and their pcs                                                   *)

Pcs(runners) == [i \in DOMAIN runners |-> runners[i].pc]

\* The pcs of runners are a list like the runners.
LEMMA PcsAreList ==
  ASSUME NEW a, IsList(a)
  PROVE  /\ IsList(Pcs(a)) /\ Len(Pcs(a)) = Len(a)
         /\ \A i \in 1..Len(a) : Pcs(a)[i] = a[i].pc
<1>1. PICK S : a \in Seq(S)
  BY DEF IsList
<1>2. PICK T : T = {r.pc : r \in S}
  OBVIOUS
<1>3. DOMAIN a = 1..Len(a) /\ Len(a) \in Nat /\ \A i \in 1..Len(a) : a[i].pc \in T
  BY <1>1, <1>2
<1>4. PICK n \in Nat : n = Len(a)
  BY <1>3
<1>5. PICK pcs : pcs = Pcs(a)
  OBVIOUS
<1>6. pcs \in [1..n -> T]
  BY <1>3, <1>4, <1>5 DEF Pcs
<1>7. pcs \in Seq(T) /\ Len(pcs) = n
  BY <1>6
<1>8. \A i \in 1..Len(a) : Pcs(a)[i] = a[i].pc
  BY <1>3 DEF Pcs
<1> QED BY <1>4, <1>5, <1>7, <1>8, Zenon DEF IsList

\* ... joined as they are.
LEMMA PcsOfJoined ==
  ASSUME NEW a, IsList(a), NEW b, IsList(b), NEW runner
  PROVE  /\ Pcs(a \o b) = Pcs(a) \o Pcs(b)
         /\ Pcs(<<runner>>) = <<runner.pc>> /\ Pcs(<< >>) = << >>
         /\ Pcs(Append(a, runner)) = Append(Pcs(a), runner.pc)
         /\ Pcs(<<runner>> \o b) = <<runner.pc>> \o Pcs(b)
<1>1. Pcs(<<runner>>) = <<runner.pc>> /\ Pcs(<< >>) = << >>
  BY DEF Pcs
<1>2. ASSUME NEW c, IsList(c), NEW d, IsList(d) PROVE Pcs(c \o d) = Pcs(c) \o Pcs(d)
  <2>1. IsList(c \o d) /\ IsList(Pcs(c)) /\ IsList(Pcs(d))
    BY <1>2, ListsMadeOfLists, PcsAreList
  <2>2. PICK S : c \in Seq(S) /\ d \in Seq(S)
    BY <1>2, ListsOfOneSet
  <2>3. PICK both \in Seq(S) : both = c \o d
    <3>1. c \o d \in Seq(S)
      BY <2>2
    <3> QED BY <3>1, Zenon
  <2>4. PICK left : left = Pcs(both)
    OBVIOUS
  <2>5. PICK first, second : first = Pcs(c) /\ second = Pcs(d)
    OBVIOUS
  <2>6. /\ IsList(left) /\ Len(left) = Len(both)
        /\ \A i \in 1..Len(both) : left[i] = both[i].pc
    BY <2>1, <2>3, <2>4, PcsAreList, Zenon
  <2>7. /\ Len(first) = Len(c) /\ \A i \in 1..Len(c) : first[i] = c[i].pc
        /\ Len(second) = Len(d) /\ \A i \in 1..Len(d) : second[i] = d[i].pc
        /\ IsList(first) /\ IsList(second)
    BY <1>2, <2>5, PcsAreList, Zenon
  <2>8. PICK T : first \in Seq(T) /\ second \in Seq(T)
    BY <2>7, ListsOfOneSet
  <2>9. PICK right \in Seq(T) : right = first \o second
    <3>1. first \o second \in Seq(T)
      BY <2>8
    <3> QED BY <3>1, Zenon
  <2>10. PICK m \in Nat, n \in Nat : m = Len(c) /\ n = Len(d)
    BY <2>2
  <2>11. /\ Len(both) = m + n
         /\ \A i \in 1..m : both[i] = c[i]
         /\ \A i \in 1..n : both[m + i] = d[i]
    BY <2>2, <2>3, <2>10
  <2>12. /\ Len(right) = m + n
         /\ \A i \in 1..m : right[i] = first[i]
         /\ \A i \in 1..n : right[m + i] = second[i]
    <3>1. Len(first) = m /\ Len(second) = n
      BY <2>7, <2>10, Zenon
    <3>2. /\ Len(right) = Len(first) + Len(second)
          /\ \A i \in 1..Len(first) : right[i] = first[i]
          /\ \A i \in 1..Len(second) : right[Len(first) + i] = second[i]
      BY <2>8, <2>9
    <3> QED BY <3>1, <3>2
  <2>13. ASSUME NEW i \in 1..m + n PROVE left[i] = right[i]
    <3>1. CASE i \in 1..m
      BY <2>6, <2>7, <2>10, <2>11, <2>12, <3>1
    <3>2. CASE i \notin 1..m
      <4>1. PICK j \in 1..n : i = m + j
        <5>1. i - m \in 1..n /\ i = m + (i - m)
          BY <3>2
        <5> QED BY <5>1
      <4>2. left[i] = d[j].pc
        BY <2>6, <2>11, <4>1
      <4>3. right[i] = d[j].pc
        BY <2>7, <2>10, <2>12, <4>1
      <4> QED BY <4>2, <4>3
    <3> QED BY <3>1, <3>2
  <2>14. left = right
    <3>1. PICK U : left \in Seq(U)
      BY <2>6 DEF IsList
    <3>2. Len(left) = Len(right) /\ \A i \in 1..Len(left) : left[i] = right[i]
      BY <2>6, <2>11, <2>12, <2>13
    <3> QED BY <2>9, <3>1, <3>2, SeqEqual, SMTT(30)
  <2> QED BY <2>3, <2>4, <2>5, <2>9, <2>14, Zenon
<1>3. IsList(<<runner>>) /\ Append(a, runner) = a \o <<runner>>
  BY ListsMadeOfLists, AddedIsJoined
<1>4. Append(Pcs(a), runner.pc) = Pcs(a) \o <<runner.pc>>
  <2>1. PICK pcs, pc : pcs = Pcs(a) /\ pc = runner.pc
    OBVIOUS
  <2>2. IsList(pcs)
    BY <2>1, PcsAreList, Zenon
  <2>3. Append(pcs, pc) = pcs \o <<pc>>
    BY <2>2, AddedIsJoined
  <2> QED BY <2>1, <2>3, Zenon
<1>5. Pcs(a \o b) = Pcs(a) \o Pcs(b)
  BY <1>2
<1>6. Pcs(a \o <<runner>>) = Pcs(a) \o Pcs(<<runner>>)
  BY <1>2, <1>3, Zenon
<1>7. Pcs(<<runner>> \o b) = Pcs(<<runner>>) \o Pcs(b)
  BY <1>2, <1>3, Zenon
<1> QED BY <1>1, <1>3, <1>4, <1>5, <1>6, <1>7, Zenon

\* A runner with its fields, and a list of them.
IsRunner(runner) == DOMAIN runner = DOMAIN NewRunner(0)
AreRunners(runners) == \A i \in 1..Len(runners) : IsRunner(runners[i])

\* A bus and its elements, by its buffer and its queue.
LEMMA ElementsOfParts ==
  ASSUME NEW S, NEW bus \in Facts!BusOf(S)
  PROVE  /\ bus.queue \in Seq(S) /\ bus.buffer \in Seq(Facts!EntryOf(S))
         /\ bus = [buffer |-> bus.buffer, queue |-> bus.queue] /\ Len(bus.queue) <= BusSize
         /\ Len(Bus!Elements(bus)) = Len(bus.queue) + Len(bus.buffer)
         /\ \A i \in 1..Len(bus.queue) : Bus!Elements(bus)[i] = bus.queue[i]
         /\ \A i \in 1..Len(bus.buffer) :
              Bus!Elements(bus)[Len(bus.queue) + i] = bus.buffer[i].t
<1>1. /\ bus.queue \in Seq(S) /\ bus.buffer \in Seq(Facts!EntryOf(S))
      /\ bus = [buffer |-> bus.buffer, queue |-> bus.queue] /\ Len(bus.queue) <= BusSize
  BY DEF Facts!BusOf
<1>2. PICK queue, buffer : queue = bus.queue /\ buffer = bus.buffer
  OBVIOUS
<1>3. queue \in Seq(S) /\ buffer \in Seq(Facts!EntryOf(S))
  BY <1>1, <1>2
<1>4. PICK waiting : waiting = [i \in 1..Len(buffer) |-> buffer[i].t]
  OBVIOUS
<1>5. waiting \in Seq(S) /\ Len(waiting) = Len(buffer)
      /\ \A i \in 1..Len(buffer) : waiting[i] = buffer[i].t
  <2>1. \A i \in 1..Len(buffer) : buffer[i].t \in S
    <3>1. \A i \in 1..Len(buffer) : buffer[i] \in Facts!EntryOf(S)
      BY <1>3
    <3> QED BY <3>1 DEF Facts!EntryOf
  <2>2. waiting \in [1..Len(buffer) -> S] /\ Len(buffer) \in Nat
    BY <1>3, <1>4, <2>1
  <2> QED BY <1>4, <2>2
<1>6. PICK elements : elements = queue \o waiting
  OBVIOUS
<1>7. Bus!Elements(bus) = elements
  BY <1>2, <1>4, <1>6 DEF Bus!Elements
<1>8. /\ Len(elements) = Len(queue) + Len(waiting)
      /\ \A i \in 1..Len(queue) : elements[i] = queue[i]
      /\ \A i \in 1..Len(waiting) : elements[Len(queue) + i] = waiting[i]
  <2>1. queue \in Seq(S) /\ waiting \in Seq(S)
    BY <1>3, <1>5
  <2> QED BY <1>6, <2>1
<1> QED BY <1>1, <1>2, <1>5, <1>7, <1>8

\* Changing a runner on the bus changes that element and no other.
LEMMA RepointedElements ==
  ASSUME IsBus(executeBus), NEW i \in 1..Len(Bus!Elements(executeBus)), NEW runner
  PROVE  /\ IsBus(Repointed(i, runner))
         /\ Len(Bus!Elements(Repointed(i, runner))) = Len(Bus!Elements(executeBus))
         /\ \A j \in 1..Len(Bus!Elements(executeBus)) :
              Bus!Elements(Repointed(i, runner))[j]
                = IF j = i THEN runner ELSE Bus!Elements(executeBus)[j]
<1>1. PICK S : executeBus \in Facts!BusOf(S)
  BY DEF IsBus
<1>2. PICK T : T = S \cup {runner}
  OBVIOUS
<1>3. PICK queue, buffer, elements :
        queue = executeBus.queue /\ buffer = executeBus.buffer
        /\ elements = Bus!Elements(executeBus)
  OBVIOUS
<1>4. /\ queue \in Seq(S) /\ buffer \in Seq(Facts!EntryOf(S))
      /\ executeBus = [buffer |-> buffer, queue |-> queue] /\ Len(queue) <= BusSize
      /\ Len(elements) = Len(queue) + Len(buffer)
      /\ \A j \in 1..Len(queue) : elements[j] = queue[j]
      /\ \A j \in 1..Len(buffer) : elements[Len(queue) + j] = buffer[j].t
  BY <1>1, <1>3, ElementsOfParts
<1>5. /\ S \subseteq T /\ runner \in T /\ Facts!EntryOf(S) \subseteq Facts!EntryOf(T)
      /\ queue \in Seq(T) /\ buffer \in Seq(Facts!EntryOf(T))
      /\ Len(queue) \in Nat /\ Len(buffer) \in Nat
  <2>1. S \subseteq T /\ runner \in T /\ Facts!EntryOf(S) \subseteq Facts!EntryOf(T)
    BY <1>2 DEF Facts!EntryOf
  <2> QED BY <1>4, <2>1
<1>6. PICK bus : bus = Repointed(i, runner)
  OBVIOUS
<1>7. CASE i \in 1..Len(queue)
  <2>1. PICK q2 : q2 = [queue EXCEPT ![i] = runner]
    OBVIOUS
  <2>2. /\ q2 \in Seq(T) /\ Len(q2) = Len(queue)
        /\ \A j \in 1..Len(queue) : q2[j] = IF j = i THEN runner ELSE queue[j]
    BY <1>5, <1>7, <2>1
  <2>3. i <= Len(executeBus.queue)
    BY <1>3, <1>7
  <2>4. bus = [executeBus EXCEPT !.queue = q2]
    BY <1>3, <1>6, <2>1, <2>3 DEF Repointed
  <2>5. bus = [buffer |-> buffer, queue |-> q2]
    BY <1>4, <2>4
  <2>6. bus \in Facts!BusOf(T) /\ bus.queue = q2 /\ bus.buffer = buffer
    BY <1>4, <1>5, <2>2, <2>5 DEF Facts!BusOf
  <2>7. /\ Len(Bus!Elements(bus)) = Len(q2) + Len(buffer)
        /\ \A j \in 1..Len(q2) : Bus!Elements(bus)[j] = q2[j]
        /\ \A j \in 1..Len(buffer) : Bus!Elements(bus)[Len(q2) + j] = buffer[j].t
    BY <2>6, ElementsOfParts
  <2>8. ASSUME NEW j \in 1..Len(elements)
        PROVE  Bus!Elements(bus)[j] = IF j = i THEN runner ELSE elements[j]
    <3>1. CASE j \in 1..Len(queue)
      BY <1>4, <2>2, <2>7, <3>1
    <3>2. CASE j \notin 1..Len(queue)
      <4>1. PICK k \in 1..Len(buffer) : j = Len(queue) + k
        <5>1. j - Len(queue) \in 1..Len(buffer) /\ j = Len(queue) + (j - Len(queue))
          BY <1>4, <1>5, <3>2
        <5> QED BY <5>1
      <4> QED BY <1>4, <1>7, <2>2, <2>7, <3>2, <4>1
    <3> QED BY <3>1, <3>2
  <2>9. Len(Bus!Elements(bus)) = Len(elements)
    BY <1>4, <2>2, <2>7
  <2> QED BY <1>3, <1>6, <2>6, <2>8, <2>9 DEF IsBus
<1>8. CASE i \notin 1..Len(queue)
  <2>1. PICK k \in 1..Len(buffer) : i = Len(queue) + k /\ k = i - Len(queue)
    <3>1. i \in 1..Len(elements)
      BY <1>3
    <3>2. /\ i - Len(queue) \in 1..Len(buffer) /\ i = Len(queue) + (i - Len(queue))
      BY <1>4, <1>5, <1>8, <3>1
    <3> QED BY <3>2
  <2>2. PICK entry : entry = [buffer[k] EXCEPT !.t = runner]
    OBVIOUS
  <2>3. entry \in Facts!EntryOf(T) /\ entry.t = runner
    <3>1. buffer[k] \in Facts!EntryOf(T)
      BY <1>5
    <3> QED BY <1>5, <2>2, <3>1 DEF Facts!EntryOf
  <2>4. PICK b2 : b2 = [buffer EXCEPT ![k] = entry]
    OBVIOUS
  <2>5. /\ b2 \in Seq(Facts!EntryOf(T)) /\ Len(b2) = Len(buffer)
        /\ \A j \in 1..Len(buffer) : b2[j].t = IF j = k THEN runner ELSE buffer[j].t
    <3>1. /\ b2 \in Seq(Facts!EntryOf(T)) /\ Len(b2) = Len(buffer)
          /\ \A j \in 1..Len(buffer) : b2[j] = IF j = k THEN entry ELSE buffer[j]
      BY <1>5, <2>3, <2>4
    <3> QED BY <2>3, <3>1
  <2>6. ~(i <= Len(executeBus.queue))
    BY <1>3, <1>5, <2>1
  <2>7. bus = [executeBus EXCEPT !.buffer = b2]
    BY <1>3, <1>6, <2>1, <2>2, <2>4, <2>6 DEF Repointed
  <2>8. bus = [buffer |-> b2, queue |-> queue]
    BY <1>4, <2>7
  <2>9. bus \in Facts!BusOf(T) /\ bus.queue = queue /\ bus.buffer = b2
    BY <1>4, <1>5, <2>5, <2>8 DEF Facts!BusOf
  <2>10. /\ Len(Bus!Elements(bus)) = Len(queue) + Len(b2)
         /\ \A j \in 1..Len(queue) : Bus!Elements(bus)[j] = queue[j]
         /\ \A j \in 1..Len(b2) : Bus!Elements(bus)[Len(queue) + j] = b2[j].t
    BY <2>9, ElementsOfParts
  <2>11. ASSUME NEW j \in 1..Len(elements)
         PROVE  Bus!Elements(bus)[j] = IF j = i THEN runner ELSE elements[j]
    <3>1. CASE j \in 1..Len(queue)
      BY <1>4, <1>8, <2>10, <3>1
    <3>2. CASE j \notin 1..Len(queue)
      <4>1. PICK m \in 1..Len(buffer) : j = Len(queue) + m
        <5>1. j - Len(queue) \in 1..Len(buffer) /\ j = Len(queue) + (j - Len(queue))
          BY <1>4, <1>5, <3>2
        <5> QED BY <5>1
      <4>2. j = i <=> m = k
        BY <1>5, <2>1, <4>1
      <4> QED BY <1>4, <2>5, <2>10, <4>1, <4>2
    <3> QED BY <3>1, <3>2
  <2>12. Len(Bus!Elements(bus)) = Len(elements)
    BY <1>4, <2>5, <2>10
  <2> QED BY <1>3, <1>6, <2>9, <2>11, <2>12 DEF IsBus
<1> QED BY <1>7, <1>8

-----------------------------------------------------------------------------
(* The invariant of the front end                                          *)

\* The pcs between the decode and the control unit, and all that are decoded and
\* that no execute unit has taken.
Ahead == Pcs(pendings) \o Bus!Elements(controlBus)
Awaiting == Pcs(Bus!Elements(executeBus)) \o Ahead

\* What is behind them, for a decode unit that stops or goes on.
Behind(pending, clean, bus, pc) ==
  IF pending THEN << >> ELSE IF clean THEN <<pc>> ELSE Append(Bus!Elements(bus), pc)

\* DecodeWaitsForJump6 of a list of pcs, a decode unit and two execute units.
RunsJump(eu) == eu.stage # "start" /\ IsJump(eu.runner.pc)
OneRunsJump(units) == RunsJump(units[1]) \/ RunsJump(units[2])
StopHolds(awaiting, pending, units) ==
  /\ Waits(awaiting, pending /\ ~OneRunsJump(units))
  /\ OneRunsJump(units) => pending /\ awaiting = << >>
  /\ ~(RunsJump(units[1]) /\ RunsJump(units[2]))

\* The shapes of the buses and the units.
ShapeInv ==
  /\ IsBus(decodeBus) /\ IsBus(controlBus) /\ IsBus(executeBus) /\ IsList(pendings)
  /\ AreRunners(Bus!Elements(executeBus)) /\ AreRunners(pendings)
  /\ issued \in Nat /\ previous \in Nat /\ unit \in Unit
  /\ eus = [i \in Unit |-> eus[i]] /\ \A i \in Unit : DOMAIN eus[i] = DOMAIN IdleEu
  /\ DOMAIN fu = {"pc", "toCleanPending", "complete", "coroutine", "remaining"}
  /\ fu.toCleanPending \in BOOLEAN
  /\ DOMAIN du = {"ret", "pendingBranchResolution"} /\ du.pendingBranchResolution \in BOOLEAN

\* The stop of the decode unit, program order, and that the fetch unit has cleaned
\* its bus when the decode unit looks at it.
StopInv == StopHolds(Awaiting, du.pendingBranchResolution, eus)
OrderInv ==
  InSequence(Ahead \o Behind(du.pendingBranchResolution, fu.toCleanPending, decodeBus, fu.pc))
CleanInv == phase = "decode" => ~fu.toCleanPending
FrontInv == status = "running" => ShapeInv /\ StopInv /\ OrderInv /\ CleanInv

\* With the same program, the parts are about the lists of the next state.
LEMMA FrontNext ==
  ASSUME UNCHANGED app
  PROVE  /\ StopHolds(Awaiting', du'.pendingBranchResolution, eus') => StopInv'
         /\ InSequence(Ahead' \o Behind(du'.pendingBranchResolution, fu'.toCleanPending,
                                        decodeBus', fu'.pc)) => OrderInv'
<1>1. \A pc : (IsJump(pc)' <=> IsJump(pc)) /\ (PastEnd(pc)' <=> PastEnd(pc))
  BY DEF IsJump, InstructionAt, PastEnd
<1>2. \A pc, next : Follows(pc, next)' <=> Follows(pc, next)
  BY <1>1, Zenon DEF Follows
<1>3. InSequence(Ahead' \o Behind(du'.pendingBranchResolution, fu'.toCleanPending,
                                  decodeBus', fu'.pc)) => OrderInv'
  BY <1>2, Zenon DEF InSequence, OrderInv, Behind
<1>4. StopHolds(Awaiting', du'.pendingBranchResolution, eus') => StopInv'
  BY <1>1, Zenon DEF StopInv, StopHolds, Waits, OneRunsJump, RunsJump
<1> QED BY <1>3, <1>4

\* What is decoded is a list.
LEMMA AheadIsList ==
  ASSUME ShapeInv
  PROVE  /\ IsList(Ahead) /\ IsList(Awaiting) /\ IsList(Pcs(pendings))
         /\ IsList(Bus!Elements(controlBus)) /\ IsList(Pcs(Bus!Elements(executeBus)))
         /\ IsList(Bus!Elements(decodeBus)) /\ IsList(Bus!Elements(executeBus))
<1>1. IsBus(decodeBus) /\ IsBus(controlBus) /\ IsBus(executeBus) /\ IsList(pendings)
  BY DEF ShapeInv
<1>2. /\ IsList(Bus!Elements(controlBus)) /\ IsList(Bus!Elements(executeBus))
      /\ IsList(Bus!Elements(decodeBus))
  BY <1>1, PutAndConnect, Zenon
<1>3. IsList(Pcs(pendings)) /\ IsList(Pcs(Bus!Elements(executeBus)))
  BY <1>1, <1>2, PcsAreList, Zenon
<1>4. IsList(Ahead)
  BY <1>2, <1>3, ListsMadeOfLists, Zenon DEF Ahead
<1>5. IsList(Awaiting)
  BY <1>3, <1>4, ListsMadeOfLists, Zenon DEF Awaiting
<1> QED BY <1>2, <1>3, <1>4, <1>5

\* The decode unit takes one more.
LEMMA DecodingKeepsStop ==
  ASSUME NEW awaiting, IsList(awaiting), NEW units, StopHolds(awaiting, FALSE, units), NEW pc
  PROVE  StopHolds(Append(awaiting, pc), IsJump(pc), units)
<1>1. ~OneRunsJump(units) /\ Waits(awaiting, FALSE)
  BY DEF StopHolds, OneRunsJump, Waits
<1>2. Waits(Append(awaiting, pc), IsJump(pc))
  BY <1>1, DecodingKeepsWaits
<1>3. Waits(Append(awaiting, pc), IsJump(pc) /\ ~OneRunsJump(units))
  BY <1>1, <1>2, Zenon DEF Waits
<1> QED BY <1>1, <1>3, Zenon DEF StopHolds, OneRunsJump

\* An execute unit without a jump takes the oldest.
LEMMA TakingKeepsStop ==
  ASSUME NEW rest, IsList(rest), NEW pc, NEW pending \in BOOLEAN, NEW units,
         units = [i \in Unit |-> units[i]],
         StopHolds(<<pc>> \o rest, pending, units),
         NEW u \in Unit, units[u].stage = "start",
         NEW eu, eu.stage # "start", eu.runner.pc = pc
  PROVE  StopHolds(rest, pending, [units EXCEPT ![u] = eu])
<1>1. ~OneRunsJump(units)
  <2>1. PICK S : rest \in Seq(S) /\ pc \in S
    BY ListsOfOneSet
  <2>2. <<pc>> \o rest # << >>
    BY <2>1
  <2> QED BY <2>2, Zenon DEF StopHolds
<1>2. Waits(<<pc>> \o rest, pending)
  BY <1>1, Zenon DEF StopHolds, Waits
<1>3. /\ Waits(rest, pending /\ ~IsJump(pc))
      /\ IsJump(pc) => pending /\ rest = << >>
  BY <1>2, TakingKeepsWaits
<1> DEFINE next == [units EXCEPT ![u] = eu]
<1>4. /\ u = 1 => next[1] = eu /\ next[2] = units[2]
      /\ u = 2 => next[2] = eu /\ next[1] = units[1]
      /\ u = 1 \/ u = 2
  BY DEF Unit
<1>5. RunsJump(eu) <=> IsJump(pc)
  BY Zenon DEF RunsJump
<1>6. (OneRunsJump(next) <=> IsJump(pc)) /\ ~(RunsJump(next[1]) /\ RunsJump(next[2]))
  BY <1>1, <1>4, <1>5, Zenon DEF OneRunsJump
<1> HIDE DEF next
<1>7. Waits(rest, pending /\ ~OneRunsJump(next))
  BY <1>3, <1>6, Zenon DEF Waits
<1>8. StopHolds(rest, pending, next)
  BY <1>3, <1>6, <1>7, Zenon DEF StopHolds
<1> QED BY <1>8 DEF next

\* An execute unit has done its instruction; if it was a jump, the decode unit is
\* told.
LEMMA FreeingKeepsStop ==
  ASSUME NEW awaiting, IsList(awaiting), NEW pending \in BOOLEAN, NEW units,
         units = [i \in Unit |-> units[i]], StopHolds(awaiting, pending, units),
         NEW u \in Unit, units[u].stage # "start"
  PROVE  /\ StopHolds(awaiting, pending /\ ~IsJump(units[u].runner.pc),
                      [units EXCEPT ![u] = IdleEu])
         /\ IsJump(units[u].runner.pc) => awaiting = << >>
<1> DEFINE next == [units EXCEPT ![u] = IdleEu]
           pc == units[u].runner.pc
<1>1. /\ u = 1 => next[1] = IdleEu /\ next[2] = units[2]
      /\ u = 2 => next[2] = IdleEu /\ next[1] = units[1]
      /\ u = 1 \/ u = 2
  BY DEF Unit
<1>2. ~RunsJump(IdleEu)
  BY DEF RunsJump, IdleEu
<1>3. RunsJump(units[u]) <=> IsJump(pc)
  BY Zenon DEF RunsJump
<1> HIDE DEF next, pc
<1>4. CASE IsJump(pc)
  <2>1. awaiting = << >> /\ ~OneRunsJump(next)
    BY <1>1, <1>2, <1>3, <1>4, Zenon DEF StopHolds, OneRunsJump
  <2>2. Waits(awaiting, FALSE)
    BY <2>1 DEF Waits
  <2>3. Waits(awaiting, (pending /\ ~IsJump(pc)) /\ ~OneRunsJump(next))
    BY <1>4, <2>2, Zenon DEF Waits
  <2> QED BY <2>1, <2>3, Zenon DEF StopHolds, OneRunsJump, pc, next
<1>5. CASE ~IsJump(pc)
  <2>1. OneRunsJump(next) <=> OneRunsJump(units)
    BY <1>1, <1>2, <1>3, <1>5, Zenon DEF OneRunsJump
  <2>2. ~(RunsJump(next[1]) /\ RunsJump(next[2]))
    BY <1>1, <1>2, Zenon
  <2>3. Waits(awaiting, (pending /\ ~IsJump(pc)) /\ ~OneRunsJump(next))
    BY <1>5, <2>1, Zenon DEF StopHolds, Waits
  <2>4. StopHolds(awaiting, pending /\ ~IsJump(pc), next)
    BY <1>5, <2>1, <2>2, <2>3, Zenon DEF StopHolds
  <2> QED BY <1>5, <2>4, Zenon DEF pc, next
<1> QED BY <1>4, <1>5

-----------------------------------------------------------------------------
(* The fetch unit                                                          *)

\* What coFetch makes of the unit and its bus: shapes, and program order behind
\* what is decoded.
FetchState(s) ==
  /\ DOMAIN s = {"unit", "bus", "lines"} /\ IsBus(s.bus)
  /\ DOMAIN s.unit = {"pc", "toCleanPending", "complete", "coroutine", "remaining"}
  /\ s.unit.toCleanPending = FALSE
  /\ InSequence(Ahead \o Behind(du.pendingBranchResolution, FALSE, s.bus, s.unit.pc))

\* The unit goes to the next pc.
LEMMA AdvanceInOrder ==
  ASSUME ShapeInv, NEW s, FetchState(s) PROVE FetchState(Advance(s))
<1> DEFINE next == Advance(s)
<1>1. /\ DOMAIN next = {"unit", "bus", "lines"} /\ next.bus = Put(s.bus, s.unit.pc)
      /\ DOMAIN next.unit = {"pc", "toCleanPending", "complete", "coroutine", "remaining"}
      /\ next.unit.toCleanPending = FALSE /\ next.unit.pc = s.unit.pc + 4
  BY DEF FetchState, Advance
<1> HIDE DEF next
<1>2. IsBus(next.bus) /\ Bus!Elements(next.bus) = Append(Bus!Elements(s.bus), s.unit.pc)
      /\ IsList(Bus!Elements(s.bus)) /\ IsList(Ahead)
  BY <1>1, PutAndConnect, AheadIsList, Zenon DEF FetchState
<1>3. CASE du.pendingBranchResolution
  <2>1. Behind(du.pendingBranchResolution, FALSE, next.bus, next.unit.pc)
          = Behind(du.pendingBranchResolution, FALSE, s.bus, s.unit.pc)
    BY <1>3 DEF Behind
  <2> QED BY <1>1, <1>2, <2>1, Zenon DEF FetchState, next
<1>4. CASE ~du.pendingBranchResolution
  <2>0. PICK pc, elements, ahead :
          pc = s.unit.pc /\ elements = Bus!Elements(s.bus) /\ ahead = Ahead
    OBVIOUS
  <2> DEFINE old == ahead \o elements
  <2>8. IsList(ahead) /\ IsList(elements)
    BY <1>2, <2>0, Zenon
  <2>1. IsList(old) /\ Append(old, pc) = ahead \o Append(elements, pc)
    <3>1. Append(ahead \o elements, pc) = ahead \o Append(elements, pc)
      BY <2>8, AddedToJoined
    <3> QED BY <2>8, <3>1, ListsMadeOfLists, Zenon
  <2>2. IsList(Append(elements, pc))
    BY <2>8, ListsMadeOfLists, Zenon
  <2>3. Append(Append(old, pc), pc + 4) = ahead \o Append(Append(elements, pc), pc + 4)
    <3>1. PICK longer, next4 : longer = Append(elements, pc) /\ next4 = pc + 4
      OBVIOUS
    <3>2. Append(ahead \o longer, next4) = ahead \o Append(longer, next4)
      <4>1. IsList(longer)
        BY <2>2, <3>1, Zenon
      <4> QED BY <2>8, <4>1, AddedToJoined
    <3> QED BY <2>1, <3>1, <3>2, Zenon
  <2>4. InSequence(Append(old, pc))
    BY <1>4, <2>0, <2>1 DEF FetchState, Behind
  <2>5. InSequence(Append(Append(old, pc), pc + 4))
    BY <2>1, <2>4, NextInSequence, Zenon
  <2>6. Behind(du.pendingBranchResolution, FALSE, next.bus, next.unit.pc)
          = Append(Append(elements, pc), pc + 4)
    BY <1>1, <1>2, <1>4, <2>0 DEF Behind
  <2>7. InSequence(Ahead \o Behind(du.pendingBranchResolution, FALSE, next.bus, next.unit.pc))
    BY <2>0, <2>3, <2>5, <2>6, Zenon
  <2> QED BY <1>1, <1>2, <2>7, Zenon DEF FetchState, next
<1> QED BY <1>3, <1>4

\* A change of the unit's other fields or of the lines of L1I changes no pc.
LEMMA SamePcs ==
  ASSUME NEW s, FetchState(s), NEW t, DOMAIN t = DOMAIN s, t.bus = s.bus,
         DOMAIN t.unit = DOMAIN s.unit, t.unit.pc = s.unit.pc,
         t.unit.toCleanPending = s.unit.toCleanPending
  PROVE  FetchState(t)
BY Zenon DEF FetchState

\* One turn of the loop in coFetch.
LEMMA FetchOneInOrder ==
  ASSUME ShapeInv, NEW s, FetchState(s) PROVE FetchState(FetchOne(s))
<1>1. DOMAIN s = {"unit", "bus", "lines"}
      /\ DOMAIN s.unit = {"pc", "toCleanPending", "complete", "coroutine", "remaining"}
  BY DEF FetchState
<1>2. CASE FetchOne(s) = s
  BY <1>2
<1>3. CASE FetchOne(s) = [s EXCEPT !.unit = [@ EXCEPT !.coroutine = "wait",
                                                      !.remaining = MemoryCycles - 1]]
  <2> DEFINE t == [s EXCEPT !.unit = [@ EXCEPT !.coroutine = "wait",
                                               !.remaining = MemoryCycles - 1]]
  <2>1. /\ DOMAIN t = DOMAIN s /\ t.bus = s.bus /\ DOMAIN t.unit = DOMAIN s.unit
        /\ t.unit.pc = s.unit.pc /\ t.unit.toCleanPending = s.unit.toCleanPending
    BY <1>1
  <2> HIDE DEF t
  <2>2. FetchState(t)
    BY <2>1, SamePcs, Zenon
  <2> QED BY <1>3, <2>2 DEF t
<1>4. CASE FetchOne(s) = Advance([s EXCEPT !.lines = L1I!Promote(@, s.unit.pc)])
  <2> DEFINE t == [s EXCEPT !.lines = L1I!Promote(@, s.unit.pc)]
  <2>1. /\ DOMAIN t = DOMAIN s /\ t.bus = s.bus /\ t.unit = s.unit
    BY <1>1
  <2> HIDE DEF t
  <2>2. FetchState(t)
    BY <2>1, SamePcs, Zenon
  <2> QED BY <1>4, <2>2, AdvanceInOrder DEF t
<1> QED BY <1>2, <1>3, <1>4 DEF FetchOne

\* Nor does the cleaning that a reset has asked for leave anything out of order.
LEMMA CleanedInOrder == ASSUME ShapeInv, OrderInv PROVE FetchState(Cleaned)
<1>1. /\ DOMAIN Cleaned = {"unit", "bus", "lines"}
      /\ DOMAIN Cleaned.unit = {"pc", "toCleanPending", "complete", "coroutine", "remaining"}
      /\ Cleaned.unit.toCleanPending = FALSE /\ Cleaned.unit.pc = fu.pc
      /\ Cleaned.bus = IF fu.toCleanPending THEN Bus!NewBus ELSE Connected(decodeBus)
  BY DEF Cleaned, ShapeInv
<1>2. IsBus(Cleaned.bus)
      /\ Bus!Elements(Cleaned.bus)
           = IF fu.toCleanPending THEN << >> ELSE Bus!Elements(decodeBus)
  <2>1. IsBus(decodeBus)
    BY DEF ShapeInv
  <2> QED BY <1>1, <2>1, NewBusIsBus, PutAndConnect
<1>3. Behind(du.pendingBranchResolution, FALSE, Cleaned.bus, Cleaned.unit.pc)
        = Behind(du.pendingBranchResolution, fu.toCleanPending, decodeBus, fu.pc)
  <2>1. Append(<< >>, fu.pc) = <<fu.pc>>
    OBVIOUS
  <2> QED BY <1>1, <1>2, <2>1 DEF Behind
<1>4. InSequence(Ahead \o Behind(du.pendingBranchResolution, FALSE, Cleaned.bus,
                                 Cleaned.unit.pc))
  BY <1>3, Zenon DEF OrderInv
<1> QED BY <1>1, <1>2, <1>4, Zenon DEF FetchState

\* fetchUnit.cycle
LEMMA FetchedInOrder ==
  ASSUME ShapeInv, OrderInv, NEW s \in Fetched PROVE FetchState(s)
<1>1. FetchState(Cleaned)
  BY CleanedInOrder
<1>2. DOMAIN Cleaned = {"unit", "bus", "lines"}
      /\ DOMAIN Cleaned.unit = {"pc", "toCleanPending", "complete", "coroutine", "remaining"}
  BY <1>1 DEF FetchState
<1>3. CASE s = Cleaned
  BY <1>1, <1>3
<1>4. CASE s = FetchOne(FetchOne(Cleaned))
  BY <1>1, <1>4, FetchOneInOrder
<1>5. CASE s = [Cleaned EXCEPT !.unit = [@ EXCEPT !.remaining = fu.remaining - 1]]
  <2>1. /\ DOMAIN s = DOMAIN Cleaned /\ s.bus = Cleaned.bus
        /\ DOMAIN s.unit = DOMAIN Cleaned.unit /\ s.unit.pc = Cleaned.unit.pc
        /\ s.unit.toCleanPending = Cleaned.unit.toCleanPending
    BY <1>2, <1>5
  <2> QED BY <1>1, <2>1, SamePcs, Zenon
<1>6. CASE s = Arrived(Cleaned)
  <2> DEFINE t == [Cleaned EXCEPT !.lines = L1I!PushLine(@, Cleaned.unit.pc, << >>),
                                  !.unit = [@ EXCEPT !.coroutine = "start"]]
  <2>1. /\ DOMAIN t = DOMAIN Cleaned /\ t.bus = Cleaned.bus
        /\ DOMAIN t.unit = DOMAIN Cleaned.unit /\ t.unit.pc = Cleaned.unit.pc
        /\ t.unit.toCleanPending = Cleaned.unit.toCleanPending
    BY <1>2
  <2>2. s = Advance(t)
    BY <1>6 DEF Arrived
  <2> HIDE DEF t
  <2>3. FetchState(t)
    BY <1>1, <2>1, SamePcs, Zenon
  <2> QED BY <2>2, <2>3, AdvanceInOrder, Zenon
<1>7. \/ s = Cleaned
      \/ s = FetchOne(FetchOne(Cleaned))
      \/ s = [Cleaned EXCEPT !.unit = [@ EXCEPT !.remaining = fu.remaining - 1]]
      \/ s = Arrived(Cleaned)
  <2>1. PICK cleaned : cleaned = Cleaned
    OBVIOUS
  <2>2. CASE fu.coroutine = "idle"
    BY <2>2 DEF Fetched
  <2>3. CASE fu.coroutine = "start"
    <3>1. s \in {FetchOne(once) : once \in {FetchOne(Cleaned)}}
      BY <2>3 DEF Fetched
    <3> QED BY <3>1, Zenon
  <2>4. CASE fu.coroutine \notin {"idle", "start"}
    BY <2>4 DEF Fetched
  <2> QED BY <2>2, <2>3, <2>4
<1> QED BY <1>3, <1>4, <1>5, <1>6, <1>7, Zenon

\* The step of the fetch unit.
LEMMA FetchKeepsFront == ASSUME FrontInv, Fetch PROVE FrontInv'
<1>1. ShapeInv /\ StopInv /\ OrderInv
  BY DEF FrontInv, Fetch, At
<1>2. PICK s \in Fetched : fu' = s.unit /\ decodeBus' = s.bus
  BY DEF Fetch
<1>3. FetchState(s)
  BY <1>1, FetchedInOrder
<1>4. /\ UNCHANGED <<app, du, pendings, eus, issued, previous>> /\ unit' = 1
      /\ controlBus' = Connected(controlBus) /\ executeBus' = Connected(executeBus)
  BY DEF Fetch, GoTo, controlVars, executeVars
<1>5. /\ IsBus(controlBus') /\ Bus!Elements(controlBus') = Bus!Elements(controlBus)
      /\ IsBus(executeBus') /\ Bus!Elements(executeBus') = Bus!Elements(executeBus)
  BY <1>1, <1>4, PutAndConnect, Zenon DEF ShapeInv
<1>6. Ahead' = Ahead /\ Awaiting' = Awaiting
  BY <1>4, <1>5, Zenon DEF Ahead, Awaiting
<1>7. ShapeInv'
  <2>1. IsBus(decodeBus') /\ fu'.toCleanPending \in BOOLEAN
        /\ DOMAIN fu' = {"pc", "toCleanPending", "complete", "coroutine", "remaining"}
    BY <1>2, <1>3 DEF FetchState
  <2>2. IsBus(controlBus)' /\ IsBus(executeBus)' /\ IsBus(decodeBus)' /\ IsList(pendings)'
    BY <1>1, <1>4, <1>5, <2>1, Zenon DEF ShapeInv, IsBus, IsList
  <2>3. AreRunners(Bus!Elements(executeBus))' /\ AreRunners(pendings)'
    BY <1>1, <1>4, <1>5, Zenon DEF ShapeInv, AreRunners
  <2>4. unit' \in Unit
    BY <1>4 DEF Unit
  <2> QED BY <1>1, <1>4, <2>1, <2>2, <2>3, <2>4 DEF ShapeInv
<1>8. StopInv'
  BY <1>1, <1>4, <1>6, FrontNext DEF StopInv
<1>9. OrderInv'
  <2>1. fu'.toCleanPending = FALSE
    BY <1>2, <1>3 DEF FetchState
  <2>2. InSequence(Ahead' \o Behind(du'.pendingBranchResolution, fu'.toCleanPending,
                                    decodeBus', fu'.pc))
    BY <1>2, <1>3, <1>4, <1>6, <2>1 DEF FetchState
  <2> QED BY <1>4, <2>2, FrontNext
<1>10. CleanInv'
  BY <1>2, <1>3 DEF CleanInv, FetchState
<1> QED BY <1>7, <1>8, <1>9, <1>10, Zenon DEF FrontInv

-----------------------------------------------------------------------------
(* The decode unit                                                         *)

\* What the decode loop makes of the unit and its buses.
DecodedBy(s) == Pcs(pendings) \o Bus!Elements(s.out)
DecodeShape(s) ==
  /\ DOMAIN s = {"in", "out", "unit", "forwards", "stop", "panic"}
  /\ IsBus(s.in) /\ IsBus(s.out)
  /\ DOMAIN s.unit = {"ret", "pendingBranchResolution"}
  /\ s.unit.pendingBranchResolution \in BOOLEAN
DecodeOrder(s) ==
  /\ StopHolds(Pcs(Bus!Elements(executeBus)) \o DecodedBy(s),
               s.unit.pendingBranchResolution, eus)
  /\ InSequence(DecodedBy(s) \o Behind(s.unit.pendingBranchResolution, FALSE, s.in, fu.pc))
  /\ ~s.stop => ~s.unit.pendingBranchResolution

\* A decoded instruction: it joins the others, and a jump stops the unit.
LEMMA DecodedInOrder ==
  ASSUME ShapeInv, NEW s, DecodeShape(s), DecodeOrder(s), ~s.stop, Bus!CanGet(s.in),
         NEW t, DecodeShape(t), t.in = Bus!AfterGet(s.in),
         t.out = Put(s.out, Bus!Oldest(s.in)),
         t.unit.pendingBranchResolution = IsJump(Bus!Oldest(s.in)),
         t.stop = IsJump(Bus!Oldest(s.in))
  PROVE  DecodeOrder(t)
<1>1. PICK pc, front, out, in, next, issuedPcs :
        /\ pc = Bus!Oldest(s.in) /\ front = Pcs(pendings) /\ out = Bus!Elements(s.out)
        /\ in = Bus!Elements(t.in) /\ next = fu.pc /\ issuedPcs = Pcs(Bus!Elements(executeBus))
  OBVIOUS
<1>2. IsList(front) /\ IsList(issuedPcs)
  BY <1>1, AheadIsList, Zenon
<1>3. Bus!Elements(s.in) = <<pc>> \o in /\ IsList(in)
  BY <1>1, GetFromBus, Zenon DEF DecodeShape
<1>4. Bus!Elements(t.out) = Append(out, pc) /\ IsList(out)
  BY <1>1, PutAndConnect DEF DecodeShape
<1>5. IsList(front \o out) /\ IsList(Append(out, pc)) /\ IsList(issuedPcs \o (front \o out))
  BY <1>2, <1>4, ListsMadeOfLists, Zenon
<1>6. s.unit.pendingBranchResolution = FALSE
  BY DEF DecodeOrder, DecodeShape
<1>7. DecodedBy(s) = front \o out /\ DecodedBy(t) = Append(front \o out, pc)
  <2>1. Append(front \o out, pc) = front \o Append(out, pc)
    BY <1>2, <1>4, AddedToJoined
  <2> QED BY <1>1, <1>4, <2>1 DEF DecodedBy
<1>8. StopHolds(issuedPcs \o DecodedBy(t), IsJump(pc), eus)
  <2>1. StopHolds(issuedPcs \o (front \o out), FALSE, eus)
    BY <1>1, <1>6, <1>7, Zenon DEF DecodeOrder
  <2>2. StopHolds(Append(issuedPcs \o (front \o out), pc), IsJump(pc), eus)
    BY <1>5, <2>1, DecodingKeepsStop, Zenon
  <2>3. Append(issuedPcs \o (front \o out), pc) = issuedPcs \o Append(front \o out, pc)
    BY <1>2, <1>5, AddedToJoined
  <2> QED BY <1>7, <2>2, <2>3
<1>9. InSequence(DecodedBy(t) \o Append(in, next))
  <2>1. IsList(Append(in, next)) /\ IsList(<<pc>> \o in) /\ IsList(<<pc>>)
    BY <1>3, ListsMadeOfLists, Zenon
  <2>2. InSequence((front \o out) \o Append(<<pc>> \o in, next))
    BY <1>1, <1>3, <1>6, <1>7 DEF DecodeOrder, Behind
  <2>3. Append(<<pc>> \o in, next) = <<pc>> \o Append(in, next)
    BY <1>3, <2>1, AddedToJoined
  <2>4. (front \o out) \o (<<pc>> \o Append(in, next))
          = Append(front \o out, pc) \o Append(in, next)
    BY <1>5, <2>1, FirstJoinsFront
  <2> QED BY <1>7, <2>2, <2>3, <2>4
<1>10. InSequence(DecodedBy(t) \o Behind(IsJump(pc), FALSE, t.in, next))
  <2>1. CASE IsJump(pc)
    <3>1. IsList(DecodedBy(t)) /\ IsList(Append(in, next))
      BY <1>3, <1>5, <1>7, ListsMadeOfLists, Zenon
    <3>2. InSequence(DecodedBy(t)) /\ DecodedBy(t) \o << >> = DecodedBy(t)
      BY <1>9, <3>1, PartsInSequence, NothingJoined
    <3> QED BY <2>1, <3>2 DEF Behind
  <2>2. CASE ~IsJump(pc)
    BY <1>1, <1>9, <2>2 DEF Behind
  <2> QED BY <2>1, <2>2
<1> QED BY <1>1, <1>8, <1>10 DEF DecodeOrder

\* A pc past the end of the program is dropped.
LEMMA DroppedInOrder ==
  ASSUME ShapeInv, NEW s, DecodeShape(s), DecodeOrder(s), ~s.stop, Bus!CanGet(s.in),
         PastEnd(Bus!Oldest(s.in)),
         NEW t, t.in = Bus!AfterGet(s.in), t.out = s.out, t.unit = s.unit, t.stop = TRUE
  PROVE  DecodeOrder(t)
<1>1. PICK pc, decoded, in, next :
        /\ pc = Bus!Oldest(s.in) /\ decoded = DecodedBy(s) /\ in = Bus!Elements(t.in)
        /\ next = fu.pc
  OBVIOUS
<1>2. Bus!Elements(s.in) = <<pc>> \o in /\ IsList(in)
  BY <1>1, GetFromBus, Zenon DEF DecodeShape
<1>3. IsList(decoded) /\ DecodedBy(t) = decoded
  <2>1. IsList(Pcs(pendings)) /\ IsList(Bus!Elements(s.out))
    BY AheadIsList, PutAndConnect, Zenon DEF DecodeShape
  <2> QED BY <1>1, <2>1, ListsMadeOfLists, Zenon DEF DecodedBy
<1>4. s.unit.pendingBranchResolution = FALSE
  BY DEF DecodeOrder, DecodeShape
<1>5. InSequence(decoded \o Append(in, next))
  <2>1. IsList(Append(in, next)) /\ IsList(<<pc>>)
    BY <1>2, ListsMadeOfLists, Zenon
  <2>2. InSequence(decoded \o Append(<<pc>> \o in, next))
    BY <1>1, <1>2, <1>4 DEF DecodeOrder, Behind
  <2>3. Append(<<pc>> \o in, next) = <<pc>> \o Append(in, next)
    BY <1>2, <2>1, AddedToJoined
  <2>4. InSequence(decoded \o (<<pc>> \o Append(in, next))) /\ PastEnd(pc)
    BY <1>1, <2>2, <2>3
  <2> QED BY <1>3, <2>1, <2>4, WithoutPastEnd, Zenon
<1>6. InSequence(DecodedBy(t) \o Behind(t.unit.pendingBranchResolution, FALSE, t.in, fu.pc))
  BY <1>1, <1>3, <1>4, <1>5 DEF Behind
<1> QED BY <1>1, <1>3, <1>6 DEF DecodeOrder

\* One turn of the decode loop.
LEMMA DecodeOneInOrder ==
  ASSUME ShapeInv, NEW s, DecodeShape(s), DecodeOrder(s)
  PROVE  DecodeShape(DecodeOne(s)) /\ (~DecodeOne(s).panic => DecodeOrder(DecodeOne(s)))
<1> DEFINE pc == Bus!Oldest(s.in)
           t == DecodeOne(s)
<1>1. /\ DOMAIN s = {"in", "out", "unit", "forwards", "stop", "panic"}
      /\ IsBus(s.in) /\ IsBus(s.out) /\ IsJump(pc) \in BOOLEAN
  BY DEF DecodeShape, IsJump, IsUnconditionalBranch
<1>2. CASE s.stop \/ ~Bus!CanGet(s.in)
  BY <1>2 DEF DecodeOne
<1>3. CASE ~s.stop /\ Bus!CanGet(s.in) /\ PastEnd(pc)
  <2>1. t = [[s EXCEPT !.in = Bus!AfterGet(@)] EXCEPT !.stop = TRUE]
    BY <1>3 DEF DecodeOne
  <2>2. /\ t.in = Bus!AfterGet(s.in) /\ t.out = s.out /\ t.unit = s.unit /\ t.stop = TRUE
        /\ DOMAIN t = DOMAIN s
    BY <1>1, <2>1
  <2>3. IsBus(t.in)
    BY <1>1, <1>3, <2>2, GetFromBus, Zenon
  <2>4. DecodeShape(t)
    BY <2>2, <2>3 DEF DecodeShape
  <2>5. DecodeOrder(t)
    BY <1>3, <2>2, DroppedInOrder, Zenon
  <2> QED BY <2>4, <2>5, Zenon
<1>4. CASE ~s.stop /\ Bus!CanGet(s.in) /\ ~PastEnd(pc) /\ IndexOf(pc) < 0
  <2>1. t = [[s EXCEPT !.in = Bus!AfterGet(@)] EXCEPT !.stop = TRUE, !.panic = TRUE]
    BY <1>4 DEF DecodeOne
  <2>2. /\ t.in = Bus!AfterGet(s.in) /\ t.out = s.out /\ t.unit = s.unit /\ t.panic = TRUE
        /\ DOMAIN t = DOMAIN s
    BY <1>1, <2>1
  <2>3. IsBus(t.in)
    BY <1>1, <1>4, <2>2, GetFromBus, Zenon
  <2> QED BY <2>2, <2>3 DEF DecodeShape
<1>5. CASE ~s.stop /\ Bus!CanGet(s.in) /\ ~PastEnd(pc) /\ ~(IndexOf(pc) < 0)
  <2> DEFINE taken == [s EXCEPT !.in = Bus!AfterGet(@)]
             du2 == [ret |-> s.unit.ret \/ InstructionAt(pc).op = "ret",
                     pendingBranchResolution |-> IsJump(pc)]
  <2>1. t = [taken EXCEPT !.out = Put(@, pc), !.stop = IsJump(pc), !.unit = du2,
                          !.forwards = [@ EXCEPT ![IndexOf(pc) + 1] = NoForward]]
    <3>1. DOMAIN taken = DOMAIN s /\ taken.unit = s.unit
      BY <1>1
    <3> QED BY <1>1, <1>5, <3>1 DEF DecodeOne
  <2>2. /\ DOMAIN du2 = {"ret", "pendingBranchResolution"}
        /\ du2.pendingBranchResolution = IsJump(pc)
    OBVIOUS
  <2> HIDE DEF du2
  <2>3. /\ t.in = Bus!AfterGet(s.in) /\ t.out = Put(s.out, pc) /\ t.unit = du2
        /\ t.stop = IsJump(pc) /\ DOMAIN t = DOMAIN s
    BY <1>1, <2>1
  <2> HIDE DEF t, taken
  <2>4. IsBus(t.in)
    BY <1>1, <1>5, <2>3, GetFromBus, Zenon
  <2>5. IsBus(t.out)
    BY <1>1, <2>3, PutAndConnect, Zenon
  <2>6. DecodeShape(t)
    BY <1>1, <2>2, <2>3, <2>4, <2>5 DEF DecodeShape
  <2>7. DecodeOrder(t)
    BY <1>5, <2>2, <2>3, <2>6, DecodedInOrder, Zenon
  <2> QED BY <2>6, <2>7, Zenon DEF t
<1> QED BY <1>2, <1>3, <1>4, <1>5

\* The step of the decode unit.
LEMMA DecodeKeepsFront == ASSUME FrontInv, Decode PROVE FrontInv'
<1>1. ShapeInv /\ StopInv /\ OrderInv /\ ~fu.toCleanPending
  BY DEF FrontInv, Decode, At, CleanInv
<1>2. fu.toCleanPending = FALSE
  BY <1>1 DEF ShapeInv
<1>3. DecodeShape(DecodeState) /\ DecodeOrder(DecodeState)
  <2>1. /\ DecodeState.in = decodeBus /\ DecodeState.out = controlBus
        /\ DecodeState.unit = du /\ DecodeState.stop = (du.ret \/ du.pendingBranchResolution)
        /\ DOMAIN DecodeState = {"in", "out", "unit", "forwards", "stop", "panic"}
    BY DEF DecodeState
  <2>2. DecodeShape(DecodeState)
    BY <1>1, <2>1 DEF ShapeInv, DecodeShape
  <2>3. DecodedBy(DecodeState) = Ahead
    BY <2>1 DEF DecodedBy, Ahead
  <2>4. /\ StopHolds(Pcs(Bus!Elements(executeBus)) \o DecodedBy(DecodeState),
                     DecodeState.unit.pendingBranchResolution, eus)
        /\ InSequence(DecodedBy(DecodeState)
                      \o Behind(DecodeState.unit.pendingBranchResolution, FALSE,
                                DecodeState.in, fu.pc))
    BY <1>1, <1>2, <2>1, <2>3, Zenon DEF StopInv, OrderInv, Awaiting
  <2> QED BY <2>1, <2>2, <2>4 DEF DecodeOrder
<1>4. PICK s : /\ s \in {DecodeOne(once) : once \in {DecodeOne(DecodeState)}}
               /\ decodeBus' = s.in /\ controlBus' = s.out /\ du' = s.unit
               /\ IF s.panic THEN status' = "panic" /\ UNCHANGED <<phase, unit>>
                  ELSE GoTo("control")
  BY Zenon DEF Decode
<1>5. s = DecodeOne(DecodeOne(DecodeState))
  BY <1>4, Zenon
<1>6. CASE s.panic
  <2>1. status' = "panic"
    BY <1>4, <1>6
  <2> QED BY <2>1 DEF FrontInv
<1>7. CASE ~s.panic
  <2>1. DecodeShape(s) /\ DecodeOrder(s)
    <3>1. DecodeShape(DecodeOne(DecodeState))
          /\ (~DecodeOne(DecodeState).panic => DecodeOrder(DecodeOne(DecodeState)))
      BY <1>1, <1>3, DecodeOneInOrder, Zenon
    <3>2. ~DecodeOne(DecodeState).panic
      <4>1. CASE DecodeOne(DecodeState).panic
        <5>1. DecodeOne(DecodeState).stop \/ s = DecodeOne(DecodeState)
          BY <1>3, <1>5, <4>1 DEF DecodeOne, DecodeState
        <5>2. s = DecodeOne(DecodeState)
          BY <1>5, <5>1 DEF DecodeOne
        <5> QED BY <1>7, <4>1, <5>2
      <4> QED BY <4>1
    <3> QED BY <1>1, <1>5, <1>7, <3>1, <3>2, DecodeOneInOrder, Zenon
  <2>2. /\ UNCHANGED <<app, fu, pendings, executeBus, eus, issued, previous>>
        /\ phase' = "control" /\ unit' = 1
    BY <1>4, <1>7 DEF Decode, GoTo, controlVars
  <2>3. Ahead' = DecodedBy(s) /\ Awaiting' = Pcs(Bus!Elements(executeBus)) \o DecodedBy(s)
    BY <1>4, <2>2 DEF Ahead, Awaiting, DecodedBy
  <2>4. ShapeInv'
    <3>1. IsBus(decodeBus') /\ IsBus(controlBus') /\ unit' \in Unit
      BY <1>4, <2>1, <2>2 DEF DecodeShape, Unit
    <3>2. IsBus(decodeBus)' /\ IsBus(controlBus)' /\ IsBus(executeBus)' /\ IsList(pendings)'
      BY <1>1, <2>2, <3>1, Zenon DEF ShapeInv, IsBus, IsList
    <3>3. AreRunners(Bus!Elements(executeBus))' /\ AreRunners(pendings)'
      BY <1>1, <2>2, Zenon DEF ShapeInv, AreRunners
    <3> QED BY <1>1, <1>4, <2>1, <2>2, <3>1, <3>2, <3>3 DEF ShapeInv, DecodeShape
  <2>5. StopInv'
    BY <1>4, <2>1, <2>2, <2>3, FrontNext DEF DecodeOrder
  <2>6. OrderInv'
    BY <1>2, <1>4, <2>1, <2>2, <2>3, FrontNext DEF DecodeOrder
  <2>7. CleanInv'
    BY <2>2 DEF CleanInv
  <2> QED BY <2>4, <2>5, <2>6, <2>7, Zenon DEF FrontInv
<1> QED BY <1>6, <1>7

-----------------------------------------------------------------------------
(* The control unit                                                        *)

\* The runner it handles is the oldest in front of the execute bus.
LEMMA RunnerIsOldest ==
  ASSUME ShapeInv, HasRunner
  PROVE  /\ IsRunner(Runner)
         /\ pendings # << >> => \E rest : /\ IsList(rest) /\ AreRunners(rest)
                                          /\ rest = Tail(pendings)
                                          /\ Pcs(pendings) = <<Runner.pc>> \o Pcs(rest)
         /\ pendings = << >> =>
              /\ IsBus(Bus!AfterGet(controlBus)) /\ Runner.pc = Bus!Oldest(controlBus)
              /\ Bus!Elements(controlBus)
                   = <<Runner.pc>> \o Bus!Elements(Bus!AfterGet(controlBus))
<1>1. CASE pendings # << >>
  <2>1. PICK S : pendings \in Seq(S)
    BY DEF ShapeInv, IsList
  <2>2. Runner = Head(pendings)
    BY <1>1 DEF Runner
  <2>3. PICK rest \in Seq(S) : rest = Tail(pendings)
    <3>1. Tail(pendings) \in Seq(S)
      BY <1>1, <2>1
    <3> QED BY <3>1, Zenon
  <2>4. /\ Len(pendings) \in Nat \ {0} /\ Len(rest) = Len(pendings) - 1
        /\ \A i \in 1..Len(rest) : rest[i] = pendings[i + 1]
        /\ pendings = <<Runner>> \o rest /\ Runner = pendings[1]
    BY <1>1, <2>1, <2>2, <2>3
  <2>5. IsRunner(Runner) /\ AreRunners(rest)
    <3>1. \A i \in 1..Len(pendings) : IsRunner(pendings[i])
      BY Zenon DEF ShapeInv, AreRunners
    <3>2. 1 \in 1..Len(pendings) /\ \A i \in 1..Len(rest) : i + 1 \in 1..Len(pendings)
      BY <2>4
    <3> QED BY <2>4, <3>1, <3>2 DEF AreRunners
  <2>6. IsList(rest)
    BY <2>3 DEF IsList
  <2>7. Pcs(pendings) = <<Runner.pc>> \o Pcs(rest)
    BY <2>4, <2>6, PcsOfJoined
  <2> QED BY <1>1, <2>3, <2>5, <2>6, <2>7
<1>2. CASE pendings = << >>
  <2>1. Bus!CanGet(controlBus) /\ Runner = NewRunner(Bus!Oldest(controlBus))
    BY <1>2 DEF HasRunner, FromBus, Runner
  <2>2. /\ IsBus(Bus!AfterGet(controlBus))
        /\ Bus!Elements(controlBus)
             = <<Bus!Oldest(controlBus)>> \o Bus!Elements(Bus!AfterGet(controlBus))
    BY <2>1, GetFromBus, Zenon DEF ShapeInv
  <2>3. IsRunner(Runner) /\ Runner.pc = Bus!Oldest(controlBus)
    BY <2>1 DEF IsRunner, NewRunner
  <2> QED BY <1>2, <2>2, <2>3
<1> QED BY <1>1, <1>2

\* It leaves the place it was found in.
LEMMA TakenFromAhead ==
  ASSUME ShapeInv, HasRunner, Takes
  PROVE  /\ IsBus(controlBus') /\ IsList(pendings') /\ AreRunners(pendings') /\ IsList(Ahead')
         /\ Ahead = <<Runner.pc>> \o Ahead'
<1>1. CASE pendings # << >>
  <2>1. PICK rest : /\ IsList(rest) /\ AreRunners(rest) /\ rest = Tail(pendings)
                    /\ Pcs(pendings) = <<Runner.pc>> \o Pcs(rest)
    BY <1>1, RunnerIsOldest
  <2>2. pendings' = rest /\ controlBus' = controlBus
    BY <1>1, <2>1 DEF Takes
  <2>3. PICK pcs, elements : pcs = Pcs(rest) /\ elements = Bus!Elements(controlBus)
    OBVIOUS
  <2>4. IsList(pcs) /\ IsList(elements)
    BY <2>1, <2>3, AheadIsList, PcsAreList, Zenon
  <2>5. PICK S : pcs \in Seq(S) /\ elements \in Seq(S) /\ Runner.pc \in S
    BY <2>4, ListsOfOneSet
  <2>6. (<<Runner.pc>> \o pcs) \o elements = <<Runner.pc>> \o (pcs \o elements)
    BY <2>5
  <2>7. Ahead = <<Runner.pc>> \o Ahead' /\ Ahead' = pcs \o elements
    BY <2>1, <2>2, <2>3, <2>6, Zenon DEF Ahead
  <2>8. IsList(Ahead')
    BY <2>4, <2>7, ListsMadeOfLists, Zenon
  <2>9. IsBus(controlBus')
    BY <2>2 DEF ShapeInv
  <2> QED BY <2>1, <2>2, <2>7, <2>8, <2>9, Zenon
<1>2. CASE pendings = << >>
  <2>1. /\ IsBus(Bus!AfterGet(controlBus))
        /\ Bus!Elements(controlBus)
             = <<Runner.pc>> \o Bus!Elements(Bus!AfterGet(controlBus))
    BY <1>2, RunnerIsOldest, Zenon
  <2>2. pendings' = pendings /\ controlBus' = Bus!AfterGet(controlBus)
    BY <1>2 DEF Takes
  <2>3. Pcs(pendings) = << >>
    BY <1>2 DEF Pcs
  <2>4. IsBus(controlBus')
    BY <2>1, <2>2, Zenon
  <2>5. PICK elements : elements = Bus!Elements(controlBus')
    OBVIOUS
  <2>6. IsList(elements) /\ IsList(<<Runner.pc>> \o elements)
    <3>1. IsList(elements)
      BY <2>4, <2>5, PutAndConnect, Zenon
    <3>2. IsList(<<Runner.pc>>)
      BY <3>1, ListsMadeOfLists, Zenon
    <3> QED BY <3>1, <3>2, ListsMadeOfLists, Zenon
  <2>7. Ahead' = elements /\ Ahead = <<Runner.pc>> \o elements
    <3>1. Ahead' = << >> \o elements
      BY <2>2, <2>3, <2>5, Zenon DEF Ahead
    <3>2. Ahead = << >> \o (<<Runner.pc>> \o elements)
      BY <2>1, <2>2, <2>3, <2>5, Zenon DEF Ahead
    <3> QED BY <2>6, <3>1, <3>2, NothingJoined
  <2>8. IsList(pendings') /\ AreRunners(pendings')
    BY <2>2 DEF ShapeInv
  <2> QED BY <2>4, <2>6, <2>7, <2>8, Zenon
<1> QED BY <1>1, <1>2

\* Or it is put aside, perhaps with a channel, in front of the others.
LEMMA KeptAhead ==
  ASSUME ShapeInv, HasRunner, NEW runner, IsRunner(runner), runner.pc = Runner.pc, Keeps(runner)
  PROVE  IsBus(controlBus') /\ IsList(pendings') /\ AreRunners(pendings') /\ Ahead' = Ahead
<1>1. CASE pendings # << >>
  BY <1>1 DEF Keeps, ShapeInv, Ahead
<1>2. CASE pendings = << >>
  <2>1. /\ IsBus(Bus!AfterGet(controlBus))
        /\ Bus!Elements(controlBus)
             = <<Runner.pc>> \o Bus!Elements(Bus!AfterGet(controlBus))
    BY <1>2, RunnerIsOldest, Zenon
  <2>2. pendings' = <<runner>> /\ controlBus' = Bus!AfterGet(controlBus)
    BY <1>2 DEF Keeps
  <2>3. Pcs(pendings) = << >> /\ Pcs(<<runner>>) = <<runner.pc>>
    BY <1>2 DEF Pcs
  <2>4. IsBus(controlBus')
    BY <2>1, <2>2, Zenon
  <2>5. IsList(Bus!Elements(controlBus))
    BY AheadIsList
  <2>6. Ahead' = <<runner.pc>> \o Bus!Elements(controlBus')
    BY <2>2, <2>3, Zenon DEF Ahead
  <2>7. Ahead = Bus!Elements(controlBus)
    <3>1. Ahead = << >> \o Bus!Elements(controlBus)
      BY <2>3, Zenon DEF Ahead
    <3> QED BY <2>5, <3>1, NothingJoined
  <2>8. Ahead' = Ahead
    BY <2>1, <2>2, <2>6, <2>7, Zenon
  <2>9. IsList(pendings') /\ AreRunners(pendings')
    <3>1. PICK one : one = <<runner>>
      OBVIOUS
    <3>2. one \in Seq({runner}) /\ Len(one) = 1 /\ one[1] = runner
      BY <3>1
    <3>3. IsList(one)
      BY <3>2 DEF IsList
    <3>4. AreRunners(one)
      <4>1. ASSUME NEW i \in 1..Len(one) PROVE IsRunner(one[i])
        <5>1. i = 1
          BY <3>2
        <5> QED BY <3>2, <5>1, Zenon
      <4> QED BY <4>1, Zenon DEF AreRunners
    <3> QED BY <2>2, <3>1, <3>3, <3>4, Zenon
  <2> QED BY <2>4, <2>8, <2>9, Zenon
<1> QED BY <1>1, <1>2

\* A pushed runner moves from one list to the other.
LEMMA PushedInOrder ==
  ASSUME ShapeInv, HasRunner, Takes, NEW bus, IsBus(bus), AreRunners(Bus!Elements(bus)),
         Pcs(Bus!Elements(bus)) = Pcs(Bus!Elements(executeBus)),
         NEW runner, IsRunner(runner), runner.pc = Runner.pc, executeBus' = Put(bus, runner)
  PROVE  /\ IsBus(executeBus') /\ AreRunners(Bus!Elements(executeBus'))
         /\ Awaiting' = Awaiting
<1>1. PICK elements, pcs, behind, pc :
        /\ elements = Bus!Elements(bus) /\ pcs = Pcs(elements) /\ behind = Ahead'
        /\ pc = Runner.pc
  OBVIOUS
<1>2. /\ IsBus(executeBus') /\ Bus!Elements(executeBus') = Append(elements, runner)
      /\ IsList(elements)
  BY <1>1, PutAndConnect
<1>3. AreRunners(Append(elements, runner))
  <2>1. PICK S : elements \in Seq(S) /\ runner \in S
    BY <1>2, ListsOfOneSet
  <2>2. /\ Len(Append(elements, runner)) = Len(elements) + 1
        /\ Append(elements, runner)[Len(elements) + 1] = runner
        /\ \A i \in 1..Len(elements) : Append(elements, runner)[i] = elements[i]
        /\ Len(elements) \in Nat
    BY <2>1
  <2> QED BY <1>1, <2>2 DEF AreRunners
<1>4. IsList(pcs) /\ IsList(behind) /\ Ahead = <<pc>> \o behind
  BY <1>1, <1>2, TakenFromAhead, PcsAreList, Zenon
<1>5. Pcs(Append(elements, runner)) = Append(pcs, pc)
  <2>1. IsList(elements)
    BY <1>2
  <2>2. Pcs(Append(elements, runner)) = Append(Pcs(elements), runner.pc)
    BY <2>1, PcsOfJoined
  <2> QED BY <1>1, <2>2
<1>6. Append(pcs, pc) \o behind = pcs \o (<<pc>> \o behind)
  BY <1>4, FirstJoinsFront
<1>7. Awaiting' = Append(pcs, pc) \o behind
  BY <1>1, <1>2, <1>5 DEF Awaiting
<1>8. Awaiting = pcs \o (<<pc>> \o behind)
  BY <1>1, <1>4 DEF Awaiting
<1> QED BY <1>2, <1>3, <1>6, <1>7, <1>8

\* The forwarder is still on the bus, and is changed where it stands.
LEMMA RepointedInOrder ==
  ASSUME ShapeInv, NEW i \in Previous, NEW runner, IsRunner(runner),
         runner.pc = Bus!Elements(executeBus)[i].pc
  PROVE  /\ IsBus(Repointed(i, runner)) /\ AreRunners(Bus!Elements(Repointed(i, runner)))
         /\ Pcs(Bus!Elements(Repointed(i, runner))) = Pcs(Bus!Elements(executeBus))
<1>1. PICK elements, changed :
        elements = Bus!Elements(executeBus) /\ changed = Bus!Elements(Repointed(i, runner))
  OBVIOUS
<1>2. IsList(elements) /\ IsBus(executeBus) /\ AreRunners(elements)
  BY <1>1, AheadIsList DEF ShapeInv
<1>3. i \in 1..Len(elements)
  <2>1. Len(elements) \in Nat
    BY <1>2 DEF IsList
  <2>2. /\ issued \in Nat /\ previous \in Nat
        /\ i \in (Len(elements) - issued) - previous + 1..(Len(elements) - issued) /\ i >= 1
    BY <1>1 DEF Previous, ShapeInv
  <2> QED BY <2>1, <2>2
<1>4. /\ IsBus(Repointed(i, runner)) /\ Len(changed) = Len(elements)
      /\ \A j \in 1..Len(elements) : changed[j] = IF j = i THEN runner ELSE elements[j]
  BY <1>1, <1>2, <1>3, RepointedElements
<1>5. AreRunners(changed)
  BY <1>2, <1>4 DEF AreRunners
<1>6. IsList(changed)
  BY <1>1, <1>4, PutAndConnect, Zenon
<1>7. Pcs(changed) = Pcs(elements)
  <2>1. PICK a, b : a = Pcs(changed) /\ b = Pcs(elements)
    OBVIOUS
  <2>2. /\ IsList(a) /\ Len(a) = Len(changed) /\ \A j \in 1..Len(changed) : a[j] = changed[j].pc
        /\ IsList(b) /\ Len(b) = Len(elements)
        /\ \A j \in 1..Len(elements) : b[j] = elements[j].pc
    BY <1>2, <1>6, <2>1, PcsAreList, Zenon
  <2>3. PICK S : a \in Seq(S) /\ b \in Seq(S)
    BY <2>2, ListsOfOneSet
  <2>4. \A j \in 1..Len(a) : a[j] = b[j]
    BY <1>1, <1>4, <2>2
  <2>5. a = b
    BY <1>4, <2>2, <2>3, <2>4, SeqEqual
  <2> QED BY <2>1, <2>5
<1> QED BY <1>1, <1>4, <1>5, <1>7

\* The control unit changes the place of pcs, and no order.
LEMMA MovedInOrder ==
  ASSUME FrontInv, status = "running", UNCHANGED <<app, fu, decodeBus, du, eus>>,
         IsBus(executeBus'), AreRunners(Bus!Elements(executeBus')),
         IsBus(controlBus'), IsList(pendings'), AreRunners(pendings'),
         Awaiting' = Awaiting,
         Ahead' = Ahead \/ \E pc : IsList(Ahead') /\ Ahead = <<pc>> \o Ahead',
         issued' \in Nat, previous' \in Nat, unit' \in Unit, phase' # "decode"
  PROVE  FrontInv'
<1>1. ShapeInv /\ StopInv /\ OrderInv
  BY DEF FrontInv
<1>2. ShapeInv'
  <2>1. IsBus(decodeBus)' /\ IsBus(controlBus)' /\ IsBus(executeBus)' /\ IsList(pendings)'
    BY <1>1, Zenon DEF ShapeInv, IsBus, IsList
  <2>2. AreRunners(Bus!Elements(executeBus))' /\ AreRunners(pendings)'
    BY Zenon DEF AreRunners
  <2> QED BY <1>1, <2>1, <2>2 DEF ShapeInv
<1>3. StopInv'
  BY <1>1, FrontNext DEF StopInv
<1>4. OrderInv'
  <2>1. PICK behind :
          behind = Behind(du.pendingBranchResolution, fu.toCleanPending, decodeBus, fu.pc)
    OBVIOUS
  <2>2. IsList(behind)
    <3>1. IsList(Bus!Elements(decodeBus))
      BY <1>1, AheadIsList
    <3>2. IsList(Append(Bus!Elements(decodeBus), fu.pc)) /\ IsList(<< >>) /\ IsList(<<fu.pc>>)
      BY <3>1, ListsMadeOfLists
    <3> QED BY <2>1, <3>2 DEF Behind
  <2>3. InSequence(Ahead \o behind)
    BY <1>1, <2>1 DEF OrderInv
  <2>4. InSequence(Ahead' \o behind)
    <3>1. CASE Ahead' = Ahead
      BY <2>3, <3>1, Zenon
    <3>2. CASE Ahead' # Ahead
      <4>1. PICK pc, rest : rest = Ahead' /\ IsList(rest) /\ Ahead = <<pc>> \o rest
        BY <3>2, Zenon
      <4>2. (<<pc>> \o rest) \o behind = <<pc>> \o (rest \o behind)
        <5>1. PICK S : rest \in Seq(S) /\ behind \in Seq(S) /\ pc \in S
          BY <2>2, <4>1, ListsOfOneSet
        <5> QED BY <5>1
      <4>3. InSequence(<<pc>> \o (rest \o behind))
        BY <2>3, <4>1, <4>2, Zenon
      <4>4. IsList(rest \o behind) /\ IsList(<<pc>>)
        BY <2>2, <4>1, ListsMadeOfLists, Zenon
      <4> QED BY <4>1, <4>3, <4>4, PartsInSequence, Zenon
    <3> QED BY <3>1, <3>2
  <2> QED BY <2>1, <2>4, FrontNext
<1>5. CleanInv'
  BY DEF CleanInv
<1> QED BY <1>2, <1>3, <1>4, <1>5, Zenon DEF FrontInv

\* The steps of the control unit.
LEMMA ControlKeepsFront == ASSUME FrontInv, Control PROVE FrontInv'
<1>1. ShapeInv /\ status = "running" /\ phase = "control"
  BY DEF FrontInv, Control, At
<1>2. UNCHANGED <<app, fu, decodeBus, du, eus>>
  BY DEF Control
<1>3. IsBus(executeBus) /\ AreRunners(Bus!Elements(executeBus)) /\ IsBus(controlBus)
      /\ IsList(pendings) /\ AreRunners(pendings) /\ issued \in Nat /\ previous \in Nat
      /\ unit \in Unit
  BY <1>1 DEF ShapeInv
<1>4. ASSUME NEW pushed \in Nat, Stops(pushed)
      PROVE  issued' \in Nat /\ previous' \in Nat /\ unit' \in Unit /\ phase' # "decode"
  BY <1>4 DEF Stops, GoTo, Unit
<1>5. issued + 1 \in Nat
  BY <1>3
<1>6. CASE IssueNothing
  <2>1. UNCHANGED <<controlBus, pendings, executeBus>> /\ Stops(issued)
    BY <1>6 DEF IssueNothing
  <2>2. Ahead' = Ahead /\ Awaiting' = Awaiting
    BY <2>1, Zenon DEF Ahead, Awaiting
  <2>3. /\ IsBus(executeBus') /\ AreRunners(Bus!Elements(executeBus'))
        /\ IsBus(controlBus') /\ IsList(pendings') /\ AreRunners(pendings')
    BY <1>3, <2>1, Zenon
  <2>4. issued' \in Nat /\ previous' \in Nat /\ unit' \in Unit /\ phase' # "decode"
    BY <1>3, <1>4, <2>1
  <2> QED BY <1>1, <1>2, <2>2, <2>3, <2>4, MovedInOrder, Zenon
<1>7. CASE Issue
  <2>1. HasRunner /\ Pushes(executeBus, Runner) /\ issued' = issued + 1
        /\ UNCHANGED <<previous, placeVars>>
    BY <1>7 DEF Issue
  <2>2. Takes /\ executeBus' = Put(executeBus, Runner)
    BY <2>1 DEF Pushes
  <2>3. IsRunner(Runner)
    BY <1>1, <2>1, RunnerIsOldest, Zenon
  <2>4. IsBus(executeBus') /\ AreRunners(Bus!Elements(executeBus')) /\ Awaiting' = Awaiting
    BY <1>1, <1>3, <2>1, <2>2, <2>3, PushedInOrder, Zenon
  <2>5. /\ IsBus(controlBus') /\ IsList(pendings') /\ AreRunners(pendings') /\ IsList(Ahead')
        /\ Ahead = <<Runner.pc>> \o Ahead'
    BY <1>1, <2>1, <2>2, TakenFromAhead, Zenon
  <2>6. issued' \in Nat /\ previous' \in Nat /\ unit' \in Unit /\ phase' # "decode"
    BY <1>1, <1>3, <1>5, <2>1 DEF placeVars
  <2> QED BY <1>1, <1>2, <2>4, <2>5, <2>6, MovedInOrder, Zenon
<1>8. CASE IssueForwarded
  <2>1. PICK i, writer, r, runner, receiving :
          /\ i = CHOOSE j \in Writers : TRUE
          /\ writer = Bus!Elements(executeBus)[i]
          /\ r = CHOOSE x \in ReadRegisters(InstructionAt(Runner.pc)) :
                   WritesOf(writer.pc, x) > 0
          /\ runner = [writer EXCEPT !.forwarder = FreshChannel, !.forwardRegister = r]
          /\ receiving = [Runner EXCEPT !.receiver = FreshChannel, !.forwardRegister = r]
    OBVIOUS
  <2>2. PICK sending : sending = Repointed(i, runner)
    OBVIOUS
  <2>3. /\ HasRunner /\ Writers # {}
        /\ IF Bus!CanAdd(executeBus)
           THEN Pushes(sending, receiving) /\ Stops(issued + 1)
           ELSE executeBus' = sending /\ Keeps(receiving) /\ Stops(issued)
    BY <1>8, <2>1, <2>2, Zenon DEF IssueForwarded, ShouldUseForwarding
  <2>4. i \in Previous
    <3>1. i \in Writers
      BY <2>1, <2>3, Zenon
    <3> QED BY <3>1 DEF Writers
  <2>5. IsRunner(writer)
    <3>1. i \in 1..Len(Bus!Elements(executeBus))
      <4>1. IsList(Bus!Elements(executeBus))
        BY <1>1, AheadIsList
      <4>2. Len(Bus!Elements(executeBus)) \in Nat
        BY <4>1 DEF IsList
      <4> QED BY <1>3, <2>4, <4>2 DEF Previous
    <3> QED BY <1>3, <2>1, <3>1, Zenon DEF AreRunners
  <2>6. IsRunner(Runner)
    BY <1>1, <2>3, RunnerIsOldest, Zenon
  <2>7. IsRunner(runner) /\ runner.pc = writer.pc
    BY <2>1, <2>5 DEF IsRunner, NewRunner
  <2>8. IsRunner(receiving) /\ receiving.pc = Runner.pc
    BY <2>1, <2>6 DEF IsRunner, NewRunner
  <2>9. /\ IsBus(sending) /\ AreRunners(Bus!Elements(sending))
        /\ Pcs(Bus!Elements(sending)) = Pcs(Bus!Elements(executeBus))
    BY <1>1, <2>1, <2>2, <2>4, <2>7, RepointedInOrder, Zenon
  <2>10. CASE Bus!CanAdd(executeBus)
    <3>1. Takes /\ executeBus' = Put(sending, receiving) /\ Stops(issued + 1)
      BY <2>3, <2>10 DEF Pushes
    <3>2. IsBus(executeBus') /\ AreRunners(Bus!Elements(executeBus')) /\ Awaiting' = Awaiting
      BY <1>1, <2>3, <2>8, <2>9, <3>1, PushedInOrder, Zenon
    <3>3. /\ IsBus(controlBus') /\ IsList(pendings') /\ AreRunners(pendings')
          /\ IsList(Ahead') /\ Ahead = <<Runner.pc>> \o Ahead'
      BY <1>1, <2>3, <3>1, TakenFromAhead, Zenon
    <3>4. issued' \in Nat /\ previous' \in Nat /\ unit' \in Unit /\ phase' # "decode"
      BY <1>4, <1>5, <3>1
    <3> QED BY <1>1, <1>2, <3>2, <3>3, <3>4, MovedInOrder, Zenon
  <2>11. CASE ~Bus!CanAdd(executeBus)
    <3>1. executeBus' = sending /\ Keeps(receiving) /\ Stops(issued)
      BY <2>3, <2>11
    <3>2. /\ IsBus(controlBus') /\ IsList(pendings') /\ AreRunners(pendings')
          /\ Ahead' = Ahead
      BY <1>1, <2>3, <2>8, <3>1, KeptAhead, Zenon
    <3>3. Awaiting' = Awaiting
      BY <2>9, <3>1, <3>2, Zenon DEF Awaiting
    <3>4. issued' \in Nat /\ previous' \in Nat /\ unit' \in Unit /\ phase' # "decode"
      BY <1>3, <1>4, <3>1
    <3>5. IsBus(executeBus') /\ AreRunners(Bus!Elements(executeBus'))
      BY <2>9, <3>1, Zenon
    <3> QED BY <1>1, <1>2, <3>2, <3>3, <3>4, <3>5, MovedInOrder, Zenon
  <2> QED BY <2>10, <2>11
<1>9. CASE IssueBlocked
  <2>1. HasRunner /\ Keeps(Runner) /\ Stops(issued) /\ UNCHANGED executeBus
    BY <1>9 DEF IssueBlocked
  <2>2. IsRunner(Runner)
    BY <1>1, <2>1, RunnerIsOldest, Zenon
  <2>3. /\ IsBus(controlBus') /\ IsList(pendings') /\ AreRunners(pendings')
        /\ Ahead' = Ahead
    BY <1>1, <2>1, <2>2, KeptAhead, Zenon
  <2>4. Awaiting' = Awaiting
    BY <2>1, <2>3, Zenon DEF Awaiting
  <2>5. issued' \in Nat /\ previous' \in Nat /\ unit' \in Unit /\ phase' # "decode"
    BY <1>3, <1>4, <2>1
  <2>6. IsBus(executeBus') /\ AreRunners(Bus!Elements(executeBus'))
    BY <1>3, <2>1, Zenon
  <2> QED BY <1>1, <1>2, <2>3, <2>4, <2>5, <2>6, MovedInOrder, Zenon
<1> QED BY <1>6, <1>7, <1>8, <1>9 DEF Control

-----------------------------------------------------------------------------
(* The execute units                                                       *)

\* A jump neither returns nor stores (opcodes.go).
LEMMA JumpsNeitherReturnNorStore ==
  ASSUME NEW ins, IsUnconditionalBranch(ins), NEW program, NEW regs, NEW pc, NEW bytes,
         NEW exe, exe = Run(ins, program, regs, pc, bytes)
  PROVE  ~exe.Return /\ ~exe.MemoryChange
<1>1. ins.op \in {"j", "jal", "jalr"}
  BY DEF IsUnconditionalBranch, JumpOps
<1>2. exe = JumpRun(ins, program, regs[ins.rs1], pc)
  BY <1>1 DEF Run, RegRegOps, RegImmOps, UpperOps, LoadOps, StoreOps, BranchOps, JumpOps
<1>3. CASE ins.op = "jalr"
  <2>1. exe = [RegisterResult(ins.rd, Wrap(pc + 4)) EXCEPT !.PcChange = TRUE,
                 !.NextPc = Wrap(regs[ins.rs1] + ins.imm)]
    BY <1>2, <1>3 DEF JumpRun, NoChange
  <2> QED BY <2>1 DEF RegisterResult, NoChange
<1>4. CASE ins.op # "jalr"
  <2> DEFINE target == Goto(program, ins.label)
  <2>1. ~target.Return /\ ~target.MemoryChange
    BY DEF Goto, NoChange, Failed
  <2>2. CASE ins.op = "j" \/ target.Outcome # "ok"
    <3>1. exe = target
      BY <1>2, <1>4, <2>2 DEF JumpRun
    <3> QED BY <2>1, <3>1
  <2>3. CASE ~(ins.op = "j" \/ target.Outcome # "ok")
    <3>1. exe = [RegisterResult(ins.rd, Wrap(pc + 4)) EXCEPT !.PcChange = TRUE,
                   !.NextPc = target.NextPc]
      BY <1>2, <1>4, <2>3 DEF JumpRun
    <3> QED BY <3>1 DEF RegisterResult, NoChange
  <2> QED BY <2>2, <2>3
<1> QED BY <1>3, <1>4

\* What is dispatched when the unit has its job, and the units with it.
Dispatched == IF eus[unit].stage = "start" THEN Bus!AfterGet(executeBus) ELSE executeBus
Holding == [eus EXCEPT ![unit] = Job]

\* The unit takes the oldest runner, or goes on with its own.
LEMMA JobHeld ==
  ASSUME ShapeInv, StopInv, HasJob
  PROVE  /\ IsBus(Dispatched) /\ AreRunners(Bus!Elements(Dispatched))
         /\ IsList(Pcs(Bus!Elements(Dispatched)))
         /\ Holding = [i \in Unit |-> Holding[i]] /\ Holding[unit] = Job
         /\ \A i \in Unit : DOMAIN Holding[i] = DOMAIN IdleEu
         /\ Job.stage # "start"
         /\ StopHolds(Pcs(Bus!Elements(Dispatched)) \o Ahead, du.pendingBranchResolution,
                      Holding)
<1>1. /\ unit \in Unit /\ eus = [i \in Unit |-> eus[i]]
      /\ \A i \in Unit : DOMAIN eus[i] = DOMAIN IdleEu
      /\ IsBus(executeBus) /\ AreRunners(Bus!Elements(executeBus))
      /\ du.pendingBranchResolution \in BOOLEAN
  BY DEF ShapeInv
<1>2. DOMAIN Job = DOMAIN IdleEu /\ Job.stage # "start"
  BY <1>1 DEF Job, IdleEu
<1>3. /\ Holding = [i \in Unit |-> Holding[i]] /\ Holding[unit] = Job
      /\ \A i \in Unit : DOMAIN Holding[i] = DOMAIN IdleEu
  <2>1. PICK job : job = Job
    OBVIOUS
  <2>2. Holding = [i \in Unit |-> IF i = unit THEN job ELSE eus[i]]
    BY <1>1, <2>1 DEF Holding
  <2> QED BY <1>1, <1>2, <2>1, <2>2
<1>4. CASE eus[unit].stage # "start"
  <2>1. Dispatched = executeBus /\ Job = eus[unit]
    BY <1>4 DEF Dispatched, Job
  <2>2. Holding = eus
    BY <1>1, <2>1 DEF Holding
  <2>3. IsList(Pcs(Bus!Elements(executeBus)))
    BY AheadIsList
  <2>4. StopHolds(Pcs(Bus!Elements(Dispatched)) \o Ahead, du.pendingBranchResolution, Holding)
    BY <2>1, <2>2, Zenon DEF StopInv, Awaiting
  <2> QED BY <1>1, <1>2, <1>3, <2>1, <2>3, <2>4, Zenon
<1>5. CASE eus[unit].stage = "start"
  <2>1. /\ Dispatched = Bus!AfterGet(executeBus) /\ Bus!CanGet(executeBus)
        /\ Job = [IdleEu EXCEPT !.stage = "prepare", !.runner = Bus!Oldest(executeBus)]
    BY <1>5 DEF Dispatched, HasJob, Job
  <2>2. PICK rest, oldest :
          rest = Bus!Elements(Dispatched) /\ oldest = Bus!Oldest(executeBus)
    OBVIOUS
  <2>3. /\ IsBus(Dispatched) /\ IsList(rest)
        /\ Bus!Elements(executeBus) = <<oldest>> \o rest
    BY <1>1, <2>1, <2>2, GetFromBus, Zenon
  <2>4. Job.runner = oldest
    BY <2>1, <2>2 DEF IdleEu
  <2>5. AreRunners(rest)
    <3>1. PICK S : rest \in Seq(S) /\ oldest \in S
      BY <2>3, ListsOfOneSet
    <3>2. PICK all \in Seq(S) : all = <<oldest>> \o rest
      <4>1. <<oldest>> \o rest \in Seq(S)
        BY <3>1
      <4> QED BY <4>1, Zenon
    <3>3. /\ Len(rest) \in Nat /\ Len(all) = Len(rest) + 1
          /\ \A i \in 1..Len(rest) : all[i + 1] = rest[i]
      BY <3>1, <3>2
    <3>4. \A i \in 1..Len(all) : IsRunner(all[i])
      BY <1>1, <2>3, <3>2, Zenon DEF AreRunners
    <3>5. \A i \in 1..Len(rest) : i + 1 \in 1..Len(all)
      BY <3>3
    <3> QED BY <3>3, <3>4, <3>5 DEF AreRunners
  <2>6. IsList(Pcs(rest)) /\ Pcs(Bus!Elements(executeBus)) = <<oldest.pc>> \o Pcs(rest)
    BY <2>3, PcsAreList, PcsOfJoined
  <2>7. IsList(Ahead)
    BY AheadIsList
  <2>8. Awaiting = <<oldest.pc>> \o (Pcs(rest) \o Ahead)
    <3>1. PICK pcs, ahead : pcs = Pcs(rest) /\ ahead = Ahead
      OBVIOUS
    <3>2. PICK S : pcs \in Seq(S) /\ ahead \in Seq(S) /\ oldest.pc \in S
      BY <2>6, <2>7, <3>1, ListsOfOneSet
    <3>3. (<<oldest.pc>> \o pcs) \o ahead = <<oldest.pc>> \o (pcs \o ahead)
      BY <3>2
    <3> QED BY <2>6, <3>1, <3>3, Zenon DEF Awaiting
  <2>9. IsList(Pcs(rest) \o Ahead)
    BY <2>6, <2>7, ListsMadeOfLists, Zenon
  <2>10. StopHolds(Pcs(rest) \o Ahead, du.pendingBranchResolution, Holding)
    <3>1. StopHolds(<<oldest.pc>> \o (Pcs(rest) \o Ahead), du.pendingBranchResolution, eus)
      BY <2>8, Zenon DEF StopInv
    <3> QED BY <1>1, <1>2, <1>5, <2>4, <2>9, <3>1, TakingKeepsStop, Zenon DEF Holding
  <2> QED BY <1>2, <1>3, <2>2, <2>3, <2>5, <2>6, <2>10, Zenon
<1> QED BY <1>4, <1>5

ExecuteFrame ==
  /\ UNCHANGED <<app, decodeBus, controlBus, pendings, previous, issued>>
  /\ unit' \in Unit /\ phase' # "decode"

\* It holds the job, whatever it does with it.
LEMMA HeldInOrder ==
  ASSUME FrontInv, status = "running", HasJob, TakeJob, NEW eu, Becomes(eu),
         DOMAIN eu = DOMAIN IdleEu, eu.stage # "start", eu.runner = Job.runner,
         ExecuteFrame, UNCHANGED <<fu, du>>
  PROVE  FrontInv'
<1>1. ShapeInv /\ StopInv /\ OrderInv
  BY DEF FrontInv
<1>2. /\ IsBus(Dispatched) /\ AreRunners(Bus!Elements(Dispatched))
      /\ Holding = [i \in Unit |-> Holding[i]] /\ Holding[unit] = Job
      /\ \A i \in Unit : DOMAIN Holding[i] = DOMAIN IdleEu
      /\ Job.stage # "start"
      /\ StopHolds(Pcs(Bus!Elements(Dispatched)) \o Ahead, du.pendingBranchResolution, Holding)
  BY <1>1, JobHeld, Zenon
<1>3. executeBus' = Dispatched
  BY DEF TakeJob, Dispatched
<1>4. Ahead' = Ahead /\ Awaiting' = Pcs(Bus!Elements(Dispatched)) \o Ahead
  BY <1>3, Zenon DEF Ahead, Awaiting, ExecuteFrame
<1>5. /\ eus' = [i \in Unit |-> eus'[i]] /\ \A i \in Unit : DOMAIN eus'[i] = DOMAIN IdleEu
      /\ eus'[unit] = eu /\ \A i \in Unit \ {unit} : eus'[i] = Holding[i]
  <2>1. PICK job : job = Job
    OBVIOUS
  <2>2. /\ eus = [i \in Unit |-> eus[i]] /\ unit \in Unit
        /\ \A i \in Unit : DOMAIN eus[i] = DOMAIN IdleEu
    BY <1>1 DEF ShapeInv
  <2>3. eus' = [i \in Unit |-> IF i = unit THEN eu ELSE eus[i]]
    BY <2>2 DEF Becomes
  <2>4. Holding = [i \in Unit |-> IF i = unit THEN job ELSE eus[i]]
    BY <2>1, <2>2 DEF Holding
  <2> QED BY <2>2, <2>3, <2>4
<1>6. ShapeInv'
  <2>1. IsBus(decodeBus)' /\ IsBus(controlBus)' /\ IsBus(executeBus)' /\ IsList(pendings)'
    BY <1>1, <1>2, <1>3, Zenon DEF ShapeInv, IsBus, IsList, ExecuteFrame
  <2>2. AreRunners(Bus!Elements(executeBus))' /\ AreRunners(pendings)'
    BY <1>1, <1>2, <1>3, Zenon DEF ShapeInv, AreRunners, ExecuteFrame
  <2> QED BY <1>1, <1>5, <2>1, <2>2 DEF ShapeInv, ExecuteFrame
<1>7. StopInv'
  <2>1. \A i \in Unit : RunsJump(eus'[i]) <=> RunsJump(Holding[i])
    BY <1>2, <1>5, Zenon DEF RunsJump
  <2>2. 1 \in Unit /\ 2 \in Unit
    BY DEF Unit
  <2>3. StopHolds(Awaiting', du'.pendingBranchResolution, eus')
    BY <1>2, <1>4, <2>1, <2>2, Zenon DEF StopHolds, OneRunsJump, Waits
  <2> QED BY <2>3, FrontNext DEF ExecuteFrame
<1>8. OrderInv'
  BY <1>1, <1>4, FrontNext DEF OrderInv, ExecuteFrame
<1>9. CleanInv'
  BY DEF CleanInv, ExecuteFrame
<1> QED BY <1>6, <1>7, <1>8, <1>9, Zenon DEF FrontInv

\* It is free again, and a jump has told the fetch unit and the decode unit.
LEMMA FreedInOrder ==
  ASSUME FrontInv, status = "running", HasJob, TakeJob, Becomes(IdleEu), ExecuteFrame,
         IF IsJump(JobPc) THEN \E pcTo : /\ fu' = ResetTo(pcTo)
                                         /\ du' = [du EXCEPT !.pendingBranchResolution = FALSE]
         ELSE UNCHANGED <<fu, du>>
  PROVE  FrontInv'
<1>1. ShapeInv /\ StopInv /\ OrderInv
  BY DEF FrontInv
<1>2. /\ IsBus(Dispatched) /\ AreRunners(Bus!Elements(Dispatched))
      /\ IsList(Pcs(Bus!Elements(Dispatched)))
      /\ Holding = [i \in Unit |-> Holding[i]] /\ Holding[unit] = Job
      /\ \A i \in Unit : DOMAIN Holding[i] = DOMAIN IdleEu
      /\ Job.stage # "start"
      /\ StopHolds(Pcs(Bus!Elements(Dispatched)) \o Ahead, du.pendingBranchResolution, Holding)
  BY <1>1, JobHeld, Zenon
<1>3. executeBus' = Dispatched
  BY DEF TakeJob, Dispatched
<1>4. Ahead' = Ahead /\ Awaiting' = Pcs(Bus!Elements(Dispatched)) \o Ahead
  BY <1>3, Zenon DEF Ahead, Awaiting, ExecuteFrame
<1>5. IsList(Ahead) /\ IsList(Awaiting')
  <2>1. IsList(Ahead)
    BY <1>1, AheadIsList
  <2> QED BY <1>2, <1>4, <2>1, ListsMadeOfLists, Zenon
<1>6. eus' = [Holding EXCEPT ![unit] = IdleEu] /\ eus' = [i \in Unit |-> eus'[i]]
      /\ \A i \in Unit : DOMAIN eus'[i] = DOMAIN IdleEu
  <2>1. PICK job, idle : job = Job /\ idle = IdleEu
    OBVIOUS
  <2>2. /\ eus = [i \in Unit |-> eus[i]] /\ unit \in Unit
        /\ \A i \in Unit : DOMAIN eus[i] = DOMAIN idle
    BY <1>1, <2>1 DEF ShapeInv
  <2>3. eus' = [i \in Unit |-> IF i = unit THEN idle ELSE eus[i]]
    BY <2>1, <2>2 DEF Becomes
  <2>4. Holding = [i \in Unit |-> IF i = unit THEN job ELSE eus[i]]
    BY <2>1, <2>2 DEF Holding
  <2> QED BY <2>1, <2>2, <2>3, <2>4
<1>7. /\ unit \in Unit /\ du.pendingBranchResolution \in BOOLEAN
      /\ DOMAIN du = {"ret", "pendingBranchResolution"}
      /\ DOMAIN fu = {"pc", "toCleanPending", "complete", "coroutine", "remaining"}
      /\ fu.toCleanPending \in BOOLEAN
  BY <1>1 DEF ShapeInv
<1>8. /\ StopHolds(Awaiting', du.pendingBranchResolution /\ ~IsJump(JobPc), eus')
      /\ IsJump(JobPc) => Awaiting' = << >>
  <2>1. PICK awaiting, units, pending, pc :
          /\ awaiting = Awaiting' /\ units = Holding
          /\ pending = du.pendingBranchResolution /\ pc = JobPc
    OBVIOUS
  <2>2. /\ IsList(awaiting) /\ pending \in BOOLEAN /\ units = [i \in Unit |-> units[i]]
        /\ StopHolds(awaiting, pending, units) /\ unit \in Unit
        /\ units[unit].stage # "start" /\ units[unit].runner.pc = pc
    BY <1>2, <1>4, <1>5, <1>7, <2>1, Zenon DEF JobPc
  <2>3. /\ StopHolds(awaiting, pending /\ ~IsJump(pc), [units EXCEPT ![unit] = IdleEu])
        /\ IsJump(pc) => awaiting = << >>
    <3>1. /\ StopHolds(awaiting, pending /\ ~IsJump(units[unit].runner.pc),
                       [units EXCEPT ![unit] = IdleEu])
          /\ IsJump(units[unit].runner.pc) => awaiting = << >>
      BY <2>2, FreeingKeepsStop
    <3> QED BY <2>2, <3>1, Zenon
  <2> QED BY <1>6, <2>1, <2>3, Zenon
<1>9. /\ DOMAIN du' = {"ret", "pendingBranchResolution"}
      /\ du'.pendingBranchResolution = (du.pendingBranchResolution /\ ~IsJump(JobPc))
      /\ DOMAIN fu' = {"pc", "toCleanPending", "complete", "coroutine", "remaining"}
      /\ fu'.toCleanPending \in BOOLEAN
      /\ IsJump(JobPc) => fu'.toCleanPending /\ ~du'.pendingBranchResolution
      /\ ~IsJump(JobPc) => UNCHANGED <<fu, du>>
  <2>1. CASE IsJump(JobPc)
    <3>1. PICK pcTo : /\ fu' = ResetTo(pcTo)
                      /\ du' = [du EXCEPT !.pendingBranchResolution = FALSE]
      BY <2>1
    <3> QED BY <1>7, <2>1, <3>1 DEF ResetTo
  <2>2. CASE ~IsJump(JobPc)
    BY <1>7, <2>2
  <2> QED BY <2>1, <2>2
<1>10. ShapeInv'
  <2>1. IsBus(decodeBus)' /\ IsBus(controlBus)' /\ IsBus(executeBus)' /\ IsList(pendings)'
    BY <1>1, <1>2, <1>3, Zenon DEF ShapeInv, IsBus, IsList, ExecuteFrame
  <2>2. AreRunners(Bus!Elements(executeBus))' /\ AreRunners(pendings)'
    BY <1>1, <1>2, <1>3, Zenon DEF ShapeInv, AreRunners, ExecuteFrame
  <2> QED BY <1>1, <1>6, <1>9, <2>1, <2>2 DEF ShapeInv, ExecuteFrame
<1>11. StopInv'
  <2>1. StopHolds(Awaiting', du'.pendingBranchResolution, eus')
    BY <1>8, <1>9, Zenon
  <2> QED BY <2>1, FrontNext DEF ExecuteFrame
<1>12. OrderInv'
  <2>1. CASE ~IsJump(JobPc)
    BY <1>1, <1>4, <1>9, <2>1, FrontNext DEF OrderInv, ExecuteFrame
  <2>2. CASE IsJump(JobPc)
    <3>1. PICK front, ahead : front = Pcs(Bus!Elements(Dispatched)) /\ ahead = Ahead
      OBVIOUS
    <3>2. IsList(front) /\ IsList(ahead) /\ front \o ahead = << >>
      BY <1>2, <1>4, <1>5, <1>8, <2>2, <3>1, Zenon
    <3>3. ahead = << >>
      <4>1. PICK S : front \in Seq(S) /\ ahead \in Seq(S)
        BY <3>2, ListsOfOneSet
      <4>2. /\ Len(front) \in Nat /\ Len(ahead) \in Nat
            /\ Len(front \o ahead) = Len(front) + Len(ahead)
        BY <4>1
      <4>3. Len(front \o ahead) = 0
        BY <3>2
      <4>4. Len(ahead) = 0
        BY <4>2, <4>3
      <4> QED BY <4>1, <4>4
    <3>4. Behind(du'.pendingBranchResolution, fu'.toCleanPending, decodeBus', fu'.pc) = <<fu'.pc>>
      BY <1>9, <2>2 DEF Behind
    <3>5. InSequence(<< >> \o <<fu'.pc>>)
      <4>1. << >> \o <<fu'.pc>> = <<fu'.pc>> /\ Len(<<fu'.pc>>) = 1
        OBVIOUS
      <4>2. \A i \in 1..1 - 1 : FALSE
        OBVIOUS
      <4> QED BY <4>1, <4>2 DEF InSequence
    <3>6. Ahead' = << >>
      BY <1>4, <3>1, <3>3, Zenon
    <3> QED BY <3>4, <3>5, <3>6, FrontNext DEF ExecuteFrame
  <2> QED BY <2>1, <2>2
<1>13. CleanInv'
  BY DEF CleanInv, ExecuteFrame
<1> QED BY <1>10, <1>11, <1>12, <1>13, Zenon DEF FrontInv
\* What the front end is made of stays.
LEMMA SameFront ==
  ASSUME FrontInv, status = "running",
         UNCHANGED <<app, frontVars, pendings, previous, issued, executeBus, eus>>,
         unit' \in Unit, phase' # "decode" \/ phase' = phase
  PROVE  FrontInv'
<1>1. ShapeInv /\ StopInv /\ OrderInv /\ CleanInv
  BY DEF FrontInv
<1>2. UNCHANGED <<app, fu, decodeBus, du, controlBus, pendings, previous, issued,
                  executeBus, eus>>
  BY DEF frontVars
<1>3. Ahead' = Ahead /\ Awaiting' = Awaiting
  BY <1>2, Zenon DEF Ahead, Awaiting
<1>4. ShapeInv'
  <2>1. IsBus(decodeBus)' /\ IsBus(controlBus)' /\ IsBus(executeBus)' /\ IsList(pendings)'
    BY <1>1, <1>2, Zenon DEF ShapeInv, IsBus, IsList
  <2>2. AreRunners(Bus!Elements(executeBus))' /\ AreRunners(pendings)'
    BY <1>1, <1>2, Zenon DEF ShapeInv, AreRunners
  <2> QED BY <1>1, <1>2, <2>1, <2>2 DEF ShapeInv
<1>5. StopInv'
  BY <1>1, <1>2, <1>3, FrontNext DEF StopInv
<1>6. OrderInv'
  BY <1>1, <1>2, <1>3, FrontNext DEF OrderInv
<1>7. CleanInv'
  BY <1>1, <1>2 DEF CleanInv
<1> QED BY <1>4, <1>5, <1>6, <1>7, Zenon DEF FrontInv

\* The steps of the execute units.
LEMMA ExecuteKeepsFront == ASSUME FrontInv, Execute PROVE FrontInv'
<1>1. ShapeInv /\ status = "running" /\ phase = "execute" /\ unit \in Unit
  BY DEF FrontInv, Execute, At, ShapeInv
<1>2. UNCHANGED <<app, decodeBus, controlBus, pendings, previous, issued>>
  BY DEF Execute, controlVars
<1>3. ASSUME NextUnit("execute", "write") PROVE ExecuteFrame
  <2>1. unit' \in Unit /\ phase' # "decode"
    BY <1>1, <1>3 DEF NextUnit, Unit
  <2> QED BY <1>2, <2>1 DEF ExecuteFrame
<1>4. ASSUME HasJob PROVE DOMAIN Job = DOMAIN IdleEu /\ Job.stage # "start"
  BY <1>1, <1>4 DEF ShapeInv, Job, IdleEu
<1>5. CASE ExecuteGoesOn
  <2>1. ExecuteFrame /\ UNCHANGED <<fu, du>>
    BY <1>3, <1>5 DEF ExecuteGoesOn
  <2>2. CASE ExecuteNothing
    <3>1. UNCHANGED <<executeBus, eus>>
      BY <2>2 DEF ExecuteNothing
    <3>2. UNCHANGED frontVars
      BY <1>2, <2>1 DEF frontVars
    <3> QED BY <1>1, <1>2, <2>1, <3>1, <3>2, SameFront DEF ExecuteFrame
  <2>3. CASE ExecuteWaits
    <3>1. HasJob /\ TakeJob /\ Becomes(Job)
      BY <2>3 DEF ExecuteWaits
    <3> QED BY <1>1, <1>4, <2>1, <3>1, HeldInOrder
  <2>4. CASE ExecuteReads
    <3>1. HasJob /\ TakeJob
      BY <2>4 DEF ExecuteReads, Ready
    <3>2. PICK bytes, addrs : bytes = ReadValues(l1d, JobAddresses) /\ addrs = JobAddresses
      OBVIOUS
    <3>3. \/ Becomes([Job EXCEPT !.stage = "hit", !.bytes = bytes])
          \/ Becomes([Job EXCEPT !.stage = "miss", !.addrs = addrs,
                                 !.remaining = MemoryCycles - 1])
      BY <2>4, <3>2, Zenon DEF ExecuteReads
    <3>4. PICK eu : /\ Becomes(eu)
                    /\ \/ eu = [Job EXCEPT !.stage = "hit", !.bytes = bytes]
                       \/ eu = [Job EXCEPT !.stage = "miss", !.addrs = addrs,
                                           !.remaining = MemoryCycles - 1]
      BY <3>3, Zenon
    <3>5. DOMAIN eu = DOMAIN IdleEu /\ eu.stage # "start" /\ eu.runner = Job.runner
      <4>1. PICK job : job = Job
        OBVIOUS
      <4>2. DOMAIN job = {"stage", "runner", "remaining", "addrs", "bytes"}
            /\ DOMAIN IdleEu = {"stage", "runner", "remaining", "addrs", "bytes"}
        BY <1>4, <3>1, <4>1 DEF IdleEu
      <4>3. \/ eu = [job EXCEPT !.stage = "hit", !.bytes = bytes]
            \/ eu = [job EXCEPT !.stage = "miss", !.addrs = addrs,
                                !.remaining = MemoryCycles - 1]
        BY <3>4, <4>1
      <4> QED BY <4>1, <4>2, <4>3
    <3> QED BY <1>1, <2>1, <3>1, <3>4, <3>5, HeldInOrder
  <2>5. CASE ExecuteCounts
    <3>1. HasJob /\ Job.stage = "miss" /\ UNCHANGED executeBus
          /\ Becomes([Job EXCEPT !.remaining = @ - 1])
      BY <2>5 DEF ExecuteCounts
    <3>2. TakeJob
      BY <3>1 DEF TakeJob, Job, IdleEu
    <3>3. PICK eu : eu = [Job EXCEPT !.remaining = @ - 1]
      OBVIOUS
    <3>4. DOMAIN eu = DOMAIN IdleEu /\ eu.stage # "start" /\ eu.runner = Job.runner
      <4>1. PICK job : job = Job
        OBVIOUS
      <4>2. DOMAIN job = {"stage", "runner", "remaining", "addrs", "bytes"}
            /\ DOMAIN IdleEu = {"stage", "runner", "remaining", "addrs", "bytes"}
        BY <1>4, <3>1, <4>1 DEF IdleEu
      <4> QED BY <3>1, <3>3, <4>1, <4>2
    <3>5. Becomes(eu)
      BY <3>1, <3>3, Zenon
    <3> QED BY <1>1, <2>1, <3>1, <3>2, <3>4, <3>5, HeldInOrder
  <2> QED BY <1>5, <2>2, <2>3, <2>4, <2>5 DEF ExecuteGoesOn
<1>6. CASE ExecuteFails
  <2>1. UNCHANGED <<fu, du, executeBus, eus, phase, unit>>
    BY <1>6 DEF ExecuteFails, executeVars
  <2>2. UNCHANGED frontVars
    BY <1>2, <2>1 DEF frontVars
  <2> QED BY <1>1, <1>2, <2>1, <2>2, SameFront
<1>7. ASSUME Runs PROVE HasJob
  BY <1>7 DEF Runs, Ready
<1>8. ASSUME IsJump(JobPc) PROVE ~Result.Return /\ ~Result.MemoryChange
  BY <1>8, JumpsNeitherReturnNorStore DEF IsJump, JobInstruction, Result
<1>9. ASSUME Runs, Free, NextUnit("execute", "write"), ~IsJump(JobPc), UNCHANGED <<fu, du>>
      PROVE  FrontInv'
  BY <1>1, <1>3, <1>7, <1>9, FreedInOrder DEF Free
<1>10. CASE ExecuteReturns
  <2>1. Runs /\ Free /\ NextUnit("execute", "write") /\ UNCHANGED <<fu, du>> /\ Result.Return
    BY <1>10 DEF ExecuteReturns
  <2> QED BY <1>8, <1>9, <2>1, Zenon
<1>11. CASE ExecuteStores
  <2>1. Runs /\ Free /\ UNCHANGED <<fu, du>> /\ Result.MemoryChange
        /\ (NextUnit("execute", "write") \/ status' = "panic")
    BY <1>11, Zenon DEF ExecuteStores, Succeeds, IsHit
  <2>2. CASE status' = "panic"
    BY <2>2 DEF FrontInv
  <2> QED BY <1>8, <1>9, <2>1, <2>2, Zenon
<1>12. CASE ExecutePasses
  <2>1. Runs /\ Free /\ (PassesOn \/ Forwarding)
    BY <1>12, Zenon DEF ExecutePasses, Succeeds
  <2>2. CASE PassesOn
    <3>1. /\ NextUnit("execute", "write")
          /\ IF IsJump(JobPc) THEN Notify(JobPc, Result.NextPc) ELSE UNCHANGED <<fu, du, btb>>
      BY <2>2, Zenon DEF PassesOn
    <3>2. IF IsJump(JobPc) THEN \E pcTo : /\ fu' = ResetTo(pcTo)
                                          /\ du' = [du EXCEPT !.pendingBranchResolution = FALSE]
          ELSE UNCHANGED <<fu, du>>
      <4>1. CASE IsJump(JobPc)
        BY <3>1, <4>1, Zenon DEF Notify
      <4>2. CASE ~IsJump(JobPc)
        BY <3>1, <4>2
      <4> QED BY <4>1, <4>2
    <3>3. HasJob /\ TakeJob /\ Becomes(IdleEu) /\ ExecuteFrame
      BY <1>3, <1>7, <2>1, <3>1 DEF Free
    <3> QED BY <1>1, <3>2, <3>3, FreedInOrder
  <2>3. CASE Forwarding
    <3>1. /\ UNCHANGED <<fu, du>>
          /\ IF IsBranch(JobPc) THEN status' = "panic" ELSE NextUnit("execute", "write")
      BY <2>3, Zenon DEF Forwarding
    <3>2. CASE IsBranch(JobPc)
      BY <3>1, <3>2 DEF FrontInv
    <3>3. CASE ~IsBranch(JobPc)
      <4>1. ~IsJump(JobPc)
        BY <3>3, Zenon DEF IsBranch
      <4> QED BY <1>9, <2>1, <3>1, <3>3, <4>1, Zenon
    <3> QED BY <3>2, <3>3
  <2> QED BY <2>1, <2>2, <2>3
<1> QED BY <1>5, <1>6, <1>10, <1>11, <1>12 DEF Execute

-----------------------------------------------------------------------------
(* The start, a flush, and the rest of CPU.Run's loop                      *)

\* An empty front end.
LEMMA EmptyFront ==
  /\ Pcs(<< >>) \o Bus!Elements(Bus!NewBus) = << >>
  /\ Pcs(Bus!Elements(Bus!NewBus)) \o (Pcs(<< >>) \o Bus!Elements(Bus!NewBus)) = << >>
  /\ IsBus(Bus!NewBus) /\ AreRunners(Bus!Elements(Bus!NewBus))
  /\ IsList(<< >>) /\ AreRunners(<< >>)
  /\ StopHolds(<< >>, FALSE, [i \in Unit |-> IdleEu])
  /\ \A clean \in BOOLEAN : \A pc : InSequence(<< >> \o Behind(FALSE, clean, Bus!NewBus, pc))
<1>1. IsBus(Bus!NewBus) /\ Bus!Elements(Bus!NewBus) = << >>
  BY NewBusIsBus
<1>2. Pcs(<< >>) = << >> /\ << >> \o << >> = << >> /\ IsList(<< >>)
  BY DEF Pcs, IsList
<1>3. AreRunners(<< >>)
  BY DEF AreRunners
<1>4. StopHolds(<< >>, FALSE, [i \in Unit |-> IdleEu])
  <2>1. Waits(<< >>, FALSE)
    BY DEF Waits
  <2>2. PICK units : units = [i \in Unit |-> IdleEu]
    OBVIOUS
  <2>3. ~RunsJump(units[1]) /\ ~RunsJump(units[2])
    BY <2>2 DEF Unit, RunsJump, IdleEu
  <2>4. Waits(<< >>, FALSE /\ ~OneRunsJump(units))
    BY <2>1, Zenon DEF Waits
  <2> QED BY <2>2, <2>3, <2>4, Zenon DEF StopHolds, OneRunsJump
<1>5. ASSUME NEW clean \in BOOLEAN, NEW pc
      PROVE  InSequence(<< >> \o Behind(FALSE, clean, Bus!NewBus, pc))
  <2>1. Behind(FALSE, clean, Bus!NewBus, pc) = <<pc>>
    <3>1. Append(<< >>, pc) = <<pc>>
      OBVIOUS
    <3> QED BY <1>1, <3>1 DEF Behind
  <2>2. << >> \o <<pc>> = <<pc>> /\ Len(<<pc>>) = 1
    OBVIOUS
  <2>3. \A i \in 1..1 - 1 : FALSE
    OBVIOUS
  <2> QED BY <2>1, <2>2, <2>3 DEF InSequence
<1> QED BY <1>1, <1>2, <1>3, <1>4, <1>5

\* Nothing is decoded at the start.
LEMMA InitFront == ASSUME Init PROVE FrontInv
<1>1. /\ decodeBus = Bus!NewBus /\ controlBus = Bus!NewBus /\ executeBus = Bus!NewBus
      /\ pendings = << >> /\ previous = 0 /\ issued = 0 /\ unit = 1 /\ phase = "fetch"
      /\ eus = [i \in Unit |-> IdleEu]
      /\ fu = [pc |-> 0, toCleanPending |-> FALSE, complete |-> FALSE,
               coroutine |-> "start", remaining |-> 0]
      /\ du = [ret |-> FALSE, pendingBranchResolution |-> FALSE]
  BY DEF Init
<1>2. Ahead = << >> /\ Awaiting = << >>
  BY <1>1, EmptyFront, Zenon DEF Ahead, Awaiting
<1>3. ShapeInv
  <2>1. /\ DOMAIN fu = {"pc", "toCleanPending", "complete", "coroutine", "remaining"}
        /\ fu.toCleanPending = FALSE
        /\ DOMAIN du = {"ret", "pendingBranchResolution"} /\ du.pendingBranchResolution = FALSE
    BY <1>1
  <2>2. eus = [i \in Unit |-> eus[i]] /\ \A i \in Unit : DOMAIN eus[i] = DOMAIN IdleEu
    BY <1>1
  <2> QED BY <1>1, <2>1, <2>2, EmptyFront DEF ShapeInv, Unit
<1>4. StopInv
  <2>1. du.pendingBranchResolution = FALSE
    BY <1>1
  <2> QED BY <1>1, <1>2, <2>1, EmptyFront, Zenon DEF StopInv
<1>5. OrderInv
  <2>1. du.pendingBranchResolution = FALSE /\ fu.toCleanPending = FALSE /\ fu.pc = 0
    BY <1>1
  <2>2. FALSE \in BOOLEAN
    OBVIOUS
  <2> QED BY <1>1, <1>2, <2>1, <2>2, EmptyFront, Zenon DEF OrderInv
<1>6. CleanInv
  BY <1>1 DEF CleanInv
<1> QED BY <1>3, <1>4, <1>5, <1>6, Zenon DEF FrontInv

\* A flush leaves nothing decoded, and the fetch unit at the target.
LEMMA FlushKeepsFront == ASSUME FrontInv, FlushPipeline PROVE FrontInv'
<1>1. ShapeInv
  BY DEF FrontInv, FlushPipeline, At
<1>2. /\ decodeBus' = Bus!NewBus /\ controlBus' = Bus!NewBus /\ executeBus' = Bus!NewBus
      /\ pendings' = << >> /\ previous' = 0 /\ issued' = issued /\ unit' = 1
      /\ phase' = "fetch" /\ eus' = [i \in Unit |-> IdleEu] /\ app' = app
      /\ fu' = [fu EXCEPT !.coroutine = "start", !.complete = FALSE, !.pc = signal.pc]
      /\ du' = [du EXCEPT !.pendingBranchResolution = FALSE]
  BY DEF FlushPipeline, FlushedUnits, GoTo
<1>3. Ahead' = << >> /\ Awaiting' = << >>
  BY <1>2, EmptyFront, Zenon DEF Ahead, Awaiting
<1>4. /\ DOMAIN fu' = {"pc", "toCleanPending", "complete", "coroutine", "remaining"}
      /\ fu'.toCleanPending \in BOOLEAN
      /\ DOMAIN du' = {"ret", "pendingBranchResolution"}
      /\ du'.pendingBranchResolution = FALSE
  BY <1>1, <1>2 DEF ShapeInv
<1>5. ShapeInv'
  <2>1. IsBus(decodeBus') /\ IsBus(controlBus') /\ IsBus(executeBus') /\ IsList(pendings')
        /\ AreRunners(Bus!Elements(executeBus')) /\ AreRunners(pendings')
    BY <1>2, EmptyFront, Zenon
  <2>2. IsBus(decodeBus)' /\ IsBus(controlBus)' /\ IsBus(executeBus)' /\ IsList(pendings)'
        /\ AreRunners(Bus!Elements(executeBus))' /\ AreRunners(pendings)'
    BY <2>1, Zenon DEF IsBus, IsList, AreRunners
  <2>3. eus' = [i \in Unit |-> eus'[i]] /\ \A i \in Unit : DOMAIN eus'[i] = DOMAIN IdleEu
    BY <1>2
  <2>4. issued' \in Nat /\ previous' \in Nat /\ unit' \in Unit
    BY <1>1, <1>2 DEF ShapeInv, Unit
  <2> QED BY <1>4, <2>2, <2>3, <2>4 DEF ShapeInv
<1>6. StopInv'
  <2>1. StopHolds(Awaiting', du'.pendingBranchResolution, eus')
    BY <1>2, <1>3, <1>4, EmptyFront, Zenon
  <2> QED BY <1>2, <2>1, FrontNext
<1>7. OrderInv'
  <2>1. InSequence(Ahead' \o Behind(du'.pendingBranchResolution, fu'.toCleanPending,
                                    decodeBus', fu'.pc))
    BY <1>2, <1>3, <1>4, EmptyFront, Zenon
  <2> QED BY <1>2, <2>1, FrontNext
<1>8. CleanInv'
  BY <1>2 DEF CleanInv
<1> QED BY <1>5, <1>6, <1>7, <1>8, Zenon DEF FrontInv

\* The write units and the loops that empty their bus.
LEMMA OthersKeepFront ==
  ASSUME FrontInv,
         \/ WriteBack \/ WritePanics \/ EndOfCycle \/ ReturnWrites \/ ReturnConnects
         \/ ReturnEnds \/ DrainWrites \/ DrainNext \/ Ended
  PROVE  FrontInv'
<1>1. ASSUME status = "running" PROVE unit \in Unit
  BY <1>1 DEF FrontInv, ShapeInv
<1>2. CASE WritePanics \/ ReturnEnds
  <2>1. status' # "running"
    BY <1>2 DEF WritePanics, Finish, ReturnEnds
  <2> QED BY <2>1 DEF FrontInv
<1>3. CASE Ended
  <2>1. status' # "running"
    BY <1>3 DEF Ended, vars, placeVars
  <2> QED BY <2>1 DEF FrontInv
<1>4. ASSUME UNCHANGED OutsideWriteUnits
      PROVE  UNCHANGED <<app, frontVars, pendings, previous, issued, executeBus, eus>>
  BY <1>4 DEF OutsideWriteUnits, controlVars, executeVars
<1>5. ASSUME NEW stage, NEW after, stage # "decode", after # "decode", unit \in Unit,
             NextUnit(stage, after)
      PROVE  unit' \in Unit /\ phase' # "decode"
  BY <1>5 DEF NextUnit, Unit
<1>6. ASSUME NEW stage, stage # "decode", GoTo(stage)
      PROVE  unit' \in Unit /\ phase' # "decode"
  BY <1>6 DEF GoTo, Unit
<1>7. CASE WriteBack
  <2>1. status = "running" /\ NextUnit("write", "end") /\ UNCHANGED OutsideWriteUnits
    BY <1>7 DEF WriteBack, At
  <2> QED BY <1>1, <1>4, <1>5, <2>1, SameFront
<1>8. CASE EndOfCycle
  <2>1. \/ status' = "done"
        \/ /\ status = "running" /\ UNCHANGED OutsideWriteUnits
           /\ \E stage \in {"return", "drain", "fetch"} : GoTo(stage)
    BY <1>8 DEF EndOfCycle, Finish, At
  <2>2. CASE status' = "done"
    BY <2>2 DEF FrontInv
  <2>3. CASE /\ status = "running" /\ UNCHANGED OutsideWriteUnits
             /\ \E stage \in {"return", "drain", "fetch"} : GoTo(stage)
    <3>1. unit' \in Unit /\ phase' # "decode"
      BY <1>6, <2>3
    <3> QED BY <1>4, <2>3, <3>1, SameFront
  <2> QED BY <2>1, <2>2, <2>3
<1>9. CASE ReturnWrites
  <2>1. status = "running" /\ NextUnit("return", "connect") /\ UNCHANGED OutsideWriteUnits
    BY <1>9 DEF ReturnWrites, At
  <2> QED BY <1>1, <1>4, <1>5, <2>1, SameFront
<1>10. CASE ReturnConnects
  <2>1. status = "running" /\ GoTo("return") /\ UNCHANGED OutsideWriteUnits
    BY <1>10 DEF ReturnConnects, At
  <2> QED BY <1>4, <1>6, <2>1, SameFront
<1>11. CASE DrainWrites
  <2>1. status = "running" /\ phase' = "drain" /\ unit' = unit /\ UNCHANGED OutsideWriteUnits
    BY <1>11 DEF DrainWrites, At, placeVars
  <2> QED BY <1>1, <1>4, <2>1, SameFront
<1>12. CASE DrainNext
  <2>1. status = "running" /\ phase' = "drain" /\ unit' = 2 /\ UNCHANGED OutsideWriteUnits
    BY <1>12 DEF DrainNext, At
  <2>2. unit' \in Unit
    BY <2>1 DEF Unit
  <2> QED BY <1>4, <2>1, <2>2, SameFront
<1> QED BY <1>2, <1>3, <1>7, <1>8, <1>9, <1>10, <1>11, <1>12, Zenon

\* Every step keeps the invariant.
LEMMA NextKeepsFront == ASSUME FrontInv, [Next]_vars PROVE FrontInv'
<1>1. CASE Fetch
  BY <1>1, FetchKeepsFront
<1>2. CASE Decode
  BY <1>2, DecodeKeepsFront
<1>3. CASE Control
  BY <1>3, ControlKeepsFront
<1>4. CASE Execute
  BY <1>4, ExecuteKeepsFront
<1>5. CASE FlushPipeline
  BY <1>5, FlushKeepsFront
<1>6. CASE \/ WriteBack \/ WritePanics \/ EndOfCycle \/ ReturnWrites \/ ReturnConnects
           \/ ReturnEnds \/ DrainWrites \/ DrainNext \/ Ended
  BY <1>6, OthersKeepFront
<1>7. CASE UNCHANGED vars
  <2>1. UNCHANGED <<app, frontVars, pendings, previous, issued, executeBus, eus,
                    phase, unit, status>>
    BY <1>7 DEF vars, controlVars, executeVars, placeVars
  <2>2. CASE status # "running"
    BY <2>1, <2>2 DEF FrontInv
  <2>3. CASE status = "running"
    <3>1. unit' \in Unit
      BY <2>1, <2>3 DEF FrontInv, ShapeInv
    <3> QED BY <2>1, <2>3, <3>1, SameFront
  <2> QED BY <2>2, <2>3
<1> QED BY <1>1, <1>2, <1>3, <1>4, <1>5, <1>6, <1>7 DEF Next

-----------------------------------------------------------------------------
(* The properties                                                          *)

\* The pcs of what is decoded and not executed, as runners and as pcs.
LEMMA UndispatchedAreAwaiting ==
  ASSUME ShapeInv
  PROVE  /\ DOMAIN Undispatched = 1..Len(Awaiting) /\ Len(Undispatched) = Len(Awaiting)
         /\ \A i \in 1..Len(Awaiting) : Undispatched[i].pc = Awaiting[i]
         /\ Awaiting = << >> => Undispatched = << >>
<1>1. PICK moved, kept, pcs :
        /\ moved = Bus!Elements(executeBus) /\ kept = pendings /\ pcs = Bus!Elements(controlBus)
  OBVIOUS
<1>2. IsList(moved) /\ IsList(kept) /\ IsList(pcs)
  BY <1>1, AheadIsList DEF ShapeInv
<1>3. PICK decoded : decoded = [i \in DOMAIN pcs |-> NewRunner(pcs[i])]
  OBVIOUS
<1>4. IsList(decoded) /\ Pcs(decoded) = pcs
  <2>1. PICK S : pcs \in Seq(S)
    BY <1>2 DEF IsList
  <2>2. PICK T : T = {NewRunner(pc) : pc \in S}
    OBVIOUS
  <2>3. DOMAIN pcs = 1..Len(pcs) /\ Len(pcs) \in Nat /\ \A i \in 1..Len(pcs) : pcs[i] \in S
    BY <2>1
  <2>4. \A i \in 1..Len(pcs) : NewRunner(pcs[i]) \in T
    BY <2>2, <2>3
  <2>5. decoded \in [1..Len(pcs) -> T]
    BY <1>3, <2>3, <2>4
  <2>6. decoded \in Seq(T)
    BY <2>3, <2>5
  <2>7. \A i \in 1..Len(pcs) : decoded[i].pc = pcs[i]
    BY <1>3, <2>3 DEF NewRunner
  <2>8. Pcs(decoded) = [i \in 1..Len(pcs) |-> pcs[i]]
    BY <2>3, <2>5, <2>7 DEF Pcs
  <2>9. pcs = [i \in 1..Len(pcs) |-> pcs[i]]
    BY <2>1
  <2> QED BY <2>6, <2>8, <2>9 DEF IsList
<1>5. PICK all : all = (moved \o kept) \o decoded
  OBVIOUS
<1>6. Undispatched = all
  BY <1>1, <1>3, <1>5 DEF Undispatched
<1>7. IsList(moved \o kept) /\ IsList(all)
  BY <1>2, <1>4, <1>5, ListsMadeOfLists, Zenon
<1>8. Pcs(all) = (Pcs(moved) \o Pcs(kept)) \o pcs
  <2>1. PICK two : two = moved \o kept
    OBVIOUS
  <2>2. Pcs(two) = Pcs(moved) \o Pcs(kept)
    BY <1>2, <2>1, PcsOfJoined, Zenon
  <2>3. IsList(two) /\ all = two \o decoded
    BY <1>5, <1>7, <2>1, Zenon
  <2>4. Pcs(two \o decoded) = Pcs(two) \o Pcs(decoded)
    BY <1>4, <2>3, PcsOfJoined, Zenon
  <2> QED BY <1>4, <2>2, <2>3, <2>4, Zenon
<1>9. Pcs(all) = Awaiting
  <2>1. PICK a, b : a = Pcs(moved) /\ b = Pcs(kept)
    OBVIOUS
  <2>2. IsList(a) /\ IsList(b) /\ IsList(b \o pcs)
    BY <1>2, <2>1, PcsAreList, ListsMadeOfLists, Zenon
  <2>3. PICK S, T : a \in Seq(S) /\ b \in Seq(T)
    BY <2>2 DEF IsList
  <2>4. PICK R : pcs \in Seq(R)
    BY <1>2 DEF IsList
  <2>5. PICK U : U = S \cup T \cup R
    OBVIOUS
  <2>6. a \in Seq(U) /\ b \in Seq(U) /\ pcs \in Seq(U)
    BY <2>3, <2>4, <2>5
  <2>7. (a \o b) \o pcs = a \o (b \o pcs)
    BY <2>6
  <2> QED BY <1>1, <1>8, <2>1, <2>7, Zenon DEF Awaiting, Ahead
<1>10. /\ Len(Awaiting) = Len(all) /\ DOMAIN all = 1..Len(all)
       /\ \A i \in 1..Len(all) : Awaiting[i] = all[i].pc
  <2>1. DOMAIN all = 1..Len(all)
    BY <1>7 DEF IsList
  <2> QED BY <1>7, <1>9, <2>1, PcsAreList, Zenon
<1>11. Awaiting = << >> => all = << >>
  <2>1. Len(<< >>) = 0
    OBVIOUS
  <2>2. Len(all) = 0 => all = << >>
    BY <1>7 DEF IsList
  <2> QED BY <1>10, <2>1, <2>2, Zenon
<1> QED BY <1>6, <1>10, <1>11, Zenon

\* The invariant says what the property says, in other lists.
LEMMA FrontWaitsForJump == ASSUME FrontInv PROVE DecodeWaitsForJump6
<1>1. SUFFICES ASSUME status = "running" PROVE DecodeWaitsForJump6
  BY DEF DecodeWaitsForJump6
<1>2. ShapeInv /\ StopInv
  BY <1>1 DEF FrontInv
<1>3. PICK all, awaiting, pending :
        /\ all = Undispatched /\ awaiting = Awaiting /\ pending = du.pendingBranchResolution
  OBVIOUS
<1>4. /\ DOMAIN all = 1..Len(awaiting) /\ Len(all) = Len(awaiting)
      /\ \A i \in 1..Len(awaiting) : all[i].pc = awaiting[i]
      /\ awaiting = << >> => all = << >>
  BY <1>2, <1>3, UndispatchedAreAwaiting, Zenon
<1>5. Len(awaiting) \in Nat
  <2>1. IsList(awaiting)
    BY <1>2, <1>3, AheadIsList
  <2> QED BY <2>1 DEF IsList
<1>6. PICK jumps, executing :
        /\ jumps = {i \in DOMAIN all : IsJump(all[i].pc)}
        /\ executing = {i \in Unit : eus[i].stage # "start" /\ IsJump(eus[i].runner.pc)}
  OBVIOUS
<1>7. /\ \A i \in 1..Len(awaiting) :
           IsJump(awaiting[i]) <=> (pending /\ ~OneRunsJump(eus)) /\ i = Len(awaiting)
      /\ pending /\ ~OneRunsJump(eus) => Len(awaiting) # 0
      /\ OneRunsJump(eus) => pending /\ awaiting = << >>
      /\ ~(RunsJump(eus[1]) /\ RunsJump(eus[2]))
  BY <1>2, <1>3, Zenon DEF StopInv, StopHolds, Waits
<1>8. \A i : i \in executing <=> i \in Unit /\ RunsJump(eus[i])
  BY <1>6, Zenon DEF RunsJump
<1>9. \A i : i \in jumps <=> /\ i \in 1..Len(awaiting)
                             /\ pending /\ ~OneRunsJump(eus) /\ i = Len(awaiting)
  BY <1>4, <1>6, <1>7, Zenon
<1>10. Cardinality({}) = 0 /\ \A x : Cardinality({x}) = 1
  BY FS_EmptySet, FS_Singleton
<1>11. /\ OneRunsJump(eus) => \E x : executing = {x}
       /\ ~OneRunsJump(eus) => executing = {}
  <2>1. \A i : i \in Unit <=> i = 1 \/ i = 2
    BY DEF Unit
  <2>2. CASE RunsJump(eus[1])
    <3>1. ~RunsJump(eus[2])
      BY <1>7, <2>2, Zenon
    <3>2. \A i : i \in executing <=> i = 1
      BY <1>8, <2>1, <2>2, <3>1, Zenon
    <3>3. executing = {1}
      BY <3>2, Zenon
    <3> QED BY <2>2, <3>3, Zenon DEF OneRunsJump
  <2>3. CASE RunsJump(eus[2])
    <3>1. ~RunsJump(eus[1])
      BY <1>7, <2>3, Zenon
    <3>2. \A i : i \in executing <=> i = 2
      BY <1>8, <2>1, <2>3, <3>1, Zenon
    <3>3. executing = {2}
      BY <3>2, Zenon
    <3> QED BY <2>3, <3>3, Zenon DEF OneRunsJump
  <2>4. CASE ~RunsJump(eus[1]) /\ ~RunsJump(eus[2])
    <3>1. executing = {}
      BY <1>8, <2>1, <2>4, Zenon
    <3> QED BY <2>4, <3>1, Zenon DEF OneRunsJump
  <2> QED BY <2>2, <2>3, <2>4, Zenon
<1>12. CASE OneRunsJump(eus)
  <2>1. jumps = {} /\ pending /\ awaiting = << >> /\ all = << >>
    BY <1>4, <1>7, <1>9, <1>12, Zenon
  <2>2. PICK x : executing = {x}
    BY <1>11, <1>12, Zenon
  <2>3. Cardinality(jumps) = 0 /\ Cardinality(executing) = 1
    BY <1>10, <2>1, <2>2, Zenon
  <2>4. /\ pending <=> (jumps \cup executing # {})
        /\ Cardinality(jumps) + Cardinality(executing) <= 1
        /\ jumps \subseteq {Len(all)}
        /\ executing # {} => all = << >>
    <3>1. Cardinality(jumps) + Cardinality(executing) <= 1
      BY <2>3
    <3> QED BY <2>1, <2>2, <3>1, Zenon
  <2> QED BY <1>3, <1>6, <2>4, Zenon DEF DecodeWaitsForJump6
<1>13. CASE ~OneRunsJump(eus)
  <2>1. executing = {} /\ Cardinality(executing) = 0
    BY <1>10, <1>11, <1>13, Zenon
  <2>2. CASE pending
    <3>1. Len(awaiting) \in 1..Len(awaiting)
      BY <1>5, <1>7, <1>13, <2>2
    <3>2. jumps = {Len(awaiting)}
      BY <1>9, <1>13, <2>2, <3>1, Zenon
    <3>3. Cardinality(jumps) + Cardinality(executing) <= 1
      <4>1. Cardinality(jumps) = 1
        BY <1>10, <3>2, Zenon
      <4> QED BY <2>1, <4>1
    <3>4. /\ pending <=> (jumps \cup executing # {})
          /\ jumps \subseteq {Len(all)}
          /\ executing # {} => all = << >>
      BY <1>4, <2>1, <2>2, <3>2, Zenon
    <3> QED BY <1>3, <1>6, <3>3, <3>4, Zenon DEF DecodeWaitsForJump6
  <2>3. CASE ~pending
    <3>1. jumps = {}
      BY <1>9, <2>3, Zenon
    <3>2. Cardinality(jumps) + Cardinality(executing) <= 1
      BY <1>10, <2>1, <3>1
    <3>3. /\ pending <=> (jumps \cup executing # {})
          /\ jumps \subseteq {Len(all)}
          /\ executing # {} => all = << >>
      BY <2>1, <2>3, <3>1, Zenon
    <3> QED BY <1>3, <1>6, <3>2, <3>3, Zenon DEF DecodeWaitsForJump6
  <2> QED BY <2>2, <2>3
<1> QED BY <1>12, <1>13

\* So for program order.
LEMMA FrontIsInOrder == ASSUME FrontInv PROVE IssueOrder
<1>1. SUFFICES ASSUME status = "running" PROVE IssueOrder
  BY DEF IssueOrder
<1>2. OrderInv
  BY <1>1 DEF FrontInv
<1>3. FrontEnd = Ahead \o Behind(du.pendingBranchResolution, fu.toCleanPending, decodeBus, fu.pc)
  BY Zenon DEF FrontEnd, Ahead, Behind, Pcs
<1>4. InSequence(FrontEnd)
  BY <1>2, <1>3, Zenon DEF OrderInv
<1> QED BY <1>4, Zenon DEF InSequence, Follows, IssueOrder

\* The invariant holds in every behaviour.
LEMMA FrontInvariant == Spec => []FrontInv
<1>1. Init => FrontInv
  BY InitFront
<1>2. FrontInv /\ [Next]_vars => FrontInv'
  BY NextKeepsFront
<1> QED BY <1>1, <1>2, PTL DEF Spec

\* The decode unit is stopped exactly while one jump is in front of it, in a list
\* or in an execute unit, and that jump is the youngest of all that is decoded
\* (du.go and eu.go of both: pendingBranchResolution and its resolution).
THEOREM DecodeUnitWaitsForJump == Spec => []DecodeWaitsForJump6
<1>1. FrontInv => DecodeWaitsForJump6
  BY FrontWaitsForJump
<1> QED BY <1>1, FrontInvariant, PTL

\* From the control unit back to the fetch unit the pcs are in program order, up
\* to an open jump, the end of the program and what the fetch unit will drop
\* (fu.go, du.go, cu.go of both: reset, clean, flush and the control unit's queue).
THEOREM FrontEndInOrder == Spec => []IssueOrder
<1>1. FrontInv => IssueOrder
  BY FrontIsInOrder
<1> QED BY <1>1, FrontInvariant, PTL

-----------------------------------------------------------------------------
(* Sums of lists of numbers                                                *)

\* The pairs that Total counts.
Below(numbers) == UNION {{i} \X (1..numbers[i]) : i \in DOMAIN numbers}

IsBelow(x, numbers, places) == \E i \in places : \E k \in 1..numbers[i] : x = <<i, k>>
LEMMA BelowIs ==
  ASSUME NEW numbers
  PROVE  \A x : x \in Below(numbers) <=> IsBelow(x, numbers, DOMAIN numbers)
<1>1. ASSUME NEW x, x \in Below(numbers)
      PROVE  \E i \in DOMAIN numbers : \E k \in 1..numbers[i] : x = <<i, k>>
  <2>1. PICK i \in DOMAIN numbers : x \in {i} \X (1..numbers[i])
    BY <1>1 DEF Below
  <2>2a. PICK j \in {i} : \E k \in 1..numbers[i] : x = <<j, k>>
    BY <2>1
  <2>2. PICK k \in 1..numbers[i] : x = <<j, k>>
    BY <2>2a
  <2> QED BY <2>1, <2>2
<1>2. ASSUME NEW i \in DOMAIN numbers, NEW k \in 1..numbers[i]
      PROVE  <<i, k>> \in Below(numbers)
  <2>1. <<i, k>> \in {i} \X (1..numbers[i])
    OBVIOUS
  <2> QED BY <2>1 DEF Below
<1> QED BY <1>1, <1>2 DEF IsBelow

\* There are finitely many of them.
LEMMA BelowIsFinite ==
  ASSUME NEW a \in Seq(Nat)
  PROVE  IsFiniteSet(Below(a)) /\ Total(a) = Cardinality(Below(a)) /\ Total(a) \in Nat
<1>1. DOMAIN a = 1..Len(a) /\ Len(a) \in Nat /\ \A i \in 1..Len(a) : a[i] \in Nat
  OBVIOUS
<1>2. PICK f : f = [i \in 1..Len(a) |-> {i} \X (1..a[i])]
  OBVIOUS
<1>3. PICK T : T = {f[i] : i \in 1..Len(a)}
  OBVIOUS
<1>4. IsFiniteSet(1..Len(a))
  BY <1>1, FS_Interval
<1>5. f \in Surjection(1..Len(a), T)
  <2>1. f \in [1..Len(a) -> T]
    BY <1>2, <1>3
  <2>2. \A t \in T : \E i \in 1..Len(a) : f[i] = t
    BY <1>3
  <2> QED BY <2>1, <2>2 DEF Surjection
<1>6. IsFiniteSet(T)
  BY <1>4, <1>5, FS_Surjection
<1>7. \A t \in T : IsFiniteSet(t)
  <2>1. SUFFICES ASSUME NEW i \in 1..Len(a) PROVE IsFiniteSet({i} \X (1..a[i]))
    BY <1>2, <1>3
  <2>2. PICK m \in Nat : m = a[i]
    BY <1>1
  <2>3. IsFiniteSet(1..m)
    BY FS_Interval
  <2>4. IsFiniteSet({i})
    BY FS_Singleton, Zenon
  <2> QED BY <2>2, <2>3, <2>4, FS_Product, Zenon
<1>8. Below(a) = UNION T
  <2>1. T = {{i} \X (1..a[i]) : i \in DOMAIN a}
    BY <1>1, <1>2, <1>3
  <2> QED BY <2>1 DEF Below
<1>9. IsFiniteSet(Below(a))
  BY <1>6, <1>7, <1>8, FS_UNION, Zenon
<1>10. Total(a) = Cardinality(Below(a))
  BY Zenon DEF Total, Below
<1> QED BY <1>9, <1>10, FS_CardinalityType, Zenon

\* The sum of a list of one number, and of none.
LEMMA TotalOfOne ==
  ASSUME NEW n \in Nat
  PROVE  Total(<<n>>) = n /\ Total(<< >>) = 0
<1>1. Below(<< >>) = {}
  BY BelowIs DEF IsBelow
<1>2. Total(<< >>) = 0
  BY <1>1, FS_EmptySet, Zenon DEF Total, Below
<1>3. Below(<<n>>) = {1} \X (1..n)
  BY DEF Below
<1>4. PICK one, upTo : one = {1} /\ upTo = 1..n
  OBVIOUS
<1>5. /\ IsFiniteSet(one) /\ Cardinality(one) = 1
      /\ IsFiniteSet(upTo) /\ Cardinality(upTo) = n
  <2>1. IsFiniteSet(1..n) /\ Cardinality(1..n) = IF 1 > n THEN 0 ELSE n - 1 + 1
    BY FS_Interval
  <2>2. IsFiniteSet(one) /\ Cardinality(one) = 1
    BY <1>4, FS_Singleton, Zenon
  <2> QED BY <1>4, <2>1, <2>2
<1>6. Total(<<n>>) = 1 * n
  <2>1. Cardinality(one \X upTo) = Cardinality(one) * Cardinality(upTo)
    BY <1>5, FS_Product, Zenon
  <2>2. Total(<<n>>) = Cardinality(one \X upTo)
    BY <1>3, <1>4, Zenon DEF Total, Below
  <2> QED BY <1>5, <2>1, <2>2, Zenon
<1> QED BY <1>2, <1>6

\* The sum of two lists.
LEMMA TotalOfJoined ==
  ASSUME NEW a \in Seq(Nat), NEW b \in Seq(Nat)
  PROVE  Total(a \o b) = Total(a) + Total(b)
<1>1. PICK n \in Nat : n = Len(a)
  OBVIOUS
<1>2. PICK c \in Seq(Nat) : c = a \o b
  <2>1. a \o b \in Seq(Nat)
    OBVIOUS
  <2> QED BY <2>1, Zenon
<1>3. /\ DOMAIN a = 1..n /\ DOMAIN b = 1..Len(b) /\ Len(b) \in Nat
      /\ DOMAIN c = 1..n + Len(b)
      /\ \A i \in 1..n : c[i] = a[i]
      /\ \A i \in 1..Len(b) : c[n + i] = b[i]
  BY <1>1, <1>2
<1>4. /\ \A x : x \in Below(a) <=> \E i \in 1..n : \E k \in 1..a[i] : x = <<i, k>>
      /\ \A x : x \in Below(b) <=> \E i \in 1..Len(b) : \E k \in 1..b[i] : x = <<i, k>>
      /\ \A x : x \in Below(c) <=> \E i \in 1..n + Len(b) : \E k \in 1..c[i] : x = <<i, k>>
  <2>1. 1..n = DOMAIN a /\ 1..Len(b) = DOMAIN b /\ 1..n + Len(b) = DOMAIN c
    BY <1>3
  <2>2. \A x : x \in Below(a) <=> IsBelow(x, a, 1..n)
    BY <2>1, BelowIs, Zenon
  <2>3. \A x : x \in Below(b) <=> IsBelow(x, b, 1..Len(b))
    BY <2>1, BelowIs, Zenon
  <2>4. \A x : x \in Below(c) <=> IsBelow(x, c, 1..n + Len(b))
    BY <2>1, BelowIs, Zenon
  <2> QED BY <2>2, <2>3, <2>4, Zenon DEF IsBelow
<1>5. PICK f : f = [x \in Below(b) |-> <<n + x[1], x[2]>>]
  OBVIOUS
<1>6. PICK T : T = {f[x] : x \in Below(b)}
  OBVIOUS
<1>7. \A i \in 1..Len(b) : \A k \in 1..b[i] : <<i, k>> \in Below(b) /\ f[<<i, k>>] = <<n + i, k>>
  BY <1>3, <1>5, <1>4
<1>8. \A t : t \in T <=> \E i \in 1..Len(b) : \E k \in 1..b[i] : t = <<n + i, k>>
  <2>1. ASSUME NEW t \in T PROVE \E i \in 1..Len(b) : \E k \in 1..b[i] : t = <<n + i, k>>
    <3>1. PICK x \in Below(b) : t = f[x]
      BY <1>6
    <3>2a. PICK i \in 1..Len(b) : \E k \in 1..b[i] : x = <<i, k>>
      BY <1>4, Zenon
    <3>2. PICK k \in 1..b[i] : x = <<i, k>>
      BY <3>2a
    <3> QED BY <1>7, <3>1, <3>2
  <2>2. ASSUME NEW i \in 1..Len(b), NEW k \in 1..b[i] PROVE <<n + i, k>> \in T
    BY <1>6, <1>7
  <2> QED BY <2>1, <2>2
<1>9. ExistsBijection(Below(b), T)
  <2>1. f \in [Below(b) -> T]
    BY <1>5, <1>6
  <2>2. \A t \in T : \E x \in Below(b) : f[x] = t
    BY <1>6
  <2>3. ASSUME NEW x \in Below(b), NEW y \in Below(b), f[x] = f[y] PROVE x = y
    <3>1a. PICK i \in 1..Len(b) : \E k \in 1..b[i] : x = <<i, k>>
      BY <1>4, Zenon
    <3>1. PICK k \in 1..b[i] : x = <<i, k>>
      BY <3>1a
    <3>2a. PICK j \in 1..Len(b) : \E l \in 1..b[j] : y = <<j, l>>
      BY <1>4, Zenon
    <3>2. PICK l \in 1..b[j] : y = <<j, l>>
      BY <3>2a
    <3>3. <<n + i, k>> = <<n + j, l>>
      BY <1>7, <2>3, <3>1, <3>2
    <3>4. i = j /\ k = l
      BY <3>3
    <3> QED BY <3>1, <3>2, <3>4
  <2> QED BY <2>1, <2>2, <2>3 DEF ExistsBijection, Bijection, Injection, Surjection, IsInjective
<1>10. IsFiniteSet(Below(b)) /\ IsFiniteSet(Below(a))
  BY BelowIsFinite
<1>11. IsFiniteSet(T) /\ Cardinality(T) = Cardinality(Below(b))
  BY <1>9, <1>10, FS_Bijection, Zenon
<1>12. Below(a) \cap T = {}
  <2>1. SUFFICES ASSUME NEW t, t \in Below(a), t \in T PROVE FALSE
    BY Zenon
  <2>2a. PICK i \in 1..n : \E k \in 1..a[i] : t = <<i, k>>
    BY <1>3, <2>1, <1>4, Zenon
  <2>2. PICK k \in 1..a[i] : t = <<i, k>>
    BY <2>2a
  <2>3a. PICK j \in 1..Len(b) : \E l \in 1..b[j] : t = <<n + j, l>>
    BY <1>8, <2>1, Zenon
  <2>3. PICK l \in 1..b[j] : t = <<n + j, l>>
    BY <2>3a
  <2>4. i = n + j
    BY <2>2, <2>3
  <2> QED BY <1>3, <2>4
<1>13. Below(c) = Below(a) \cup T
  <2>1. ASSUME NEW t, t \in Below(c) PROVE t \in Below(a) \cup T
    <3>1a. PICK i \in 1..n + Len(b) : \E k \in 1..c[i] : t = <<i, k>>
      BY <1>3, <2>1, <1>4, Zenon
    <3>1. PICK k \in 1..c[i] : t = <<i, k>>
      BY <3>1a
    <3>2. CASE i \in 1..n
      BY <1>3, <3>1, <3>2, <1>4
    <3>3. CASE i \notin 1..n
      <4>1. PICK j \in 1..Len(b) : i = n + j
        <5>1. i - n \in 1..Len(b) /\ i = n + (i - n)
          BY <1>3, <3>3
        <5> QED BY <5>1
      <4>2. c[i] = b[j]
        BY <1>3, <4>1
      <4> QED BY <1>8, <3>1, <4>1, <4>2
    <3> QED BY <3>2, <3>3
  <2>2. ASSUME NEW t, t \in Below(a) PROVE t \in Below(c)
    <3>1a. PICK i \in 1..n : \E k \in 1..a[i] : t = <<i, k>>
      BY <1>3, <2>2, <1>4, Zenon
    <3>1. PICK k \in 1..a[i] : t = <<i, k>>
      BY <3>1a
    <3>2. i \in 1..n + Len(b) /\ k \in 1..c[i]
      BY <1>3
    <3> QED BY <1>3, <3>1, <3>2, <1>4, Zenon
  <2>3. ASSUME NEW t, t \in T PROVE t \in Below(c)
    <3>1a. PICK j \in 1..Len(b) : \E l \in 1..b[j] : t = <<n + j, l>>
      BY <1>8, <2>3, Zenon
    <3>1. PICK l \in 1..b[j] : t = <<n + j, l>>
      BY <3>1a
    <3>2. n + j \in 1..n + Len(b) /\ l \in 1..c[n + j]
      BY <1>3
    <3> QED BY <1>3, <3>1, <3>2, <1>4, Zenon
  <2> QED BY <2>1, <2>2, <2>3, Zenon
<1>14. Cardinality(Below(c)) = Cardinality(Below(a)) + Cardinality(T) - Cardinality({})
  BY <1>10, <1>11, <1>12, <1>13, FS_Union, ZenonT(60)
<1>15. Total(a) \in Nat /\ Total(b) \in Nat /\ Total(a) = Cardinality(Below(a))
       /\ Total(b) = Cardinality(Below(b)) /\ Total(c) = Cardinality(Below(c))
  BY BelowIsFinite
<1> QED BY <1>2, <1>11, <1>14, <1>15, FS_EmptySet

-----------------------------------------------------------------------------
(* What the instructions in flight read and write                          *)

Kinds == {"read", "write"}

\* How often the instruction at a pc of a program reads or writes a register, going
\* by what it declares: ReadsOf and WritesOf in one.
Needs(program, kind, pc, r) ==
  LET ins == program.Instructions[IndexOf(pc) + 1]
  IN IF kind = "read"
     THEN Cardinality({i \in DOMAIN ReadList(ins) : r # Zero /\ ReadList(ins)[i] = r})
     ELSE IF r \in WriteRegisters(ins) \ {Zero} THEN 1 ELSE 0

\* ReadRegisters lists finitely many registers, whatever the instruction.
LEMMA ReadListIsFinite == ASSUME NEW ins PROVE IsFiniteSet(DOMAIN ReadList(ins))
<1>1. PICK list : list = ReadList(ins)
  OBVIOUS
<1>2. \E n \in 0..2 : DOMAIN list = 1..n
  BY <1>1 DEF ReadList
<1>3. PICK n \in Nat : DOMAIN list = 1..n
  BY <1>2
<1>4. IsFiniteSet(1..n)
  BY FS_Interval
<1> QED BY <1>1, <1>3, <1>4

\* ReadsOf and WritesOf count the same.
LEMMA NeedsAre ==
  ASSUME NEW pc, NEW r
  PROVE  /\ ReadsOf(pc, r) = Needs(app, "read", pc, r)
         /\ WritesOf(pc, r) = Needs(app, "write", pc, r)
BY DEF ReadsOf, WritesOf, Needs, InstructionAt

LEMMA NeedsIsNat ==
  ASSUME NEW program, NEW kind, NEW pc, NEW r
  PROVE  Needs(program, kind, pc, r) \in Nat
<1>1. PICK ins : ins = program.Instructions[IndexOf(pc) + 1]
  OBVIOUS
<1>2. CASE kind = "read"
  <2>1. PICK S : S = {i \in DOMAIN ReadList(ins) : r # Zero /\ ReadList(ins)[i] = r}
    OBVIOUS
  <2>2. S \in SUBSET DOMAIN ReadList(ins)
    BY <2>1
  <2>3. Cardinality(S) \in Nat
    BY <2>2, ReadListIsFinite, FS_Subset, FS_CardinalityType, Zenon
  <2> QED BY <1>1, <1>2, <2>1, <2>3, Zenon DEF Needs
<1>3. CASE kind # "read"
  BY <1>3 DEF Needs
<1> QED BY <1>2, <1>3

\* The reads or writes of a list of pcs.
NeedsOf(program, kind, r, pcs) == Total([i \in DOMAIN pcs |-> Needs(program, kind, pcs[i], r)])

LEMMA NeedsAdd ==
  ASSUME NEW program, NEW kind, NEW r, NEW a, IsList(a), NEW b, IsList(b)
  PROVE  NeedsOf(program, kind, r, a \o b)
           = NeedsOf(program, kind, r, a) + NeedsOf(program, kind, r, b)
<1> DEFINE N(x) == Needs(program, kind, x, r)
           Map(s) == [i \in DOMAIN s |-> N(s[i])]
<1>1. \A x : N(x) \in Nat
  BY NeedsIsNat
<1>2. \A s : NeedsOf(program, kind, r, s) = Total(Map(s))
  BY Zenon DEF NeedsOf
<1> HIDE DEF N
<1>3. PICK S : a \in Seq(S) /\ b \in Seq(S)
  BY ListsOfOneSet
<1>4. PICK c \in Seq(S) : c = a \o b
  <2>1. a \o b \in Seq(S)
    BY <1>3
  <2> QED BY <2>1, Zenon
<1>5. Map(a) \in Seq(Nat) /\ Map(b) \in Seq(Nat) /\ Map(c) \in Seq(Nat)
  <2>1. ASSUME NEW s \in Seq(S) PROVE Map(s) \in Seq(Nat)
    <3>1. Len(s) \in Nat /\ Map(s) = [i \in 1..Len(s) |-> N(s[i])]
      OBVIOUS
    <3> QED BY <1>1, <3>1
  <2> QED BY <1>3, <2>1, Zenon
<1>6. Map(c) = Map(a) \o Map(b)
  <2>1. PICK ma \in Seq(Nat), mb \in Seq(Nat), mc \in Seq(Nat) :
          ma = Map(a) /\ mb = Map(b) /\ mc = Map(c)
    BY <1>5
  <2>2. /\ Len(ma) = Len(a) /\ Len(mb) = Len(b) /\ Len(mc) = Len(c)
        /\ \A i \in 1..Len(a) : ma[i] = N(a[i])
        /\ \A i \in 1..Len(b) : mb[i] = N(b[i])
        /\ \A i \in 1..Len(c) : mc[i] = N(c[i])
    BY <1>3, <2>1
  <2>3. /\ Len(c) = Len(a) + Len(b) /\ Len(a) \in Nat /\ Len(b) \in Nat
        /\ \A i \in 1..Len(a) : c[i] = a[i]
        /\ \A i \in 1..Len(b) : c[Len(a) + i] = b[i]
    BY <1>3, <1>4
  <2>4. PICK mm \in Seq(Nat) : mm = ma \o mb
    <3>1. ma \o mb \in Seq(Nat)
      OBVIOUS
    <3> QED BY <3>1, Zenon
  <2>5. /\ Len(mm) = Len(a) + Len(b)
        /\ \A i \in 1..Len(a) : mm[i] = ma[i]
        /\ \A i \in 1..Len(b) : mm[Len(a) + i] = mb[i]
    <3>1. /\ Len(mm) = Len(ma) + Len(mb)
          /\ \A i \in 1..Len(ma) : mm[i] = ma[i]
          /\ \A i \in 1..Len(mb) : mm[Len(ma) + i] = mb[i]
      BY <2>4
    <3> QED BY <2>2, <3>1, Zenon
  <2>6. ASSUME NEW i \in 1..Len(c) PROVE mm[i] = mc[i]
    <3>1. CASE i \in 1..Len(a)
      BY <2>2, <2>3, <2>5, <3>1
    <3>2. CASE i \notin 1..Len(a)
      <4>1. PICK j \in 1..Len(b) : i = Len(a) + j
        <5>1. i - Len(a) \in 1..Len(b) /\ i = Len(a) + (i - Len(a))
          BY <2>3, <3>2
        <5> QED BY <5>1
      <4> QED BY <2>2, <2>3, <2>5, <4>1
    <3> QED BY <3>1, <3>2
  <2>7. mm = mc
    BY <2>2, <2>3, <2>5, <2>6
  <2> QED BY <2>1, <2>4, <2>7, Zenon
<1> HIDE DEF Map
<1>7. Total(Map(a) \o Map(b)) = Total(Map(a)) + Total(Map(b))
  BY <1>5, TotalOfJoined, Zenon
<1>8. NeedsOf(program, kind, r, c) = NeedsOf(program, kind, r, a) + NeedsOf(program, kind, r, b)
  <2>1. NeedsOf(program, kind, r, c) = Total(Map(a) \o Map(b))
    BY <1>2, <1>6, Zenon
  <2>2. /\ NeedsOf(program, kind, r, a) = Total(Map(a))
        /\ NeedsOf(program, kind, r, b) = Total(Map(b))
    BY <1>2, Zenon
  <2> QED BY <1>7, <2>1, <2>2, Zenon
<1> QED BY <1>4, <1>8, Zenon

\* They are numbers; those of one instruction, and of none.
LEMMA NeedsOfOne ==
  ASSUME NEW program, NEW kind, NEW r, NEW pc
  PROVE  /\ \A pcs : IsList(pcs) => NeedsOf(program, kind, r, pcs) \in Nat
         /\ NeedsOf(program, kind, r, <<pc>>) = Needs(program, kind, pc, r)
         /\ NeedsOf(program, kind, r, << >>) = 0
<1> DEFINE N(x) == Needs(program, kind, x, r)
           Map(s) == [i \in DOMAIN s |-> N(s[i])]
<1>1. \A x : N(x) \in Nat
  BY NeedsIsNat
<1>2. \A s : NeedsOf(program, kind, r, s) = Total(Map(s))
  BY Zenon DEF NeedsOf
<1> HIDE DEF N
<1>3. ASSUME NEW S, NEW s \in Seq(S) PROVE Map(s) \in Seq(Nat)
  <2>1. Len(s) \in Nat /\ Map(s) = [i \in 1..Len(s) |-> N(s[i])]
    OBVIOUS
  <2> QED BY <1>1, <2>1
<1>4. Map(<<pc>>) = <<N(pc)>> /\ Map(<< >>) = << >>
  OBVIOUS
<1> HIDE DEF Map
<1>5. Total(<<N(pc)>>) = N(pc) /\ Total(<< >>) = 0
  BY <1>1, TotalOfOne, Zenon
<1>6. ASSUME NEW pcs, IsList(pcs) PROVE NeedsOf(program, kind, r, pcs) \in Nat
  <2>1. Map(pcs) \in Seq(Nat)
    BY <1>3, <1>6, Zenon DEF IsList
  <2> QED BY <1>2, <2>1, BelowIsFinite, Zenon
<1> QED BY <1>2, <1>4, <1>5, <1>6, Zenon DEF N

\* The needs of what is on a bus, in an execute unit and in a write unit.
BusNeeds(program, kind, r, bus) == NeedsOf(program, kind, r, Pcs(Bus!Elements(bus)))
EuNeeds(program, kind, r, eu) ==
  IF eu.stage = "start" THEN 0 ELSE Needs(program, kind, eu.runner.pc, r)
WuNeeds(program, kind, r, wu) ==
  IF wu.busy THEN Needs(program, kind, wu.result.pc, r) ELSE 0

\* What the operations of a bus do to them: nothing, ...
LEMMA BusNeedsIsNat ==
  ASSUME NEW program, NEW kind, NEW r, NEW bus, IsBus(bus)
  PROVE  BusNeeds(program, kind, r, bus) \in Nat
<1>1. IsList(Pcs(Bus!Elements(bus)))
  BY PutAndConnect, PcsAreList, Zenon
<1> QED BY <1>1, NeedsOfOne, Zenon DEF BusNeeds

LEMMA BusNeedsConnected ==
  ASSUME NEW program, NEW kind, NEW r, NEW bus, IsBus(bus)
  PROVE  BusNeeds(program, kind, r, Connected(bus)) = BusNeeds(program, kind, r, bus)
BY PutAndConnect, Zenon DEF BusNeeds

\* ... one more element, ...
LEMMA BusNeedsPut ==
  ASSUME NEW program, NEW kind, NEW r, NEW bus, IsBus(bus), NEW t
  PROVE  BusNeeds(program, kind, r, Put(bus, t))
           = BusNeeds(program, kind, r, bus) + Needs(program, kind, t.pc, r)
<1>1. PICK list : list = Bus!Elements(bus)
  OBVIOUS
<1>2. IsList(list)
  BY <1>1, PutAndConnect, Zenon
<1>3. IsList(Pcs(list))
  BY <1>2, PcsAreList
<1>4. Bus!Elements(Put(bus, t)) = Append(list, t)
  BY <1>1, PutAndConnect
<1>5. Pcs(Append(list, t)) = Append(Pcs(list), t.pc)
  BY <1>2, PcsOfJoined
<1>6. PICK pcs : pcs = Pcs(list)
  OBVIOUS
<1>7. IsList(pcs) /\ IsList(<<t.pc>>)
  BY <1>3, <1>6, ListsMadeOfLists, Zenon
<1>8. Append(pcs, t.pc) = pcs \o <<t.pc>>
  BY <1>7, AddedIsJoined
<1>9. Pcs(Bus!Elements(Put(bus, t))) = pcs \o <<t.pc>>
  BY <1>4, <1>5, <1>6, <1>8
<1>10. NeedsOf(program, kind, r, pcs \o <<t.pc>>)
         = NeedsOf(program, kind, r, pcs) + NeedsOf(program, kind, r, <<t.pc>>)
  BY <1>7, NeedsAdd, Zenon
<1> QED BY <1>1, <1>6, <1>9, <1>10, NeedsOfOne, Zenon DEF BusNeeds

\* ... one less, ...
LEMMA BusNeedsGet ==
  ASSUME NEW program, NEW kind, NEW r, NEW bus, IsBus(bus), Bus!CanGet(bus)
  PROVE  BusNeeds(program, kind, r, bus)
           = Needs(program, kind, Bus!Oldest(bus).pc, r)
             + BusNeeds(program, kind, r, Bus!AfterGet(bus))
<1>1. PICK rest, oldest : rest = Bus!Elements(Bus!AfterGet(bus)) /\ oldest = Bus!Oldest(bus)
  OBVIOUS
<1>2. IsList(rest) /\ Bus!Elements(bus) = <<oldest>> \o rest
  BY <1>1, GetFromBus, Zenon
<1>3. IsList(Pcs(rest)) /\ Pcs(<<oldest>> \o rest) = <<oldest.pc>> \o Pcs(rest)
  BY <1>2, PcsAreList, PcsOfJoined
<1>4. IsList(<<oldest.pc>>)
  BY <1>2, ListsMadeOfLists, Zenon
<1>5. PICK one, others : one = <<oldest.pc>> /\ others = Pcs(rest)
  OBVIOUS
<1>6. IsList(one) /\ IsList(others)
  BY <1>3, <1>4, <1>5, Zenon
<1>7. NeedsOf(program, kind, r, one \o others)
        = NeedsOf(program, kind, r, one) + NeedsOf(program, kind, r, others)
  BY <1>6, NeedsAdd, Zenon
<1>8. NeedsOf(program, kind, r, one) = Needs(program, kind, oldest.pc, r)
  BY <1>5, NeedsOfOne, Zenon
<1>9. /\ BusNeeds(program, kind, r, bus) = NeedsOf(program, kind, r, one \o others)
      /\ BusNeeds(program, kind, r, Bus!AfterGet(bus)) = NeedsOf(program, kind, r, others)
  BY <1>1, <1>2, <1>3, <1>5, Zenon DEF BusNeeds
<1> QED BY <1>1, <1>7, <1>8, <1>9, Zenon

\* ... none.
LEMMA EmptyBusNeeds ==
  ASSUME NEW program, NEW kind, NEW r, NEW bus, Bus!Elements(bus) = << >>
  PROVE  BusNeeds(program, kind, r, bus) = 0
<1>1. Pcs(<< >>) = << >>
  BY DEF Pcs
<1>2. NeedsOf(program, kind, r, << >>) = 0
  BY NeedsOfOne, Zenon
<1> QED BY <1>1, <1>2, Zenon DEF BusNeeds

\* The needs of everything in flight, in four places.
InFlight(kind, r) ==
  BusNeeds(app, kind, r, executeBus)
  + (EuNeeds(app, kind, r, eus[1]) + EuNeeds(app, kind, r, eus[2]))
  + (BusNeeds(app, kind, r, writeBus)
     + (WuNeeds(app, kind, r, wus[1]) + WuNeeds(app, kind, r, wus[2])))

\* They are what ScoreboardExact6 counts.
LEMMA CountsAreNeeds ==
  ASSUME IsBus(executeBus), IsBus(writeBus), NEW r
  PROVE  Counted(ReadsOf, r) = InFlight("read", r) /\ Counted(WritesOf, r) = InFlight("write", r)
<1>1. PICK onExecute, onWrite : onExecute = Bus!Elements(executeBus) /\ onWrite = Bus!Elements(writeBus)
  OBVIOUS
<1>2. PICK ex1, ex2, wr1, wr2 :
        /\ ex1 = Executing(eus[1]) /\ ex2 = Executing(eus[2])
        /\ wr1 = Writing(wus[1]) /\ wr2 = Writing(wus[2])
  OBVIOUS
<1>3. IsList(onExecute) /\ IsList(onWrite)
  BY <1>1, PutAndConnect, Zenon
<1>4. /\ (ex1 = << >> \/ ex1 = <<eus[1].runner>>) /\ (ex2 = << >> \/ ex2 = <<eus[2].runner>>)
      /\ (wr1 = << >> \/ wr1 = <<wus[1].result.pc>>)
      /\ (wr2 = << >> \/ wr2 = <<wus[2].result.pc>>)
  BY <1>2, Zenon DEF Executing, Writing
<1>5. IsList(ex1) /\ IsList(ex2) /\ IsList(wr1) /\ IsList(wr2)
  BY <1>3, <1>4, ListsMadeOfLists, Zenon
<1>6. IsList(ex1 \o ex2) /\ IsList(wr1 \o wr2)
  BY <1>5, ListsMadeOfLists, Zenon
<1>7. Pcs(IssuedRunners) = Pcs(onExecute) \o (Pcs(ex1) \o Pcs(ex2))
  <2>1. Pcs(onExecute \o (ex1 \o ex2)) = Pcs(onExecute) \o Pcs(ex1 \o ex2)
    BY <1>3, <1>6, PcsOfJoined, Zenon
  <2>2. Pcs(ex1 \o ex2) = Pcs(ex1) \o Pcs(ex2)
    BY <1>5, PcsOfJoined, Zenon
  <2> QED BY <1>1, <1>2, <2>1, <2>2, Zenon DEF IssuedRunners
<1>8. InFlightPcs = (Pcs(onExecute) \o (Pcs(ex1) \o Pcs(ex2))) \o (Pcs(onWrite) \o (wr1 \o wr2))
  <2>1. InFlightPcs = Pcs(IssuedRunners) \o UnwrittenPcs
    BY Zenon DEF InFlightPcs, Pcs
  <2>2. UnwrittenPcs = Pcs(onWrite) \o (wr1 \o wr2)
    BY <1>1, <1>2, Zenon DEF UnwrittenPcs, Pcs
  <2> QED BY <1>7, <2>1, <2>2, Zenon
<1>9. IsList(Pcs(onExecute)) /\ IsList(Pcs(onWrite)) /\ IsList(Pcs(ex1)) /\ IsList(Pcs(ex2))
  BY <1>3, <1>5, PcsAreList, Zenon
<1>10. IsList(Pcs(ex1) \o Pcs(ex2)) /\ IsList(Pcs(onWrite) \o (wr1 \o wr2))
       /\ IsList(Pcs(onExecute) \o (Pcs(ex1) \o Pcs(ex2)))
  <2>1. IsList(Pcs(ex1) \o Pcs(ex2)) /\ IsList(Pcs(onWrite) \o (wr1 \o wr2))
    BY <1>6, <1>9, ListsMadeOfLists, Zenon
  <2> QED BY <1>9, <2>1, ListsMadeOfLists, Zenon
<1>11. ASSUME NEW kind PROVE NeedsOf(app, kind, r, InFlightPcs) = InFlight(kind, r)
  <2> DEFINE N(pcs) == NeedsOf(app, kind, r, pcs)
  <2>1. \A a, b : IsList(a) /\ IsList(b) => N(a \o b) = N(a) + N(b)
    BY NeedsAdd, Zenon
  <2>2. N(<< >>) = 0 /\ \A pc : N(<<pc>>) = Needs(app, kind, pc, r)
    BY NeedsOfOne, Zenon
  <2>3. N(Pcs(ex1)) = EuNeeds(app, kind, r, eus[1]) /\ N(Pcs(ex2)) = EuNeeds(app, kind, r, eus[2])
    <3>1. \A runner : Pcs(<<runner>>) = <<runner.pc>> /\ Pcs(<< >>) = << >>
      BY <1>3, PcsOfJoined, Zenon
    <3> QED BY <1>2, <2>2, <3>1, Zenon DEF EuNeeds, Executing
  <2>4. N(wr1) = WuNeeds(app, kind, r, wus[1]) /\ N(wr2) = WuNeeds(app, kind, r, wus[2])
    BY <1>2, <2>2, Zenon DEF WuNeeds, Writing
  <2>5. N(InFlightPcs) = (N(Pcs(onExecute)) + (N(Pcs(ex1)) + N(Pcs(ex2))))
                         + (N(Pcs(onWrite)) + (N(wr1) + N(wr2)))
    <3> HIDE DEF N
    <3>1. N(InFlightPcs) = N(Pcs(onExecute) \o (Pcs(ex1) \o Pcs(ex2)))
                           + N(Pcs(onWrite) \o (wr1 \o wr2))
      BY <1>8, <1>10, <2>1, Zenon
    <3>2. N(Pcs(onExecute) \o (Pcs(ex1) \o Pcs(ex2)))
            = N(Pcs(onExecute)) + (N(Pcs(ex1)) + N(Pcs(ex2)))
      <4>1. N(Pcs(ex1) \o Pcs(ex2)) = N(Pcs(ex1)) + N(Pcs(ex2))
        BY <1>9, <2>1, Zenon
      <4>2. N(Pcs(onExecute) \o (Pcs(ex1) \o Pcs(ex2)))
              = N(Pcs(onExecute)) + N(Pcs(ex1) \o Pcs(ex2))
        BY <1>9, <1>10, <2>1, Zenon
      <4> QED BY <4>1, <4>2, Zenon
    <3>3. N(Pcs(onWrite) \o (wr1 \o wr2)) = N(Pcs(onWrite)) + (N(wr1) + N(wr2))
      <4>1. N(wr1 \o wr2) = N(wr1) + N(wr2)
        BY <1>5, <2>1, Zenon
      <4>2. N(Pcs(onWrite) \o (wr1 \o wr2)) = N(Pcs(onWrite)) + N(wr1 \o wr2)
        BY <1>6, <1>9, <2>1, Zenon
      <4> QED BY <4>1, <4>2, Zenon
    <3> QED BY <3>1, <3>2, <3>3, Zenon
  <2> QED BY <1>1, <2>3, <2>4, <2>5, Zenon DEF InFlight, BusNeeds
<1>12. Counted(ReadsOf, r) = NeedsOf(app, "read", r, InFlightPcs)
  <2>1. [i \in DOMAIN InFlightPcs |-> ReadsOf(InFlightPcs[i], r)]
          = [i \in DOMAIN InFlightPcs |-> Needs(app, "read", InFlightPcs[i], r)]
    BY NeedsAre, Zenon
  <2> QED BY <2>1, Zenon DEF Counted, NeedsOf
<1>13. Counted(WritesOf, r) = NeedsOf(app, "write", r, InFlightPcs)
  <2>1. [i \in DOMAIN InFlightPcs |-> WritesOf(InFlightPcs[i], r)]
          = [i \in DOMAIN InFlightPcs |-> Needs(app, "write", InFlightPcs[i], r)]
    BY NeedsAre, Zenon
  <2> QED BY <2>1, Zenon DEF Counted, NeedsOf
<1> QED BY <1>11, <1>12, <1>13, Zenon

-----------------------------------------------------------------------------
(* The invariant of the scoreboard                                         *)

\* The shapes of the write bus and the write units.
WritersInv ==
  /\ IsBus(writeBus) /\ wus = [i \in Unit |-> wus[i]]
  /\ \A i \in Unit : DOMAIN wus[i] = DOMAIN IdleWu

\* The counts are the needs of what is in flight.
CountInv ==
  \A r \in Register \ {Zero} :
    pendingReads[r] = InFlight("read", r) /\ pendingWrites[r] = InFlight("write", r)

\* Before a flush the first write unit has nothing left when the second empties
\* the bus.
DrainInv == phase = "drain" /\ unit = 2 => ~wus[1].busy
ScoreInv == status = "running" => WritersInv /\ (phase # "drain" => CountInv) /\ DrainInv

\* The needs in flight are a number.
LEMMA InFlightIsNat ==
  ASSUME ShapeInv, WritersInv, NEW kind, NEW r
  PROVE  /\ InFlight(kind, r) \in Nat
         /\ BusNeeds(app, kind, r, executeBus) \in Nat /\ BusNeeds(app, kind, r, writeBus) \in Nat
         /\ \A eu : EuNeeds(app, kind, r, eu) \in Nat
         /\ \A wu : WuNeeds(app, kind, r, wu) \in Nat
<1>1. BusNeeds(app, kind, r, executeBus) \in Nat /\ BusNeeds(app, kind, r, writeBus) \in Nat
  BY BusNeedsIsNat, Zenon DEF ShapeInv, WritersInv
<1>2. (\A eu : EuNeeds(app, kind, r, eu) \in Nat) /\ \A wu : WuNeeds(app, kind, r, wu) \in Nat
  <2>1. \A pc : Needs(app, kind, pc, r) \in Nat
    BY NeedsIsNat
  <2> QED BY <2>1 DEF EuNeeds, WuNeeds
<1> QED BY <1>1, <1>2 DEF InFlight

\* An issue adds the needs of the instruction to both.
LEMMA AddedToBoth ==
  ASSUME CountInv, NEW pc, AddPendingRegisters(pc),
         \A kind, r : InFlight(kind, r)' = InFlight(kind, r) + Needs(app, kind, pc, r)
  PROVE  CountInv'
<1>1. ASSUME NEW r \in Register \ {Zero}
      PROVE  /\ pendingReads'[r] = pendingReads[r] + Needs(app, "read", pc, r)
             /\ pendingWrites'[r] = pendingWrites[r] + Needs(app, "write", pc, r)
  <2>1. /\ pendingReads'[r] = pendingReads[r] + ReadsOf(pc, r)
        /\ pendingWrites'[r] = pendingWrites[r] + WritesOf(pc, r)
    BY DEF AddPendingRegisters
  <2> QED BY <2>1, NeedsAre, Zenon
<1> QED BY <1>1, Zenon DEF CountInv

\* An effect takes them from both; no count was too small.
LEMMA TakenFromBoth ==
  ASSUME CountInv, NEW pc, DeletePendingRegisters(pc),
         \A kind, r : InFlight(kind, r)' \in Nat
         /\ InFlight(kind, r) = InFlight(kind, r)' + Needs(app, kind, pc, r)
  PROVE  CountInv'
<1>1. ASSUME NEW r \in Register \ {Zero}
      PROVE  /\ pendingReads'[r] = AtLeast0(pendingReads[r] - Needs(app, "read", pc, r))
             /\ pendingWrites'[r] = AtLeast0(pendingWrites[r] - Needs(app, "write", pc, r))
  <2>1. /\ pendingReads'[r] = AtLeast0(pendingReads[r] - ReadsOf(pc, r))
        /\ pendingWrites'[r] = AtLeast0(pendingWrites[r] - WritesOf(pc, r))
    BY DEF DeletePendingRegisters
  <2> QED BY <2>1, NeedsAre, Zenon
<1>2. ASSUME NEW r \in Register \ {Zero}, NEW kind,
             NEW before, before = InFlight(kind, r),
             NEW after, after = AtLeast0(before - Needs(app, kind, pc, r))
      PROVE  after = InFlight(kind, r)'
  <2>1. PICK n, k : n = InFlight(kind, r)' /\ k = Needs(app, kind, pc, r)
    OBVIOUS
  <2>2. n \in Nat /\ k \in Nat
    BY <2>1, NeedsIsNat, Zenon
  <2>3. InFlight(kind, r) = n + k
    BY <2>1, Zenon
  <2>4. before = n + k /\ after = AtLeast0(before - k)
    BY <1>2, <2>1, <2>3, Zenon
  <2>5. after = n
    BY <2>2, <2>4 DEF AtLeast0
  <2> QED BY <2>1, <2>5, Zenon
<1>3. ASSUME NEW r \in Register \ {Zero}
      PROVE  pendingReads'[r] = InFlight("read", r)' /\ pendingWrites'[r] = InFlight("write", r)'
  <2>1. pendingReads[r] = InFlight("read", r) /\ pendingWrites[r] = InFlight("write", r)
    BY Zenon DEF CountInv
  <2>2. pendingReads'[r] = InFlight("read", r)'
    BY <1>1, <1>2, <2>1, Zenon
  <2>3. pendingWrites'[r] = InFlight("write", r)'
    BY <1>1, <1>2, <2>1, Zenon
  <2> QED BY <2>2, <2>3
<1> QED BY <1>3, Zenon DEF CountInv

\* Everything else changes neither.
LEMMA KeptInBoth ==
  ASSUME CountInv, UNCHANGED <<pendingReads, pendingWrites>>,
         \A kind, r : InFlight(kind, r)' = InFlight(kind, r)
  PROVE  CountInv'
BY Zenon DEF CountInv

\* What a step that issues nothing does: the scoreboard follows what is in flight, of
\* which at most one instruction leaves, and no runner comes to the execute bus or the
\* execute units.
NobodyLeaves == \A kind, r : InFlight(kind, r)' = InFlight(kind, r)
Leaves(pc) ==
  \A kind, r : InFlight(kind, r)' \in Nat
               /\ InFlight(kind, r) = InFlight(kind, r)' + Needs(app, kind, pc, r)
Follow ==
  \/ NobodyLeaves /\ UNCHANGED <<pendingReads, pendingWrites>>
  \/ \E pc : Leaves(pc) /\ DeletePendingRegisters(pc)

LEMMA CountsFollow == ASSUME CountInv, Follow PROVE CountInv'
<1>1. CASE NobodyLeaves /\ UNCHANGED <<pendingReads, pendingWrites>>
  BY <1>1, KeptInBoth, Zenon DEF NobodyLeaves
<1>2. ASSUME NEW pc, Leaves(pc), DeletePendingRegisters(pc) PROVE CountInv'
  BY <1>2, TakenFromBoth, Zenon DEF Leaves
<1> QED BY <1>1, <1>2, Zenon DEF Follow

\* The runners on a bus; those that have been issued and not executed.
Members(list) == {list[i] : i \in DOMAIN list}
BusRunners(bus) == Members(Bus!Elements(bus))
EuRunners(eu) == IF eu.stage = "start" THEN {} ELSE {eu.runner}
Unexecuteds == BusRunners(executeBus) \cup (EuRunners(eus[1]) \cup EuRunners(eus[2]))

\* What the operations of a bus do to them.
LEMMA RunnersConnected ==
  ASSUME NEW bus, IsBus(bus) PROVE BusRunners(Connected(bus)) = BusRunners(bus)
BY PutAndConnect, Zenon DEF BusRunners, Members

LEMMA RunnersPut ==
  ASSUME NEW bus, IsBus(bus), NEW t PROVE BusRunners(Put(bus, t)) = BusRunners(bus) \cup {t}
<1>1. PICK list, after : list = Bus!Elements(bus) /\ after = Bus!Elements(Put(bus, t))
  OBVIOUS
<1>2. IsList(list) /\ after = Append(list, t)
  BY <1>1, PutAndConnect
<1>3. PICK S : list \in Seq(S) /\ t \in S
  BY <1>2, ListsOfOneSet
<1>4. /\ DOMAIN list = 1..Len(list) /\ DOMAIN after = 1..Len(list) + 1 /\ Len(list) \in Nat
      /\ after[Len(list) + 1] = t /\ \A i \in 1..Len(list) : after[i] = list[i]
  BY <1>2, <1>3
<1>5. {after[i] : i \in DOMAIN after} = {list[i] : i \in DOMAIN list} \cup {t}
  BY <1>4
<1> QED BY <1>1, <1>5, Zenon DEF BusRunners, Members

LEMMA RunnersGet ==
  ASSUME NEW bus, IsBus(bus), Bus!CanGet(bus)
  PROVE  Bus!Oldest(bus) \in BusRunners(bus) /\ BusRunners(Bus!AfterGet(bus)) \subseteq BusRunners(bus)
<1>1. PICK list, rest, oldest :
        /\ list = Bus!Elements(bus) /\ rest = Bus!Elements(Bus!AfterGet(bus))
        /\ oldest = Bus!Oldest(bus)
  OBVIOUS
<1>2. IsList(rest) /\ list = <<oldest>> \o rest
  BY <1>1, GetFromBus, Zenon
<1>3. PICK S : rest \in Seq(S) /\ oldest \in S
  BY <1>2, ListsOfOneSet
<1>4. /\ DOMAIN rest = 1..Len(rest) /\ DOMAIN list = 1..Len(rest) + 1 /\ Len(rest) \in Nat
      /\ list[1] = oldest /\ \A i \in 1..Len(rest) : rest[i] = list[i + 1]
  BY <1>2, <1>3
<1>5. /\ oldest \in {list[i] : i \in DOMAIN list}
      /\ {rest[i] : i \in DOMAIN rest} \subseteq {list[i] : i \in DOMAIN list}
  BY <1>4
<1> QED BY <1>1, <1>5, Zenon DEF BusRunners, Members

-----------------------------------------------------------------------------
(* The scoreboard and the units in front                                   *)

\* What is behind the buses stays where it is.
LEMMA SameInFlight ==
  ASSUME UNCHANGED <<app, eus, wus>>,
         \A kind, r : /\ BusNeeds(app, kind, r, executeBus') = BusNeeds(app, kind, r, executeBus)
                      /\ BusNeeds(app, kind, r, writeBus') = BusNeeds(app, kind, r, writeBus)
  PROVE  \A kind, r : InFlight(kind, r)' = InFlight(kind, r)
<1> SUFFICES ASSUME NEW kind, NEW r PROVE InFlight(kind, r)' = InFlight(kind, r)
  OBVIOUS
<1>1. InFlight(kind, r)' =
        BusNeeds(app, kind, r, executeBus')
        + (EuNeeds(app, kind, r, eus[1]) + EuNeeds(app, kind, r, eus[2]))
        + (BusNeeds(app, kind, r, writeBus')
           + (WuNeeds(app, kind, r, wus[1]) + WuNeeds(app, kind, r, wus[2])))
  BY DEF InFlight
<1> QED BY <1>1, Zenon DEF InFlight

\* What is behind the buses, and what is on them, stays when they are connected.
LEMMA ConnectMoves ==
  ASSUME ShapeInv, WritersInv, UNCHANGED <<app, eus, wus>>,
         executeBus' = executeBus \/ executeBus' = Connected(executeBus),
         writeBus' = writeBus \/ writeBus' = Connected(writeBus)
  PROVE  NobodyLeaves /\ Unexecuteds' = Unexecuteds
<1>1. IsBus(executeBus) /\ IsBus(writeBus)
  BY DEF ShapeInv, WritersInv
<1>2. \A kind, r : /\ BusNeeds(app, kind, r, executeBus') = BusNeeds(app, kind, r, executeBus)
                   /\ BusNeeds(app, kind, r, writeBus') = BusNeeds(app, kind, r, writeBus)
  <2>1. ASSUME NEW bus, IsBus(bus), NEW kind, NEW r
        PROVE  BusNeeds(app, kind, r, Connected(bus)) = BusNeeds(app, kind, r, bus)
    BY <2>1, BusNeedsConnected, Zenon
  <2> QED BY <1>1, <2>1, Zenon
<1>3. NobodyLeaves
  BY <1>2, SameInFlight DEF NobodyLeaves
<1>4. BusRunners(executeBus') = BusRunners(executeBus)
  BY <1>1, RunnersConnected, Zenon
<1>5. Unexecuteds' = BusRunners(executeBus') \cup (EuRunners(eus[1]) \cup EuRunners(eus[2]))
  BY Zenon DEF Unexecuteds
<1> QED BY <1>3, <1>4, <1>5, Zenon DEF Unexecuteds

\* Fetch (cpu.go: the buses are connected) and decode move nothing.
LEMMA FetchAndDecodeKeepScore ==
  ASSUME FrontInv, ScoreInv, Fetch \/ Decode PROVE ScoreInv'
<1>1. /\ status = "running" /\ UNCHANGED <<app, pendingReads, pendingWrites, eus, wus>>
      /\ phase # "drain"
  BY DEF Fetch, Decode, At, contextVars, executeVars
<1>2. ShapeInv /\ WritersInv /\ CountInv
  BY <1>1 DEF FrontInv, ScoreInv
<1>3. /\ executeBus' = executeBus \/ executeBus' = Connected(executeBus)
      /\ writeBus' = writeBus \/ writeBus' = Connected(writeBus)
  BY Zenon DEF Fetch, Decode
<1>4. IsBus(writeBus)
  BY <1>2 DEF WritersInv
<1>5. IsBus(writeBus')
  BY <1>3, <1>4, PutAndConnect, Zenon
<1>6. NobodyLeaves
  BY <1>1, <1>2, <1>3, ConnectMoves
<1>7. CountInv'
  BY <1>1, <1>2, <1>6, KeptInBoth, Zenon DEF NobodyLeaves
<1>8. WritersInv'
  BY <1>1, <1>2, <1>5, Zenon DEF WritersInv
<1>9. status' = "running" => phase' # "drain"
  BY <1>1 DEF Fetch, Decode, GoTo
<1> QED BY <1>7, <1>8, <1>9 DEF ScoreInv, DrainInv

\* With what the control unit pushes the needs in flight grow.
LEMMA PushAdds ==
  ASSUME ShapeInv, WritersInv, UNCHANGED <<app, eus, writeBus, wus>>,
         NEW bus, IsBus(bus), Pcs(Bus!Elements(bus)) = Pcs(Bus!Elements(executeBus)),
         NEW runner, executeBus' = Put(bus, runner)
  PROVE  \A kind, r : InFlight(kind, r)' = InFlight(kind, r) + Needs(app, kind, runner.pc, r)
<1> SUFFICES ASSUME NEW kind, NEW r
             PROVE  InFlight(kind, r)' = InFlight(kind, r) + Needs(app, kind, runner.pc, r)
  OBVIOUS
<1>1. BusNeeds(app, kind, r, executeBus')
        = BusNeeds(app, kind, r, executeBus) + Needs(app, kind, runner.pc, r)
  <2>1. BusNeeds(app, kind, r, bus) = BusNeeds(app, kind, r, executeBus)
    BY Zenon DEF BusNeeds
  <2>2. BusNeeds(app, kind, r, Put(bus, runner))
          = BusNeeds(app, kind, r, bus) + Needs(app, kind, runner.pc, r)
    BY BusNeedsPut, Zenon
  <2> QED BY <2>1, <2>2, Zenon
<1>2. InFlight(kind, r)' =
        BusNeeds(app, kind, r, executeBus')
        + (EuNeeds(app, kind, r, eus[1]) + EuNeeds(app, kind, r, eus[2]))
        + (BusNeeds(app, kind, r, writeBus)
           + (WuNeeds(app, kind, r, wus[1]) + WuNeeds(app, kind, r, wus[2])))
  BY DEF InFlight
<1>3. /\ BusNeeds(app, kind, r, executeBus) \in Nat /\ BusNeeds(app, kind, r, writeBus) \in Nat
      /\ EuNeeds(app, kind, r, eus[1]) \in Nat /\ EuNeeds(app, kind, r, eus[2]) \in Nat
      /\ WuNeeds(app, kind, r, wus[1]) \in Nat /\ WuNeeds(app, kind, r, wus[2]) \in Nat
      /\ Needs(app, kind, runner.pc, r) \in Nat
  BY InFlightIsNat, NeedsIsNat, Zenon
<1> QED BY <1>1, <1>2, <1>3 DEF InFlight

\* The forwarder that is changed is a runner on the bus.
LEMMA ForwarderIsOnBus ==
  ASSUME ShapeInv, IssueForwarded, NEW i, i = CHOOSE j \in Writers : TRUE
  PROVE  /\ i \in Previous /\ i \in 1..Len(Bus!Elements(executeBus))
         /\ IsRunner(Bus!Elements(executeBus)[i])
<1>1. i \in Previous
  <2>1. Writers # {}
    BY DEF IssueForwarded, ShouldUseForwarding
  <2> QED BY <2>1 DEF Writers
<1>2. i \in 1..Len(Bus!Elements(executeBus))
  <2>1. PICK list : list = Bus!Elements(executeBus)
    OBVIOUS
  <2>2. PICK S : list \in Seq(S)
    BY <2>1, PutAndConnect, Zenon DEF IsList, ShapeInv
  <2> QED BY <1>1, <2>1, <2>2 DEF Previous, ShapeInv
<1>3. IsRunner(Bus!Elements(executeBus)[i])
  BY <1>2, Zenon DEF AreRunners, ShapeInv
<1> QED BY <1>1, <1>2, <1>3

\* The control unit (cu.go) counts what it pushes.
LEMMA ControlKeepsScore == ASSUME FrontInv, ScoreInv, Control PROVE ScoreInv'
<1>1. /\ status = "running" /\ UNCHANGED <<app, eus, writeBus, wus>> /\ phase = "control"
  BY DEF Control, At
<1>2. ShapeInv /\ WritersInv /\ CountInv
  BY <1>1 DEF FrontInv, ScoreInv
<1>3. IsBus(executeBus) /\ IsBus(writeBus) /\ AreRunners(Bus!Elements(executeBus))
  BY <1>2 DEF ShapeInv, WritersInv
<1>4. ASSUME NEW bus, IsBus(bus), Pcs(Bus!Elements(bus)) = Pcs(Bus!Elements(executeBus)),
             NEW runner, Pushes(bus, runner)
      PROVE  CountInv'
  <2>1. executeBus' = Put(bus, runner)
    BY <1>4 DEF Pushes
  <2>2. \A kind, r : InFlight(kind, r)' = InFlight(kind, r) + Needs(app, kind, runner.pc, r)
    BY <1>1, <1>2, <1>4, <2>1, PushAdds, Zenon
  <2>3. AddPendingRegisters(runner.pc)
    BY <1>4 DEF Pushes
  <2> QED BY <1>2, <2>2, <2>3, AddedToBoth, Zenon
<1>5. ASSUME Pcs(Bus!Elements(executeBus')) = Pcs(Bus!Elements(executeBus)),
             UNCHANGED <<pendingReads, pendingWrites>>
      PROVE  CountInv'
  <2>1. \A kind, r : BusNeeds(app, kind, r, executeBus') = BusNeeds(app, kind, r, executeBus)
    BY <1>5, Zenon DEF BusNeeds
  <2> QED BY <1>1, <1>2, <1>5, <2>1, SameInFlight, KeptInBoth
<1>6. CountInv'
  <2>1. CASE IssueNothing
    BY <1>5, <2>1 DEF IssueNothing
  <2>2. CASE Issue
    <3>1. Pushes(executeBus, Runner)
      BY <2>2 DEF Issue
    <3> QED BY <1>3, <1>4, <3>1, Zenon
  <2>3. CASE IssueForwarded
    <3>1. PICK i, writer, r :
            /\ i = CHOOSE j \in Writers : TRUE
            /\ writer = Bus!Elements(executeBus)[i]
            /\ r = CHOOSE s \in ReadRegisters(InstructionAt(Runner.pc)) : WritesOf(writer.pc, s) > 0
      OBVIOUS
    <3>3. PICK sender, receiver :
            /\ sender = [writer EXCEPT !.forwarder = FreshChannel, !.forwardRegister = r]
            /\ receiver = [Runner EXCEPT !.receiver = FreshChannel, !.forwardRegister = r]
      OBVIOUS
    <3>4. \/ Pushes(Repointed(i, sender), receiver)
          \/ executeBus' = Repointed(i, sender) /\ UNCHANGED <<pendingReads, pendingWrites>>
      BY <2>3, <3>1, <3>3, Zenon DEF IssueForwarded
    <3>5. i \in Previous /\ IsRunner(writer)
      BY <1>2, <2>3, <3>1, ForwarderIsOnBus, Zenon
    <3>7. IsRunner(sender) /\ sender.pc = writer.pc
      BY <3>3, <3>5 DEF IsRunner, NewRunner
    <3>6. /\ IsBus(Repointed(i, sender))
          /\ Pcs(Bus!Elements(Repointed(i, sender))) = Pcs(Bus!Elements(executeBus))
      BY <1>2, <3>1, <3>5, <3>7, RepointedInOrder, Zenon
    <3> QED BY <1>4, <1>5, <3>4, <3>6, Zenon
  <2>4. CASE IssueBlocked
    BY <1>5, <2>4 DEF IssueBlocked
  <2> QED BY <2>1, <2>2, <2>3, <2>4 DEF Control
<1>7. WritersInv'
  BY <1>1, <1>2, Zenon DEF WritersInv
<1>8. phase' # "drain"
  BY <1>1, Zenon DEF Control, IssueNothing, Issue, IssueForwarded, IssueBlocked, Stops, GoTo, placeVars
<1> QED BY <1>6, <1>7, <1>8 DEF ScoreInv, DrainInv
-----------------------------------------------------------------------------
(* The scoreboard and the execute units                                    *)

\* The needs of what has been issued and not executed, and of what has not been
\* written.
Unexecuted(program, kind, r, bus, units) ==
  BusNeeds(program, kind, r, bus)
  + (EuNeeds(program, kind, r, units[1]) + EuNeeds(program, kind, r, units[2]))
Unwritten(program, kind, r, bus, units) ==
  BusNeeds(program, kind, r, bus)
  + (WuNeeds(program, kind, r, units[1]) + WuNeeds(program, kind, r, units[2]))

LEMMA TwoHalves ==
  ASSUME NEW kind, NEW r
  PROVE  /\ InFlight(kind, r) = Unexecuted(app, kind, r, executeBus, eus)
                                + Unwritten(app, kind, r, writeBus, wus)
         /\ InFlight(kind, r)' = Unexecuted(app', kind, r, executeBus', eus')
                                 + Unwritten(app', kind, r, writeBus', wus')
BY Zenon DEF InFlight, Unexecuted, Unwritten

LEMMA HalvesAreNat ==
  ASSUME NEW program, NEW kind, NEW r, NEW bus, IsBus(bus), NEW units
  PROVE  /\ Unexecuted(program, kind, r, bus, units) \in Nat
         /\ Unwritten(program, kind, r, bus, units) \in Nat
<1>1. BusNeeds(program, kind, r, bus) \in Nat
  BY BusNeedsIsNat, Zenon
<1>2. /\ \A eu : EuNeeds(program, kind, r, eu) \in Nat
      /\ \A wu : WuNeeds(program, kind, r, wu) \in Nat
  <2>1. \A pc : Needs(program, kind, pc, r) \in Nat
    BY NeedsIsNat
  <2> QED BY <2>1 DEF EuNeeds, WuNeeds
<1> QED BY <1>1, <1>2 DEF Unexecuted, Unwritten

\* Two units, one of which changes.
LEMMA OneUnitChanges ==
  ASSUME NEW units, units = [i \in Unit |-> units[i]], NEW i \in Unit, NEW x,
         NEW after, after = [units EXCEPT ![i] = x]
  PROVE  /\ after = [j \in Unit |-> after[j]]
         /\ after[i] = x /\ \A j \in Unit \ {i} : after[j] = units[j]
         /\ \/ i = 1 /\ after[1] = x /\ after[2] = units[2]
            \/ i = 2 /\ after[2] = x /\ after[1] = units[1]
<1>1. after = [j \in Unit |-> IF j = i THEN x ELSE units[j]]
  OBVIOUS
<1>2. 1 \in Unit /\ 2 \in Unit /\ (i = 1 \/ i = 2)
  BY DEF Unit
<1> QED BY <1>1, <1>2

\* The execute bus once the runner has been taken.
LEMMA DispatchedIsBus == ASSUME ShapeInv, HasJob PROVE IsBus(Dispatched)
<1>1. IsBus(executeBus)
  BY DEF ShapeInv
<1>2. CASE eus[unit].stage # "start"
  BY <1>1, <1>2 DEF Dispatched
<1>3. CASE eus[unit].stage = "start"
  <2>1. Dispatched = Bus!AfterGet(executeBus) /\ Bus!CanGet(executeBus)
    BY <1>3 DEF Dispatched, HasJob
  <2> QED BY <1>1, <2>1, GetFromBus, Zenon
<1> QED BY <1>2, <1>3

\* The runner that the unit has is in flight once, wherever it was found.
LEMMA JobNeeds ==
  ASSUME ShapeInv, HasJob, NEW kind, NEW r, NEW eu
  PROVE  Unexecuted(app, kind, r, Dispatched, [eus EXCEPT ![unit] = eu])
           + Needs(app, kind, JobPc, r)
         = Unexecuted(app, kind, r, executeBus, eus) + EuNeeds(app, kind, r, eu)
<1> DEFINE E(x) == EuNeeds(app, kind, r, x)
           B(bus) == BusNeeds(app, kind, r, bus)
<1>1. /\ unit \in Unit /\ eus = [i \in Unit |-> eus[i]] /\ IsBus(executeBus)
  BY DEF ShapeInv
<1>2. PICK after : after = [eus EXCEPT ![unit] = eu]
  OBVIOUS
<1>3. PICK need : need = Needs(app, kind, JobPc, r)
  OBVIOUS
<1>4. need \in Nat /\ \A x : E(x) \in Nat
  <2>1. \A pc : Needs(app, kind, pc, r) \in Nat
    BY NeedsIsNat
  <2> QED BY <1>3, <2>1 DEF EuNeeds
<1>5. IsBus(Dispatched) /\ B(executeBus) + E(eus[unit]) = B(Dispatched) + need
  <2>1. CASE eus[unit].stage # "start"
    <3>1. Dispatched = executeBus /\ Job = eus[unit]
      BY <2>1 DEF Dispatched, Job
    <3>2. E(eus[unit]) = need
      BY <1>3, <2>1, <3>1 DEF EuNeeds, JobPc
    <3> QED BY <1>1, <3>1, <3>2, Zenon
  <2>2. CASE eus[unit].stage = "start"
    <3>1. /\ Dispatched = Bus!AfterGet(executeBus) /\ Bus!CanGet(executeBus)
          /\ JobPc = Bus!Oldest(executeBus).pc
      BY <2>2 DEF Dispatched, HasJob, Job, JobPc, IdleEu
    <3>2. E(eus[unit]) = 0
      BY <2>2 DEF EuNeeds
    <3>3. B(executeBus) = need + B(Dispatched)
      BY <1>1, <1>3, <3>1, BusNeedsGet, Zenon
    <3>4. IsBus(Dispatched)
      BY <1>1, <3>1, GetFromBus, Zenon
    <3>5. B(Dispatched) \in Nat
      BY <3>4, BusNeedsIsNat, Zenon
    <3>6. B(executeBus) + E(eus[unit]) = B(Dispatched) + need
      <4> HIDE DEF B, E
      <4> QED BY <1>4, <3>2, <3>3, <3>5
    <3> QED BY <3>4, <3>6
  <2> QED BY <2>1, <2>2
<1>6. B(executeBus) \in Nat /\ B(Dispatched) \in Nat
  BY <1>1, <1>5, BusNeedsIsNat, Zenon
<1> HIDE DEF B, E
<1>7. E(after[1]) + E(after[2]) + E(eus[unit]) = E(eus[1]) + E(eus[2]) + E(eu)
  <2>1. \/ unit = 1 /\ after[1] = eu /\ after[2] = eus[2]
        \/ unit = 2 /\ after[2] = eu /\ after[1] = eus[1]
    BY <1>1, <1>2, OneUnitChanges
  <2>2. CASE unit = 1
    <3>1. E(after[1]) = E(eu) /\ E(after[2]) = E(eus[2]) /\ E(eus[unit]) = E(eus[1])
      BY <2>1, <2>2
    <3>2. E(eu) \in Nat /\ E(eus[1]) \in Nat /\ E(eus[2]) \in Nat
      BY <1>4
    <3> QED BY <3>1, <3>2
  <2>3. CASE unit = 2
    <3>1. E(after[2]) = E(eu) /\ E(after[1]) = E(eus[1]) /\ E(eus[unit]) = E(eus[2])
      BY <2>1, <2>3
    <3>2. E(eu) \in Nat /\ E(eus[1]) \in Nat /\ E(eus[2]) \in Nat
      BY <1>4
    <3> QED BY <3>1, <3>2
  <2> QED BY <2>1, <2>2, <2>3
<1>8. (B(Dispatched) + (E(after[1]) + E(after[2]))) + need
        = (B(executeBus) + (E(eus[1]) + E(eus[2]))) + E(eu)
  <2>1. /\ E(after[1]) \in Nat /\ E(after[2]) \in Nat /\ E(eus[1]) \in Nat /\ E(eus[2]) \in Nat
        /\ E(eu) \in Nat /\ E(eus[unit]) \in Nat
    BY <1>4
  <2> QED BY <1>4, <1>5, <1>6, <1>7, <2>1
<1> QED BY <1>2, <1>3, <1>8, Zenon DEF Unexecuted, B, E

\* What returns neither reads nor writes: a ret, and nothing else (opcodes.go).
LEMMA ReturnsAreRet ==
  ASSUME NEW ins, NEW program, NEW regs, NEW pc, NEW bytes,
         NEW exe, exe = Run(ins, program, regs, pc, bytes), exe.Return
  PROVE  ReadRegisters(ins) = {} /\ WriteRegisters(ins) = {} /\ ReadList(ins) = << >>
<1>4. \A rd, value : RegisterResult(rd, value).Return = FALSE
  BY DEF RegisterResult, NoChange
<1>5. \A outcome : Failed(outcome).Return = FALSE
  BY DEF Failed, NoChange
<1>6. ins.op \notin RegRegOps
  <2>1. SUFFICES ASSUME ins.op \in RegRegOps PROVE exe.Return = FALSE
    OBVIOUS
  <2>2. exe = RegRegRun(ins, regs[ins.rs1], regs[ins.rs2])
    BY <2>1 DEF Run, RegRegOps, RegImmOps, UpperOps, LoadOps, StoreOps, BranchOps, JumpOps
  <2> QED BY <1>4, <1>5, <2>2 DEF RegRegRun
<1>7. ins.op \notin RegImmOps
  <2>1. SUFFICES ASSUME ins.op \in RegImmOps PROVE exe.Return = FALSE
    OBVIOUS
  <2>2. exe = RegImmRun(ins, regs[ins.rs1], ins.imm)
    BY <2>1 DEF Run, RegRegOps, RegImmOps, UpperOps, LoadOps, StoreOps, BranchOps, JumpOps
  <2> QED BY <1>4, <1>5, <2>2 DEF RegImmRun
<1>8. ins.op \notin UpperOps
  <2>1. SUFFICES ASSUME ins.op \in UpperOps PROVE exe.Return = FALSE
    OBVIOUS
  <2>2. exe = UpperRun(ins, pc)
    BY <2>1 DEF Run, RegRegOps, RegImmOps, UpperOps, LoadOps, StoreOps, BranchOps, JumpOps
  <2> QED BY <1>4, <2>2 DEF UpperRun
<1>9. ins.op \notin LoadOps
  <2>1. SUFFICES ASSUME ins.op \in LoadOps PROVE exe.Return = FALSE
    OBVIOUS
  <2>2. exe = LoadRun(ins, bytes)
    BY <2>1 DEF Run, RegRegOps, RegImmOps, UpperOps, LoadOps, StoreOps, BranchOps, JumpOps
  <2> QED BY <1>4, <2>2 DEF LoadRun
<1>10. ins.op \notin StoreOps
  <2>1. SUFFICES ASSUME ins.op \in StoreOps PROVE exe.Return = FALSE
    OBVIOUS
  <2>2. exe = StoreRun(ins, regs[ins.rs1], regs[ins.rs2])
    BY <2>1 DEF Run, RegRegOps, RegImmOps, UpperOps, LoadOps, StoreOps, BranchOps, JumpOps
  <2>3. PICK changes : exe = [NoChange EXCEPT !.MemoryChange = TRUE, !.MemoryChanges = changes]
    BY <2>2, Zenon DEF StoreRun
  <2> QED BY <2>3 DEF NoChange
<1>11. \A label : Goto(program, label).Return = FALSE
  BY <1>5 DEF Goto, NoChange
<1>12. ins.op \notin BranchOps
  <2>1. SUFFICES ASSUME ins.op \in BranchOps PROVE exe.Return = FALSE
    OBVIOUS
  <2>2. exe = BranchRun(ins, program, regs[ins.rs1], regs[ins.rs2])
    BY <2>1 DEF Run, RegRegOps, RegImmOps, UpperOps, LoadOps, StoreOps, BranchOps, JumpOps
  <2>3. exe = Goto(program, ins.label) \/ exe = NoChange
    BY <2>2, Zenon DEF BranchRun
  <2> QED BY <1>11, <2>3 DEF NoChange
<1>13. ins.op \notin JumpOps
  <2>1. SUFFICES ASSUME ins.op \in JumpOps PROVE FALSE
    OBVIOUS
  <2>2. IsUnconditionalBranch(ins)
    BY <2>1 DEF IsUnconditionalBranch
  <2> QED BY <2>2, JumpsNeitherReturnNorStore
<1>14. ReadRegisters(ins) = {} /\ WriteRegisters(ins) = {}
  <2>1. ins.op \notin {"jal", "jalr", "lb", "lw", "lh", "beqz"}
    BY <1>9, <1>12, <1>13 DEF LoadOps, BranchOps, JumpOps
  <2> QED BY <1>6, <1>7, <1>8, <1>9, <1>10, <1>12, <2>1 DEF ReadRegisters, WriteRegisters
<1>15. ReadList(ins) = << >>
  <2>1. ins.op # "lh"
    BY <1>9 DEF LoadOps
  <2> QED BY <1>6, <1>10, <1>12, <1>14, <2>1 DEF ReadList
<1> QED BY <1>14, <1>15

LEMMA ReturnNeedsNothing ==
  ASSUME NEW kind, NEW pc, NEW r, NEW program, NEW regs, NEW bytes,
         Run(InstructionAt(pc), program, regs, pc, bytes).Return
  PROVE  Needs(app, kind, pc, r) = 0
<1>1. PICK ins : ins = app.Instructions[IndexOf(pc) + 1]
  OBVIOUS
<1>2. WriteRegisters(ins) = {} /\ ReadList(ins) = << >>
  BY <1>1, ReturnsAreRet, Zenon DEF InstructionAt
<1>3. CASE kind = "read"
  <2>1. {i \in DOMAIN ReadList(ins) : r # Zero /\ ReadList(ins)[i] = r} = {}
    BY <1>2
  <2> QED BY <1>1, <1>3, <2>1, FS_EmptySet, Zenon DEF Needs
<1>4. CASE kind # "read"
  BY <1>1, <1>2, <1>4 DEF Needs
<1> QED BY <1>3, <1>4
\* A runner that stays in the unit stays in flight, and the two halves with it.
LEMMA HeldKeepsNeeds ==
  ASSUME ShapeInv, HasJob, TakeJob, NEW eu, Becomes(eu), eu.stage # "start",
         eu.runner = Job.runner, UNCHANGED <<app, writeBus, wus>>
  PROVE  \A kind, r : InFlight(kind, r)' = InFlight(kind, r)
<1> SUFFICES ASSUME NEW kind, NEW r PROVE InFlight(kind, r)' = InFlight(kind, r)
  OBVIOUS
<1>1. executeBus' = Dispatched /\ eus' = [eus EXCEPT ![unit] = eu]
  BY Zenon DEF TakeJob, Dispatched, Becomes
<1>2. PICK before, after :
        /\ before = Unexecuted(app, kind, r, executeBus, eus)
        /\ after = Unexecuted(app, kind, r, Dispatched, [eus EXCEPT ![unit] = eu])
  OBVIOUS
<1>3. PICK need : need = Needs(app, kind, JobPc, r)
  OBVIOUS
<1>4. EuNeeds(app, kind, r, eu) = need
  BY <1>3, Zenon DEF EuNeeds, JobPc
<1>5. after + need = before + need
  <2>1. Unexecuted(app, kind, r, Dispatched, [eus EXCEPT ![unit] = eu])
          + Needs(app, kind, JobPc, r)
        = Unexecuted(app, kind, r, executeBus, eus) + EuNeeds(app, kind, r, eu)
    BY JobNeeds
  <2> QED BY <1>2, <1>3, <1>4, <2>1
<1>6. before \in Nat /\ after \in Nat /\ need \in Nat
  <2>1. IsBus(executeBus) /\ IsBus(Dispatched)
    BY DispatchedIsBus DEF ShapeInv
  <2> QED BY <1>2, <1>3, <2>1, HalvesAreNat, NeedsIsNat, Zenon
<1>7. after = before
  BY <1>5, <1>6
<1>8. Unexecuted(app', kind, r, executeBus', eus') = before
  BY <1>1, <1>2, <1>7, Zenon
<1> QED BY <1>2, <1>8, TwoHalves, Zenon

\* One that leaves the unit leaves the first half.
LEMMA FreedTakesNeeds ==
  ASSUME ShapeInv, HasJob, TakeJob, Becomes(IdleEu), UNCHANGED app, NEW kind, NEW r
  PROVE  /\ Unexecuted(app, kind, r, executeBus, eus)
              = Unexecuted(app', kind, r, executeBus', eus') + Needs(app, kind, JobPc, r)
         /\ Unexecuted(app', kind, r, executeBus', eus') \in Nat
<1>1. executeBus' = Dispatched /\ eus' = [eus EXCEPT ![unit] = IdleEu]
  BY Zenon DEF TakeJob, Dispatched, Becomes
<1>2. PICK before, after, need :
        /\ before = Unexecuted(app, kind, r, executeBus, eus)
        /\ after = Unexecuted(app', kind, r, executeBus', eus')
        /\ need = Needs(app, kind, JobPc, r)
  OBVIOUS
<1>3. EuNeeds(app, kind, r, IdleEu) = 0
  BY DEF EuNeeds, IdleEu
<1>4. after + need = before + 0
  BY <1>1, <1>2, <1>3, JobNeeds, Zenon
<1>5. before \in Nat /\ after \in Nat /\ need \in Nat
  <2>1. IsBus(executeBus) /\ IsBus(Dispatched)
    BY DispatchedIsBus DEF ShapeInv
  <2> QED BY <1>1, <1>2, <2>1, HalvesAreNat, NeedsIsNat, Zenon
<1>6. before = after + need
  BY <1>4, <1>5
<1> QED BY <1>2, <1>5, <1>6, Zenon

\* What an execute unit has comes from it or from the bus.
LEMMA JobRunners ==
  ASSUME ShapeInv, HasJob, TakeJob, NEW eu, Becomes(eu),
         eu.stage = "start" \/ eu.runner = Job.runner
  PROVE  Unexecuteds' \subseteq Unexecuteds
<1>1. /\ executeBus' = Dispatched /\ eus' = [eus EXCEPT ![unit] = eu] /\ IsBus(executeBus)
      /\ unit \in Unit /\ eus = [i \in Unit |-> eus[i]]
  BY Zenon DEF TakeJob, Dispatched, Becomes, ShapeInv
<1>2. EuRunners(eus[unit]) \subseteq EuRunners(eus[1]) \cup EuRunners(eus[2])
  BY <1>1 DEF Unit
<1>3. BusRunners(Dispatched) \subseteq BusRunners(executeBus) /\ Job.runner \in Unexecuteds
  <2>1. CASE eus[unit].stage # "start"
    <3>1. Dispatched = executeBus /\ Job = eus[unit] /\ eus[unit].runner \in EuRunners(eus[unit])
      BY <2>1 DEF Dispatched, Job, EuRunners
    <3> QED BY <1>2, <3>1, Zenon DEF Unexecuteds
  <2>2. CASE eus[unit].stage = "start"
    <3>1. /\ Dispatched = Bus!AfterGet(executeBus) /\ Bus!CanGet(executeBus)
          /\ Job.runner = Bus!Oldest(executeBus)
      BY <2>2 DEF Dispatched, HasJob, Job, IdleEu
    <3> QED BY <1>1, <3>1, RunnersGet, Zenon DEF Unexecuteds
  <2> QED BY <2>1, <2>2
<1>4. EuRunners(eu) \subseteq Unexecuteds
  BY <1>3 DEF EuRunners
<1>5. \/ eus'[1] = eu /\ eus'[2] = eus[2]
      \/ eus'[2] = eu /\ eus'[1] = eus[1]
  BY <1>1, OneUnitChanges
<1>6. Unexecuteds' = BusRunners(Dispatched) \cup (EuRunners(eus'[1]) \cup EuRunners(eus'[2]))
  BY <1>1, Zenon DEF Unexecuteds, BusRunners, Members
<1>7. EuRunners(eus'[1]) \cup EuRunners(eus'[2]) \subseteq Unexecuteds
  BY <1>4, <1>5, Zenon DEF Unexecuteds
<1> QED BY <1>3, <1>6, <1>7 DEF Unexecuteds

\* The steps of the execute units (eu.go): a store that ends in the cache takes its
\* instruction from the scoreboard, a result that goes to the write bus stays
\* counted, and a ret was never counted.
ExecuteMoved == WritersInv' /\ Follow /\ Unexecuteds' \subseteq Unexecuteds
LEMMA ExecuteMoves ==
  ASSUME FrontInv, WritersInv, Execute PROVE status' = "running" => ExecuteMoved
<1>1. status = "running" /\ UNCHANGED <<app, wus>> /\ ShapeInv /\ WritersInv
  BY DEF FrontInv, Execute, At
<1>2. IsBus(writeBus) /\ IsBus(executeBus)
  BY <1>1 DEF WritersInv, ShapeInv
<1>3. ASSUME Runs PROVE HasJob
  BY <1>3 DEF Runs, Ready
<1>4. ASSUME HasJob PROVE Job.stage # "start"
  BY <1>4 DEF Job, IdleEu
<1>5. ASSUME Runs, Free PROVE Unexecuteds' \subseteq Unexecuteds
  <2>1. HasJob /\ TakeJob /\ Becomes(IdleEu) /\ IdleEu.stage = "start"
    BY <1>3, <1>5 DEF Free, IdleEu
  <2> QED BY <1>1, <2>1, JobRunners
<1>6. ASSUME UNCHANGED writeBus PROVE WritersInv'
  BY <1>1, <1>6, Zenon DEF WritersInv
<1>7. ASSUME UNCHANGED <<executeBus, eus>> PROVE Unexecuteds' \subseteq Unexecuteds
  BY <1>7 DEF Unexecuteds, BusRunners, Members, EuRunners
<1>8. ASSUME HasJob, TakeJob, NEW eu, Becomes(eu), eu.stage # "start", eu.runner = Job.runner,
             UNCHANGED <<pendingReads, pendingWrites, writeBus>>
      PROVE  ExecuteMoved
  <2>1. NobodyLeaves
    BY <1>1, <1>8, HeldKeepsNeeds DEF NobodyLeaves
  <2>2. Unexecuteds' \subseteq Unexecuteds
    BY <1>1, <1>8, JobRunners
  <2> QED BY <1>6, <1>8, <2>1, <2>2 DEF ExecuteMoved, Follow
<1>9. CASE ExecuteGoesOn
  <2>1. UNCHANGED <<pendingReads, pendingWrites, writeBus>>
    BY <1>9 DEF ExecuteGoesOn
  <2>2. CASE ExecuteNothing
    <3>1. UNCHANGED <<executeBus, eus>>
      BY <2>2 DEF ExecuteNothing
    <3>2. NobodyLeaves
      BY <1>1, <2>1, <3>1, TwoHalves, Zenon DEF NobodyLeaves
    <3> QED BY <1>6, <1>7, <2>1, <3>1, <3>2 DEF ExecuteMoved, Follow
  <2>3. CASE ExecuteWaits
    <3>1. HasJob /\ TakeJob /\ Becomes(Job)
      BY <2>3 DEF ExecuteWaits
    <3> QED BY <1>4, <1>8, <2>1, <3>1
  <2>4. CASE ExecuteReads
    <3>1. HasJob /\ TakeJob
      BY <2>4 DEF ExecuteReads, Ready
    <3>2. PICK bytes, addrs : bytes = ReadValues(l1d, JobAddresses) /\ addrs = JobAddresses
      OBVIOUS
    <3>3. \/ Becomes([Job EXCEPT !.stage = "hit", !.bytes = bytes])
          \/ Becomes([Job EXCEPT !.stage = "miss", !.addrs = addrs,
                                 !.remaining = MemoryCycles - 1])
      BY <2>4, <3>2, Zenon DEF ExecuteReads
    <3>4. PICK eu : /\ Becomes(eu)
                    /\ \/ eu = [Job EXCEPT !.stage = "hit", !.bytes = bytes]
                       \/ eu = [Job EXCEPT !.stage = "miss", !.addrs = addrs,
                                           !.remaining = MemoryCycles - 1]
      BY <3>3, Zenon
    <3>5. eu.stage # "start" /\ eu.runner = Job.runner
      <4>1. PICK job : job = Job
        OBVIOUS
      <4>2. DOMAIN job = {"stage", "runner", "remaining", "addrs", "bytes"}
        BY <1>1, <3>1, <4>1 DEF IdleEu, ShapeInv, Job
      <4>3. \/ eu = [job EXCEPT !.stage = "hit", !.bytes = bytes]
            \/ eu = [job EXCEPT !.stage = "miss", !.addrs = addrs,
                                !.remaining = MemoryCycles - 1]
        BY <3>4, <4>1
      <4> QED BY <4>1, <4>2, <4>3
    <3> QED BY <1>8, <2>1, <3>1, <3>4, <3>5
  <2>5. CASE ExecuteCounts
    <3>1. HasJob /\ Job.stage = "miss" /\ UNCHANGED executeBus
          /\ Becomes([Job EXCEPT !.remaining = @ - 1])
      BY <2>5 DEF ExecuteCounts
    <3>2. TakeJob
      BY <3>1 DEF TakeJob, Job, IdleEu
    <3>3. PICK eu : eu = [Job EXCEPT !.remaining = @ - 1]
      OBVIOUS
    <3>4. eu.stage # "start" /\ eu.runner = Job.runner
      <4>1. PICK job : job = Job
        OBVIOUS
      <4>2. DOMAIN job = {"stage", "runner", "remaining", "addrs", "bytes"}
        BY <1>1, <3>1, <4>1 DEF IdleEu, ShapeInv, Job
      <4> QED BY <3>1, <3>3, <4>1, <4>2
    <3>5. Becomes(eu)
      BY <3>1, <3>3, Zenon
    <3> QED BY <1>8, <2>1, <3>1, <3>2, <3>4, <3>5
  <2> QED BY <1>9, <2>2, <2>3, <2>4, <2>5 DEF ExecuteGoesOn
<1>10. CASE ExecuteFails
  <2>1. UNCHANGED <<executeBus, eus, writeBus, pendingReads, pendingWrites>>
    BY <1>10 DEF ExecuteFails, executeVars, contextVars
  <2>2. NobodyLeaves
    BY <1>1, <2>1, TwoHalves, Zenon DEF NobodyLeaves
  <2> QED BY <1>6, <1>7, <2>1, <2>2 DEF ExecuteMoved, Follow
<1>11. ASSUME Runs, Free, NEW kind, NEW r
       PROVE  /\ Unexecuted(app, kind, r, executeBus, eus)
                   = Unexecuted(app', kind, r, executeBus', eus') + Needs(app, kind, JobPc, r)
              /\ Unexecuted(app', kind, r, executeBus', eus') \in Nat
  <2>1. HasJob /\ TakeJob /\ Becomes(IdleEu)
    BY <1>3, <1>11 DEF Free
  <2> QED BY <1>1, <2>1, FreedTakesNeeds, Zenon
<1>12. ASSUME NEW kind, NEW r
       PROVE  /\ Unwritten(app, kind, r, writeBus, wus) \in Nat
              /\ Needs(app, kind, JobPc, r) \in Nat
  BY <1>2, HalvesAreNat, NeedsIsNat, Zenon
<1>13. CASE ExecuteReturns
  <2>1. /\ Runs /\ Free /\ UNCHANGED <<pendingReads, pendingWrites, writeBus>> /\ Result.Return
    BY <1>13 DEF ExecuteReturns
  <2>2. SUFFICES ASSUME NEW kind, NEW r PROVE InFlight(kind, r)' = InFlight(kind, r)
    BY <1>5, <1>6, <2>1 DEF ExecuteMoved, Follow, NobodyLeaves
  <2>3. InFlight(kind, r)' = InFlight(kind, r)
    <3>1. Needs(app, kind, JobPc, r) = 0
      BY <2>1, ReturnNeedsNothing, Zenon DEF Result, JobInstruction
    <3>2. PICK before, after :
            /\ before = Unexecuted(app, kind, r, executeBus, eus)
            /\ after = Unexecuted(app', kind, r, executeBus', eus')
      OBVIOUS
    <3>3. before = after + 0 /\ after \in Nat
      BY <1>11, <2>1, <3>1, <3>2, Zenon
    <3>4. before = after
      BY <3>3
    <3> QED BY <1>1, <2>1, <3>2, <3>4, TwoHalves, Zenon
  <2> QED BY <2>3
<1>14. CASE ExecuteStores
  <2>1. /\ Runs /\ Free /\ UNCHANGED writeBus
        /\ status' = "panic" \/ DeletePendingRegisters(JobPc)
    BY <1>14, Zenon DEF ExecuteStores, Succeeds
  <2>2. CASE status' = "panic"
    BY <2>2
  <2>3. CASE DeletePendingRegisters(JobPc)
    <3>1. SUFFICES ASSUME NEW kind, NEW r
                   PROVE  /\ InFlight(kind, r)' \in Nat
                          /\ InFlight(kind, r) = InFlight(kind, r)' + Needs(app, kind, JobPc, r)
      <4>1. Leaves(JobPc) => Follow
        BY <2>3, Zenon DEF Follow
      <4> QED BY <4>1, <1>5, <1>6, <2>1, <2>3 DEF ExecuteMoved, Leaves
    <3>2. /\ InFlight(kind, r)' \in Nat
          /\ InFlight(kind, r) = InFlight(kind, r)' + Needs(app, kind, JobPc, r)
      <4>1. PICK before, after, unwritten, need :
              /\ before = Unexecuted(app, kind, r, executeBus, eus)
              /\ after = Unexecuted(app', kind, r, executeBus', eus')
              /\ unwritten = Unwritten(app, kind, r, writeBus, wus)
              /\ need = Needs(app, kind, JobPc, r)
        OBVIOUS
      <4>2. before = after + need /\ after \in Nat
        BY <1>11, <2>1, <4>1, Zenon
      <4>3. unwritten \in Nat /\ need \in Nat
        BY <1>12, <4>1, Zenon
      <4>4. InFlight(kind, r) = before + unwritten /\ InFlight(kind, r)' = after + unwritten
        BY <1>1, <2>1, <4>1, TwoHalves, Zenon
      <4>5. after + unwritten \in Nat /\ before + unwritten = after + unwritten + need
        BY <4>2, <4>3
      <4> QED BY <4>1, <4>4, <4>5, Zenon
    <3> QED BY <3>2
  <2> QED BY <2>1, <2>2, <2>3
<1>15. CASE ExecutePasses
  <2>1. PICK result : result = [pc |-> JobPc, exe |-> Result]
    OBVIOUS
  <2>2. /\ Runs /\ Free /\ UNCHANGED <<pendingReads, pendingWrites>>
        /\ writeBus' = Put(writeBus, result)
    BY <1>15, <2>1, Zenon DEF ExecutePasses, Succeeds
  <2>3. WritersInv'
    <3>1. IsBus(writeBus')
      BY <1>2, <2>2, PutAndConnect, Zenon
    <3> QED BY <1>1, <3>1, Zenon DEF WritersInv
  <2>4. SUFFICES ASSUME NEW kind, NEW r PROVE InFlight(kind, r)' = InFlight(kind, r)
    BY <1>5, <2>2, <2>3 DEF ExecuteMoved, Follow, NobodyLeaves
  <2>5. InFlight(kind, r)' = InFlight(kind, r)
    <3>1. PICK before, after, need, bus, units :
            /\ before = Unexecuted(app, kind, r, executeBus, eus)
            /\ after = Unexecuted(app', kind, r, executeBus', eus')
            /\ need = Needs(app, kind, JobPc, r)
            /\ bus = BusNeeds(app, kind, r, writeBus)
            /\ units = WuNeeds(app, kind, r, wus[1]) + WuNeeds(app, kind, r, wus[2])
      OBVIOUS
    <3>2. before = after + need /\ after \in Nat
      BY <1>11, <2>2, <3>1, Zenon
    <3>3. Unwritten(app, kind, r, writeBus, wus) = bus + units
      BY <3>1, Zenon DEF Unwritten
    <3>4. result.pc = JobPc
      BY <2>1
    <3>5. BusNeeds(app', kind, r, writeBus') = bus + need
      BY <1>1, <1>2, <2>2, <3>1, <3>4, BusNeedsPut, Zenon
    <3>6. Unwritten(app', kind, r, writeBus', wus') = (bus + need) + units
      BY <1>1, <3>1, <3>5, Zenon DEF Unwritten
    <3>7. bus \in Nat /\ need \in Nat /\ units \in Nat
      <4>1. bus \in Nat /\ need \in Nat
        BY <1>2, <3>1, BusNeedsIsNat, NeedsIsNat, Zenon
      <4>2. WuNeeds(app, kind, r, wus[1]) \in Nat /\ WuNeeds(app, kind, r, wus[2]) \in Nat
        BY <1>1, InFlightIsNat, Zenon
      <4> QED BY <3>1, <4>1, <4>2
    <3>8. after + ((bus + need) + units) = before + (bus + units)
      BY <3>2, <3>7
    <3> QED BY <3>1, <3>3, <3>6, <3>8, TwoHalves, Zenon
  <2> QED BY <2>5
<1> QED BY <1>9, <1>10, <1>13, <1>14, <1>15 DEF Execute

LEMMA ExecuteKeepsScore == ASSUME FrontInv, ScoreInv, Execute PROVE ScoreInv'
<1>1. status = "running" /\ phase = "execute" /\ WritersInv /\ CountInv
  BY DEF ScoreInv, Execute, At
<1>2. status' = "running" => phase' # "drain"
  <2>1. NextUnit("execute", "write") => phase' # "drain"
    BY DEF NextUnit
  <2>2. CASE ExecuteGoesOn
    BY <2>1, <2>2 DEF ExecuteGoesOn
  <2>3. CASE ExecuteFails
    BY <1>1, <2>3 DEF ExecuteFails
  <2>4. CASE ExecuteReturns
    BY <2>1, <2>4 DEF ExecuteReturns
  <2>5. CASE ExecuteStores
    <3>1. NextUnit("execute", "write") \/ status' = "panic"
      BY <2>5, Zenon DEF ExecuteStores
    <3> QED BY <2>1, <3>1
  <2>6. CASE ExecutePasses
    <3>1. NextUnit("execute", "write") \/ status' = "panic"
      BY <2>6, Zenon DEF ExecutePasses, PassesOn, Forwarding
    <3> QED BY <2>1, <3>1
  <2> QED BY <2>2, <2>3, <2>4, <2>5, <2>6 DEF Execute
<1>3. status' = "running" => WritersInv' /\ CountInv'
  BY <1>1, ExecuteMoves, CountsFollow DEF ExecuteMoved
<1> QED BY <1>2, <1>3 DEF ScoreInv, DrainInv
-----------------------------------------------------------------------------
(* The scoreboard and the write units                                      *)

\* A turn of a write unit changes that unit and takes from the bus at most.
LEMMA WriteCycleKeepsShape ==
  ASSUME WritersInv, unit \in Unit, NEW before, WriteCycle(before)
  PROVE  WritersInv' /\ \A i \in Unit \ {unit} : wus'[i] = wus[i]
<1>1. /\ IsBus(writeBus) /\ wus = [i \in Unit |-> wus[i]]
      /\ \A i \in Unit : DOMAIN wus[i] = DOMAIN IdleWu
  BY DEF WritersInv
<1>2. IsBus(writeBus')
  <2>1. \/ writeBus' = writeBus
        \/ Bus!CanGet(writeBus) /\ writeBus' = Bus!AfterGet(writeBus)
    BY Zenon DEF WriteCycle, WriteNothing, WriteWaits, WriteMemoryBack, WriteDrops, Takable,
                 TakeWritten
  <2> QED BY <1>1, <2>1, GetFromBus, Zenon
<1>3. ASSUME NEW wu, DOMAIN wu = DOMAIN IdleWu, wus' = [wus EXCEPT ![unit] = wu]
      PROVE  WritersInv' /\ \A i \in Unit \ {unit} : wus'[i] = wus[i]
  <2>1. wus' = [i \in Unit |-> IF i = unit THEN wu ELSE wus[i]]
    BY <1>1, <1>3
  <2>2. /\ wus' = [i \in Unit |-> wus'[i]] /\ \A i \in Unit : DOMAIN wus'[i] = DOMAIN IdleWu
        /\ \A i \in Unit \ {unit} : wus'[i] = wus[i]
    BY <1>1, <1>3, <2>1
  <2> QED BY <1>2, <2>2 DEF WritersInv
<1>4. CASE wus' = wus
  BY <1>1, <1>2, <1>4, Zenon DEF WritersInv
<1>5. CASE WriteWaits
  <2>1. PICK wu : wu = [wus[unit] EXCEPT !.remaining = @ - 1]
    OBVIOUS
  <2>2. DOMAIN wu = DOMAIN IdleWu
    BY <1>1, <2>1
  <2>3. wus' = [wus EXCEPT ![unit] = wu]
    BY <1>5, <2>1 DEF WriteWaits
  <2> QED BY <1>3, <2>2, <2>3
<1>6. CASE WriteMemoryBack
  BY <1>3, <1>6 DEF WriteMemoryBack
<1>7. CASE WriteStarts
  <2>1. PICK wu : wu = [busy |-> TRUE, remaining |-> MemoryCycles, result |-> Written]
    OBVIOUS
  <2>2. DOMAIN wu = DOMAIN IdleWu
    BY <2>1 DEF IdleWu
  <2>3. wus' = [wus EXCEPT ![unit] = wu]
    BY <1>7, <2>1, Zenon DEF WriteStarts
  <2> QED BY <1>3, <2>2, <2>3
<1>8. CASE WriteNothing \/ WriteDrops(before) \/ WriteRegisterBack \/ WriteNoChange
  BY <1>4, <1>8 DEF WriteNothing, WriteDrops, WriteRegisterBack, WriteNoChange
<1> QED BY <1>5, <1>6, <1>7, <1>8, Zenon DEF WriteCycle

\* What a change of the unit does to the needs of what is not written.
LEMMA WriterNeeds ==
  ASSUME WritersInv, unit \in Unit, NEW kind, NEW r, NEW bus, IsBus(bus), NEW wu
  PROVE  Unwritten(app, kind, r, bus, [wus EXCEPT ![unit] = wu])
           + WuNeeds(app, kind, r, Wu)
         = Unwritten(app, kind, r, bus, wus) + WuNeeds(app, kind, r, wu)
<1> DEFINE W(x) == WuNeeds(app, kind, r, x)
<1>1. PICK after : after = [wus EXCEPT ![unit] = wu]
  OBVIOUS
<1>2. PICK n \in Nat : n = BusNeeds(app, kind, r, bus)
  BY BusNeedsIsNat, Zenon
<1>3. \A x : W(x) \in Nat
  <2>1. \A pc : Needs(app, kind, pc, r) \in Nat
    BY NeedsIsNat
  <2> QED BY <2>1 DEF WuNeeds
<1> HIDE DEF W
<1>4. \/ unit = 1 /\ after[1] = wu /\ after[2] = wus[2]
      \/ unit = 2 /\ after[2] = wu /\ after[1] = wus[1]
  BY <1>1, OneUnitChanges DEF WritersInv
<1>5. (n + (W(after[1]) + W(after[2]))) + W(wus[unit]) = (n + (W(wus[1]) + W(wus[2]))) + W(wu)
  <2>1. CASE unit = 1
    <3>1. W(after[1]) = W(wu) /\ W(after[2]) = W(wus[2]) /\ W(wus[unit]) = W(wus[1])
      BY <1>4, <2>1
    <3>2. W(wu) \in Nat /\ W(wus[1]) \in Nat /\ W(wus[2]) \in Nat
      BY <1>3
    <3> QED BY <3>1, <3>2
  <2>2. CASE unit = 2
    <3>1. W(after[2]) = W(wu) /\ W(after[1]) = W(wus[1]) /\ W(wus[unit]) = W(wus[2])
      BY <1>4, <2>2
    <3>2. W(wu) \in Nat /\ W(wus[1]) \in Nat /\ W(wus[2]) \in Nat
      BY <1>3
    <3> QED BY <3>1, <3>2
  <2> QED BY <2>1, <2>2 DEF Unit
<1> QED BY <1>1, <1>2, <1>5, Zenon DEF Unwritten, Wu, W

\* What is taken from the bus.
LEMMA WrittenNeeds ==
  ASSUME WritersInv, Takable, NEW kind, NEW r, NEW units
  PROVE  /\ Unwritten(app, kind, r, writeBus, units)
              = Unwritten(app, kind, r, Bus!AfterGet(writeBus), units)
                + Needs(app, kind, Written.pc, r)
         /\ IsBus(Bus!AfterGet(writeBus))
<1>1. IsBus(writeBus) /\ Bus!CanGet(writeBus)
  BY DEF WritersInv, Takable
<1>2. IsBus(Bus!AfterGet(writeBus))
  BY <1>1, GetFromBus, Zenon
<1>3. PICK before, after, need, inUnits :
        /\ before = BusNeeds(app, kind, r, writeBus)
        /\ after = BusNeeds(app, kind, r, Bus!AfterGet(writeBus))
        /\ need = Needs(app, kind, Written.pc, r)
        /\ inUnits = WuNeeds(app, kind, r, units[1]) + WuNeeds(app, kind, r, units[2])
  OBVIOUS
<1>4. before = need + after
  BY <1>1, <1>3, BusNeedsGet, Zenon DEF Written
<1>5. after \in Nat /\ need \in Nat
  BY <1>2, <1>3, BusNeedsIsNat, NeedsIsNat, Zenon
<1>6. inUnits \in Nat
  <2>1. \A pc : Needs(app, kind, pc, r) \in Nat
    BY NeedsIsNat
  <2>2. \A x : WuNeeds(app, kind, r, x) \in Nat
    BY <2>1 DEF WuNeeds
  <2>3. WuNeeds(app, kind, r, units[1]) \in Nat /\ WuNeeds(app, kind, r, units[2]) \in Nat
    BY <2>2
  <2> QED BY <1>3, <2>3
<1>7. before + inUnits = after + inUnits + need
  BY <1>4, <1>5, <1>6
<1> QED BY <1>2, <1>3, <1>7, Zenon DEF Unwritten

\* The steps of the write units (wu.go): what is written back, or has nothing to
\* write, leaves the scoreboard; a store moves to the unit; what is dropped in a
\* drain stays counted.
LEMMA WriteCycleMoves ==
  ASSUME ShapeInv, WritersInv, NEW last, WriteCycle(last), UNCHANGED <<app, executeBus, eus>>
  PROVE  Follow \/ (last # -1 /\ \E pc : Leaves(pc))
<1>1. unit \in Unit /\ IsBus(writeBus) /\ IsBus(executeBus)
  BY DEF ShapeInv, WritersInv
<1>2. ASSUME \A kind, r : Unwritten(app, kind, r, writeBus', wus')
                            = Unwritten(app, kind, r, writeBus, wus),
             UNCHANGED <<pendingReads, pendingWrites>>
      PROVE  Follow
  <2>1. NobodyLeaves
    BY <1>2, TwoHalves, Zenon DEF NobodyLeaves
  <2> QED BY <1>2, <2>1, Zenon DEF Follow
<1>3. ASSUME NEW pc,
             \A kind, r : Unwritten(app, kind, r, writeBus, wus)
                            = Unwritten(app, kind, r, writeBus', wus')
                              + Needs(app, kind, pc, r)
      PROVE  Leaves(pc)
  <2>1. IsBus(writeBus')
    BY <1>1, WriteCycleKeepsShape, Zenon DEF WritersInv
  <2>2. ASSUME NEW kind, NEW r
        PROVE  /\ InFlight(kind, r)' \in Nat
               /\ InFlight(kind, r) = InFlight(kind, r)' + Needs(app, kind, pc, r)
    <3>1. PICK unexecuted, before, after, need :
            /\ unexecuted = Unexecuted(app, kind, r, executeBus, eus)
            /\ before = Unwritten(app, kind, r, writeBus, wus)
            /\ after = Unwritten(app, kind, r, writeBus', wus')
            /\ need = Needs(app, kind, pc, r)
      OBVIOUS
    <3>2. unexecuted \in Nat /\ after \in Nat /\ need \in Nat
      BY <1>1, <2>1, <3>1, HalvesAreNat, NeedsIsNat, Zenon
    <3>3. before = after + need
      BY <1>3, <3>1, Zenon
    <3>4. InFlight(kind, r) = unexecuted + before /\ InFlight(kind, r)' = unexecuted + after
      BY <3>1, TwoHalves, Zenon
    <3>5. unexecuted + after \in Nat /\ unexecuted + before = unexecuted + after + need
      BY <3>2, <3>3
    <3> QED BY <3>1, <3>4, <3>5, Zenon
  <2> QED BY <2>2, Zenon DEF Leaves
<1>4. CASE WriteNothing
  BY <1>2, <1>4 DEF WriteNothing, contextVars
<1>5. CASE WriteWaits
  <2>1. PICK wu : wu = [wus[unit] EXCEPT !.remaining = @ - 1]
    OBVIOUS
  <2>2. /\ wus' = [wus EXCEPT ![unit] = wu]
        /\ UNCHANGED <<writeBus, pendingReads, pendingWrites>>
    BY <1>5, <2>1 DEF WriteWaits, contextVars
  <2>3. wu.busy = Wu.busy /\ wu.result = Wu.result
    BY <1>1, <2>1 DEF WritersInv, IdleWu, Wu
  <2>4. ASSUME NEW kind, NEW r
        PROVE  Unwritten(app, kind, r, writeBus', wus') = Unwritten(app, kind, r, writeBus, wus)
    <3>1. PICK before, after, inUnit :
            /\ before = Unwritten(app, kind, r, writeBus, wus)
            /\ after = Unwritten(app, kind, r, writeBus, [wus EXCEPT ![unit] = wu])
            /\ inUnit = WuNeeds(app, kind, r, Wu)
      OBVIOUS
    <3>2. WuNeeds(app, kind, r, wu) = inUnit
      BY <2>3, <3>1, Zenon DEF WuNeeds
    <3>3. after + inUnit = before + inUnit
      <4>1. Unwritten(app, kind, r, writeBus, [wus EXCEPT ![unit] = wu])
              + WuNeeds(app, kind, r, Wu)
            = Unwritten(app, kind, r, writeBus, wus) + WuNeeds(app, kind, r, wu)
        BY <1>1, WriterNeeds
      <4> QED BY <3>1, <3>2, <4>1
    <3>4. after \in Nat /\ before \in Nat
      BY <1>1, <3>1, HalvesAreNat, Zenon
    <3>5. inUnit \in Nat
      BY <3>1, InFlightIsNat, Zenon
    <3>6. after = before
      BY <3>3, <3>4, <3>5
    <3> QED BY <2>2, <3>1, <3>6, Zenon
  <2> QED BY <1>2, <2>2, <2>4, Zenon
<1>6. CASE WriteMemoryBack
  <2>1. /\ Wu.busy /\ DeletePendingRegisters(Wu.result.pc) /\ UNCHANGED writeBus
        /\ wus' = [wus EXCEPT ![unit] = IdleWu]
    BY <1>6 DEF WriteMemoryBack
  <2>2. ASSUME NEW kind, NEW r
        PROVE  Unwritten(app, kind, r, writeBus, wus)
                 = Unwritten(app, kind, r, writeBus', wus') + Needs(app, kind, Wu.result.pc, r)
    <3>1. PICK before, after, need :
            /\ before = Unwritten(app, kind, r, writeBus, wus)
            /\ after = Unwritten(app, kind, r, writeBus, [wus EXCEPT ![unit] = IdleWu])
            /\ need = Needs(app, kind, Wu.result.pc, r)
      OBVIOUS
    <3>2. WuNeeds(app, kind, r, Wu) = need
      BY <2>1, <3>1, Zenon DEF WuNeeds
    <3>3. WuNeeds(app, kind, r, IdleWu) = 0
      BY DEF WuNeeds, IdleWu
    <3>4. after + need = before + 0
      <4>1. Unwritten(app, kind, r, writeBus, [wus EXCEPT ![unit] = IdleWu])
              + WuNeeds(app, kind, r, Wu)
            = Unwritten(app, kind, r, writeBus, wus) + WuNeeds(app, kind, r, IdleWu)
        BY <1>1, WriterNeeds
      <4> QED BY <3>1, <3>2, <3>3, <4>1
    <3>5. before \in Nat
      BY <1>1, <3>1, HalvesAreNat, Zenon
    <3>6. before = after + need
      BY <3>4, <3>5
    <3> QED BY <2>1, <3>1, <3>6, Zenon
  <2>3. Leaves(Wu.result.pc)
    BY <1>3, <2>2, Zenon
  <2> QED BY <2>1, <2>3, Zenon DEF Follow
<1>7. CASE WriteDrops(last)
  <2>1. Takable /\ last # -1 /\ UNCHANGED wus /\ writeBus' = Bus!AfterGet(writeBus)
    BY <1>7 DEF WriteDrops, TakeWritten
  <2>2. ASSUME NEW kind, NEW r
        PROVE  Unwritten(app, kind, r, writeBus, wus)
                 = Unwritten(app, kind, r, writeBus', wus') + Needs(app, kind, Written.pc, r)
    BY <2>1, WrittenNeeds, Zenon
  <2>3. Leaves(Written.pc)
    BY <1>3, <2>2, Zenon
  <2> QED BY <2>1, <2>3, Zenon
<1>8. CASE Takable /\ TakeWritten /\ (WriteRegisterBack \/ WriteNoChange)
  <2>1. /\ DeletePendingRegisters(Written.pc) /\ UNCHANGED wus
        /\ writeBus' = Bus!AfterGet(writeBus)
    BY <1>8 DEF WriteRegisterBack, WriteNoChange, TakeWritten
  <2>2. ASSUME NEW kind, NEW r
        PROVE  Unwritten(app, kind, r, writeBus, wus)
                 = Unwritten(app, kind, r, writeBus', wus') + Needs(app, kind, Written.pc, r)
    BY <1>8, <2>1, WrittenNeeds, Zenon
  <2>3. Leaves(Written.pc)
    BY <1>3, <2>2, Zenon
  <2> QED BY <2>1, <2>3, Zenon DEF Follow
<1>9. CASE Takable /\ TakeWritten /\ WriteStarts
  <2>1. PICK wu : wu = [busy |-> TRUE, remaining |-> MemoryCycles, result |-> Written]
    OBVIOUS
  <2>2. /\ wus' = [wus EXCEPT ![unit] = wu] /\ writeBus' = Bus!AfterGet(writeBus)
        /\ UNCHANGED <<pendingReads, pendingWrites>> /\ ~Wu.busy
    BY <1>9, <2>1, Zenon DEF WriteStarts, TakeWritten, contextVars, Takable
  <2>3. wu.busy /\ wu.result = Written
    BY <2>1
  <2>4. ASSUME NEW kind, NEW r
        PROVE  Unwritten(app, kind, r, writeBus', wus') = Unwritten(app, kind, r, writeBus, wus)
    <3>1. PICK before, between, after, need :
            /\ before = Unwritten(app, kind, r, writeBus, wus)
            /\ between = Unwritten(app, kind, r, Bus!AfterGet(writeBus), wus)
            /\ after = Unwritten(app, kind, r, Bus!AfterGet(writeBus),
                                 [wus EXCEPT ![unit] = wu])
            /\ need = Needs(app, kind, Written.pc, r)
      OBVIOUS
    <3>2. before = between + need /\ IsBus(Bus!AfterGet(writeBus))
      BY <1>9, <3>1, WrittenNeeds, Zenon
    <3>3. WuNeeds(app, kind, r, Wu) = 0 /\ WuNeeds(app, kind, r, wu) = need
      BY <2>2, <2>3, <3>1, Zenon DEF WuNeeds
    <3>4. after + 0 = between + need
      <4>1. Unwritten(app, kind, r, Bus!AfterGet(writeBus), [wus EXCEPT ![unit] = wu])
              + WuNeeds(app, kind, r, Wu)
            = Unwritten(app, kind, r, Bus!AfterGet(writeBus), wus) + WuNeeds(app, kind, r, wu)
        BY <1>1, <3>2, WriterNeeds
      <4> QED BY <3>1, <3>3, <4>1
    <3>5. after \in Nat
      BY <3>1, <3>2, HalvesAreNat, Zenon
    <3>6. after = before
      BY <3>2, <3>4, <3>5
    <3> QED BY <2>2, <3>1, <3>6, Zenon
  <2> QED BY <1>2, <2>2, <2>4, Zenon
<1> QED BY <1>4, <1>5, <1>6, <1>7, <1>8, <1>9, Zenon DEF WriteCycle
-----------------------------------------------------------------------------
(* The start, a flush, and the rest of CPU.Run's loop                      *)

\* Empty buses and idle units.
LEMMA NothingInFlight ==
  ASSUME NEW program, NEW kind, NEW r
  PROVE  /\ \A units : (\A i \in Unit : units[i].stage = "start") =>
              Unexecuted(program, kind, r, Bus!NewBus, units) = 0
         /\ \A units : (\A i \in Unit : ~units[i].busy) =>
              Unwritten(program, kind, r, Bus!NewBus, units) = 0
<1>1. BusNeeds(program, kind, r, Bus!NewBus) = 0
  BY NewBusIsBus, EmptyBusNeeds, Zenon
<1>2. 1 \in Unit /\ 2 \in Unit
  BY DEF Unit
<1>3. ASSUME NEW units, \A i \in Unit : units[i].stage = "start"
      PROVE  Unexecuted(program, kind, r, Bus!NewBus, units) = 0
  <2>1. EuNeeds(program, kind, r, units[1]) = 0 /\ EuNeeds(program, kind, r, units[2]) = 0
    BY <1>2, <1>3, Zenon DEF EuNeeds
  <2> QED BY <1>1, <2>1 DEF Unexecuted
<1>4. ASSUME NEW units, \A i \in Unit : ~units[i].busy
      PROVE  Unwritten(program, kind, r, Bus!NewBus, units) = 0
  <2>1. WuNeeds(program, kind, r, units[1]) = 0 /\ WuNeeds(program, kind, r, units[2]) = 0
    BY <1>2, <1>4, Zenon DEF WuNeeds
  <2> QED BY <1>1, <2>1 DEF Unwritten
<1> QED BY <1>3, <1>4

\* Nothing is counted at the start.
LEMMA InitScore == ASSUME Init PROVE ScoreInv
<1>1. /\ pendingReads = NoRegisters /\ pendingWrites = NoRegisters
      /\ executeBus = Bus!NewBus /\ writeBus = Bus!NewBus
      /\ eus = [i \in Unit |-> IdleEu] /\ wus = [i \in Unit |-> IdleWu]
      /\ phase = "fetch"
  BY DEF Init
<1>2. /\ \A i \in Unit : eus[i].stage = "start"
      /\ \A i \in Unit : ~wus[i].busy
      /\ wus = [i \in Unit |-> wus[i]] /\ \A i \in Unit : wus[i] = IdleWu
  BY <1>1 DEF IdleEu, IdleWu
<1>3. WritersInv
  BY <1>1, <1>2, NewBusIsBus DEF WritersInv
<1>4. ASSUME NEW kind, NEW r PROVE InFlight(kind, r) = 0
  <2>1. /\ Unexecuted(app, kind, r, executeBus, eus) = 0
        /\ Unwritten(app, kind, r, writeBus, wus) = 0
    <3>1. executeBus = Bus!NewBus /\ writeBus = Bus!NewBus
      BY <1>1
    <3> QED BY <1>2, <3>1, NothingInFlight, Zenon
  <2>2. InFlight(kind, r) = 0 + 0
    BY <2>1, TwoHalves, Zenon
  <2> QED BY <2>2
<1>5. CountInv
  <2>1. \A r \in Register \ {Zero} : pendingReads[r] = 0 /\ pendingWrites[r] = 0
    BY <1>1 DEF NoRegisters
  <2> QED BY <1>4, <2>1, Zenon DEF CountInv
<1> QED BY <1>1, <1>3, <1>5 DEF ScoreInv, DrainInv

\* A flush (cpu.go) finds both write units idle, drops the rest and forgets the
\* counts.
LEMMA FlushKeepsScore == ASSUME FrontInv, ScoreInv, FlushPipeline PROVE ScoreInv'
<1>1. /\ status = "running" /\ phase = "drain" /\ unit = 2 /\ ~wus[2].busy
      /\ pendingReads' = NoRegisters /\ pendingWrites' = NoRegisters
      /\ executeBus' = Bus!NewBus /\ writeBus' = Bus!NewBus
      /\ eus' = [i \in Unit |-> IdleEu] /\ wus' = wus /\ phase' = "fetch"
  BY DEF FlushPipeline, FlushedUnits, GoTo, At, UnitDrained, Wu
<1>2. WritersInv /\ ~wus[1].busy
  BY <1>1 DEF ScoreInv, DrainInv
<1>3. /\ \A i \in Unit : eus'[i].stage = "start"
      /\ \A i \in Unit : ~wus'[i].busy
  BY <1>1, <1>2 DEF IdleEu, Unit
<1>4. WritersInv'
  <2>1. IsBus(writeBus')
    BY <1>1, NewBusIsBus, Zenon
  <2> QED BY <1>1, <1>2, <2>1, Zenon DEF WritersInv
<1>5. ASSUME NEW kind, NEW r PROVE InFlight(kind, r)' = 0
  <2>1. /\ Unexecuted(app', kind, r, executeBus', eus') = 0
        /\ Unwritten(app', kind, r, writeBus', wus') = 0
    BY <1>1, <1>3, NothingInFlight, Zenon
  <2>2. InFlight(kind, r)' = 0 + 0
    BY <2>1, TwoHalves, Zenon
  <2> QED BY <2>2
<1>6. CountInv'
  <2>1. \A r \in Register \ {Zero} : pendingReads'[r] = 0 /\ pendingWrites'[r] = 0
    BY <1>1 DEF NoRegisters
  <2> QED BY <1>5, <2>1, Zenon DEF CountInv
<1> QED BY <1>1, <1>4, <1>6 DEF ScoreInv, DrainInv

\* What is in flight stays, but for a Connect of the write bus.
LEMMA SameScore ==
  ASSUME FrontInv, ScoreInv, status = "running",
         UNCHANGED <<app, pendingReads, pendingWrites, executeBus, eus, wus>>,
         writeBus' = writeBus \/ writeBus' = Connected(writeBus),
         phase = "drain" => phase' = "drain",
         phase' = "drain" => unit' = 1 \/ ~wus[1].busy
  PROVE  ScoreInv'
<1>1. WritersInv /\ IsBus(writeBus) /\ (phase # "drain" => CountInv)
  BY DEF ScoreInv, WritersInv
<1>2. IsBus(writeBus')
  BY <1>1, PutAndConnect, Zenon
<1>3. WritersInv'
  BY <1>1, <1>2, Zenon DEF WritersInv
<1>4. NobodyLeaves
  <2>1. ShapeInv
    BY DEF FrontInv
  <2> QED BY <1>1, <2>1, ConnectMoves
<1>5. CountInv => CountInv'
  BY <1>4, KeptInBoth, Zenon DEF NobodyLeaves
<1>6. DrainInv'
  <2>1. phase' = "drain" /\ unit' = 2 => ~wus'[1].busy
    OBVIOUS
  <2> QED BY <2>1 DEF DrainInv
<1> QED BY <1>1, <1>3, <1>5, <1>6 DEF ScoreInv

\* The write units and the loops that empty their bus.
LEMMA OthersKeepScore ==
  ASSUME FrontInv, ScoreInv,
         \/ WriteBack \/ WritePanics \/ EndOfCycle \/ ReturnWrites \/ ReturnConnects
         \/ ReturnEnds \/ DrainWrites \/ DrainNext \/ Ended
  PROVE  ScoreInv'
<1>1. CASE WritePanics \/ ReturnEnds
  <2>1. status' # "running"
    BY <1>1 DEF WritePanics, Finish, ReturnEnds
  <2> QED BY <2>1 DEF ScoreInv
<1>2. CASE Ended
  <2>1. status' # "running"
    BY <1>2 DEF Ended, vars, placeVars
  <2> QED BY <2>1 DEF ScoreInv
<1>3. ASSUME UNCHANGED OutsideWriteUnits PROVE UNCHANGED <<app, executeBus, eus>>
  BY <1>3 DEF OutsideWriteUnits, executeVars
<1>4. ASSUME status = "running" PROVE ShapeInv /\ WritersInv /\ unit \in Unit
  BY <1>4 DEF FrontInv, ScoreInv, ShapeInv
<1>5. ASSUME status = "running", phase # "drain", phase' # "drain", WriteCycle(-1),
             UNCHANGED OutsideWriteUnits
      PROVE  ScoreInv'
  <2>1. CountInv
    BY <1>5 DEF ScoreInv
  <2>2. CountInv'
    BY <1>3, <1>4, <1>5, <2>1, WriteCycleMoves, CountsFollow
  <2>3. WritersInv'
    BY <1>4, <1>5, WriteCycleKeepsShape, Zenon
  <2> QED BY <1>5, <2>2, <2>3 DEF ScoreInv, DrainInv
<1>6. CASE WriteBack
  BY <1>5, <1>6 DEF WriteBack, At, NextUnit
<1>7. CASE ReturnWrites
  BY <1>5, <1>7 DEF ReturnWrites, At, NextUnit
<1>8. CASE EndOfCycle
  <2>1. \/ status' = "done"
        \/ /\ status = "running" /\ phase = "end" /\ UNCHANGED OutsideWriteUnits
           /\ UNCHANGED <<pendingReads, pendingWrites, wus>> /\ unit' = 1
           /\ writeBus' = writeBus \/ writeBus' = Connected(writeBus)
    BY <1>8 DEF EndOfCycle, Finish, At, GoTo, contextVars
  <2>2. CASE status' = "done"
    BY <2>2 DEF ScoreInv
  <2> QED BY <1>3, <2>1, <2>2, SameScore
<1>9. CASE ReturnConnects
  <2>1. /\ status = "running" /\ phase = "connect" /\ UNCHANGED OutsideWriteUnits
        /\ UNCHANGED <<pendingReads, pendingWrites, wus>> /\ unit' = 1
        /\ writeBus' = Connected(writeBus)
    BY <1>9 DEF ReturnConnects, At, GoTo, contextVars
  <2> QED BY <1>3, <2>1, SameScore
<1>10. CASE DrainWrites
  <2>1. /\ status = "running" /\ phase = "drain" /\ phase' = "drain" /\ unit' = unit
        /\ WriteCycle(signal.from)
    BY <1>10 DEF DrainWrites, At, placeVars
  <2>2. WritersInv' /\ \A i \in Unit \ {unit} : wus'[i] = wus[i]
    BY <1>4, <2>1, WriteCycleKeepsShape, Zenon
  <2>3. DrainInv'
    <3>1. unit = 2 => wus'[1] = wus[1] /\ ~wus[1].busy
      BY <2>1, <2>2 DEF Unit, ScoreInv, DrainInv
    <3> QED BY <2>1, <3>1 DEF DrainInv
  <2> QED BY <2>1, <2>2, <2>3 DEF ScoreInv
<1>11. CASE DrainNext
  <2>1. /\ status = "running" /\ phase = "drain" /\ phase' = "drain" /\ ~wus[1].busy
        /\ UNCHANGED OutsideWriteUnits
        /\ UNCHANGED <<pendingReads, pendingWrites, wus, writeBus>>
    BY <1>11 DEF DrainNext, At, UnitDrained, Wu, contextVars
  <2> QED BY <1>3, <2>1, SameScore
<1> QED BY <1>1, <1>2, <1>6, <1>7, <1>8, <1>9, <1>10, <1>11, Zenon

\* Every step keeps the invariant.
LEMMA NextKeepsScore == ASSUME FrontInv, ScoreInv, [Next]_vars PROVE ScoreInv'
<1>1. CASE Fetch \/ Decode
  BY <1>1, FetchAndDecodeKeepScore
<1>2. CASE Control
  BY <1>2, ControlKeepsScore
<1>3. CASE Execute
  BY <1>3, ExecuteKeepsScore
<1>4. CASE FlushPipeline
  BY <1>4, FlushKeepsScore
<1>5. CASE \/ WriteBack \/ WritePanics \/ EndOfCycle \/ ReturnWrites \/ ReturnConnects
           \/ ReturnEnds \/ DrainWrites \/ DrainNext \/ Ended
  BY <1>5, OthersKeepScore
<1>6. CASE UNCHANGED vars
  <2>1. UNCHANGED <<app, pendingReads, pendingWrites, executeBus, eus, wus, writeBus,
                    phase, unit, status>>
    BY <1>6 DEF vars, contextVars, executeVars, placeVars
  <2>2. CASE status # "running"
    BY <2>1, <2>2 DEF ScoreInv
  <2>3. CASE status = "running"
    <3>1. phase' = "drain" => unit' = 1 \/ ~wus[1].busy
      BY <2>1, <2>3 DEF ScoreInv, DrainInv, FrontInv, ShapeInv, Unit
    <3> QED BY <2>1, <2>3, <3>1, SameScore
  <2> QED BY <2>2, <2>3
<1> QED BY <1>1, <1>2, <1>3, <1>4, <1>5, <1>6 DEF Next

\* The scoreboard of both versions counts what is in flight, and exactly that: the
\* reads and writes of every instruction that has been issued (cu.go:
\* AddPendingRegisters) and has not taken effect (wu.go and eu.go:
\* DeletePendingRegisters), however the two execute and the two write units finish.
THEOREM ScoreboardIsExact6 == Spec => []ScoreboardExact6
<1>1. Init => FrontInv /\ ScoreInv
  BY InitFront, InitScore
<1>2. FrontInv /\ ScoreInv /\ [Next]_vars => (FrontInv /\ ScoreInv)'
  BY NextKeepsFront, NextKeepsScore
<1>3. FrontInv /\ ScoreInv => ScoreboardExact6
  <2>1. SUFFICES ASSUME FrontInv, ScoreInv, status = "running", phase # "drain",
                        NEW r \in Register \ {Zero}
                 PROVE  /\ pendingReads[r] = Counted(ReadsOf, r)
                        /\ pendingWrites[r] = Counted(WritesOf, r)
    BY DEF ScoreboardExact6
  <2>2. IsBus(executeBus) /\ IsBus(writeBus) /\ CountInv
    BY <2>1 DEF FrontInv, ScoreInv, ShapeInv, WritersInv
  <2>3. /\ Counted(ReadsOf, r) = InFlight("read", r)
        /\ Counted(WritesOf, r) = InFlight("write", r)
    BY <2>2, CountsAreNeeds, Zenon
  <2> QED BY <2>1, <2>2, <2>3, Zenon DEF CountInv
<1> QED BY <1>1, <1>2, <1>3, PTL DEF Spec

-----------------------------------------------------------------------------
(* Sums and their parts                                                    *)

\* The pairs of one number.
LEMMA RowOfTotal ==
  ASSUME NEW i, NEW n \in Nat
  PROVE  IsFiniteSet({i} \X (1..n)) /\ Cardinality({i} \X (1..n)) = n
<1>1. PICK one, upTo : one = {i} /\ upTo = 1..n
  OBVIOUS
<1>2. /\ IsFiniteSet(one) /\ Cardinality(one) = 1
      /\ IsFiniteSet(upTo) /\ Cardinality(upTo) = n
  <2>1. IsFiniteSet(1..n) /\ Cardinality(1..n) = IF 1 > n THEN 0 ELSE n - 1 + 1
    BY FS_Interval
  <2>2. IsFiniteSet(one) /\ Cardinality(one) = 1
    BY <1>1, FS_Singleton, Zenon
  <2> QED BY <1>1, <2>1, <2>2
<1>3. /\ IsFiniteSet(one \X upTo)
      /\ Cardinality(one \X upTo) = Cardinality(one) * Cardinality(upTo)
  BY <1>2, FS_Product, Zenon
<1> QED BY <1>1, <1>2, <1>3

\* A number of a list is at most the sum, and so are two.
LEMMA PartsOfTotal ==
  ASSUME NEW a \in Seq(Nat), NEW i \in 1..Len(a)
  PROVE  a[i] <= Total(a) /\ \A j \in 1..Len(a) \ {i} : a[i] + a[j] <= Total(a)
<1>1. DOMAIN a = 1..Len(a) /\ \A j \in 1..Len(a) : a[j] \in Nat
  OBVIOUS
<1>2. PICK Row : Row = [j \in 1..Len(a) |-> {j} \X (1..a[j])]
  OBVIOUS
<1>3. \A j \in 1..Len(a) : IsFiniteSet(Row[j]) /\ Cardinality(Row[j]) = a[j]
  <2> TAKE j \in 1..Len(a)
  <2>1. PICK n \in Nat : n = a[j]
    BY <1>1
  <2> QED BY <1>2, <2>1, RowOfTotal
<1>4. \A j \in 1..Len(a) : Row[j] \in SUBSET Below(a)
  <2>1. SUFFICES ASSUME NEW j \in 1..Len(a), NEW x \in Row[j] PROVE x \in Below(a)
    OBVIOUS
  <2>2. x \in {j} \X (1..a[j]) /\ j \in DOMAIN a
    BY <1>1, <1>2, <2>1
  <2> QED BY <2>2 DEF Below
<1>5. /\ IsFiniteSet(Below(a)) /\ Total(a) = Cardinality(Below(a)) /\ Total(a) \in Nat
  BY BelowIsFinite
<1>6. a[i] <= Total(a)
  <2>1. Cardinality(Row[i]) <= Cardinality(Below(a))
    BY <1>4, <1>5, FS_Subset, Zenon
  <2> QED BY <1>3, <1>5, <2>1, Zenon
<1>7. ASSUME NEW j \in 1..Len(a) \ {i} PROVE a[i] + a[j] <= Total(a)
  <2>1. Row[i] \cap Row[j] = {}
    BY <1>2
  <2>2. Cardinality(Row[i] \cup Row[j])
          = Cardinality(Row[i]) + Cardinality(Row[j]) - Cardinality(Row[i] \cap Row[j])
    BY <1>3, FS_Union, Zenon
  <2>3. Cardinality(Row[i] \cup Row[j]) = a[i] + a[j]
    <3>1. PICK m \in Nat, n \in Nat : m = a[i] /\ n = a[j]
      BY <1>1
    <3>2. Cardinality(Row[i] \cup Row[j]) = m + n - 0
      BY <1>3, <2>1, <2>2, <3>1, FS_EmptySet, Zenon
    <3>3. m + n - 0 = m + n
      OBVIOUS
    <3> QED BY <3>1, <3>2, <3>3, Zenon
  <2>4. Row[i] \cup Row[j] \in SUBSET Below(a)
    BY <1>4
  <2>5. Cardinality(Row[i] \cup Row[j]) <= Cardinality(Below(a))
    BY <1>5, <2>4, FS_Subset, Zenon
  <2> QED BY <1>5, <2>3, <2>5, Zenon
<1> QED BY <1>6, <1>7

\* The needs of one of a list of pcs are at most those of all.
LEMMA PartOfNeeds ==
  ASSUME NEW program, NEW kind, NEW r, NEW pcs, IsList(pcs), NEW i \in 1..Len(pcs)
  PROVE  Needs(program, kind, pcs[i], r) <= NeedsOf(program, kind, r, pcs)
<1>1. PICK S : pcs \in Seq(S)
  BY DEF IsList
<1>2. PICK a : a = [j \in DOMAIN pcs |-> Needs(program, kind, pcs[j], r)]
  OBVIOUS
<1>3. DOMAIN pcs = 1..Len(pcs) /\ Len(pcs) \in Nat
  BY <1>1
<1>4. \A j \in 1..Len(pcs) : a[j] = Needs(program, kind, pcs[j], r) /\ a[j] \in Nat
  BY <1>2, <1>3, NeedsIsNat
<1>5. a \in Seq(Nat) /\ Len(a) = Len(pcs)
  <2>1. a \in [1..Len(pcs) -> Nat]
    BY <1>2, <1>3, <1>4
  <2> QED BY <1>3, <2>1
<1>6. a[i] <= Total(a)
  BY <1>5, PartsOfTotal
<1> QED BY <1>2, <1>4, <1>6, Zenon DEF NeedsOf

\* The needs of a runner that has not been executed are in flight.
LEMMA UnexecutedNeeds ==
  ASSUME ShapeInv, WritersInv, NEW runner \in Unexecuteds, NEW kind, NEW r
  PROVE  Needs(app, kind, runner.pc, r) <= InFlight(kind, r)
<1>1. PICK need, bus, eu1, eu2, write, wu1, wu2 :
        /\ need = Needs(app, kind, runner.pc, r)
        /\ bus = BusNeeds(app, kind, r, executeBus)
        /\ eu1 = EuNeeds(app, kind, r, eus[1]) /\ eu2 = EuNeeds(app, kind, r, eus[2])
        /\ write = BusNeeds(app, kind, r, writeBus)
        /\ wu1 = WuNeeds(app, kind, r, wus[1]) /\ wu2 = WuNeeds(app, kind, r, wus[2])
  OBVIOUS
<1>2. /\ need \in Nat /\ bus \in Nat /\ eu1 \in Nat /\ eu2 \in Nat
      /\ write \in Nat /\ wu1 \in Nat /\ wu2 \in Nat
  BY <1>1, InFlightIsNat, NeedsIsNat, Zenon
<1>3. InFlight(kind, r) = bus + (eu1 + eu2) + (write + (wu1 + wu2))
  BY <1>1, Zenon DEF InFlight
<1>4. CASE runner \in BusRunners(executeBus)
  <2>1. PICK list : list = Bus!Elements(executeBus)
    OBVIOUS
  <2>2. IsList(list)
    BY <2>1, PutAndConnect, Zenon DEF ShapeInv
  <2>3. PICK i \in 1..Len(list) : runner = list[i]
    <3>1. DOMAIN list = 1..Len(list)
      BY <2>2 DEF IsList
    <3> QED BY <1>4, <2>1, <3>1 DEF BusRunners, Members
  <2>4. PICK pcs : pcs = Pcs(list)
    OBVIOUS
  <2>5. IsList(pcs) /\ i \in 1..Len(pcs) /\ pcs[i] = runner.pc
    BY <2>2, <2>3, <2>4, PcsAreList, Zenon
  <2>6. need <= bus
    BY <1>1, <2>1, <2>4, <2>5, PartOfNeeds, Zenon DEF BusNeeds
  <2>7. need <= bus + (eu1 + eu2) + (write + (wu1 + wu2))
    BY <1>2, <2>6
  <2> QED BY <1>1, <1>3, <2>7, Zenon
<1>5. CASE runner \in EuRunners(eus[1])
  <2>1. need = eu1
    BY <1>1, <1>5 DEF EuRunners, EuNeeds
  <2> QED BY <1>1, <1>2, <1>3, <2>1
<1>6. CASE runner \in EuRunners(eus[2])
  <2>1. need = eu2
    BY <1>1, <1>6 DEF EuRunners, EuNeeds
  <2> QED BY <1>1, <1>2, <1>3, <2>1
<1> QED BY <1>4, <1>5, <1>6 DEF Unexecuteds

-----------------------------------------------------------------------------
(* Room on the execute bus, and a fresh channel                            *)

\* The control unit asks for room before it pushes a runner, and has one left over at
\* most.
RoomInv == status = "running" => Len(executeBus.buffer) <= BusSize /\ Len(pendings) <= 1

\* The buffer of a bus: Add makes it longer, nothing else does.
LEMMA BufferLengths ==
  ASSUME NEW bus, IsBus(bus), NEW t
  PROVE  /\ Len(bus.buffer) \in Nat /\ Len(Put(bus, t).buffer) = Len(bus.buffer) + 1
         /\ Len(Connected(bus).buffer) <= Len(bus.buffer)
         /\ Bus!AfterGet(bus).buffer = bus.buffer
<1>1. PICK S : bus \in Facts!BusOf(S)
  BY DEF IsBus
<1>2. /\ bus.buffer \in Seq(Facts!EntryOf(S))
      /\ bus = [buffer |-> bus.buffer, queue |-> bus.queue]
  BY <1>1 DEF Facts!BusOf
<1>3. Len(Connected(bus).buffer) <= Len(bus.buffer)
  <2>1. ASSUME NEW cycle \in Nat
        PROVE  Len(Facts!Connect(bus, cycle).buffer) <= Len(bus.buffer)
    BY <1>1, SameBus, Facts!ConnectKeepsElements, Zenon
  <2>2. 1 \in Nat
    OBVIOUS
  <2> QED BY <2>1, <2>2, SameBus, Zenon
<1>4. PICK buffer, entry : buffer = bus.buffer /\ entry = Bus!Entry(t, 0 + 1)
  OBVIOUS
<1>5. Put(bus, t).buffer = Append(buffer, entry) /\ Bus!AfterGet(bus).buffer = buffer
  BY <1>2, <1>4 DEF Put, Bus!Add, Bus!AfterGet
<1>6. Len(Append(buffer, entry)) = Len(buffer) + 1 /\ Len(buffer) \in Nat
  <2>1. PICK T : T = Facts!EntryOf(S) \cup {entry}
    OBVIOUS
  <2>2. buffer \in Seq(T) /\ entry \in T
    <3>1. Facts!EntryOf(S) \subseteq T /\ entry \in T
      BY <2>1
    <3> QED BY <1>2, <1>4, <3>1
  <2> QED BY <2>2
<1> QED BY <1>3, <1>4, <1>5, <1>6

LEMMA RepointedBuffer ==
  ASSUME IsBus(executeBus), NEW i, NEW runner
  PROVE  Len(Repointed(i, runner).buffer) = Len(executeBus.buffer)
<1>1. PICK S : executeBus \in Facts!BusOf(S)
  BY DEF IsBus
<1>2. PICK buffer, queue : buffer = executeBus.buffer /\ queue = executeBus.queue
  OBVIOUS
<1>3. buffer \in Seq(Facts!EntryOf(S)) /\ executeBus = [buffer |-> buffer, queue |-> queue]
  BY <1>1, <1>2 DEF Facts!BusOf
<1>4. \/ Repointed(i, runner).buffer = buffer
      \/ Repointed(i, runner).buffer = [buffer EXCEPT ![i - Len(queue)].t = runner]
  BY <1>2, <1>3 DEF Repointed
<1>5. ASSUME NEW k, NEW entry PROVE Len([buffer EXCEPT ![k] = entry]) = Len(buffer)
  <2>1. DOMAIN [buffer EXCEPT ![k] = entry] = DOMAIN buffer
    OBVIOUS
  <2>2. PICK n \in Nat : n = Len(buffer) /\ DOMAIN buffer = 1..n
    BY <1>3
  <2>3. PICK after : after = [buffer EXCEPT ![k] = entry]
    OBVIOUS
  <2>4. after = [j \in 1..n |-> after[j]]
    BY <2>2, <2>3
  <2>5. PICK T : T = {after[j] : j \in 1..n}
    OBVIOUS
  <2>6. after \in [1..n -> T]
    BY <2>4, <2>5
  <2>7. Len(after) = n
    BY <2>6
  <2> QED BY <2>2, <2>3, <2>7
<1> QED BY <1>2, <1>4, <1>5

\* What the execute units do to the bus.
LEMMA ExecuteTakes ==
  ASSUME Execute
  PROVE  \/ executeBus' = executeBus
         \/ Bus!CanGet(executeBus) /\ executeBus' = Bus!AfterGet(executeBus)
<1>1. ASSUME HasJob, TakeJob
      PROVE  \/ executeBus' = executeBus
             \/ Bus!CanGet(executeBus) /\ executeBus' = Bus!AfterGet(executeBus)
  BY <1>1, Zenon DEF HasJob, TakeJob
<1>2. Runs \/ Ready => HasJob
  BY DEF Runs, Ready
<1> QED BY <1>1, <1>2, Zenon DEF Execute, ExecuteGoesOn, ExecuteNothing, ExecuteWaits, ExecuteReads,
       ExecuteCounts, ExecuteFails, ExecuteReturns, ExecuteStores, ExecutePasses, Succeeds, Free

LEMMA ControlKeepsRoom ==
  ASSUME FrontInv, RoomInv, Control
  PROVE  Len(executeBus'.buffer) <= BusSize /\ Len(pendings') <= 1
<1>1. ShapeInv /\ Len(executeBus.buffer) <= BusSize /\ Len(pendings) <= 1
  BY DEF FrontInv, RoomInv, Control, At
<1>2. IsBus(executeBus) /\ IsList(pendings) /\ BusSize = 2
  BY <1>1 DEF ShapeInv, BusSize
<1>3. Len(executeBus.buffer) \in Nat
  BY <1>2, BufferLengths
<1>4. \A runner : Takes \/ Keeps(runner) => Len(pendings') <= 1
  <2>1. PICK S : pendings \in Seq(S)
    BY <1>2 DEF IsList
  <2>2. pendings # << >> => Len(Tail(pendings)) <= 1
    BY <1>1, <2>1
  <2>3. \A runner : Len(<<runner>>) <= 1
    OBVIOUS
  <2> QED BY <1>1, <2>2, <2>3, Zenon DEF Takes, Keeps
<1>5. ASSUME NEW bus, IsBus(bus), Len(bus.buffer) = Len(executeBus.buffer),
             Bus!CanAdd(executeBus), NEW runner, Pushes(bus, runner)
      PROVE  Len(executeBus'.buffer) <= BusSize /\ Len(pendings') <= 1
  <2>1. executeBus' = Put(bus, runner) /\ Takes /\ Len(executeBus.buffer) # BusSize
    BY <1>5 DEF Pushes, Bus!CanAdd
  <2>2. Len(Put(bus, runner).buffer) = Len(bus.buffer) + 1
    BY <1>5, BufferLengths
  <2>3. PICK n \in Nat : n = Len(executeBus.buffer)
    BY <1>3
  <2>4. Len(executeBus'.buffer) = n + 1
    BY <1>5, <2>1, <2>2, <2>3, Zenon
  <2>5. n <= 2 /\ n # 2
    BY <1>1, <1>2, <2>1, <2>3, Zenon
  <2>6. n + 1 <= 2
    BY <2>5
  <2>7. Len(pendings') <= 1
    BY <1>4, <2>1, Zenon
  <2> QED BY <1>2, <2>4, <2>6, <2>7, Zenon
<1>6. CASE IssueNothing
  BY <1>1, <1>6 DEF IssueNothing
<1>7. CASE Issue
  BY <1>2, <1>5, <1>7 DEF Issue
<1>8. CASE IssueForwarded
  <2>1. PICK i, writer, r :
          /\ i = CHOOSE j \in Writers : TRUE
          /\ writer = Bus!Elements(executeBus)[i]
          /\ r = CHOOSE s \in ReadRegisters(InstructionAt(Runner.pc)) : WritesOf(writer.pc, s) > 0
    OBVIOUS
  <2>2. PICK sender, receiver :
          /\ sender = [writer EXCEPT !.forwarder = FreshChannel, !.forwardRegister = r]
          /\ receiver = [Runner EXCEPT !.receiver = FreshChannel, !.forwardRegister = r]
    OBVIOUS
  <2>3. \/ Bus!CanAdd(executeBus) /\ Pushes(Repointed(i, sender), receiver)
        \/ executeBus' = Repointed(i, sender) /\ Keeps(receiver)
    BY <1>8, <2>1, <2>2, Zenon DEF IssueForwarded
  <2>4. i \in Previous /\ IsRunner(writer)
    BY <1>1, <1>8, <2>1, ForwarderIsOnBus, Zenon
  <2>7. IsRunner(sender) /\ sender.pc = writer.pc
    BY <2>2, <2>4 DEF IsRunner, NewRunner
  <2>5. IsBus(Repointed(i, sender))
    BY <1>1, <2>1, <2>4, <2>7, RepointedInOrder, Zenon
  <2>6. Len(Repointed(i, sender).buffer) = Len(executeBus.buffer)
    BY <1>2, RepointedBuffer
  <2> QED BY <1>1, <1>4, <1>5, <2>3, <2>5, <2>6
<1>9. CASE IssueBlocked
  BY <1>1, <1>4, <1>9 DEF IssueBlocked
<1> QED BY <1>6, <1>7, <1>8, <1>9 DEF Control

\* Every step keeps the room.
LEMMA NextKeepsRoom == ASSUME FrontInv, RoomInv, [Next]_vars PROVE RoomInv'
<1>1. ASSUME status = "running" PROVE IsBus(executeBus)
  BY <1>1 DEF FrontInv, ShapeInv
<1>2. ASSUME UNCHANGED <<executeBus, pendings>>, status' = "running" => status = "running"
      PROVE  RoomInv'
  BY <1>2 DEF RoomInv
<1>3. CASE Fetch
  <2>1. status = "running" /\ executeBus' = Connected(executeBus) /\ UNCHANGED pendings
    BY <1>3 DEF Fetch, At, controlVars
  <2>2. Len(executeBus'.buffer) <= Len(executeBus.buffer) /\ Len(executeBus.buffer) \in Nat
        /\ Len(executeBus'.buffer) \in Nat
    BY <1>1, <2>1, BufferLengths, PutAndConnect
  <2> QED BY <2>1, <2>2 DEF RoomInv, BusSize
<1>4. CASE Decode
  BY <1>2, <1>4 DEF Decode, At, controlVars
<1>5. CASE Control
  BY <1>5, ControlKeepsRoom DEF RoomInv
<1>6. CASE Execute
  <2>1. status = "running" /\ UNCHANGED pendings
    BY <1>6 DEF Execute, At, controlVars
  <2>2. executeBus'.buffer = executeBus.buffer
    BY <1>1, <1>6, <2>1, ExecuteTakes, BufferLengths
  <2> QED BY <2>1, <2>2 DEF RoomInv
<1>7. CASE FlushPipeline
  <2>1. executeBus' = Bus!NewBus /\ pendings' = << >>
    BY <1>7 DEF FlushPipeline, FlushedUnits
  <2> QED BY <2>1 DEF RoomInv, Bus!NewBus, BusSize
<1>8. CASE \/ WriteBack \/ WritePanics \/ EndOfCycle \/ ReturnWrites \/ ReturnConnects
           \/ ReturnEnds \/ DrainWrites \/ DrainNext
  <2>1. status = "running"
    BY <1>8 DEF WriteBack, WritePanics, EndOfCycle, ReturnWrites, ReturnConnects, ReturnEnds,
       DrainWrites, DrainNext, At
  <2>2. UNCHANGED <<executeBus, pendings>>
    BY <1>8 DEF WriteBack, WritePanics, EndOfCycle, ReturnWrites, ReturnConnects, ReturnEnds,
       DrainWrites, DrainNext, Finish, OutsideWriteUnits, controlVars
  <2> QED BY <1>2, <2>1, <2>2
<1>9. CASE Ended \/ UNCHANGED vars
  BY <1>2, <1>9 DEF Ended, vars, controlVars, placeVars
<1> QED BY <1>3, <1>4, <1>5, <1>6, <1>7, <1>8, <1>9 DEF Next

\* At most seven runners are on the execute bus, left over and in a unit, and each holds
\* at most two channels, so one of the fifteen is free.
LEMMA FreshChannelIsFresh ==
  ASSUME ShapeInv, Len(executeBus.buffer) <= BusSize, Len(pendings) <= 1
  PROVE  /\ FreshChannel \in Channel
         /\ \A runner \in Runners : FreshChannel # runner.forwarder /\ FreshChannel # runner.receiver
<1>1. PICK elements, left, one, two :
        /\ elements = Bus!Elements(executeBus) /\ left = pendings
        /\ one = eus[1].runner /\ two = eus[2].runner
  OBVIOUS
<1>2. PICK slot :
        slot = [k \in 1..7 |-> IF k <= 4 THEN elements[k] ELSE IF k = 5 THEN left[1]
                               ELSE IF k = 6 THEN one ELSE two]
  OBVIOUS
<1>3. PICK held :
        held = [k \in 1..14 |-> IF k <= 7 THEN slot[k].forwarder ELSE slot[k - 7].receiver]
  OBVIOUS
<1>4. \A runner \in Runners : \E k \in 1..7 : runner = slot[k]
  <2>1. DOMAIN elements = 1..Len(elements) /\ Len(elements) <= 4 /\ Len(elements) \in Nat
    <3>1. PICK S : executeBus \in Facts!BusOf(S)
      BY DEF ShapeInv, IsBus
    <3>2. /\ executeBus.queue \in Seq(S) /\ executeBus.buffer \in Seq(Facts!EntryOf(S))
          /\ Len(executeBus.queue) <= BusSize
          /\ Len(elements) = Len(executeBus.queue) + Len(executeBus.buffer)
      BY <1>1, <3>1, ElementsOfParts
    <3>3. IsList(elements)
      BY <1>1, PutAndConnect, Zenon DEF ShapeInv
    <3>4. DOMAIN elements = 1..Len(elements)
      BY <3>3 DEF IsList
    <3>5. PICK m \in Nat, n \in Nat : m = Len(executeBus.queue) /\ n = Len(executeBus.buffer)
      BY <3>2
    <3>6. m <= 2 /\ n <= 2
      BY <3>2, <3>5 DEF BusSize
    <3>7. m + n <= 4 /\ m + n \in Nat
      BY <3>6
    <3>8. Len(elements) = m + n
      BY <3>2, <3>5, Zenon
    <3> QED BY <3>4, <3>7, <3>8, Zenon
  <2>2. ASSUME NEW i \in DOMAIN elements PROVE \E k \in 1..7 : elements[i] = slot[k]
    <3>1. i \in 1..4
      BY <2>1, <2>2
    <3>2. i \in 1..7 /\ slot[i] = elements[i]
      BY <1>2, <3>1
    <3> QED BY <3>2
  <2>3. ASSUME NEW i \in DOMAIN left PROVE \E k \in 1..7 : left[i] = slot[k]
    <3>1. i = 1
      <4>1. PICK S : left \in Seq(S)
        BY <1>1 DEF ShapeInv, IsList
      <4> QED BY <1>1, <2>3, <4>1
    <3>2. slot[5] = left[1] /\ 5 \in 1..7
      BY <1>2
    <3> QED BY <3>1, <3>2
  <2>4. ASSUME NEW i \in Unit PROVE \E k \in 1..7 : eus[i].runner = slot[k]
    <3>1. i = 1 \/ i = 2
      BY DEF Unit
    <3>2. slot[6] = one /\ slot[7] = two /\ 6 \in 1..7 /\ 7 \in 1..7
      BY <1>2
    <3> QED BY <1>1, <3>1, <3>2
  <2>5. Runners = {elements[i] : i \in DOMAIN elements} \cup {left[i] : i \in DOMAIN left}
                   \cup {eus[i].runner : i \in {j \in Unit : eus[j].stage # "start"}}
    BY <1>1, Zenon DEF Runners
  <2> QED BY <2>2, <2>3, <2>4, <2>5
<1>5. PICK taken : taken = {held[k] : k \in 1..14}
  OBVIOUS
<1>6. \A runner \in Runners : runner.forwarder \in taken /\ runner.receiver \in taken
  <2>1. ASSUME NEW k \in 1..7 PROVE slot[k].forwarder \in taken /\ slot[k].receiver \in taken
    <3>1. k \in 1..14 /\ k + 7 \in 1..14 /\ k <= 7 /\ ~(k + 7 <= 7) /\ (k + 7) - 7 = k
      OBVIOUS
    <3>2. held[k] = slot[k].forwarder /\ held[k + 7] = slot[k].receiver
      BY <1>3, <3>1
    <3> QED BY <1>5, <3>1, <3>2
  <2> QED BY <1>4, <2>1, Zenon
<1>7. IsFiniteSet(taken) /\ Cardinality(taken) <= 14 /\ Cardinality(taken) \in Nat
  <2>1. held \in Surjection(1..14, taken)
    BY <1>3, <1>5 DEF Surjection
  <2>2. PICK n \in Nat : n = 14
    OBVIOUS
  <2>3. Cardinality(1..n) = n
    BY FS_Interval
  <2>4. IsFiniteSet(1..n)
    BY FS_Interval
  <2>5. held \in Surjection(1..n, taken)
    BY <2>1, <2>2, Zenon
  <2>6. IsFiniteSet(taken) /\ Cardinality(taken) <= Cardinality(1..n)
    BY <2>4, <2>5, FS_Surjection, Zenon
  <2> QED BY <2>2, <2>3, <2>6, FS_CardinalityType, Zenon
<1>8. \E c \in Channel : c \notin taken
  <2> SUFFICES ASSUME Channel \subseteq taken PROVE FALSE
    OBVIOUS
  <2>1. PICK n \in Nat : n = 15
    OBVIOUS
  <2>2. Cardinality(1..n) = n
    BY FS_Interval
  <2>3. Cardinality(Channel) = 15
    BY <2>1, <2>2, Zenon DEF Channel
  <2>4. Cardinality(Channel) <= Cardinality(taken)
    BY <1>7, FS_Subset, Zenon
  <2> QED BY <1>7, <2>3, <2>4
<1>9. \E c \in Channel : \A runner \in Runners : c # runner.forwarder /\ c # runner.receiver
  BY <1>6, <1>8, Zenon
<1> QED BY <1>9, Zenon DEF FreshChannel

-----------------------------------------------------------------------------
(* What is issued depends on nothing in flight                             *)

\* No two instructions in flight write a register; what a runner that waits for no
\* channel reads, only it writes itself; and MVP-6.0 has no channels.
IssueInv ==
  /\ \A r \in Register \ {Zero} : InFlight("write", r) <= 1
  /\ \A runner \in Unexecuteds, r \in Register \ {Zero} :
       runner.receiver = 0 /\ Needs(app, "read", runner.pc, r) > 0 =>
         InFlight("write", r) <= Needs(app, "write", runner.pc, r)
  /\ version = "6.0" => \A runner \in Unexecuteds \cup Members(pendings) : runner.receiver = 0
HazardInv == status = "running" => IssueInv

\* The runner was there before, but for what it forwards.
WasThere(x) == \E y \in Unexecuteds : x.pc = y.pc /\ x.receiver = y.receiver
LeftoversPlain == version = "6.0" => \A x \in Members(pendings) : x.receiver = 0

\* When nobody is issued it stays so.
LEMMA IssueKept ==
  ASSUME IssueInv, UNCHANGED <<app, version>>,
         \A kind, r : /\ InFlight(kind, r) \in Nat /\ InFlight(kind, r)' \in Nat
                      /\ InFlight(kind, r)' <= InFlight(kind, r),
         \A x \in Unexecuteds' : WasThere(x), LeftoversPlain'
  PROVE  IssueInv'
<1>1. \A r \in Register \ {Zero} : InFlight("write", r)' <= 1
  <2> TAKE r \in Register \ {Zero}
  <2>1. PICK m \in Nat, n \in Nat : m = InFlight("write", r) /\ n = InFlight("write", r)'
    OBVIOUS
  <2>2. m <= 1 /\ n <= m
    BY <2>1, Zenon DEF IssueInv
  <2>3. n <= 1
    BY <2>2
  <2> QED BY <2>1, <2>3, Zenon
<1>2. ASSUME NEW runner \in Unexecuteds', NEW r \in Register \ {Zero},
             runner.receiver = 0, Needs(app, "read", runner.pc, r) > 0
      PROVE  InFlight("write", r)' <= Needs(app, "write", runner.pc, r)
  <2>1. PICK m \in Nat, n \in Nat, need \in Nat :
          /\ m = InFlight("write", r) /\ n = InFlight("write", r)'
          /\ need = Needs(app, "write", runner.pc, r)
    BY NeedsIsNat
  <2>2. m <= need /\ n <= m
    BY <1>2, <2>1, Zenon DEF IssueInv, WasThere
  <2>3. n <= need
    BY <2>2
  <2> QED BY <2>1, <2>3, Zenon
<1>3. ASSUME version = "6.0", NEW runner \in Unexecuteds' \cup Members(pendings')
      PROVE  runner.receiver = 0
  BY <1>3, Zenon DEF IssueInv, WasThere, LeftoversPlain
<1> QED BY <1>1, <1>2, <1>3, Zenon DEF IssueInv

\* What an instruction reads has no write pending unless there is a hazard.
LEMMA NoRawHazard ==
  ASSUME NEW pc, RawHazards(pc) = {}, NEW r \in Register \ {Zero}, ReadsOf(pc, r) > 0
  PROVE  ~(pendingWrites[r] > 0)
<1>1. PICK reads : reads = ReadList(InstructionAt(pc))
  OBVIOUS
<1>2. {i \in DOMAIN reads : r # Zero /\ reads[i] = r} # {}
  <2>1. ReadsOf(pc, r) = Cardinality({i \in DOMAIN reads : r # Zero /\ reads[i] = r})
    BY <1>1, Zenon DEF ReadsOf
  <2>2. Cardinality({}) = 0 /\ ~(0 > 0)
    BY FS_EmptySet
  <2> QED BY <2>1, <2>2, Zenon
<1>3. PICK i \in DOMAIN reads : reads[i] = r /\ r # Zero
  BY <1>2
<1> QED BY <1>1, <1>3, Zenon DEF RawHazards

\* An instruction that is issued without a hazard, or waits for a forwarded value.
LEMMA IssueAdds ==
  ASSUME ShapeInv, WritersInv, CountInv, IssueInv, UNCHANGED <<app, version>>,
         NEW runner,
         \A kind, r : InFlight(kind, r)' = InFlight(kind, r) + Needs(app, kind, runner.pc, r),
         WawHazards(runner.pc) = {}, WarHazards(runner.pc) = {},
         runner.receiver = 0 => RawHazards(runner.pc) = {},
         version = "6.0" => runner.receiver = 0,
         \A x \in Unexecuteds' : x = runner \/ WasThere(x), LeftoversPlain'
  PROVE  IssueInv'
<1>1. ASSUME NEW r \in Register \ {Zero}
      PROVE  /\ InFlight("write", r) \in Nat /\ InFlight("read", r) \in Nat
             /\ pendingWrites[r] = InFlight("write", r) /\ pendingReads[r] = InFlight("read", r)
             /\ \A kind, pc : Needs(app, kind, pc, r) \in Nat
             /\ \A pc : ReadsOf(pc, r) = Needs(app, "read", pc, r)
                        /\ WritesOf(pc, r) = Needs(app, "write", pc, r)
  BY InFlightIsNat, NeedsIsNat, NeedsAre, Zenon DEF CountInv
<1>2. ASSUME NEW r \in Register \ {Zero}, Needs(app, "write", runner.pc, r) # 0
      PROVE  /\ Needs(app, "write", runner.pc, r) = 1
             /\ InFlight("write", r) = 0 /\ InFlight("read", r) = 0
  <2>1. WritesOf(runner.pc, r) # 0
    BY <1>1, <1>2, Zenon
  <2>2. WritesOf(runner.pc, r) = 1 /\ WritesOf(runner.pc, r) > 0
    BY <2>1 DEF WritesOf
  <2>3. ~(pendingWrites[r] > 0) /\ ~(pendingReads[r] > 0)
    BY <2>2, Zenon DEF WawHazards, WarHazards
  <2>4. PICK m \in Nat, n \in Nat : m = InFlight("write", r) /\ n = InFlight("read", r)
    BY <1>1
  <2>5. ~(m > 0) /\ ~(n > 0)
    BY <1>1, <2>3, <2>4, Zenon
  <2>6. m = 0 /\ n = 0
    BY <2>5
  <2> QED BY <1>1, <2>2, <2>4, <2>6, Zenon
<1>3. \A r \in Register \ {Zero} : InFlight("write", r)' <= 1
  <2> TAKE r \in Register \ {Zero}
  <2>1. PICK m \in Nat, k \in Nat :
          m = InFlight("write", r) /\ k = Needs(app, "write", runner.pc, r)
    BY <1>1
  <2>2. InFlight("write", r)' = m + k /\ m <= 1
    BY <2>1, Zenon DEF IssueInv
  <2>3. k # 0 => k = 1 /\ m = 0
    BY <1>2, <2>1, Zenon
  <2>4. m + k <= 1
    BY <2>2, <2>3
  <2> QED BY <2>2, <2>4, Zenon
<1>4. ASSUME NEW x \in Unexecuteds', NEW r \in Register \ {Zero},
             x.receiver = 0, Needs(app, "read", x.pc, r) > 0
      PROVE  InFlight("write", r)' <= Needs(app, "write", x.pc, r)
  <2>1. PICK m \in Nat, k \in Nat, need \in Nat :
          /\ m = InFlight("write", r) /\ k = Needs(app, "write", runner.pc, r)
          /\ need = Needs(app, "write", x.pc, r)
    BY <1>1
  <2>2. InFlight("write", r)' = m + k
    BY <2>1, Zenon
  <2>3. CASE x = runner
    <3>1. ReadsOf(runner.pc, r) > 0 /\ RawHazards(runner.pc) = {}
      BY <1>1, <1>4, <2>3, Zenon
    <3>2. ~(pendingWrites[r] > 0)
      BY <3>1, NoRawHazard, Zenon
    <3>3. ~(m > 0)
      BY <1>1, <2>1, <3>2, Zenon
    <3>4. m + k <= k
      BY <3>3
    <3> QED BY <2>1, <2>2, <2>3, <3>4, Zenon
  <2>4. ASSUME NEW y \in Unexecuteds, x.pc = y.pc, x.receiver = y.receiver
        PROVE  m + k <= need
    <3>1. Needs(app, "read", y.pc, r) > 0 /\ y.receiver = 0
      BY <1>4, <2>4, Zenon
    <3>2. m <= need
      BY <2>1, <2>4, <3>1, Zenon DEF IssueInv
    <3>3. k = 0
      <4>1. PICK n \in Nat, read \in Nat : n = InFlight("read", r) /\ read = Needs(app, "read", y.pc, r)
        BY <1>1
      <4>2. read <= n
        BY <2>4, <4>1, UnexecutedNeeds, Zenon
      <4>3. read > 0
        BY <3>1, <4>1, Zenon
      <4>4. n # 0
        BY <4>2, <4>3
      <4> QED BY <1>2, <2>1, <4>1, <4>4, Zenon
    <3>4. m + k <= need
      BY <3>2, <3>3
    <3> QED BY <3>4
  <2> QED BY <2>1, <2>2, <2>3, <2>4, Zenon DEF WasThere
<1>5. ASSUME version = "6.0", NEW x \in Unexecuteds' \cup Members(pendings')
      PROVE  x.receiver = 0
  BY <1>5, Zenon DEF IssueInv, WasThere, LeftoversPlain
<1> QED BY <1>3, <1>4, <1>5, Zenon DEF IssueInv

\* The runners on a bus of which one is changed.
LEMMA RepointedRunners ==
  ASSUME ShapeInv, NEW i \in 1..Len(Bus!Elements(executeBus)), NEW sender,
         sender.pc = Bus!Elements(executeBus)[i].pc,
         sender.receiver = Bus!Elements(executeBus)[i].receiver
  PROVE  \A x \in BusRunners(Repointed(i, sender)) : WasThere(x)
<1>1. PICK list, after : list = Bus!Elements(executeBus) /\ after = Bus!Elements(Repointed(i, sender))
  OBVIOUS
<1>2. IsBus(executeBus) /\ IsList(list)
  BY <1>1, PutAndConnect, Zenon DEF ShapeInv
<1>3. /\ IsBus(Repointed(i, sender)) /\ Len(after) = Len(list)
      /\ \A j \in 1..Len(list) : after[j] = IF j = i THEN sender ELSE list[j]
  BY <1>1, <1>2, RepointedElements
<1>4. IsList(after)
  BY <1>1, <1>3, PutAndConnect, Zenon
<1>5. DOMAIN list = 1..Len(list) /\ DOMAIN after = 1..Len(list)
  BY <1>2, <1>3, <1>4 DEF IsList
<1>6. ASSUME NEW j \in DOMAIN after PROVE WasThere(after[j])
  <2>1. j \in DOMAIN list /\ list[j] \in Unexecuteds
    BY <1>1, <1>5 DEF Unexecuteds, BusRunners, Members
  <2>2. after[j].pc = list[j].pc /\ after[j].receiver = list[j].receiver
    BY <1>1, <1>3, <1>5
  <2> QED BY <2>1, <2>2, Zenon DEF WasThere
<1> QED BY <1>1, <1>6 DEF BusRunners, Members

\* Where the control unit finds its runner.
LEMMA RunnerIsPlain ==
  ASSUME ShapeInv, IssueInv, HasRunner, UNCHANGED version
  PROVE  /\ version = "6.0" => Runner.receiver = 0
         /\ Takes \/ Keeps(Runner) => LeftoversPlain'
<1>1. PICK left : left = pendings
  OBVIOUS
<1>2. PICK S : left \in Seq(S)
  BY <1>1 DEF ShapeInv, IsList
<1>3. left # << >> => Head(left) \in Members(left) /\ Members(Tail(left)) \subseteq Members(left)
  BY <1>2 DEF Members
<1>4. \A pc : NewRunner(pc).receiver = 0
  BY DEF NewRunner
<1>5. version = "6.0" => Runner.receiver = 0
  BY <1>1, <1>3, <1>4, Zenon DEF Runner, IssueInv
<1>6. Members(<<Runner>>) = {Runner}
  BY DEF Members
<1>7. \/ Takes \/ Keeps(Runner)
      => pendings' = left \/ (left # << >> /\ pendings' = Tail(left)) \/ pendings' = <<Runner>>
  BY <1>1, Zenon DEF Takes, Keeps
<1>8. version = "6.0" => \A x \in Members(left) : x.receiver = 0
  BY <1>1, Zenon DEF IssueInv
<1>9. ASSUME Takes \/ Keeps(Runner), version = "6.0", NEW x \in Members(pendings')
      PROVE  x.receiver = 0
  <2>1. CASE pendings' = left
    BY <1>8, <1>9, <2>1, Zenon
  <2>2. CASE left # << >> /\ pendings' = Tail(left)
    <3>1. x \in Members(left)
      BY <1>3, <1>9, <2>2
    <3> QED BY <1>8, <1>9, <3>1, Zenon
  <2>3. CASE pendings' = <<Runner>>
    <3>1. x = Runner
      BY <1>6, <1>9, <2>3
    <3> QED BY <1>5, <1>9, <3>1, Zenon
  <2> QED BY <1>7, <1>9, <2>1, <2>2, <2>3, Zenon
<1> QED BY <1>5, <1>9, Zenon DEF LeftoversPlain

\* The control unit (cu.go) issues what depends on nothing in flight.
LEMMA ControlKeepsIssue ==
  ASSUME FrontInv, ScoreInv, RoomInv, HazardInv, Control
  PROVE  IssueInv'
<1>1. /\ status = "running" /\ phase = "control"
      /\ UNCHANGED <<app, version, eus, writeBus, wus>>
  BY DEF Control, At
<1>2. /\ ShapeInv /\ WritersInv /\ CountInv /\ IssueInv
      /\ Len(executeBus.buffer) <= BusSize /\ Len(pendings) <= 1
  BY <1>1 DEF FrontInv, ScoreInv, RoomInv, HazardInv
<1>3. IsBus(executeBus)
  BY <1>2 DEF ShapeInv
<1>4. Unexecuteds' = BusRunners(executeBus') \cup (EuRunners(eus[1]) \cup EuRunners(eus[2]))
  BY <1>1, Zenon DEF Unexecuteds
<1>5. \A x \in Unexecuteds : WasThere(x)
  BY Zenon DEF WasThere
\* What is pushed ...
<1>6. ASSUME NEW bus, IsBus(bus), Pcs(Bus!Elements(bus)) = Pcs(Bus!Elements(executeBus)),
             \A x \in BusRunners(bus) : WasThere(x),
             NEW runner, Pushes(bus, runner), HasRunner,
             WawHazards(runner.pc) = {}, WarHazards(runner.pc) = {},
             runner.receiver = 0 => RawHazards(runner.pc) = {},
             version = "6.0" => runner.receiver = 0
      PROVE  IssueInv'
  <2>1. executeBus' = Put(bus, runner) /\ Takes
    BY <1>6 DEF Pushes
  <2>2. \A kind, r : InFlight(kind, r)' = InFlight(kind, r) + Needs(app, kind, runner.pc, r)
    BY <1>1, <1>2, <1>6, <2>1, PushAdds, Zenon
  <2>3. \A x \in Unexecuteds' : x = runner \/ WasThere(x)
    <3>1. BusRunners(executeBus') = BusRunners(bus) \cup {runner}
      BY <1>6, <2>1, RunnersPut, Zenon
    <3>2. \A x \in EuRunners(eus[1]) \cup EuRunners(eus[2]) : WasThere(x)
      BY <1>5, Zenon DEF Unexecuteds
    <3> QED BY <1>4, <1>6, <3>1, <3>2, Zenon
  <2>4. LeftoversPlain'
    BY <1>1, <1>2, <1>6, <2>1, RunnerIsPlain, Zenon
  <2> QED BY <1>1, <1>2, <1>6, <2>2, <2>3, <2>4, IssueAdds, Zenon
\* ... and what is not.
<1>7. ASSUME NEW bus, executeBus' = bus, Pcs(Bus!Elements(bus)) = Pcs(Bus!Elements(executeBus)),
             \A x \in BusRunners(bus) : WasThere(x), LeftoversPlain'
      PROVE  IssueInv'
  <2>1. \A kind, r : InFlight(kind, r)' = InFlight(kind, r)
    <3>1. \A kind, r : BusNeeds(app, kind, r, executeBus') = BusNeeds(app, kind, r, executeBus)
      BY <1>7, Zenon DEF BusNeeds
    <3> QED BY <1>1, <3>1, SameInFlight
  <2>2. \A x \in Unexecuteds' : WasThere(x)
    <3>1. \A x \in EuRunners(eus[1]) \cup EuRunners(eus[2]) : WasThere(x)
      BY <1>5, Zenon DEF Unexecuteds
    <3> QED BY <1>4, <1>7, <3>1, Zenon
  <2>3. \A kind, r : /\ InFlight(kind, r) \in Nat /\ InFlight(kind, r)' \in Nat
                     /\ InFlight(kind, r)' <= InFlight(kind, r)
    <3>1. \A kind, r : InFlight(kind, r) \in Nat
      BY <1>2, InFlightIsNat, Zenon
    <3>2. \A n \in Nat : n <= n
      OBVIOUS
    <3> QED BY <2>1, <3>1, <3>2, Zenon
  <2> QED BY <1>1, <1>2, <1>7, <2>2, <2>3, IssueKept, Zenon
<1>8. \A x \in BusRunners(executeBus) : WasThere(x)
  BY <1>5, Zenon DEF Unexecuteds
<1>9. CASE IssueNothing
  <2>1. executeBus' = executeBus /\ pendings' = pendings
    BY <1>9 DEF IssueNothing
  <2>2. LeftoversPlain'
    BY <1>1, <1>2, <2>1, Zenon DEF LeftoversPlain, IssueInv
  <2> QED BY <1>7, <1>8, <2>1, <2>2, Zenon
<1>10. CASE Issue
  <2>1. HasRunner /\ ~HasHazard(Runner.pc) /\ Pushes(executeBus, Runner)
    BY <1>10 DEF Issue
  <2>2. RawHazards(Runner.pc) = {} /\ WawHazards(Runner.pc) = {} /\ WarHazards(Runner.pc) = {}
    BY <2>1, Zenon DEF HasHazard
  <2>3. version = "6.0" => Runner.receiver = 0
    BY <1>1, <1>2, <2>1, RunnerIsPlain, Zenon
  <2> QED BY <1>3, <1>6, <1>8, <2>1, <2>2, <2>3, Zenon
<1>11. CASE IssueForwarded
  <2>1. PICK i, writer, r, c :
          /\ i = CHOOSE j \in Writers : TRUE
          /\ writer = Bus!Elements(executeBus)[i]
          /\ r = CHOOSE s \in ReadRegisters(InstructionAt(Runner.pc)) : WritesOf(writer.pc, s) > 0
          /\ c = FreshChannel
    OBVIOUS
  <2>2. PICK sender, receiver :
          /\ sender = [writer EXCEPT !.forwarder = c, !.forwardRegister = r]
          /\ receiver = [Runner EXCEPT !.receiver = c, !.forwardRegister = r]
    OBVIOUS
  <2>3. HasRunner /\ ShouldUseForwarding
    BY <1>11 DEF IssueForwarded
  <2>4. \/ Pushes(Repointed(i, sender), receiver)
        \/ executeBus' = Repointed(i, sender) /\ Keeps(receiver)
    BY <1>11, <2>1, <2>2, Zenon DEF IssueForwarded
  <2>5. i \in Previous /\ i \in 1..Len(Bus!Elements(executeBus)) /\ IsRunner(writer)
    BY <1>2, <1>11, <2>1, ForwarderIsOnBus, Zenon
  <2>6. IsRunner(sender) /\ sender.pc = writer.pc /\ sender.receiver = writer.receiver
    BY <2>2, <2>5 DEF IsRunner, NewRunner
  <2>7. /\ IsBus(Repointed(i, sender))
        /\ Pcs(Bus!Elements(Repointed(i, sender))) = Pcs(Bus!Elements(executeBus))
    BY <1>2, <2>1, <2>5, <2>6, RepointedInOrder, Zenon
  <2>8. \A x \in BusRunners(Repointed(i, sender)) : WasThere(x)
    BY <1>2, <2>1, <2>5, <2>6, RepointedRunners, Zenon
  <2>9. c # 0
    <3>1. c \in Channel
      BY <1>2, <2>1, FreshChannelIsFresh, Zenon
    <3> QED BY <3>1 DEF Channel
  <2>10. IsRunner(Runner)
    BY <1>2, <2>3, RunnerIsOldest, Zenon
  <2>11. receiver.pc = Runner.pc /\ receiver.receiver = c
    BY <2>2, <2>10 DEF IsRunner, NewRunner
  <2>12. /\ version # "6.0"
         /\ WawHazards(receiver.pc) = {} /\ WarHazards(receiver.pc) = {}
    BY <2>3, <2>11 DEF ShouldUseForwarding
  <2>13. LeftoversPlain'
    BY <1>1, <2>12, Zenon DEF LeftoversPlain
  <2>14. CASE Pushes(Repointed(i, sender), receiver)
    BY <1>6, <2>3, <2>7, <2>8, <2>9, <2>11, <2>12, <2>14, Zenon
  <2>15. CASE executeBus' = Repointed(i, sender)
    BY <1>7, <2>7, <2>8, <2>13, <2>15, Zenon
  <2> QED BY <2>4, <2>14, <2>15
<1>12. CASE IssueBlocked
  <2>1. HasRunner /\ Keeps(Runner) /\ executeBus' = executeBus
    BY <1>12 DEF IssueBlocked
  <2>2. LeftoversPlain'
    BY <1>1, <1>2, <2>1, RunnerIsPlain, Zenon
  <2> QED BY <1>7, <1>8, <2>1, <2>2, Zenon
<1> QED BY <1>9, <1>10, <1>11, <1>12 DEF Control

\* A step that issues nothing.
LEMMA NothingIssued ==
  ASSUME FrontInv, ScoreInv, HazardInv, status = "running",
         UNCHANGED <<app, version, pendings>>,
         Unexecuteds' \subseteq Unexecuteds, Follow \/ NobodyLeaves \/ \E pc : Leaves(pc)
  PROVE  IssueInv'
<1>1. ShapeInv /\ WritersInv /\ IssueInv
  BY DEF FrontInv, ScoreInv, HazardInv
<1>2. ASSUME NEW kind, NEW r
      PROVE  /\ InFlight(kind, r) \in Nat /\ InFlight(kind, r)' \in Nat
             /\ InFlight(kind, r)' <= InFlight(kind, r)
  <2>1. PICK m, n : m \in Nat /\ m = InFlight(kind, r) /\ n = InFlight(kind, r)'
    BY <1>1, InFlightIsNat, Zenon
  <2>2. n = m \/ \E pc : n \in Nat /\ m = n + Needs(app, kind, pc, r)
    BY <2>1, Zenon DEF Follow, NobodyLeaves, Leaves
  <2>3. ASSUME NEW pc, n \in Nat, m = n + Needs(app, kind, pc, r) PROVE n <= m
    <3>1. PICK k \in Nat : k = Needs(app, kind, pc, r)
      BY NeedsIsNat
    <3>2. m = n + k
      BY <2>3, <3>1, Zenon
    <3> QED BY <2>3, <3>2
  <2>4. m \in Nat
    BY <2>1, Zenon
  <2>5. n \in Nat /\ n <= m
    BY <2>2, <2>3, <2>4
  <2> QED BY <2>1, <2>5, Zenon
<1>3. \A x \in Unexecuteds' : WasThere(x)
  BY Zenon DEF WasThere
<1>4. LeftoversPlain'
  BY <1>1, Zenon DEF LeftoversPlain, IssueInv
<1> QED BY <1>1, <1>2, <1>3, <1>4, IssueKept, Zenon

\* Nothing is in flight, nor left over.
Quiet ==
  /\ executeBus = Bus!NewBus /\ writeBus = Bus!NewBus /\ pendings = << >>
  /\ \A i \in Unit : eus[i].stage = "start" /\ ~wus[i].busy
LEMMA QuietIsApart == Quiet => IssueInv
<1> SUFFICES ASSUME Quiet PROVE IssueInv
  OBVIOUS
<1>1. ASSUME NEW kind, NEW r PROVE InFlight(kind, r) = 0
  <2>1. /\ Unexecuted(app, kind, r, executeBus, eus) = 0
        /\ Unwritten(app, kind, r, writeBus, wus) = 0
    BY NothingInFlight, Zenon DEF Quiet
  <2>2. InFlight(kind, r) = 0 + 0
    BY <2>1, TwoHalves, Zenon
  <2> QED BY <2>2
<1>2. Unexecuteds = {} /\ Members(pendings) = {}
  <2>1. Members(<< >>) = {}
    BY DEF Members
  <2>2. 1 \in Unit /\ 2 \in Unit
    BY DEF Unit
  <2> QED BY <2>1, <2>2, NewBusIsBus, Zenon DEF Quiet, Unexecuteds, BusRunners, EuRunners
<1>3. 0 <= 1
  OBVIOUS
<1> QED BY <1>1, <1>2, <1>3, Zenon DEF IssueInv

\* The start, and a flush.
LEMMA InitIsApart == ASSUME Init PROVE RoomInv /\ HazardInv
<1>1. Quiet
  BY DEF Init, Quiet, IdleEu, IdleWu
<1>2. RoomInv
  BY DEF Init, RoomInv, Bus!NewBus, BusSize
<1> QED BY <1>1, <1>2, QuietIsApart DEF HazardInv

LEMMA FlushIsApart == ASSUME FrontInv, ScoreInv, FlushPipeline PROVE IssueInv'
<1>1. /\ status = "running" /\ phase = "drain" /\ unit = 2 /\ ~wus[2].busy
      /\ executeBus' = Bus!NewBus /\ writeBus' = Bus!NewBus /\ pendings' = << >>
      /\ eus' = [i \in Unit |-> IdleEu] /\ wus' = wus
  BY DEF FlushPipeline, FlushedUnits, At, UnitDrained, Wu
<1>2. ~wus[1].busy
  BY <1>1 DEF ScoreInv, DrainInv
<1>3. \A i \in Unit : eus'[i].stage = "start" /\ ~wus'[i].busy
  BY <1>1, <1>2 DEF IdleEu, Unit
<1>4. Quiet'
  BY <1>1, <1>3, Zenon DEF Quiet
<1>5. Quiet' => IssueInv'
  BY QuietIsApart, PTL
<1> QED BY <1>4, <1>5

\* Every step keeps it.
LEMMA NextKeepsIssue == ASSUME FrontInv, ScoreInv, RoomInv, HazardInv, [Next]_vars PROVE HazardInv'
<1>1. ASSUME status = "running" PROVE ShapeInv /\ WritersInv
  BY <1>1 DEF FrontInv, ScoreInv
<1>2. ASSUME status = "running", UNCHANGED <<app, version, pendings>>,
             Unexecuteds' \subseteq Unexecuteds, Follow \/ NobodyLeaves \/ \E pc : Leaves(pc)
      PROVE  HazardInv'
  BY <1>2, NothingIssued DEF HazardInv
<1>3. ASSUME status = "running", UNCHANGED <<app, version, pendings, eus, wus>>,
             executeBus' = executeBus \/ executeBus' = Connected(executeBus),
             writeBus' = writeBus \/ writeBus' = Connected(writeBus)
      PROVE  HazardInv'
  BY <1>1, <1>2, <1>3, ConnectMoves, Zenon
<1>4. CASE Fetch \/ Decode
  <2>1. /\ status = "running" /\ UNCHANGED <<app, version, pendings, eus, wus>>
        /\ executeBus' = executeBus \/ executeBus' = Connected(executeBus)
        /\ writeBus' = writeBus \/ writeBus' = Connected(writeBus)
    BY <1>4 DEF Fetch, Decode, At, controlVars, executeVars
  <2> QED BY <1>3, <2>1
<1>5. CASE Control
  BY <1>5, ControlKeepsIssue DEF HazardInv
<1>6. CASE Execute
  <2>1. status = "running" /\ UNCHANGED <<app, version, pendings>>
    BY <1>6 DEF Execute, At, controlVars
  <2>2. CASE status' = "running"
    BY <1>1, <1>2, <1>6, <2>1, <2>2, ExecuteMoves DEF ExecuteMoved
  <2> QED BY <2>2 DEF HazardInv
<1>7. CASE FlushPipeline
  BY <1>7, FlushIsApart DEF HazardInv
<1>8. ASSUME UNCHANGED OutsideWriteUnits
      PROVE  UNCHANGED <<app, version, pendings, executeBus, eus>>
  BY <1>8 DEF OutsideWriteUnits, executeVars, controlVars
<1>9. ASSUME status = "running", NEW last, WriteCycle(last), UNCHANGED OutsideWriteUnits
      PROVE  HazardInv'
  <2>1. UNCHANGED <<app, version, pendings, executeBus, eus>>
    BY <1>8, <1>9
  <2>2. Unexecuteds' = Unexecuteds
    BY <2>1, Zenon DEF Unexecuteds
  <2>3. Follow \/ \E pc : Leaves(pc)
    BY <1>1, <1>9, <2>1, WriteCycleMoves, Zenon
  <2> QED BY <1>2, <1>9, <2>1, <2>2, <2>3
<1>10. CASE WriteBack \/ ReturnWrites \/ DrainWrites
  BY <1>9, <1>10 DEF WriteBack, ReturnWrites, DrainWrites, At
<1>11. CASE EndOfCycle \/ ReturnConnects \/ DrainNext \/ ReturnEnds
  <2>1. \/ status' = "done"
        \/ /\ status = "running" /\ UNCHANGED OutsideWriteUnits /\ UNCHANGED wus
           /\ writeBus' = writeBus \/ writeBus' = Connected(writeBus)
    BY <1>11 DEF EndOfCycle, ReturnConnects, DrainNext, ReturnEnds, Finish, At
  <2>2. CASE status' = "done"
    BY <2>2 DEF HazardInv
  <2> QED BY <1>3, <1>8, <2>1, <2>2
<1>12. CASE WritePanics
  <2>1. status' = "panic"
    BY <1>12 DEF WritePanics
  <2> QED BY <2>1 DEF HazardInv
<1>13. CASE Ended \/ UNCHANGED vars
  <2>1. UNCHANGED <<status, app, version, pendings, eus, wus, executeBus, writeBus>>
    BY <1>13 DEF Ended, vars, controlVars, executeVars, placeVars
  <2>2. CASE status = "running"
    BY <1>3, <2>1, <2>2
  <2>3. CASE status # "running"
    BY <2>1, <2>3 DEF HazardInv
  <2> QED BY <2>2, <2>3
<1> QED BY <1>4, <1>5, <1>6, <1>7, <1>10, <1>11, <1>12, <1>13 DEF Next

\* All of it.
LEMMA IssueInvariant == Spec => [](FrontInv /\ ScoreInv /\ RoomInv /\ HazardInv)
<1>1. Init => FrontInv /\ ScoreInv /\ RoomInv /\ HazardInv
  BY InitFront, InitScore, InitIsApart
<1>2. FrontInv /\ ScoreInv /\ RoomInv /\ HazardInv /\ [Next]_vars
      => (FrontInv /\ ScoreInv /\ RoomInv /\ HazardInv)'
  BY NextKeepsFront, NextKeepsScore, NextKeepsRoom, NextKeepsIssue
<1> QED BY <1>1, <1>2, PTL DEF Spec

\* The lists of NoHazardInFlight: the issued runners are the first of those in flight.
LEMMA InFlightIsList ==
  ASSUME IsBus(executeBus), IsBus(writeBus)
  PROVE  /\ IsList(InFlightPcs) /\ IsList(IssuedRunners)
         /\ \A i \in DOMAIN IssuedRunners :
              /\ i \in DOMAIN InFlightPcs /\ InFlightPcs[i] = IssuedRunners[i].pc
              /\ IssuedRunners[i] \in Unexecuteds
<1>1. PICK onExecute, onWrite : onExecute = Bus!Elements(executeBus) /\ onWrite = Bus!Elements(writeBus)
  OBVIOUS
<1>2. PICK ex1, ex2, wr1, wr2 :
        /\ ex1 = Executing(eus[1]) /\ ex2 = Executing(eus[2])
        /\ wr1 = Writing(wus[1]) /\ wr2 = Writing(wus[2])
  OBVIOUS
<1>3. IsList(onExecute) /\ IsList(onWrite)
  BY <1>1, PutAndConnect, Zenon
<1>4. /\ (ex1 = << >> \/ ex1 = <<eus[1].runner>>) /\ (ex2 = << >> \/ ex2 = <<eus[2].runner>>)
      /\ (wr1 = << >> \/ wr1 = <<wus[1].result.pc>>)
      /\ (wr2 = << >> \/ wr2 = <<wus[2].result.pc>>)
  BY <1>2, Zenon DEF Executing, Writing
<1>5. IsList(ex1) /\ IsList(ex2) /\ IsList(wr1) /\ IsList(wr2)
  BY <1>3, <1>4, ListsMadeOfLists, Zenon
<1>6. IsList(ex1 \o ex2) /\ IsList(wr1 \o wr2)
  BY <1>5, ListsMadeOfLists, Zenon
<1>7. IsList(IssuedRunners)
  <2>1. IsList(onExecute \o (ex1 \o ex2))
    BY <1>3, <1>6, ListsMadeOfLists, Zenon
  <2> QED BY <1>1, <1>2, <2>1, Zenon DEF IssuedRunners
<1>8. IsList(UnwrittenPcs)
  <2>1. IsList(Pcs(onWrite))
    BY <1>3, PcsAreList, Zenon
  <2>2. IsList(Pcs(onWrite) \o (wr1 \o wr2))
    BY <1>6, <2>1, ListsMadeOfLists, Zenon
  <2> QED BY <1>1, <1>2, <2>2, Zenon DEF UnwrittenPcs, Pcs
<1>9. PICK issued0, pcs, unwritten, all :
        /\ issued0 = IssuedRunners /\ pcs = Pcs(issued0)
        /\ unwritten = UnwrittenPcs /\ all = InFlightPcs
  OBVIOUS
<1>10. /\ IsList(pcs) /\ Len(pcs) = Len(issued0)
       /\ \A i \in 1..Len(issued0) : pcs[i] = issued0[i].pc
  BY <1>7, <1>9, PcsAreList, Zenon
<1>11. all = pcs \o unwritten
  BY <1>9, Zenon DEF InFlightPcs, Pcs
<1>12. PICK S : pcs \in Seq(S) /\ unwritten \in Seq(S)
  BY <1>8, <1>9, <1>10, ListsOfOneSet
<1>13. DOMAIN issued0 = 1..Len(issued0)
  BY <1>7, <1>9 DEF IsList
<1>14. ASSUME NEW i \in DOMAIN issued0 PROVE i \in DOMAIN all /\ all[i] = issued0[i].pc
  <2>1. i \in 1..Len(pcs) /\ pcs[i] = issued0[i].pc
    BY <1>10, <1>13, <1>14
  <2> QED BY <1>11, <1>12, <2>1
<1>15. ASSUME NEW i \in DOMAIN issued0 PROVE issued0[i] \in Unexecuteds
  <2>1. Members(issued0) \subseteq Members(onExecute) \cup (Members(ex1) \cup Members(ex2))
    <3>1. ASSUME NEW a, NEW b, IsList(a), IsList(b) PROVE Members(a \o b) \subseteq Members(a) \cup Members(b)
      <4>1. PICK T : a \in Seq(T) /\ b \in Seq(T)
        BY <3>1, ListsOfOneSet
      <4> QED BY <4>1 DEF Members
    <3>2. Members(ex1 \o ex2) \subseteq Members(ex1) \cup Members(ex2)
      BY <1>5, <3>1, Zenon
    <3>3. Members(onExecute \o (ex1 \o ex2)) \subseteq Members(onExecute) \cup Members(ex1 \o ex2)
      BY <1>3, <1>6, <3>1, Zenon
    <3>4. issued0 = onExecute \o (ex1 \o ex2)
      BY <1>1, <1>2, <1>9, Zenon DEF IssuedRunners
    <3> QED BY <3>2, <3>3, <3>4, Zenon
  <2>2. Members(onExecute) \subseteq Unexecuteds
    BY <1>1, Zenon DEF Unexecuteds, BusRunners
  <2>3. Members(<< >>) = {} /\ \A x : Members(<<x>>) = {x}
    BY DEF Members
  <2>4. Members(ex1) \subseteq Unexecuteds /\ Members(ex2) \subseteq Unexecuteds
    BY <1>2, <2>3, Zenon DEF Unexecuteds, EuRunners, Executing
  <2>5. issued0[i] \in Members(issued0)
    BY Zenon DEF Members
  <2> QED BY <2>1, <2>2, <2>4, <2>5, Zenon
<1>16. IsList(all)
  BY <1>8, <1>9, <1>10, <1>11, ListsMadeOfLists, Zenon
<1> QED BY <1>7, <1>9, <1>14, <1>15, <1>16, Zenon

\* Two of a list write a register at most as often as all of it.
LEMMA TwoWrite ==
  ASSUME IsBus(executeBus), IsBus(writeBus), NEW r,
         NEW i \in DOMAIN InFlightPcs, NEW j \in DOMAIN InFlightPcs, i # j
  PROVE  /\ WritesOf(InFlightPcs[i], r) \in Nat /\ WritesOf(InFlightPcs[j], r) \in Nat
         /\ WritesOf(InFlightPcs[i], r) + WritesOf(InFlightPcs[j], r) <= InFlight("write", r)
<1>1. PICK all : all = InFlightPcs
  OBVIOUS
<1>2. IsList(all)
  BY <1>1, InFlightIsList, Zenon
<1>3. DOMAIN all = 1..Len(all) /\ Len(all) \in Nat
  BY <1>2 DEF IsList
<1>4. PICK a : a = [k \in DOMAIN all |-> WritesOf(all[k], r)]
  OBVIOUS
<1>5. \A pc : WritesOf(pc, r) \in Nat
  BY DEF WritesOf
<1>6. a \in Seq(Nat) /\ Len(a) = Len(all)
  <2>1. a \in [1..Len(all) -> Nat]
    BY <1>3, <1>4, <1>5
  <2> QED BY <1>3, <2>1
<1>7. i \in 1..Len(a) /\ j \in 1..Len(a) \ {i}
  BY <1>1, <1>3, <1>6
<1>8. a[i] + a[j] <= Total(a)
  BY <1>6, <1>7, PartsOfTotal
<1>9. Total(a) = InFlight("write", r)
  <2>1. Counted(WritesOf, r) = InFlight("write", r)
    BY CountsAreNeeds, Zenon
  <2> QED BY <1>1, <1>4, <2>1, Zenon DEF Counted
<1>10. a[i] = WritesOf(all[i], r) /\ a[j] = WritesOf(all[j], r)
  BY <1>1, <1>4
<1> QED BY <1>1, <1>5, <1>8, <1>9, <1>10, Zenon

\* What the invariant says of the two lists.
LEMMA IssuedApart ==
  ASSUME FrontInv, ScoreInv, HazardInv
  PROVE  WritersApart /\ ReadersApart /\ (version = "6.0" => NoHazardInFlight)
<1>1. ASSUME status = "running" PROVE IssueInv /\ IsBus(executeBus) /\ IsBus(writeBus)
  BY <1>1 DEF FrontInv, ScoreInv, HazardInv, ShapeInv, WritersInv
<1>2. \A pc : WritesOf(pc, Zero) = 0 /\ ReadsOf(pc, Zero) = 0
  <2> TAKE pc
  <2>1. {i \in DOMAIN ReadList(InstructionAt(pc)) :
           Zero # Zero /\ ReadList(InstructionAt(pc))[i] = Zero} = {}
    OBVIOUS
  <2>2. ReadsOf(pc, Zero) = 0
    BY <2>1, FS_EmptySet, Zenon DEF ReadsOf
  <2> QED BY <2>2 DEF WritesOf
<1>3. WritersApart
  <2> SUFFICES ASSUME status = "running", NEW i \in DOMAIN InFlightPcs,
                      NEW j \in DOMAIN InFlightPcs, i # j, NEW r \in Register
               PROVE  WritesOf(InFlightPcs[i], r) + WritesOf(InFlightPcs[j], r) <= 1
    BY DEF WritersApart
  <2>1. CASE r = Zero
    BY <1>2, <2>1
  <2>2. CASE r # Zero
    <3>1. PICK m \in Nat, n \in Nat :
            m = WritesOf(InFlightPcs[i], r) /\ n = WritesOf(InFlightPcs[j], r)
      BY <1>1, TwoWrite
    <3>2. PICK all \in Nat : all = InFlight("write", r)
      BY InFlightIsNat, Zenon DEF FrontInv, ScoreInv
    <3>3. m + n <= all
      BY <1>1, <3>1, <3>2, TwoWrite, Zenon
    <3>4. all <= 1
      BY <1>1, <2>2, <3>2, Zenon DEF IssueInv
    <3>5. m + n <= 1
      BY <3>3, <3>4
    <3> QED BY <3>1, <3>5, Zenon
  <2> QED BY <2>1, <2>2
<1>4. ASSUME status = "running", NEW i \in DOMAIN IssuedRunners, NEW j \in DOMAIN InFlightPcs,
             i # j, Depends(InFlightPcs[i], InFlightPcs[j])
      PROVE  IssuedRunners[i].receiver # 0
  <2>1. PICK r \in Register : ReadsOf(InFlightPcs[i], r) > 0 /\ WritesOf(InFlightPcs[j], r) > 0
    BY <1>4 DEF Depends
  <2>2. r # Zero
    BY <1>2, <2>1
  <2>3. PICK runner : runner = IssuedRunners[i]
    OBVIOUS
  <2>4. i \in DOMAIN InFlightPcs /\ InFlightPcs[i] = runner.pc /\ runner \in Unexecuteds
    BY <1>1, <1>4, <2>3, InFlightIsList, Zenon
  <2>5. SUFFICES ASSUME runner.receiver = 0 PROVE FALSE
    BY <2>3
  <2>6. PICK m \in Nat, n \in Nat :
          m = WritesOf(InFlightPcs[i], r) /\ n = WritesOf(InFlightPcs[j], r)
    BY <1>1, <1>4, <2>4, TwoWrite
  <2>7. PICK all \in Nat : all = InFlight("write", r)
    BY <1>4, InFlightIsNat, Zenon DEF FrontInv, ScoreInv
  <2>8. m + n <= all
    BY <1>1, <1>4, <2>4, <2>6, <2>7, TwoWrite, Zenon
  <2>9. Needs(app, "read", runner.pc, r) > 0 /\ m = Needs(app, "write", runner.pc, r)
    BY <2>1, <2>4, <2>6, NeedsAre, Zenon
  <2>10. all <= m
    BY <1>1, <1>4, <2>2, <2>4, <2>5, <2>7, <2>9, Zenon DEF IssueInv
  <2>11. n > 0
    BY <2>1, <2>6
  <2> QED BY <2>8, <2>10, <2>11
<1>5. ReadersApart
  BY <1>4, Zenon DEF ReadersApart
<1>6. ASSUME version = "6.0" PROVE NoHazardInFlight
  <2>1. ASSUME status = "running", NEW i \in DOMAIN IssuedRunners
        PROVE  IssuedRunners[i].receiver = 0
    BY <1>1, <1>6, <2>1, InFlightIsList, Zenon DEF IssueInv
  <2> QED BY <1>3, <1>4, <1>5, <2>1, Zenon DEF NoHazardInFlight
<1> QED BY <1>3, <1>5, <1>6

\* Two instructions in flight never write one register, and one depends on another only
\* if it waits for a forwarded value (cu.go: no runner is pushed that IsDataHazard3
\* holds back, unless a channel was made for it), for every program: branches, loops and
\* wrong paths, stores that end in the cache and units that finish out of order included.
THEOREM HazardsAreForwarded == Spec => [](WritersApart /\ ReadersApart)
<1>1. FrontInv /\ ScoreInv /\ RoomInv /\ HazardInv => WritersApart /\ ReadersApart
  BY IssuedApart
<1> QED BY <1>1, IssueInvariant, PTL

\* MVP-6.0 lets no two dependent instructions into flight at all (README.md: the control
\* unit checks "dependency ... between the decoded instructions to guarantee it won't
\* lead to any hazard").
THEOREM NoHazardInFlight60 == Spec => [](version = "6.0" => NoHazardInFlight)
<1>1. FrontInv /\ ScoreInv /\ RoomInv /\ HazardInv => (version = "6.0" => NoHazardInFlight)
  BY IssuedApart
<1> QED BY <1>1, IssueInvariant, PTL

\* The control unit never has more than one runner left over (its queue has room for
\* ten) and never pushes one that the execute bus has no room for (cu.go, bus.go: Add
\* does not ask).
THEOREM ControlUnitKeepsRoom == Spec => []RoomInv
<1>1. FrontInv /\ ScoreInv /\ RoomInv /\ HazardInv => RoomInv
  OBVIOUS
<1> QED BY <1>1, IssueInvariant, PTL

-----------------------------------------------------------------------------
(* The values: words in registers, results and channels, bytes in memory   *)
(* and cache                                                               *)

\* The pcs that the fetch unit may put on its bus are numbers; from the decode unit on
\* they are those of the program.
ProgramPc == {pc \in Int : IndexOf(pc) \in 0..Len(app.Instructions) - 1}
ProgramRunner ==
  [pc : ProgramPc, forwarder : Channel \cup {0}, receiver : Channel \cup {0},
   forwardRegister : Register]

FetchUnit ==
  [pc : Int, toCleanPending : BOOLEAN, complete : BOOLEAN,
   coroutine : {"start", "wait", "idle"}, remaining : Nat]
ExecuteUnit ==
  [stage : Stages, runner : ProgramRunner \cup {NewRunner(0)}, remaining : Nat,
   addrs : Seq(Int), bytes : Seq(Byte)]
WriteUnit(S) == [busy : BOOLEAN, remaining : 0..MemoryCycles, result : S]
Signal == [flush : BOOLEAN, from : Int, pc : Int, ret : BOOLEAN]

\* A unit that waits for the memory has a load, and its bytes or its addresses.
HoldsLoad(eu) ==
  LET code == InstructionAt(eu.runner.pc)
  IN /\ eu.stage # "start" => eu.runner \in ProgramRunner
     /\ eu.stage \in {"hit", "miss"} => code.op \in LoadOps
     /\ eu.stage = "hit" => Len(eu.bytes) = AccessSize(code)
     /\ eu.stage = "miss" => Len(eu.addrs) = AccessSize(code)

\* What the fetch, the decode and the control unit, and what the execute units have.
FrontTypes ==
  /\ fu \in FetchUnit /\ Len(l1i) \in 0..L1INumberOfLines
  /\ decodeBus \in Facts!BusOf(Int) /\ controlBus \in Facts!BusOf(ProgramPc)
RunnerTypes ==
  /\ pendings \in Seq(ProgramRunner) /\ Len(pendings) <= 1
  /\ executeBus \in Facts!BusOf(ProgramRunner) /\ Len(executeBus.buffer) <= BusSize
  /\ eus \in [Unit -> ExecuteUnit] /\ \A i \in Unit : HoldsLoad(eus[i])

\* Registers, forwarded values and what is on a channel are words, bytes are in the
\* memory and in the cache.
DataTypes ==
  /\ registers \in [Register -> Word] /\ IsMemory(memory) /\ IsCacheOf(l1d, Byte)
  /\ forwards \in [1..Len(app.Instructions) -> [Register : Register, Value : Word]]
  /\ channels \in [Channel -> {<< >>} \cup {<<value>> : value \in Word}]

\* So are the results, on the bus and in the write units.
AreResults(S) == NoResult \in S /\ \A result \in S : WordResult(result.exe)
ResultTypes ==
  \E S : /\ AreResults(S)
         /\ writeBus \in Facts!BusOf(S) /\ wus \in [Unit -> WriteUnit(S)]

\* The branch unit and the place in CPU.Run's loop.
Ending == {"running", "done", "error", "panic"}
PlaceTypes ==
  /\ IsList(btb) /\ Len(btb) <= BtbSize
  /\ signal \in Signal
  /\ phase \in Phases /\ unit \in Unit /\ status \in Ending

ValueInv ==
  app \in Applications /\ FrontTypes /\ RunnerTypes /\ DataTypes /\ ResultTypes /\ PlaceTypes

\* The operations of a bus whose elements are in S.
LEMMA BusOfSet ==
  ASSUME NEW S, NEW bus \in Facts!BusOf(S)
  PROVE  /\ \A t \in S : Put(bus, t) \in Facts!BusOf(S)
         /\ Connected(bus) \in Facts!BusOf(S) /\ Bus!NewBus \in Facts!BusOf(S)
         /\ Bus!CanGet(bus) => Bus!AfterGet(bus) \in Facts!BusOf(S) /\ Bus!Oldest(bus) \in S
         /\ Len(bus.queue) <= BusSize /\ IsBus(bus) /\ Bus!Elements(bus) \in Seq(S)
<1>1. Facts!NewBus \in Facts!BusOf(S)
  BY SameBus, Facts!NewBusIsEmpty, Zenon
<1>2. ASSUME NEW t \in S, NEW cycle \in Nat
      PROVE  Facts!Add(bus, t, cycle) \in Facts!BusOf(S)
  BY SameBus, Facts!AddAppends, Zenon
<1>3. ASSUME NEW cycle \in Nat PROVE Facts!Connect(bus, cycle) \in Facts!BusOf(S)
  BY SameBus, Facts!ConnectKeepsElements, Zenon
<1>4. Facts!CanGet(bus) => Facts!AfterGet(bus) \in Facts!BusOf(S)
  BY SameBus, Facts!GetTakesOldest, Zenon
<1>5. Facts!Elements(bus) \in Seq(S)
  BY SameBus, Facts!ElementsAreSeq, Zenon
<1>6. bus.queue \in Seq(S) /\ Len(bus.queue) <= BusSize
  BY DEF Facts!BusOf
<1>7. Bus!CanGet(bus) => Bus!Oldest(bus) \in S
  BY <1>6 DEF Bus!CanGet, Bus!Oldest
<1>8. 0 \in Nat /\ 1 \in Nat
  OBVIOUS
<1>9. Connected(bus) \in Facts!BusOf(S)
  BY <1>3, <1>8, SameBus, Zenon
<1>10. \A t \in S : Put(bus, t) \in Facts!BusOf(S)
  BY <1>2, <1>8, SameBus, Zenon
<1> QED BY <1>1, <1>4, <1>5, <1>6, <1>7, <1>9, <1>10, SameBus, Zenon DEF IsBus

\* A bus of elements of S is one of elements of more.
LEMMA BusOfMore ==
  ASSUME NEW S, NEW T, S \subseteq T, NEW bus \in Facts!BusOf(S)
  PROVE  bus \in Facts!BusOf(T)
<1>1. /\ bus.buffer \in Seq(Facts!EntryOf(S)) /\ bus.queue \in Seq(S)
      /\ bus = [buffer |-> bus.buffer, queue |-> bus.queue] /\ Len(bus.queue) <= BusSize
  BY DEF Facts!BusOf
<1>2. Facts!EntryOf(S) \subseteq Facts!EntryOf(T)
  BY DEF Facts!EntryOf
<1>3. bus.buffer \in Seq(Facts!EntryOf(T)) /\ bus.queue \in Seq(T)
  BY <1>1, <1>2
<1> QED BY <1>1, <1>3 DEF Facts!BusOf

\* A list with one element changed.
LEMMA ChangedIsList ==
  ASSUME NEW S, NEW s \in Seq(S), NEW i, NEW t \in S
  PROVE  [s EXCEPT ![i] = t] \in Seq(S)
<1>1. PICK n \in Nat : n = Len(s) /\ s \in [1..n -> S]
  OBVIOUS
<1>2. PICK changed : changed = [s EXCEPT ![i] = t]
  OBVIOUS
<1>3. changed \in [1..n -> S]
  BY <1>1, <1>2
<1>4. changed \in Seq(S)
  BY <1>1, <1>3
<1> QED BY <1>2, <1>4

\* A runner on the execute bus that is changed stays in the set.
LEMMA RepointedInSet ==
  ASSUME NEW S, executeBus \in Facts!BusOf(S), NEW i \in Int, NEW runner \in S
  PROVE  Repointed(i, runner) \in Facts!BusOf(S)
<1>1. PICK buffer, queue : buffer = executeBus.buffer /\ queue = executeBus.queue
  OBVIOUS
<1>2. /\ buffer \in Seq(Facts!EntryOf(S)) /\ queue \in Seq(S) /\ Len(queue) <= BusSize
      /\ executeBus = [buffer |-> buffer, queue |-> queue] /\ Len(queue) \in Nat
  BY <1>1 DEF Facts!BusOf
<1>3. CASE i <= Len(queue)
  <2>1. PICK changed : changed = [queue EXCEPT ![i] = runner]
    OBVIOUS
  <2>2. changed \in Seq(S) /\ Len(changed) = Len(queue)
    <3>1. changed \in Seq(S)
      BY <1>2, <2>1, ChangedIsList
    <3>2. DOMAIN changed = DOMAIN queue
      BY <2>1
    <3> QED BY <1>2, <3>1, <3>2
  <2>3. Repointed(i, runner) = [buffer |-> buffer, queue |-> changed]
    BY <1>1, <1>2, <1>3, <2>1 DEF Repointed
  <2> QED BY <1>2, <2>2, <2>3 DEF Facts!BusOf
<1>4. CASE ~(i <= Len(queue))
  <2>1. PICK k : k = i - Len(queue)
    OBVIOUS
  <2>2. PICK changed : changed = [buffer EXCEPT ![k].t = runner]
    OBVIOUS
  <2>3. changed \in Seq(Facts!EntryOf(S))
    <3>1. CASE k \in 1..Len(buffer)
      <4>1. PICK entry : entry = [buffer[k] EXCEPT !.t = runner]
        OBVIOUS
      <4>2. buffer[k] \in Facts!EntryOf(S)
        BY <1>2, <3>1
      <4>3. entry \in Facts!EntryOf(S)
        BY <4>1, <4>2 DEF Facts!EntryOf
      <4>4. changed = [buffer EXCEPT ![k] = entry]
        BY <2>2, <4>1
      <4> QED BY <1>2, <4>3, <4>4, ChangedIsList
    <3>2. CASE k \notin 1..Len(buffer)
      <4>1. changed = buffer
        BY <1>2, <2>2, <3>2
      <4> QED BY <1>2, <4>1
    <3> QED BY <3>1, <3>2
  <2>4. Repointed(i, runner) = [buffer |-> changed, queue |-> queue]
    BY <1>1, <1>2, <1>4, <2>1, <2>2 DEF Repointed
  <2> QED BY <1>2, <2>3, <2>4 DEF Facts!BusOf
<1> QED BY <1>3, <1>4

\* The invariant has the types of TypeOK6.
LEMMA ValuesHaveTypes == ASSUME ValueInv PROVE TypeOK6
<1>1. /\ Len(decodeBus.queue) <= BusSize /\ Len(controlBus.queue) <= BusSize
      /\ Len(executeBus.queue) <= BusSize /\ Len(writeBus.queue) <= BusSize
  BY DEF ValueInv, FrontTypes, RunnerTypes, ResultTypes, Facts!BusOf
<1>2. Len(l1i) <= L1INumberOfLines /\ fu.coroutine \in {"start", "wait", "idle"}
  BY Mvp6Assumption DEF ValueInv, FrontTypes, FetchUnit
<1>3. \A i \in Unit : wus[i].remaining \in 0..MemoryCycles
  BY DEF ValueInv, ResultTypes, WriteUnit
<1>4. \A i \in Unit : eus[i].stage \in Stages
  BY DEF ValueInv, RunnerTypes, ExecuteUnit
<1>5. /\ registers \in [Register -> Word] /\ memory \in [DOMAIN memory -> Byte]
      /\ Len(l1d) <= NumberOfLines
  BY DEF ValueInv, DataTypes, IsMemory, IsCacheOf
<1> QED BY <1>1, <1>2, <1>3, <1>4, <1>5 DEF ValueInv, RunnerTypes, PlaceTypes, Ending, TypeOK6

\* The sets of the invariant depend on the program only.
LEMMA SetsStay ==
  ASSUME UNCHANGED app
  PROVE  /\ ProgramPc' = ProgramPc /\ ProgramRunner' = ProgramRunner
         /\ ExecuteUnit' = ExecuteUnit /\ \A eu : HoldsLoad(eu)' <=> HoldsLoad(eu)
<1>1. ProgramPc' = ProgramPc
  BY DEF ProgramPc
<1>2. ProgramRunner' = ProgramRunner
  BY <1>1 DEF ProgramRunner
<1>3. ExecuteUnit' = ExecuteUnit
  BY <1>2 DEF ExecuteUnit
<1>4. ASSUME NEW eu PROVE HoldsLoad(eu)' <=> HoldsLoad(eu)
  BY <1>2 DEF HoldsLoad, InstructionAt
<1> QED BY <1>1, <1>2, <1>3, <1>4

\* The parts of the invariant are about these variables.
LEMMA FrontTypesStay ==
  ASSUME FrontTypes, UNCHANGED <<app, fu, l1i, decodeBus, controlBus>> PROVE FrontTypes'
BY SetsStay DEF FrontTypes
LEMMA RunnerTypesStay ==
  ASSUME RunnerTypes, UNCHANGED <<app, pendings, executeBus, eus>> PROVE RunnerTypes'
BY SetsStay DEF RunnerTypes
LEMMA DataTypesStay ==
  ASSUME DataTypes, UNCHANGED <<app, registers, memory, l1d, forwards, channels>>
  PROVE  DataTypes'
BY DEF DataTypes
LEMMA ResultTypesStay == ASSUME ResultTypes, UNCHANGED <<writeBus, wus>> PROVE ResultTypes'
BY DEF ResultTypes

\* What the invariant leaves to each step.
Values == FrontTypes /\ RunnerTypes /\ DataTypes /\ ResultTypes /\ PlaceTypes

\* The beginning of a run.
LEMMA InitValues == ASSUME Init PROVE ValueInv
<1>1. Bus!NewBus \in Facts!BusOf(Int) /\ Bus!NewBus \in Facts!BusOf(ProgramPc)
      /\ Bus!NewBus \in Facts!BusOf(ProgramRunner) /\ Bus!NewBus \in Facts!BusOf({NoResult})
  <2>1. ASSUME NEW S PROVE Bus!NewBus \in Facts!BusOf(S)
    <3>1. Facts!NewBus \in Facts!BusOf(S)
      BY SameBus, Facts!NewBusIsEmpty, Zenon
    <3> QED BY <3>1, SameBus, Zenon
  <2> QED BY <2>1
<1>2. 0 \in 0..L1INumberOfLines /\ 0 \in 0..MemoryCycles /\ 0 <= BtbSize /\ 0 <= NumberOfLines
      /\ Len(<< >>) = 0
  BY Mvp6Assumption, BtbAssumption, LRUCacheAssumption
<1>3. FrontTypes
  BY <1>1, <1>2 DEF Init, FrontTypes, FetchUnit
<1>4. RunnerTypes
  <2>1. IdleEu \in ExecuteUnit /\ IdleEu.stage = "start"
    BY DEF IdleEu, ExecuteUnit, Stages
  <2>2. eus = [i \in Unit |-> IdleEu] /\ pendings = << >> /\ executeBus = Bus!NewBus
    BY DEF Init
  <2>3. HoldsLoad(IdleEu)
    BY <2>1 DEF HoldsLoad
  <2>4. << >> \in Seq(ProgramRunner) /\ Len(executeBus.buffer) <= BusSize
    BY <1>2, <2>2 DEF Bus!NewBus, BusSize
  <2> QED BY <1>1, <1>2, <2>1, <2>2, <2>3, <2>4 DEF RunnerTypes
<1>5. DataTypes
  <2>1. 0 \in Word /\ Zero \in Register
    BY SmallWords, IsaAssumption
  <2>2. registers \in [Register -> Word] /\ IsMemory(memory)
    BY Mvp6Assumption DEF Init, IsRegisterFile
  <2>3. IsCacheOf(l1d, Byte)
    BY <1>2 DEF Init, IsCacheOf
  <2> QED BY <2>1, <2>2, <2>3 DEF Init, DataTypes, NoForward
<1>6. ResultTypes
  <2>1. AreResults({NoResult})
    <3>1. NoResult.exe = NoChange
      BY DEF NoResult
    <3> QED BY <3>1, SimpleResults DEF AreResults
  <2>2. IdleWu \in WriteUnit({NoResult})
    BY <1>2 DEF IdleWu, WriteUnit
  <2> QED BY <1>1, <2>1, <2>2 DEF Init, ResultTypes
<1>7. PlaceTypes
  <2>1. IsList(<< >>)
    BY DEF IsList
  <2> QED BY <1>2, <2>1 DEF Init, PlaceTypes, NoSignal, Signal, Phases, Unit, Ending
<1> QED BY <1>3, <1>4, <1>5, <1>6, <1>7 DEF Init, ValueInv

\* L1I after a lookup and after the arrival of a line.
LEMMA L1IKeeps ==
  ASSUME NEW lines, Len(lines) \in 0..L1INumberOfLines, NEW pc, NEW data
  PROVE  /\ Len(L1I!Promote(lines, pc)) \in 0..L1INumberOfLines
         /\ Len(L1I!PushLine(lines, pc, data)) \in 0..L1INumberOfLines
<1>1. PICK n \in Nat : n = Len(lines) /\ n <= L1INumberOfLines
  BY Mvp6Assumption
<1>2. PICK m \in Nat : /\ m = (IF n < L1INumberOfLines THEN n + 1 ELSE L1INumberOfLines)
                      /\ m <= L1INumberOfLines
  BY <1>1, Mvp6Assumption
<1>3. Len(L1I!Promote(lines, pc)) = n
  BY <1>1 DEF L1I!Promote
<1>4. Len(L1I!PushLine(lines, pc, data)) = m
  BY <1>1, <1>2 DEF L1I!PushLine
<1> QED BY <1>1, <1>2, <1>3, <1>4, Mvp6Assumption

\* What coFetch works on.
FetchTypes(s) ==
  /\ s = [unit |-> s.unit, bus |-> s.bus, lines |-> s.lines]
  /\ s.unit \in FetchUnit /\ s.bus \in Facts!BusOf(Int) /\ Len(s.lines) \in 0..L1INumberOfLines

\* The steps of the fetch loop.
LEMMA AdvanceKeepsTypes == ASSUME NEW s, FetchTypes(s) PROVE FetchTypes(Advance(s))
<1>1. PICK u, b, l : /\ s = [unit |-> u, bus |-> b, lines |-> l]
                     /\ u \in FetchUnit /\ b \in Facts!BusOf(Int)
                     /\ Len(l) \in 0..L1INumberOfLines
  BY DEF FetchTypes
<1>2. PICK next : next = u.pc + 4 /\ next \in Int
  BY <1>1 DEF FetchUnit
<1>3. PICK unit2 :
        unit2 = [u EXCEPT !.pc = next, !.complete = u.complete \/ PastEnd(next),
                          !.coroutine = IF PastEnd(next) THEN "idle" ELSE u.coroutine]
  OBVIOUS
<1>4. unit2 \in FetchUnit
  BY <1>1, <1>2, <1>3 DEF FetchUnit
<1>5. Put(b, u.pc) \in Facts!BusOf(Int)
  BY <1>1, BusOfSet DEF FetchUnit
<1>6. Advance(s) = [unit |-> unit2, bus |-> Put(b, u.pc), lines |-> l]
  <2>1. s.unit = u /\ s.bus = b /\ s.lines = l
    BY <1>1
  <2>2. PICK bus : bus = Put(b, u.pc)
    OBVIOUS
  <2>3. Advance(s) = [s EXCEPT !.bus = bus, !.unit = unit2]
    BY <1>2, <1>3, <2>1, <2>2, Zenon DEF Advance
  <2> QED BY <1>1, <2>2, <2>3
<1> QED BY <1>1, <1>4, <1>5, <1>6 DEF FetchTypes

LEMMA FetchOneKeepsTypes == ASSUME NEW s, FetchTypes(s) PROVE FetchTypes(FetchOne(s))
<1>1. PICK u, b, l : /\ s = [unit |-> u, bus |-> b, lines |-> l]
                     /\ u \in FetchUnit /\ b \in Facts!BusOf(Int)
                     /\ Len(l) \in 0..L1INumberOfLines
  BY DEF FetchTypes
<1>2. CASE FetchOne(s) = s
  BY <1>2
<1>3. CASE FetchOne(s) =
             [s EXCEPT !.unit = [@ EXCEPT !.coroutine = "wait", !.remaining = MemoryCycles - 1]]
  <2>1. PICK waiting : waiting = [u EXCEPT !.coroutine = "wait", !.remaining = MemoryCycles - 1]
    OBVIOUS
  <2>2. waiting \in FetchUnit
    <3>1. MemoryCycles - 1 \in Nat
      BY Mvp6Assumption
    <3> QED BY <1>1, <2>1, <3>1 DEF FetchUnit
  <2>3. FetchOne(s) = [unit |-> waiting, bus |-> b, lines |-> l]
    BY <1>1, <1>3, <2>1
  <2> QED BY <1>1, <2>2, <2>3 DEF FetchTypes
<1>4. CASE FetchOne(s) = Advance([s EXCEPT !.lines = L1I!Promote(@, s.unit.pc)])
  <2>1. PICK lines : lines = L1I!Promote(l, u.pc) /\ Len(lines) \in 0..L1INumberOfLines
    BY <1>1, L1IKeeps
  <2>2. [s EXCEPT !.lines = L1I!Promote(@, s.unit.pc)]
          = [unit |-> u, bus |-> b, lines |-> lines]
    BY <1>1, <2>1
  <2>3. FetchTypes([unit |-> u, bus |-> b, lines |-> lines])
    BY <1>1, <2>1 DEF FetchTypes
  <2> QED BY <1>4, <2>2, <2>3, AdvanceKeepsTypes
<1> QED BY <1>2, <1>3, <1>4, Zenon DEF FetchOne

\* The fetch unit's cycle.
LEMMA FetchedTypes == ASSUME FrontTypes, NEW s \in Fetched PROVE FetchTypes(s)
<1>1. /\ fu \in FetchUnit /\ Len(l1i) \in 0..L1INumberOfLines
      /\ decodeBus \in Facts!BusOf(Int)
  BY DEF FrontTypes
<1>2. PICK u, b : /\ Cleaned = [unit |-> u, bus |-> b, lines |-> l1i]
                  /\ u = [fu EXCEPT !.toCleanPending = FALSE]
                  /\ b = IF fu.toCleanPending THEN Bus!NewBus ELSE Connected(decodeBus)
  BY DEF Cleaned
<1>3. u \in FetchUnit /\ b \in Facts!BusOf(Int) /\ u.remaining = fu.remaining
  BY <1>1, <1>2, BusOfSet DEF FetchUnit
<1>4. FetchTypes(Cleaned)
  BY <1>1, <1>2, <1>3 DEF FetchTypes
<1>5. CASE fu.coroutine = "idle"
  BY <1>4, <1>5 DEF Fetched
<1>6. CASE fu.coroutine = "start"
  BY <1>4, <1>6, FetchOneKeepsTypes DEF Fetched
<1>7. CASE fu.coroutine = "wait" /\ fu.remaining # 0
  <2>1. PICK counted : counted = [u EXCEPT !.remaining = u.remaining - 1]
    OBVIOUS
  <2>2. counted \in FetchUnit
    <3>1. u.remaining - 1 \in Nat
      BY <1>3, <1>7 DEF FetchUnit
    <3> QED BY <1>3, <2>1, <3>1 DEF FetchUnit
  <2>3. s = [unit |-> counted, bus |-> b, lines |-> l1i]
    BY <1>2, <1>7, <2>1 DEF Fetched
  <2> QED BY <1>1, <1>3, <2>2, <2>3 DEF FetchTypes
<1>8. CASE fu.coroutine = "wait" /\ fu.remaining = 0
  <2>1. s = Arrived(Cleaned)
    BY <1>8 DEF Fetched
  <2>2. PICK started, lines : /\ started = [u EXCEPT !.coroutine = "start"]
                              /\ lines = L1I!PushLine(l1i, u.pc, << >>)
    OBVIOUS
  <2>3. started \in FetchUnit /\ Len(lines) \in 0..L1INumberOfLines
    BY <1>1, <1>3, <2>2, L1IKeeps DEF FetchUnit
  <2>4. Arrived(Cleaned) = Advance([unit |-> started, bus |-> b, lines |-> lines])
    <3>1. Cleaned.unit = u /\ Cleaned.lines = l1i
      BY <1>2
    <3>2. Arrived(Cleaned) = Advance([Cleaned EXCEPT !.lines = lines, !.unit = started])
      BY <2>2, <3>1, Zenon DEF Arrived
    <3>3. PICK t : t = [Cleaned EXCEPT !.lines = lines, !.unit = started]
      OBVIOUS
    <3>4. t = [unit |-> started, bus |-> b, lines |-> lines]
      BY <1>2, <3>3
    <3> QED BY <3>2, <3>3, <3>4, Zenon
  <2>5. FetchTypes([unit |-> started, bus |-> b, lines |-> lines])
    BY <1>3, <2>3 DEF FetchTypes
  <2> QED BY <2>1, <2>4, <2>5, AdvanceKeepsTypes
<1> QED BY <1>1, <1>5, <1>6, <1>7, <1>8 DEF FetchUnit

\* A cycle starts: the buses are connected and the fetch unit runs.
LEMMA FetchKeepsValues == ASSUME ValueInv, Fetch PROVE Values'
<1>1. FrontTypes /\ RunnerTypes /\ DataTypes /\ ResultTypes /\ PlaceTypes
  BY DEF ValueInv
<1>2. UNCHANGED <<app, registers, memory, l1d, pendings, eus, forwards, channels, btb, wus,
                  signal>>
      /\ phase' = "decode" /\ unit' = 1 /\ status' = status
  BY DEF Fetch, GoTo, contextVars, controlVars, executeVars
<1>3. FrontTypes'
  <2>1. PICK s \in Fetched : fu' = s.unit /\ decodeBus' = s.bus /\ l1i' = s.lines
    BY DEF Fetch
  <2>2. FetchTypes(s)
    BY <1>1, <2>1, FetchedTypes
  <2>3. controlBus' \in Facts!BusOf(ProgramPc)
    BY <1>1, BusOfSet DEF FrontTypes, Fetch
  <2> QED BY <1>2, <2>1, <2>2, <2>3, SetsStay DEF FrontTypes, FetchTypes
<1>4. RunnerTypes'
  <2>1. executeBus' = Connected(executeBus) /\ executeBus \in Facts!BusOf(ProgramRunner)
    BY <1>1 DEF Fetch, RunnerTypes
  <2>2. executeBus' \in Facts!BusOf(ProgramRunner) /\ IsBus(executeBus)
    BY <2>1, BusOfSet
  <2>3. Len(executeBus'.buffer) <= BusSize
    <3>1. /\ Len(executeBus'.buffer) <= Len(executeBus.buffer)
          /\ Len(executeBus.buffer) <= BusSize /\ Len(executeBus.buffer) \in Nat
      BY <1>1, <2>1, <2>2, BufferLengths DEF RunnerTypes
    <3>2. Len(executeBus'.buffer) \in Nat
      BY <2>2 DEF Facts!BusOf
    <3> QED BY <3>1, <3>2 DEF BusSize
  <2> QED BY <1>1, <1>2, <2>2, <2>3, SetsStay DEF RunnerTypes
<1>5. ResultTypes'
  <2>1. PICK S : AreResults(S) /\ writeBus \in Facts!BusOf(S) /\ wus \in [Unit -> WriteUnit(S)]
    BY <1>1 DEF ResultTypes
  <2>2. writeBus' \in Facts!BusOf(S)
    BY <2>1, BusOfSet DEF Fetch
  <2> QED BY <1>2, <2>1, <2>2 DEF ResultTypes
<1>6. DataTypes'
  BY <1>1, <1>2, DataTypesStay
<1>7. PlaceTypes'
  BY <1>1, <1>2 DEF PlaceTypes, Phases, Unit
<1> QED BY <1>3, <1>4, <1>5, <1>6, <1>7 DEF Values

\* A decode loop that has what is on its buses, and the forwarded values.
ForwardsOf == [1..Len(app.Instructions) -> [Register : Register, Value : Word]]
DecodeTypes(s) ==
  /\ DOMAIN s = {"in", "out", "unit", "forwards", "stop", "panic"}
  /\ s.in \in Facts!BusOf(Int) /\ s.out \in Facts!BusOf(ProgramPc)
  /\ s.forwards \in ForwardsOf

\* A turn of the decode loop.
LEMMA DecodeOneKeepsTypes ==
  ASSUME app \in Applications, NEW s, DecodeTypes(s) PROVE DecodeTypes(DecodeOne(s))
<1>1. PICK pc, after : pc = Bus!Oldest(s.in) /\ after = Bus!AfterGet(s.in)
  OBVIOUS
<1>2. CASE s.stop \/ ~Bus!CanGet(s.in)
  BY <1>2 DEF DecodeOne
<1>3. CASE ~s.stop /\ Bus!CanGet(s.in)
  <2>1. after \in Facts!BusOf(Int) /\ pc \in Int
    BY <1>1, <1>3, BusOfSet DEF DecodeTypes
  <2>2. PICK taken : taken = [s EXCEPT !.in = after]
    OBVIOUS
  <2>3. /\ taken.in = after /\ taken.out = s.out /\ taken.forwards = s.forwards
        /\ DOMAIN taken = {"in", "out", "unit", "forwards", "stop", "panic"}
    BY <2>2 DEF DecodeTypes
  <2>4. CASE PastEnd(pc)
    <3>1. DecodeOne(s) = [taken EXCEPT !.stop = TRUE]
      BY <1>1, <1>3, <2>2, <2>4, Zenon DEF DecodeOne
    <3> QED BY <2>1, <2>3, <3>1 DEF DecodeTypes
  <2>5. CASE ~PastEnd(pc) /\ IndexOf(pc) < 0
    <3>1. DecodeOne(s) = [taken EXCEPT !.stop = TRUE, !.panic = TRUE]
      BY <1>1, <1>3, <2>2, <2>5, Zenon DEF DecodeOne
    <3> QED BY <2>1, <2>3, <3>1 DEF DecodeTypes
  <2>6. CASE ~PastEnd(pc) /\ ~(IndexOf(pc) < 0)
    <3>1. PICK out, stop, du2, values :
            /\ out = Put(taken.out, pc) /\ stop = IsJump(pc)
            /\ du2 = [ret |-> taken.unit.ret \/ InstructionAt(pc).op = "ret",
                      pendingBranchResolution |-> IsJump(pc)]
            /\ values = [taken.forwards EXCEPT ![IndexOf(pc) + 1] = NoForward]
      OBVIOUS
    <3>2. DecodeOne(s) =
            [taken EXCEPT !.out = out, !.stop = stop, !.unit = du2, !.forwards = values]
      BY <1>1, <1>3, <2>2, <2>6, <3>1, Zenon DEF DecodeOne
    <3>3. pc \in ProgramPc
      <4>1. IndexOf(pc) \in Int
        BY <2>1, TruncDivides DEF IndexOf
      <4>2. Len(app.Instructions) \in Nat
        BY Mvp6Assumption DEF IsApplication
      <4> QED BY <2>1, <2>6, <4>1, <4>2 DEF PastEnd, ProgramPc
    <3>4. out \in Facts!BusOf(ProgramPc)
      BY <2>3, <3>1, <3>3, BusOfSet DEF DecodeTypes
    <3>5. values \in ForwardsOf
      <4>1. NoForward \in [Register : Register, Value : Word]
        BY SmallWords, IsaAssumption DEF NoForward
      <4> QED BY <2>3, <3>1, <4>1 DEF DecodeTypes, ForwardsOf
    <3> QED BY <2>1, <2>3, <3>2, <3>4, <3>5 DEF DecodeTypes
  <2> QED BY <2>4, <2>5, <2>6
<1> QED BY <1>2, <1>3

\* The decode unit.
LEMMA DecodeKeepsValues == ASSUME ValueInv, Decode PROVE Values'
<1>1. /\ FrontTypes /\ RunnerTypes /\ DataTypes /\ ResultTypes /\ PlaceTypes
      /\ app \in Applications
  BY DEF ValueInv
<1>2. UNCHANGED <<app, registers, memory, l1d, l1i, fu, pendings, executeBus, eus, channels,
                  btb, writeBus, wus, signal>>
  BY DEF Decode, contextVars, cacheVars, controlVars
<1>3. PICK s : /\ s = DecodeOne(DecodeOne(DecodeState))
               /\ decodeBus' = s.in /\ controlBus' = s.out /\ forwards' = s.forwards
               /\ IF s.panic THEN status' = "panic" /\ UNCHANGED <<phase, unit>>
                  ELSE GoTo("control")
  BY DEF Decode
<1>4. DecodeTypes(DecodeState)
  BY <1>1 DEF DecodeState, DecodeTypes, FrontTypes, DataTypes, ForwardsOf
<1>5. DecodeTypes(s)
  BY <1>1, <1>3, <1>4, DecodeOneKeepsTypes
<1>6. FrontTypes'
  BY <1>1, <1>2, <1>3, <1>5, SetsStay DEF FrontTypes, DecodeTypes
<1>7. DataTypes'
  BY <1>1, <1>2, <1>3, <1>5 DEF DataTypes, DecodeTypes, ForwardsOf
<1>8. PlaceTypes'
  BY <1>1, <1>2, <1>3 DEF PlaceTypes, GoTo, Phases, Unit, Ending
<1> QED BY <1>1, <1>2, <1>6, <1>7, <1>8, RunnerTypesStay, ResultTypesStay DEF Values

\* The runner that the control unit handles.
LEMMA RunnerTyped ==
  ASSUME ValueInv, HasRunner
  PROVE  /\ Runner \in ProgramRunner /\ Runner.pc \in ProgramPc
         /\ InstructionAt(Runner.pc) \in InstructionRunner
<1>1. RunnerTypes /\ FrontTypes /\ app \in Applications
  BY DEF ValueInv
<1>2. ASSUME NEW pc \in ProgramPc PROVE NewRunner(pc) \in ProgramRunner
  BY IsaAssumption DEF NewRunner, ProgramRunner
<1>3. Runner \in ProgramRunner
  <2>1. CASE pendings # << >>
    BY <1>1, <2>1 DEF Runner, RunnerTypes
  <2>2. CASE pendings = << >>
    <3>1. Bus!Oldest(controlBus) \in ProgramPc
      BY <1>1, <2>2, BusOfSet DEF HasRunner, FromBus, FrontTypes
    <3> QED BY <1>2, <2>2, <3>1 DEF Runner
  <2> QED BY <2>1, <2>2
<1>4. Runner.pc \in ProgramPc
  BY <1>3 DEF ProgramRunner
<1>5. InstructionAt(Runner.pc) \in InstructionRunner
  BY <1>1, <1>4, Mvp6Assumption, ValuesOfProgram DEF InstructionAt, ProgramPc
<1> QED BY <1>3, <1>4, <1>5

\* It is taken from where it was, or put aside.
LEMMA TakenTypes ==
  ASSUME ValueInv, HasRunner, NEW runner \in ProgramRunner, Takes \/ Keeps(runner)
  PROVE  pendings' \in Seq(ProgramRunner) /\ controlBus' \in Facts!BusOf(ProgramPc)
<1>1. pendings \in Seq(ProgramRunner) /\ controlBus \in Facts!BusOf(ProgramPc)
  BY DEF ValueInv, RunnerTypes, FrontTypes
<1>2. pendings # << >> => Tail(pendings) \in Seq(ProgramRunner)
  BY <1>1
<1>3. <<runner>> \in Seq(ProgramRunner)
  OBVIOUS
<1>4. pendings = << >> => Bus!AfterGet(controlBus) \in Facts!BusOf(ProgramPc)
  BY <1>1, BusOfSet DEF HasRunner, FromBus
<1> QED BY <1>1, <1>2, <1>3, <1>4, Zenon DEF Takes, Keeps

\* The control unit.
LEMMA ControlKeepsValues == ASSUME ValueInv, FrontInv, Control PROVE Values'
<1>1. /\ FrontTypes /\ RunnerTypes /\ DataTypes /\ ResultTypes /\ PlaceTypes
      /\ ShapeInv /\ status = "running" /\ executeBus \in Facts!BusOf(ProgramRunner)
      /\ pendings \in Seq(ProgramRunner) /\ controlBus \in Facts!BusOf(ProgramPc)
  BY DEF ValueInv, FrontInv, Control, At, RunnerTypes, FrontTypes
<1>2. UNCHANGED <<app, registers, memory, l1d, l1i, fu, decodeBus, eus, forwards, btb,
                  writeBus, wus, signal>>
  BY DEF Control, cacheVars
<1>3. Len(executeBus'.buffer) <= BusSize /\ Len(pendings') <= 1
  BY <1>1, ControlKeepsRoom DEF RoomInv, RunnerTypes
<1>4. status' = status /\ phase' \in Phases /\ unit' \in Unit
  BY <1>1 DEF Control, IssueNothing, Issue, IssueForwarded, IssueBlocked, Stops, GoTo,
     placeVars, PlaceTypes, Phases, Unit
<1>5. /\ pendings' \in Seq(ProgramRunner) /\ controlBus' \in Facts!BusOf(ProgramPc)
      /\ executeBus' \in Facts!BusOf(ProgramRunner)
      /\ channels' = channels \/ \E c \in Channel : channels' = [channels EXCEPT ![c] = << >>]
  <2>1. CASE IssueNothing
    BY <1>1, <2>1 DEF IssueNothing
  <2>2. CASE Issue
    <3>1. /\ Runner \in ProgramRunner /\ HasRunner /\ Takes /\ UNCHANGED channels
          /\ executeBus' = Put(executeBus, Runner)
      BY <2>2, RunnerTyped DEF Issue, Pushes
    <3> QED BY <1>1, <3>1, TakenTypes, BusOfSet
  <2>3. CASE IssueForwarded
    <3>1. PICK i, writer, r :
            /\ i = CHOOSE j \in Writers : TRUE
            /\ writer = Bus!Elements(executeBus)[i]
            /\ r = CHOOSE s \in ReadRegisters(InstructionAt(Runner.pc)) :
                     WritesOf(writer.pc, s) > 0
      OBVIOUS
    <3>2. PICK sender, receiver :
            /\ sender = [writer EXCEPT !.forwarder = FreshChannel, !.forwardRegister = r]
            /\ receiver = [Runner EXCEPT !.receiver = FreshChannel, !.forwardRegister = r]
      OBVIOUS
    <3>3. /\ channels' = [channels EXCEPT ![FreshChannel] = << >>]
          /\ \/ /\ executeBus' = Put(Repointed(i, sender), receiver) /\ Takes
             \/ executeBus' = Repointed(i, sender) /\ Keeps(receiver)
      BY <2>3, <3>1, <3>2, Zenon DEF IssueForwarded, Pushes
    <3>4. /\ HasRunner /\ Writers # {} /\ Runner \in ProgramRunner
          /\ InstructionAt(Runner.pc) \in InstructionRunner
      BY <2>3, RunnerTyped DEF IssueForwarded, ShouldUseForwarding
    <3>5. FreshChannel \in Channel
      BY <1>1, FreshChannelIsFresh DEF RunnerTypes
    <3>6. i \in Writers
      BY <3>1, <3>4
    <3>7. /\ i \in Previous
          /\ \E s \in ReadRegisters(InstructionAt(Runner.pc)) : WritesOf(writer.pc, s) > 0
      BY <3>1, <3>6 DEF Writers
    <3>8. r \in Register
      <4>1. r \in ReadRegisters(InstructionAt(Runner.pc))
        BY <3>1, <3>7
      <4> QED BY <3>4, <4>1 DEF ReadRegisters, InstructionRunner
    <3>9. i \in Int /\ writer \in ProgramRunner
      <4>1. PICK elements \in Seq(ProgramRunner) : elements = Bus!Elements(executeBus)
        BY <1>1, BusOfSet
      <4>2. i \in 1..Len(elements)
        BY <1>1, <3>7, <4>1 DEF Previous, ShapeInv
      <4> QED BY <3>1, <4>1, <4>2
    <3>10. sender \in ProgramRunner /\ receiver \in ProgramRunner
      BY <3>2, <3>4, <3>5, <3>8, <3>9 DEF ProgramRunner
    <3>11. Repointed(i, sender) \in Facts!BusOf(ProgramRunner)
      BY <1>1, <3>9, <3>10, RepointedInSet
    <3>12. executeBus' \in Facts!BusOf(ProgramRunner)
      BY <3>3, <3>10, <3>11, BusOfSet
    <3> QED BY <3>3, <3>4, <3>5, <3>10, <3>12, TakenTypes
  <2>4. CASE IssueBlocked
    <3>1. /\ Runner \in ProgramRunner /\ HasRunner /\ Keeps(Runner)
          /\ UNCHANGED <<executeBus, channels>>
      BY <2>4, RunnerTyped DEF IssueBlocked
    <3> QED BY <1>1, <3>1, TakenTypes
  <2> QED BY <2>1, <2>2, <2>3, <2>4 DEF Control
<1>6. FrontTypes' /\ RunnerTypes'
  BY <1>1, <1>2, <1>3, <1>5, SetsStay DEF FrontTypes, RunnerTypes
<1>7. DataTypes'
  BY <1>1, <1>2, <1>5 DEF DataTypes
<1>8. PlaceTypes'
  BY <1>1, <1>2, <1>4 DEF PlaceTypes
<1> QED BY <1>1, <1>2, <1>6, <1>7, <1>8, ResultTypesStay DEF Values

\* The execute unit whose turn it is, and the bus it takes from.
LEMMA JobTyped ==
  ASSUME ValueInv, HasJob
  PROVE  /\ Job \in ExecuteUnit /\ HoldsLoad(Job) /\ Job.stage \in {"prepare", "hit", "miss"}
         /\ Job.runner \in ProgramRunner /\ JobPc \in ProgramPc /\ JobPc \in Int
         /\ JobInstruction \in InstructionRunner /\ LabelsAreWords(app)
         /\ IndexOf(JobPc) + 1 \in 1..Len(app.Instructions)
<1>1. /\ eus \in [Unit -> ExecuteUnit] /\ unit \in Unit /\ HoldsLoad(eus[unit])
      /\ executeBus \in Facts!BusOf(ProgramRunner) /\ app \in Applications
  BY DEF ValueInv, RunnerTypes, PlaceTypes
<1>2. /\ Job \in ExecuteUnit /\ HoldsLoad(Job) /\ Job.stage \in {"prepare", "hit", "miss"}
      /\ Job.runner \in ProgramRunner
  <2>1. CASE eus[unit].stage # "start"
    BY <1>1, <2>1 DEF Job, HoldsLoad, ExecuteUnit, Stages
  <2>2. CASE eus[unit].stage = "start"
    <3>1. PICK runner : runner = Bus!Oldest(executeBus) /\ runner \in ProgramRunner
      BY <1>1, <2>2, BusOfSet DEF HasJob
    <3>2. Job = [IdleEu EXCEPT !.stage = "prepare", !.runner = runner]
      BY <2>2, <3>1 DEF Job
    <3>3. Job = [stage |-> "prepare", runner |-> runner, remaining |-> 0,
                 addrs |-> << >>, bytes |-> << >>]
      BY <3>2 DEF IdleEu
    <3>4. << >> \in Seq(Int) /\ << >> \in Seq(Byte)
      OBVIOUS
    <3> QED BY <3>1, <3>3, <3>4 DEF ExecuteUnit, Stages, HoldsLoad
  <2> QED BY <2>1, <2>2
<1>3. JobPc \in ProgramPc
  BY <1>2 DEF JobPc, ProgramRunner
<1>4. PICK length \in Nat : length = Len(app.Instructions)
  BY <1>1, Mvp6Assumption DEF IsApplication
<1>5. JobPc \in Int /\ IndexOf(JobPc) \in 0..length - 1
  BY <1>3, <1>4 DEF ProgramPc
<1>6. JobInstruction \in InstructionRunner /\ LabelsAreWords(app)
  BY <1>1, <1>4, <1>5, Mvp6Assumption, ValuesOfProgram DEF JobInstruction, InstructionAt
<1> QED BY <1>2, <1>3, <1>4, <1>5, <1>6

\* The units after one of them has taken a runner or gone on with its own.
LEMMA UnitBecomes ==
  ASSUME ValueInv, TakeJob \/ UNCHANGED executeBus, HasJob, UNCHANGED <<app, pendings>>,
         NEW eu \in ExecuteUnit, HoldsLoad(eu), Becomes(eu)
  PROVE  RunnerTypes'
<1>1. RunnerTypes /\ unit \in Unit
  BY DEF ValueInv, PlaceTypes
<1>2. executeBus' \in Facts!BusOf(ProgramRunner) /\ Len(executeBus'.buffer) <= BusSize
  <2>1. \/ executeBus' = executeBus
        \/ Bus!CanGet(executeBus) /\ executeBus' = Bus!AfterGet(executeBus)
    BY Zenon DEF TakeJob, HasJob
  <2>2. executeBus \in Facts!BusOf(ProgramRunner) /\ Len(executeBus.buffer) <= BusSize
    BY <1>1 DEF RunnerTypes
  <2>3. IsBus(executeBus)
    BY <2>2, BusOfSet
  <2> QED BY <2>1, <2>2, <2>3, BusOfSet, BufferLengths
<1>3. eus' \in [Unit -> ExecuteUnit] /\ \A i \in Unit : HoldsLoad(eus'[i])
  <2>1. eus' = [eus EXCEPT ![unit] = eu] /\ eus \in [Unit -> ExecuteUnit]
        /\ \A i \in Unit : HoldsLoad(eus[i])
    BY <1>1 DEF Becomes, RunnerTypes
  <2>2. \A i \in Unit : eus'[i] = IF i = unit THEN eu ELSE eus[i]
    BY <1>1, <2>1
  <2>3. \A i \in Unit : HoldsLoad(eus'[i])
    BY <2>1, <2>2
  <2> QED BY <1>1, <2>1, <2>3
<1> QED BY <1>1, <1>2, <1>3, SetsStay DEF RunnerTypes

\* A forwarded value is a word.
ChannelsOf == [Channel -> {<< >>} \cup {<<value>> : value \in Word}]
\* A forwarded value is a word, and so is every operand.
LEMMA ForwardedTypes ==
  ASSUME ValueInv, HasJob, Receives => channels[Job.runner.receiver] # << >>
  PROVE  /\ Forwards \in ForwardsOf /\ Received \in ChannelsOf
         /\ Operands \in [Register -> Word]
<1>1. /\ registers \in [Register -> Word] /\ forwards \in ForwardsOf /\ channels \in ChannelsOf
  BY DEF ValueInv, DataTypes, ForwardsOf, ChannelsOf
<1>2. PICK i : i = IndexOf(JobPc) + 1 /\ i \in 1..Len(app.Instructions)
  BY JobTyped
<1>3. Forwards \in ForwardsOf /\ Received \in ChannelsOf
  <2>1. CASE ~Receives
    BY <1>1, <2>1 DEF Forwards, Received
  <2>2. CASE Receives
    <3>1. PICK receiver, register :
            /\ receiver = Job.runner.receiver /\ register = Job.runner.forwardRegister
            /\ receiver \in Channel /\ register \in Register
      BY <2>2, JobTyped DEF Receives, ProgramRunner
    <3>2. PICK value \in Word : channels[receiver] = <<value>>
      BY <1>1, <2>2, <3>1 DEF ChannelsOf
    <3>3. channels[receiver][1] = value
      BY <3>2
    <3>4. Forwards = [forwards EXCEPT ![i] = [Register |-> register, Value |-> value]]
      BY <1>2, <2>2, <3>1, <3>3, Zenon DEF Forwards
    <3>5. Received = [channels EXCEPT ![receiver] = << >>]
      BY <2>2, <3>1, Zenon DEF Received
    <3>6. Forwards \in ForwardsOf
      BY <1>1, <3>1, <3>4 DEF ForwardsOf
    <3>7. Received \in ChannelsOf
      BY <1>1, <3>5 DEF ChannelsOf
    <3> QED BY <3>6, <3>7
  <2> QED BY <2>1, <2>2
<1>4. PICK forward : /\ forward = Forwards[i]
                     /\ forward.Register \in Register /\ forward.Value \in Word
  BY <1>2, <1>3 DEF ForwardsOf
<1>5. Operands = [registers EXCEPT ![forward.Register] = forward.Value]
  BY <1>2, <1>4, Zenon DEF Operands
<1> QED BY <1>1, <1>3, <1>4, <1>5

\* What run is called with: a cache, a memory, and bytes for a load.
LEMMA CalledWith ==
  ASSUME ValueInv, HasJob, Runs, ~BadAddress
  PROVE  /\ IsCacheOf(Lines, Byte) /\ IsMemory(Ram)
         /\ JobInstruction.op \in LoadOps =>
              \A i \in 1..AccessSize(JobInstruction) : Bytes[i] \in Byte
<1>1. IsCacheOf(l1d, Byte) /\ IsMemory(memory)
  BY DEF ValueInv, DataTypes
<1>2. PICK job, size : /\ job = Job /\ size = AccessSize(JobInstruction) /\ size \in 1..4
                       /\ job \in ExecuteUnit /\ HoldsLoad(job)
                       /\ job.stage \in {"prepare", "hit", "miss"}
  BY JobTyped DEF AccessSize
<1>3. CASE job.stage = "prepare"
  <2>1. JobAddresses = << >> /\ ~Arrives
    BY <1>2, <1>3 DEF Runs, Arrives
  <2>2. JobInstruction.op \notin LoadOps
    <3>1. Operands \in [Register -> Word]
      BY <1>2, <1>3, ForwardedTypes DEF Runs, Ready, Arrives
    <3>2. JobInstruction \in InstructionRunner
      BY JobTyped
    <3> QED BY <2>1, <3>1, <3>2, LoadAddresses DEF JobAddresses
  <2> QED BY <1>1, <2>1, <2>2 DEF Lines, Ram
<1>4. CASE job.stage = "hit"
  <2>1. ~Arrives /\ Bytes = job.bytes
    BY <1>2, <1>4 DEF Arrives, Bytes
  <2>2. job.bytes \in Seq(Byte) /\ Len(job.bytes) = size
    BY <1>2, <1>4 DEF HoldsLoad, ExecuteUnit, JobInstruction, JobPc
  <2>3. \A i \in 1..size : Bytes[i] \in Byte
    BY <1>2, <2>1, <2>2
  <2> QED BY <1>1, <1>2, <2>1, <2>3 DEF Lines, Ram
<1>5. CASE job.stage = "miss"
  <2>1. PICK addrs, pushed : /\ addrs = job.addrs /\ pushed = PushedLines(l1d, memory, addrs[1])
    OBVIOUS
  <2>2. /\ Lines = TouchAll(pushed, addrs) /\ Ram = PushedMemory(l1d, memory, addrs[1])
        /\ Bytes = ReadValues(pushed, addrs) /\ ~NoLine(l1d, memory, addrs, Word)
    BY <1>2, <1>5, <2>1 DEF Arrives, Lines, Ram, Bytes, BadAddress
  <2>3. addrs \in Seq(Int) /\ Len(addrs) = size
    BY <1>2, <1>5, <2>1 DEF HoldsLoad, ExecuteUnit, JobInstruction, JobPc
  <2>4. addrs[1] \in Int /\ AllIn(pushed, addrs) /\ \A i \in 1..Len(addrs) : addrs[i] \in Int
    BY <1>2, <2>1, <2>2, <2>3 DEF NoLine
  <2>5. 0 \in Byte /\ memory \in [DOMAIN memory -> Byte]
    BY <1>1, ByteRange DEF IsMemory
  <2>6. /\ IsCacheOf(pushed, Byte)
        /\ PushedMemory(l1d, memory, addrs[1]) \in [DOMAIN memory -> Byte]
    BY <1>1, <2>1, <2>4, <2>5, PushesKeepValues
  <2>7. IsMemory(Ram)
    BY <1>1, <2>2, <2>6 DEF IsMemory
  <2>8. IsCacheOf(Lines, Byte)
    BY <2>2, <2>6, LookupsKeepLines
  <2>9. \A i \in 1..size : Bytes[i] \in Byte
    BY <2>2, <2>3, <2>4, <2>6, ReadsValues DEF IsCacheOf
  <2> QED BY <1>2, <2>7, <2>8, <2>9
<1> QED BY <1>2, <1>3, <1>4, <1>5

\* What run returns.
LEMMA ResultTyped ==
  ASSUME ValueInv, Runs, ~BadAddress
  PROVE  /\ HasJob /\ WordResult(Result) /\ Result.Outcome \in {"ok", "error", "panic"}
         /\ IsCacheOf(Lines, Byte) /\ IsMemory(Ram)
         /\ Forwards \in ForwardsOf /\ Received \in ChannelsOf
<1>1. HasJob
  BY DEF Runs, Ready
<1>2. Receives => channels[Job.runner.receiver] # << >>
  BY DEF Runs, Ready, Receives, Arrives
<1>3. /\ JobInstruction \in InstructionRunner /\ LabelsAreWords(app) /\ JobPc \in Int
  BY <1>1, JobTyped
<1>4. /\ Operands \in [Register -> Word] /\ Forwards \in ForwardsOf /\ Received \in ChannelsOf
  BY <1>1, <1>2, ForwardedTypes
<1>5. /\ IsCacheOf(Lines, Byte) /\ IsMemory(Ram)
      /\ JobInstruction.op \in LoadOps =>
           \A i \in 1..AccessSize(JobInstruction) : Bytes[i] \in Byte
  BY <1>1, CalledWith
<1>6. WordResult(Result)
  BY <1>3, <1>4, <1>5, ResultsAreWords DEF Result
<1>7. Result.Outcome \in {"ok", "error", "panic"}
  BY <1>3, OutcomesOfRun DEF Result
<1> QED BY <1>1, <1>4, <1>5, <1>6, <1>7

\* After a unit's turn the place is one of CPU.Run's.
LEMMA PlaceAfterUnit ==
  ASSUME PlaceTypes, NEW stage \in Phases, NEW after \in Phases, NextUnit(stage, after),
         UNCHANGED <<btb, signal>>
  PROVE  PlaceTypes'
<1>1. unit \in {1, 2} /\ unit' = 3 - unit /\ phase' \in {stage, after} /\ status' = status
  BY DEF PlaceTypes, Unit, NextUnit
<1> QED BY <1>1 DEF PlaceTypes, Unit

\* The branch target buffer is not longer than its length.
LEMMA LearnKeepsLength ==
  ASSUME IsList(btb), Len(btb) <= BtbSize, NEW pc, NEW pcTo
  PROVE  IsList(Learn(btb, pc, pcTo)) /\ Len(Learn(btb, pc, pcTo)) <= BtbSize
<1>0. PICK S : btb \in Seq(S)
  BY DEF IsList
<1>1. PICK n \in Nat : btb \in Seq(S) /\ n = Len(btb) /\ n <= BtbSize
  BY <1>0
<1>2. PICK entry, T : entry = [pc |-> pc, pcDest |-> pcTo] /\ T = S \cup {entry}
  OBVIOUS
<1>3. btb \in Seq(T) /\ entry \in T /\ BtbSize \in Nat \ {0}
  BY <1>1, <1>2, BtbAssumption
<1>4. CASE Known(btb, pc)
  <2>1. PICK updated : updated = [i \in 1..n |-> IF btb[i].pc = pc THEN entry ELSE btb[i]]
    OBVIOUS
  <2>2. updated \in [1..n -> T]
    BY <1>1, <1>3, <2>1
  <2>3. Learn(btb, pc, pcTo) = updated
    BY <1>1, <1>2, <1>4, <2>1, Zenon DEF Learn
  <2>4. updated \in Seq(T) /\ Len(updated) = n
    BY <1>1, <2>2
  <2> QED BY <1>1, <2>3, <2>4 DEF IsList
<1>5. CASE ~Known(btb, pc) /\ n # BtbSize
  <2>1. Learn(btb, pc, pcTo) = Append(btb, entry)
    BY <1>1, <1>2, <1>5 DEF Learn
  <2>2. Append(btb, entry) \in Seq(T) /\ Len(Append(btb, entry)) = n + 1
    BY <1>1, <1>3
  <2> QED BY <1>1, <1>3, <1>5, <2>1, <2>2 DEF IsList
<1>6. CASE ~Known(btb, pc) /\ n = BtbSize
  <2>1. Learn(btb, pc, pcTo) = Append(Tail(btb), entry)
    BY <1>1, <1>2, <1>6 DEF Learn
  <2>4. n # 0 /\ btb # << >>
    BY <1>1, <1>3, <1>6
  <2>2. Tail(btb) \in Seq(T) /\ Len(Tail(btb)) = n - 1
    BY <1>1, <1>3, <2>4
  <2>3. Append(Tail(btb), entry) \in Seq(T) /\ Len(Append(Tail(btb), entry)) = n
    BY <1>1, <1>3, <2>2
  <2> QED BY <1>1, <2>1, <2>3 DEF IsList
<1> QED BY <1>4, <1>5, <1>6

\* A unit that has executed its runner is free.
LEMMA IdleUnit == IdleEu \in ExecuteUnit /\ HoldsLoad(IdleEu)
<1>1. IdleEu \in ExecuteUnit /\ IdleEu.stage = "start"
  BY DEF IdleEu, ExecuteUnit, Stages
<1> QED BY <1>1 DEF HoldsLoad

\* The execute units until they call run.
LEMMA GoingOnKeepsValues == ASSUME ValueInv, Execute, ExecuteGoesOn PROVE Values'
<1>1. /\ FrontTypes /\ RunnerTypes /\ DataTypes /\ ResultTypes /\ PlaceTypes
      /\ registers \in [Register -> Word] /\ IsMemory(memory) /\ IsCacheOf(l1d, Byte)
      /\ forwards \in ForwardsOf /\ channels \in ChannelsOf
  BY DEF ValueInv, DataTypes, ForwardsOf, ChannelsOf
<1>2. UNCHANGED <<app, registers, memory, l1i, fu, decodeBus, controlBus, pendings, btb,
                  writeBus, wus, signal>>
  BY DEF Execute, ExecuteGoesOn, ExecuteNothing, ExecuteWaits, ExecuteReads, ExecuteCounts,
     controlVars
<1>3. PlaceTypes'
  BY <1>1, <1>2, PlaceAfterUnit DEF ExecuteGoesOn, Phases
<1>4. FrontTypes' /\ ResultTypes'
  BY <1>1, <1>2, FrontTypesStay, ResultTypesStay
<1>5. CASE ExecuteNothing
  <2>1. UNCHANGED <<executeBus, eus, l1d, forwards, channels>>
    BY <1>5 DEF ExecuteNothing
  <2> QED BY <1>1, <1>2, <1>3, <1>4, <2>1, RunnerTypesStay, DataTypesStay DEF Values
<1>6. CASE ExecuteWaits
  <2>1. HasJob /\ TakeJob /\ Becomes(Job) /\ UNCHANGED <<l1d, forwards, channels>>
    BY <1>6 DEF ExecuteWaits
  <2>2. RunnerTypes'
    BY <1>2, <2>1, JobTyped, UnitBecomes
  <2> QED BY <1>1, <1>2, <1>3, <1>4, <2>1, <2>2, DataTypesStay DEF Values
<1>7. CASE ExecuteReads
  <2>1. PICK job, addrs :
          /\ job = Job /\ addrs = JobAddresses /\ addrs # << >> /\ HasJob /\ TakeJob
          /\ Becomes(IF AllIn(l1d, addrs)
                     THEN [job EXCEPT !.stage = "hit", !.bytes = ReadValues(l1d, addrs)]
                     ELSE [job EXCEPT !.stage = "miss", !.addrs = addrs,
                                      !.remaining = MemoryCycles - 1])
          /\ l1d' = TouchAll(l1d, addrs) /\ forwards' = Forwards /\ channels' = Received
    BY <1>7, Zenon DEF ExecuteReads, Ready
  <2>2. /\ job \in ExecuteUnit /\ job.runner \in ProgramRunner /\ JobPc = job.runner.pc
        /\ JobInstruction \in InstructionRunner
    BY <2>1, JobTyped DEF JobPc
  <2>3. Forwards \in ForwardsOf /\ Received \in ChannelsOf /\ Operands \in [Register -> Word]
    BY <1>7, <2>1, ForwardedTypes DEF ExecuteReads, Ready
  <2>4. /\ JobInstruction.op \in LoadOps /\ Len(addrs) = AccessSize(JobInstruction)
        /\ \A i \in 1..Len(addrs) : addrs[i] \in Int
    BY <2>1, <2>2, <2>3, LoadAddresses DEF JobAddresses
  <2>5. PICK size \in 1..4 : size = Len(addrs) /\ addrs \in [1..size -> Int]
    <3>1. AccessSize(JobInstruction) \in 1..4
      BY DEF AccessSize
    <3>2. addrs = [i \in 1..Len(addrs) |-> addrs[i]]
      BY <2>1, <2>2, <2>4 DEF JobAddresses, MemoryRead, Addresses
    <3> QED BY <2>4, <3>1, <3>2
  <2>6. addrs \in Seq(Int)
    BY <2>5
  <2>7. ASSUME AllIn(l1d, addrs) PROVE RunnerTypes'
    <3>1. PICK bytes : bytes = ReadValues(l1d, addrs)
      OBVIOUS
    <3>2. \A i \in 1..size : bytes[i] \in Byte
      BY <1>1, <2>4, <2>5, <2>7, <3>1, ReadsValues DEF IsCacheOf
    <3>3. bytes = [i \in 1..size |-> bytes[i]]
      BY <2>5, <3>1 DEF ReadValues
    <3>4. bytes \in Seq(Byte) /\ Len(bytes) = size
      BY <3>2, <3>3
    <3>5. PICK eu : eu = [job EXCEPT !.stage = "hit", !.bytes = bytes] /\ Becomes(eu)
      BY <2>1, <2>7, <3>1
    <3>6. eu \in ExecuteUnit /\ eu.stage = "hit" /\ eu.runner = job.runner /\ eu.bytes = bytes
      BY <2>2, <3>4, <3>5 DEF ExecuteUnit, Stages
    <3>7. HoldsLoad(eu)
      BY <2>2, <2>4, <2>5, <3>4, <3>6 DEF HoldsLoad, JobInstruction
    <3> QED BY <1>2, <2>1, <3>5, <3>6, <3>7, UnitBecomes
  <2>8. ASSUME ~AllIn(l1d, addrs) PROVE RunnerTypes'
    <3>1. PICK eu : /\ eu = [job EXCEPT !.stage = "miss", !.addrs = addrs,
                                        !.remaining = MemoryCycles - 1]
                    /\ Becomes(eu)
      BY <2>1, <2>8
    <3>2. MemoryCycles - 1 \in Nat
      BY Mvp6Assumption
    <3>3. eu \in ExecuteUnit /\ eu.stage = "miss" /\ eu.runner = job.runner /\ eu.addrs = addrs
      BY <2>2, <2>6, <3>1, <3>2 DEF ExecuteUnit, Stages
    <3>4. HoldsLoad(eu)
      BY <2>2, <2>4, <3>3 DEF HoldsLoad, JobInstruction
    <3> QED BY <1>2, <2>1, <3>1, <3>3, <3>4, UnitBecomes
  <2>9. RunnerTypes'
    BY <2>7, <2>8
  <2>10. IsCacheOf(l1d', Byte)
    BY <1>1, <2>1, LookupsKeepLines
  <2>11. DataTypes'
    BY <1>1, <1>2, <2>1, <2>3, <2>10 DEF DataTypes, ForwardsOf, ChannelsOf
  <2> QED BY <1>3, <1>4, <2>9, <2>11 DEF Values
<1>8. CASE ExecuteCounts
  <2>1. PICK job, eu :
          /\ job = Job /\ HasJob /\ job.stage = "miss" /\ job.remaining > 0
          /\ eu = [job EXCEPT !.remaining = job.remaining - 1] /\ Becomes(eu)
          /\ UNCHANGED <<executeBus, l1d, forwards, channels>>
    BY <1>8 DEF ExecuteCounts
  <2>2. job \in ExecuteUnit /\ HoldsLoad(job)
    BY <2>1, JobTyped
  <2>3. job.remaining - 1 \in Nat
    BY <2>1, <2>2 DEF ExecuteUnit
  <2>4. eu \in ExecuteUnit /\ HoldsLoad(eu)
    BY <2>1, <2>2, <2>3 DEF ExecuteUnit, HoldsLoad
  <2>5. RunnerTypes'
    BY <1>2, <2>1, <2>4, UnitBecomes
  <2> QED BY <1>1, <1>2, <1>3, <1>4, <2>1, <2>5, DataTypesStay DEF Values
<1> QED BY <1>5, <1>6, <1>7, <1>8 DEF ExecuteGoesOn

\* The call of run.
LEMMA RunKeepsValues == ASSUME ValueInv, Execute, ~ExecuteGoesOn PROVE Values'
<1>1. /\ FrontTypes /\ RunnerTypes /\ DataTypes /\ ResultTypes /\ PlaceTypes
      /\ registers \in [Register -> Word] /\ IsCacheOf(l1d, Byte)
  BY DEF ValueInv, DataTypes
<1>2. UNCHANGED <<app, l1i, decodeBus, controlBus, pendings, wus>>
  BY DEF Execute, controlVars
<1>3. CASE ExecuteFails
  <2>1. UNCHANGED <<registers, memory, l1d, fu, executeBus, eus, forwards, channels, btb,
                    writeBus, signal, phase, unit>>
    BY <1>3 DEF ExecuteFails, contextVars, executeVars
  <2>2. status' \in Ending
    BY <1>3, ResultTyped DEF ExecuteFails, Ending
  <2>3. PlaceTypes'
    BY <1>1, <2>1, <2>2 DEF PlaceTypes
  <2> QED BY <1>1, <1>2, <2>1, <2>3, FrontTypesStay, RunnerTypesStay, DataTypesStay,
             ResultTypesStay DEF Values
<1>4. CASE ExecuteReturns \/ ExecuteStores \/ ExecutePasses
  <2>1. /\ Runs /\ ~BadAddress /\ TakeJob /\ Becomes(IdleEu)
        /\ forwards' = Forwards /\ memory' = Ram
    BY <1>4 DEF ExecuteReturns, ExecuteStores, ExecutePasses, Succeeds, Free
  <2>2. PICK exe : exe = Result
    OBVIOUS
  <2>3. /\ HasJob /\ WordResult(exe) /\ IsCacheOf(Lines, Byte) /\ IsMemory(memory')
        /\ forwards' \in ForwardsOf /\ Received \in ChannelsOf
    BY <2>1, <2>2, ResultTyped
  <2>4. RunnerTypes'
    BY <1>2, <2>1, <2>3, IdleUnit, UnitBecomes
  <2>5. ASSUME NEW probed, probed = Lines \/ probed \in Probed(Lines, exe.MemoryChanges)
        PROVE  /\ IsCacheOf(probed, Byte)
               /\ IsCacheOf(Write(probed, exe.MemoryChanges), Byte)
    <3>1. IsCacheOf(probed, Byte)
      BY <2>3, <2>5, LookupsKeepLines DEF Probed
    <3> QED BY <2>3, <3>1, WriteKeepsLines DEF WordResult
  <2>6. IsCacheOf(l1d', Byte)
    <3>1. CASE ExecuteReturns
      BY <2>3, <3>1 DEF ExecuteReturns
    <3>2. CASE ExecuteStores
      <4>1. \E probed \in Probed(Lines, exe.MemoryChanges) :
              l1d' = probed \/ l1d' = Write(probed, exe.MemoryChanges)
        BY <2>2, <3>2 DEF ExecuteStores
      <4> QED BY <2>5, <4>1
    <3>3. CASE ExecutePasses
      <4>1. l1d' = Lines \/ l1d' \in Probed(Lines, exe.MemoryChanges)
        BY <2>2, <3>3 DEF ExecutePasses
      <4> QED BY <2>5, <4>1
    <3> QED BY <1>4, <3>1, <3>2, <3>3
  <2>7. registers' \in [Register -> Word]
    <3>1. \/ registers' = registers
          \/ registers' = DirectWrite(JobInstruction, exe, registers, JobPc)
      BY <1>4, <2>2 DEF ExecuteReturns, ExecuteStores, ExecutePasses
    <3>2. JobPc \in Word
      BY <2>3, JobTyped, Mvp6Assumption, ValuesOfProgram DEF ProgramPc, ValueInv
    <3>3. DirectWrite(JobInstruction, exe, registers, JobPc) \in [Register -> Word]
      BY <1>1, <3>2, IsaAssumption DEF DirectWrite
    <3> QED BY <1>1, <3>1, <3>3
  <2>8. channels' \in ChannelsOf
    <3>1. \/ channels' = Received
          \/ channels' = [Received EXCEPT ![Job.runner.forwarder] = <<exe.RegisterValue>>]
      BY <1>4, <2>2 DEF ExecuteReturns, ExecuteStores, ExecutePasses, PassesOn,
         Forwarding, Sends
    <3>2. exe.RegisterValue \in Word
      BY <2>3 DEF WordResult
    <3> QED BY <2>3, <3>1, <3>2 DEF ChannelsOf
  <2>9. DataTypes'
    BY <1>2, <2>3, <2>6, <2>7, <2>8 DEF DataTypes, ForwardsOf, ChannelsOf
  <2>10. FrontTypes'
    <3>1. fu' = fu \/ fu' = ResetTo(exe.NextPc)
      BY <1>4, <2>2 DEF ExecuteReturns, ExecuteStores, ExecutePasses, PassesOn,
         Forwarding, Notify
    <3>2. exe.NextPc \in Int
      BY <2>3 DEF WordResult, Word
    <3>3. fu' \in FetchUnit
      BY <1>1, <3>1, <3>2 DEF FrontTypes, FetchUnit, ResetTo
    <3> QED BY <1>1, <1>2, <3>3, SetsStay DEF FrontTypes
  <2>11. ResultTypes'
    <3>1. PICK S : /\ AreResults(S) /\ writeBus \in Facts!BusOf(S)
                   /\ wus \in [Unit -> WriteUnit(S)]
      BY <1>1 DEF ResultTypes
    <3>2. CASE UNCHANGED writeBus
      BY <1>1, <1>2, <3>2, ResultTypesStay
    <3>3. CASE ExecutePasses
      <4>1. PICK result, T : result = [pc |-> JobPc, exe |-> exe] /\ T = S \cup {result}
        OBVIOUS
      <4>2. writeBus' = Put(writeBus, result)
        BY <2>2, <3>3, <4>1 DEF ExecutePasses
      <4>3. AreResults(T)
        BY <2>3, <3>1, <4>1 DEF AreResults
      <4>4. writeBus \in Facts!BusOf(T) /\ result \in T
        BY <3>1, <4>1, BusOfMore
      <4>5. writeBus' \in Facts!BusOf(T)
        BY <4>2, <4>4, BusOfSet
      <4>6. wus' \in [Unit -> WriteUnit(T)]
        BY <1>2, <3>1, <4>1 DEF WriteUnit
      <4> QED BY <4>3, <4>5, <4>6 DEF ResultTypes
    <3> QED BY <1>4, <3>2, <3>3 DEF ExecuteReturns, ExecuteStores
  <2>12. PlaceTypes'
    <3>1. IsList(btb') /\ Len(btb') <= BtbSize
      <4>1. btb' = btb \/ btb' = Learn(btb, JobPc, exe.NextPc)
        BY <1>4, <2>2 DEF ExecuteReturns, ExecuteStores, ExecutePasses, PassesOn, Forwarding,
           Notify, Free
      <4> QED BY <1>1, <4>1, LearnKeepsLength DEF PlaceTypes
    <3>2. signal' \in Signal
      <4>1. \/ signal' = signal \/ signal' = [signal EXCEPT !.ret = TRUE]
            \/ signal' = [signal EXCEPT !.flush = TRUE, !.from = JobPc,
                                        !.pc = Larger(signal.pc, exe.NextPc)]
        BY <1>4, <2>2 DEF ExecuteReturns, ExecuteStores, ExecutePasses, PassesOn, Forwarding
      <4>2. signal \in Signal /\ JobPc \in Int /\ Larger(signal.pc, exe.NextPc) \in Int
        BY <1>1, <2>3, JobTyped DEF PlaceTypes, Signal, Larger, WordResult, Word
      <4> QED BY <4>1, <4>2 DEF Signal
    <3>3. phase' \in Phases /\ unit' \in Unit /\ status' \in Ending
      <4>1. \/ NextUnit("execute", "write")
            \/ status' = "panic" /\ UNCHANGED <<phase, unit>>
        BY <1>4 DEF ExecuteReturns, ExecuteStores, ExecutePasses, PassesOn, Forwarding
      <4> QED BY <1>1, <4>1 DEF PlaceTypes, NextUnit, Phases, Unit, Ending
    <3> QED BY <3>1, <3>2, <3>3 DEF PlaceTypes
  <2> QED BY <2>4, <2>9, <2>10, <2>11, <2>12 DEF Values
<1> QED BY <1>3, <1>4 DEF Execute

\* A cycle of a write unit.
LEMMA WriteCycleKeepsValues ==
  ASSUME ValueInv, NEW before, WriteCycle(before), UNCHANGED <<app, cacheVars, executeVars>>
  PROVE  DataTypes' /\ ResultTypes'
<1>1. /\ registers \in [Register -> Word] /\ IsMemory(memory) /\ unit \in Unit
      /\ DataTypes /\ UNCHANGED <<l1d, forwards, channels>>
  BY DEF ValueInv, DataTypes, PlaceTypes, cacheVars, executeVars
<1>2. PICK S : /\ AreResults(S) /\ writeBus \in Facts!BusOf(S)
               /\ wus \in [Unit -> WriteUnit(S)]
  BY DEF ValueInv, ResultTypes
<1>3. PICK wu : wu = wus[unit] /\ wu = Wu /\ wu \in WriteUnit(S)
  BY <1>1, <1>2 DEF Wu
<1>4. PICK written : written = Written /\ (Takable => written \in S)
  BY <1>2, BusOfSet DEF Takable, Written
<1>5. MemoryCycles \in Nat \ {0} /\ 0 \in 0..MemoryCycles /\ MemoryCycles \in 0..MemoryCycles
  BY Mvp6Assumption
<1>6. ASSUME NEW becomes \in WriteUnit(S), wus' = [wus EXCEPT ![unit] = becomes]
      PROVE  wus' \in [Unit -> WriteUnit(S)]
  BY <1>1, <1>2, <1>6
<1>7. writeBus' \in Facts!BusOf(S)
  <2>1. CASE UNCHANGED writeBus
    BY <1>2, <2>1
  <2>2. CASE Takable /\ TakeWritten
    BY <1>2, <2>2, BusOfSet DEF Takable, TakeWritten
  <2> QED BY <2>1, <2>2 DEF WriteCycle, WriteNothing, WriteWaits, WriteMemoryBack, WriteDrops
<1>8. wus' \in [Unit -> WriteUnit(S)]
  <2>1. CASE WriteWaits
    <3>1. /\ wu.busy /\ wu.remaining > 0
          /\ wus' = [wus EXCEPT ![unit].remaining = wu.remaining - 1]
      BY <1>3, <2>1 DEF WriteWaits
    <3>2. wu.remaining - 1 \in 0..MemoryCycles
      BY <1>3, <1>5, <3>1 DEF WriteUnit
    <3>3. [wu EXCEPT !.remaining = wu.remaining - 1] \in WriteUnit(S)
      BY <1>3, <3>2 DEF WriteUnit
    <3>4. wus' = [wus EXCEPT ![unit] = [wu EXCEPT !.remaining = wu.remaining - 1]]
      BY <1>3, <3>1
    <3> QED BY <1>6, <3>3, <3>4
  <2>2. CASE WriteMemoryBack
    <3>1. IdleWu \in WriteUnit(S)
      BY <1>2, <1>5 DEF IdleWu, WriteUnit, AreResults
    <3> QED BY <1>6, <2>2, <3>1 DEF WriteMemoryBack
  <2>3. CASE Takable /\ WriteStarts
    <3>1. [busy |-> TRUE, remaining |-> MemoryCycles, result |-> written] \in WriteUnit(S)
      BY <1>4, <1>5, <2>3 DEF WriteUnit
    <3> QED BY <1>4, <1>6, <2>3, <3>1 DEF WriteStarts
  <2>4. CASE UNCHANGED wus
    BY <1>2, <2>4
  <2> QED BY <2>1, <2>2, <2>3, <2>4 DEF WriteCycle, WriteNothing, WriteDrops, WriteRegisterBack,
             WriteNoChange
<1>9. registers' \in [Register -> Word] /\ IsMemory(memory')
  <2>1. CASE Takable /\ WriteRegisterBack
    <3>1. /\ registers' = [registers EXCEPT ![written.exe.Register] = written.exe.RegisterValue]
          /\ UNCHANGED memory
      BY <1>4, <2>1 DEF WriteRegisterBack, WriteRegister
    <3>2. written.exe.RegisterValue \in Word
      BY <1>2, <1>4, <2>1 DEF AreResults, WordResult
    <3> QED BY <1>1, <3>1, <3>2
  <2>2. CASE WriteMemoryBack
    <3>1. PICK changes : changes = wu.result.exe.MemoryChanges
      OBVIOUS
    <3>2. memory' = WriteMemory(memory, changes) /\ UNCHANGED registers
      BY <1>3, <2>2, <3>1 DEF WriteMemoryBack
    <3>3. wu.result \in S
      BY <1>3 DEF WriteUnit
    <3>4. \A a \in DOMAIN changes : changes[a] \in Byte
      BY <1>2, <3>1, <3>3 DEF AreResults, WordResult
    <3>5. IsMemory(WriteMemory(memory, changes))
      BY <1>1, <3>4 DEF IsMemory, WriteMemory
    <3> QED BY <1>1, <3>2, <3>5
  <2>3. CASE UNCHANGED <<registers, memory>>
    BY <1>1, <2>3
  <2> QED BY <2>1, <2>2, <2>3 DEF WriteCycle, WriteNothing, WriteWaits, WriteDrops, WriteStarts,
             WriteNoChange, contextVars
<1>10. DataTypes'
  BY <1>1, <1>9 DEF DataTypes
<1> QED BY <1>2, <1>7, <1>8, <1>10 DEF ResultTypes

\* The write units, in the loop, after a ret and before a flush.
LEMMA WriteKeepsValues ==
  ASSUME ValueInv, WriteBack \/ ReturnWrites \/ DrainWrites PROVE Values'
<1>1. \E before : WriteCycle(before)
  BY DEF WriteBack, ReturnWrites, DrainWrites
<1>2. FrontTypes /\ RunnerTypes /\ PlaceTypes
  BY DEF ValueInv
<1>3. UNCHANGED <<app, cacheVars, frontVars, controlVars, executeBus, executeVars, signal>>
  BY DEF WriteBack, ReturnWrites, DrainWrites, OutsideWriteUnits
<1>4. DataTypes' /\ ResultTypes'
  BY <1>1, <1>3, WriteCycleKeepsValues
<1>5. FrontTypes' /\ RunnerTypes'
  BY <1>2, <1>3, FrontTypesStay, RunnerTypesStay
  DEF cacheVars, frontVars, controlVars, executeVars
<1>6. PlaceTypes'
  <2>1. CASE NextUnit("write", "end") \/ NextUnit("return", "connect")
    BY <1>2, <1>3, <2>1, PlaceAfterUnit DEF executeVars, Phases
  <2>2. CASE UNCHANGED placeVars
    BY <1>2, <1>3, <2>2 DEF PlaceTypes, executeVars, placeVars
  <2> QED BY <2>1, <2>2 DEF WriteBack, ReturnWrites, DrainWrites
<1> QED BY <1>4, <1>5, <1>6 DEF Values

\* The rest of CPU.Run's loop, but for the flush.
LEMMA LoopKeepsValues ==
  ASSUME ValueInv, WritePanics \/ EndOfCycle \/ ReturnConnects \/ ReturnEnds \/ DrainNext
  PROVE  Values'
<1>1. FrontTypes /\ RunnerTypes /\ DataTypes /\ ResultTypes /\ PlaceTypes
  BY DEF ValueInv
<1>2. UNCHANGED <<app, registers, cacheVars, frontVars, controlVars, executeBus, executeVars,
                  signal, wus>>
  BY DEF WritePanics, EndOfCycle, ReturnConnects, ReturnEnds, DrainNext, Finish,
     OutsideWriteUnits, contextVars
<1>3. UNCHANGED <<l1i, l1d, fu, decodeBus, controlBus, pendings, eus, forwards, channels, btb>>
  BY <1>2 DEF cacheVars, frontVars, controlVars, executeVars
<1>4. FrontTypes' /\ RunnerTypes'
  BY <1>1, <1>2, <1>3, FrontTypesStay, RunnerTypesStay
<1>5. PICK S : /\ AreResults(S) /\ writeBus \in Facts!BusOf(S)
               /\ wus \in [Unit -> WriteUnit(S)]
  BY <1>1 DEF ResultTypes
<1>6. writeBus' = writeBus \/ writeBus' = Connected(writeBus)
  BY DEF WritePanics, EndOfCycle, ReturnConnects, ReturnEnds, DrainNext, Finish
<1>7. ResultTypes'
  <2>1. writeBus' \in Facts!BusOf(S)
    BY <1>5, <1>6, BusOfSet
  <2> QED BY <1>2, <1>5, <2>1 DEF ResultTypes
<1>8. IsMemory(memory')
  <2>1. memory' = memory \/ memory' = Flushed(l1d, memory)
    BY DEF WritePanics, EndOfCycle, ReturnConnects, ReturnEnds, DrainNext, Finish, contextVars
  <2>2. /\ memory \in [DOMAIN memory -> Byte] /\ DOMAIN memory \subseteq Nat
        /\ DOMAIN memory \subseteq Int /\ l1d \in Seq(LineOf(Byte)) /\ IsMemory(memory)
    BY <1>1 DEF DataTypes, IsMemory, IsCacheOf
  <2>3. Flushed(l1d, memory) \in [DOMAIN memory -> Byte]
    BY <2>2, FlushKeepsValues
  <2> QED BY <2>1, <2>2, <2>3 DEF IsMemory
<1>9. DataTypes'
  BY <1>1, <1>2, <1>3, <1>8 DEF DataTypes
<1>10. PlaceTypes'
  <2>1. phase' \in Phases /\ unit' \in Unit /\ status' \in Ending
    BY <1>1 DEF WritePanics, EndOfCycle, ReturnConnects, ReturnEnds, DrainNext, Finish, GoTo,
       PlaceTypes, Phases, Unit, Ending
  <2> QED BY <1>1, <1>2, <1>3, <2>1 DEF PlaceTypes
<1> QED BY <1>4, <1>7, <1>9, <1>10 DEF Values

\* The flush empties the pipeline.
LEMMA FlushKeepsTypes == ASSUME ValueInv, FlushPipeline PROVE Values'
<1>1. FrontTypes /\ RunnerTypes /\ DataTypes /\ ResultTypes /\ PlaceTypes
  BY DEF ValueInv
<1>2. /\ UNCHANGED <<app, registers, memory, l1i, l1d, forwards, channels, btb, wus>>
      /\ fu' = [fu EXCEPT !.coroutine = "start", !.complete = FALSE, !.pc = signal.pc]
      /\ pendings' = << >> /\ eus' = [i \in Unit |-> IdleEu] /\ signal' = NoSignal
      /\ decodeBus' = Bus!NewBus /\ controlBus' = Bus!NewBus
      /\ executeBus' = Bus!NewBus /\ writeBus' = Bus!NewBus
      /\ phase' = "fetch" /\ unit' = 1 /\ status' = status
  BY DEF FlushPipeline, FlushedUnits, GoTo, cacheVars
<1>3. FrontTypes'
  <2>1. fu' \in FetchUnit
    BY <1>1, <1>2 DEF FrontTypes, FetchUnit, PlaceTypes, Signal
  <2>2. decodeBus' \in Facts!BusOf(Int) /\ controlBus' \in Facts!BusOf(ProgramPc)
    BY <1>1, <1>2, BusOfSet DEF FrontTypes
  <2> QED BY <1>1, <1>2, <2>1, <2>2, SetsStay DEF FrontTypes
<1>4. RunnerTypes'
  <2>1. executeBus' \in Facts!BusOf(ProgramRunner) /\ Len(executeBus'.buffer) <= BusSize
    <3>1. Bus!NewBus.buffer = << >> /\ executeBus' = Bus!NewBus /\ Len(<< >>) <= BusSize
      BY <1>2 DEF Bus!NewBus, BusSize
    <3>2. Bus!NewBus \in Facts!BusOf(ProgramRunner)
      BY <1>1, BusOfSet DEF RunnerTypes
    <3> QED BY <3>1, <3>2, Zenon
  <2>2. eus' \in [Unit -> ExecuteUnit] /\ \A i \in Unit : HoldsLoad(eus'[i])
    BY <1>2, IdleUnit
  <2>3. pendings' \in Seq(ProgramRunner) /\ Len(pendings') <= 1
    BY <1>2
  <2> QED BY <1>2, <2>1, <2>2, <2>3, SetsStay DEF RunnerTypes
<1>5. DataTypes'
  BY <1>1, <1>2, DataTypesStay
<1>6. ResultTypes'
  BY <1>1, <1>2, BusOfSet DEF ResultTypes
<1>7. PlaceTypes'
  BY <1>1, <1>2 DEF PlaceTypes, Signal, NoSignal, Phases, Unit
<1> QED BY <1>3, <1>4, <1>5, <1>6, <1>7 DEF Values

\* Every step; FrontInv says that the lists the control unit looks at are lists.
LEMMA NextKeepsValues == ASSUME ValueInv, FrontInv, [Next]_vars PROVE ValueInv'
<1>1. UNCHANGED app
  BY DEF Next, Fetch, Decode, Control, Execute, WriteBack, WritePanics, EndOfCycle, Finish,
     ReturnWrites, ReturnConnects, ReturnEnds, DrainWrites, DrainNext, FlushPipeline,
     FlushedUnits, Ended, OutsideWriteUnits, vars
<1>2. app' \in Applications
  BY <1>1 DEF ValueInv
<1>3. CASE UNCHANGED vars
  <2>1. UNCHANGED <<app, registers, memory, l1i, l1d, fu, decodeBus, controlBus, pendings,
                    executeBus, eus, forwards, channels, btb, writeBus, wus, signal, phase,
                    unit, status>>
    BY <1>3 DEF vars, contextVars, cacheVars, frontVars, controlVars, executeVars, placeVars
  <2>2. FrontTypes' /\ RunnerTypes' /\ DataTypes' /\ ResultTypes'
    BY <2>1, FrontTypesStay, RunnerTypesStay, DataTypesStay, ResultTypesStay DEF ValueInv
  <2>3. PlaceTypes'
    BY <2>1 DEF ValueInv, PlaceTypes
  <2> QED BY <1>2, <2>2, <2>3 DEF ValueInv
<1>4. CASE Next /\ ~UNCHANGED vars
  <2>1. Values'
    <3>1. CASE Fetch \/ Decode \/ Control
      BY <3>1, FetchKeepsValues, DecodeKeepsValues, ControlKeepsValues
    <3>2. CASE Execute
      BY <3>2, GoingOnKeepsValues, RunKeepsValues
    <3>3. CASE WriteBack \/ ReturnWrites \/ DrainWrites
      BY <3>3, WriteKeepsValues
    <3>4. CASE WritePanics \/ EndOfCycle \/ ReturnConnects \/ ReturnEnds \/ DrainNext
      BY <3>4, LoopKeepsValues
    <3>5. CASE FlushPipeline
      BY <3>5, FlushKeepsTypes
    <3> QED BY <1>4, <3>1, <3>2, <3>3, <3>4, <3>5 DEF Next, Ended
  <2> QED BY <1>2, <2>1 DEF ValueInv, Values
<1> QED BY <1>3, <1>4

\* The types, for every program, memory, cache and latency: results, forwarded values and
\* registers are words and memory and cache hold bytes, a load in an execute unit has as
\* many bytes as it reads, and the queues, both caches, the branch target buffer and the
\* control unit's runners keep to their lengths.
THEOREM SuperscalarTypes == Spec => []TypeOK6
<1>1. Init => ValueInv
  BY InitValues
<1>2. ValueInv /\ FrontInv /\ [Next]_vars => ValueInv'
  BY NextKeepsValues
<1>3. ValueInv => TypeOK6
  BY ValuesHaveTypes
<1> QED BY <1>1, <1>2, <1>3, FrontInvariant, PTL DEF Spec
=============================================================================
