-------------------------- MODULE BufferedBusProofs --------------------------
(***************************************************************************)
(* What the operations of comp.BufferedBus do to the elements on the bus,  *)
(* for any lengths and any elements.                                       *)
(***************************************************************************)
EXTENDS BufferedBus, FiniteSetTheorems, SequenceTheorems, TLAPS

EntryOf(S) == [t : S, availableFromCycle : Nat]

\* A bus whose queue is within its length; the buffer may be longer than its own.
BusOf(S) ==
  {bus \in [buffer : Seq(EntryOf(S)), queue : Seq(S)] : Len(bus.queue) <= QueueLength}

\* The elements that wait in a buffer.
Waiting(buffer) == [i \in 1..Len(buffer) |-> buffer[i].t]

\* A bus of these parts.
BusWith(buffer, queue) == [buffer |-> buffer, queue |-> queue]

\* A bus is its buffer and its queue.
LEMMA BusParts ==
  ASSUME NEW S, NEW bus \in BusOf(S)
  PROVE  \E buffer \in Seq(EntryOf(S)), queue \in Seq(S) :
           bus = BusWith(buffer, queue) /\ Len(queue) <= QueueLength
BY DEF BusOf, BusWith

\* A buffer and a queue make a bus.
LEMMA PartsAreBus ==
  ASSUME NEW S, NEW buffer \in Seq(EntryOf(S)), NEW queue \in Seq(S),
         Len(queue) <= QueueLength
  PROVE  /\ BusWith(buffer, queue) \in BusOf(S)
         /\ Elements(BusWith(buffer, queue)) = queue \o Waiting(buffer)
         /\ BusWith(buffer, queue).buffer = buffer
         /\ BusWith(buffer, queue).queue = queue
BY DEF BusOf, Elements, Waiting, BusWith

\* What the operations do to the parts of a bus.
LEMMA PartChanges ==
  ASSUME NEW buffer, NEW queue
  PROVE  /\ \A t, cycle : Add(BusWith(buffer, queue), t, cycle)
                            = BusWith(Append(buffer, Entry(t, cycle + 1)), queue)
         /\ AfterGet(BusWith(buffer, queue)) = BusWith(buffer, Tail(queue))
         /\ \A n : AfterGets(BusWith(buffer, queue), n)
                     = BusWith(buffer, SubSeq(queue, n + 1, Len(queue)))
<1>1. ASSUME NEW t, NEW cycle
      PROVE  Add(BusWith(buffer, queue), t, cycle)
               = BusWith(Append(buffer, Entry(t, cycle + 1)), queue)
  BY DEF BusWith, Add
<1>2. ASSUME NEW x
      PROVE  [BusWith(buffer, queue) EXCEPT !.queue = x] = BusWith(buffer, x)
  BY DEF BusWith
<1>3. BusWith(buffer, queue).queue = queue
  BY DEF BusWith
<1>4. AfterGet(BusWith(buffer, queue)) = BusWith(buffer, Tail(queue))
  <2>1. [BusWith(buffer, queue) EXCEPT !.queue = Tail(queue)] = BusWith(buffer, Tail(queue))
    BY <1>2, Zenon
  <2> QED
    BY <1>3, <2>1, Zenon DEF AfterGet
<1>5. ASSUME NEW n
      PROVE  AfterGets(BusWith(buffer, queue), n)
               = BusWith(buffer, SubSeq(queue, n + 1, Len(queue)))
  <2>1. PICK x : x = SubSeq(queue, n + 1, Len(queue))
    OBVIOUS
  <2>2. [BusWith(buffer, queue) EXCEPT !.queue = x] = BusWith(buffer, x)
    BY <1>2, Zenon
  <2> QED
    BY <1>3, <2>1, <2>2, Zenon DEF AfterGets
<1> QED
  BY <1>1, <1>4, <1>5, Zenon

\* What waits in a buffer is a sequence of elements.
LEMMA WaitingIsSeq ==
  ASSUME NEW S, NEW buffer \in Seq(EntryOf(S))
  PROVE  /\ Waiting(buffer) \in Seq(S) /\ Len(Waiting(buffer)) = Len(buffer)
         /\ \A i \in 1..Len(buffer) : Waiting(buffer)[i] = buffer[i].t
<1>1. Len(buffer) \in Nat /\ \A i \in 1..Len(buffer) : buffer[i] \in EntryOf(S)
  OBVIOUS
<1>2. \A i \in 1..Len(buffer) : buffer[i].t \in S
  BY <1>1 DEF EntryOf
<1>3. Waiting(buffer) \in [1..Len(buffer) -> S]
  BY <1>2 DEF Waiting
<1>4. PICK n \in Nat : n = Len(buffer)
  BY <1>1
<1>5. PICK waiting : waiting = Waiting(buffer)
  OBVIOUS
<1>6. waiting \in Seq(S) /\ Len(waiting) = n
  BY <1>3, <1>4, <1>5
<1>7. \A i \in 1..Len(buffer) : Waiting(buffer)[i] = buffer[i].t
  BY DEF Waiting
<1> QED
  BY <1>4, <1>5, <1>6, <1>7

\* The elements of a bus are a sequence.
LEMMA ElementsAreSeq ==
  ASSUME NEW S, NEW bus \in BusOf(S)
  PROVE  Elements(bus) \in Seq(S) /\ bus.queue \in Seq(S) /\ Len(bus.buffer) \in Nat
<1>1. PICK buffer \in Seq(EntryOf(S)), queue \in Seq(S) :
        bus = BusWith(buffer, queue) /\ Len(queue) <= QueueLength
  BY BusParts
<1>2. Elements(bus) = queue \o Waiting(buffer) /\ bus.buffer = buffer /\ bus.queue = queue
  BY <1>1, PartsAreBus
<1>3. Waiting(buffer) \in Seq(S)
  BY WaitingIsSeq
<1>4. Elements(bus) \in Seq(S)
  BY <1>2, <1>3
<1> QED
  BY <1>2, <1>4

\* The new bus is empty.
LEMMA NewBusIsEmpty ==
  ASSUME NEW S
  PROVE  /\ NewBus \in BusOf(S) /\ Elements(NewBus) = << >>
         /\ NewBus.queue = << >> /\ Len(NewBus.buffer) = 0
<1>1. << >> \in Seq(EntryOf(S)) /\ << >> \in Seq(S) /\ Len(<< >>) = 0
  OBVIOUS
<1>2. NewBus = BusWith(<< >>, << >>)
  BY DEF NewBus, BusWith
<1>3. Len(<< >>) <= QueueLength
  BY <1>1, BufferedBusAssumption
<1>4. NewBus \in BusOf(S)
  BY <1>1, <1>2, <1>3, PartsAreBus
<1>5. Elements(NewBus) = << >> /\ NewBus.queue = << >> /\ NewBus.buffer = << >>
  BY DEF NewBus, Elements
<1> QED
  BY <1>1, <1>4, <1>5

\* Add puts the new element behind all others.
LEMMA AddAppends ==
  ASSUME NEW S, NEW bus \in BusOf(S), NEW t \in S, NEW cycle \in Nat
  PROVE  /\ Add(bus, t, cycle) \in BusOf(S)
         /\ Elements(Add(bus, t, cycle)) = Append(Elements(bus), t)
         /\ Len(Add(bus, t, cycle).buffer) = Len(bus.buffer) + 1
         /\ Add(bus, t, cycle).queue = bus.queue
<1>1. PICK buffer \in Seq(EntryOf(S)), queue \in Seq(S) :
        bus = BusWith(buffer, queue) /\ Len(queue) <= QueueLength
  BY BusParts
<1>2. PICK entry \in EntryOf(S) : entry = Entry(t, cycle + 1) /\ entry.t = t
  <2>1. Entry(t, cycle + 1) \in EntryOf(S) /\ Entry(t, cycle + 1).t = t
    BY DEF Entry, EntryOf
  <2> QED
    BY <2>1, Zenon
<1>3. PICK longer \in Seq(EntryOf(S)) : longer = Append(buffer, entry)
  <2>1. Append(buffer, entry) \in Seq(EntryOf(S))
    OBVIOUS
  <2> QED
    BY <2>1, Zenon
<1>4. Len(longer) = Len(buffer) + 1
  BY <1>3
<1>5. Add(bus, t, cycle) = BusWith(longer, queue)
  BY <1>1, <1>2, <1>3, PartChanges
<1>6. /\ Add(bus, t, cycle) \in BusOf(S)
      /\ Elements(Add(bus, t, cycle)) = queue \o Waiting(longer)
      /\ Add(bus, t, cycle).buffer = longer /\ Add(bus, t, cycle).queue = queue
  BY <1>1, <1>5, PartsAreBus
<1>7. Elements(bus) = queue \o Waiting(buffer) /\ bus.buffer = buffer /\ bus.queue = queue
  BY <1>1, PartsAreBus
<1>8. PICK waiting \in Seq(S) :
        /\ waiting = Waiting(buffer) /\ Len(waiting) = Len(buffer)
        /\ \A i \in 1..Len(buffer) : waiting[i] = buffer[i].t
  BY WaitingIsSeq
<1>9. Waiting(longer) = Append(waiting, t)
  <2>1. PICK more \in Seq(S) :
          /\ more = Waiting(longer) /\ Len(more) = Len(longer)
          /\ \A i \in 1..Len(longer) : more[i] = longer[i].t
    BY WaitingIsSeq
  <2>2. longer[Len(buffer) + 1] = entry /\ \A i \in 1..Len(buffer) : longer[i] = buffer[i]
    BY <1>3
  <2>3. Len(more) = Len(Append(waiting, t)) /\ Append(waiting, t) \in Seq(S)
    BY <1>4, <1>8, <2>1
  <2>4. \A i \in 1..Len(more) : more[i] = Append(waiting, t)[i]
    <3> SUFFICES ASSUME NEW i \in 1..Len(more) PROVE more[i] = Append(waiting, t)[i]
      OBVIOUS
    <3>1. Len(more) = Len(waiting) + 1 /\ Len(waiting) \in Nat
      BY <1>4, <1>8, <2>1
    <3>2. CASE i = Len(waiting) + 1
      <4>1. Append(waiting, t)[i] = t
        BY <3>2
      <4>2. more[i] = longer[i].t /\ longer[i] = entry
        BY <1>8, <2>1, <2>2, <3>1, <3>2
      <4> QED
        BY <1>2, <4>1, <4>2
    <3>3. CASE i \in 1..Len(waiting)
      <4>1. Append(waiting, t)[i] = waiting[i]
        BY <3>3
      <4>2. more[i] = longer[i].t /\ longer[i] = buffer[i] /\ waiting[i] = buffer[i].t
        BY <1>8, <2>1, <2>2, <3>1, <3>3
      <4> QED
        BY <4>1, <4>2
    <3> QED
      BY <3>1, <3>2, <3>3
  <2>5. more = Append(waiting, t)
    BY <2>3, <2>4, SeqEqual, Zenon
  <2> QED
    BY <2>1, <2>5
<1>10. queue \o Append(waiting, t) = Append(queue \o waiting, t)
  OBVIOUS
<1>11. Elements(Add(bus, t, cycle)) = Append(Elements(bus), t)
  BY <1>6, <1>7, <1>8, <1>9, <1>10
<1> QED
  BY <1>4, <1>6, <1>7, <1>11

\* What is left of two sequences in a row when the first loses elements in front.
LEMMA DropFromFirst ==
  ASSUME NEW S, NEW a \in Seq(S), NEW b \in Seq(S), NEW n \in 0..Len(a)
  PROVE  /\ SubSeq(a, n + 1, Len(a)) \in Seq(S)
         /\ Len(SubSeq(a, n + 1, Len(a))) = Len(a) - n
         /\ n <= Len(a \o b) /\ \A i \in 1..n : (a \o b)[i] = a[i]
         /\ SubSeq(a \o b, n + 1, Len(a \o b)) = SubSeq(a, n + 1, Len(a)) \o b
<1>1. PICK c \in Seq(S) : c = a \o b
  <2>1. a \o b \in Seq(S)
    OBVIOUS
  <2> QED
    BY <2>1, Zenon
<1>2. PICK rest \in Seq(S) : rest = SubSeq(a, n + 1, Len(a))
  <2>1. SubSeq(a, n + 1, Len(a)) \in Seq(S)
    OBVIOUS
  <2> QED
    BY <2>1, Zenon
<1>3. PICK left \in Seq(S) : left = rest \o b
  <2>1. rest \o b \in Seq(S)
    OBVIOUS
  <2> QED
    BY <2>1, Zenon
<1>4. PICK right \in Seq(S) : right = SubSeq(c, n + 1, Len(c))
  <2>1. SubSeq(c, n + 1, Len(c)) \in Seq(S)
    OBVIOUS
  <2> QED
    BY <2>1, Zenon
<1>5. Len(a) \in Nat /\ Len(b) \in Nat /\ Len(c) = Len(a) + Len(b) /\ n \in Nat /\ n <= Len(a)
  BY <1>1
<1>6. Len(rest) = Len(a) - n /\ \A i \in 1..Len(rest) : rest[i] = a[n + i]
  BY <1>2
<1>7. Len(right) = Len(c) - n /\ \A i \in 1..Len(right) : right[i] = c[n + i]
  BY <1>4, <1>5
<1>8. Len(left) = Len(rest) + Len(b)
  BY <1>3
<1>9. \A i \in 1..Len(a) : c[i] = a[i]
  BY <1>1
<1>10. \A i \in 1..Len(b) : c[Len(a) + i] = b[i]
  BY <1>1
<1>11. ASSUME NEW i \in 1..Len(left) PROVE left[i] = right[i]
  <2>1. CASE i \in 1..Len(rest)
    <3>1. left[i] = rest[i]
      BY <1>3, <2>1
    <3>2. n + i \in 1..Len(a) /\ i \in 1..Len(right)
      BY <1>5, <1>6, <1>7, <2>1
    <3> QED
      BY <1>6, <1>7, <1>9, <2>1, <3>1, <3>2
  <2>2. CASE i \notin 1..Len(rest)
    <3>1. PICK j \in 1..Len(b) : i = Len(rest) + j
      <4>1. i - Len(rest) \in 1..Len(b) /\ i = Len(rest) + (i - Len(rest))
        BY <1>5, <1>6, <1>8, <2>2
      <4> QED
        BY <4>1, Zenon
    <3>2. left[i] = b[j]
      BY <1>3, <3>1
    <3>3. n + i = Len(a) + j /\ i \in 1..Len(right)
      BY <1>5, <1>6, <1>7, <3>1
    <3> QED
      BY <1>7, <1>10, <3>2, <3>3
  <2> QED
    BY <2>1, <2>2
<1>12. left = right
  <2>1. Len(left) = Len(right)
    BY <1>5, <1>6, <1>7, <1>8
  <2> QED
    BY <1>11, <2>1, SeqEqual, Zenon
<1>13. n <= Len(c) /\ \A i \in 1..n : c[i] = a[i]
  BY <1>5, <1>9
<1> QED
  BY <1>1, <1>2, <1>3, <1>4, <1>6, <1>12, <1>13

\* The readers may take several elements from the queue at once.
LEMMA GetTakesSeveral ==
  ASSUME NEW S, NEW bus \in BusOf(S), NEW n \in Nat, n <= Len(bus.queue)
  PROVE  /\ AfterGets(bus, n) \in BusOf(S) /\ AfterGets(bus, n).buffer = bus.buffer
         /\ n <= Len(Elements(bus))
         /\ \A i \in 1..n : bus.queue[i] = Elements(bus)[i]
         /\ Elements(AfterGets(bus, n)) = SubSeq(Elements(bus), n + 1, Len(Elements(bus)))
<1>1. PICK buffer \in Seq(EntryOf(S)), queue \in Seq(S) :
        bus = BusWith(buffer, queue) /\ Len(queue) <= QueueLength
  BY BusParts
<1>2. PICK waiting \in Seq(S) : waiting = Waiting(buffer)
  <2>1. Waiting(buffer) \in Seq(S)
    BY WaitingIsSeq
  <2> QED
    BY <2>1, Zenon
<1>3. Elements(bus) = queue \o waiting /\ bus.buffer = buffer /\ bus.queue = queue
  <2>1. Len(queue) <= QueueLength
    BY <1>1, Zenon
  <2>2. /\ Elements(BusWith(buffer, queue)) = queue \o Waiting(buffer)
        /\ BusWith(buffer, queue).buffer = buffer /\ BusWith(buffer, queue).queue = queue
    BY <2>1, PartsAreBus, ZenonT(40)
  <2> QED
    BY <1>1, <1>2, <2>2, Zenon
<1>4. n \in 0..Len(queue)
  BY <1>3
<1>5. PICK all \in Seq(S) : all = queue \o waiting
  <2>1. queue \o waiting \in Seq(S)
    OBVIOUS
  <2> QED
    BY <2>1, Zenon
<1>6. PICK shorter \in Seq(S) : shorter = SubSeq(queue, n + 1, Len(queue))
  <2>1. SubSeq(queue, n + 1, Len(queue)) \in Seq(S)
    OBVIOUS
  <2> QED
    BY <2>1, Zenon
<1>7. /\ Len(shorter) = Len(queue) - n
      /\ n <= Len(all) /\ \A i \in 1..n : all[i] = queue[i]
      /\ SubSeq(all, n + 1, Len(all)) = shorter \o waiting
  <2>1. /\ Len(SubSeq(queue, n + 1, Len(queue))) = Len(queue) - n
        /\ n <= Len(queue \o waiting) /\ \A i \in 1..n : (queue \o waiting)[i] = queue[i]
        /\ SubSeq(queue \o waiting, n + 1, Len(queue \o waiting))
             = SubSeq(queue, n + 1, Len(queue)) \o waiting
    BY <1>4, DropFromFirst, Zenon
  <2> QED
    BY <1>5, <1>6, <2>1, Zenon
<1>8. Len(shorter) <= QueueLength
  <2>1. Len(queue) <= QueueLength
    BY <1>1, Zenon
  <2>2. Len(queue) \in Nat /\ QueueLength \in Nat /\ Len(shorter) = Len(queue) - n
    BY <1>7, BufferedBusAssumption
  <2> QED
    BY <2>1, <2>2
<1>9. AfterGets(bus, n) = BusWith(buffer, shorter)
  BY <1>1, <1>6, PartChanges
<1>10. /\ AfterGets(bus, n) \in BusOf(S)
       /\ Elements(AfterGets(bus, n)) = shorter \o waiting
       /\ AfterGets(bus, n).buffer = buffer
  <2>1. /\ BusWith(buffer, shorter) \in BusOf(S)
        /\ Elements(BusWith(buffer, shorter)) = shorter \o Waiting(buffer)
        /\ BusWith(buffer, shorter).buffer = buffer
    BY <1>8, PartsAreBus, Zenon
  <2> QED
    BY <1>2, <1>9, <2>1, Zenon
<1> QED
  BY <1>3, <1>5, <1>7, <1>10, Zenon

\* Get takes the oldest element.
LEMMA GetTakesOldest ==
  ASSUME NEW S, NEW bus \in BusOf(S), CanGet(bus)
  PROVE  /\ AfterGet(bus) \in BusOf(S)
         /\ Elements(bus) # << >> /\ Oldest(bus) = Head(Elements(bus))
         /\ Elements(AfterGet(bus)) = Tail(Elements(bus))
         /\ AfterGet(bus).buffer = bus.buffer
<1>1. PICK buffer \in Seq(EntryOf(S)), queue \in Seq(S) :
        bus = BusWith(buffer, queue) /\ Len(queue) <= QueueLength
  BY BusParts
<1>2. PICK waiting \in Seq(S) : waiting = Waiting(buffer)
  <2>1. Waiting(buffer) \in Seq(S)
    BY WaitingIsSeq
  <2> QED
    BY <2>1, Zenon
<1>3. Elements(bus) = queue \o waiting /\ bus.buffer = buffer /\ bus.queue = queue
  <2>1. Len(queue) <= QueueLength
    BY <1>1, Zenon
  <2>2. /\ Elements(BusWith(buffer, queue)) = queue \o Waiting(buffer)
        /\ BusWith(buffer, queue).buffer = buffer /\ BusWith(buffer, queue).queue = queue
    BY <2>1, PartsAreBus, ZenonT(40)
  <2> QED
    BY <1>1, <1>2, <2>2, Zenon
<1>4. queue # << >>
  BY <1>3 DEF CanGet
<1>5. PICK shorter \in Seq(S) : shorter = Tail(queue)
  <2>1. Tail(queue) \in Seq(S)
    BY <1>4
  <2> QED
    BY <2>1, Zenon
<1>6. Len(shorter) <= QueueLength
  BY <1>1, <1>4, <1>5, BufferedBusAssumption
<1>7. AfterGet(bus) = BusWith(buffer, shorter)
  BY <1>1, <1>5, PartChanges
<1>8. /\ AfterGet(bus) \in BusOf(S)
      /\ Elements(AfterGet(bus)) = shorter \o waiting
      /\ AfterGet(bus).buffer = buffer
  BY <1>2, <1>6, <1>7, PartsAreBus, SMTT(30), ZenonT(40)
<1>9. /\ queue \o waiting # << >> /\ Head(queue \o waiting) = Head(queue)
      /\ Tail(queue \o waiting) = shorter \o waiting
  BY <1>4, <1>5, ConcatProperties, HeadTailProperties
<1>10. Oldest(bus) = Head(queue)
  BY <1>3 DEF Oldest
<1> QED
  BY <1>3, <1>8, <1>9, <1>10, Zenon

\* A nonempty bounded set of natural numbers has a largest one.
LEMMA Largest ==
  ASSUME NEW T, NEW bound \in Nat, T \subseteq 0..bound, T # {}
  PROVE  \E x \in T : \A y \in T : y <= x
<1> DEFINE Above == {(x + 1)..bound : x \in T}
<1>1. Above \subseteq FiniteSubsetsOf(Nat) /\ Above # {}
  <2>1. \A x \in T : (x + 1)..bound \in SUBSET Nat /\ IsFiniteSet((x + 1)..bound)
    <3> TAKE x \in T
    <3>1. x + 1 \in Int /\ bound \in Int /\ x \in Nat
      OBVIOUS
    <3> QED
      BY <3>1, FS_Interval
  <2> QED
    BY <2>1 DEF FiniteSubsetsOf
<1>2. PICK B \in Above : \A C \in Above : ~(<<C, B>> \in StrictSubsetOrdering(Nat))
  BY <1>1, FS_StrictSubsetOrderingWellFounded, WFMin, Zenon
<1>3. PICK x \in T : B = (x + 1)..bound
  OBVIOUS
<1>4. ASSUME NEW y \in T, x < y PROVE FALSE
  <2>1. (y + 1)..bound \subseteq (x + 1)..bound /\ (y + 1)..bound # (x + 1)..bound
    <3>1. y \in (x + 1)..bound /\ y \notin (y + 1)..bound
      BY <1>4
    <3> QED
      BY <1>4, <3>1
  <2>2. <<(y + 1)..bound, B>> \in StrictSubsetOrdering(Nat)
    BY <2>1, <1>3 DEF StrictSubsetOrdering
  <2> QED
    BY <1>2, <2>2
<1> QED
  BY <1>4

\* Connect moves as many entries as it may, none if none is due or the queue is full.
LEMMA MovedCount ==
  ASSUME NEW S, NEW buffer \in Seq(EntryOf(S)), NEW queue \in Seq(S),
         Len(queue) <= QueueLength, NEW cycle \in Nat
  PROVE  \E n \in 0..Len(buffer) :
           /\ n = CHOOSE k \in Movable(BusWith(buffer, queue), cycle) :
                    \A m \in Movable(BusWith(buffer, queue), cycle) : m <= k
           /\ Len(queue) + n <= QueueLength
<1>1. PICK T : T = Movable(BusWith(buffer, queue), cycle)
  OBVIOUS
<1>2. T \subseteq 0..Len(buffer) /\ \A n \in T : Len(queue) + n <= QueueLength
  BY <1>1 DEF Movable, BusWith
<1>3. 0 \in T
  BY <1>1 DEF Movable, BusWith
<1>4. PICK bound \in Nat : bound = Len(buffer)
  OBVIOUS
<1>5. T \subseteq 0..bound /\ T # {}
  BY <1>2, <1>3, <1>4
<1>6. \E x \in T : \A y \in T : y <= x
  BY <1>5, Largest, Zenon
<1>7. PICK n : n = CHOOSE k \in T : \A m \in T : m <= k
  OBVIOUS
<1>8. n \in T
  BY <1>6, <1>7, Zenon
<1> QED
  BY <1>1, <1>2, <1>7, <1>8, Zenon

\* A buffer of which the first entries have moved to a sequence of their own.
LEMMA MovedAndRest ==
  ASSUME NEW S, NEW buffer \in Seq(EntryOf(S)), NEW n \in 0..Len(buffer)
  PROVE  \E moved \in Seq(S), rest \in Seq(EntryOf(S)) :
           /\ moved = [i \in 1..n |-> buffer[i].t] /\ Len(moved) = n
           /\ rest = SubSeq(buffer, n + 1, Len(buffer))
           /\ Len(rest) <= Len(buffer)
           /\ moved \o Waiting(rest) = Waiting(buffer)
<1>1. PICK all \in Seq(S) :
        /\ all = Waiting(buffer) /\ Len(all) = Len(buffer)
        /\ \A i \in 1..Len(buffer) : all[i] = buffer[i].t
  BY WaitingIsSeq
<1>2. PICK moved : moved = [i \in 1..n |-> buffer[i].t]
  OBVIOUS
<1>3. moved \in Seq(S) /\ Len(moved) = n /\ \A i \in 1..n : moved[i] = all[i]
  <2>1. \A i \in 1..n : moved[i] = all[i] /\ all[i] \in S
    BY <1>1, <1>2
  <2>2. moved \in [1..n -> S]
    BY <1>2, <2>1
  <2> QED
    BY <2>1, <2>2
<1>4. PICK rest \in Seq(EntryOf(S)) : rest = SubSeq(buffer, n + 1, Len(buffer))
  <2>1. SubSeq(buffer, n + 1, Len(buffer)) \in Seq(EntryOf(S))
    OBVIOUS
  <2> QED
    BY <2>1, Zenon
<1>5. /\ Len(buffer) \in Nat /\ Len(rest) = Len(buffer) - n
      /\ \A i \in 1..Len(rest) : rest[i] = buffer[n + i]
  BY <1>4
<1>6. PICK waiting \in Seq(S) :
        /\ waiting = Waiting(rest) /\ Len(waiting) = Len(rest)
        /\ \A i \in 1..Len(rest) : waiting[i] = rest[i].t
  BY WaitingIsSeq
<1>7. PICK joined \in Seq(S) : joined = moved \o waiting
  <2>1. moved \o waiting \in Seq(S)
    BY <1>3
  <2> QED
    BY <2>1, Zenon
<1>8. Len(joined) = Len(all)
  BY <1>1, <1>3, <1>5, <1>6, <1>7
<1>9. ASSUME NEW i \in 1..Len(joined) PROVE joined[i] = all[i]
  <2>1. CASE i \in 1..n
    BY <1>3, <1>7, <2>1
  <2>2. CASE i \notin 1..n
    <3>1. PICK j \in 1..Len(rest) : i = n + j
      BY <1>1, <1>5, <1>8, <2>2
    <3>2. joined[i] = waiting[j]
      BY <1>3, <1>6, <1>7, <3>1
    <3>3. waiting[j] = rest[j].t /\ rest[j] = buffer[n + j]
      BY <1>5, <1>6
    <3>4. all[i] = buffer[n + j].t
      BY <1>1, <1>8, <3>1
    <3> QED
      BY <3>2, <3>3, <3>4
  <2> QED
    BY <2>1, <2>2
<1>10. joined = all
  BY <1>8, <1>9, SeqEqual, Zenon
<1>11. Len(rest) <= Len(buffer)
  BY <1>5
<1> QED
  BY <1>1, <1>2, <1>3, <1>4, <1>6, <1>7, <1>10, <1>11, Zenon

\* Connect moves entries from the buffer to the queue: no element comes, goes or
\* overtakes another, and the queue stays within its length.
LEMMA ConnectKeepsElements ==
  ASSUME NEW S, NEW bus \in BusOf(S), NEW cycle \in Nat
  PROVE  /\ Connect(bus, cycle) \in BusOf(S)
         /\ Elements(Connect(bus, cycle)) = Elements(bus)
         /\ Len(Connect(bus, cycle).buffer) <= Len(bus.buffer)
<1>1. PICK buffer \in Seq(EntryOf(S)), queue \in Seq(S) :
        bus = BusWith(buffer, queue) /\ Len(queue) <= QueueLength
  BY BusParts
<1>2. PICK n \in 0..Len(buffer) :
        /\ n = CHOOSE k \in Movable(bus, cycle) : \A m \in Movable(bus, cycle) : m <= k
        /\ Len(queue) + n <= QueueLength
  BY <1>1, MovedCount
<1>3. PICK moved \in Seq(S), rest \in Seq(EntryOf(S)) :
        /\ moved = [i \in 1..n |-> buffer[i].t] /\ Len(moved) = n
        /\ rest = SubSeq(buffer, n + 1, Len(buffer))
        /\ Len(rest) <= Len(buffer)
        /\ moved \o Waiting(rest) = Waiting(buffer)
  BY MovedAndRest
<1>4. bus.buffer = buffer /\ bus.queue = queue /\ Elements(bus) = queue \o Waiting(buffer)
  BY <1>1, PartsAreBus
<1>5. PICK longer \in Seq(S) : longer = queue \o moved
  <2>1. queue \o moved \in Seq(S)
    OBVIOUS
  <2> QED
    BY <2>1, Zenon
<1>6. Connect(bus, cycle) = BusWith(rest, longer)
  BY <1>2, <1>3, <1>4, <1>5 DEF Connect, BusWith
<1>7. Len(longer) <= QueueLength
  <2>1. Len(longer) = Len(queue) + n
    BY <1>3, <1>5
  <2> QED
    BY <1>2, <2>1
<1>8. /\ Connect(bus, cycle) \in BusOf(S)
      /\ Elements(Connect(bus, cycle)) = longer \o Waiting(rest)
      /\ Connect(bus, cycle).buffer = rest
  BY <1>6, <1>7, PartsAreBus
<1>9. PICK waiting \in Seq(S) : waiting = Waiting(rest)
  <2>1. Waiting(rest) \in Seq(S)
    BY WaitingIsSeq
  <2> QED
    BY <2>1, Zenon
<1>10. (queue \o moved) \o waiting = queue \o (moved \o waiting)
  BY ConcatAssociative, SMTT(30), ZenonT(40)
<1> QED
  BY <1>3, <1>4, <1>5, <1>8, <1>9, <1>10, Zenon
=============================================================================
