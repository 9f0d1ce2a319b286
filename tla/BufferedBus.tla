----------------------------- MODULE BufferedBus -----------------------------
(***************************************************************************)
(* comp.BufferedBus, the bus between two stages of MVP-6: elements added   *)
(* in a cycle wait in a buffer, Connect moves those of earlier cycles into *)
(* a queue, and the reader takes them from there.                          *)
(*                                                                         *)
(* The operators take and return the bus; cycles are numbers, and a user   *)
(* that connects once per cycle may count them from the current one.       *)
(***************************************************************************)
EXTENDS Integers, Sequences

CONSTANTS QueueLength, BufferLength  \* 2 and 2 in both MVP-6

ASSUME BufferedBusAssumption ==
  QueueLength \in Nat \ {0} /\ BufferLength \in Nat \ {0}

NewBus == [buffer |-> << >>, queue |-> << >>]

Entry(t, cycle) == [t |-> t, availableFromCycle |-> cycle]

\* Add asks nobody: a user that has not called CanAdd makes the buffer longer
\* than BufferLength.
Add(bus, t, cycle) == [bus EXCEPT !.buffer = Append(@, Entry(t, cycle + 1))]

\* Revert puts an element back in front of the buffer, behind the queue.  No
\* processor calls Revert or DeleteLast.
Revert(bus, t, cycle) == [bus EXCEPT !.buffer = <<Entry(t, cycle)>> \o @]

\* DeleteLast takes the last addition back, if it is still in the buffer.
DeleteLast(bus) ==
  IF bus.buffer = << >> THEN bus
  ELSE [bus EXCEPT !.buffer = SubSeq(@, 1, Len(@) - 1)]

CanGet(bus) == bus.queue # << >>
Oldest(bus) == Head(bus.queue)
AfterGet(bus) == [bus EXCEPT !.queue = Tail(@)]
AfterGets(bus, n) == [bus EXCEPT !.queue = SubSeq(@, n + 1, Len(@))]   \* n calls of Get

CanAddAlways(bus) == TRUE   \* faulty
CanAdd(bus) == Len(bus.buffer) # BufferLength
IsEmpty(bus) == bus.queue = << >> /\ bus.buffer = << >>

\* Connect moves the entries in order, up to the first that is not due yet or
\* finds the queue full.
Movable(bus, cycle) ==
  {n \in 0..Len(bus.buffer) :
     /\ Len(bus.queue) + n <= QueueLength
     /\ \A i \in 1..n : bus.buffer[i].availableFromCycle <= cycle}
ConnectForgetting(bus, cycle) ==   \* faulty: an entry that finds the queue full is dropped
  LET n == CHOOSE n \in Movable(bus, cycle) : \A m \in Movable(bus, cycle) : m <= n
  IN [queue |-> bus.queue \o [i \in 1..n |-> bus.buffer[i].t], buffer |-> << >>]
Connect(bus, cycle) ==
  LET n == CHOOSE n \in Movable(bus, cycle) : \A m \in Movable(bus, cycle) : m <= n
  IN [queue |-> bus.queue \o [i \in 1..n |-> bus.buffer[i].t],
      buffer |-> SubSeq(bus.buffer, n + 1, Len(bus.buffer))]

\* The elements on the bus, oldest first.
Elements(bus) == bus.queue \o [i \in 1..Len(bus.buffer) |-> bus.buffer[i].t]
=============================================================================
