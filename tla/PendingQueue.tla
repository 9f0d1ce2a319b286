---------------------------- MODULE PendingQueue ----------------------------
(***************************************************************************)
(* comp.Queue, the pending list of MVP-6's control unit, between the two   *)
(* buffered buses of that unit.  Iterator walks the list in a goroutine of *)
(* its own: the consumer receives the elements from a channel and removes  *)
(* some of them while the goroutine is further down the same list, and a   *)
(* consumer that stops early leaves the goroutine behind, still walking.   *)
(*                                                                         *)
(* Elements are numbers, in the order in which the decode unit adds them.  *)
(* What handleRunner answers for an element is any of the four pairs (push, *)
(* stop).  It does not answer (false, false) today, so that its list never *)
(* has two elements; the queue is written, and tested, for longer ones.    *)
(***************************************************************************)
EXTENDS BufferedBus, FiniteSets

CONSTANTS
  PendingLength,  \* pendingLength: 10 in both MVP-6
  MaxElements,    \* bound: elements the decode unit adds
  MaxAbandoned    \* bound: goroutines left behind at the same time

ASSUME PendingQueueAssumption ==
  PendingLength \in Nat \ {0} /\ MaxElements \in Nat /\ MaxAbandoned \in Nat

VARIABLES
  place,      \* "decode", "execute", or where the control unit is: "range", "take"
  inBus, outBus,
  list,       \* Queue.queue: the elements on the list, from the front
  walk,       \* the goroutine of the iterator the control unit ranges over
  abandoned,  \* the goroutines it no longer listens to
  added,      \* history: elements the decode unit has added
  executed,   \* history: elements the execute units have taken
  snapshot,   \* history: the list when Iterator was called
  seen        \* history: what the control unit has received from the iterator

walkVars == <<walk, abandoned>>
pendingVars ==
  <<place, inBus, outBus, list, walkVars, added, executed, snapshot, seen>>

-----------------------------------------------------------------------------
(* The list and its iterator                                               *)

\* list.Element.Next: an element that is not on the list has no next one.
NextOf(e) ==
  LET after == {i \in 2..Len(list) : list[i - 1] = e}
  IN IF after = {} THEN 0 ELSE list[CHOOSE i \in after : TRUE]
\* Queue.Remove, of an element on the list.
Removed(e) ==
  LET i == CHOOSE i \in 1..Len(list) : list[i] = e
  IN [k \in 1..Len(list) - 1 |-> IF k < i THEN list[k] ELSE list[k + 1]]
IsFull == Len(list) >= PendingLength

\* A goroutine: the element it is to visit next, the one it is about to send,
\* and the channel, which has room for the elements on the list at the call.
Iterator ==
  [next |-> IF list = << >> THEN 0 ELSE Head(list), current |-> 0,
   channel |-> << >>, capacity |-> Len(list), closed |-> FALSE]
NoWalk == [next |-> 0, current |-> 0, channel |-> << >>, capacity |-> 0, closed |-> TRUE]

\* What a step of a goroutine makes of it.  The next element is taken before
\* the current one is sent, because the receiver may remove that one.
StepsAfterSend(w) ==   \* faulty: the next element is taken after the send
  IF w.current < 0 THEN {[w EXCEPT !.next = NextOf(- w.current), !.current = 0]}
  ELSE IF w.current = 0 /\ w.next = 0 THEN {[w EXCEPT !.closed = TRUE]}
  ELSE IF w.current = 0 THEN {[w EXCEPT !.current = w.next]}
  ELSE {[w EXCEPT !.channel = Append(@, w.current), !.current = - w.current]}
StepsWithoutClose(w) ==   \* faulty: the channel is never closed
  IF w.current = 0 /\ w.next = 0 THEN {w}
  ELSE IF w.current = 0 THEN {[w EXCEPT !.current = w.next, !.next = NextOf(w.next)]}
  ELSE {[w EXCEPT !.channel = Append(@, w.current), !.current = 0]}
Steps(w) ==
  IF w.current = 0 /\ w.next = 0 THEN {[w EXCEPT !.closed = TRUE]}
  ELSE IF w.current = 0 THEN {[w EXCEPT !.current = w.next, !.next = NextOf(w.next)]}
  ELSE IF Len(w.channel) = w.capacity THEN {}
  ELSE {[w EXCEPT !.channel = Append(@, w.current), !.current = 0]}

Walk ==
  /\ ~walk.closed /\ walk' \in Steps(walk)
  /\ UNCHANGED <<place, inBus, outBus, list, abandoned, added, executed, snapshot, seen>>

AbandonedWalk ==
  /\ \E w \in abandoned : \E w2 \in Steps(w) :
       abandoned' = (abandoned \ {w}) \cup {x \in {w2} : ~x.closed}
  /\ UNCHANGED <<place, inBus, outBus, list, walk, added, executed, snapshot, seen>>

-----------------------------------------------------------------------------
(* The units around it, once per cycle                                     *)

GoTo(p) == place' = p

\* The decode unit adds what it has decoded, two elements at most, and asks for
\* no room.
DecodeCycle ==
  /\ place = "decode" /\ GoTo("control")
  /\ \E n \in 0..2 :
       /\ added + n <= MaxElements /\ added' = added + n
       /\ LET one == Add(inBus, added + 1, 0)
          IN inBus' = <<inBus, one, Add(one, added + 2, 0)>>[n + 1]
  /\ UNCHANGED <<outBus, list, walkVars, executed, snapshot, seen>>

ControlStarts ==
  /\ place = "control"
  /\ \/ /\ ~CanAdd(outBus) /\ GoTo("execute")
        /\ UNCHANGED <<walk, snapshot, seen>>
     \/ /\ CanAdd(outBus) /\ GoTo("range")
        /\ walk' = Iterator /\ snapshot' = list /\ seen' = << >>
  /\ UNCHANGED <<inBus, outBus, list, abandoned, added, executed>>

\* handleRunner: an element that is to be issued needs room on the bus, or the
\* loop stops.
Handled(push, stop) ==
  /\ push => CanAdd(outBus)
  /\ (~push /\ ~CanAdd(outBus)) => stop
Issued(push, e) == IF push THEN Add(outBus, e, 0) ELSE outBus

\* The loop over the pending list.  Leaving it early leaves its goroutine.
RangeReceives ==
  /\ place = "range" /\ walk.channel # << >>
  /\ LET e == Head(walk.channel)
         rest == [walk EXCEPT !.channel = Tail(@)]
     IN \E push, stop \in BOOLEAN :
          /\ Handled(push, stop)
          /\ seen' = Append(seen, e)
          /\ outBus' = Issued(push, e)
          /\ list' = IF push THEN Removed(e) ELSE list
          /\ GoTo(IF stop THEN "execute" ELSE "range")
          /\ walk' = IF stop THEN NoWalk ELSE rest
          /\ abandoned' = abandoned \cup {w \in {rest} : stop /\ ~w.closed}
          /\ Cardinality(abandoned') <= MaxAbandoned
  /\ UNCHANGED <<inBus, added, executed, snapshot>>
RangeEnds ==
  /\ place = "range" /\ walk.channel = << >> /\ walk.closed
  /\ GoTo("take")
  /\ UNCHANGED <<inBus, outBus, list, walkVars, added, executed, snapshot, seen>>

\* The loop over what the decode unit has sent.
ControlTakes ==
  /\ place = "take" /\ ~IsFull /\ CanGet(inBus)
  /\ LET e == Oldest(inBus)
     IN \E push, stop \in BOOLEAN :
          /\ Handled(push, stop)
          /\ inBus' = AfterGet(inBus)
          /\ outBus' = Issued(push, e)
          /\ list' = IF push THEN list ELSE Append(list, e)
          /\ GoTo(IF stop THEN "execute" ELSE "take")
  /\ UNCHANGED <<walkVars, added, executed, snapshot, seen>>
TakeEnds ==
  /\ place = "take" /\ (IsFull \/ ~CanGet(inBus))
  /\ GoTo("execute")
  /\ UNCHANGED <<inBus, outBus, list, walkVars, added, executed, snapshot, seen>>

\* The execute units take an element each, or are busy; the buses connect at
\* the start of the next cycle.
ExecuteCycle ==
  /\ place = "execute" /\ GoTo("decode")
  /\ \E n \in 0..Len(outBus.queue) :
       /\ executed' = executed \cup {outBus.queue[i] : i \in 1..n}
       /\ outBus' = Connect(AfterGets(outBus, n), 1)
  /\ inBus' = Connect(inBus, 1)
  /\ walk' = NoWalk /\ snapshot' = << >> /\ seen' = << >>
  /\ UNCHANGED <<list, abandoned, added>>

InitQueue ==
  /\ place = "decode" /\ inBus = NewBus /\ outBus = NewBus
  /\ list = << >> /\ walk = NoWalk /\ abandoned = {}
  /\ added = 0 /\ executed = {} /\ snapshot = << >> /\ seen = << >>

Control == ControlStarts \/ RangeReceives \/ RangeEnds \/ ControlTakes \/ TakeEnds
NextQueue == DecodeCycle \/ Control \/ ExecuteCycle \/ Walk \/ AbandonedWalk
SpecQueue == InitQueue /\ [][NextQueue]_pendingVars

\* The goroutine that is listened to runs, and so does the control unit: both
\* are goroutines of the Go scheduler.
FairQueue == WF_pendingVars(Walk) /\ WF_pendingVars(Control)

-----------------------------------------------------------------------------
(* Properties                                                              *)

\* An element the decode unit has added is in one place: on a bus, on the list
\* or executed.  None is lost or doubled by the buses, by the removal of
\* elements while the list is walked, or by a loop that stops.
NothingLost ==
  LET held == Elements(inBus) \o list \o Elements(outBus)
  IN /\ Len(held) + Cardinality(executed) = added
     /\ {held[i] : i \in DOMAIN held} \cup executed = 1..added

\* The list and the bus in front of it keep the order of the program, and what
\* is on the list is older than what is on that bus.
OldestFirst ==
  LET waiting == list \o Elements(inBus)
  IN \A i \in DOMAIN waiting : \A j \in 1..i - 1 : waiting[j] < waiting[i]

\* Between the decode unit and the execute units nothing is lost, doubled or
\* overtaken but by the control unit's choice (queue.go, bus.go).
KeptInOrder == NothingLost /\ OldestFirst

\* The buffer in front of the execute units and the queues are within their
\* lengths: the control unit's question for room is enough, although CanAdd
\* only compares for equality.
WithinLengths ==
  /\ Len(outBus.buffer) <= BufferLength /\ Len(list) <= PendingLength
  /\ Len(inBus.queue) <= QueueLength /\ Len(outBus.queue) <= QueueLength

\* A loop over the iterator sees the elements that were on the list when it was
\* called, in order, whatever it removes on the way; one that is not stopped
\* sees all of them.
VisitsWholeList ==
  /\ seen = SubSeq(snapshot, 1, Len(seen))
  /\ place = "take" => seen = snapshot

\* The loop over the iterator comes to its end: the channel is closed, and the
\* goroutine never waits for the loop that waits for it.
LoopEnds == (place = "range") ~> (place # "range")
=============================================================================
