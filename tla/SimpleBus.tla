------------------------------ MODULE SimpleBus ------------------------------
(***************************************************************************)
(* comp.SimpleBus, the latch between two stages of MVP-4 and MVP-5: an     *)
(* element is added to `pending' and can be taken from `current' one get   *)
(* later.  An entry is a sequence of at most one element, << >> standing   *)
(* for exists = false.                                                     *)
(***************************************************************************)
EXTENDS Sequences

EmptyBus == [pending |-> << >>, current |-> << >>]

CanAlwaysAdd(bus) == TRUE   \* faulty
CanAdd(bus) == bus.pending = << >>

\* Add overwrites what is pending: the stages ask CanAdd first.
Add(bus, t) == [bus EXCEPT !.pending = <<t>>]

\* Get answers with current and moves pending up, whether or not there was a
\* current element.
AfterGet(bus) == [pending |-> << >>, current |-> bus.pending]

\* The shape of a bus.
IsEntry(entry) == entry = << >> \/ entry = <<entry[1]>>
IsBus(bus) ==
  /\ bus = [pending |-> bus.pending, current |-> bus.current]
  /\ IsEntry(bus.pending) /\ IsEntry(bus.current)

IsEmpty(bus) == bus.pending = << >> /\ bus.current = << >>

\* The elements on the bus, oldest first.
Items(bus) == bus.current \o bus.pending
=============================================================================
