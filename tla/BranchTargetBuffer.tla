------------------------- MODULE BranchTargetBuffer -------------------------
(***************************************************************************)
(* The branchTargetBuffer of MVP-5 and of both MVP-6: the targets of the   *)
(* jumps executed last, oldest entry first.  The operators take and return *)
(* the list of entries; the processors keep it in a variable.              *)
(***************************************************************************)
EXTENDS Integers, Sequences

CONSTANT BtbSize  \* newBranchTargetBuffer's length (4)

ASSUME BtbAssumption == BtbSize \in Nat \ {0}

Known(btb, pc) == \E i \in 1..Len(btb) : btb[i].pc = pc

\* get: the target of the first entry for pc.
Target(btb, pc) ==
  btb[CHOOSE i \in 1..Len(btb) : btb[i].pc = pc /\ \A j \in 1..i - 1 : btb[j].pc # pc].pcDest

\* Faulty: an entry is appended although there is one for pc; and the buffer
\* grows without bound.
LearnTwice(btb, pc, pcDest) ==
  LET entry == [pc |-> pc, pcDest |-> pcDest]
  IN IF Len(btb) # BtbSize THEN Append(btb, entry) ELSE Append(Tail(btb), entry)
LearnUnbounded(btb, pc, pcDest) ==
  IF Known(btb, pc)
  THEN [i \in 1..Len(btb) |-> IF btb[i].pc = pc THEN [btb[i] EXCEPT !.pcDest = pcDest] ELSE btb[i]]
  ELSE Append(btb, [pc |-> pc, pcDest |-> pcDest])

\* add: a known jump keeps its place, a new one takes that of the oldest when
\* the buffer is full.
Learn(btb, pc, pcDest) ==
  LET entry == [pc |-> pc, pcDest |-> pcDest]
  IN IF Known(btb, pc)
     THEN [i \in 1..Len(btb) |-> IF btb[i].pc = pc THEN entry ELSE btb[i]]
     ELSE IF Len(btb) # BtbSize THEN Append(btb, entry)
     ELSE Append(Tail(btb), entry)
=============================================================================
