------------------------------- MODULE MCMvp4 -------------------------------
(***************************************************************************)
(* MVP-4 on the program families.                                          *)
(***************************************************************************)
EXTENDS Mvp4Refinement, Programs

Mvp4Programs ==
  {App(p) : p \in AluCode \cup ControlCode \cup MemoryCode \cup OperandCode}
ProgressPrograms == {App(p) : p \in ControlCode \cup ForwardCode}

-----------------------------------------------------------------------------
\* One program for each run that shows a disagreement.
NegativePrograms == {App(<<RI("addi", t0, t0, -5), RI("mv", t1, t0, 0)>>)}
StoreLoadPrograms ==
  {App(<<Store("sb", t1, 1), Store("sb", t1, 2), Store("sw", t0, 4), Load("lw", t1, 4)>>)}
=============================================================================
