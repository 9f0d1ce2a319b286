------------------------------- MODULE MCMvp6 -------------------------------
(***************************************************************************)
(* MVP-6.0 and MVP-6.1 on the program families.                            *)
(***************************************************************************)
EXTENDS Mvp6Properties, Programs

Mvp6Programs == UNION {{App(p) : p \in code} : code \in SuperCode}

-----------------------------------------------------------------------------
\* The programs of the runs that show a disagreement.  The branch is taken, and
\* the ret on the wrong path has been decoded.
ReturnPrograms ==
  {App(<<RI("slti", t1, t0, 1), Branch("bne", t0, Zero, "one"), Nop, Ret>>)}

\* The second waits for the first, and the third, one cycle later, for the second.
ChainPrograms ==
  {App(<<RI("addi", t0, t0, 1), RI("addi", t1, t0, 1), RI("addi", Ra, t1, 1)>>)}
=============================================================================
