------------------------------- MODULE MCMvp3 -------------------------------
(***************************************************************************)
(* MVP-3 on the program families.                                          *)
(***************************************************************************)
EXTENDS Mvp3, Programs

LoopPrograms == {App(p) : p \in LoopCode}
=============================================================================
