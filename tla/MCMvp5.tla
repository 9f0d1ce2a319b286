------------------------------- MODULE MCMvp5 -------------------------------
(***************************************************************************)
(* MVP-5 on the program families.                                          *)
(***************************************************************************)
EXTENDS Mvp5, Programs

Mvp5Programs == {App(p) : p \in ControlCode \cup JumpCode}
=============================================================================
