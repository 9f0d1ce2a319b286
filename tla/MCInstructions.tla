--------------------------- MODULE MCInstructions ---------------------------
(***************************************************************************)
(* The instructions: each on its own against the reference definitions,    *)
(* and in programs, as the sequential processor executes them.  A          *)
(* behaviour is one of the one or of the other.                            *)
(***************************************************************************)
EXTENDS IsaChecks, Sequential, Programs

VARIABLE machine

\* Every opcode, over a few values of its registers and its immediate.  The
\* destination is ra, or the first source and then not ra.
AllCases ==
  {Instruction(op, Rd, Rs1, Rs2, imm, label) :
     op \in Op, imm \in {-1, 0, 9, 127}, label \in {"here", "nowhere"}}
  \cup {Instruction(op, Rs1, Rs1, Rs2, imm, "here") :
          op \in Op \ {"nop"}, imm \in {-1, 0, 9, 127}}
SmallValues == {-128, -1, 0, 1, 127}

\* The nop carries the operands of the arithmetic, words of eight bits: the
\* boundaries of the word, its halves and bytes.
BoundaryValues ==
  {-128, -127, -100, -65, -64, -63, -17, -16, -9, -8, -5, -4, -3, -2, -1, 0,
   1, 2, 3, 4, 5, 7, 8, 9, 15, 16, 17, 31, 63, 64, 65, 100, 127}
ValuesOf(i, r) ==
  IF i.op # "nop" THEN SmallValues ELSE IF r = Rd THEN {} ELSE BoundaryValues

\* The programs; the last one is that of the processor that does nothing.
Idle == App(<<Nop>>)
SequentialPrograms == {App(p) : p \in CallCode \cup FailingCode} \cup {Idle}

-----------------------------------------------------------------------------
InitInstructions ==
  \/ machine = "opcode" /\ InitCase /\ app = Idle /\ Init
  \/ /\ machine = "processor" /\ ins = CHOOSE case \in Cases : case.op = "nop"
     /\ InitCase /\ Init

NextInstructions ==
  \/ machine = "opcode" /\ NextCase /\ UNCHANGED <<machine, vars>>
  \/ machine = "processor" /\ Next /\ UNCHANGED <<machine, caseVars>>

SpecInstructions ==
  InitInstructions /\ [][NextInstructions]_<<machine, caseVars, vars>>
=============================================================================
