------------------------------ MODULE Programs ------------------------------
(***************************************************************************)
(* Families of small programs: every sequence, of a given length, of       *)
(* instructions from an alphabet.  The processors' MC modules share them.  *)
(***************************************************************************)
EXTENDS Isa, FiniteSets


CONSTANTS t0, t1

\* Shorthands for instructions.
RR(op, rd, rs1, rs2) == Instruction(op, rd, rs1, rs2, 0, "none")
RI(op, rd, rs, imm) == Instruction(op, rd, rs, Zero, imm, "none")
Load(op, rd, offset) == Instruction(op, rd, Zero, Zero, offset, "none")
Store(op, rs2, offset) == Instruction(op, Zero, Zero, rs2, offset, "none")
Branch(op, rs1, rs2, label) == Instruction(op, Zero, rs1, rs2, 0, label)
Jump(op, rd, label) == Instruction(op, rd, Zero, Zero, 0, label)
Ret == Instruction("ret", Zero, Zero, Zero, 0, "none")
Nop == Instruction("nop", Zero, Zero, Zero, 0, "none")

\* The labels name instructions 1 to 4; "lost" is declared nowhere.
Labels == [l \in {"one", "two", "three", "four"} |->
             CASE l = "one" -> 0 [] l = "two" -> 4 [] l = "three" -> 8 [] l = "four" -> 12]
App(p) == [Instructions |-> p, Labels |-> Labels]

EightBytes == {[a \in 0..7 |-> 0]}
SmallRegisters == {[r \in Register |-> CASE r = t0 -> 3 [] r = t1 -> 1 [] OTHER -> 0]}

-----------------------------------------------------------------------------
\* Register hazards: every pair of reader and writer, a division that may
\* fail, a register written twice.
AluAlphabet ==
  {RI("addi", t0, t0, 1), RR("add", t1, t0, t1), RR("mul", t0, t0, t1),
   RR("div", t0, t1, t0), RI("mv", t1, t0, 0), RR("sub", t1, t0, t0),
   RI("addi", Zero, t0, 1), Nop}
AluCode == [1..3 -> AluAlphabet]

\* Control: conditional branches forward and back, jumps, calls and returns.
\* Only shifts change a register, so that loops end or repeat.
ControlAlphabet ==
  {RI("srli", t0, t0, 1), RI("slti", t1, t0, 1), Branch("bne", t0, Zero, "one"),
   Branch("beq", t0, t1, "three"), Branch("blt", t1, t0, "four"),
   Branch("bge", t0, t1, "two"), Jump("j", Zero, "three"), Jump("jal", t1, "four"),
   Instruction("jalr", Zero, t1, Zero, 4, "none"), Branch("beqz", t0, Zero, "lost"), Ret}
ControlCode == {p \o <<Nop>> : p \in [1..3 -> ControlAlphabet]}

\* Loops of jumps: two jumps that take turns in a small branch target buffer, a
\* jalr whose target changes or whose register is late, and a way out.
JumpAlphabet ==
  {Jump("j", Zero, "one"), Jump("jal", Ra, "two"), Jump("jal", Zero, "four"),
   Instruction("jalr", Zero, t0, Zero, 5, "none"), RI("srli", t0, t0, 1),
   Branch("beq", t0, Zero, "four"), Load("lb", t0, 0)}
JumpCode == {p \o <<Nop>> : p \in [1..3 -> JumpAlphabet]}

\* The same without going back and with the memory: every program ends.
ForwardAlphabet ==
  {RI("srli", t0, t0, 1), RI("addi", t1, t0, 1), Branch("bne", t0, Zero, "three"),
   Branch("blt", t1, t0, "four"), Load("lb", t1, 0), Store("sb", t0, 0), Ret}
ForwardCode ==
  {p \o <<Nop>> : p \in {q \in [1..3 -> ForwardAlphabet] : q[3].label # "three"}}

\* Memory: loads and stores of words, halves and bytes on two lines.  Loads
\* start at the two line boundaries and stores stay inside a line, so that
\* the cache is not disturbed (see DataCache); at most two stores, because a
\* load may overtake the third (see the run mvp4_store_load).
MemoryAlphabet ==
  {Load("lw", t0, 0), Load("lw", t1, 4), Load("lb", t1, 0), Store("sw", t1, 0),
   Store("sh", t0, 6), Store("sb", t1, 1), RI("addi", t0, t0, 1)}
ShortAlphabet ==
  {Load("lw", t0, 0), Load("lw", t1, 4), Store("sw", t0, 4), Store("sb", t1, 1)}
FewStores(p) == Cardinality({i \in DOMAIN p : p[i].op \in StoreOps}) <= 2
MemoryCode ==
  {p \in [1..3 -> MemoryAlphabet] \cup [1..4 -> ShortAlphabet] : FewStores(p)}

\* Loads whose base register, 1 or 5, the instructions before may write, behind
\* stores that keep the write unit busy.
OperandAlphabet ==
  {RI("li", t1, Zero, 5), Instruction("lb", t0, t1, Zero, -1, "none"),
   Instruction("lw", t0, t1, Zero, -1, "none"), Store("sb", t1, 1),
   Store("sh", t0, 6)}
OperandCode == {p \in [1..4 -> OperandAlphabet] : FewStores(p)}

\* The same with loops around the memory, for the processors without a
\* pipeline.
LoopAlphabet ==
  {Load("lw", t0, 0), Load("lb", t1, 4), Store("sw", t1, 4), Store("sb", t0, 1),
   RI("xori", t0, t0, 14), RI("andi", t1, t0, 3), RR("or", t0, t0, t1),
   Branch("bne", t1, t0, "two"), Branch("bltu", t0, t1, "lost"),
   Load("lb", t0, -4), Instruction("jalr", Zero, t1, Zero, -8, "none")}
LoopCode == [1..3 -> LoopAlphabet]

\* Programs that fail: a division by zero, a remainder, a shift by a negative
\* count, an access outside the memory, a jump before the first instruction.
FailingAlphabet ==
  {RR("div", t0, t0, t1), RR("rem", t0, t1, Zero), RR("sra", t0, t0, t1),
   RI("addi", t1, t1, -1), Load("lw", t0, 6), Store("sh", t1, 7),
   Instruction("jalr", Ra, t1, Zero, -8, "none"), Jump("jal", t0, "four"), Ret}
FailingCode == [1..3 -> FailingAlphabet]

\* Programs with calls: jal, jalr and a restart while ra is not 0.
CallAlphabet ==
  {Jump("jal", Zero, "three"), Jump("jal", Ra, "two"), RI("srli", t0, t0, 1),
   Instruction("jalr", Ra, t0, Zero, 3, "none"), Branch("bge", t0, t1, "three"),
   RI("mv", Ra, t0, 0), Jump("j", Zero, "four"), RI("addi", t0, t0, 126)}
CallCode == [1..3 -> CallAlphabet]

-----------------------------------------------------------------------------
\* The families of MVP-6.  They leave out what its flush, its ret, its data cache
\* and its forwarding are known to get wrong: three instructions that come cycle
\* by cycle, each waiting for the one before (see the run mvp6_chain), a load before a jump or a taken branch, a branch
\* or a load before a ret, more than one store before a taken branch, a load near
\* a store that is on its way to the memory, lh and bltu.

\* Dependent results, and values loaded for an instruction that waits.
SuperAlu ==
  [1..3 -> {RI("addi", t0, t0, 1), RR("add", t1, t0, t1), RR("mul", t0, t0, t1),
            RR("div", t0, t1, t0), RI("mv", t1, t0, 0)}]
SuperLoads ==
  {<<RI("addi", t0, t0, 1)>> \o p : p \in
     [1..3 -> {RI("addi", t0, t0, 1), RR("add", t1, t0, t1), Load("lb", t0, 4),
               Instruction("lb", t1, t0, Zero, 0, "none")}]}

\* Branches, jumps and calls.
SuperControl ==
  {p \o <<Nop>> : p \in
     [1..3 -> {RI("srli", t0, t0, 1), RI("slti", t1, t0, 1), Branch("bne", t0, Zero, "one"),
               Branch("beq", t0, t1, "three"), Jump("j", Zero, "three"),
               Jump("jal", t1, "four"), Instruction("jalr", Zero, t1, Zero, 4, "none")}]}
SuperJumps == {p \in JumpCode : \A i \in 1..4 : p[i].op # "lb"}

\* Stores that miss the data cache, that hit it, and that a flush or a ret finds
\* on their way.
SuperStores ==
  {<<RI("addi", t0, t0, 1)>> \o p : p \in
     [1..3 -> {Store("sb", t0, 1), Store("sb", t0, 5), Store("sh", t1, 2),
               RI("addi", t1, t1, 1), RI("addi", t0, t0, 1)}]}
SuperHits ==
  {<<Load("lb", t0, 0), RI("addi", t0, t0, 1)>> \o p : p \in
     [1..3 -> {Store("sb", t0, 1), Load("lb", t1, 1), Store("sh", t1, 2),
               Load("lb", t0, 2), RI("addi", t1, t1, 1)}]}
SuperDrains ==
  {p \o <<Nop>> : p \in
     {q \in [1..3 -> {Store("sb", t1, 1), RI("srli", t0, t0, 1), RR("add", t1, t0, t0),
                      Branch("bne", t0, Zero, "one"), Branch("beq", t0, Zero, "four")}] :
        Cardinality({i \in 1..3 : q[i].op = "sb"}) <= 1}}
SuperReturns ==
  {p \o <<Ret>> : p \in
     [1..3 -> {Store("sb", t1, 1), Store("sh", t0, 6), RI("srli", t0, t0, 1),
               RR("add", t1, t0, t0)}]}

\* A last instruction that fails: a load or a store outside the memory, a
\* branch to a label declared nowhere.
SuperFailures ==
  {p \o <<last>> :
     p \in [1..2 -> {RI("addi", t0, t0, 1), Store("sb", t0, 1), Nop}],
     last \in {Store("sh", t1, 7), Load("lb", t1, -1), Branch("bne", t0, Zero, "lost")}}

\* A loop that fills the execute bus: the runner that is to be forwarded to
\* finds no room behind the one that forwards.
SuperCrowded ==
  {<<Load("lb", t1, 0), Branch("bne", Zero, Zero, "one"), Nop, Nop, RI("addi", Ra, Zero, 1),
     RI("srli", t0, t0, 1), reader, Branch("bne", t0, Zero, "one")>> :
     reader \in {RI("addi", Zero, Ra, 1), RI("addi", t1, Ra, 1), RI("addi", Ra, Ra, 1)}}
SuperCode ==
  {SuperAlu, SuperLoads, SuperControl, SuperJumps, SuperStores, SuperHits, SuperDrains,
   SuperReturns, SuperFailures, SuperCrowded}
=============================================================================
