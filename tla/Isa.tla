-------------------------------- MODULE Isa --------------------------------
(***************************************************************************)
(* The instruction set of package risc: what one instruction reads, what   *)
(* it computes and what it asks the processor to change.  Every processor  *)
(* of the repository (MVP-1 to MVP-6.1) calls the same InstructionRunner   *)
(* methods, so every processor module of this project builds on this one.  *)
(*                                                                         *)
(* The code works on int32 words and int8 bytes.  Here a byte has ByteBits *)
(* bits and a word four bytes, so that TLC meets wrap-around, sign and     *)
(* byte-boundary cases on small numbers; the code has ByteBits = 8.        *)
(* Debug output and the forward field (which only MVP-6.1 sets) are left   *)
(* out; a zero-valued forward makes registerRead return 0 for Zero.        *)
(***************************************************************************)
EXTENDS Integers, Sequences

CONSTANTS
  Register,    \* the register names, RegisterType
  Zero, Ra,    \* the two registers the code treats specially
  ByteBits,    \* bits of a byte
  UpperShift,  \* how far lui and auipc shift their immediate (12)
  LoadCycles   \* what Cycles() says of lb, lh and lw (50)

ASSUME IsaAssumption ==
  /\ Zero \in Register /\ Ra \in Register /\ Zero # Ra
  /\ ByteBits \in Nat \ {0}
  /\ UpperShift \in Nat
  /\ LoadCycles \in Nat \ {0}

-----------------------------------------------------------------------------
(* Fixed-width integers                                                    *)

WordBits == 4 * ByteBits
Word == -(2^(WordBits - 1)) .. 2^(WordBits - 1) - 1
Byte == -(2^(ByteBits - 1)) .. 2^(ByteBits - 1) - 1

\* Two's complement truncation of any integer to a word, and to a byte.
Wrap(n) == ((n + 2^(WordBits - 1)) % 2^WordBits) - 2^(WordBits - 1)
WrapByte(n) == ((n + 2^(ByteBits - 1)) % 2^ByteBits) - 2^(ByteBits - 1)

Abs(n) == IF n < 0 THEN -n ELSE n

\* Go's / and % round toward zero; TLA+'s \div and % round down.
FloorDiv(a, b) == IF b > 0 THEN a \div b ELSE (-a) \div (-b)   \* faulty
TruncDiv(a, b) ==
  IF (a < 0) = (b < 0) THEN Abs(a) \div Abs(b) ELSE -(Abs(a) \div Abs(b))
TruncRem(a, b) == a - b * TruncDiv(a, b)

\* The sum of terms[0] to terms[count - 1].
SumOf(terms, count) ==
  LET sum[n \in 0..count] == IF n = 0 THEN 0 ELSE sum[n - 1] + terms[n - 1]
  IN sum[count]

Bit(n, i) == (n \div 2^i) % 2

\* BytesFromLowBits: the four bytes of a word, lowest first.
BytesFromLowBits(n) == [i \in 1..4 |-> WrapByte(n \div 2^((i - 1) * ByteBits))]

\* Faulty variants of definitions, like the next one, are used by the mutants
\* of PROJECT.json only: they show that a property notices the fault.
I32SignedBytes(b) == Wrap(SumOf([i \in 0..3 |-> b[i + 1] * 2^(i * ByteBits)], 4))

\* I32FromBytes: the word whose four bytes, lowest first, are b.
I32FromBytes(b) ==
  Wrap(SumOf([i \in 0..3 |-> (b[i + 1] % 2^ByteBits) * 2^(i * ByteBits)], 4))

-----------------------------------------------------------------------------
(* What each opcode computes.  a and b are the source registers, or the    *)
(* source register and the immediate.                                      *)

AddUnwrapped(a, b) == a + b   \* faulty
AddOf(a, b) == Wrap(a + b)
AndOf(a, b) ==
  Wrap(SumOf([i \in 0..WordBits - 1 |-> Bit(a, i) * Bit(b, i) * 2^i], WordBits))
AuipcOf(pc, imm) == Wrap(pc + Wrap(imm * 2^UpperShift))
DivOf(a, b) == Wrap(TruncDiv(a, b))
LuiOf(imm) == Wrap(imm * 2^UpperShift)
MulOf(a, b) == Wrap(a * b)
OrOf(a, b) == a + b - AndOf(a, b)
RemOf(a, b) == Wrap(TruncRem(a, b))

\* A shift count is converted to uint: a negative one becomes huge, and
\* shifting by the width or more leaves no bit.
SllOf(a, b) == IF b \in 0..WordBits - 1 THEN Wrap(a * 2^b) ELSE 0

\* slt, sltu and slti all compare as signed numbers.
SltOf(a, b) == IF a < b THEN 1 ELSE 0

\* sra, srai, srl and srli are all arithmetic; a negative count panics (Run).
SraLogical(a, b) == IF b < WordBits THEN (a % 2^WordBits) \div 2^b ELSE 0   \* faulty
SraOf(a, b) == IF b < WordBits THEN a \div 2^b ELSE IF a < 0 THEN -1 ELSE 0
SubOf(a, b) == Wrap(a - b)
XorOf(a, b) == a + b - 2 * AndOf(a, b)

\* The conditions of the branches; bgeu and bltu compare as signed numbers.
EqTaken(a, b) == a = b
GeTaken(a, b) == a >= b
LtTaken(a, b) == a < b
NeTaken(a, b) == a # b

-----------------------------------------------------------------------------
(* Instructions                                                            *)

RegRegOps == {"add", "and", "div", "mul", "or", "rem", "sll", "slt", "sltu",
              "sra", "srl", "sub", "xor"}
RegImmOps == {"addi", "andi", "mv", "ori", "slli", "slti", "srai", "srli", "xori"}
UpperOps  == {"auipc", "li", "lui"}
LoadOps   == {"lb", "lh", "lw"}
StoreOps  == {"sb", "sh", "sw"}
BranchOps == {"beq", "beqz", "bge", "bgeu", "blt", "bltu", "bne"}
JumpOps   == {"j", "jal", "jalr"}
Op == RegRegOps \cup RegImmOps \cup UpperOps \cup LoadOps \cup StoreOps
      \cup BranchOps \cup JumpOps \cup {"nop", "ret"}

\* One instruction; rs1 stands for the rs of one-source opcodes, imm for the
\* immediate or the offset.  An application is a program and its labels.
Instruction(op, rd, rs1, rs2, imm, label) ==
  [op |-> op, rd |-> rd, rs1 |-> rs1, rs2 |-> rs2, imm |-> imm, label |-> label]

\* What the assembler parser makes of a line: an opcode of the list, with
\* registers and an int32; and of a file, whose pcs are int32's.
InstructionRunner ==
  [op : Op, rd : Register, rs1 : Register, rs2 : Register, imm : Word, label : STRING]
IsApplication(app) ==
  /\ app.Instructions \in Seq(InstructionRunner) /\ Len(app.Instructions) > 0
  /\ 4 * Len(app.Instructions) + 4 \in Word
  /\ \A label \in DOMAIN app.Labels : app.Labels[label] \in Word

\* What a Context starts with: words, of which zero is 0, and signed bytes.
IsRegisterFile(file) == file \in [Register -> Word] /\ file[Zero] = 0
IsMemory(bytes) == DOMAIN bytes \subseteq Nat /\ bytes \in [DOMAIN bytes -> Byte]

\* Faulty: the stored register is forgotten.
ReadRegistersNoStored(ins) ==
  CASE ins.op \in RegRegOps \cup (BranchOps \ {"beqz"}) -> {ins.rs1, ins.rs2}
    [] ins.op \in RegImmOps \cup StoreOps \cup {"beqz", "jalr", "lb", "lw"} -> {ins.rs1}
    [] ins.op = "lh" -> {ins.rs1, ins.rd}
    [] OTHER -> {}

\* ReadRegisters: what the hazard detection believes an instruction reads.
ReadRegisters(ins) ==
  CASE ins.op \in RegRegOps \cup StoreOps \cup (BranchOps \ {"beqz"})
         -> {ins.rs1, ins.rs2}
    [] ins.op \in RegImmOps \cup {"beqz", "jalr", "lb", "lw"} -> {ins.rs1}
    [] ins.op = "lh" -> {ins.rs1, ins.rd}
    [] OTHER -> {}

\* Faulty: jal forgotten.
WriteRegistersNoJal(ins) ==
  IF ins.op \in RegRegOps \cup RegImmOps \cup UpperOps \cup {"lb", "lw", "jalr"}
  THEN {ins.rd} ELSE {}

\* WriteRegisters: what it believes an instruction writes.  lh writes rd and
\* does not say so.
WriteRegisters(ins) ==
  IF ins.op \in RegRegOps \cup RegImmOps \cup UpperOps \cup {"lb", "lw", "jal", "jalr"}
  THEN {ins.rd} ELSE {}

Cycles(ins) == IF ins.op \in LoadOps THEN LoadCycles ELSE 1
IsUnconditionalBranch(ins) == ins.op \in JumpOps
\* bltu is missing from the code's list.
IsConditionalBranch(ins) == ins.op \in BranchOps \ {"bltu"}

-----------------------------------------------------------------------------
(* Execution: what Run returns.  Outcome is "ok", "error" (the returned    *)
(* error) or "panic" (a Go run-time panic).                                *)

NoChange ==
  [RegisterChange |-> FALSE, Register |-> Zero, RegisterValue |-> 0,
   MemoryChange |-> FALSE, MemoryChanges |-> << >>,
   PcChange |-> FALSE, NextPc |-> 0, Return |-> FALSE, Outcome |-> "ok"]

Failed(outcome) == [NoChange EXCEPT !.Outcome = outcome]

\* The result of an opcode that writes rd, after IsRegisterChange.
RegisterResult(rd, value) ==
  [NoChange EXCEPT !.RegisterChange = TRUE, !.Register = rd,
                   !.RegisterValue = IF rd = Zero THEN 0 ELSE value]

RegRegRun(ins, a, b) ==
  CASE ins.op = "div" /\ b = 0 -> Failed("error")
    [] ins.op = "rem" /\ b = 0 -> Failed("panic")
    [] ins.op \in {"sra", "srl"} /\ b < 0 -> Failed("panic")
    [] OTHER -> RegisterResult(ins.rd,
         CASE ins.op = "add" -> AddOf(a, b)
           [] ins.op = "and" -> AndOf(a, b)
           [] ins.op = "div" -> DivOf(a, b)
           [] ins.op = "mul" -> MulOf(a, b)
           [] ins.op = "or" -> OrOf(a, b)
           [] ins.op = "rem" -> RemOf(a, b)
           [] ins.op = "sll" -> SllOf(a, b)
           [] ins.op \in {"slt", "sltu"} -> SltOf(a, b)
           [] ins.op \in {"sra", "srl"} -> SraOf(a, b)
           [] ins.op = "sub" -> SubOf(a, b)
           [] ins.op = "xor" -> XorOf(a, b))

RegImmRun(ins, a, imm) ==
  IF ins.op \in {"srai", "srli"} /\ imm < 0 THEN Failed("panic")
  ELSE RegisterResult(ins.rd,
         CASE ins.op = "addi" -> AddOf(a, imm)
           [] ins.op = "andi" -> AndOf(a, imm)
           [] ins.op = "mv" -> a
           [] ins.op = "ori" -> OrOf(a, imm)
           [] ins.op = "slli" -> SllOf(a, imm)
           [] ins.op = "slti" -> SltOf(a, imm)
           [] ins.op \in {"srai", "srli"} -> SraOf(a, imm)
           [] ins.op = "xori" -> XorOf(a, imm))

UpperRun(ins, pc) ==
  RegisterResult(ins.rd,
    CASE ins.op = "auipc" -> AuipcOf(pc, ins.imm)
      [] ins.op = "li" -> ins.imm
      [] ins.op = "lui" -> LuiOf(ins.imm))

\* lb sign-extends its byte, lh clears the two high bytes.
LoadRun(ins, bytes) ==
  RegisterResult(ins.rd,
    CASE ins.op = "lb" -> bytes[1]
      [] ins.op = "lh" -> I32FromBytes(<<bytes[1], bytes[2], 0, 0>>)
      [] ins.op = "lw" -> I32FromBytes(bytes))

AccessSize(ins) ==
  CASE ins.op \in {"lb", "sb"} -> 1 [] ins.op \in {"lh", "sh"} -> 2 [] OTHER -> 4

\* The addresses of an access of `size' bytes at address a, each an int32.
Addresses(a, size) == [i \in 1..size |-> Wrap(a + i - 1)]

\* MemoryRead: the addresses a load asks for, empty for any other opcode.
MemoryRead(ins, regs) ==
  IF ins.op \in LoadOps
  THEN Addresses(Wrap(regs[ins.rs1] + ins.imm), AccessSize(ins)) ELSE << >>

\* The bytes of a store, by address.
StoreRun(ins, a, value) ==
  LET addrs == Addresses(Wrap(a + ins.imm), AccessSize(ins))
      bytes == BytesFromLowBits(value)
  IN [NoChange EXCEPT
        !.MemoryChange = TRUE,
        !.MemoryChanges = [x \in {addrs[i] : i \in DOMAIN addrs} |->
                             bytes[CHOOSE i \in DOMAIN addrs : addrs[i] = x]]]

Goto(app, label) ==
  IF label \in DOMAIN app.Labels
  THEN [NoChange EXCEPT !.PcChange = TRUE, !.NextPc = app.Labels[label]]
  ELSE Failed("error")

Taken(ins, a, b) ==
  CASE ins.op = "beq" -> EqTaken(a, b)
    [] ins.op = "beqz" -> EqTaken(a, 0)
    [] ins.op \in {"bge", "bgeu"} -> GeTaken(a, b)
    [] ins.op \in {"blt", "bltu"} -> LtTaken(a, b)
    [] ins.op = "bne" -> NeTaken(a, b)

BranchRun(ins, app, a, b) == IF Taken(ins, a, b) THEN Goto(app, ins.label) ELSE NoChange

\* j, jal and jalr; jal and jalr link pc + 4 into rd.
JumpRun(ins, app, a, pc) ==
  LET target == IF ins.op = "jalr"
                THEN [NoChange EXCEPT !.PcChange = TRUE, !.NextPc = Wrap(a + ins.imm)]
                ELSE Goto(app, ins.label)
      link == RegisterResult(ins.rd, Wrap(pc + 4))
  IN IF ins.op = "j" \/ target.Outcome # "ok" THEN target
     ELSE [link EXCEPT !.PcChange = TRUE, !.NextPc = target.NextPc]

\* Run: the execution of ins at pc, reading regs, with the loaded bytes.
Run(ins, app, regs, pc, bytes) ==
  LET a == regs[ins.rs1]
      b == regs[ins.rs2]
  IN CASE ins.op \in RegRegOps -> RegRegRun(ins, a, b)
       [] ins.op \in RegImmOps -> RegImmRun(ins, a, ins.imm)
       [] ins.op \in UpperOps -> UpperRun(ins, pc)
       [] ins.op \in LoadOps -> LoadRun(ins, bytes)
       [] ins.op \in StoreOps -> StoreRun(ins, a, b)
       [] ins.op \in BranchOps -> BranchRun(ins, app, a, b)
       [] ins.op \in JumpOps -> JumpRun(ins, app, a, pc)
       [] ins.op = "ret" -> [NoChange EXCEPT !.Return = TRUE]
       [] ins.op = "nop" -> NoChange

\* Faulty: jalr writes ra as jal does.
DirectWriteOfJalr(ins, exe, regs, pc) ==
  IF ins.op \in {"jal", "jalr"} /\ exe.Outcome = "ok" THEN [regs EXCEPT ![Ra] = pc] ELSE regs

\* jal also writes ra inside Run, past the write-back stage.
DirectWrite(ins, exe, regs, pc) ==
  IF ins.op = "jal" /\ exe.Outcome = "ok" THEN [regs EXCEPT ![Ra] = pc] ELSE regs

WriteRegister(regs, exe) == [regs EXCEPT ![exe.Register] = exe.RegisterValue]

\* WriteMemory panics when a changed address is outside the memory.
WriteMemory(memory, changes) ==
  [a \in DOMAIN memory |-> IF a \in DOMAIN changes THEN changes[a] ELSE memory[a]]

IndexOf(pc) == TruncDiv(pc, 4)
=============================================================================
