----------------------------- MODULE IsaChecks -----------------------------
(***************************************************************************)
(* The instruction set against reference definitions, over bounded         *)
(* operands.  A state is one instruction and a register file; a step       *)
(* changes one register, so that an action property can say which          *)
(* registers an instruction depends on.                                    *)
(***************************************************************************)
EXTENDS Isa

CONSTANTS
  Rd, Rs1, Rs2, \* the registers of the checked instruction
  Cases,        \* the instructions checked
  Values(_, _)  \* the values a register takes for an instruction

ASSUME IsaChecksAssumption ==
  \A i \in Cases : \A r \in Register :
    i \in InstructionRunner /\ Values(i, r) \subseteq Word
ASSUME SourcesAssumption == Rs1 \in Register /\ Rs2 \in Register

VARIABLES ins, regs

\* One label, at the second instruction.
program == [Instructions |-> <<ins, ins>>, Labels |-> [l \in {"here"} |-> 4]]
loaded == <<-1, 1, 0, -2>>
result == Run(ins, program, regs, 4, loaded)

caseVars == <<ins, regs>>

InitCase ==
  /\ ins \in Cases
  /\ regs = [r \in Register |-> 0]
Change(r) ==
  /\ \E v \in Values(ins, r) \ {regs[r]} : regs' = [regs EXCEPT ![r] = v]
  /\ UNCHANGED ins
NextCase == \E r \in Register \ {Zero} : Change(r)

SpecCase == InitCase /\ [][NextCase]_caseVars

-----------------------------------------------------------------------------
(* What the hazard detection relies on                                     *)

\* Changing a register that ReadRegisters does not name changes nothing an
\* instruction computes: the hazard detection looks at no other register.
UndeclaredRegistersNotRead ==
  [][(\A r \in ReadRegisters(ins) : regs'[r] = regs[r])
       => result' = result /\ MemoryRead(ins, regs') = MemoryRead(ins, regs)]_regs

\* The registers an execution writes: by its result, when the processor writes
\* that back, and directly in Run, where a register is written if there is a
\* value that it does not keep.
ResultWrites == IF result.RegisterChange THEN {result.Register} ELSE {}
DirectWrites ==
  {r \in Register :
     \E v \in {0, 1} : DirectWrite(ins, result, [regs EXCEPT ![r] = v], 4)[r] # v}

\* What WriteRegisters does not tell of: lh declares no write at all, and jal
\* only that of rd (src/risc/opcodes.go).
UndeclaredWrites ==
  CASE ins.op = "lh" -> {ins.rd} [] ins.op = "jal" -> {Ra} [] OTHER -> {}

\* An execution writes the registers that WriteRegisters names, all of them and no
\* other, but for two opcodes: lh writes rd undeclared, and jal ra, in Run.
WritesDeclared ==
  result.Outcome = "ok" =>
    ResultWrites \cup DirectWrites = WriteRegisters(ins) \cup UndeclaredWrites

-----------------------------------------------------------------------------
(* Arithmetic                                                              *)

x == regs[Rs1]
y == regs[Rs2]

\* BytesFromLowBits copies bit i of the word to bit i % 8 of byte i / 8, and
\* I32FromBytes is its inverse.
BytesCopyBits ==
  /\ I32FromBytes(BytesFromLowBits(x)) = x
  /\ \A i \in 0..WordBits - 1 :
       Bit(BytesFromLowBits(x)[i \div ByteBits + 1], i % ByteBits) = Bit(x, i)

\* The bitwise opcodes agree with the truth tables, bit by bit.
BitwiseByBit ==
  \A i \in 0..WordBits - 1 :
    /\ Bit(AndOf(x, y), i) = 1 <=> Bit(x, i) = 1 /\ Bit(y, i) = 1
    /\ Bit(OrOf(x, y), i) = 1 <=> Bit(x, i) = 1 \/ Bit(y, i) = 1
    /\ Bit(XorOf(x, y), i) = 1 <=> Bit(x, i) # Bit(y, i)

\* div and rem: x = y * q + r with r smaller than y and of the sign of x,
\* except that the least word divided by -1 wraps around to itself.
DivRemIdentity ==
  y # 0 =>
    LET q == DivOf(x, y)
        r == RemOf(x, y)
    IN /\ Wrap(q * y + r) = x
       /\ Abs(r) < Abs(y)
       /\ r # 0 => (r < 0) = (x < 0)

\* Shifting by a legal count moves bit i - y (i + y) to bit i, filling with
\* zeros on the right and with the sign on the left; by a longer count only
\* the filling is left.
ShiftsMoveBits ==
  y >= 0 =>
    \A i \in 0..WordBits - 1 :
      /\ Bit(SllOf(x, y), i) = IF i >= y THEN Bit(x, i - y) ELSE 0
      /\ Bit(SraOf(x, y), i) = IF i + y < WordBits THEN Bit(x, i + y)
                               ELSE Bit(x, WordBits - 1)

\* The conversions, the bitwise opcodes and the shifts move and combine single
\* bits (bit.go; opcodes.go: and, or, xor, sll, srl, sra).
BitByBit == BytesCopyBits /\ BitwiseByBit /\ ShiftsMoveBits

\* What a store writes, the load of the same size reads back, into any register
\* but zero: the word, the low half zero-extended, the low byte sign-extended.
StoreThenLoad ==
  ins.rd # Zero =>
  LET bytes(op) == StoreRun([ins EXCEPT !.op = op], 0, x).MemoryChanges
      at(op, n) == [i \in 1..n |-> bytes(op)[Wrap(ins.imm + i - 1)]]
      load(op, b) == LoadRun([ins EXCEPT !.op = op], b).RegisterValue
  IN /\ load("lw", at("sw", 4)) = x
     /\ load("lh", at("sh", 2)) = x % 2^(2 * ByteBits)
     /\ load("lb", at("sb", 1)) = WrapByte(x)

=============================================================================
