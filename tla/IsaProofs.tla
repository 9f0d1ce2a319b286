------------------------------ MODULE IsaProofs ------------------------------
(***************************************************************************)
(* Proofs about the instruction set, for every instruction, operand,       *)
(* program and width of a byte: an instruction computes from the registers *)
(* that it declares to the hazard detection and writes the ones it         *)
(* declares, lh and jal apart, div and rem divide the words, conversions,  *)
(* bitwise opcodes and shifts move single bits, a load reads back what a   *)
(* store writes, and the sequential processor computes words.              *)
(***************************************************************************)
EXTENDS IsaChecks, Sequential, OperatorProofs

-----------------------------------------------------------------------------
(* What the instructions declare                                           *)

\* Two register files that agree on what an instruction declares to read.
LEMMA DeclaredReadsSuffice ==
  ASSUME NEW code, code.op \in Op, NEW program0, NEW pc0, NEW bytes, NEW a, NEW b,
         \A r \in ReadRegisters(code) : a[r] = b[r]
  PROVE  /\ Run(code, program0, a, pc0, bytes) = Run(code, program0, b, pc0, bytes)
         /\ MemoryRead(code, a) = MemoryRead(code, b)
<1>1. /\ code.op \in RegRegOps \cup StoreOps \cup (BranchOps \ {"beqz"})
         => a[code.rs1] = b[code.rs1] /\ a[code.rs2] = b[code.rs2]
      /\ code.op \in RegImmOps \cup LoadOps \cup {"beqz", "jalr"} => a[code.rs1] = b[code.rs1]
  <2>1. code.op \in RegRegOps \cup StoreOps \cup (BranchOps \ {"beqz"})
        => code.rs1 \in ReadRegisters(code) /\ code.rs2 \in ReadRegisters(code)
    BY DEF ReadRegisters, RegRegOps, RegImmOps, StoreOps, BranchOps, LoadOps
  <2>2. code.op \in RegImmOps \cup LoadOps \cup {"beqz", "jalr"}
        => code.rs1 \in ReadRegisters(code)
    BY DEF ReadRegisters, RegRegOps, RegImmOps, StoreOps, BranchOps, LoadOps
  <2> QED BY <2>1, <2>2
<1>2. MemoryRead(code, a) = MemoryRead(code, b)
  <2>1. CASE code.op \in LoadOps
    <3>1. a[code.rs1] = b[code.rs1]
      BY <1>1, <2>1
    <3> QED BY <3>1, Zenon DEF MemoryRead
  <2>2. CASE code.op \notin LoadOps
    BY <2>2 DEF MemoryRead
  <2> QED BY <2>1, <2>2
<1>3. Run(code, program0, a, pc0, bytes) = Run(code, program0, b, pc0, bytes)
  <2>1. CASE code.op \in RegRegOps
    <3>1. Run(code, program0, a, pc0, bytes) = RegRegRun(code, a[code.rs1], a[code.rs2])
      BY <2>1, RunOfRegReg
    <3>2. Run(code, program0, b, pc0, bytes) = RegRegRun(code, b[code.rs1], b[code.rs2])
      BY <2>1, RunOfRegReg
    <3>3. a[code.rs1] = b[code.rs1] /\ a[code.rs2] = b[code.rs2]
      BY <1>1, <2>1
    <3> QED BY <3>1, <3>2, <3>3, Zenon
  <2>2. CASE code.op \in RegImmOps
    <3>1. Run(code, program0, a, pc0, bytes) = RegImmRun(code, a[code.rs1], code.imm)
      BY <2>2, RunOfRegImm
    <3>2. Run(code, program0, b, pc0, bytes) = RegImmRun(code, b[code.rs1], code.imm)
      BY <2>2, RunOfRegImm
    <3>3. a[code.rs1] = b[code.rs1]
      BY <1>1, <2>2
    <3> QED BY <3>1, <3>2, <3>3, Zenon
  <2>3. CASE code.op \in UpperOps
    <3>1. Run(code, program0, a, pc0, bytes) = UpperRun(code, pc0)
      BY <2>3, RunOfUpper
    <3>2. Run(code, program0, b, pc0, bytes) = UpperRun(code, pc0)
      BY <2>3, RunOfUpper
    <3> QED BY <3>1, <3>2
  <2>4. CASE code.op \in LoadOps
    <3>1. Run(code, program0, a, pc0, bytes) = LoadRun(code, bytes)
      BY <2>4, RunOfLoad
    <3>2. Run(code, program0, b, pc0, bytes) = LoadRun(code, bytes)
      BY <2>4, RunOfLoad
    <3> QED BY <3>1, <3>2
  <2>5. CASE code.op \in StoreOps
    <3>1. Run(code, program0, a, pc0, bytes) = StoreRun(code, a[code.rs1], a[code.rs2])
      BY <2>5, RunOfStore
    <3>2. Run(code, program0, b, pc0, bytes) = StoreRun(code, b[code.rs1], b[code.rs2])
      BY <2>5, RunOfStore
    <3>3. a[code.rs1] = b[code.rs1] /\ a[code.rs2] = b[code.rs2]
      BY <1>1, <2>5
    <3> QED BY <3>1, <3>2, <3>3, Zenon
  <2>6. CASE code.op \in BranchOps
    <3>1. Run(code, program0, a, pc0, bytes) = BranchRun(code, program0, a[code.rs1], a[code.rs2])
      BY <2>6, RunOfBranch
    <3>2. Run(code, program0, b, pc0, bytes) = BranchRun(code, program0, b[code.rs1], b[code.rs2])
      BY <2>6, RunOfBranch
    <3>3. CASE code.op # "beqz"
      <4>1. a[code.rs1] = b[code.rs1] /\ a[code.rs2] = b[code.rs2]
        BY <1>1, <2>6, <3>3
      <4> QED BY <3>1, <3>2, <4>1, Zenon
    <3>4. CASE code.op = "beqz"
      <4>1. a[code.rs1] = b[code.rs1]
        BY <1>1, <3>4
      <4>2. \A x1, y1 : Taken(code, x1, y1) = EqTaken(x1, 0)
        BY <3>4 DEF Taken
      <4>3. Taken(code, a[code.rs1], a[code.rs2]) = Taken(code, b[code.rs1], b[code.rs2])
        BY <4>1, <4>2, Zenon
      <4>4. BranchRun(code, program0, a[code.rs1], a[code.rs2])
              = BranchRun(code, program0, b[code.rs1], b[code.rs2])
        BY <4>3, Zenon DEF BranchRun
      <4> QED BY <3>1, <3>2, <4>4, Zenon
    <3> QED BY <3>3, <3>4
  <2>7. CASE code.op \in JumpOps
    <3>1. Run(code, program0, a, pc0, bytes) = JumpRun(code, program0, a[code.rs1], pc0)
      BY <2>7, RunOfJump
    <3>2. Run(code, program0, b, pc0, bytes) = JumpRun(code, program0, b[code.rs1], pc0)
      BY <2>7, RunOfJump
    <3>3. CASE code.op = "jalr"
      <4>1. a[code.rs1] = b[code.rs1]
        BY <1>1, <3>3
      <4> QED BY <3>1, <3>2, <4>1, Zenon
    <3>4. CASE code.op # "jalr"
      <4>1. JumpRun(code, program0, a[code.rs1], pc0) = JumpRun(code, program0, b[code.rs1], pc0)
        BY <3>4, Zenon DEF JumpRun
      <4> QED BY <3>1, <3>2, <4>1, Zenon
    <3> QED BY <3>3, <3>4
  <2>8. CASE code.op = "ret"
    <3>1. Run(code, program0, a, pc0, bytes) = [NoChange EXCEPT !.Return = TRUE]
      BY <2>8, RunOfRet
    <3>2. Run(code, program0, b, pc0, bytes) = [NoChange EXCEPT !.Return = TRUE]
      BY <2>8, RunOfRet
    <3> QED BY <3>1, <3>2
  <2>9. CASE code.op = "nop"
    BY <2>9, RunOfNop
  <2> QED BY <2>1, <2>2, <2>3, <2>4, <2>5, <2>6, <2>7, <2>8, <2>9, KindsOfOpcodes
<1> QED BY <1>2, <1>3

\* The register of a result, and the registers that are declared.
Declares(code, exe) ==
  exe.Outcome = "ok" => WriteRegisters(code) = IF exe.RegisterChange THEN {exe.Register} ELSE {}

LEMMA DeclaredWritesAreMade ==
  ASSUME NEW code, code.op \in Op, code.op # "lh", NEW program0, NEW pc0, NEW bytes, NEW regs0
  PROVE  Declares(code, Run(code, program0, regs0, pc0, bytes))
<1>1. PICK exe, p, q : exe = Run(code, program0, regs0, pc0, bytes)
                       /\ p = regs0[code.rs1] /\ q = regs0[code.rs2]
  OBVIOUS
<1>3. CASE code.op \in RegRegOps \cup RegImmOps \cup UpperOps \cup LoadOps
  <2>1. WriteRegisters(code) = {code.rd}
    BY <1>3 DEF WriteRegisters, LoadOps
  <2>2. (\E value : exe = RegisterResult(code.rd, value)) \/ exe = Failed("error") \/ exe = Failed("panic")
    <3>1. CASE code.op \in RegRegOps
      <4>1. exe = RegRegRun(code, p, q)
        BY <1>1, <3>1, RunOfRegReg
      <4> QED BY <4>1, Zenon DEF RegRegRun
    <3>2. CASE code.op \in RegImmOps
      <4>1. exe = RegImmRun(code, p, code.imm)
        BY <1>1, <3>2, RunOfRegImm
      <4> QED BY <4>1, Zenon DEF RegImmRun
    <3>3. CASE code.op \in UpperOps
      <4>1. exe = UpperRun(code, pc0)
        BY <1>1, <3>3, RunOfUpper
      <4> QED BY <4>1, Zenon DEF UpperRun
    <3>4. CASE code.op \in LoadOps
      <4>1. exe = LoadRun(code, bytes)
        BY <1>1, <3>4, RunOfLoad
      <4> QED BY <4>1, Zenon DEF LoadRun
    <3> QED BY <1>3, <3>1, <3>2, <3>3, <3>4
  <2>3. exe.Outcome = "ok" => exe.RegisterChange /\ exe.Register = code.rd
    <3>1. CASE \E value : exe = RegisterResult(code.rd, value)
      BY <3>1, FieldsOfResults
    <3>2. CASE exe = Failed("error") \/ exe = Failed("panic")
      BY <3>2, FieldsOfResults
    <3> QED BY <2>2, <3>1, <3>2
  <2> QED BY <1>1, <2>1, <2>3 DEF Declares
<1>4. CASE code.op \in StoreOps \cup BranchOps \cup {"j", "ret", "nop"}
  <2>1. WriteRegisters(code) = {}
    BY <1>4 DEF WriteRegisters, StoreOps, BranchOps, RegRegOps, RegImmOps, UpperOps
  <2>2. \A label : ~Goto(program0, label).RegisterChange
    BY DEF Goto, NoChange, Failed
  <2>3. ~exe.RegisterChange
    <3>1. CASE code.op \in StoreOps
      <4>1. exe = StoreRun(code, p, q)
        BY <1>1, <3>1, RunOfStore
      <4> QED BY <4>1 DEF StoreRun, NoChange
    <3>2. CASE code.op \in BranchOps
      <4>1. exe = BranchRun(code, program0, p, q)
        BY <1>1, <3>2, RunOfBranch
      <4>2. exe = Goto(program0, code.label) \/ exe = NoChange
        BY <4>1, Zenon DEF BranchRun
      <4> QED BY <2>2, <4>2, FieldsOfResults
    <3>3. CASE code.op = "j"
      <4>1. exe = JumpRun(code, program0, p, pc0)
        BY <1>1, <3>3, RunOfJump DEF JumpOps
      <4>2. exe = Goto(program0, code.label)
        BY <3>3, <4>1 DEF JumpRun
      <4> QED BY <2>2, <4>2
    <3>4. CASE code.op \in {"ret", "nop"}
      <4>1. exe = [NoChange EXCEPT !.Return = TRUE] \/ exe = NoChange
        BY <1>1, <3>4, RunOfRet, RunOfNop
      <4> QED BY <4>1 DEF NoChange
    <3> QED BY <1>4, <3>1, <3>2, <3>3, <3>4
  <2> QED BY <1>1, <2>1, <2>3 DEF Declares
<1>5. CASE code.op \in {"jal", "jalr"}
  <2>1. WriteRegisters(code) = {code.rd}
    BY <1>5 DEF WriteRegisters
  <2>2. exe = JumpRun(code, program0, p, pc0)
    BY <1>1, <1>5, RunOfJump DEF JumpOps
  <2>3. PICK target : target = IF code.op = "jalr"
                               THEN [NoChange EXCEPT !.PcChange = TRUE, !.NextPc = Wrap(p + code.imm)]
                               ELSE Goto(program0, code.label)
    OBVIOUS
  <2>4. PICK link : link = RegisterResult(code.rd, Wrap(pc0 + 4))
    OBVIOUS
  <2>5. \/ exe = target /\ target.Outcome # "ok"
        \/ exe = [link EXCEPT !.PcChange = TRUE, !.NextPc = target.NextPc]
    <3>1. code.op # "j"
      BY <1>5
    <3> QED BY <2>2, <2>3, <2>4, <3>1, Zenon DEF JumpRun
  <2>6. exe.Outcome = "ok" => exe.RegisterChange /\ exe.Register = code.rd
    BY <2>4, <2>5 DEF RegisterResult, NoChange
  <2> QED BY <1>1, <2>1, <2>6 DEF Declares
<1> QED BY <1>3, <1>4, <1>5, KindsOfOpcodes DEF JumpOps

\* The checked instructions are instructions.
LEMMA CasesAreInstructions == \A i \in Cases : i \in InstructionRunner /\ i.op \in Op
<1>1. Zero \in Register
  BY IsaAssumption
<1> QED BY <1>1, IsaChecksAssumption DEF InstructionRunner

\* Changing a register that an instruction does not declare to read changes nothing that it
\* computes (opcodes.go: ReadRegisters and Run of every opcode), so the hazard detection
\* has to look at no other.
THEOREM DeclaredReads == SpecCase => UndeclaredRegistersNotRead
<1>1. InitCase => ins \in Cases
  BY DEF InitCase
<1>2. ins \in Cases /\ [NextCase]_caseVars => (ins \in Cases)'
  BY DEF NextCase, Change, caseVars
<1>3. ins \in Cases /\ [NextCase]_caseVars
      => [(\A r \in ReadRegisters(ins) : regs'[r] = regs[r])
            => result' = result /\ MemoryRead(ins, regs') = MemoryRead(ins, regs)]_regs
  <2> SUFFICES ASSUME ins \in Cases, [NextCase]_caseVars,
                      \A r \in ReadRegisters(ins) : regs'[r] = regs[r]
               PROVE  result' = result /\ MemoryRead(ins, regs') = MemoryRead(ins, regs)
    OBVIOUS
  <2>1. ins.op \in Op
    BY CasesAreInstructions
  <2>2. ins' = ins
    BY DEF NextCase, Change, caseVars
  <2>3. Run(ins, program, regs', 4, loaded) = Run(ins, program, regs, 4, loaded)
        /\ MemoryRead(ins, regs') = MemoryRead(ins, regs)
    BY <2>1, DeclaredReadsSuffice, Zenon
  <2>4. result' = Run(ins, program, regs', 4, loaded)
    BY <2>2 DEF result, program, loaded
  <2> QED BY <2>3, <2>4 DEF result
<1> QED BY <1>1, <1>2, <1>3, PTL DEF UndeclaredRegistersNotRead, SpecCase

-----------------------------------------------------------------------------
(* Division                                                                *)

\* div and rem of words (opcodes.go): only the least word divided by -1 wraps around.
LEMMA WordsDivide ==
  ASSUME NEW a \in Word, NEW b \in Word, b # 0
  PROVE  /\ Wrap(DivOf(a, b) * b + RemOf(a, b)) = a
         /\ Abs(RemOf(a, b)) < Abs(b)
         /\ RemOf(a, b) # 0 => (RemOf(a, b) < 0) = (a < 0)
<1>1. PICK h \in Nat \ {0} : h = Half
  BY HalfOfRange, Zenon
<1>2. Word = -h .. h - 1
  BY <1>1, HalfOfRange, Zenon
<1>3. a \in Int /\ b \in Int /\ -h <= a /\ a <= h - 1 /\ -h <= b /\ b <= h - 1
  BY <1>2
<1>4. PICK t \in Int, r \in Int : t = TruncDiv(a, b) /\ r = TruncRem(a, b)
  BY <1>3, TruncDivides
<1>5. /\ Abs(t) <= Abs(a) /\ b * t + r = a /\ Abs(r) < Abs(b)
      /\ r # 0 => (r < 0) = (a < 0)
  BY <1>3, <1>4, TruncDivides, Zenon
<1>6. RemOf(a, b) = r
  <2>1. r \in Word
    BY <1>2, <1>3, <1>5 DEF Abs
  <2> QED BY <1>4, <2>1, WrapOfWord, Zenon DEF RemOf
<1>7. Wrap(DivOf(a, b) * b + r) = a
  <2>1. CASE t \in Word
    <3>1. DivOf(a, b) = t
      BY <1>4, <2>1, WrapOfWord, Zenon DEF DivOf
    <3>2. t * b + r = a
      BY <1>3, <1>5
    <3> QED BY <3>1, <3>2, WrapOfWord
  <2>2. CASE t \notin Word
    <3>1. t = h /\ a = -h
      BY <1>2, <1>3, <1>5, <2>2 DEF Abs
    <3>2. b = -1 /\ r = 0
      <4>1. PICK w \in Int : w = b * h
        BY <1>3
      <4>2. w + r = -h
        BY <1>5, <3>1, <4>1
      <4>3. b < 0
        <5>1. b > 0 => w >= h
          BY <1>3, <4>1
        <5>2. b > 0 => r < 0 /\ -r < b
          BY <1>3, <4>2, <5>1, <1>5 DEF Abs
        <5>3. b > 0 => -r >= 2 * h
          BY <4>2, <5>1
        <5> QED BY <1>3, <5>2, <5>3
      <4>4. b < -1 => w <= -(2 * h)
        BY <1>3, <4>1
      <4>5. b < -1 => r >= h
        BY <4>2, <4>4
      <4>6. Abs(r) < h + 1
        BY <1>3, <1>5, <4>3 DEF Abs
      <4>7. r # 0 => r < 0
        BY <1>5, <3>1
      <4>8. b = -1
        BY <1>3, <4>3, <4>5, <4>7
      <4>9. w = -h
        BY <4>1, <4>8
      <4> QED BY <4>2, <4>8, <4>9
    <3>3. DivOf(a, b) = -h
      BY <1>1, <1>4, <3>1, WrapOfHalf, Zenon DEF DivOf
    <3>4. DivOf(a, b) * b + r = h
      BY <3>2, <3>3
    <3> QED BY <1>1, <3>1, <3>4, WrapOfHalf, Zenon
  <2> QED BY <2>1, <2>2
<1> QED BY <1>5, <1>6, <1>7, Zenon

-----------------------------------------------------------------------------
(* Bits and bytes                                                          *)

\* BytesFromLowBits and I32FromBytes (bit.go), for a word of every width.
LEMMA BytesOfWord ==
  ASSUME NEW a \in Word
  PROVE  /\ I32FromBytes(BytesFromLowBits(a)) = a
         /\ \A i \in 0..WordBits - 1 :
              Bit(BytesFromLowBits(a)[i \div ByteBits + 1], i % ByteBits) = Bit(a, i)
<1>1. a \in Int
  BY DEF Word
<1>2. I32FromBytes(BytesFromLowBits(a)) = a
  <2>1. PICK bytes : bytes = BytesFromLowBits(a)
    OBVIOUS
  <2>2. \A j \in 0..3 : bytes[j + 1] = IF j < 4 THEN BytesFromLowBits(a)[j + 1] ELSE 0
    BY <2>1
  <2>3. I32FromBytes(bytes) = Wrap(a % 2^(4 * ByteBits))
    BY <1>1, <2>2, WordOfBytes
  <2>4. PICK f \in Nat \ {0} : f = 2^WordBits /\ f = 2^(4 * ByteBits)
    BY HalfOfRange DEF WordBits
  <2>5. PICK q \in Int, r \in Int : r = a % f /\ a = f * q + r
    BY <1>1, Division
  <2>6. PICK k \in Int : k = -q
    OBVIOUS
  <2>7. r = a + k * f
    <3>1. k * f = -(f * q)
      BY <2>6
    <3> QED BY <1>1, <2>5, <3>1
  <2>8. Wrap(r) = a
    BY <2>4, <2>7, WrapIs
  <2> QED BY <2>1, <2>3, <2>4, <2>5, <2>8, Zenon
<1>3. ASSUME NEW i \in 0..WordBits - 1
      PROVE  Bit(BytesFromLowBits(a)[i \div ByteBits + 1], i % ByteBits) = Bit(a, i)
  <2>1. PICK B \in Nat \ {0} : B = ByteBits /\ WordBits = 4 * B
    BY IsaAssumption DEF WordBits
  <2>2. PICK j \in Int, r \in Int : j = i \div B /\ r = i % B /\ i = B * j + r /\ 0 <= r /\ r < B
    BY Division
  <2>3. j \in 0..3
    <3>1. ~(j <= -1)
      <4>1. j <= -1 => B * j <= -B
        OBVIOUS
      <4> QED BY <2>2, <4>1
    <3>2. ~(j >= 4)
      <4>1. j >= 4 => B * j >= 4 * B
        OBVIOUS
      <4> QED BY <2>1, <2>2, <4>1
    <3> QED BY <3>1, <3>2
  <2>4. PICK m \in Nat : m = j * B /\ i = m + r
    BY <2>2, <2>3
  <2>5. PICK n \in Int : n = a \div 2^m /\ BytesFromLowBits(a)[j + 1] = WrapByte(n)
    BY <1>1, <2>1, <2>3, <2>4, BytesAreBytes
  <2>6. Bit(WrapByte(n), r) = Bit(n, r)
    BY <2>1, <2>2, BitsOfWrapByte
  <2>7. Bit(n, r) = Bit(a, i)
    BY <1>1, <2>2, <2>4, <2>5, BitsOfQuotient
  <2> QED BY <2>1, <2>2, <2>5, <2>6, <2>7, Zenon
<1> QED BY <1>2, <1>3

\* The truth tables (opcodes.go: and, or, xor).
LEMMA TruthTables ==
  ASSUME NEW a \in Word, NEW b \in Word, NEW i \in 0..WordBits - 1
  PROVE  /\ Bit(AndOf(a, b), i) = 1 <=> Bit(a, i) = 1 /\ Bit(b, i) = 1
         /\ Bit(OrOf(a, b), i) = 1 <=> Bit(a, i) = 1 \/ Bit(b, i) = 1
         /\ Bit(XorOf(a, b), i) = 1 <=> Bit(a, i) # Bit(b, i)
<1>1. a \in Int /\ b \in Int /\ i \in Nat
  BY DEF Word
<1>2. PICK p \in {0, 1}, q \in {0, 1} : p = Bit(a, i) /\ q = Bit(b, i)
  BY <1>1, BitsAreBits
<1>3. /\ Bit(AndOf(a, b), i) = p * q
      /\ Bit(OrOf(a, b), i) = p + q - p * q
      /\ Bit(XorOf(a, b), i) = p + q - 2 * (p * q)
  BY <1>2, BitwiseWords, Zenon
<1>4. /\ p * q = 1 <=> p = 1 /\ q = 1
      /\ p + q - p * q = 1 <=> p = 1 \/ q = 1
      /\ p + q - 2 * (p * q) = 1 <=> p # q
  OBVIOUS
<1> QED BY <1>2, <1>3, <1>4, Zenon

\* The shifts (opcodes.go: sll, slli, sra, srai, srl, srli), by every legal count.
LEMMA Shifts ==
  ASSUME NEW a \in Word, NEW b \in Nat, NEW i \in 0..WordBits - 1
  PROVE  /\ Bit(SllOf(a, b), i) = IF i >= b THEN Bit(a, i - b) ELSE 0
         /\ Bit(SraOf(a, b), i) = IF i + b < WordBits THEN Bit(a, i + b)
                                  ELSE Bit(a, WordBits - 1)
<1>1. PICK W \in Nat : W = WordBits - 1 /\ WordBits = W + 1 /\ Half = 2^W
  BY HighestBit
<1>2. a \in Int /\ i \in Nat
  BY DEF Word
<1>3. Bit(a, W) = IF a < 0 THEN 1 ELSE 0
  BY <1>1, SignBits
<1>4. PICK p \in Nat \ {0}, s \in Nat \ {0} : p = 2^i /\ s = 2^b
  BY <1>2, PowersOfTwo
<1>5. Bit(0, i) = 0 /\ Bit(-1, i) = 1
  <2>1. 0 \div p = 0
    OBVIOUS
  <2>2. PICK o \in Int, r \in Int, t \in Nat \ {0}, u \in Int : o = -1 /\ r = p - 1 /\ t = 2 /\ u = 1
    OBVIOUS
  <2>3. o = p * o + r /\ 0 <= r /\ r < p
    BY <2>2
  <2>4. o \div p = o
    BY <2>3, DivisionIs
  <2>5. o = t * o + u /\ 0 <= u /\ u < t
    BY <2>2
  <2>6. o % t = u
    BY <2>5, DivisionIs
  <2> QED BY <1>4, <2>1, <2>2, <2>4, <2>6 DEF Bit
<1>6. Bit(SllOf(a, b), i) = IF i >= b THEN Bit(a, i - b) ELSE 0
  <2>1. CASE b \in 0..W
    <3>1. PICK n \in Int : n = a * 2^b
      BY <1>2, <1>4
    <3>2. SllOf(a, b) = Wrap(n)
      BY <1>1, <2>1, <3>1, Zenon DEF SllOf
    <3>3. Bit(Wrap(n), i) = Bit(n, i)
      BY BitsOfWrap
    <3> QED BY <1>2, <3>1, <3>2, <3>3, BitsOfProduct, Zenon
  <2>2. CASE b \notin 0..W
    <3>1. SllOf(a, b) = 0 /\ ~(i >= b)
      BY <1>1, <2>2 DEF SllOf
    <3> QED BY <1>5, <3>1
  <2> QED BY <2>1, <2>2
<1>7. Bit(SraOf(a, b), i) = IF i + b < WordBits THEN Bit(a, i + b) ELSE Bit(a, W)
  <2>1. CASE b < WordBits
    <3>1. SraOf(a, b) = a \div 2^b
      BY <2>1 DEF SraOf
    <3>2. Bit(a \div 2^b, i) = Bit(a, b + i)
      BY <1>2, BitsOfQuotient
    <3>3. PICK n \in Nat : n = b + i /\ n = i + b
      BY <1>2
    <3>4. CASE n < WordBits
      BY <3>1, <3>2, <3>3, <3>4
    <3>5. CASE ~(n < WordBits)
      <4>1. n >= WordBits - 1
        BY <1>1, <3>5
      <4>2. Bit(a, n) = Bit(a, W)
        BY <1>3, <4>1, SignBits, Zenon
      <4> QED BY <3>1, <3>2, <3>3, <3>5, <4>2
    <3> QED BY <3>4, <3>5
  <2>2. CASE ~(b < WordBits)
    <3>1. SraOf(a, b) = IF a < 0 THEN -1 ELSE 0
      BY <2>2 DEF SraOf
    <3>2. ~(i + b < WordBits)
      BY <1>1, <2>2
    <3> QED BY <1>3, <1>5, <3>1, <3>2
  <2> QED BY <2>1, <2>2
<1> QED BY <1>1, <1>6, <1>7

\* The register file holds words.
WordsInv == ins \in Cases /\ regs \in [Register -> Word]

LEMMA WordsInvHolds == SpecCase => []WordsInv
<1>1. InitCase => WordsInv
  <2>1. 0 \in Word
    BY SmallWords
  <2> QED BY <2>1 DEF InitCase, WordsInv
<1>2. WordsInv /\ [NextCase]_caseVars => WordsInv'
  <2> SUFFICES ASSUME WordsInv, [NextCase]_caseVars PROVE WordsInv'
    OBVIOUS
  <2>1. CASE UNCHANGED caseVars
    BY <2>1 DEF WordsInv, caseVars
  <2>2. CASE NextCase
    <3>1. PICK r \in Register : Change(r)
      BY <2>2 DEF NextCase
    <3>2. Values(ins, r) \subseteq Word
      BY IsaChecksAssumption DEF WordsInv
    <3> QED BY <3>1, <3>2 DEF WordsInv, Change
  <2> QED BY <2>1, <2>2
<1> QED BY <1>1, <1>2, PTL DEF SpecCase

LEMMA SourcesAreWords == WordsInv => x \in Word /\ y \in Word
BY SourcesAssumption DEF WordsInv, x, y

\* Run itself writes ra, for jal, and nothing else: ra does not keep every value.
LEMMA DirectlyRa ==
  WordsInv /\ result.Outcome = "ok" => DirectWrites = IF ins.op = "jal" THEN {Ra} ELSE {}
<1> SUFFICES ASSUME WordsInv, result.Outcome = "ok"
             PROVE  DirectWrites = IF ins.op = "jal" THEN {Ra} ELSE {}
  OBVIOUS
<1>1. PICK exe : exe = result
  OBVIOUS
<1>2. ASSUME NEW r \in Register, NEW v
      PROVE  DirectWrite(ins, exe, [regs EXCEPT ![r] = v], 4)[r]
               = IF ins.op = "jal" /\ r = Ra THEN 4 ELSE v
  BY <1>1, IsaAssumption DEF DirectWrite, WordsInv
<1>3. DirectWrites = {r \in Register : \E v \in {0, 1} :
                        DirectWrite(ins, exe, [regs EXCEPT ![r] = v], 4)[r] # v}
  BY <1>1 DEF DirectWrites
<1>4. DirectWrites = {r \in Register : ins.op = "jal" /\ r = Ra}
  BY <1>2, <1>3
<1> QED BY <1>4, IsaAssumption

\* An execution writes what is declared, and every declared write is made, but that lh writes
\* rd undeclared and jal, in Run, ra (opcodes.go: WriteRegisters and Run of every opcode): a
\* scoreboard that goes by declarations misses these two writes and no other.
THEOREM DeclaredWrites == SpecCase => []WritesDeclared
<1>1. WordsInv => WritesDeclared
  <2> SUFFICES ASSUME WordsInv, result.Outcome = "ok"
               PROVE  ResultWrites \cup DirectWrites = WriteRegisters(ins) \cup UndeclaredWrites
    BY DEF WritesDeclared
  <2>1. ins.op \in Op
    BY CasesAreInstructions DEF WordsInv
  <2>2. DirectWrites = IF ins.op = "jal" THEN {Ra} ELSE {}
    BY DirectlyRa
  <2>3. ResultWrites = WriteRegisters(ins) \cup (IF ins.op = "lh" THEN {ins.rd} ELSE {})
    <3>1. CASE ins.op = "lh"
      <4>1. result = LoadRun(ins, loaded)
        BY <3>1, RunOfLoad DEF result, LoadOps
      <4>2. result.RegisterChange /\ result.Register = ins.rd
        BY <4>1, FieldsOfResults, Zenon DEF LoadRun
      <4>3. WriteRegisters(ins) = {}
        BY <3>1 DEF WriteRegisters, RegRegOps, RegImmOps, UpperOps
      <4> QED BY <3>1, <4>2, <4>3 DEF ResultWrites
    <3>2. CASE ins.op # "lh"
      <4>1. Declares(ins, result)
        BY <2>1, <3>2, DeclaredWritesAreMade, Zenon DEF result
      <4> QED BY <3>2, <4>1 DEF Declares, ResultWrites
    <3> QED BY <3>1, <3>2
  <2>4. UndeclaredWrites = (IF ins.op = "lh" THEN {ins.rd} ELSE {})
                           \cup (IF ins.op = "jal" THEN {Ra} ELSE {})
    BY DEF UndeclaredWrites
  <2> QED BY <2>2, <2>3, <2>4
<1> QED BY <1>1, WordsInvHolds, PTL

\* div and rem agree with each other (opcodes.go: div and rem): the quotient times the divisor
\* plus the remainder is the dividend, the remainder is smaller than the divisor and has the
\* sign of the dividend, in words of every width.
THEOREM DivisionIsExact == SpecCase => []DivRemIdentity
<1>1. WordsInv => DivRemIdentity
  <2> SUFFICES ASSUME WordsInv, y # 0
               PROVE  /\ Wrap(DivOf(x, y) * y + RemOf(x, y)) = x
                      /\ Abs(RemOf(x, y)) < Abs(y)
                      /\ RemOf(x, y) # 0 => (RemOf(x, y) < 0) = (x < 0)
    BY DEF DivRemIdentity
  <2> QED BY SourcesAreWords, WordsDivide
<1> QED BY <1>1, WordsInvHolds, PTL

\* BytesFromLowBits and I32FromBytes (bit.go) and the bitwise opcodes and shifts (opcodes.go)
\* put every single bit where it belongs, for words of every width.
THEOREM BitsAreExact == SpecCase => []BitByBit
<1>1. WordsInv => BitByBit
  <2> SUFFICES ASSUME WordsInv PROVE BitByBit
    OBVIOUS
  <2>1. x \in Word /\ y \in Word
    BY SourcesAreWords
  <2>2. BytesCopyBits
    BY <2>1, BytesOfWord, Zenon DEF BytesCopyBits
  <2>3. BitwiseByBit
    BY <2>1, TruthTables, Zenon DEF BitwiseByBit
  <2>4. ShiftsMoveBits
    <3>1. y >= 0 => y \in Nat
      BY <2>1 DEF Word
    <3> QED BY <2>1, <3>1, Shifts, Zenon DEF ShiftsMoveBits
  <2> QED BY <2>2, <2>3, <2>4 DEF BitByBit
<1> QED BY <1>1, WordsInvHolds, PTL

\* The bytes that a store puts at the addresses of its access.
LEMMA StoredBytes ==
  ASSUME NEW code, code.imm \in Word, NEW v, NEW i \in 1..AccessSize(code)
  PROVE  StoreRun(code, 0, v).MemoryChanges[Wrap(code.imm + i - 1)] = BytesFromLowBits(v)[i]
<1> DEFINE addrs == Addresses(Wrap(0 + code.imm), AccessSize(code))
           bytes == BytesFromLowBits(v)
           changes == [a \in {addrs[j] : j \in DOMAIN addrs} |->
                         bytes[CHOOSE j \in DOMAIN addrs : addrs[j] = a]]
<1>1. StoreRun(code, 0, v) = [NoChange EXCEPT !.MemoryChange = TRUE, !.MemoryChanges = changes]
  BY Zenon DEF StoreRun
<1>2. PICK size \in 1..4 : size = AccessSize(code)
  BY DEF AccessSize
<1>3. PICK imm \in Int : imm = code.imm /\ Wrap(0 + code.imm) = imm
  <2>1. code.imm \in Int /\ 0 + code.imm = code.imm
    BY DEF Word
  <2> QED BY <2>1, WrapOfWord
<1>4. DOMAIN addrs = 1..size /\ \A j \in 1..size : addrs[j] = Wrap(imm + j - 1)
  BY <1>2, <1>3 DEF Addresses
<1> HIDE DEF addrs, bytes
<1>5. i \in DOMAIN addrs /\ addrs[i] = Wrap(imm + i - 1)
  BY <1>2, <1>4
<1>6. ASSUME NEW j \in DOMAIN addrs, addrs[j] = addrs[i] PROVE j = i
  <2>1. j \in 1..4 /\ i \in 1..4 /\ Wrap(imm + j - 1) = Wrap(imm + i - 1)
    BY <1>2, <1>4, <1>5, <1>6
  <2> QED BY <2>1, AddressesDiffer
<1>7. changes[addrs[i]] = bytes[i]
  <2>1. addrs[i] \in {addrs[j] : j \in DOMAIN addrs}
    BY <1>5
  <2>2. changes[addrs[i]] = bytes[CHOOSE j \in DOMAIN addrs : addrs[j] = addrs[i]]
    BY <2>1, Zenon
  <2>3. (CHOOSE j \in DOMAIN addrs : addrs[j] = addrs[i]) = i
    BY <1>5, <1>6, Zenon
  <2> QED BY <2>2, <2>3, Zenon
<1> HIDE DEF changes
<1>8. StoreRun(code, 0, v).MemoryChanges = changes
  BY <1>1 DEF NoChange
<1> QED BY <1>3, <1>5, <1>7, <1>8 DEF bytes

\* The loads of the bytes that the stores of a word wrote.
LEMMA LoadsOfStores ==
  ASSUME NEW a \in Word, NEW bytes
  PROVE  /\ bytes = [i \in 1..4 |-> BytesFromLowBits(a)[i]] => I32FromBytes(bytes) = a
         /\ bytes = [i \in 1..2 |-> BytesFromLowBits(a)[i]]
              => I32FromBytes(<<bytes[1], bytes[2], 0, 0>>) = a % 2^(2 * ByteBits)
         /\ bytes = [i \in 1..1 |-> BytesFromLowBits(a)[i]] => bytes[1] = WrapByte(a)
<1>1. a \in Int
  BY DEF Word
<1>2. ASSUME bytes = [i \in 1..4 |-> BytesFromLowBits(a)[i]] PROVE I32FromBytes(bytes) = a
  <2>1. bytes = BytesFromLowBits(a)
    BY <1>2 DEF BytesFromLowBits
  <2> QED BY <2>1, BytesOfWord, Zenon
<1>3. ASSUME bytes = [i \in 1..2 |-> BytesFromLowBits(a)[i]]
      PROVE  I32FromBytes(<<bytes[1], bytes[2], 0, 0>>) = a % 2^(2 * ByteBits)
  <2>1. PICK four : four = <<bytes[1], bytes[2], 0, 0>>
    OBVIOUS
  <2>2. \A j \in 0..3 : four[j + 1] = IF j < 2 THEN BytesFromLowBits(a)[j + 1] ELSE 0
    <3>1. bytes[1] = BytesFromLowBits(a)[1] /\ bytes[2] = BytesFromLowBits(a)[2]
      BY <1>3
    <3>2. four[1] = bytes[1] /\ four[2] = bytes[2] /\ four[3] = 0 /\ four[4] = 0
      BY <2>1
    <3> QED BY <3>1, <3>2
  <2>3. I32FromBytes(four) = Wrap(a % 2^(2 * ByteBits))
    BY <1>1, <2>2, WordOfBytes
  <2>4. PICK m \in Nat, W \in Nat : m = 2 * ByteBits /\ W = WordBits - 1 /\ Half = 2^W /\ m <= W
    <3>1. PICK W \in Nat : W = WordBits - 1 /\ Half = 2^W
      BY HighestBit
    <3>2. PICK B \in Nat \ {0} : B = ByteBits /\ WordBits = 4 * B
      BY IsaAssumption DEF WordBits
    <3> QED BY <3>1, <3>2
  <2>5. PICK f \in Nat \ {0}, h \in Nat \ {0} : f = 2^m /\ h = Half /\ f <= h
    BY <2>4, PowersOfTwo, PowersGrow
  <2>6. PICK r \in Int : r = a % f /\ 0 <= r /\ r < f
    BY <1>1, Division
  <2>7. r \in Word
    <3>1. r \in -h .. h - 1
      BY <2>5, <2>6
    <3> QED BY <2>5, <3>1, HalfOfRange, Zenon
  <2> QED BY <2>1, <2>3, <2>4, <2>5, <2>6, <2>7, WrapOfWord, Zenon
<1>4. ASSUME bytes = [i \in 1..1 |-> BytesFromLowBits(a)[i]] PROVE bytes[1] = WrapByte(a)
  <2>1. BytesFromLowBits(a)[0 + 1] = WrapByte(a \div 2^(0 * ByteBits))
    <3>1. PICK j \in 0..3 : j = 0
      OBVIOUS
    <3>2. BytesFromLowBits(a)[j + 1] = WrapByte(a \div 2^(j * ByteBits))
      BY <1>1, BytesAreBytes, Zenon
    <3> QED BY <3>1, <3>2, Zenon
  <2>2. 0 * ByteBits = 0 /\ 2^0 = 1 /\ a \div 1 = a
    BY <1>1, IsaAssumption
  <2>3. bytes[1] = BytesFromLowBits(a)[0 + 1]
    BY <1>4
  <2> QED BY <2>1, <2>2, <2>3, Zenon
<1> QED BY <1>2, <1>3, <1>4

\* A load of the same size reads back what a store wrote (opcodes.go: sw, sh, sb and lw, lh,
\* lb), in words of every width: the word, the low half without its sign, the low byte with it.
THEOREM LoadsReadStores == SpecCase => []StoreThenLoad
<1>1. WordsInv => StoreThenLoad
  <2> SUFFICES ASSUME WordsInv, ins.rd # Zero PROVE StoreThenLoad
    BY Zenon DEF StoreThenLoad
  <2> DEFINE code(op) == [ins EXCEPT !.op = op]
             stored(op) == StoreRun(code(op), 0, x).MemoryChanges
             at(op, n) == [i \in 1..n |-> stored(op)[Wrap(ins.imm + i - 1)]]
             read(op, b) == LoadRun(code(op), b).RegisterValue
  <2>1. ins \in InstructionRunner /\ x \in Word
    BY CasesAreInstructions, SourcesAreWords DEF WordsInv
  <2>2. ASSUME NEW op \in {"sw", "sh", "sb", "lw", "lh", "lb"}
        PROVE  code(op).op = op /\ code(op).imm = ins.imm /\ code(op).rd = ins.rd /\ ins.imm \in Word
    BY <2>1 DEF InstructionRunner
  <2>3. ASSUME NEW op \in {"sw", "sh", "sb"}, NEW n \in 1..4, n = AccessSize(code(op))
        PROVE  at(op, n) = [i \in 1..n |-> BytesFromLowBits(x)[i]]
    <3>1. ASSUME NEW i \in 1..n
          PROVE  stored(op)[Wrap(ins.imm + i - 1)] = BytesFromLowBits(x)[i]
      <4>1. code(op).imm = ins.imm /\ code(op).imm \in Word
        BY <2>2
      <4> HIDE DEF code
      <4>2. StoreRun(code(op), 0, x).MemoryChanges[Wrap(code(op).imm + i - 1)]
              = BytesFromLowBits(x)[i]
        BY <2>3, <4>1, StoredBytes, Zenon
      <4> QED BY <4>1, <4>2, Zenon
    <3> HIDE DEF stored
    <3> QED BY <3>1
  <2>4. /\ AccessSize(code("sw")) = 4 /\ AccessSize(code("sh")) = 2 /\ AccessSize(code("sb")) = 1
    <3>1. code("sw").op = "sw" /\ code("sh").op = "sh" /\ code("sb").op = "sb"
      BY <2>2
    <3> HIDE DEF code
    <3> QED BY <3>1 DEF AccessSize
  <2>5. ASSUME NEW b
        PROVE  /\ read("lw", b) = I32FromBytes(b) /\ read("lb", b) = b[1]
               /\ read("lh", b) = I32FromBytes(<<b[1], b[2], 0, 0>>)
    <3>1. \A op \in {"lw", "lh", "lb"} : code(op).op = op /\ code(op).rd # Zero
      BY <2>2
    <3>2. ASSUME NEW rd, rd # Zero, NEW value PROVE RegisterResult(rd, value).RegisterValue = value
      BY <3>2 DEF RegisterResult, NoChange
    <3> HIDE DEF code
    <3>3. /\ LoadRun(code("lw"), b) = RegisterResult(code("lw").rd, I32FromBytes(b))
          /\ LoadRun(code("lb"), b) = RegisterResult(code("lb").rd, b[1])
          /\ LoadRun(code("lh"), b) = RegisterResult(code("lh").rd, I32FromBytes(<<b[1], b[2], 0, 0>>))
      BY <3>1 DEF LoadRun
    <3> QED BY <3>1, <3>2, <3>3
  <2> HIDE DEF at, read
  <2>6. read("lw", at("sw", 4)) = x
    <3>1. PICK b : b = at("sw", 4) /\ b = [i \in 1..4 |-> BytesFromLowBits(x)[i]]
      BY <2>3, <2>4
    <3>2. I32FromBytes(b) = x
      BY <2>1, <3>1, LoadsOfStores, Zenon
    <3> QED BY <2>5, <3>1, <3>2, Zenon
  <2>7. read("lh", at("sh", 2)) = x % 2^(2 * ByteBits)
    <3>1. PICK b : b = at("sh", 2) /\ b = [i \in 1..2 |-> BytesFromLowBits(x)[i]]
      BY <2>3, <2>4
    <3>2. I32FromBytes(<<b[1], b[2], 0, 0>>) = x % 2^(2 * ByteBits)
      BY <2>1, <3>1, LoadsOfStores, Zenon
    <3> QED BY <2>5, <3>1, <3>2, Zenon
  <2>8. read("lb", at("sb", 1)) = WrapByte(x)
    <3>1. PICK b : b = at("sb", 1) /\ b = [i \in 1..1 |-> BytesFromLowBits(x)[i]]
      BY <2>3, <2>4
    <3>2. b[1] = WrapByte(x)
      BY <2>1, <3>1, LoadsOfStores, Zenon
    <3> QED BY <2>5, <3>1, <3>2, Zenon
  <2> QED BY <2>6, <2>7, <2>8, Zenon DEF StoreThenLoad, at, read
<1> QED BY <1>1, WordsInvHolds, PTL

-----------------------------------------------------------------------------
(* The sequential processor                                                *)

\* The instruction at a pc that is neither before nor behind the program is one of it, and
\* the next pc is an int32.
LEMMA FetchedIs ==
  ASSUME TypeOK, ~PastEnd, ~BadFetch
  PROVE  Fetched \in InstructionRunner /\ pc + 4 \in Word /\ pc \in Int
<1>1. PICK n \in Nat : /\ n = Len(app.Instructions) /\ 4 * n + 4 \in Word
                      /\ app.Instructions \in Seq(InstructionRunner)
  <2>1. app.Instructions \in Seq(InstructionRunner) /\ 4 * Len(app.Instructions) + 4 \in Word
    BY SequentialAssumption, Zenon DEF TypeOK, IsApplication
  <2>2. Len(app.Instructions) \in Nat
    BY <2>1
  <2> QED BY <2>1, <2>2
<1>2. pc \in Int
  BY DEF TypeOK, Word
<1>3. PICK i \in Int : i = IndexOf(pc)
  BY <1>2, TruncDivides DEF IndexOf
<1>4. 0 <= i /\ i < n
  BY <1>1, <1>3 DEF PastEnd, BadFetch
<1>5. Fetched \in InstructionRunner
  <2>1. app.Instructions[i + 1] \in InstructionRunner
    BY <1>1, <1>4
  <2> QED BY <1>1, <1>3, <2>1 DEF Fetched
<1>6. pc + 4 \in Word
  BY <1>1, <1>2, <1>3, <1>4, PcsOfProgram, Zenon
<1> QED BY <1>2, <1>5, <1>6

\* What the instruction computes are words and bytes.
LEMMA ExecutionComputesWords ==
  ASSUME TypeOK, ~PastEnd, ~BadFetch, ~BadRead
  PROVE  WordResult(Execution)
<1>1. Fetched \in InstructionRunner /\ pc \in Int
  BY FetchedIs
<1>2. LabelsAreWords(app)
  BY SequentialAssumption DEF TypeOK, IsApplication, LabelsAreWords
<1>3. registers \in [Register -> Word]
  BY DEF TypeOK, IsRegisterFile
<1>4. PICK addrs : addrs = MemoryRead(Fetched, registers)
  OBVIOUS
<1>5. PICK bytes : bytes = [i \in DOMAIN addrs |-> memory[addrs[i]]]
  OBVIOUS
<1>6. \A i \in DOMAIN addrs : bytes[i] \in Byte
  <2>1. ASSUME NEW i \in DOMAIN addrs PROVE bytes[i] \in Byte
    <3>1. addrs[i] \in DOMAIN memory
      BY <1>4 DEF BadRead
    <3>2. memory[addrs[i]] \in Byte
      BY <3>1 DEF TypeOK, IsMemory
    <3> QED BY <1>5, <3>2
  <2> QED BY <2>1
<1>7. Fetched.op \in LoadOps => \A i \in 1..AccessSize(Fetched) : bytes[i] \in Byte
  <2>1. Fetched.op \in LoadOps => DOMAIN addrs = 1..AccessSize(Fetched)
    BY <1>4 DEF MemoryRead, Addresses
  <2> QED BY <1>6, <2>1
<1>8. WordResult(Run(Fetched, app, registers, pc, bytes))
  BY <1>1, <1>2, <1>3, <1>7, ResultsAreWords, Zenon
<1> QED BY <1>4, <1>5, <1>8, Zenon DEF Execution

\* An instruction succeeds, returns an error or panics.
LEMMA OutcomesAreStatus ==
  ASSUME TypeOK, ~PastEnd, ~BadFetch
  PROVE  Execution.Outcome \in {"ok", "error", "panic"} /\ {"error", "panic"} \subseteq Status
<1>1. Fetched \in InstructionRunner
  BY FetchedIs
<1>2. PICK bytes : Execution = Run(Fetched, app, registers, pc, bytes)
  BY Zenon DEF Execution
<1>3. Run(Fetched, app, registers, pc, bytes).Outcome \in {"ok", "error", "panic"}
  BY <1>1, OutcomesOfRun, Zenon
<1> QED BY <1>2, <1>3 DEF Status

\* The next pc.
LEMMA GoesToWord ==
  ASSUME TypeOK, ~PastEnd, ~BadFetch, ~BadRead, Go
  PROVE  pc' \in Word
<1>1. pc + 4 \in Word
  BY FetchedIs
<1>2. Execution.NextPc \in Word
  BY ExecutionComputesWords DEF WordResult
<1> QED BY <1>1, <1>2 DEF Go

\* Every program on the sequential processor (MVP-1 and MVP-2: CPU.Run) keeps int32 words in
\* its registers and its pc, int8 bytes in its memory, and 0 in the register zero, whatever
\* sequence of instructions it runs.
THEOREM SequentialTypes == Spec => []TypeOK
<1>1. Init => TypeOK
  <2>1. 0 \in Word
    BY SmallWords
  <2> QED BY <2>1, SequentialAssumption DEF Init, TypeOK, Status
<1>2. TypeOK /\ [Next]_vars => TypeOK'
  <2> SUFFICES ASSUME TypeOK, [Next]_vars PROVE TypeOK'
    OBVIOUS
  <2>1. CASE UNCHANGED vars
    BY <2>1 DEF TypeOK, vars, IsRegisterFile, IsMemory
  <2>2. ASSUME NEW how \in Status, Stop(how) PROVE TypeOK'
    BY <2>2 DEF Stop, TypeOK, IsRegisterFile, IsMemory
  <2>3. CASE Fail
    <3>1. CASE Stop("panic")
      BY <2>2, <3>1 DEF Status
    <3>2. CASE ~BadFetch /\ ~BadRead /\ Execution.Outcome # "ok" /\ Stop(Execution.Outcome)
      <4>1. Execution.Outcome \in Status
        <5>1. ~PastEnd
          BY <2>3 DEF Fail
        <5> QED BY <3>2, <5>1, OutcomesAreStatus
      <4> QED BY <2>2, <3>2, <4>1
    <3>3. CASE /\ ~BadFetch /\ ~BadRead
               /\ ~(DOMAIN Execution.MemoryChanges \subseteq DOMAIN memory)
               /\ status' = "panic" /\ Go
               /\ UNCHANGED <<app, registers, memory>>
      <4>1. ~PastEnd
        BY <2>3 DEF Fail
      <4>2. pc' \in Word
        BY <3>3, <4>1, GoesToWord
      <4> QED BY <3>3, <4>2 DEF TypeOK, Status, IsRegisterFile, IsMemory
    <3> QED BY <2>3, <3>1, <3>2, <3>3 DEF Fail
  <2>4. CASE Return
    BY <2>2, <2>4 DEF Return, Status
  <2>5. CASE Step
    <3>1. ~PastEnd /\ ~BadFetch /\ ~BadRead /\ Go
      BY <2>5 DEF Step
    <3>2. pc' \in Word
      BY <3>1, GoesToWord
    <3>3. PICK exe : exe = Execution /\ WordResult(exe)
      BY <3>1, ExecutionComputesWords
    <3>4. IsRegisterFile(registers')
      <4>1. PICK direct : direct = DirectWrite(Fetched, Execution, registers, pc)
        OBVIOUS
      <4>2. IsRegisterFile(direct)
        <5>1. pc \in Word /\ IsRegisterFile(registers)
          BY DEF TypeOK
        <5>2. direct = registers \/ direct = [registers EXCEPT ![Ra] = pc]
          BY <4>1, Zenon DEF DirectWrite
        <5> QED BY <5>1, <5>2, IsaAssumption DEF IsRegisterFile
      <4>3. registers' = IF exe.RegisterChange THEN WriteRegister(direct, exe) ELSE direct
        BY <2>5, <3>3, <4>1, Zenon DEF Step
      <4>4. IsRegisterFile(WriteRegister(direct, exe))
        BY <3>3, <4>2 DEF WriteRegister, WordResult, IsRegisterFile
      <4> QED BY <4>2, <4>3, <4>4, Zenon
    <3>5. IsMemory(memory')
      <4>1. PICK changes : changes = exe.MemoryChanges /\ \A a \in DOMAIN changes : changes[a] \in Byte
        BY <3>3 DEF WordResult
      <4>2. memory' = WriteMemory(memory, changes)
        BY <2>5, <3>3, <4>1 DEF Step
      <4> QED BY <4>1, <4>2 DEF WriteMemory, IsMemory, TypeOK
    <3>6. app' = app /\ status' = status
      BY <2>5 DEF Step
    <3> QED BY <3>2, <3>4, <3>5, <3>6 DEF TypeOK
  <2>6. CASE Finish
    <3>1. CASE Stop("done")
      BY <2>2, <3>1 DEF Status
    <3>2. CASE registers' = [registers EXCEPT ![Ra] = 0] /\ pc' = 0 /\ UNCHANGED <<app, memory, status>>
      <4>1. 0 \in Word
        BY SmallWords
      <4> QED BY <3>2, <4>1, IsaAssumption DEF TypeOK, IsRegisterFile, IsMemory
    <3> QED BY <2>6, <3>1, <3>2 DEF Finish
  <2>7. CASE Ended
    BY <2>1, <2>7 DEF Ended
  <2> QED BY <2>1, <2>3, <2>4, <2>5, <2>6, <2>7 DEF Next
<1> QED BY <1>1, <1>2, PTL DEF Spec
=============================================================================
