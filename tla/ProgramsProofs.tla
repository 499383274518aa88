--------------------------- MODULE ProgramsProofs ---------------------------
(***************************************************************************)
(* The test programs of the SLC-3 do what they are for, whatever stands on *)
(* the switches: assertions at the addresses of each program, which every  *)
(* instruction carries from the one to the next.                           *)
(***************************************************************************)
EXTENDS Slc3Programs, FunctionTheorems, FiniteSetTheorems, TLAPS

(***************************************************************************)
(* What an instruction that the builders make does.                        *)
(***************************************************************************)

LEMMA WordOps ==
  /\ \A x, y \in Int : Plus(x, y) \in Word
  /\ \A x \in Word : Not(x) \in Word /\ NZP(x) \in {1, 2, 4}
BY DEF Word, Plus, Not, NZP

LEMMA NibbleBits ==
  ASSUME NEW u \in 0 .. 15, NEW v \in 0 .. 15
  PROVE  /\ AndNibble(u, v) \in 0 .. 15
         /\ \A w \in {1, 2, 4, 8} : Bit(AndNibble(u, v), w) = Bit(u, w) * Bit(v, w)
<1> DEFINE q1 == Bit(u, 1) * Bit(v, 1)
           q2 == Bit(u, 2) * Bit(v, 2)
           q4 == Bit(u, 4) * Bit(v, 4)
           q8 == Bit(u, 8) * Bit(v, 8)
<1>1. \A w \in {1, 2, 4, 8} : Bit(u, w) \in {0, 1} /\ Bit(v, w) \in {0, 1}
  BY DEF Bit
<1>2. q1 \in {0, 1} /\ q2 \in {0, 1} /\ q4 \in {0, 1} /\ q8 \in {0, 1}
  BY <1>1
<1>3. /\ Both(u, v, 1) = q1 /\ Both(u, v, 2) = 2 * q2
      /\ Both(u, v, 4) = 4 * q4 /\ Both(u, v, 8) = 8 * q8
  BY <1>1 DEF Both
<1> DEFINE a == AndNibble(u, v)
<1>4. a = q1 + 2 * q2 + 4 * q4 + 8 * q8
  BY <1>2, <1>3 DEF AndNibble
<1>5. \A w \in {1, 2, 4, 8} : Bit(u, w) * Bit(v, w) =
                                 IF w = 1 THEN q1 ELSE IF w = 2 THEN q2 ELSE IF w = 4 THEN q4 ELSE q8
  OBVIOUS
<1> HIDE DEF q1, q2, q4, q8, a
<1>6. /\ a \in 0 .. 15 /\ Bit(a, 1) = q1 /\ Bit(a, 2) = q2
      /\ Bit(a, 4) = q4 /\ Bit(a, 8) = q8
  BY <1>2, <1>4 DEF Bit
<1> QED BY <1>5, <1>6 DEF a

(* A word has four digits, and its bits are theirs.                        *)
LEMMA Digits ==
  \A x \in Word : /\ x % 16 \in 0 .. 15 /\ (x \div 16) % 16 \in 0 .. 15
                  /\ (x \div 256) % 16 \in 0 .. 15 /\ x \div 4096 \in 0 .. 15
BY SMT DEF Word

LEMMA BitsOfDigits ==
  ASSUME NEW x \in Word
  PROVE  /\ Bit(x, 1) = Bit(x % 16, 1) /\ Bit(x, 2) = Bit(x % 16, 2)
         /\ Bit(x, 4) = Bit(x % 16, 4) /\ Bit(x, 8) = Bit(x % 16, 8)
         /\ Bit(x, 16) = Bit((x \div 16) % 16, 1) /\ Bit(x, 32) = Bit((x \div 16) % 16, 2)
         /\ Bit(x, 64) = Bit((x \div 16) % 16, 4) /\ Bit(x, 128) = Bit((x \div 16) % 16, 8)
         /\ Bit(x, 256) = Bit((x \div 256) % 16, 1) /\ Bit(x, 512) = Bit((x \div 256) % 16, 2)
         /\ Bit(x, 1024) = Bit((x \div 256) % 16, 4) /\ Bit(x, 2048) = Bit((x \div 256) % 16, 8)
         /\ Bit(x, 4096) = Bit(x \div 4096, 1) /\ Bit(x, 8192) = Bit(x \div 4096, 2)
         /\ Bit(x, 16384) = Bit(x \div 4096, 4) /\ Bit(x, 32768) = Bit(x \div 4096, 8)
<1>1. x \in Nat /\ x < 65536
  BY DEF Word
<1>2. /\ Bit(x, 1) = Bit(x % 16, 1) /\ Bit(x, 2) = Bit(x % 16, 2)
      /\ Bit(x, 4) = Bit(x % 16, 4) /\ Bit(x, 8) = Bit(x % 16, 8)
  BY <1>1, SMTT(30) DEF Bit
<1>3. /\ Bit(x, 16) = Bit((x \div 16) % 16, 1) /\ Bit(x, 32) = Bit((x \div 16) % 16, 2)
      /\ Bit(x, 64) = Bit((x \div 16) % 16, 4) /\ Bit(x, 128) = Bit((x \div 16) % 16, 8)
  BY <1>1, SMTT(30) DEF Bit
<1>4. /\ Bit(x, 256) = Bit((x \div 256) % 16, 1) /\ Bit(x, 512) = Bit((x \div 256) % 16, 2)
      /\ Bit(x, 1024) = Bit((x \div 256) % 16, 4) /\ Bit(x, 2048) = Bit((x \div 256) % 16, 8)
  BY <1>1, SMTT(30) DEF Bit
<1>5. /\ Bit(x, 4096) = Bit(x \div 4096, 1) /\ Bit(x, 8192) = Bit(x \div 4096, 2)
      /\ Bit(x, 16384) = Bit(x \div 4096, 4) /\ Bit(x, 32768) = Bit(x \div 4096, 8)
  BY <1>1, SMTT(30) DEF Bit
<1> QED BY <1>2, <1>3, <1>4, <1>5

LEMMA AndDigits ==
  ASSUME NEW x \in Word, NEW y \in Word
  PROVE  /\ And(x, y) \in Word
         /\ And(x, y) % 16 = AndNibble(x % 16, y % 16)
         /\ (And(x, y) \div 16) % 16 = AndNibble((x \div 16) % 16, (y \div 16) % 16)
         /\ (And(x, y) \div 256) % 16 = AndNibble((x \div 256) % 16, (y \div 256) % 16)
         /\ And(x, y) \div 4096 = AndNibble(x \div 4096, y \div 4096)
<1> DEFINE r0 == AndNibble(x % 16, y % 16)
           r1 == AndNibble((x \div 16) % 16, (y \div 16) % 16)
           r2 == AndNibble((x \div 256) % 16, (y \div 256) % 16)
           r3 == AndNibble(x \div 4096, y \div 4096)
           s == And(x, y)
<1>1. r0 \in 0 .. 15 /\ r1 \in 0 .. 15 /\ r2 \in 0 .. 15 /\ r3 \in 0 .. 15
  BY Digits, NibbleBits
<1>2. s = r0 + 16 * r1 + 256 * r2 + 4096 * r3
  BY DEF And
<1> HIDE DEF r0, r1, r2, r3, s
<1>3. s \in Int
  BY <1>1, <1>2
<1>4. s \in Word /\ s % 16 = r0 /\ (s \div 16) % 16 = r1 /\ (s \div 256) % 16 = r2
      /\ s \div 4096 = r3
  BY <1>1, <1>2, <1>3, SMTT(30) DEF Word
<1> QED BY <1>4 DEF r0, r1, r2, r3, s

LEMMA AndType == \A x, y \in Word : And(x, y) \in Word
BY AndDigits

(* The ALU's AND and NOT work on each bit.                                 *)
LEMMA AndBits ==
  ASSUME NEW x \in Word, NEW y \in Word, NEW w \in Powers
  PROVE  Bit(And(x, y), w) = Bit(x, w) * Bit(y, w)
<1> DEFINE s == And(x, y)
<1>1. /\ s \in Word
      /\ s % 16 = AndNibble(x % 16, y % 16)
      /\ (s \div 16) % 16 = AndNibble((x \div 16) % 16, (y \div 16) % 16)
      /\ (s \div 256) % 16 = AndNibble((x \div 256) % 16, (y \div 256) % 16)
      /\ s \div 4096 = AndNibble(x \div 4096, y \div 4096)
  BY AndDigits
<1> HIDE DEF s
<1>2. CASE w \in {1, 2, 4, 8}
  <2>1. Bit(s % 16, w) = Bit(x % 16, w) * Bit(y % 16, w)
    BY <1>1, <1>2, Digits, NibbleBits
  <2> QED BY <1>1, <1>2, <2>1, BitsOfDigits DEF s
<1>3. CASE w \in {16, 32, 64, 128}
  <2>1. \A v \in {1, 2, 4, 8} :
          Bit((s \div 16) % 16, v) = Bit((x \div 16) % 16, v) * Bit((y \div 16) % 16, v)
    BY <1>1, Digits, NibbleBits
  <2> QED BY <1>1, <1>3, <2>1, BitsOfDigits DEF s
<1>4. CASE w \in {256, 512, 1024, 2048}
  <2>1. \A v \in {1, 2, 4, 8} :
          Bit((s \div 256) % 16, v) = Bit((x \div 256) % 16, v) * Bit((y \div 256) % 16, v)
    BY <1>1, Digits, NibbleBits
  <2> QED BY <1>1, <1>4, <2>1, BitsOfDigits DEF s
<1>5. CASE w \in {4096, 8192, 16384, 32768}
  <2>1. \A v \in {1, 2, 4, 8} :
          Bit(s \div 4096, v) = Bit(x \div 4096, v) * Bit(y \div 4096, v)
    BY <1>1, Digits, NibbleBits
  <2> QED BY <1>1, <1>5, <2>1, BitsOfDigits DEF s
<1> QED BY <1>2, <1>3, <1>4, <1>5 DEF Powers

LEMMA NotBits ==
  ASSUME NEW x \in Word, NEW w \in Powers
  PROVE  Bit(Not(x), w) = 1 - Bit(x, w) /\ Bit(x, w) \in {0, 1}
BY SMTT(30) DEF Word, Not, Bit, Powers

(* What the fields of an instruction can hold.                             *)
Opcodes == 0 .. 15
Lows == 0 .. 63
Imm5s == -16 .. 15
Off6s == -32 .. 31
Off9s == -256 .. 255
Off11s == 0 .. 1023
PauseWords == {w \in Nat : w >= 53248 /\ w < 57344}

LEMMA Registers8 ==
  /\ 0 \in RegNames /\ 1 \in RegNames /\ 2 \in RegNames /\ 3 \in RegNames
  /\ 4 \in RegNames /\ 5 \in RegNames /\ 6 \in RegNames /\ 7 \in RegNames
BY DEF RegNames

LEMMA Codes ==
  /\ 0 \in Opcodes /\ 1 \in Opcodes /\ 5 \in Opcodes /\ 6 \in Opcodes /\ 7 \in Opcodes
  /\ 9 \in Opcodes /\ 12 \in Opcodes
  /\ 0 \in Lows /\ 1 \in Lows /\ 32 \in Lows
BY DEF Opcodes, Lows

LEMMA LowParts ==
  /\ \A r \in RegNames : r \in Lows
  /\ \A off \in Imm5s : 32 + (off % 32) \in Lows
  /\ \A off \in Off6s : off % 64 \in Lows
<1>1. \A r \in RegNames : r \in Lows
  BY DEF RegNames, Lows
<1>2. \A off \in -16 .. 15 : off % 32 \in 0 .. 31
  OBVIOUS
<1>3. \A off \in -32 .. 31 : off % 64 \in 0 .. 63
  OBVIOUS
<1> QED BY <1>1, <1>2, <1>3 DEF Lows, Imm5s, Off6s

(* The fields of a word are those it was made of.                          *)
IsMade(ir, op, d, s, low) ==
  /\ Opcode(ir) = op /\ DR(ir) = d /\ SR1(ir) = s
  /\ ir \in Nat /\ ir % 64 = low /\ ir % 32 = low % 32 /\ SR2(ir) = low % 8
  /\ IR_5(ir) <=> low >= 32

LEMMA Fields ==
  \A op \in Opcodes, d \in RegNames, s \in RegNames, low \in Lows :
     IsMade(Word4(op, d, s, low), op, d, s, low)
<1> TAKE op \in Opcodes, d \in RegNames, s \in RegNames, low \in Lows
<1> DEFINE ir == Word4(op, d, s, low)
<1>1. /\ op \in 0 .. 15 /\ d \in 0 .. 7 /\ s \in 0 .. 7 /\ low \in 0 .. 63
      /\ ir = op * 4096 + d * 512 + s * 64 + low
  BY DEF RegNames, Word4, Opcodes, Lows
<1> HIDE DEF ir
<1>2. ir \in Nat
  BY <1>1
<1>3. ir \div 64 = op * 64 + d * 8 + s /\ ir % 64 = low
  BY <1>1, <1>2
<1>4. ir \div 4096 = op /\ (ir \div 512) % 8 = d /\ (ir \div 64) % 8 = s
  BY <1>1, <1>2, <1>3, SMTT(30)
<1>5. ir % 32 = low % 32 /\ ir % 8 = low % 8 /\ (Bit(ir, 32) = 1 <=> low >= 32)
  BY <1>1, <1>2, SMTT(30) DEF Bit
<1> QED BY <1>2, <1>3, <1>4, <1>5 DEF IsMade, Opcode, DR, SR1, SR2, IR_5, ir

(* A branch has nine bits of offset, a jump to a subroutine eleven. *)
IsBranch(ir, cond, off) == Opcode(ir) = 0 /\ DR(ir) = cond /\ Off9(ir) = off % 65536

LEMMA BranchFields ==
  \A cond \in RegNames, off \in Off9s :
     IsBranch(opBR(cond, off), cond, off)
<1> TAKE cond \in RegNames, off \in Off9s
<1> DEFINE ir == opBR(cond, off)
<1>1. /\ cond \in 0 .. 7 /\ off \in -256 .. 255 /\ off % 512 \in 0 .. 511
      /\ ir = cond * 512 + (off % 512)
  BY DEF RegNames, opBR, Word4, Off9s
<1> HIDE DEF ir
<1>2. ir \in Nat
  BY <1>1
<1>3. ir \div 4096 = 0 /\ (ir \div 512) % 8 = cond /\ ir % 512 = off % 512
  BY <1>1, <1>2, SMTT(30)
<1>4. off % 512 = (IF off < 0 THEN off + 512 ELSE off)
  <2>1. \A x \in -256 .. 255 : x % 512 = (IF x < 0 THEN x + 512 ELSE x)
    BY SMTT(30)
  <2> QED BY <1>1, <2>1
<1>5. off % 65536 = (IF off < 0 THEN off + 65536 ELSE off)
  BY <1>1, SMTT(30)
<1>6. Off9(ir) = off % 65536
  BY <1>1, <1>3, <1>4, <1>5, SMTT(30) DEF Off9, Sext
<1> QED BY <1>3, <1>6 DEF IsBranch, Opcode, DR, ir

IsCall(ir, off) == Opcode(ir) = 4 /\ Off11(ir) = off % 65536

LEMMA JumpFields ==
  \A off \in Off11s : IsCall(opJSR(off), off)
BY SMTT(30) DEF IsCall, opJSR, Opcode, Off11, Sext, Off11s

LEMMA PauseFields == \A ir \in PauseWords : Opcode(ir) = 13
BY SMTT(30) DEF Opcode, PauseWords

LEMMA ImmediateExtended ==
  \A ir \in Nat, off \in Imm5s :
     ir % 32 = (32 + (off % 32)) % 32 => Imm5(ir) = off % 65536
BY SMTT(30) DEF Imm5, Sext, Imm5s

LEMMA OffsetExtended ==
  \A ir \in Nat, off \in Off6s : ir % 64 = off % 64 => Off6(ir) = off % 65536
BY SMTT(30) DEF Off6, Sext, Off6s

LEMMA PlusSigned ==
  \A x \in Word : /\ \A off \in Imm5s : Plus(x, off % 65536) = Plus(x, off)
                  /\ \A off \in Off6s : Plus(x, off % 65536) = Plus(x, off)
BY SMTT(30) DEF Plus, Imm5s, Off6s, Word

(***************************************************************************)
(* What an instruction that the builders make does.                        *)
(***************************************************************************)

(* The RAM, the programs in it, the ten switches of the board and what a   *)
(* user may start.  The third input test counts its own pause instruction  *)
(* up into another one in the end, so it is not among them.                *)
SwitchWords == {w \in Nat : w < 1024}

ProgramStarts == {3, 6, 20, 42, 49, 90, 156, 173}

TestRun ==
  /\ RamSize = 256 /\ Program = TestPrograms
  /\ Settings \subseteq Word \cap SwitchWords
  /\ \A a \in {1, 257}, h \in Word : Chosen(a, h) \subseteq ProgramStarts

(* Nothing but opCLR(0) writes R0.                                         *)
CpuTypes ==
  /\ regs \in [RegNames -> Word] /\ regs[0] = 0
  /\ mem \in [0 .. 255 -> Word] /\ hex \in Word
  /\ cc \in CCs /\ (pc # 0 => cc # 0)

Runs == pc \in 0 .. 258 /\ CpuTypes /\ Instruction /\ Guided

Sets(d, v) ==
  /\ regs' = [regs EXCEPT ![d] = v] /\ cc' = NZP(v) /\ pc' = pc + 1
  /\ UNCHANGED <<mem, hex, mode>>

Target(off) == Plus(pc + 1, off)

Goes(a) == pc' = a /\ UNCHANGED <<regs, cc, mem, hex, mode>>

Links(a) == pc' = a /\ regs' = [regs EXCEPT ![7] = pc + 1] /\ UNCHANGED <<cc, mem, hex, mode>>

Stores(a, v) ==
  mem' = [mem EXCEPT ![a] = v] /\ pc' = pc + 1 /\ UNCHANGED <<regs, cc, hex, mode>>

Shows(v) ==
  /\ mem' = [mem EXCEPT ![255] = v] /\ hex' = v /\ pc' = pc + 1
  /\ UNCHANGED <<regs, cc, mode>>

Pauses == pc' = pc + 1 /\ mode' = "paused" /\ UNCHANGED <<regs, cc, mem, hex>>

LEMMA Fetched ==
  ASSUME TestRun, Runs
  PROVE  Perform(Current) /\ mode = "run"
<1>1. pc # IOWord
  BY SMT DEF Runs, IOWord
<1> QED BY <1>1 DEF Runs, Instruction, ReadAt, Current

LEMMA Dispatch ==
  ASSUME TestRun, Runs
  PROVE  /\ Opcode(Current) = 0 => Br(Current)
         /\ Opcode(Current) = 1 => Add(Current)
         /\ Opcode(Current) = 4 => Jsr(Current)
         /\ Opcode(Current) = 5 => AndOp(Current)
         /\ Opcode(Current) = 6 => Ldr(Current)
         /\ Opcode(Current) = 7 => Str(Current)
         /\ Opcode(Current) = 9 => NotOp(Current)
         /\ Opcode(Current) = 12 => Jmp(Current)
         /\ Opcode(Current) = 13 => Pse(Current)
BY Fetched DEF Perform, Br, Add, Jsr, AndOp, Ldr, Str, NotOp, Jmp, Pse, Nop

LEMMA NextAddress ==
  ASSUME Runs
  PROVE  /\ Plus(pc, 1) = pc + 1
         /\ \A off \in Off9s : Plus(Plus(pc, 1), off % 65536) = Target(off)
         /\ \A off \in Off11s : Plus(Plus(pc, 1), off % 65536) = Target(off)
<1>1. pc \in 0 .. 258
  BY DEF Runs
<1>2. Plus(pc, 1) = pc + 1
  BY <1>1, SMTT(30) DEF Plus
<1>3. \A off \in Int : (pc + 1 + (off % 65536)) % 65536 = (pc + 1 + off) % 65536
  BY <1>1, SMTT(30)
<1>4. Off9s \subseteq Int /\ Off11s \subseteq Int
  BY DEF Off9s, Off11s
<1>5. \A off \in Int : Plus(Plus(pc, 1), off % 65536) = Target(off)
  BY <1>2, <1>3 DEF Plus, Target
<1> QED BY <1>2, <1>4, <1>5

LEMMA Operates ==
  \A v, d : Runs /\ DR(Current) = d /\ Operate(Current, v) => Sets(d, v)
BY NextAddress DEF Operate, SetRegister, Advance, Sets

LEMMA RegisterWords == CpuTypes => \A r \in RegNames : regs[r] \in Word
BY DEF CpuTypes

LEMMA AddEffect ==
  TestRun /\ Runs => \A d, s, t \in RegNames :
     Current = opADD(d, s, t) => Sets(d, Plus(regs[s], regs[t]))
<1> SUFFICES ASSUME TestRun, Runs, NEW d \in RegNames, NEW s \in RegNames, NEW t \in RegNames,
                    Current = opADD(d, s, t)
             PROVE  Sets(d, Plus(regs[s], regs[t]))
  OBVIOUS
<1>1. /\ Opcode(Current) = 1 /\ DR(Current) = d /\ SR1(Current) = s
      /\ SR2(Current) = t % 8 /\ (IR_5(Current) <=> t >= 32)
  <2>1. IsMade(Current, 1, d, s, t)
    BY Fields, Codes, LowParts DEF opADD
  <2> QED BY <2>1 DEF IsMade
<1>2. t % 8 = t /\ ~(t >= 32)
  BY DEF RegNames
<1>3. Operate(Current, Plus(regs[s], regs[t]))
  BY <1>1, <1>2, Dispatch DEF Add, Operand
<1> QED BY <1>1, <1>3, Operates

LEMMA AddiEffect ==
  TestRun /\ Runs => \A d, s \in RegNames, off \in Imm5s :
     Current = opADDi(d, s, off) => Sets(d, Plus(regs[s], off))
<1> SUFFICES ASSUME TestRun, Runs, NEW d \in RegNames, NEW s \in RegNames, NEW off \in Imm5s,
                    Current = opADDi(d, s, off)
             PROVE  Sets(d, Plus(regs[s], off))
  OBVIOUS
<1>1. 32 + (off % 32) \in Lows /\ 1 \in Opcodes
  BY Codes, LowParts
<1> DEFINE low == 32 + (off % 32)
<1>2. Current = Word4(1, d, s, low)
  BY DEF opADDi
<1>3. low >= 32
  BY DEF Imm5s
<1> HIDE DEF low
<1>4. /\ Opcode(Current) = 1 /\ DR(Current) = d /\ SR1(Current) = s
      /\ Current \in Nat /\ Current % 32 = low % 32 /\ IR_5(Current)
  <2>1. IsMade(Current, 1, d, s, low)
    BY <1>1, <1>2, Fields DEF low
  <2> QED BY <1>3, <2>1 DEF IsMade
<1>5. Imm5(Current) = off % 65536
  BY <1>4, ImmediateExtended DEF low
<1>6. Operate(Current, Plus(regs[s], off % 65536))
  BY <1>4, <1>5, Dispatch DEF Add, Operand
<1>7. Plus(regs[s], off % 65536) = Plus(regs[s], off)
  BY RegisterWords, PlusSigned DEF Runs
<1> QED BY <1>4, <1>6, <1>7, Operates

LEMMA AndEffect ==
  TestRun /\ Runs => \A d, s, t \in RegNames :
     Current = opAND(d, s, t) => Sets(d, And(regs[s], regs[t]))
<1> SUFFICES ASSUME TestRun, Runs, NEW d \in RegNames, NEW s \in RegNames, NEW t \in RegNames,
                    Current = opAND(d, s, t)
             PROVE  Sets(d, And(regs[s], regs[t]))
  OBVIOUS
<1>1. /\ Opcode(Current) = 5 /\ DR(Current) = d /\ SR1(Current) = s
      /\ SR2(Current) = t % 8 /\ (IR_5(Current) <=> t >= 32)
  <2>1. IsMade(Current, 5, d, s, t)
    BY Fields, Codes, LowParts DEF opAND
  <2> QED BY <2>1 DEF IsMade
<1>2. t % 8 = t /\ ~(t >= 32)
  BY DEF RegNames
<1>3. Operate(Current, And(regs[s], regs[t]))
  BY <1>1, <1>2, Dispatch DEF AndOp, Operand
<1> QED BY <1>1, <1>3, Operates

LEMMA AndZero == \A x : And(x, 0) = 0
BY DEF And, AndNibble, Both, Bit

LEMMA ClearEffect ==
  TestRun /\ Runs => \A d \in RegNames : Current = opCLR(d) => Sets(d, 0)
<1> SUFFICES ASSUME TestRun, Runs, NEW d \in RegNames, Current = opCLR(d)
             PROVE  Sets(d, 0)
  OBVIOUS
<1>1. /\ Opcode(Current) = 5 /\ DR(Current) = d /\ IR_5(Current) /\ Current % 32 = 0
  <2>1. IsMade(Current, 5, d, d, 32)
    BY Fields, Codes DEF opCLR
  <2> QED BY <2>1 DEF IsMade
<1>2. Imm5(Current) = 0
  BY <1>1 DEF Imm5, Sext
<1>3. Operate(Current, 0)
  BY <1>1, <1>2, Dispatch, AndZero DEF AndOp, Operand
<1> QED BY <1>1, <1>3, Operates

LEMMA NotEffect ==
  TestRun /\ Runs => \A d, s \in RegNames : Current = opNOT(d, s) => Sets(d, Not(regs[s]))
<1> SUFFICES ASSUME TestRun, Runs, NEW d \in RegNames, NEW s \in RegNames, Current = opNOT(d, s)
             PROVE  Sets(d, Not(regs[s]))
  OBVIOUS
<1>1. Opcode(Current) = 9 /\ DR(Current) = d /\ SR1(Current) = s
  <2>1. IsMade(Current, 9, d, s, 1)
    BY Fields, Codes DEF opNOT
  <2> QED BY <2>1 DEF IsMade
<1>2. Operate(Current, Not(regs[s]))
  BY <1>1, Dispatch DEF NotOp
<1> QED BY <1>1, <1>2, Operates

LEMMA Based ==
  Runs => \A op \in Opcodes, d, b \in RegNames, off \in Off6s :
     Current = Word4(op, d, b, off % 64) =>
        /\ Opcode(Current) = op /\ DR(Current) = d
        /\ BaseAddress(Current) = Plus(regs[b], off)
<1> SUFFICES ASSUME Runs, NEW op \in Opcodes, NEW d \in RegNames, NEW b \in RegNames,
                    NEW off \in Off6s, Current = Word4(op, d, b, off % 64)
             PROVE  /\ Opcode(Current) = op /\ DR(Current) = d
                    /\ BaseAddress(Current) = Plus(regs[b], off)
  OBVIOUS
<1>1. /\ Opcode(Current) = op /\ DR(Current) = d /\ SR1(Current) = b
      /\ Current \in Nat /\ Current % 64 = off % 64
  <2>1. off % 64 \in Lows
    BY LowParts
  <2>2. IsMade(Current, op, d, b, off % 64)
    BY <2>1, Fields
  <2> QED BY <2>2 DEF IsMade
<1>2. Off6(Current) = off % 65536
  BY <1>1, OffsetExtended
<1>3. Plus(regs[b], off % 65536) = Plus(regs[b], off)
  BY RegisterWords, PlusSigned DEF Runs
<1> QED BY <1>1, <1>2, <1>3 DEF BaseAddress

(* The switches are read, or a word of the RAM.                            *)
LEMMA LoadEffect ==
  TestRun /\ Runs => \A d, b \in RegNames, off \in Off6s :
     Current = opLDR(d, b, off) =>
        /\ Plus(regs[b], off) = IOWord => \E v \in Settings \cap Chosen(pc, hex) : Sets(d, v)
        /\ Plus(regs[b], off) # IOWord => Sets(d, mem[Plus(regs[b], off) % 256])
<1> SUFFICES ASSUME TestRun, Runs, NEW d \in RegNames, NEW b \in RegNames, NEW off \in Off6s,
                    Current = opLDR(d, b, off)
             PROVE  /\ Plus(regs[b], off) = IOWord => \E v \in Settings \cap Chosen(pc, hex) : Sets(d, v)
                    /\ Plus(regs[b], off) # IOWord => Sets(d, mem[Plus(regs[b], off) % 256])
  OBVIOUS
<1>1. Opcode(Current) = 6 /\ DR(Current) = d /\ BaseAddress(Current) = Plus(regs[b], off)
  BY Based, Codes, Zenon DEF opLDR
<1>2. PICK v \in ReadAt(BaseAddress(Current)) : Operate(Current, v)
  BY <1>1, Dispatch DEF Ldr
<1>3. Sets(d, v)
  BY <1>1, <1>2, Operates
<1>4. CASE Plus(regs[b], off) = IOWord
  <2>1. v \in Settings
    BY <1>1, <1>2, <1>4 DEF ReadAt
  <2>2. regs'[d] = v
    BY <1>3 DEF Sets, Runs, CpuTypes
  <2>3. regs'[d] \in Chosen(pc, hex)
    BY <1>1, <1>4, Fetched DEF Runs, Guided, ReadsSwitches
  <2> QED BY <1>3, <1>4, <2>1, <2>2, <2>3
<1>5. CASE Plus(regs[b], off) # IOWord
  <2>1. v = mem[Plus(regs[b], off) % 256]
    BY <1>1, <1>2, <1>5 DEF ReadAt, TestRun
  <2> QED BY <1>3, <1>5, <2>1
<1> QED BY <1>4, <1>5

LEMMA StoreEffect ==
  TestRun /\ Runs => \A d, b \in RegNames, off \in Off6s :
     Current = opSTR(d, b, off) =>
        /\ Plus(regs[b], off) = IOWord => Shows(regs[d])
        /\ Plus(regs[b], off) # IOWord => Stores(Plus(regs[b], off) % 256, regs[d])
<1> SUFFICES ASSUME TestRun, Runs, NEW d \in RegNames, NEW b \in RegNames, NEW off \in Off6s,
                    Current = opSTR(d, b, off)
             PROVE  /\ Plus(regs[b], off) = IOWord => Shows(regs[d])
                    /\ Plus(regs[b], off) # IOWord => Stores(Plus(regs[b], off) % 256, regs[d])
  OBVIOUS
<1>1. Opcode(Current) = 7 /\ DR(Current) = d /\ BaseAddress(Current) = Plus(regs[b], off)
  BY Based, Codes, Zenon DEF opSTR
<1>2. /\ mem' = [mem EXCEPT ![Plus(regs[b], off) % 256] = regs[d]]
      /\ hex' = IF Plus(regs[b], off) = IOWord THEN regs[d] ELSE hex
      /\ pc' = pc + 1 /\ UNCHANGED <<regs, cc, mode>>
  BY <1>1, Dispatch, NextAddress DEF Str, Advance, TestRun
<1>3. IOWord % 256 = 255
  BY SMT DEF IOWord
<1> QED BY <1>2, <1>3 DEF Shows, Stores

Taken(cond) == \E c \in {1, 2, 4} : Bit(cond, c) = 1 /\ cc = c

LEMMA Conditions ==
  /\ ~Taken(0) /\ (Taken(1) <=> cc = 1) /\ (Taken(2) <=> cc = 2) /\ (Taken(4) <=> cc = 4)
  /\ (Taken(5) <=> cc \in {1, 4}) /\ (Taken(6) <=> cc \in {2, 4})
  /\ (Taken(7) <=> cc \in {1, 2, 4})
BY DEF Taken, Bit

LEMMA BranchEffect ==
  TestRun /\ Runs => \A cond \in RegNames, off \in Off9s :
     Current = opBR(cond, off) =>
        /\ Taken(cond) => Goes(Target(off))
        /\ ~Taken(cond) => Goes(pc + 1)
<1> SUFFICES ASSUME TestRun, Runs, NEW cond \in RegNames, NEW off \in Off9s,
                    Current = opBR(cond, off)
             PROVE  /\ Taken(cond) => Goes(Target(off))
                    /\ ~Taken(cond) => Goes(pc + 1)
  OBVIOUS
<1>1. Opcode(Current) = 0 /\ DR(Current) = cond /\ Off9(Current) = off % 65536
  <2>1. IsBranch(Current, cond, off)
    BY BranchFields
  <2> QED BY <2>1 DEF IsBranch
<1>2. newBEN(Current, cc) <=> Taken(cond)
  BY <1>1 DEF newBEN, Taken
<1>3. Plus(pc, 1) = pc + 1 /\ Plus(Plus(pc, 1), Off9(Current)) = Target(off)
  BY <1>1, NextAddress
<1> QED BY <1>1, <1>2, <1>3, Dispatch DEF Br, Goes

LEMMA JumpEffect ==
  TestRun /\ Runs => \A b \in RegNames : Current = opJMP(b) => Goes(regs[b])
<1> SUFFICES ASSUME TestRun, Runs, NEW b \in RegNames, Current = opJMP(b)
             PROVE  Goes(regs[b])
  OBVIOUS
<1>1. Opcode(Current) = 12 /\ SR1(Current) = b
  <2>1. IsMade(Current, 12, 0, b, 0)
    BY Fields, Codes, Registers8 DEF opJMP
  <2> QED BY <2>1 DEF IsMade
<1> QED BY <1>1, Dispatch DEF Jmp, Goes

LEMMA CallEffect ==
  TestRun /\ Runs => \A off \in Off11s : Current = opJSR(off) => Links(Target(off))
<1> SUFFICES ASSUME TestRun, Runs, NEW off \in Off11s, Current = opJSR(off)
             PROVE  Links(Target(off))
  OBVIOUS
<1>1. Opcode(Current) = 4 /\ Off11(Current) = off % 65536
  <2>1. IsCall(Current, off)
    BY JumpFields
  <2> QED BY <2>1 DEF IsCall
<1>2. Plus(pc, 1) = pc + 1 /\ Plus(Plus(pc, 1), Off11(Current)) = Target(off)
  BY <1>1, NextAddress
<1> QED BY <1>1, <1>2, Dispatch DEF Jsr, Link, SetRegister, Links

LEMMA PauseEffect ==
  TestRun /\ Runs /\ Current \in PauseWords => Pauses
BY PauseFields, Dispatch, NextAddress DEF Pse, Advance, Pauses

(***************************************************************************)
(* Where the programs lie.                                                 *)
(***************************************************************************)

IsSeq(s, m) == s \in Seq(Int) /\ Len(s) = m

(* w is s of length m followed by t of length k.                           *)
Joined(w, s, t, m, k) ==
  /\ \A i \in 1 .. m : w[i] = s[i]
  /\ \A i \in 1 .. k : w[m + i] = t[i]

(* The words stand in the RAM from an address on.                          *)
Lies(s, first, m) == \A i \in 1 .. m : TestPrograms[first + i - 1] = s[i]

LEMMA Concatenated ==
  ASSUME NEW s, NEW t, NEW m \in Nat, NEW k \in Nat, IsSeq(s, m), IsSeq(t, k)
  PROVE  IsSeq(s \o t, m + k) /\ Joined(s \o t, s, t, m, k)
BY DEF IsSeq, Joined

LEMMA Divided ==
  ASSUME NEW w, NEW s, NEW t, NEW m \in Nat, NEW k \in Nat,
         Joined(w, s, t, m, k), Lies(w, 0, m + k)
  PROVE  Lies(s, 0, m) /\ Lies(t, m, k)
<1>1. ASSUME NEW i \in 1 .. m
      PROVE  TestPrograms[0 + i - 1] = s[i]
  <2>1. i \in 1 .. m + k
    OBVIOUS
  <2> QED BY <2>1 DEF Joined, Lies
<1>2. ASSUME NEW i \in 1 .. k
      PROVE  TestPrograms[m + i - 1] = t[i]
  <2>1. m + i \in 1 .. m + k /\ 0 + (m + i) - 1 = m + i - 1
    OBVIOUS
  <2>2. TestPrograms[0 + (m + i) - 1] = w[m + i]
    BY <2>1 DEF Lies
  <2>3. w[m + i] = t[i]
    BY DEF Joined
  <2> QED BY <2>1, <2>2, <2>3
<1> QED BY <1>1, <1>2 DEF Lies

LEMMA Lengths ==
  /\ IsSeq(Boot, 3)
  /\ IsSeq(IOTest1, 3)
  /\ IsSeq(IOTest2, 5)
  /\ IsSeq(IOTest3, 9)
  /\ IsSeq(XorTest, 22)
  /\ IsSeq(RunOnce, 7)
  /\ IsSeq(MultiplierTest, 25)
  /\ IsSeq(SortData, 16)
  /\ IsSeq(SortMenu, 19)
  /\ IsSeq(EntryFunction, 10)
  /\ IsSeq(SortFunction, 18)
  /\ IsSeq(DisplayFunction, 19)
  /\ IsSeq(AutoCount, 19)
<1>1. IsSeq(Boot, 3)
  BY DEF IsSeq, Boot, opCLR, opJMP, opLDR, Word4
<1>2. IsSeq(IOTest1, 3)
  BY DEF IsSeq, IOTest1, opBR, opLDR, opSTR, Word4, nzp
<1>3. IsSeq(IOTest2, 5)
  BY DEF IsSeq, IOTest2, opBR, opLDR, opPSE, opSTR, Word4, nzp
<1>4. IsSeq(IOTest3, 9)
  BY DEF IsSeq, IOTest3, opBR, opINC, opJSR, opLDR, opPSE, opSTR, opADDi, Word4, nzp
<1>5. IsSeq(XorTest, 22)
  BY DEF IsSeq, XorTest, opAND, opBR, opCLR, opLDR, opNOT, opPSE, opSTR, Word4, nzp
<1>6. IsSeq(RunOnce, 7)
  BY DEF IsSeq, RunOnce, opCLR, opINC, opJSR, opPSE, opRET, opSTR, opADDi, opJMP, Word4
<1>7. IsSeq(MultiplierTest, 25)
  BY DEF IsSeq, MultiplierTest, opADD, opADDi, opAND, opBR, opCLR, opINC, opJSR, opLDR, opNOT,
         opPSE, opSTR, Word4, n, nzp, p, z
<1>8. IsSeq(SortData, 16)
  BY DEF IsSeq, SortData
<1>9. IsSeq(SortMenu, 19)
  BY DEF IsSeq, SortMenu, opADDi, opBR, opCLR, opDEC, opJSR, opLDR, opPSE, Word4, np, nzp, z
<1>10. IsSeq(EntryFunction, 10)
  BY DEF IsSeq, EntryFunction, opADD, opADDi, opBR, opCLR, opINC, opLDR, opPSE, opRET, opSTR, opJMP, Word4, n
<1>11. IsSeq(SortFunction, 18)
  BY DEF IsSeq, SortFunction, opADD, opADDi, opBR, opINC, opLDR, opNOT, opRET, opSTR, opJMP, Word4, n, nz
<1>12. IsSeq(DisplayFunction, 19)
  BY DEF IsSeq, DisplayFunction, opADD, opADDi, opBR, opCLR, opINC, opJSR, opLDR, opPSE, opRET,
         opSTR, opJMP, Word4, n
<1>13. IsSeq(AutoCount, 19)
  BY DEF IsSeq, AutoCount, opBR, opCLR, opDEC, opINC, opJSR, opLDR, opSTR, opADDi, Word4, nzp, z
<1> QED BY <1>1, <1>2, <1>3, <1>4, <1>5, <1>6, <1>7, <1>8, <1>9, <1>10, <1>11, <1>12, <1>13

LEMMA Layout ==
  /\ Lies(Boot, 0, 3)
  /\ Lies(IOTest1, 3, 3)
  /\ Lies(IOTest2, 6, 5)
  /\ Lies(IOTest3, 11, 9)
  /\ Lies(XorTest, 20, 22)
  /\ Lies(RunOnce, 42, 7)
  /\ Lies(MultiplierTest, 49, 25)
  /\ Lies(SortData, 74, 16)
  /\ Lies(SortMenu, 90, 19)
  /\ Lies(EntryFunction, 109, 10)
  /\ Lies(SortFunction, 119, 18)
  /\ Lies(DisplayFunction, 137, 19)
  /\ Lies(AutoCount, 156, 19)
  /\ \A a \in 175 .. 255 : TestPrograms[a] = 0
<1> DEFINE w1 == Boot
           w2 == w1 \o IOTest1
           w3 == w2 \o IOTest2
           w4 == w3 \o IOTest3
           w5 == w4 \o XorTest
           w6 == w5 \o RunOnce
           w7 == w6 \o MultiplierTest
           w8 == w7 \o SortData
           w9 == w8 \o SortMenu
           w10 == w9 \o EntryFunction
           w11 == w10 \o SortFunction
           w12 == w11 \o DisplayFunction
           w13 == w12 \o AutoCount
<1> HIDE DEF w1, w2, w3, w4, w5, w6, w7, w8, w9, w10, w11, w12, w13
<1>1. IsSeq(w1, 3)
  BY Lengths DEF w1
<1>2. IsSeq(w2, 3 + 3) /\ Joined(w2, w1, IOTest1, 3, 3)
  BY <1>1, Lengths, Concatenated DEF w2
<1>3. IsSeq(w3, 6 + 5) /\ Joined(w3, w2, IOTest2, 6, 5)
  BY <1>2, Lengths, Concatenated DEF w3
<1>4. IsSeq(w4, 11 + 9) /\ Joined(w4, w3, IOTest3, 11, 9)
  BY <1>3, Lengths, Concatenated DEF w4
<1>5. IsSeq(w5, 20 + 22) /\ Joined(w5, w4, XorTest, 20, 22)
  BY <1>4, Lengths, Concatenated DEF w5
<1>6. IsSeq(w6, 42 + 7) /\ Joined(w6, w5, RunOnce, 42, 7)
  BY <1>5, Lengths, Concatenated DEF w6
<1>7. IsSeq(w7, 49 + 25) /\ Joined(w7, w6, MultiplierTest, 49, 25)
  BY <1>6, Lengths, Concatenated DEF w7
<1>8. IsSeq(w8, 74 + 16) /\ Joined(w8, w7, SortData, 74, 16)
  BY <1>7, Lengths, Concatenated DEF w8
<1>9. IsSeq(w9, 90 + 19) /\ Joined(w9, w8, SortMenu, 90, 19)
  BY <1>8, Lengths, Concatenated DEF w9
<1>10. IsSeq(w10, 109 + 10) /\ Joined(w10, w9, EntryFunction, 109, 10)
  BY <1>9, Lengths, Concatenated DEF w10
<1>11. IsSeq(w11, 119 + 18) /\ Joined(w11, w10, SortFunction, 119, 18)
  BY <1>10, Lengths, Concatenated DEF w11
<1>12. IsSeq(w12, 137 + 19) /\ Joined(w12, w11, DisplayFunction, 137, 19)
  BY <1>11, Lengths, Concatenated DEF w12
<1>13. IsSeq(w13, 156 + 19) /\ Joined(w13, w12, AutoCount, 156, 19)
  BY <1>12, Lengths, Concatenated DEF w13
<1>14. TestPrograms = [a \in 0 .. 255 |-> IF a < Len(w13) THEN w13[a + 1] ELSE 0]
  BY DEF TestPrograms, w1, w2, w3, w4, w5, w6, w7, w8, w9, w10, w11, w12, w13
<1>15. Len(w13) = 175
  BY <1>13 DEF IsSeq
<1>16. Lies(w13, 0, 156 + 19) /\ \A a \in 175 .. 255 : TestPrograms[a] = 0
  BY <1>14, <1>15 DEF Lies
<1>17. Lies(w12, 0, 156) /\ Lies(AutoCount, 156, 19)
  BY <1>13, <1>16, Divided
<1>18. Lies(w11, 0, 137) /\ Lies(DisplayFunction, 137, 19)
  BY <1>12, <1>17, Divided
<1>19. Lies(w10, 0, 119) /\ Lies(SortFunction, 119, 18)
  BY <1>11, <1>18, Divided
<1>20. Lies(w9, 0, 109) /\ Lies(EntryFunction, 109, 10)
  BY <1>10, <1>19, Divided
<1>21. Lies(w8, 0, 90) /\ Lies(SortMenu, 90, 19)
  BY <1>9, <1>20, Divided
<1>22. Lies(w7, 0, 74) /\ Lies(SortData, 74, 16)
  BY <1>8, <1>21, Divided
<1>23. Lies(w6, 0, 49) /\ Lies(MultiplierTest, 49, 25)
  BY <1>7, <1>22, Divided
<1>24. Lies(w5, 0, 42) /\ Lies(RunOnce, 42, 7)
  BY <1>6, <1>23, Divided
<1>25. Lies(w4, 0, 20) /\ Lies(XorTest, 20, 22)
  BY <1>5, <1>24, Divided
<1>26. Lies(w3, 0, 11) /\ Lies(IOTest3, 11, 9)
  BY <1>4, <1>25, Divided
<1>27. Lies(w2, 0, 6) /\ Lies(IOTest2, 6, 5)
  BY <1>3, <1>26, Divided
<1>28. Lies(w1, 0, 3) /\ Lies(IOTest1, 3, 3)
  BY <1>2, <1>27, Divided
<1> QED BY <1>16, <1>17, <1>18, <1>19, <1>20, <1>21, <1>22, <1>23, <1>24, <1>25, <1>26, <1>27, <1>28 DEF w1

(***************************************************************************)
(* What each program does, instruction by instruction.                     *)
(***************************************************************************)

(* The programs write the data of the sort, one pause instruction and the  *)
(* word behind the display's address.                                      *)
CodeKept ==
  /\ \A a \in 0 .. 254 : a \notin 74 .. 89 /\ a # 148 => mem[a] = TestPrograms[a]
  /\ mem[148] \in PauseWords

Ready == Runs /\ CodeKept

LEMMA Offsets ==
  /\ -16 \in Imm5s /\ -8 \in Imm5s /\ -2 \in Imm5s /\ -1 \in Imm5s /\ 0 \in Imm5s
  /\ 1 \in Imm5s /\ 8 \in Imm5s
  /\ -1 \in Off6s /\ 0 \in Off6s /\ 8 \in Off6s /\ 12 \in Off6s /\ 13 \in Off6s
  /\ 15 \in Off6s /\ 22 \in Off6s
  /\ -21 \in Off9s /\ -16 \in Off9s /\ -15 \in Off9s /\ -13 \in Off9s /\ -12 \in Off9s
  /\ -11 \in Off9s /\ -9 \in Off9s /\ -8 \in Off9s /\ -7 \in Off9s /\ -4 \in Off9s
  /\ -3 \in Off9s /\ 1 \in Off9s /\ 2 \in Off9s /\ 3 \in Off9s
  /\ 0 \in Off11s /\ 9 \in Off11s /\ 15 \in Off11s /\ 29 \in Off11s
BY DEF Imm5s, Off6s, Off9s, Off11s

LEMMA PlusIndex == \A x \in Word, y \in {12, 13} : Plus(x, y) % 256 \in 0 .. 255
BY SMTT(30) DEF Plus, Word

LEMMA SwitchAddress == CpuTypes => Plus(regs[0], -1) = IOWord
<1>1. \A x \in Int : x >= 0 /\ x <= 0 => Plus(x, -1) = IOWord
  BY SMTT(30) DEF Plus, IOWord
<1>2. 0 \in Int /\ 0 >= 0 /\ 0 <= 0
  OBVIOUS
<1>3. Plus(0, -1) = IOWord
  BY <1>1, <1>2, Zenon
<1> QED BY <1>3 DEF CpuTypes

LEMMA IOTest1Code ==
  ASSUME TestRun, Ready
  PROVE  /\ pc = 3 => Current = opLDR(1, 0, -1)
         /\ pc = 4 => Current = opSTR(1, 0, -1)
         /\ pc = 5 => Current = opBR(7, -3)
<1>1. \A i \in 1 .. 3 : TestPrograms[3 + i - 1] = IOTest1[i]
  BY Layout DEF Lies
<1>2. pc \in 3 .. 5 => Current = TestPrograms[pc]
  BY DEF Ready, CodeKept, Current, TestRun
<1> QED BY <1>1, <1>2 DEF IOTest1, nzp

LEMMA IOTest1Effects ==
  ASSUME TestRun, Ready
  PROVE  /\ pc = 3 => (\E v \in Word : Sets(1, v))
         /\ pc = 4 => Shows(regs[1])
         /\ pc = 5 => Goes(3)
<1> USE Registers8, Offsets
<1> TestRun /\ Runs /\ CpuTypes
  BY DEF Ready, Runs
<1>1. /\ pc = 3 => (\E v \in Settings \cap Chosen(pc, hex) : Sets(1, v))
  BY IOTest1Code, LoadEffect, SwitchAddress
<1>2. /\ pc = 3 => (\E v \in Word : Sets(1, v))
  BY <1>1 DEF TestRun
<1>3. /\ pc = 4 => Shows(regs[1])
  BY IOTest1Code, StoreEffect, SwitchAddress
<1>4. /\ pc = 5 => (Taken(7) => Goes(Target(-3))) /\ (~Taken(7) => Goes(pc + 1))
  BY IOTest1Code, BranchEffect
<1>5. /\ pc = 5 => Target(-3) = 3
  BY SMTT(30) DEF Target, Plus
<1>6. /\ pc = 5 => Goes(3)
  BY <1>4, <1>5, Conditions DEF Runs, CpuTypes, CCs
<1> QED BY <1>2, <1>3, <1>6

LEMMA IOTest2Code ==
  ASSUME TestRun, Ready
  PROVE  /\ pc = 6 => Current = opPSE(2049)
         /\ pc = 7 => Current = opLDR(1, 0, -1)
         /\ pc = 8 => Current = opSTR(1, 0, -1)
         /\ pc = 9 => Current = opPSE(3074)
         /\ pc = 10 => Current = opBR(7, -4)
<1>1. \A i \in 1 .. 5 : TestPrograms[6 + i - 1] = IOTest2[i]
  BY Layout DEF Lies
<1>2. pc \in 6 .. 10 => Current = TestPrograms[pc]
  BY DEF Ready, CodeKept, Current, TestRun
<1> QED BY <1>1, <1>2 DEF IOTest2, nzp

LEMMA IOTest2Effects ==
  ASSUME TestRun, Ready
  PROVE  /\ pc = 6 => Pauses
         /\ pc = 7 => (\E v \in Word : Sets(1, v))
         /\ pc = 8 => Shows(regs[1])
         /\ pc = 9 => Pauses
         /\ pc = 10 => Goes(7)
<1> USE Registers8, Offsets
<1> TestRun /\ Runs /\ CpuTypes
  BY DEF Ready, Runs
<1>1. /\ pc = 7 => (\E v \in Settings \cap Chosen(pc, hex) : Sets(1, v))
  BY IOTest2Code, LoadEffect, SwitchAddress
<1>2. /\ pc = 7 => (\E v \in Word : Sets(1, v))
  BY <1>1 DEF TestRun
<1>3. /\ pc = 8 => Shows(regs[1])
  BY IOTest2Code, StoreEffect, SwitchAddress
<1>4. /\ pc = 10 => (Taken(7) => Goes(Target(-4))) /\ (~Taken(7) => Goes(pc + 1))
  BY IOTest2Code, BranchEffect
<1>5. /\ pc = 10 => Target(-4) = 7
  BY SMTT(30) DEF Target, Plus
<1>6. /\ pc = 10 => Goes(7)
  BY <1>4, <1>5, Conditions DEF Runs, CpuTypes, CCs
<1>7. /\ pc = 6 => Current \in PauseWords
      /\ pc = 9 => Current \in PauseWords
  BY IOTest2Code, SMT DEF PauseWords, opPSE
<1>8. /\ pc = 6 => Pauses
      /\ pc = 9 => Pauses
  BY <1>7, PauseEffect
<1> QED BY <1>2, <1>3, <1>6, <1>8

LEMMA XorCode ==
  ASSUME TestRun, Ready
  PROVE  /\ pc = 20 => Current = opCLR(0)
         /\ pc = 21 => Current = opPSE(2049)
         /\ pc = 22 => Current = opLDR(1, 0, -1)
         /\ pc = 23 => Current = opPSE(2050)
         /\ pc = 24 => Current = opLDR(2, 0, -1)
         /\ pc = 25 => Current = opNOT(3, 1)
         /\ pc = 26 => Current = opAND(3, 3, 2)
         /\ pc = 27 => Current = opNOT(3, 3)
         /\ pc = 28 => Current = opNOT(4, 2)
         /\ pc = 29 => Current = opAND(4, 4, 1)
         /\ pc = 30 => Current = opNOT(4, 4)
         /\ pc = 31 => Current = opAND(3, 3, 4)
         /\ pc = 32 => Current = opNOT(3, 3)
         /\ pc = 33 => Current = opSTR(3, 0, -1)
         /\ pc = 34 => Current = opPSE(1029)
         /\ pc = 35 => Current = opBR(7, -15)
<1>1. \A i \in 1 .. 22 : TestPrograms[20 + i - 1] = XorTest[i]
  BY Layout DEF Lies
<1>2. pc \in 20 .. 35 => Current = TestPrograms[pc]
  BY DEF Ready, CodeKept, Current, TestRun
<1> QED BY <1>1, <1>2 DEF XorTest, nzp

LEMMA XorEffects ==
  ASSUME TestRun, Ready
  PROVE  /\ pc = 20 => Sets(0, 0)
         /\ pc = 21 => Pauses
         /\ pc = 22 => (\E v \in Word : Sets(1, v))
         /\ pc = 23 => Pauses
         /\ pc = 24 => (\E v \in Word : Sets(2, v))
         /\ pc = 25 => Sets(3, Not(regs[1]))
         /\ pc = 26 => Sets(3, And(regs[3], regs[2]))
         /\ pc = 27 => Sets(3, Not(regs[3]))
         /\ pc = 28 => Sets(4, Not(regs[2]))
         /\ pc = 29 => Sets(4, And(regs[4], regs[1]))
         /\ pc = 30 => Sets(4, Not(regs[4]))
         /\ pc = 31 => Sets(3, And(regs[3], regs[4]))
         /\ pc = 32 => Sets(3, Not(regs[3]))
         /\ pc = 33 => Shows(regs[3])
         /\ pc = 34 => Pauses
         /\ pc = 35 => Goes(21)
<1> USE Registers8, Offsets
<1> TestRun /\ Runs /\ CpuTypes
  BY DEF Ready, Runs
<1>1. /\ pc = 20 => Sets(0, 0)
      /\ pc = 25 => Sets(3, Not(regs[1]))
      /\ pc = 26 => Sets(3, And(regs[3], regs[2]))
      /\ pc = 27 => Sets(3, Not(regs[3]))
      /\ pc = 28 => Sets(4, Not(regs[2]))
      /\ pc = 29 => Sets(4, And(regs[4], regs[1]))
      /\ pc = 30 => Sets(4, Not(regs[4]))
      /\ pc = 31 => Sets(3, And(regs[3], regs[4]))
      /\ pc = 32 => Sets(3, Not(regs[3]))
  BY XorCode, AndEffect, ClearEffect, NotEffect
<1>2. /\ pc = 22 => (\E v \in Settings \cap Chosen(pc, hex) : Sets(1, v))
      /\ pc = 24 => (\E v \in Settings \cap Chosen(pc, hex) : Sets(2, v))
  BY XorCode, LoadEffect, SwitchAddress
<1>3. /\ pc = 22 => (\E v \in Word : Sets(1, v))
      /\ pc = 24 => (\E v \in Word : Sets(2, v))
  BY <1>2 DEF TestRun
<1>4. /\ pc = 33 => Shows(regs[3])
  BY XorCode, StoreEffect, SwitchAddress
<1>5. /\ pc = 35 => (Taken(7) => Goes(Target(-15))) /\ (~Taken(7) => Goes(pc + 1))
  BY XorCode, BranchEffect
<1>6. /\ pc = 35 => Target(-15) = 21
  BY SMTT(30) DEF Target, Plus
<1>7. /\ pc = 35 => Goes(21)
  BY <1>5, <1>6, Conditions DEF Runs, CpuTypes, CCs
<1>8. /\ pc = 21 => Current \in PauseWords
      /\ pc = 23 => Current \in PauseWords
      /\ pc = 34 => Current \in PauseWords
  BY XorCode, SMT DEF PauseWords, opPSE
<1>9. /\ pc = 21 => Pauses
      /\ pc = 23 => Pauses
      /\ pc = 34 => Pauses
  BY <1>8, PauseEffect
<1> QED BY <1>1, <1>3, <1>4, <1>7, <1>9

LEMMA RunOnceCode ==
  ASSUME TestRun, Ready
  PROVE  /\ pc = 42 => Current = opCLR(0)
         /\ pc = 43 => Current = opCLR(1)
         /\ pc = 44 => Current = opJSR(0)
         /\ pc = 45 => Current = opSTR(1, 0, -1)
         /\ pc = 46 => Current = opPSE(1025)
         /\ pc = 47 => Current = opADDi(1, 1, 1)
         /\ pc = 48 => Current = opJMP(7)
<1>1. \A i \in 1 .. 7 : TestPrograms[42 + i - 1] = RunOnce[i]
  BY Layout DEF Lies
<1>2. pc \in 42 .. 48 => Current = TestPrograms[pc]
  BY DEF Ready, CodeKept, Current, TestRun
<1> QED BY <1>1, <1>2 DEF RunOnce, opINC, opRET

LEMMA RunOnceEffects ==
  ASSUME TestRun, Ready
  PROVE  /\ pc = 42 => Sets(0, 0)
         /\ pc = 43 => Sets(1, 0)
         /\ pc = 44 => Links(45)
         /\ pc = 45 => Shows(regs[1])
         /\ pc = 46 => Pauses
         /\ pc = 47 => Sets(1, Plus(regs[1], 1))
         /\ pc = 48 => Goes(regs[7])
<1> USE Registers8, Offsets
<1> TestRun /\ Runs /\ CpuTypes
  BY DEF Ready, Runs
<1>1. /\ pc = 42 => Sets(0, 0)
      /\ pc = 43 => Sets(1, 0)
      /\ pc = 47 => Sets(1, Plus(regs[1], 1))
  BY RunOnceCode, AddiEffect, ClearEffect
<1>2. /\ pc = 45 => Shows(regs[1])
  BY RunOnceCode, StoreEffect, SwitchAddress
<1>3. /\ pc = 44 => Links(Target(0))
  BY RunOnceCode, CallEffect
<1>4. /\ pc = 44 => Target(0) = 45
  BY SMTT(30) DEF Target, Plus
<1>5. /\ pc = 44 => Links(45)
  BY <1>3, <1>4
<1>6. /\ pc = 48 => Goes(regs[7])
  BY RunOnceCode, JumpEffect
<1>7. /\ pc = 46 => Current \in PauseWords
  BY RunOnceCode, SMT DEF PauseWords, opPSE
<1>8. /\ pc = 46 => Pauses
  BY <1>7, PauseEffect
<1> QED BY <1>1, <1>2, <1>5, <1>6, <1>8

LEMMA MultiplierCode ==
  ASSUME TestRun, Ready
  PROVE  /\ pc = 49 => Current = opCLR(0)
         /\ pc = 50 => Current = opJSR(0)
         /\ pc = 51 => Current = opLDR(3, 7, 22)
         /\ pc = 52 => Current = opCLR(4)
         /\ pc = 53 => Current = opCLR(5)
         /\ pc = 54 => Current = opPSE(2049)
         /\ pc = 55 => Current = opLDR(1, 0, -1)
         /\ pc = 56 => Current = opPSE(2050)
         /\ pc = 57 => Current = opLDR(2, 0, -1)
         /\ pc = 58 => Current = opADD(5, 5, 5)
         /\ pc = 59 => Current = opAND(7, 3, 1)
         /\ pc = 60 => Current = opBR(2, 1)
         /\ pc = 61 => Current = opADD(5, 5, 2)
         /\ pc = 62 => Current = opADDi(4, 4, 0)
         /\ pc = 63 => Current = opBR(1, 2)
         /\ pc = 64 => Current = opNOT(5, 5)
         /\ pc = 65 => Current = opADDi(5, 5, 1)
         /\ pc = 66 => Current = opADDi(4, 4, 1)
         /\ pc = 67 => Current = opADD(1, 1, 1)
         /\ pc = 68 => Current = opADDi(7, 4, -8)
         /\ pc = 69 => Current = opBR(4, -12)
         /\ pc = 70 => Current = opSTR(5, 0, -1)
         /\ pc = 71 => Current = opPSE(1027)
         /\ pc = 72 => Current = opBR(7, -21)
<1>1. \A i \in 1 .. 25 : TestPrograms[49 + i - 1] = MultiplierTest[i]
  BY Layout DEF Lies
<1>2. pc \in 49 .. 72 => Current = TestPrograms[pc]
  BY DEF Ready, CodeKept, Current, TestRun
<1> QED BY <1>1, <1>2 DEF MultiplierTest, opINC, n, nzp, p, z

LEMMA MultiplierEffects ==
  ASSUME TestRun, Ready
  PROVE  /\ pc = 49 => Sets(0, 0)
         /\ pc = 50 => Links(51)
         /\ pc = 51 /\ regs[7] = 51 => Sets(3, 128)
         /\ pc = 52 => Sets(4, 0)
         /\ pc = 53 => Sets(5, 0)
         /\ pc = 54 => Pauses
         /\ pc = 55 => (\E v \in Word : Sets(1, v))
         /\ pc = 56 => Pauses
         /\ pc = 57 => (\E v \in Word : Sets(2, v))
         /\ pc = 58 => Sets(5, Plus(regs[5], regs[5]))
         /\ pc = 59 => Sets(7, And(regs[3], regs[1]))
         /\ pc = 60 => Goes(IF cc = 2 THEN 62 ELSE 61)
         /\ pc = 61 => Sets(5, Plus(regs[5], regs[2]))
         /\ pc = 62 => Sets(4, Plus(regs[4], 0))
         /\ pc = 63 => Goes(IF cc = 1 THEN 66 ELSE 64)
         /\ pc = 64 => Sets(5, Not(regs[5]))
         /\ pc = 65 => Sets(5, Plus(regs[5], 1))
         /\ pc = 66 => Sets(4, Plus(regs[4], 1))
         /\ pc = 67 => Sets(1, Plus(regs[1], regs[1]))
         /\ pc = 68 => Sets(7, Plus(regs[4], -8))
         /\ pc = 69 => Goes(IF cc = 4 THEN 58 ELSE 70)
         /\ pc = 70 => Shows(regs[5])
         /\ pc = 71 => Pauses
         /\ pc = 72 => Goes(52)
<1> USE Registers8, Offsets
<1> TestRun /\ Runs /\ CpuTypes
  BY DEF Ready, Runs
<1>1. /\ pc = 49 => Sets(0, 0)
      /\ pc = 52 => Sets(4, 0)
      /\ pc = 53 => Sets(5, 0)
      /\ pc = 58 => Sets(5, Plus(regs[5], regs[5]))
      /\ pc = 59 => Sets(7, And(regs[3], regs[1]))
      /\ pc = 61 => Sets(5, Plus(regs[5], regs[2]))
      /\ pc = 62 => Sets(4, Plus(regs[4], 0))
      /\ pc = 64 => Sets(5, Not(regs[5]))
      /\ pc = 65 => Sets(5, Plus(regs[5], 1))
      /\ pc = 66 => Sets(4, Plus(regs[4], 1))
      /\ pc = 67 => Sets(1, Plus(regs[1], regs[1]))
      /\ pc = 68 => Sets(7, Plus(regs[4], -8))
  BY MultiplierCode, AddEffect, AddiEffect, AndEffect, ClearEffect, NotEffect
<1>2. /\ pc = 55 => (\E v \in Settings \cap Chosen(pc, hex) : Sets(1, v))
      /\ pc = 57 => (\E v \in Settings \cap Chosen(pc, hex) : Sets(2, v))
  BY MultiplierCode, LoadEffect, SwitchAddress
<1>3. /\ pc = 55 => (\E v \in Word : Sets(1, v))
      /\ pc = 57 => (\E v \in Word : Sets(2, v))
  BY <1>2 DEF TestRun
<1>4. /\ pc = 70 => Shows(regs[5])
  BY MultiplierCode, StoreEffect, SwitchAddress
<1>5. ASSUME pc = 51, regs[7] = 51
      PROVE  Sets(3, 128)
  <2>1. Plus(regs[7], 22) # IOWord => Sets(3, mem[Plus(regs[7], 22) % 256])
    BY <1>5, MultiplierCode, LoadEffect
  <2>2. Plus(regs[7], 22) # IOWord /\ Plus(regs[7], 22) % 256 = 73
    BY <1>5, SMTT(30) DEF Plus, IOWord
  <2>3. mem[73] = 128
    <3>1. TestPrograms[73] = MultiplierTest[25]
      BY Layout DEF Lies
    <3> QED BY <3>1 DEF Ready, CodeKept, MultiplierTest
  <2> QED BY <2>1, <2>2, <2>3
<1>6. /\ pc = 60 => (Taken(2) => Goes(Target(1))) /\ (~Taken(2) => Goes(pc + 1))
      /\ pc = 63 => (Taken(1) => Goes(Target(2))) /\ (~Taken(1) => Goes(pc + 1))
      /\ pc = 69 => (Taken(4) => Goes(Target(-12))) /\ (~Taken(4) => Goes(pc + 1))
      /\ pc = 72 => (Taken(7) => Goes(Target(-21))) /\ (~Taken(7) => Goes(pc + 1))
  BY MultiplierCode, BranchEffect
<1>7. /\ pc = 60 => Target(1) = 62
      /\ pc = 63 => Target(2) = 66
      /\ pc = 69 => Target(-12) = 58
      /\ pc = 72 => Target(-21) = 52
  BY SMTT(30) DEF Target, Plus
<1>8. /\ pc = 60 => Goes(IF cc = 2 THEN 62 ELSE 61)
      /\ pc = 63 => Goes(IF cc = 1 THEN 66 ELSE 64)
      /\ pc = 69 => Goes(IF cc = 4 THEN 58 ELSE 70)
      /\ pc = 72 => Goes(52)
  BY <1>6, <1>7, Conditions DEF Runs, CpuTypes, CCs
<1>9. /\ pc = 50 => Links(Target(0))
  BY MultiplierCode, CallEffect
<1>10. /\ pc = 50 => Target(0) = 51
  BY SMTT(30) DEF Target, Plus
<1>11. /\ pc = 50 => Links(51)
  BY <1>9, <1>10
<1>12. /\ pc = 54 => Current \in PauseWords
       /\ pc = 56 => Current \in PauseWords
       /\ pc = 71 => Current \in PauseWords
  BY MultiplierCode, SMT DEF PauseWords, opPSE
<1>13. /\ pc = 54 => Pauses
       /\ pc = 56 => Pauses
       /\ pc = 71 => Pauses
  BY <1>12, PauseEffect
<1> QED BY <1>1, <1>3, <1>4, <1>5, <1>8, <1>11, <1>13

LEMMA MenuCode ==
  ASSUME TestRun, Ready
  PROVE  /\ pc = 90 => Current = opCLR(0)
         /\ pc = 91 => Current = opJSR(0)
         /\ pc = 92 => Current = opADDi(6, 7, -16)
         /\ pc = 93 => Current = opADDi(6, 6, -2)
         /\ pc = 94 => Current = opPSE(1023)
         /\ pc = 95 => Current = opLDR(1, 0, -1)
         /\ pc = 96 => Current = opBR(2, -3)
         /\ pc = 97 => Current = opADDi(1, 1, -1)
         /\ pc = 98 => Current = opBR(5, 2)
         /\ pc = 99 => Current = opJSR(9)
         /\ pc = 100 => Current = opBR(7, -7)
         /\ pc = 101 => Current = opADDi(1, 1, -1)
         /\ pc = 102 => Current = opBR(5, 2)
         /\ pc = 103 => Current = opJSR(15)
         /\ pc = 104 => Current = opBR(7, -11)
         /\ pc = 105 => Current = opADDi(1, 1, -1)
         /\ pc = 106 => Current = opBR(5, -13)
         /\ pc = 107 => Current = opJSR(29)
         /\ pc = 108 => Current = opBR(7, -15)
<1>1. \A i \in 1 .. 19 : TestPrograms[90 + i - 1] = SortMenu[i]
  BY Layout DEF Lies
<1>2. pc \in 90 .. 108 => Current = TestPrograms[pc]
  BY DEF Ready, CodeKept, Current, TestRun
<1> QED BY <1>1, <1>2 DEF SortMenu, opDEC, np, nzp, z

LEMMA MenuEffects ==
  ASSUME TestRun, Ready
  PROVE  /\ pc = 90 => Sets(0, 0)
         /\ pc = 91 => Links(92)
         /\ pc = 92 => Sets(6, Plus(regs[7], -16))
         /\ pc = 93 => Sets(6, Plus(regs[6], -2))
         /\ pc = 94 => Pauses
         /\ pc = 95 => (\E v \in Word : Sets(1, v))
         /\ pc = 96 => Goes(IF cc = 2 THEN 94 ELSE 97)
         /\ pc = 97 => Sets(1, Plus(regs[1], -1))
         /\ pc = 98 => Goes(IF cc \in {1, 4} THEN 101 ELSE 99)
         /\ pc = 99 => Links(109)
         /\ pc = 100 => Goes(94)
         /\ pc = 101 => Sets(1, Plus(regs[1], -1))
         /\ pc = 102 => Goes(IF cc \in {1, 4} THEN 105 ELSE 103)
         /\ pc = 103 => Links(119)
         /\ pc = 104 => Goes(94)
         /\ pc = 105 => Sets(1, Plus(regs[1], -1))
         /\ pc = 106 => Goes(IF cc \in {1, 4} THEN 94 ELSE 107)
         /\ pc = 107 => Links(137)
         /\ pc = 108 => Goes(94)
<1> USE Registers8, Offsets
<1> TestRun /\ Runs /\ CpuTypes
  BY DEF Ready, Runs
<1>1. /\ pc = 90 => Sets(0, 0)
      /\ pc = 92 => Sets(6, Plus(regs[7], -16))
      /\ pc = 93 => Sets(6, Plus(regs[6], -2))
      /\ pc = 97 => Sets(1, Plus(regs[1], -1))
      /\ pc = 101 => Sets(1, Plus(regs[1], -1))
      /\ pc = 105 => Sets(1, Plus(regs[1], -1))
  BY MenuCode, AddiEffect, ClearEffect
<1>2. /\ pc = 95 => (\E v \in Settings \cap Chosen(pc, hex) : Sets(1, v))
  BY MenuCode, LoadEffect, SwitchAddress
<1>3. /\ pc = 95 => (\E v \in Word : Sets(1, v))
  BY <1>2 DEF TestRun
<1>4. /\ pc = 96 => (Taken(2) => Goes(Target(-3))) /\ (~Taken(2) => Goes(pc + 1))
      /\ pc = 98 => (Taken(5) => Goes(Target(2))) /\ (~Taken(5) => Goes(pc + 1))
      /\ pc = 100 => (Taken(7) => Goes(Target(-7))) /\ (~Taken(7) => Goes(pc + 1))
      /\ pc = 102 => (Taken(5) => Goes(Target(2))) /\ (~Taken(5) => Goes(pc + 1))
      /\ pc = 104 => (Taken(7) => Goes(Target(-11))) /\ (~Taken(7) => Goes(pc + 1))
      /\ pc = 106 => (Taken(5) => Goes(Target(-13))) /\ (~Taken(5) => Goes(pc + 1))
      /\ pc = 108 => (Taken(7) => Goes(Target(-15))) /\ (~Taken(7) => Goes(pc + 1))
  BY MenuCode, BranchEffect
<1>5. /\ pc = 96 => Target(-3) = 94
      /\ pc = 98 => Target(2) = 101
      /\ pc = 100 => Target(-7) = 94
      /\ pc = 102 => Target(2) = 105
      /\ pc = 104 => Target(-11) = 94
      /\ pc = 106 => Target(-13) = 94
      /\ pc = 108 => Target(-15) = 94
  BY SMTT(30) DEF Target, Plus
<1>6. /\ pc = 96 => Goes(IF cc = 2 THEN 94 ELSE 97)
      /\ pc = 98 => Goes(IF cc \in {1, 4} THEN 101 ELSE 99)
      /\ pc = 100 => Goes(94)
      /\ pc = 102 => Goes(IF cc \in {1, 4} THEN 105 ELSE 103)
      /\ pc = 104 => Goes(94)
      /\ pc = 106 => Goes(IF cc \in {1, 4} THEN 94 ELSE 107)
      /\ pc = 108 => Goes(94)
  BY <1>4, <1>5, Conditions DEF Runs, CpuTypes, CCs
<1>7. /\ pc = 91 => Links(Target(0))
      /\ pc = 99 => Links(Target(9))
      /\ pc = 103 => Links(Target(15))
      /\ pc = 107 => Links(Target(29))
  BY MenuCode, CallEffect
<1>8. /\ pc = 91 => Target(0) = 92
      /\ pc = 99 => Target(9) = 109
      /\ pc = 103 => Target(15) = 119
      /\ pc = 107 => Target(29) = 137
  BY SMTT(30) DEF Target, Plus
<1>9. /\ pc = 91 => Links(92)
      /\ pc = 99 => Links(109)
      /\ pc = 103 => Links(119)
      /\ pc = 107 => Links(137)
  BY <1>7, <1>8
<1>10. /\ pc = 94 => Current \in PauseWords
  BY MenuCode, SMT DEF PauseWords, opPSE
<1>11. /\ pc = 94 => Pauses
  BY <1>10, PauseEffect
<1> QED BY <1>1, <1>3, <1>6, <1>9, <1>11

LEMMA EntryCode ==
  ASSUME TestRun, Ready
  PROVE  /\ pc = 109 => Current = opCLR(1)
         /\ pc = 110 => Current = opSTR(1, 0, -1)
         /\ pc = 111 => Current = opPSE(3073)
         /\ pc = 112 => Current = opLDR(2, 0, -1)
         /\ pc = 113 => Current = opADD(5, 6, 1)
         /\ pc = 114 => Current = opSTR(2, 5, 0)
         /\ pc = 115 => Current = opADDi(1, 1, 1)
         /\ pc = 116 => Current = opADDi(3, 1, -16)
         /\ pc = 117 => Current = opBR(4, -8)
         /\ pc = 118 => Current = opJMP(7)
<1>1. \A i \in 1 .. 10 : TestPrograms[109 + i - 1] = EntryFunction[i]
  BY Layout DEF Lies
<1>2. pc \in 109 .. 118 => Current = TestPrograms[pc]
  BY DEF Ready, CodeKept, Current, TestRun
<1> QED BY <1>1, <1>2 DEF EntryFunction, opINC, opRET, n

LEMMA EntryEffects ==
  ASSUME TestRun, Ready
  PROVE  /\ pc = 109 => Sets(1, 0)
         /\ pc = 110 => Shows(regs[1])
         /\ pc = 111 => Pauses
         /\ pc = 112 => (\E v \in Word \cap SwitchWords : Sets(2, v))
         /\ pc = 113 => Sets(5, Plus(regs[6], regs[1]))
         /\ pc = 114 /\ regs[5] \in 74 .. 89 => Stores(regs[5], regs[2])
         /\ pc = 115 => Sets(1, Plus(regs[1], 1))
         /\ pc = 116 => Sets(3, Plus(regs[1], -16))
         /\ pc = 117 => Goes(IF cc = 4 THEN 110 ELSE 118)
         /\ pc = 118 => Goes(regs[7])
<1> USE Registers8, Offsets
<1> TestRun /\ Runs /\ CpuTypes
  BY DEF Ready, Runs
<1>1. /\ pc = 109 => Sets(1, 0)
      /\ pc = 113 => Sets(5, Plus(regs[6], regs[1]))
      /\ pc = 115 => Sets(1, Plus(regs[1], 1))
      /\ pc = 116 => Sets(3, Plus(regs[1], -16))
  BY EntryCode, AddEffect, AddiEffect, ClearEffect
<1>2. /\ pc = 112 => (\E v \in Settings \cap Chosen(pc, hex) : Sets(2, v))
  BY EntryCode, LoadEffect, SwitchAddress
<1>3. /\ pc = 112 => (\E v \in Word \cap SwitchWords : Sets(2, v))
  BY <1>2 DEF TestRun
<1>4. /\ pc = 110 => Shows(regs[1])
  BY EntryCode, StoreEffect, SwitchAddress
<1>5. ASSUME pc = 114, regs[5] \in 74 .. 89
      PROVE  Stores(regs[5], regs[2])
  <2>1. Plus(regs[5], 0) # IOWord => Stores(Plus(regs[5], 0) % 256, regs[2])
    BY <1>5, EntryCode, StoreEffect
  <2>2. Plus(regs[5], 0) # IOWord /\ Plus(regs[5], 0) % 256 = regs[5]
    BY <1>5, SMTT(30) DEF Plus, IOWord
  <2> QED BY <2>1, <2>2
<1>6. /\ pc = 117 => (Taken(4) => Goes(Target(-8))) /\ (~Taken(4) => Goes(pc + 1))
  BY EntryCode, BranchEffect
<1>7. /\ pc = 117 => Target(-8) = 110
  BY SMTT(30) DEF Target, Plus
<1>8. /\ pc = 117 => Goes(IF cc = 4 THEN 110 ELSE 118)
  BY <1>6, <1>7, Conditions DEF Runs, CpuTypes, CCs
<1>9. /\ pc = 118 => Goes(regs[7])
  BY EntryCode, JumpEffect
<1>10. /\ pc = 111 => Current \in PauseWords
  BY EntryCode, SMT DEF PauseWords, opPSE
<1>11. /\ pc = 111 => Pauses
  BY <1>10, PauseEffect
<1> QED BY <1>1, <1>3, <1>4, <1>5, <1>8, <1>9, <1>11

LEMMA SortCode ==
  ASSUME TestRun, Ready
  PROVE  /\ pc = 119 => Current = opADDi(1, 0, -16)
         /\ pc = 120 => Current = opADDi(2, 0, 1)
         /\ pc = 121 => Current = opADD(3, 6, 2)
         /\ pc = 122 => Current = opLDR(4, 3, -1)
         /\ pc = 123 => Current = opLDR(5, 3, 0)
         /\ pc = 124 => Current = opNOT(5, 5)
         /\ pc = 125 => Current = opADDi(5, 5, 1)
         /\ pc = 126 => Current = opADD(5, 4, 5)
         /\ pc = 127 => Current = opBR(6, 3)
         /\ pc = 128 => Current = opLDR(5, 3, 0)
         /\ pc = 129 => Current = opSTR(5, 3, -1)
         /\ pc = 130 => Current = opSTR(4, 3, 0)
         /\ pc = 131 => Current = opADDi(2, 2, 1)
         /\ pc = 132 => Current = opADD(3, 1, 2)
         /\ pc = 133 => Current = opBR(4, -13)
         /\ pc = 134 => Current = opADDi(1, 1, 1)
         /\ pc = 135 => Current = opBR(4, -16)
         /\ pc = 136 => Current = opJMP(7)
<1>1. \A i \in 1 .. 18 : TestPrograms[119 + i - 1] = SortFunction[i]
  BY Layout DEF Lies
<1>2. pc \in 119 .. 136 => Current = TestPrograms[pc]
  BY DEF Ready, CodeKept, Current, TestRun
<1> QED BY <1>1, <1>2 DEF SortFunction, opINC, opRET, n, nz

LEMMA SortEffects ==
  ASSUME TestRun, Ready
  PROVE  /\ pc = 119 => Sets(1, Plus(regs[0], -16))
         /\ pc = 120 => Sets(2, Plus(regs[0], 1))
         /\ pc = 121 => Sets(3, Plus(regs[6], regs[2]))
         /\ pc = 122 /\ regs[3] \in 75 .. 89 => Sets(4, mem[regs[3] - 1])
         /\ pc = 123 /\ regs[3] \in 75 .. 89 => Sets(5, mem[regs[3]])
         /\ pc = 124 => Sets(5, Not(regs[5]))
         /\ pc = 125 => Sets(5, Plus(regs[5], 1))
         /\ pc = 126 => Sets(5, Plus(regs[4], regs[5]))
         /\ pc = 127 => Goes(IF cc \in {2, 4} THEN 131 ELSE 128)
         /\ pc = 128 /\ regs[3] \in 75 .. 89 => Sets(5, mem[regs[3]])
         /\ pc = 129 /\ regs[3] \in 75 .. 89 => Stores(regs[3] - 1, regs[5])
         /\ pc = 130 /\ regs[3] \in 75 .. 89 => Stores(regs[3], regs[4])
         /\ pc = 131 => Sets(2, Plus(regs[2], 1))
         /\ pc = 132 => Sets(3, Plus(regs[1], regs[2]))
         /\ pc = 133 => Goes(IF cc = 4 THEN 121 ELSE 134)
         /\ pc = 134 => Sets(1, Plus(regs[1], 1))
         /\ pc = 135 => Goes(IF cc = 4 THEN 120 ELSE 136)
         /\ pc = 136 => Goes(regs[7])
<1> USE Registers8, Offsets
<1> TestRun /\ Runs /\ CpuTypes
  BY DEF Ready, Runs
<1>1. /\ pc = 119 => Sets(1, Plus(regs[0], -16))
      /\ pc = 120 => Sets(2, Plus(regs[0], 1))
      /\ pc = 121 => Sets(3, Plus(regs[6], regs[2]))
      /\ pc = 124 => Sets(5, Not(regs[5]))
      /\ pc = 125 => Sets(5, Plus(regs[5], 1))
      /\ pc = 126 => Sets(5, Plus(regs[4], regs[5]))
      /\ pc = 131 => Sets(2, Plus(regs[2], 1))
      /\ pc = 132 => Sets(3, Plus(regs[1], regs[2]))
      /\ pc = 134 => Sets(1, Plus(regs[1], 1))
  BY SortCode, AddEffect, AddiEffect, NotEffect
<1>2. ASSUME pc = 122, regs[3] \in 75 .. 89
      PROVE  Sets(4, mem[regs[3] - 1])
  <2>1. Plus(regs[3], -1) # IOWord => Sets(4, mem[Plus(regs[3], -1) % 256])
    BY <1>2, SortCode, LoadEffect
  <2>2. Plus(regs[3], -1) # IOWord /\ Plus(regs[3], -1) % 256 = regs[3] - 1
    BY <1>2, SMTT(30) DEF Plus, IOWord
  <2> QED BY <2>1, <2>2
<1>3. ASSUME pc = 123, regs[3] \in 75 .. 89
      PROVE  Sets(5, mem[regs[3]])
  <2>1. Plus(regs[3], 0) # IOWord => Sets(5, mem[Plus(regs[3], 0) % 256])
    BY <1>3, SortCode, LoadEffect
  <2>2. Plus(regs[3], 0) # IOWord /\ Plus(regs[3], 0) % 256 = regs[3]
    BY <1>3, SMTT(30) DEF Plus, IOWord
  <2> QED BY <2>1, <2>2
<1>4. ASSUME pc = 128, regs[3] \in 75 .. 89
      PROVE  Sets(5, mem[regs[3]])
  <2>1. Plus(regs[3], 0) # IOWord => Sets(5, mem[Plus(regs[3], 0) % 256])
    BY <1>4, SortCode, LoadEffect
  <2>2. Plus(regs[3], 0) # IOWord /\ Plus(regs[3], 0) % 256 = regs[3]
    BY <1>4, SMTT(30) DEF Plus, IOWord
  <2> QED BY <2>1, <2>2
<1>5. ASSUME pc = 129, regs[3] \in 75 .. 89
      PROVE  Stores(regs[3] - 1, regs[5])
  <2>1. Plus(regs[3], -1) # IOWord => Stores(Plus(regs[3], -1) % 256, regs[5])
    BY <1>5, SortCode, StoreEffect
  <2>2. Plus(regs[3], -1) # IOWord /\ Plus(regs[3], -1) % 256 = regs[3] - 1
    BY <1>5, SMTT(30) DEF Plus, IOWord
  <2> QED BY <2>1, <2>2
<1>6. ASSUME pc = 130, regs[3] \in 75 .. 89
      PROVE  Stores(regs[3], regs[4])
  <2>1. Plus(regs[3], 0) # IOWord => Stores(Plus(regs[3], 0) % 256, regs[4])
    BY <1>6, SortCode, StoreEffect
  <2>2. Plus(regs[3], 0) # IOWord /\ Plus(regs[3], 0) % 256 = regs[3]
    BY <1>6, SMTT(30) DEF Plus, IOWord
  <2> QED BY <2>1, <2>2
<1>7. /\ pc = 127 => (Taken(6) => Goes(Target(3))) /\ (~Taken(6) => Goes(pc + 1))
      /\ pc = 133 => (Taken(4) => Goes(Target(-13))) /\ (~Taken(4) => Goes(pc + 1))
      /\ pc = 135 => (Taken(4) => Goes(Target(-16))) /\ (~Taken(4) => Goes(pc + 1))
  BY SortCode, BranchEffect
<1>8. /\ pc = 127 => Target(3) = 131
      /\ pc = 133 => Target(-13) = 121
      /\ pc = 135 => Target(-16) = 120
  BY SMTT(30) DEF Target, Plus
<1>9. /\ pc = 127 => Goes(IF cc \in {2, 4} THEN 131 ELSE 128)
      /\ pc = 133 => Goes(IF cc = 4 THEN 121 ELSE 134)
      /\ pc = 135 => Goes(IF cc = 4 THEN 120 ELSE 136)
  BY <1>7, <1>8, Conditions DEF Runs, CpuTypes, CCs
<1>10. /\ pc = 136 => Goes(regs[7])
  BY SortCode, JumpEffect
<1> QED BY <1>1, <1>2, <1>3, <1>4, <1>5, <1>6, <1>9, <1>10

LEMMA DisplayCode ==
  ASSUME TestRun, Ready
  PROVE  /\ pc = 137 => Current = opCLR(1)
         /\ pc = 138 => Current = opADD(4, 7, 0)
         /\ pc = 139 => Current = opJSR(0)
         /\ pc = 140 => Current = opADD(5, 7, 0)
         /\ pc = 141 => Current = opADD(7, 4, 0)
         /\ pc = 142 => Current = opLDR(3, 5, 15)
         /\ pc = 143 => Current = opADDi(2, 0, 8)
         /\ pc = 144 => Current = opADD(2, 2, 2)
         /\ pc = 145 => Current = opADD(4, 6, 1)
         /\ pc = 146 => Current = opLDR(4, 4, 0)
         /\ pc = 147 => Current = opSTR(4, 0, -1)
         /\ pc = 148 => Current \in PauseWords
         /\ pc = 149 => Current = opADD(3, 3, 2)
         /\ pc = 150 => Current = opSTR(3, 5, 8)
         /\ pc = 151 => Current = opADDi(1, 1, 1)
         /\ pc = 152 => Current = opADDi(4, 1, -16)
         /\ pc = 153 => Current = opBR(4, -9)
         /\ pc = 154 => Current = opJMP(7)
<1>1. \A i \in 1 .. 19 : TestPrograms[137 + i - 1] = DisplayFunction[i]
  BY Layout DEF Lies
<1>2. pc \in 137 .. 154 /\ pc # 148 => Current = TestPrograms[pc]
  BY DEF Ready, CodeKept, Current, TestRun
<1>3. pc = 148 => Current \in PauseWords
  BY DEF Ready, CodeKept, Current, TestRun
<1> QED BY <1>1, <1>2, <1>3 DEF DisplayFunction, opINC, opRET, n

LEMMA DisplayEffects ==
  ASSUME TestRun, Ready
  PROVE  /\ pc = 137 => Sets(1, 0)
         /\ pc = 138 => Sets(4, Plus(regs[7], regs[0]))
         /\ pc = 139 => Links(140)
         /\ pc = 140 => Sets(5, Plus(regs[7], regs[0]))
         /\ pc = 141 => Sets(7, Plus(regs[4], regs[0]))
         /\ pc = 142 /\ regs[5] = 140 => Sets(3, 55298)
         /\ pc = 143 => Sets(2, Plus(regs[0], 8))
         /\ pc = 144 => Sets(2, Plus(regs[2], regs[2]))
         /\ pc = 145 => Sets(4, Plus(regs[6], regs[1]))
         /\ pc = 146 /\ regs[4] \in 74 .. 89 => Sets(4, mem[regs[4]])
         /\ pc = 147 => Shows(regs[4])
         /\ pc = 148 => Pauses
         /\ pc = 149 => Sets(3, Plus(regs[3], regs[2]))
         /\ pc = 150 /\ regs[5] = 140 => Stores(148, regs[3])
         /\ pc = 151 => Sets(1, Plus(regs[1], 1))
         /\ pc = 152 => Sets(4, Plus(regs[1], -16))
         /\ pc = 153 => Goes(IF cc = 4 THEN 145 ELSE 154)
         /\ pc = 154 => Goes(regs[7])
<1> USE Registers8, Offsets
<1> TestRun /\ Runs /\ CpuTypes
  BY DEF Ready, Runs
<1>1. /\ pc = 137 => Sets(1, 0)
      /\ pc = 138 => Sets(4, Plus(regs[7], regs[0]))
      /\ pc = 140 => Sets(5, Plus(regs[7], regs[0]))
      /\ pc = 141 => Sets(7, Plus(regs[4], regs[0]))
      /\ pc = 143 => Sets(2, Plus(regs[0], 8))
      /\ pc = 144 => Sets(2, Plus(regs[2], regs[2]))
      /\ pc = 145 => Sets(4, Plus(regs[6], regs[1]))
      /\ pc = 149 => Sets(3, Plus(regs[3], regs[2]))
      /\ pc = 151 => Sets(1, Plus(regs[1], 1))
      /\ pc = 152 => Sets(4, Plus(regs[1], -16))
  BY DisplayCode, AddEffect, AddiEffect, ClearEffect
<1>2. /\ pc = 147 => Shows(regs[4])
  BY DisplayCode, StoreEffect, SwitchAddress
<1>3. ASSUME pc = 142, regs[5] = 140
      PROVE  Sets(3, 55298)
  <2>1. Plus(regs[5], 15) # IOWord => Sets(3, mem[Plus(regs[5], 15) % 256])
    BY <1>3, DisplayCode, LoadEffect
  <2>2. Plus(regs[5], 15) # IOWord /\ Plus(regs[5], 15) % 256 = 155
    BY <1>3, SMTT(30) DEF Plus, IOWord
  <2>3. mem[155] = 55298
    <3>1. TestPrograms[155] = DisplayFunction[19]
      BY Layout DEF Lies
    <3> QED BY <3>1 DEF Ready, CodeKept, DisplayFunction, opPSE
  <2> QED BY <2>1, <2>2, <2>3
<1>4. ASSUME pc = 146, regs[4] \in 74 .. 89
      PROVE  Sets(4, mem[regs[4]])
  <2>1. Plus(regs[4], 0) # IOWord => Sets(4, mem[Plus(regs[4], 0) % 256])
    BY <1>4, DisplayCode, LoadEffect
  <2>2. Plus(regs[4], 0) # IOWord /\ Plus(regs[4], 0) % 256 = regs[4]
    BY <1>4, SMTT(30) DEF Plus, IOWord
  <2> QED BY <2>1, <2>2
<1>5. ASSUME pc = 150, regs[5] = 140
      PROVE  Stores(148, regs[3])
  <2>1. Plus(regs[5], 8) # IOWord => Stores(Plus(regs[5], 8) % 256, regs[3])
    BY <1>5, DisplayCode, StoreEffect
  <2>2. Plus(regs[5], 8) # IOWord /\ Plus(regs[5], 8) % 256 = 148
    BY <1>5, SMTT(30) DEF Plus, IOWord
  <2> QED BY <2>1, <2>2
<1>6. /\ pc = 153 => (Taken(4) => Goes(Target(-9))) /\ (~Taken(4) => Goes(pc + 1))
  BY DisplayCode, BranchEffect
<1>7. /\ pc = 153 => Target(-9) = 145
  BY SMTT(30) DEF Target, Plus
<1>8. /\ pc = 153 => Goes(IF cc = 4 THEN 145 ELSE 154)
  BY <1>6, <1>7, Conditions DEF Runs, CpuTypes, CCs
<1>9. /\ pc = 139 => Links(Target(0))
  BY DisplayCode, CallEffect
<1>10. /\ pc = 139 => Target(0) = 140
  BY SMTT(30) DEF Target, Plus
<1>11. /\ pc = 139 => Links(140)
  BY <1>9, <1>10
<1>12. /\ pc = 154 => Goes(regs[7])
  BY DisplayCode, JumpEffect
<1>13. /\ pc = 148 => Current \in PauseWords
  BY DisplayCode, SMT DEF PauseWords, opPSE
<1>14. /\ pc = 148 => Pauses
  BY <1>13, PauseEffect
<1> QED BY <1>1, <1>2, <1>3, <1>4, <1>5, <1>8, <1>11, <1>12, <1>14

LEMMA AutoCountCode ==
  ASSUME TestRun, Ready
  PROVE  /\ pc = 156 => Current = opCLR(0)
         /\ pc = 157 => Current = opCLR(1)
         /\ pc = 158 => Current = opCLR(2)
         /\ pc = 159 => Current = opCLR(3)
         /\ pc = 160 => Current = opJSR(0)
         /\ pc = 161 => Current = opLDR(1, 7, 12)
         /\ pc = 162 => Current = opLDR(2, 7, 13)
         /\ pc = 163 => Current = opADDi(1, 1, -1)
         /\ pc = 164 => Current = opBR(2, 1)
         /\ pc = 165 => Current = opBR(7, -3)
         /\ pc = 166 => Current = opADDi(2, 2, -1)
         /\ pc = 167 => Current = opBR(2, 2)
         /\ pc = 168 => Current = opLDR(1, 7, 12)
         /\ pc = 169 => Current = opBR(7, -7)
         /\ pc = 170 => Current = opSTR(3, 0, -1)
         /\ pc = 171 => Current = opADDi(3, 3, 1)
         /\ pc = 172 => Current = opBR(7, -12)
<1>1. \A i \in 1 .. 19 : TestPrograms[156 + i - 1] = AutoCount[i]
  BY Layout DEF Lies
<1>2. pc \in 156 .. 172 => Current = TestPrograms[pc]
  BY DEF Ready, CodeKept, Current, TestRun
<1> QED BY <1>1, <1>2 DEF AutoCount, opINC, opDEC, nzp, z

LEMMA AutoCountEffects ==
  ASSUME TestRun, Ready
  PROVE  /\ pc = 156 => Sets(0, 0)
         /\ pc = 157 => Sets(1, 0)
         /\ pc = 158 => Sets(2, 0)
         /\ pc = 159 => Sets(3, 0)
         /\ pc = 160 => Links(161)
         /\ pc = 161 => (\E v \in Word : Sets(1, v))
         /\ pc = 162 => (\E v \in Word : Sets(2, v))
         /\ pc = 163 => Sets(1, Plus(regs[1], -1))
         /\ pc = 164 => Goes(IF cc = 2 THEN 166 ELSE 165)
         /\ pc = 165 => Goes(163)
         /\ pc = 166 => Sets(2, Plus(regs[2], -1))
         /\ pc = 167 => Goes(IF cc = 2 THEN 170 ELSE 168)
         /\ pc = 168 => (\E v \in Word : Sets(1, v))
         /\ pc = 169 => Goes(163)
         /\ pc = 170 => Shows(regs[3])
         /\ pc = 171 => Sets(3, Plus(regs[3], 1))
         /\ pc = 172 => Goes(161)
<1> USE Registers8, Offsets
<1> TestRun /\ Runs /\ CpuTypes
  BY DEF Ready, Runs
<1>1. /\ pc = 156 => Sets(0, 0)
      /\ pc = 157 => Sets(1, 0)
      /\ pc = 158 => Sets(2, 0)
      /\ pc = 159 => Sets(3, 0)
      /\ pc = 163 => Sets(1, Plus(regs[1], -1))
      /\ pc = 166 => Sets(2, Plus(regs[2], -1))
      /\ pc = 171 => Sets(3, Plus(regs[3], 1))
  BY AutoCountCode, AddiEffect, ClearEffect
<1>2. /\ pc = 170 => Shows(regs[3])
  BY AutoCountCode, StoreEffect, SwitchAddress
<1>3. ASSUME pc = 161
      PROVE  \E v \in Word : Sets(1, v)
  <2>1. /\ Plus(regs[7], 12) = IOWord => \E v \in Settings \cap Chosen(pc, hex) : Sets(1, v)
        /\ Plus(regs[7], 12) # IOWord => Sets(1, mem[Plus(regs[7], 12) % 256])
    BY <1>3, AutoCountCode, LoadEffect
  <2>2. Plus(regs[7], 12) % 256 \in 0 .. 255
    BY Registers8, RegisterWords, PlusIndex
  <2>3. mem[Plus(regs[7], 12) % 256] \in Word
    BY <2>2 DEF CpuTypes
  <2> QED BY <2>1, <2>3 DEF TestRun
<1>4. ASSUME pc = 162
      PROVE  \E v \in Word : Sets(2, v)
  <2>1. /\ Plus(regs[7], 13) = IOWord => \E v \in Settings \cap Chosen(pc, hex) : Sets(2, v)
        /\ Plus(regs[7], 13) # IOWord => Sets(2, mem[Plus(regs[7], 13) % 256])
    BY <1>4, AutoCountCode, LoadEffect
  <2>2. Plus(regs[7], 13) % 256 \in 0 .. 255
    BY Registers8, RegisterWords, PlusIndex
  <2>3. mem[Plus(regs[7], 13) % 256] \in Word
    BY <2>2 DEF CpuTypes
  <2> QED BY <2>1, <2>3 DEF TestRun
<1>5. ASSUME pc = 168
      PROVE  \E v \in Word : Sets(1, v)
  <2>1. /\ Plus(regs[7], 12) = IOWord => \E v \in Settings \cap Chosen(pc, hex) : Sets(1, v)
        /\ Plus(regs[7], 12) # IOWord => Sets(1, mem[Plus(regs[7], 12) % 256])
    BY <1>5, AutoCountCode, LoadEffect
  <2>2. Plus(regs[7], 12) % 256 \in 0 .. 255
    BY Registers8, RegisterWords, PlusIndex
  <2>3. mem[Plus(regs[7], 12) % 256] \in Word
    BY <2>2 DEF CpuTypes
  <2> QED BY <2>1, <2>3 DEF TestRun
<1>6. /\ pc = 164 => (Taken(2) => Goes(Target(1))) /\ (~Taken(2) => Goes(pc + 1))
      /\ pc = 165 => (Taken(7) => Goes(Target(-3))) /\ (~Taken(7) => Goes(pc + 1))
      /\ pc = 167 => (Taken(2) => Goes(Target(2))) /\ (~Taken(2) => Goes(pc + 1))
      /\ pc = 169 => (Taken(7) => Goes(Target(-7))) /\ (~Taken(7) => Goes(pc + 1))
      /\ pc = 172 => (Taken(7) => Goes(Target(-12))) /\ (~Taken(7) => Goes(pc + 1))
  BY AutoCountCode, BranchEffect
<1>7. /\ pc = 164 => Target(1) = 166
      /\ pc = 165 => Target(-3) = 163
      /\ pc = 167 => Target(2) = 170
      /\ pc = 169 => Target(-7) = 163
      /\ pc = 172 => Target(-12) = 161
  BY SMTT(30) DEF Target, Plus
<1>8. /\ pc = 164 => Goes(IF cc = 2 THEN 166 ELSE 165)
      /\ pc = 165 => Goes(163)
      /\ pc = 167 => Goes(IF cc = 2 THEN 170 ELSE 168)
      /\ pc = 169 => Goes(163)
      /\ pc = 172 => Goes(161)
  BY <1>6, <1>7, Conditions DEF Runs, CpuTypes, CCs
<1>9. /\ pc = 160 => Links(Target(0))
  BY AutoCountCode, CallEffect
<1>10. /\ pc = 160 => Target(0) = 161
  BY SMTT(30) DEF Target, Plus
<1>11. /\ pc = 160 => Links(161)
  BY <1>9, <1>10
<1> QED BY <1>1, <1>2, <1>3, <1>4, <1>5, <1>8, <1>11

(***************************************************************************)
(* What every program keeps.                                               *)
(***************************************************************************)

Intact == pc \in 0 .. 258 /\ CpuTypes /\ CodeKept

LeavesData == Intact' /\ \A a \in 74 .. 89 : mem'[a] = mem[a]

LEMMA SetsKeep ==
  Intact /\ pc \in 0 .. 257 => \A d \in 1 .. 7, v \in Word : Sets(d, v) => LeavesData /\ pc' = pc + 1
<1> SUFFICES ASSUME Intact, pc \in 0 .. 257, NEW d \in 1 .. 7, NEW v \in Word, Sets(d, v)
             PROVE  LeavesData /\ pc' = pc + 1
  OBVIOUS
<1>1. cc' \in CCs /\ cc' # 0
  BY WordOps DEF Sets, CCs
<1>2. regs' \in [RegNames -> Word] /\ regs'[0] = 0
  BY DEF Intact, CpuTypes, Sets, RegNames
<1> QED BY <1>1, <1>2 DEF LeavesData, Intact, CpuTypes, CodeKept, Sets

LEMMA ClearKeeps == Intact /\ pc \in 0 .. 257 /\ Sets(0, 0) => LeavesData
<1> SUFFICES ASSUME Intact, pc \in 0 .. 257, Sets(0, 0)
             PROVE  LeavesData
  OBVIOUS
<1>1. 0 \in Word
  BY SMT DEF Word
<1>2. cc' \in CCs /\ cc' # 0
  BY <1>1, WordOps DEF Sets, CCs
<1>3. regs' \in [RegNames -> Word] /\ regs'[0] = 0
  BY <1>1 DEF Intact, CpuTypes, Sets, RegNames
<1> QED BY <1>2, <1>3 DEF LeavesData, Intact, CpuTypes, CodeKept, Sets

LEMMA GoesKeeps == Intact /\ pc # 0 => \A a \in 0 .. 258 : Goes(a) => LeavesData
BY DEF LeavesData, Intact, CpuTypes, CodeKept, Goes

LEMMA LinksKeep ==
  Intact /\ pc # 0 => \A a \in 0 .. 258 : Links(a) => LeavesData
<1> SUFFICES ASSUME Intact, pc # 0, NEW a \in 0 .. 258, Links(a)
             PROVE  LeavesData
  OBVIOUS
<1>1. pc + 1 \in Word
  BY SMT DEF Intact, Word
<1>2. regs' \in [RegNames -> Word] /\ regs'[0] = 0
  BY <1>1 DEF Intact, CpuTypes, Links, RegNames
<1> QED BY <1>2 DEF LeavesData, Intact, CpuTypes, CodeKept, Links

LEMMA PausesKeep == Intact /\ pc \in 1 .. 257 /\ Pauses => LeavesData
BY DEF LeavesData, Intact, CpuTypes, CodeKept, Pauses

LEMMA ShowsKeep == Intact /\ pc \in 1 .. 257 => \A v \in Word : Shows(v) => LeavesData
BY DEF LeavesData, Intact, CpuTypes, CodeKept, Shows

LEMMA StoresKeep ==
  Intact /\ pc \in 1 .. 257 =>
     /\ \A a \in 74 .. 89, v \in Word : Stores(a, v) => Intact'
     /\ \A v \in PauseWords : Stores(148, v) => LeavesData
<1> SUFFICES ASSUME Intact, pc \in 1 .. 257
             PROVE  /\ \A a \in 74 .. 89, v \in Word : Stores(a, v) => Intact'
                    /\ \A v \in PauseWords : Stores(148, v) => LeavesData
  OBVIOUS
<1>1. ASSUME NEW a \in 74 .. 89, NEW v \in Word, Stores(a, v)
      PROVE  Intact'
  BY <1>1 DEF Intact, CpuTypes, CodeKept, Stores
<1>2. ASSUME NEW v \in PauseWords, Stores(148, v)
      PROVE  LeavesData
  <2>1. v \in Word
    BY SMT DEF PauseWords, Word
  <2> QED BY <1>2, <2>1 DEF LeavesData, Intact, CpuTypes, CodeKept, Stores
<1> QED BY <1>1, <1>2

(***************************************************************************)
(* The exclusive or.                                                       *)
(***************************************************************************)

ExOr(x, y) == Not(And(Not(And(Not(x), y)), Not(And(Not(y), x))))

LEMMA ExOrBits ==
  ASSUME NEW x \in Word, NEW y \in Word, NEW w \in Powers
  PROVE  Bit(ExOr(x, y), w) = (Bit(x, w) + Bit(y, w)) % 2
<1> DEFINE a == And(Not(x), y)
           b == And(Not(y), x)
<1>1. Not(x) \in Word /\ Not(y) \in Word /\ a \in Word /\ b \in Word
      /\ Not(a) \in Word /\ Not(b) \in Word /\ And(Not(a), Not(b)) \in Word
  BY WordOps, AndType
<1>2. /\ Bit(x, w) \in {0, 1} /\ Bit(y, w) \in {0, 1}
      /\ Bit(a, w) = (1 - Bit(x, w)) * Bit(y, w) /\ Bit(b, w) = (1 - Bit(y, w)) * Bit(x, w)
  BY <1>1, NotBits, AndBits
<1> HIDE DEF a, b
<1>3. Bit(Not(And(Not(a), Not(b))), w) = 1 - (1 - Bit(a, w)) * (1 - Bit(b, w))
  BY <1>1, NotBits, AndBits
<1>4. ExOr(x, y) = Not(And(Not(a), Not(b)))
  BY DEF ExOr, a, b
<1> QED BY <1>2, <1>3, <1>4

InXor ==
  /\ pc \in 20 .. 35
  /\ pc = 26 => regs[3] = Not(regs[1])
  /\ pc = 27 => regs[3] = And(Not(regs[1]), regs[2])
  /\ pc \in 28 .. 31 => regs[3] = Not(And(Not(regs[1]), regs[2]))
  /\ pc = 29 => regs[4] = Not(regs[2])
  /\ pc = 30 => regs[4] = And(Not(regs[2]), regs[1])
  /\ pc = 31 => regs[4] = Not(And(Not(regs[2]), regs[1]))
  /\ pc = 32 => regs[3] = And(Not(And(Not(regs[1]), regs[2])), Not(And(Not(regs[2]), regs[1])))
  /\ pc = 33 => regs[3] = ExOr(regs[1], regs[2])
  /\ pc \in 34 .. 35 => hex = ExOr(regs[1], regs[2])

LEMMA XorStep ==
  ASSUME TestRun, Intact, InXor, Instruction, Guided
  PROVE  LeavesData /\ InXor'
<1> USE Registers8
<1>1. /\ Ready /\ \A r \in RegNames : regs[r] \in Word
      /\ regs \in [RegNames -> Word]
  BY RegisterWords DEF Ready, Runs, Intact, CpuTypes
<1>2. CASE pc \in 20 .. 24
  <2>1. CASE pc = 20
    BY <1>1, <2>1, XorEffects, ClearKeeps DEF InXor, Sets
  <2>2. CASE pc \in {21, 23}
    BY <1>1, <2>2, XorEffects, PausesKeep DEF InXor, Pauses
  <2>3. CASE pc \in {22, 24}
    BY <1>1, <2>3, XorEffects, SetsKeep DEF InXor, Sets
  <2> QED BY <1>2, <2>1, <2>2, <2>3
<1>3. CASE pc \in 25 .. 32
  <2>1. /\ \A x \in Word : Not(x) \in Word
        /\ \A x, y \in Word : And(x, y) \in Word
    BY WordOps, AndType
  <2>2. PICK d \in {3, 4}, v \in Word : Sets(d, v)
    BY <1>1, <1>3, <2>1, XorEffects
  <2>3. LeavesData
    BY <1>3, <2>2, SetsKeep
  <2>4. InXor'
    BY <1>1, <1>3, XorEffects DEF InXor, Sets, ExOr
  <2> QED BY <2>3, <2>4
<1>4. CASE pc \in 33 .. 35
  <2>1. CASE pc = 33
    BY <1>1, <2>1, XorEffects, ShowsKeep DEF InXor, Shows
  <2>2. CASE pc = 34
    BY <1>1, <2>2, XorEffects, PausesKeep DEF InXor, Pauses
  <2>3. CASE pc = 35
    BY <1>1, <2>3, XorEffects, GoesKeeps DEF InXor, Goes
  <2> QED BY <1>4, <2>1, <2>2, <2>3
<1> QED BY <1>2, <1>3, <1>4 DEF InXor

(***************************************************************************)
(* The loader's first words, and the words behind the programs, which do   *)
(* nothing and lead around to the first ones.                              *)
(***************************************************************************)

InBoot ==
  /\ pc \in 0 .. 2 \cup 173 .. 258
  /\ mem[255] = 0
  /\ pc \in {2, 258} => regs[1] \in ProgramStarts

LEMMA BootEffects ==
  ASSUME TestRun, Ready
  PROVE  /\ pc \in {0, 256} => Sets(0, 0)
         /\ pc \in {1, 257} => (\E v \in Word \cap ProgramStarts : Sets(1, v))
         /\ pc \in {2, 258} => Goes(regs[1])
         /\ pc \in 173 .. 255 /\ mem[255] = 0 => Goes(pc + 1)
<1> USE Registers8, Offsets
<1> TestRun /\ Runs /\ CpuTypes
  BY DEF Ready, Runs
<1>1. /\ TestPrograms[0] = Boot[1] /\ TestPrograms[1] = Boot[2] /\ TestPrograms[2] = Boot[3]
      /\ TestPrograms[173] = AutoCount[18] /\ TestPrograms[174] = AutoCount[19]
      /\ \A a \in 175 .. 254 : TestPrograms[a] = 0
  <2>1. \A i \in 1 .. 3 : TestPrograms[0 + i - 1] = Boot[i]
    BY Layout DEF Lies
  <2>2. \A i \in 1 .. 19 : TestPrograms[156 + i - 1] = AutoCount[i]
    BY Layout DEF Lies
  <2> QED BY <2>1, <2>2, Layout
<1>2. /\ pc \in {0, 256} => Current = opCLR(0)
      /\ pc \in {1, 257} => Current = opLDR(1, 0, -1)
      /\ pc \in {2, 258} => Current = opJMP(1)
  BY <1>1 DEF Ready, CodeKept, Current, TestRun, Boot
<1>3. /\ pc = 173 => Current = 65535
      /\ pc = 174 => Current = 5
      /\ pc \in 175 .. 255 /\ mem[255] = 0 => Current = 0
  BY <1>1 DEF Ready, CodeKept, Current, TestRun, AutoCount
<1>4. pc \in {0, 256} => Sets(0, 0)
  BY <1>2, ClearEffect
<1>5. pc \in {1, 257} => (\E v \in Settings \cap Chosen(pc, hex) : Sets(1, v))
  BY <1>2, LoadEffect, SwitchAddress
<1>6. pc \in {1, 257} => (\E v \in Word \cap ProgramStarts : Sets(1, v))
  BY <1>5 DEF TestRun, CpuTypes
<1>7. pc \in {2, 258} => Goes(regs[1])
  BY <1>2, JumpEffect
<1>8. pc = 173 => Goes(pc + 1)
  <2>1. pc = 173 => Opcode(Current) = 15
    BY <1>3, SMT DEF Opcode
  <2> QED BY <2>1, Fetched, NextAddress
          DEF Perform, Add, AndOp, NotOp, Ldr, Str, Br, Jmp, Jsr, Pse, Nop, Advance, Goes
<1>9. /\ 5 = opBR(0, 5) /\ 5 \in Off9s
      /\ 0 = opBR(0, 0) /\ 0 \in Off9s
  BY DEF opBR, Word4, Off9s
<1>10. pc \in 174 .. 255 /\ mem[255] = 0 => Goes(pc + 1)
  BY <1>3, <1>9, BranchEffect, Conditions
<1> QED BY <1>4, <1>6, <1>7, <1>8, <1>10

(***************************************************************************)
(* The programs whose assertions are their addresses.                      *)
(***************************************************************************)

InIOTests == pc \in 3 .. 10

LEMMA IOTestsStep ==
  ASSUME TestRun, Intact, InIOTests, Instruction, Guided
  PROVE  LeavesData /\ InIOTests'
<1>1. Ready /\ regs[1] \in Word
  BY RegisterWords, Registers8 DEF Ready, Runs, Intact
<1>2. CASE pc \in {3, 7}
  <2>1. PICK v \in Word : Sets(1, v)
    BY <1>1, <1>2, IOTest1Effects, IOTest2Effects
  <2> QED BY <1>2, <2>1, SetsKeep DEF InIOTests
<1>3. CASE pc \in {4, 8}
  BY <1>1, <1>3, IOTest1Effects, IOTest2Effects, ShowsKeep DEF InIOTests, Shows
<1>4. CASE pc \in {6, 9}
  BY <1>1, <1>4, IOTest2Effects, PausesKeep DEF InIOTests, Pauses
<1>5. CASE pc \in {5, 10}
  BY <1>1, <1>5, IOTest1Effects, IOTest2Effects, GoesKeeps DEF InIOTests, Goes
<1> QED BY <1>2, <1>3, <1>4, <1>5 DEF InIOTests

InRunOnce == pc \in 42 .. 48 /\ (pc \in 45 .. 48 => regs[7] = 45)

LEMMA RunOnceStep ==
  ASSUME TestRun, Intact, InRunOnce, Instruction, Guided
  PROVE  LeavesData /\ InRunOnce'
<1>1. /\ Ready /\ regs \in [RegNames -> Word] /\ regs[1] \in Word
      /\ Plus(regs[1], 1) \in Word /\ 0 \in Word
  <2>1. regs \in [RegNames -> Word] /\ regs[1] \in Word
    BY Registers8 DEF Intact, CpuTypes
  <2>2. Plus(regs[1], 1) \in Word /\ 0 \in Word
    BY <2>1, SMT DEF Plus, Word
  <2> QED BY <2>1, <2>2 DEF Ready, Runs, Intact
<1>2. CASE pc = 42
  BY <1>1, <1>2, RunOnceEffects, ClearKeeps DEF InRunOnce, Sets
<1>3. CASE pc \in {43, 47}
  <2>1. PICK v \in Word : Sets(1, v)
    BY <1>1, <1>3, RunOnceEffects
  <2>2. LeavesData
    BY <1>3, <2>1, SetsKeep
  <2> QED BY <1>1, <1>3, <2>1, <2>2 DEF InRunOnce, Sets
<1>4. CASE pc = 44
  BY <1>1, <1>4, RunOnceEffects, LinksKeep, Registers8 DEF InRunOnce, Links
<1>5. CASE pc = 45
  BY <1>1, <1>5, RunOnceEffects, ShowsKeep DEF InRunOnce, Shows
<1>6. CASE pc = 46
  BY <1>1, <1>6, RunOnceEffects, PausesKeep DEF InRunOnce, Pauses
<1>7. CASE pc = 48
  BY <1>1, <1>7, RunOnceEffects, GoesKeeps DEF InRunOnce, Goes
<1> QED BY <1>2, <1>3, <1>4, <1>5, <1>6, <1>7 DEF InRunOnce

InAutoCount == pc \in 156 .. 172

LEMMA AutoCountStep ==
  ASSUME TestRun, Intact, InAutoCount, Instruction, Guided
  PROVE  LeavesData /\ InAutoCount'
<1>1. /\ Ready /\ \A r \in RegNames : regs[r] \in Word
      /\ 0 \in Word /\ \A x \in Word : Plus(x, 1) \in Word /\ Plus(x, -1) \in Word
  BY RegisterWords, SMT DEF Ready, Runs, Intact, Plus, Word
<1>2. CASE pc = 156
  BY <1>1, <1>2, AutoCountEffects, ClearKeeps DEF InAutoCount, Sets
<1>3. CASE pc \in {157, 158, 159, 163, 166, 171}
  <2>1. PICK d \in 1 .. 3, v \in Word : Sets(d, v)
    BY <1>1, <1>3, AutoCountEffects, Registers8
  <2> QED BY <1>3, <2>1, SetsKeep DEF InAutoCount
<1>4. CASE pc \in {161, 162, 168}
  <2>1. PICK d \in 1 .. 3, v \in Word : Sets(d, v)
    BY <1>1, <1>4, AutoCountEffects
  <2> QED BY <1>4, <2>1, SetsKeep DEF InAutoCount
<1>5. CASE pc = 160
  BY <1>1, <1>5, AutoCountEffects, LinksKeep DEF InAutoCount, Links
<1>6. CASE pc = 170
  BY <1>1, <1>6, AutoCountEffects, ShowsKeep, Registers8 DEF InAutoCount, Shows
<1>7. CASE pc \in {164, 165, 167, 169, 172}
  <2>1. PICK a \in 156 .. 172 : Goes(a)
    BY <1>1, <1>7, AutoCountEffects
  <2> QED BY <1>7, <2>1, GoesKeeps DEF InAutoCount, Goes
<1> QED BY <1>2, <1>3, <1>4, <1>5, <1>6, <1>7 DEF InAutoCount

(***************************************************************************)
(* The multiplier.  After k rounds the upper byte of R1 ends in the k bits *)
(* it has seen, the first of which counts negatively.                      *)
(***************************************************************************)

Times(v, y) == (v * y) % 65536

LEMMA TimesSteps ==
  ASSUME NEW v \in Int, NEW y \in Word
  PROVE  /\ Times(v, y) \in Word
         /\ Times(0, y) = 0
         /\ Plus(Times(v, y), Times(v, y)) = Times(2 * v, y)
         /\ Plus(Times(v, y), y) = Times(v + 1, y)
         /\ Plus(Not(Times(v, y)), 1) = Times(-v, y)
<1> DEFINE m == v * y
           r == m % 65536
           twice == (2 * m) % 65536
           more == (m + y) % 65536
           less == (-m) % 65536
<1>1. y \in Int /\ m \in Int
  BY SMT DEF Word
<1>2. 0 * y = 0 /\ (2 * v) * y = 2 * m /\ (v + 1) * y = m + y /\ (-v) * y = -m
  BY <1>1, SMT
<1>3. Times(v, y) = r /\ Times(2 * v, y) = twice /\ Times(v + 1, y) = more /\ Times(-v, y) = less
  BY <1>2 DEF Times
<1>4. Times(0, y) = 0
  BY <1>2 DEF Times
<1> HIDE DEF m
<1>5. r \in Word /\ Plus(r, r) = twice /\ Plus(r, y) = more /\ Plus(Not(r), 1) = less
  BY <1>1, SMTT(30) DEF Word, Plus, Not
<1> HIDE DEF r, twice, more, less
<1> QED BY <1>3, <1>4, <1>5

TwoTo(k) ==
  IF k = 0 THEN 1 ELSE IF k = 1 THEN 2 ELSE IF k = 2 THEN 4 ELSE IF k = 3 THEN 8
  ELSE IF k = 4 THEN 16 ELSE IF k = 5 THEN 32 ELSE IF k = 6 THEN 64
  ELSE IF k = 7 THEN 128 ELSE 256

(* The signed number that the last k bits of the upper byte make.          *)
Seen(k, x) ==
  LET u == (x \div 256) % TwoTo(k)
  IN  IF k > 0 /\ 2 * u >= TwoTo(k) THEN u - TwoTo(k) ELSE u

Top(x) == (x \div 128) % 2

WithTop(k, x) == IF k = 0 THEN -Top(x) ELSE 2 * Seen(k, x) + Top(x)

LEMMA SeenNext ==
  ASSUME NEW k \in 0 .. 7, NEW x \in Word
  PROVE  Seen(k + 1, Plus(x, x)) = WithTop(k, x)
<1> DEFINE h == x \div 256
           b == Top(x)
           s == Plus(x, x) \div 256
<1>1. /\ h \in 0 .. 255 /\ b \in {0, 1} /\ x \in Int
      /\ s = IF h >= 128 THEN 2 * h + b - 256 ELSE 2 * h + b
  <2>1. x \in Nat /\ x < 65536
    BY SMT DEF Word
  <2>2. h \in 0 .. 255 /\ b \in {0, 1} /\ h >= 0 /\ b >= 0
    BY <2>1, SMTT(30) DEF Top
  <2> DEFINE l == x - 256 * h - 128 * b
  <2>3. l \in 0 .. 127
    BY <2>1, <2>2, SMTT(30) DEF Top
  <2>4. x + x = 512 * h + 256 * b + 2 * l
    BY <2>1, <2>2, SMTT(30)
  <2> HIDE DEF h, b, l
  <2>5. (512 * h + 256 * b + 2 * l) % 65536 =
           (IF h >= 128 THEN 512 * h + 256 * b + 2 * l - 65536 ELSE 512 * h + 256 * b + 2 * l)
    BY <2>2, <2>3, SMTT(30)
  <2>6. ((512 * h + 256 * b + 2 * l) % 65536) \div 256 =
           (IF h >= 128 THEN 2 * h + b - 256 ELSE 2 * h + b)
    BY <2>2, <2>3, <2>5, SMTT(30)
  <2>7. s = (IF h >= 128 THEN 2 * h + b - 256 ELSE 2 * h + b)
    BY <2>4, <2>6 DEF Plus
  <2> QED BY <2>1, <2>2, <2>7
<1>2. Seen(k, x) = (IF k > 0 /\ 2 * (h % TwoTo(k)) >= TwoTo(k) THEN (h % TwoTo(k)) - TwoTo(k)
                    ELSE h % TwoTo(k))
  BY DEF Seen
<1>3. Seen(k + 1, Plus(x, x)) = (IF 2 * (s % TwoTo(k + 1)) >= TwoTo(k + 1)
                                 THEN (s % TwoTo(k + 1)) - TwoTo(k + 1) ELSE s % TwoTo(k + 1))
  BY DEF Seen
<1>4. WithTop(k, x) = IF k = 0 THEN -b ELSE 2 * Seen(k, x) + b
  BY DEF WithTop
<1> HIDE DEF h, b, s
<1>5. CASE k = 0
  BY <1>1, <1>2, <1>3, <1>4, <1>5, SMTT(30) DEF TwoTo
<1>6. CASE k = 1
  BY <1>1, <1>2, <1>3, <1>4, <1>6, SMTT(30) DEF TwoTo
<1>7. CASE k = 2
  BY <1>1, <1>2, <1>3, <1>4, <1>7, SMTT(30) DEF TwoTo
<1>8. CASE k = 3
  BY <1>1, <1>2, <1>3, <1>4, <1>8, SMTT(30) DEF TwoTo
<1>9. CASE k = 4
  BY <1>1, <1>2, <1>3, <1>4, <1>9, SMTT(30) DEF TwoTo
<1>10. CASE k = 5
  BY <1>1, <1>2, <1>3, <1>4, <1>10, SMTT(30) DEF TwoTo
<1>11. CASE k = 6
  BY <1>1, <1>2, <1>3, <1>4, <1>11, SMTT(30) DEF TwoTo
<1>12. CASE k = 7
  BY <1>1, <1>2, <1>3, <1>4, <1>12, SMTT(30) DEF TwoTo
<1> QED BY <1>5, <1>6, <1>7, <1>8, <1>9, <1>10, <1>11, <1>12

LEMMA SeenEnds ==
  ASSUME NEW x \in Word
  PROVE  /\ Seen(0, x) = 0
         /\ Seen(8, x) = Signed8(x \div 256)
         /\ Top(x) \in {0, 1}
         /\ \A k \in 0 .. 8 : Seen(k, x) \in Int
<1>1. x \div 256 \in 0 .. 255 /\ Top(x) \in {0, 1}
  BY SMT DEF Word, Top
<1>2. (x \div 256) % 1 = 0 /\ (x \div 256) % 256 = x \div 256
  BY <1>1, SMT
<1>3. Seen(0, x) = 0
  BY <1>1, <1>2 DEF Seen, TwoTo
<1>4. Seen(8, x) = Signed8(x \div 256)
  BY <1>1, <1>2 DEF Seen, TwoTo, Signed8
<1>5. \A k \in 0 .. 8 : TwoTo(k) \in Nat \ {0}
  BY DEF TwoTo
<1>6. \A k \in 0 .. 8 : Seen(k, x) \in Int
  <2> SUFFICES ASSUME NEW k \in 0 .. 8 PROVE Seen(k, x) \in Int
    OBVIOUS
  <2> DEFINE t == TwoTo(k)
  <2>1. t \in Nat \ {0}
    BY <1>5
  <2> HIDE DEF t
  <2>2. (x \div 256) % t \in Int
    BY <1>1, <2>1, SMT
  <2> QED BY <2>1, <2>2 DEF Seen, t
<1> QED BY <1>1, <1>3, <1>4, <1>6

(* The bit that the loop masks out.                                        *)
LEMMA Masked ==
  ASSUME NEW x \in Word
  PROVE  And(128, x) = 128 * Top(x)
<1> DEFINE d == (x \div 16) % 16
           a == And(128, x)
<1>1. 128 \in Word /\ x \in Int
  BY SMT DEF Word
<1>2. /\ x % 16 \in 0 .. 15 /\ d \in 0 .. 15
      /\ (x \div 256) % 16 \in 0 .. 15 /\ x \div 4096 \in 0 .. 15
  BY Digits
<1>3. \A v \in 0 .. 15 : AndNibble(0, v) = 0 /\ AndNibble(8, v) = 8 * (v \div 8)
  BY DEF AndNibble, Both, Bit
<1>4. 128 % 16 = 0 /\ (128 \div 16) % 16 = 8 /\ (128 \div 256) % 16 = 0 /\ 128 \div 4096 = 0
  OBVIOUS
<1>5. /\ a % 16 = 0 /\ (a \div 16) % 16 = 8 * (d \div 8)
      /\ (a \div 256) % 16 = 0 /\ a \div 4096 = 0
  BY <1>1, <1>2, <1>3, <1>4, AndDigits
<1>6. a \in Word
  BY <1>1, AndType
<1>7. Top(x) = d \div 8
  BY <1>1, SMT DEF Top
<1> HIDE DEF a, d
<1>8. a = 128 * (d \div 8)
  BY <1>2, <1>5, <1>6, SMT DEF Word
<1> QED BY <1>7, <1>8 DEF a

InMultiplier ==
  LET k == regs[4]
      x == regs[1]
      y == regs[2]
  IN  /\ pc \in 49 .. 72
      /\ pc = 51 => regs[7] = 51
      /\ pc \in 52 .. 72 => regs[3] = 128
      /\ pc \in 53 .. 57 => k = 0
      /\ pc \in 54 .. 57 => regs[5] = 0
      /\ pc \in 58 .. 66 => k \in 0 .. 7
      /\ pc \in 67 .. 69 => k \in 1 .. 8
      /\ pc \in {58, 68, 69} => regs[5] = Times(Seen(k, x), y)
      /\ pc \in {59, 60, 61} => regs[5] = Times(2 * Seen(k, x), y)
      /\ pc = 60 => cc = NZP(And(128, x))
      /\ pc = 61 => Top(x) = 1
      /\ pc \in {62, 63} => regs[5] = Times(2 * Seen(k, x) + Top(x), y)
      /\ pc = 63 => cc = NZP(k)
      /\ pc \in {64, 65} => k = 0
      /\ pc = 64 => regs[5] = Times(Top(x), y)
      /\ pc = 65 => regs[5] = Not(Times(Top(x), y))
      /\ pc = 66 => regs[5] = Times(WithTop(k, x), y)
      /\ pc = 67 => regs[5] = Times(WithTop(k - 1, x), y)
      /\ pc = 69 => cc = NZP(Plus(k, -8))
      /\ pc = 70 => regs[5] = Times(Signed8(x \div 256), y)
      /\ pc \in 71 .. 72 => hex = Times(Signed8(x \div 256), y)

LEMMA Counts ==
  /\ \A k \in 0 .. 7 : /\ Plus(k, 0) = k /\ Plus(k, 1) = k + 1
                       /\ NZP(k) = (IF k = 0 THEN 2 ELSE 1)
  /\ \A k \in 1 .. 8 : NZP(Plus(k, -8)) = (IF k = 8 THEN 2 ELSE 4)
<1>1. \A k \in 0 .. 7 : Plus(k, 0) = k /\ Plus(k, 1) = k + 1
  BY SMTT(30) DEF Plus
<1>2. \A k \in 0 .. 7 : NZP(k) = (IF k = 0 THEN 2 ELSE 1)
  BY DEF NZP
<1>3. \A k \in 1 .. 8 : Plus(k, -8) = (IF k = 8 THEN 0 ELSE k + 65528)
  BY SMTT(30) DEF Plus
<1>4. \A k \in 1 .. 8 : NZP(Plus(k, -8)) = (IF k = 8 THEN 2 ELSE 4)
  BY <1>3, SMT DEF NZP
<1> QED BY <1>1, <1>2, <1>4

LEMMA MultiplierStep ==
  ASSUME TestRun, Intact, InMultiplier, Instruction, Guided
  PROVE  LeavesData /\ InMultiplier'
<1> DEFINE k == regs[4]
           x == regs[1]
           y == regs[2]
<1>1. /\ Ready /\ regs \in [RegNames -> Word]
      /\ x \in Word /\ y \in Word /\ regs[5] \in Word /\ regs[4] \in Word
  BY Registers8 DEF Ready, Runs, Intact, CpuTypes
<1>2. 0 \in Word /\ 128 \in Word
  BY SMT DEF Word
<1>3. CASE pc \in 49 .. 57
  <2>1. CASE pc = 49
    BY <1>1, <2>1, MultiplierEffects, ClearKeeps DEF InMultiplier, Sets
  <2>2. CASE pc = 50
    BY <1>1, <2>2, MultiplierEffects, LinksKeep, Registers8 DEF InMultiplier, Links
  <2>3. CASE pc \in {51, 52, 53}
    <3>1. PICK d \in 3 .. 5, v \in Word : Sets(d, v)
      BY <1>1, <1>2, <2>3, MultiplierEffects DEF InMultiplier
    <3>2. LeavesData
      BY <2>3, <3>1, SetsKeep
    <3>3. InMultiplier'
      BY <1>1, <2>3, MultiplierEffects, Registers8 DEF InMultiplier, Sets
    <3> QED BY <3>2, <3>3
  <2>4. CASE pc \in {54, 56}
    BY <1>1, <2>4, MultiplierEffects, PausesKeep DEF InMultiplier, Pauses
  <2>5. CASE pc \in {55, 57}
    <3>1. PICK d \in 1 .. 2, v \in Word : Sets(d, v)
      BY <1>1, <2>5, MultiplierEffects
    <3>2. LeavesData
      BY <2>5, <3>1, SetsKeep
    <3>3. /\ pc' = pc + 1 /\ regs'[4] = 0 /\ regs'[3] = 128 /\ regs'[5] = 0
          /\ regs'[1] \in Word /\ regs'[2] \in Word
      BY <1>1, <2>5, <3>1, Registers8 DEF InMultiplier, Sets
    <3>4. Times(0, regs'[2]) = 0 /\ Seen(0, regs'[1]) = 0
      BY <3>3, TimesSteps, SeenEnds
    <3>5. InMultiplier'
      BY <2>5, <3>3, <3>4 DEF InMultiplier
    <3> QED BY <3>2, <3>5
  <2> QED BY <1>3, <2>1, <2>2, <2>3, <2>4, <2>5
<1>4. CASE pc \in 58 .. 63
  <2> DEFINE v == Seen(k, x)
  <2>1. k \in 0 .. 7 /\ v \in Int /\ Top(x) \in {0, 1} /\ regs[3] = 128
    BY <1>1, <1>4, SeenEnds DEF InMultiplier
  <2>2. /\ Times(2 * v, y) \in Word
        /\ Plus(Times(v, y), Times(v, y)) = Times(2 * v, y)
        /\ Plus(Times(2 * v, y), y) = Times(2 * v + 1, y)
        /\ Times(2 * v + 1, y) \in Word
    BY <1>1, <2>1, TimesSteps
  <2>3. /\ And(128, x) = 128 * Top(x) /\ And(128, x) \in Word
        /\ NZP(And(128, x)) = (IF Top(x) = 0 THEN 2 ELSE 1)
    <3>1. NZP(0) = 2 /\ NZP(128) = 1
      BY DEF NZP
    <3> QED BY <1>1, <1>2, <2>1, <3>1, Masked, AndType
  <2> HIDE DEF v
  <2>4. CASE pc = 58
    <3>1. Sets(5, Times(2 * v, y))
      BY <1>1, <2>2, <2>4, MultiplierEffects DEF InMultiplier, v
    <3>2. LeavesData
      BY <2>2, <2>4, <3>1, SetsKeep
    <3>3. InMultiplier'
      BY <1>1, <2>1, <2>4, <3>1, Registers8 DEF InMultiplier, Sets, v
    <3> QED BY <3>2, <3>3
  <2>5. CASE pc = 59
    <3>1. Sets(7, And(128, x))
      BY <1>1, <2>1, <2>5, MultiplierEffects
    <3>2. LeavesData
      BY <2>3, <2>5, <3>1, SetsKeep
    <3>3. InMultiplier'
      BY <1>1, <2>1, <2>5, <3>1, Registers8 DEF InMultiplier, Sets
    <3> QED BY <3>2, <3>3
  <2>6. CASE pc = 60
    <3>1. Goes(IF Top(x) = 0 THEN 62 ELSE 61)
      BY <1>1, <2>1, <2>3, <2>6, MultiplierEffects DEF InMultiplier
    <3>2. LeavesData
      BY <2>6, <3>1, GoesKeeps
    <3>3. regs[5] = Times(2 * v, y) /\ 2 * v + 0 = 2 * v
      BY <2>1, <2>6 DEF InMultiplier, v
    <3>4. InMultiplier'
      BY <2>1, <3>1, <3>3 DEF InMultiplier, Goes, v
    <3> QED BY <3>2, <3>4
  <2>7. CASE pc = 61
    <3>1. Top(x) = 1 /\ Sets(5, Times(2 * v + 1, y))
      BY <1>1, <2>2, <2>7, MultiplierEffects DEF InMultiplier, v
    <3>2. LeavesData
      BY <2>2, <2>7, <3>1, SetsKeep
    <3>3. InMultiplier'
      BY <1>1, <2>1, <2>7, <3>1, Registers8 DEF InMultiplier, Sets, v
    <3> QED BY <3>2, <3>3
  <2>8. CASE pc = 62
    <3>1. Sets(4, k)
      BY <1>1, <2>1, <2>8, MultiplierEffects, Counts
    <3>2. LeavesData
      BY <1>1, <2>8, <3>1, SetsKeep
    <3>3. InMultiplier'
      BY <1>1, <2>1, <2>8, <3>1, Registers8 DEF InMultiplier, Sets
    <3> QED BY <3>2, <3>3
  <2>9. CASE pc = 63
    <3>1. Goes(IF k = 0 THEN 64 ELSE 66)
      BY <1>1, <2>1, <2>9, MultiplierEffects, Counts DEF InMultiplier
    <3>2. LeavesData
      BY <2>9, <3>1, GoesKeeps
    <3>3. /\ regs[5] = Times(2 * v + Top(x), y)
          /\ k = 0 => 2 * v + Top(x) = Top(x)
          /\ k # 0 => WithTop(k, x) = 2 * v + Top(x)
      BY <1>1, <2>1, <2>9, SeenEnds DEF InMultiplier, WithTop, v
    <3>4. InMultiplier'
      BY <2>1, <3>1, <3>3 DEF InMultiplier, Goes
    <3> QED BY <3>2, <3>4
  <2> QED BY <1>4, <2>4, <2>5, <2>6, <2>7, <2>8, <2>9
<1>5. CASE pc \in 64 .. 67
  <2> DEFINE t == Top(x)
  <2>1. t \in {0, 1} /\ regs[3] = 128
    BY <1>1, <1>5, SeenEnds DEF InMultiplier
  <2>2. CASE pc = 64
    <3>1. Sets(5, Not(Times(t, y))) /\ Not(Times(t, y)) \in Word
      BY <1>1, <2>1, <2>2, MultiplierEffects, TimesSteps, WordOps DEF InMultiplier
    <3>2. LeavesData
      BY <2>2, <3>1, SetsKeep
    <3>3. InMultiplier'
      BY <1>1, <2>1, <2>2, <3>1, Registers8 DEF InMultiplier, Sets
    <3> QED BY <3>2, <3>3
  <2>3. CASE pc = 65
    <3>1. k = 0 /\ WithTop(k, x) = -t
      BY <2>3 DEF InMultiplier, WithTop
    <3>2. Plus(Not(Times(t, y)), 1) = Times(-t, y) /\ Times(-t, y) \in Word
      BY <1>1, <2>1, TimesSteps
    <3>3. Sets(5, Times(WithTop(k, x), y)) /\ Times(WithTop(k, x), y) \in Word
      BY <1>1, <2>3, <3>1, <3>2, MultiplierEffects DEF InMultiplier
    <3>4. LeavesData
      BY <2>3, <3>3, SetsKeep
    <3>5. InMultiplier'
      BY <1>1, <2>1, <2>3, <3>1, <3>3, Registers8 DEF InMultiplier, Sets
    <3> QED BY <3>4, <3>5
  <2>4. CASE pc = 66
    <3>1. k \in 0 .. 7 /\ Sets(4, k + 1) /\ k + 1 \in Word
      <4>1. k \in 0 .. 7 /\ Plus(k, 1) = k + 1
        BY <2>4, Counts DEF InMultiplier
      <4> QED BY <1>1, <2>4, <4>1, MultiplierEffects, WordOps
    <3>2. LeavesData
      BY <2>4, <3>1, SetsKeep
    <3>3. regs'[4] = k + 1 /\ regs'[4] - 1 = k
      BY <1>1, <3>1, Registers8 DEF Sets
    <3>4. InMultiplier'
      BY <1>1, <2>1, <2>4, <3>1, <3>3, Registers8 DEF InMultiplier, Sets
    <3> QED BY <3>2, <3>4
  <2>5. CASE pc = 67
    <3>1. Sets(1, Plus(x, x)) /\ Plus(x, x) \in Word
      <4>1. x \in Int
        BY <1>1, SMT DEF Word
      <4> QED BY <1>1, <2>5, <4>1, MultiplierEffects, WordOps
    <3>2. LeavesData
      BY <2>5, <3>1, SetsKeep
    <3>3. k \in 1 .. 8 /\ k - 1 \in 0 .. 7 /\ (k - 1) + 1 = k
      BY <2>5 DEF InMultiplier
    <3>4. Seen(k, Plus(x, x)) = WithTop(k - 1, x)
      BY <1>1, <3>3, SeenNext
    <3>5. InMultiplier'
      BY <1>1, <2>1, <2>5, <3>1, <3>3, <3>4, Registers8 DEF InMultiplier, Sets
    <3> QED BY <3>2, <3>5
  <2> QED BY <1>5, <2>2, <2>3, <2>4, <2>5
<1>6. CASE pc \in 68 .. 72
  <2>1. CASE pc = 68
    <3>1. Sets(7, Plus(k, -8)) /\ Plus(k, -8) \in Word /\ k \in 1 .. 8
      BY <1>1, <2>1, MultiplierEffects, WordOps DEF InMultiplier
    <3>2. LeavesData
      BY <2>1, <3>1, SetsKeep
    <3>3. InMultiplier'
      BY <1>1, <2>1, <3>1, Registers8 DEF InMultiplier, Sets
    <3> QED BY <3>2, <3>3
  <2>2. CASE pc = 69
    <3>1. k \in 1 .. 8 /\ cc = (IF k = 8 THEN 2 ELSE 4)
      BY <2>2, Counts DEF InMultiplier
    <3>2. Goes(IF k = 8 THEN 70 ELSE 58)
      BY <1>1, <2>2, <3>1, MultiplierEffects
    <3>3. LeavesData
      BY <2>2, <3>2, GoesKeeps
    <3>4. InMultiplier'
      BY <1>1, <2>2, <3>1, <3>2, SeenEnds DEF InMultiplier, Goes
    <3> QED BY <3>3, <3>4
  <2>3. CASE pc = 70
    BY <1>1, <2>3, MultiplierEffects, ShowsKeep DEF InMultiplier, Shows
  <2>4. CASE pc = 71
    BY <1>1, <2>4, MultiplierEffects, PausesKeep DEF InMultiplier, Pauses
  <2>5. CASE pc = 72
    BY <1>1, <2>5, MultiplierEffects, GoesKeeps DEF InMultiplier, Goes
  <2> QED BY <1>6, <2>1, <2>2, <2>3, <2>4, <2>5
<1> QED BY <1>3, <1>4, <1>5, <1>6 DEF InMultiplier

(***************************************************************************)
(* The sort program.  R6 holds the address of its data, R7 the address the *)
(* function at work returns to.                                            *)
(***************************************************************************)

InMenu ==
  /\ pc \in 90 .. 108
  /\ pc = 92 => regs[7] = 92
  /\ pc = 93 => regs[6] = 76
  /\ pc \in 94 .. 108 => regs[6] = 74

InEntry ==
  /\ pc \in 109 .. 118 /\ regs[6] = 74 /\ regs[7] = 100
  /\ pc \in 110 .. 115 => regs[1] \in 0 .. 15
  /\ pc \in 113 .. 114 => regs[2] \in SwitchWords
  /\ pc = 114 => regs[5] = 74 + regs[1]
  /\ pc \in 116 .. 117 => regs[1] \in 1 .. 16
  /\ pc = 117 => cc = NZP(Plus(regs[1], -16))

(* R1 counts up to zero: this many passes are left.                        *)
Left(r) == IF r = 0 THEN 0 ELSE 65536 - r

InSort ==
  /\ pc \in 119 .. 136 /\ regs[6] = 74 /\ regs[7] = 104
  /\ pc \in 120 .. 134 => Left(regs[1]) \in 1 .. 16
  /\ pc \in 121 .. 131 => regs[2] \in 1 .. 15
  /\ pc \in 122 .. 130 => regs[3] = 74 + regs[2]
  /\ pc \in 132 .. 133 => regs[2] \in 2 .. 16
  /\ pc = 133 => cc = NZP(Plus(regs[1], regs[2]))
  /\ pc = 135 => Left(regs[1]) \in 0 .. 15 /\ cc = NZP(regs[1])
  /\ pc = 136 => Left(regs[1]) = 0

InDisplay ==
  /\ pc \in 137 .. 154 /\ regs[6] = 74
  /\ pc \in 137 .. 139 => regs[7] = 108
  /\ pc \in 139 .. 141 => regs[4] = 108
  /\ pc = 140 => regs[7] = 140
  /\ pc \in 141 .. 154 => regs[5] = 140
  /\ pc \in 142 .. 154 => regs[7] = 108
  /\ pc \in 138 .. 144 => regs[1] = 0
  /\ pc \in 143 .. 149 => regs[3] = 55298 + 16 * regs[1]
  /\ pc = 144 => regs[2] = 8
  /\ pc \in 145 .. 154 => regs[2] = 16
  /\ pc \in 145 .. 151 => regs[1] \in 0 .. 15
  /\ pc \in 145 .. 150 /\ regs[1] > 0 => mem[148] = 55298 + 16 * regs[1]
  /\ pc = 146 => regs[4] = 74 + regs[1]
  /\ pc = 147 => regs[4] = mem[74 + regs[1]]
  /\ pc \in 148 .. 149 => hex = mem[74 + regs[1]]
  /\ pc \in 150 .. 151 => regs[3] = 55298 + 16 * (regs[1] + 1)
  /\ pc = 151 => mem[148] = 55298 + 16 * (regs[1] + 1)
  /\ pc \in 152 .. 153 => /\ regs[1] \in 1 .. 16
                          /\ regs[3] = 55298 + 16 * regs[1]
                          /\ mem[148] = 55298 + 16 * regs[1]
  /\ pc = 153 => cc = NZP(Plus(regs[1], -16))

LEMMA MenuStep ==
  ASSUME TestRun, Intact, InMenu, Instruction, Guided
  PROVE  LeavesData /\ pc' \notin 120 .. 136 /\ (InMenu \/ InEntry \/ InSort \/ InDisplay)'
<1>1. /\ Ready /\ regs \in [RegNames -> Word] /\ regs[1] \in Word
      /\ \A r \in RegNames : regs[r] \in Word
  BY Registers8 DEF Ready, Runs, Intact, CpuTypes
<1>2. CASE pc = 90
  BY <1>1, <1>2, MenuEffects, ClearKeeps DEF InMenu, Sets
<1>3. CASE pc = 91
  BY <1>1, <1>3, MenuEffects, LinksKeep, Registers8 DEF InMenu, Links
<1>4. CASE pc \in {92, 93}
  <2>1. /\ \A r \in Nat : r = 92 => Plus(r, -16) = 76
        /\ \A r \in Nat : r = 76 => Plus(r, -2) = 74
    BY SMTT(30) DEF Plus
  <2>2. 76 \in Word /\ 74 \in Word /\ 92 \in Nat /\ 76 \in Nat
    BY SMT DEF Word
  <2>3. (pc = 92 => Sets(6, 76)) /\ (pc = 93 => Sets(6, 74))
    BY <1>1, <1>4, <2>1, <2>2, MenuEffects DEF InMenu
  <2>4. LeavesData
    BY <1>4, <2>2, <2>3, SetsKeep
  <2>5. InMenu'
    BY <1>1, <1>4, <2>3, Registers8 DEF InMenu, Sets
  <2> QED BY <2>4, <2>5 DEF InMenu
<1>5. CASE pc = 94
  BY <1>1, <1>5, MenuEffects, PausesKeep DEF InMenu, Pauses
<1>6. CASE pc \in {95, 97, 101, 105}
  <2>1. PICK v \in Word : Sets(1, v)
    <3>1. Plus(regs[1], -1) \in Word
      BY <1>1, SMT DEF Plus, Word
    <3> QED BY <1>1, <1>6, <3>1, MenuEffects
  <2>2. LeavesData
    BY <1>6, <2>1, SetsKeep
  <2>3. InMenu'
    BY <1>1, <1>6, <2>1, Registers8 DEF InMenu, Sets
  <2> QED BY <2>2, <2>3 DEF InMenu
<1>7. CASE pc \in {96, 98, 100, 102, 104, 106, 108}
  <2>1. PICK a \in 94 .. 107 : Goes(a)
    BY <1>1, <1>7, MenuEffects
  <2>2. LeavesData
    BY <1>7, <2>1, GoesKeeps
  <2>3. InMenu'
    BY <1>7, <2>1 DEF InMenu, Goes
  <2> QED BY <2>2, <2>3 DEF InMenu
<1>8. CASE pc = 99
  <2>1. Links(109)
    BY <1>1, <1>8, MenuEffects
  <2>2. LeavesData
    BY <1>8, <2>1, LinksKeep
  <2>3. InEntry'
    BY <1>1, <1>8, <2>1, Registers8 DEF InMenu, InEntry, Links
  <2> QED BY <2>2, <2>3 DEF InEntry
<1>9. CASE pc = 103
  <2>1. Links(119)
    BY <1>1, <1>9, MenuEffects
  <2>2. LeavesData
    BY <1>9, <2>1, LinksKeep
  <2>3. InSort'
    BY <1>1, <1>9, <2>1, Registers8 DEF InMenu, InSort, Links
  <2> QED BY <2>1, <2>2, <2>3 DEF Links
<1>10. CASE pc = 107
  <2>1. Links(137)
    BY <1>1, <1>10, MenuEffects
  <2>2. LeavesData
    BY <1>10, <2>1, LinksKeep
  <2>3. InDisplay'
    BY <1>1, <1>10, <2>1, Registers8 DEF InMenu, InDisplay, Links
  <2> QED BY <2>2, <2>3 DEF InDisplay
<1> QED BY <1>2, <1>3, <1>4, <1>5, <1>6, <1>7, <1>8, <1>9, <1>10 DEF InMenu, InEntry, InDisplay

LEMMA SixteenCounts ==
  /\ \A i \in 0 .. 16 : i \in Word /\ Plus(74, i) = 74 + i
                         /\ (i < 16 => Plus(i, 1) = i + 1)
  /\ \A i \in 1 .. 16 : Plus(i, -16) = (IF i = 16 THEN 0 ELSE i + 65520)
  /\ \A i \in 1 .. 16 : NZP(Plus(i, -16)) = (IF i = 16 THEN 2 ELSE 4)
<1>1. \A i \in 0 .. 16 : i \in Word /\ Plus(74, i) = 74 + i /\ (i < 16 => Plus(i, 1) = i + 1)
  BY SMTT(30) DEF Plus, Word
<1>2. \A i \in 1 .. 16 : Plus(i, -16) = (IF i = 16 THEN 0 ELSE i + 65520)
  BY SMTT(30) DEF Plus
<1>3. \A i \in 1 .. 16 : NZP(Plus(i, -16)) = (IF i = 16 THEN 2 ELSE 4)
  BY <1>2, SMT DEF NZP
<1> QED BY <1>1, <1>2, <1>3

(* A datum is stored that was read from the switches.                      *)
Enters == \E a \in 74 .. 89, v \in SwitchWords : mem' = [mem EXCEPT ![a] = v]

LEMMA EntryStep ==
  ASSUME TestRun, Intact, InEntry, Instruction, Guided
  PROVE  /\ Intact' /\ (InEntry \/ InMenu)'
         /\ LeavesData \/ Enters
<1>1. /\ Ready /\ regs \in [RegNames -> Word] /\ regs[1] \in Word
      /\ \A r \in RegNames : regs[r] \in Word
  BY Registers8 DEF Ready, Runs, Intact, CpuTypes
<1>2. CASE pc = 109
  <2>1. Sets(1, 0) /\ 0 \in Word
    BY <1>1, <1>2, EntryEffects, SMT DEF Word
  <2>2. LeavesData
    BY <1>2, <2>1, SetsKeep
  <2>3. InEntry'
    BY <1>1, <1>2, <2>1, Registers8 DEF InEntry, Sets
  <2> QED BY <2>2, <2>3 DEF LeavesData
<1>3. CASE pc = 110
  BY <1>1, <1>3, EntryEffects, ShowsKeep DEF InEntry, Shows, LeavesData
<1>4. CASE pc = 111
  BY <1>1, <1>4, EntryEffects, PausesKeep DEF InEntry, Pauses, LeavesData
<1>5. CASE pc = 112
  <2>1. PICK v \in Word \cap SwitchWords : Sets(2, v)
    BY <1>1, <1>5, EntryEffects
  <2>2. LeavesData
    BY <1>5, <2>1, SetsKeep
  <2>3. InEntry'
    BY <1>1, <1>5, <2>1, Registers8 DEF InEntry, Sets
  <2> QED BY <2>2, <2>3 DEF LeavesData
<1>6. CASE pc = 113
  <2>1. regs[6] = 74 /\ regs[1] \in 0 .. 15 /\ Plus(74, regs[1]) = 74 + regs[1]
    BY <1>6, SixteenCounts DEF InEntry
  <2>2. Sets(5, 74 + regs[1]) /\ 74 + regs[1] \in Word
    BY <1>1, <1>6, <2>1, EntryEffects, SMT DEF Word
  <2>3. LeavesData
    BY <1>6, <2>2, SetsKeep
  <2>4. InEntry'
    BY <1>1, <1>6, <2>1, <2>2, Registers8 DEF InEntry, Sets
  <2> QED BY <2>3, <2>4 DEF LeavesData
<1>7. CASE pc = 114
  <2>1. regs[5] \in 74 .. 89
    BY <1>7 DEF InEntry
  <2>2. Stores(regs[5], regs[2])
    BY <1>1, <1>7, <2>1, EntryEffects
  <2>3. Intact'
    BY <1>1, <1>7, <2>1, <2>2, StoresKeep, Registers8
  <2>4. InEntry'
    BY <1>1, <1>7, <2>2 DEF InEntry, Stores
  <2>5. Enters
    <3>1. regs[2] \in SwitchWords /\ mem' = [mem EXCEPT ![regs[5]] = regs[2]]
      BY <1>7, <2>2 DEF InEntry, Stores
    <3> QED BY <2>1, <3>1, Zenon DEF Enters
  <2> QED BY <2>3, <2>4, <2>5
<1>8. CASE pc = 115
  <2>1. regs[1] \in 0 .. 15 /\ Sets(1, regs[1] + 1) /\ regs[1] + 1 \in Word
    BY <1>1, <1>8, EntryEffects, SixteenCounts DEF InEntry
  <2>2. LeavesData
    BY <1>8, <2>1, SetsKeep
  <2>3. InEntry'
    BY <1>1, <1>8, <2>1, Registers8 DEF InEntry, Sets
  <2> QED BY <2>2, <2>3 DEF LeavesData
<1>9. CASE pc = 116
  <2>1. regs[1] \in 1 .. 16 /\ Sets(3, Plus(regs[1], -16)) /\ Plus(regs[1], -16) \in Word
    BY <1>1, <1>9, EntryEffects, WordOps DEF InEntry
  <2>2. LeavesData
    BY <1>9, <2>1, SetsKeep
  <2>3. InEntry'
    BY <1>1, <1>9, <2>1, Registers8 DEF InEntry, Sets
  <2> QED BY <2>2, <2>3 DEF LeavesData
<1>10. CASE pc = 117
  <2>1. regs[1] \in 1 .. 16 /\ cc = (IF regs[1] = 16 THEN 2 ELSE 4)
    BY <1>10, SixteenCounts DEF InEntry
  <2>2. Goes(IF regs[1] = 16 THEN 118 ELSE 110)
    BY <1>1, <1>10, <2>1, EntryEffects
  <2>3. LeavesData
    BY <1>10, <2>2, GoesKeeps
  <2>4. InEntry'
    BY <1>10, <2>1, <2>2 DEF InEntry, Goes
  <2> QED BY <2>3, <2>4 DEF LeavesData
<1>11. CASE pc = 118
  <2>1. Goes(100)
    BY <1>1, <1>11, EntryEffects DEF InEntry
  <2>2. LeavesData
    BY <1>11, <2>1, GoesKeeps
  <2>3. InMenu'
    BY <1>11, <2>1 DEF InEntry, InMenu, Goes
  <2> QED BY <2>2, <2>3 DEF LeavesData
<1> QED BY <1>2, <1>3, <1>4, <1>5, <1>6, <1>7, <1>8, <1>9, <1>10, <1>11 DEF InEntry

LEMMA PassCounts ==
  /\ Left(Plus(0, -16)) = 16 /\ Plus(0, -16) \in Word /\ Plus(0, 1) = 1
  /\ \A r \in Word : Left(r) \in 1 .. 16 =>
        /\ Plus(r, 1) \in Word /\ Left(Plus(r, 1)) = Left(r) - 1
        /\ NZP(Plus(r, 1)) = (IF Left(r) = 1 THEN 2 ELSE 4)
        /\ \A i \in 1 .. 16 :
              NZP(Plus(r, i)) = (IF i < Left(r) THEN 4 ELSE IF i = Left(r) THEN 2 ELSE 1)
<1> DEFINE first == 65520
<1>1. \A r \in Int : r >= 0 /\ r <= 0 => Plus(r, -16) = first /\ Plus(r, 1) = 1
  BY SMTT(30) DEF Plus
<1>2. first \in Word /\ Left(first) = 16
  BY SMT DEF Word, Left
<1> HIDE DEF first
<1>4. Plus(0, -16) = first /\ Plus(0, 1) = 1
  <2>1. 0 \in Int /\ 0 >= 0 /\ 0 <= 0
    OBVIOUS
  <2> QED BY <1>1, <2>1, Zenon
<1>3. ASSUME NEW r \in Word, Left(r) \in 1 .. 16
      PROVE  /\ Plus(r, 1) \in Word /\ Left(Plus(r, 1)) = Left(r) - 1
             /\ NZP(Plus(r, 1)) = (IF Left(r) = 1 THEN 2 ELSE 4)
             /\ \A i \in 1 .. 16 :
                   NZP(Plus(r, i)) = (IF i < Left(r) THEN 4 ELSE IF i = Left(r) THEN 2 ELSE 1)
  <2> DEFINE k == Left(r)
  <2>1. r \in Int /\ r = 65536 - k /\ k \in 1 .. 16
    BY <1>3, SMT DEF Word, Left
  <2> HIDE DEF k
  <2>2. \A i \in 1 .. 16 : Plus(r, i) = IF i >= k THEN i - k ELSE 65536 + i - k
    BY <2>1, SMTT(30) DEF Plus
  <2>3. Plus(r, 1) = IF k = 1 THEN 0 ELSE 65537 - k
    BY <2>1, <2>2
  <2>4. Plus(r, 1) \in Word
    BY <2>1, WordOps
  <2>5. Left(Plus(r, 1)) = k - 1 /\ NZP(Plus(r, 1)) = (IF k = 1 THEN 2 ELSE 4)
    BY <2>1, <2>3, SMT DEF Left, NZP
  <2>6. \A i \in 1 .. 16 : NZP(Plus(r, i)) = (IF i < k THEN 4 ELSE IF i = k THEN 2 ELSE 1)
    BY <2>1, <2>2, SMT DEF NZP
  <2> QED BY <2>4, <2>5, <2>6 DEF k
<1> QED BY <1>2, <1>3, <1>4

LEMMA SortStep ==
  ASSUME TestRun, Intact, InSort, Instruction, Guided
  PROVE  /\ Intact' /\ (InSort \/ InMenu)'
         /\ pc \notin {129, 130} => LeavesData
<1>1. /\ Ready /\ regs \in [RegNames -> Word] /\ regs[0] = 0
      /\ \A r \in RegNames : regs[r] \in Word
  BY RegisterWords DEF Ready, Runs, Intact, CpuTypes
<1> USE Registers8
<1>2. CASE pc = 119
  <2>1. Sets(1, Plus(0, -16)) /\ Plus(0, -16) \in Word /\ Left(Plus(0, -16)) = 16
    BY <1>1, <1>2, SortEffects, PassCounts
  <2>2. LeavesData
    BY <1>2, <2>1, SetsKeep
  <2>3. InSort'
    BY <1>1, <1>2, <2>1 DEF InSort, Sets
  <2> QED BY <2>2, <2>3 DEF LeavesData
<1>3. CASE pc = 120
  <2>1. Sets(2, 1) /\ 1 \in Word
    BY <1>1, <1>3, SortEffects, PassCounts, SixteenCounts
  <2>2. LeavesData
    BY <1>3, <2>1, SetsKeep
  <2>3. InSort'
    BY <1>1, <1>3, <2>1 DEF InSort, Sets
  <2> QED BY <2>2, <2>3 DEF LeavesData
<1>4. CASE pc = 121
  <2>1. regs[2] \in 1 .. 15 /\ regs[6] = 74 /\ Plus(74, regs[2]) = 74 + regs[2]
    BY <1>4, SixteenCounts DEF InSort
  <2>2. Sets(3, 74 + regs[2]) /\ 74 + regs[2] \in Word
    BY <1>1, <1>4, <2>1, SortEffects, SMT DEF Word
  <2>3. LeavesData
    BY <1>4, <2>2, SetsKeep
  <2>4. InSort'
    BY <1>1, <1>4, <2>2 DEF InSort, Sets
  <2> QED BY <2>3, <2>4 DEF LeavesData
<1>5. CASE pc \in {122, 123, 124, 125, 126, 128}
  <2>1. regs[3] \in 75 .. 89 /\ regs[3] \in 0 .. 255 /\ regs[3] - 1 \in 0 .. 255
    BY <1>5 DEF InSort
  <2>2. /\ mem[regs[3]] \in Word /\ mem[regs[3] - 1] \in Word
        /\ Not(regs[5]) \in Word /\ Plus(regs[5], 1) \in Word /\ Plus(regs[4], regs[5]) \in Word
    <3>1. regs[5] \in Int /\ regs[4] \in Int
      BY <1>1, SMT DEF Word
    <3> QED BY <1>1, <2>1, <3>1, WordOps DEF Intact, CpuTypes
  <2>3. PICK d \in {4, 5}, v \in Word : Sets(d, v)
    BY <1>1, <1>5, <2>1, <2>2, SortEffects
  <2>4. LeavesData
    BY <1>5, <2>3, SetsKeep
  <2>5. InSort'
    BY <1>1, <1>5, <2>3 DEF InSort, Sets
  <2> QED BY <2>4, <2>5 DEF LeavesData
<1>6. CASE pc = 127
  <2>1. PICK a \in {128, 131} : Goes(a)
    BY <1>1, <1>6, SortEffects
  <2>2. LeavesData
    BY <1>6, <2>1, GoesKeeps
  <2>3. InSort'
    BY <1>6, <2>1 DEF InSort, Goes
  <2> QED BY <2>2, <2>3 DEF LeavesData
<1>7. CASE pc \in {129, 130}
  <2>1. regs[3] \in 75 .. 89
    BY <1>7 DEF InSort
  <2>2. PICK a \in 74 .. 89, v \in Word : Stores(a, v)
    BY <1>1, <1>7, <2>1, SortEffects
  <2>3. Intact'
    BY <1>7, <2>2, StoresKeep
  <2>4. InSort'
    BY <1>1, <1>7, <2>2 DEF InSort, Stores
  <2> QED BY <1>7, <2>3, <2>4
<1>8. CASE pc = 131
  <2>1. regs[2] \in 1 .. 15 /\ Sets(2, regs[2] + 1) /\ regs[2] + 1 \in Word
    BY <1>1, <1>8, SortEffects, SixteenCounts DEF InSort
  <2>2. LeavesData
    BY <1>8, <2>1, SetsKeep
  <2>3. InSort'
    BY <1>1, <1>8, <2>1 DEF InSort, Sets
  <2> QED BY <2>2, <2>3 DEF LeavesData
<1>9. CASE pc = 132
  <2>1. Sets(3, Plus(regs[1], regs[2])) /\ Plus(regs[1], regs[2]) \in Word
    <3>1. regs[1] \in Int /\ regs[2] \in Int
      BY <1>1, SMT DEF Word
    <3> QED BY <1>1, <1>9, <3>1, SortEffects, WordOps
  <2>2. LeavesData
    BY <1>9, <2>1, SetsKeep
  <2>3. InSort'
    BY <1>1, <1>9, <2>1 DEF InSort, Sets
  <2> QED BY <2>2, <2>3 DEF LeavesData
<1>10. CASE pc = 133
  <2>1. cc = 4 => regs[2] \in 1 .. 15
    <3>1. /\ Left(regs[1]) \in 1 .. 16 /\ regs[2] \in 2 .. 16
          /\ cc = (IF regs[2] < Left(regs[1]) THEN 4 ELSE IF regs[2] = Left(regs[1]) THEN 2 ELSE 1)
      BY <1>1, <1>10, PassCounts DEF InSort
    <3> QED BY <3>1
  <2>2. Goes(IF cc = 4 THEN 121 ELSE 134)
    BY <1>1, <1>10, SortEffects
  <2>3. LeavesData
    BY <1>10, <2>2, GoesKeeps
  <2>4. InSort'
    BY <1>10, <2>1, <2>2 DEF InSort, Goes
  <2> QED BY <2>3, <2>4 DEF LeavesData
<1>11. CASE pc = 134
  <2>1. /\ Left(regs[1]) \in 1 .. 16 /\ Plus(regs[1], 1) \in Word
        /\ Left(Plus(regs[1], 1)) = Left(regs[1]) - 1
    BY <1>1, <1>11, PassCounts DEF InSort
  <2>2. Sets(1, Plus(regs[1], 1))
    BY <1>1, <1>11, SortEffects
  <2>3. LeavesData
    BY <1>11, <2>1, <2>2, SetsKeep
  <2>4. InSort'
    BY <1>1, <1>11, <2>1, <2>2 DEF InSort, Sets
  <2> QED BY <2>3, <2>4 DEF LeavesData
<1>12. CASE pc = 135
  <2>1. Left(regs[1]) \in 0 .. 15 /\ (Left(regs[1]) = 0 <=> cc # 4)
    BY <1>1, <1>12, SMT DEF InSort, Left, NZP, Word
  <2>2. Goes(IF cc = 4 THEN 120 ELSE 136)
    BY <1>1, <1>12, SortEffects
  <2>3. LeavesData
    BY <1>12, <2>2, GoesKeeps
  <2>4. InSort'
    BY <1>12, <2>1, <2>2 DEF InSort, Goes
  <2> QED BY <2>3, <2>4 DEF LeavesData
<1>13. CASE pc = 136
  <2>1. Goes(104)
    BY <1>1, <1>13, SortEffects DEF InSort
  <2>2. LeavesData
    BY <1>13, <2>1, GoesKeeps
  <2>3. InMenu'
    BY <1>13, <2>1 DEF InSort, InMenu, Goes
  <2> QED BY <2>2, <2>3 DEF LeavesData
<1> QED BY <1>2, <1>3, <1>4, <1>5, <1>6, <1>7, <1>8, <1>9, <1>10, <1>11, <1>12, <1>13
        DEF InSort

LEMMA DisplayCounts ==
  ASSUME NEW i \in 0 .. 16
  PROVE  /\ 55298 + 16 * i \in PauseWords /\ 55298 + 16 * i \in Word
         /\ i < 16 => Plus(55298 + 16 * i, 16) = 55298 + 16 * (i + 1)
BY SMTT(30) DEF PauseWords, Word, Plus

LEMMA Links108 ==
  /\ Plus(108, 0) = 108 /\ Plus(140, 0) = 140 /\ Plus(0, 8) = 8 /\ Plus(8, 8) = 16
  /\ 108 \in Word /\ 140 \in Word /\ 8 \in Word /\ 16 \in Word /\ 55298 \in Word /\ 0 \in Word
BY SMT DEF Plus, Word

LEMMA DisplayStep ==
  ASSUME TestRun, Intact, InDisplay, Instruction, Guided
  PROVE  LeavesData /\ (InDisplay \/ InMenu)'
<1> USE Registers8
<1>1. /\ Ready /\ regs \in [RegNames -> Word] /\ regs[0] = 0
      /\ \A r \in RegNames : regs[r] \in Word
  BY RegisterWords DEF Ready, Runs, Intact, CpuTypes
<1>2. CASE pc \in {137, 138, 140, 141, 142, 143, 144}
  <2>1. /\ pc = 137 => Sets(1, 0)
        /\ pc = 138 => Sets(4, 108)
        /\ pc = 140 => Sets(5, 140)
        /\ pc = 141 => Sets(7, 108)
        /\ pc = 142 => Sets(3, 55298)
        /\ pc = 143 => Sets(2, 8)
        /\ pc = 144 => Sets(2, 16)
    BY <1>1, <1>2, DisplayEffects, Links108 DEF InDisplay
  <2>2. PICK d \in 1 .. 7, v \in Word : Sets(d, v)
    BY <1>2, <2>1, Links108
  <2>3. LeavesData
    BY <1>2, <2>2, SetsKeep
  <2>4. InDisplay'
    BY <1>1, <1>2, <2>1 DEF InDisplay, Sets
  <2> QED BY <2>3, <2>4
<1>3. CASE pc = 139
  <2>1. Links(140)
    BY <1>1, <1>3, DisplayEffects
  <2>2. LeavesData
    BY <1>3, <2>1, LinksKeep
  <2>3. InDisplay'
    BY <1>1, <1>3, <2>1 DEF InDisplay, Links
  <2> QED BY <2>2, <2>3
<1>4. CASE pc = 145
  <2>1. regs[1] \in 0 .. 15 /\ regs[6] = 74 /\ Plus(74, regs[1]) = 74 + regs[1]
    BY <1>4, SixteenCounts DEF InDisplay
  <2>2. Sets(4, 74 + regs[1]) /\ 74 + regs[1] \in Word
    BY <1>1, <1>4, <2>1, DisplayEffects, SMT DEF Word
  <2>3. LeavesData
    BY <1>4, <2>2, SetsKeep
  <2>4. InDisplay'
    BY <1>1, <1>4, <2>2 DEF InDisplay, Sets
  <2> QED BY <2>3, <2>4
<1>5. CASE pc = 146
  <2>1. regs[4] \in 74 .. 89 /\ regs[4] = 74 + regs[1]
    BY <1>5 DEF InDisplay
  <2>2. mem[regs[4]] \in Word
    BY <2>1 DEF Intact, CpuTypes
  <2>3. Sets(4, mem[regs[4]])
    BY <1>1, <1>5, <2>1, DisplayEffects
  <2>4. LeavesData
    BY <1>5, <2>2, <2>3, SetsKeep
  <2>5. InDisplay'
    BY <1>1, <1>5, <2>1, <2>3 DEF InDisplay, Sets
  <2> QED BY <2>4, <2>5
<1>6. CASE pc = 147
  <2>1. Shows(regs[4]) /\ regs[4] \in Word
    BY <1>1, <1>6, DisplayEffects
  <2>2. LeavesData
    BY <1>6, <2>1, ShowsKeep
  <2>3. mem \in [0 .. 255 -> Word]
    BY DEF Intact, CpuTypes
  <2>4. InDisplay'
    BY <1>1, <1>6, <2>1, <2>3 DEF InDisplay, Shows
  <2> QED BY <2>2, <2>4
<1>7. CASE pc = 148
  <2>1. Pauses
    BY <1>1, <1>7, DisplayEffects
  <2>2. LeavesData
    BY <1>7, <2>1, PausesKeep
  <2>3. InDisplay'
    BY <1>1, <1>7, <2>1 DEF InDisplay, Pauses
  <2> QED BY <2>2, <2>3
<1>8. CASE pc = 149
  <2>1. /\ regs[1] \in 0 .. 15 /\ regs[2] = 16 /\ regs[3] = 55298 + 16 * regs[1]
    BY <1>8 DEF InDisplay
  <2>2. /\ Plus(55298 + 16 * regs[1], 16) = 55298 + 16 * (regs[1] + 1)
        /\ 55298 + 16 * (regs[1] + 1) \in Word
    BY <2>1, DisplayCounts
  <2>3. Sets(3, 55298 + 16 * (regs[1] + 1))
    BY <1>1, <1>8, <2>1, <2>2, DisplayEffects
  <2>4. LeavesData
    BY <1>8, <2>2, <2>3, SetsKeep
  <2>5. InDisplay'
    BY <1>1, <1>8, <2>3 DEF InDisplay, Sets
  <2> QED BY <2>4, <2>5
<1>9. CASE pc = 150
  <2>1. /\ regs[1] \in 0 .. 15 /\ regs[5] = 140 /\ regs[3] = 55298 + 16 * (regs[1] + 1)
    BY <1>9 DEF InDisplay
  <2>2. Stores(148, regs[3]) /\ regs[3] \in PauseWords
    BY <1>1, <1>9, <2>1, DisplayEffects, DisplayCounts
  <2>3. LeavesData
    BY <1>9, <2>2, StoresKeep
  <2>4. mem \in [0 .. 255 -> Word]
    BY DEF Intact, CpuTypes
  <2>5. InDisplay'
    BY <1>1, <1>9, <2>2, <2>4 DEF InDisplay, Stores
  <2> QED BY <2>3, <2>5
<1>10. CASE pc = 151
  <2>1. regs[1] \in 0 .. 15 /\ Sets(1, regs[1] + 1) /\ regs[1] + 1 \in Word
    BY <1>1, <1>10, DisplayEffects, SixteenCounts DEF InDisplay
  <2>2. LeavesData
    BY <1>10, <2>1, SetsKeep
  <2>3. InDisplay'
    BY <1>1, <1>10, <2>1 DEF InDisplay, Sets
  <2> QED BY <2>2, <2>3
<1>11. CASE pc = 152
  <2>1. regs[1] \in 1 .. 16 /\ Sets(4, Plus(regs[1], -16)) /\ Plus(regs[1], -16) \in Word
    BY <1>1, <1>11, DisplayEffects, WordOps DEF InDisplay
  <2>2. LeavesData
    BY <1>11, <2>1, SetsKeep
  <2>3. InDisplay'
    BY <1>1, <1>11, <2>1 DEF InDisplay, Sets
  <2> QED BY <2>2, <2>3
<1>12. CASE pc = 153
  <2>1. regs[1] \in 1 .. 16 /\ cc = (IF regs[1] = 16 THEN 2 ELSE 4)
    BY <1>12, SixteenCounts DEF InDisplay
  <2>2. Goes(IF regs[1] = 16 THEN 154 ELSE 145)
    BY <1>1, <1>12, <2>1, DisplayEffects
  <2>3. LeavesData
    BY <1>12, <2>2, GoesKeeps
  <2>4. InDisplay'
    BY <1>12, <2>1, <2>2 DEF InDisplay, Goes
  <2> QED BY <2>3, <2>4
<1>13. CASE pc = 154
  <2>1. Goes(108)
    BY <1>1, <1>13, DisplayEffects DEF InDisplay
  <2>2. LeavesData
    BY <1>13, <2>1, GoesKeeps
  <2>3. InMenu'
    BY <1>13, <2>1 DEF InDisplay, InMenu, Goes
  <2> QED BY <2>2, <2>3
<1> QED BY <1>2, <1>3, <1>4, <1>5, <1>6, <1>7, <1>8, <1>9, <1>10, <1>11, <1>12, <1>13
        DEF InDisplay

(***************************************************************************)
(* The inductive invariant.                                                *)
(***************************************************************************)

Somewhere ==
  \/ InBoot \/ InIOTests \/ InXor \/ InRunOnce \/ InMultiplier
  \/ InMenu \/ InEntry \/ InSort \/ InDisplay \/ InAutoCount

PrgInv == Intact /\ Somewhere

LEMMA BootStep ==
  ASSUME TestRun, Intact, InBoot, Instruction, Guided
  PROVE  LeavesData /\ pc' \notin 120 .. 136 /\ Somewhere'
<1>1. Ready
  BY DEF Ready, Runs, Intact
<1>2. CASE pc \in {0, 256}
  <2>1. Sets(0, 0)
    BY <1>1, <1>2, BootEffects
  <2>2. LeavesData
    BY <1>2, <2>1, ClearKeeps
  <2>3. InBoot'
    BY <1>2, <2>1 DEF InBoot, Sets
  <2> QED BY <2>2, <2>3 DEF Somewhere, InBoot
<1>3. CASE pc \in {1, 257}
  <2>1. PICK v \in Word \cap ProgramStarts : Sets(1, v)
    BY <1>1, <1>3, BootEffects
  <2>2. LeavesData
    BY <1>3, <2>1, SetsKeep
  <2>3. regs \in [RegNames -> Word]
    BY DEF Intact, CpuTypes
  <2>4. InBoot'
    BY <1>3, <2>1, <2>3, Registers8 DEF InBoot, Sets
  <2> QED BY <2>2, <2>4 DEF Somewhere, InBoot
<1>4. CASE pc \in {2, 258}
  <2>1. regs[1] \in ProgramStarts /\ Goes(regs[1])
    BY <1>1, <1>4, BootEffects DEF InBoot
  <2>2. LeavesData
    BY <1>4, <2>1, GoesKeeps DEF ProgramStarts
  <2>3. /\ pc' \in {3, 6, 20, 42, 49, 90, 156, 173} /\ mem' = mem
    BY <2>1 DEF ProgramStarts, Goes
  <2>4. pc' \in {3, 6} => InIOTests'
    BY DEF InIOTests
  <2>5. pc' = 20 => InXor'
    BY DEF InXor
  <2>6. pc' = 42 => InRunOnce'
    BY DEF InRunOnce
  <2>7. pc' = 49 => InMultiplier'
    BY DEF InMultiplier
  <2>8. pc' = 90 => InMenu'
    BY DEF InMenu
  <2>9. pc' = 156 => InAutoCount'
    BY DEF InAutoCount
  <2>10. pc' = 173 => InBoot'
    BY <2>3 DEF InBoot
  <2> QED BY <2>2, <2>3, <2>4, <2>5, <2>6, <2>7, <2>8, <2>9, <2>10 DEF Somewhere
<1>5. CASE pc \in 173 .. 255
  <2>1. Goes(pc + 1)
    BY <1>1, <1>5, BootEffects DEF InBoot
  <2>2. LeavesData
    BY <1>5, <2>1, GoesKeeps
  <2>3. InBoot'
    BY <1>5, <2>1 DEF InBoot, Goes
  <2> QED BY <2>2, <2>3 DEF Somewhere, InBoot
<1> QED BY <1>2, <1>3, <1>4, <1>5 DEF InBoot

(* The builders make words, and so does the loader.                        *)
LEMMA BuiltWords ==
  /\ \A d, r, t \in RegNames : /\ opAND(d, r, t) \in Word /\ opADD(d, r, t) \in Word
                               /\ opNOT(d, r) \in Word
                               /\ opCLR(d) \in Word /\ opJMP(d) \in Word
  /\ \A d, r \in RegNames, off \in Imm5s : opADDi(d, r, off) \in Word
  /\ \A d, r \in RegNames, off \in Off6s : opLDR(d, r, off) \in Word /\ opSTR(d, r, off) \in Word
  /\ \A c \in RegNames, off \in Off9s : opBR(c, off) \in Word
  /\ \A off \in Off11s : opJSR(off) \in Word
  /\ \A l \in 0 .. 4095 : opPSE(l) \in Word
<1>1. \A op \in Opcodes, d, r \in RegNames, low \in Lows : Word4(op, d, r, low) \in Word
  BY SMT DEF Opcodes, RegNames, Lows, Word4, Word
<1>2. \A c \in RegNames, off \in Off9s : opBR(c, off) \in Word
  <2>1. \A off \in Int : off % 512 \in 0 .. 511
    OBVIOUS
  <2>2. \A c \in RegNames, l \in 0 .. 511 : Word4(0, c, 0, l) \in Word
    BY SMT DEF RegNames, Word4, Word
  <2>3. Off9s \subseteq Int
    BY DEF Off9s
  <2> QED BY <2>1, <2>2, <2>3 DEF opBR
<1>3. \A off \in Off11s : opJSR(off) \in Word
  BY SMT DEF opJSR, Off11s, Word
<1>4. \A l \in 0 .. 4095 : opPSE(l) \in Word
  BY SMT DEF opPSE, Word
<1>5. \A d, r \in RegNames, off \in Imm5s : opADDi(d, r, off) \in Word
  BY <1>1, Codes, LowParts DEF opADDi
<1>6. \A d, r \in RegNames, off \in Off6s : opLDR(d, r, off) \in Word /\ opSTR(d, r, off) \in Word
  BY <1>1, Codes, LowParts DEF opLDR, opSTR
<1>7. \A d, r, t \in RegNames : /\ opAND(d, r, t) \in Word /\ opADD(d, r, t) \in Word
                               /\ opNOT(d, r) \in Word
                               /\ opCLR(d) \in Word /\ opJMP(d) \in Word
  BY <1>1, Codes, LowParts, Registers8 DEF opAND, opADD, opNOT, opCLR, opJMP
<1> QED BY <1>2, <1>3, <1>4, <1>5, <1>6, <1>7

Words(s, m) == \A i \in 1 .. m : s[i] \in Word

LEMMA ProgramWords ==
  /\ Words(Boot, 3) /\ Words(IOTest1, 3) /\ Words(IOTest2, 5) /\ Words(IOTest3, 9)
  /\ Words(XorTest, 22) /\ Words(RunOnce, 7) /\ Words(MultiplierTest, 25)
  /\ Words(SortData, 16) /\ Words(SortMenu, 19) /\ Words(EntryFunction, 10)
  /\ Words(SortFunction, 18) /\ Words(DisplayFunction, 19) /\ Words(AutoCount, 19)
<1> USE BuiltWords, Registers8, Offsets DEF Words, opINC, opDEC, opRET, n, nz, nzp, np, p, z
<1>1. 0 \in Word /\ 128 \in Word /\ 65535 \in Word /\ 5 \in Word
  BY SMT DEF Word
<1>2. 3 \in Off6s /\ -6 \in Off9s
  BY DEF Off6s, Off9s
<1>3. Words(Boot, 3) /\ Words(IOTest1, 3) /\ Words(IOTest2, 5)
  BY DEF Boot, IOTest1, IOTest2
<1>4. Words(IOTest3, 9)
  BY <1>2 DEF IOTest3
<1>5. Words(XorTest, 22)
  BY <1>1 DEF XorTest
<1>6. Words(RunOnce, 7) /\ Words(EntryFunction, 10)
  BY DEF RunOnce, EntryFunction
<1>7. Words(MultiplierTest, 25)
  BY <1>1 DEF MultiplierTest
<1>8. Words(SortData, 16)
  BY SMT DEF SortData, Word
<1>9. Words(SortMenu, 19)
  BY DEF SortMenu
<1>10. Words(SortFunction, 18)
  BY DEF SortFunction
<1>11. Words(DisplayFunction, 19)
  BY DEF DisplayFunction
<1>12. Words(AutoCount, 19)
  BY <1>1 DEF AutoCount
<1> HIDE BuiltWords, Registers8, Offsets DEF Words, opINC, opDEC, opRET, n, nz, nzp, np, p, z
<1> QED BY <1>3, <1>4, <1>5, <1>6, <1>7, <1>8, <1>9, <1>10, <1>11, <1>12, Zenon

Addresses == 0 .. 255

Covered(first, m) == \A a \in first .. first + m - 1 : TestPrograms[a] \in Word

LEMMA LaidWords ==
  \A s : \A first, m \in Addresses : Lies(s, first, m) /\ Words(s, m) => Covered(first, m)
<1> SUFFICES ASSUME NEW s, NEW first \in Addresses, NEW m \in Addresses,
                    Lies(s, first, m), Words(s, m), NEW a \in first .. first + m - 1
             PROVE  TestPrograms[a] \in Word
  BY DEF Covered
<1>1. a - first + 1 \in 1 .. m /\ first + (a - first + 1) - 1 = a
  BY DEF Addresses
<1> QED BY <1>1 DEF Lies, Words

LEMMA TestProgramsWords == TestPrograms \in [0 .. 255 -> Word]
<1>1. {0, 3, 5, 6, 7, 9, 10, 11, 16, 18, 19, 20, 22, 25, 42, 49, 74, 90, 109, 119, 137, 156}
        \subseteq Addresses
  BY DEF Addresses
<1>2. /\ Covered(0, 3) /\ Covered(3, 3) /\ Covered(6, 5) /\ Covered(11, 9)
      /\ Covered(20, 22) /\ Covered(42, 7) /\ Covered(49, 25) /\ Covered(74, 16)
      /\ Covered(90, 19) /\ Covered(109, 10) /\ Covered(119, 18) /\ Covered(137, 19)
      /\ Covered(156, 19)
  <2>1. Covered(0, 3)
    BY <1>1, Layout, ProgramWords, LaidWords
  <2>2. Covered(3, 3)
    BY <1>1, Layout, ProgramWords, LaidWords
  <2>3. Covered(6, 5)
    BY <1>1, Layout, ProgramWords, LaidWords
  <2>4. Covered(11, 9)
    BY <1>1, Layout, ProgramWords, LaidWords
  <2>5. Covered(20, 22)
    BY <1>1, Layout, ProgramWords, LaidWords
  <2>6. Covered(42, 7)
    BY <1>1, Layout, ProgramWords, LaidWords
  <2>7. Covered(49, 25)
    BY <1>1, Layout, ProgramWords, LaidWords
  <2>8. Covered(74, 16)
    BY <1>1, Layout, ProgramWords, LaidWords
  <2>9. Covered(90, 19)
    BY <1>1, Layout, ProgramWords, LaidWords
  <2>10. Covered(109, 10)
    BY <1>1, Layout, ProgramWords, LaidWords
  <2>11. Covered(119, 18)
    BY <1>1, Layout, ProgramWords, LaidWords
  <2>12. Covered(137, 19)
    BY <1>1, Layout, ProgramWords, LaidWords
  <2>13. Covered(156, 19)
    BY <1>1, Layout, ProgramWords, LaidWords
  <2> QED BY <2>1, <2>2, <2>3, <2>4, <2>5, <2>6, <2>7, <2>8, <2>9, <2>10, <2>11, <2>12, <2>13
<1>3. \A a \in 0 .. 89 : TestPrograms[a] \in Word
  BY <1>2 DEF Covered
<1>4. \A a \in 90 .. 174 : TestPrograms[a] \in Word
  BY <1>2 DEF Covered
<1>5. \A a \in 175 .. 255 : TestPrograms[a] \in Word
  BY Layout, SMT DEF Word
<1> DEFINE words == Boot \o IOTest1 \o IOTest2 \o IOTest3 \o XorTest \o RunOnce
                    \o MultiplierTest \o SortData
                    \o SortMenu \o EntryFunction \o SortFunction \o DisplayFunction
                    \o AutoCount
<1>6. TestPrograms = [a \in 0 .. 255 |-> IF a < Len(words) THEN words[a + 1] ELSE 0]
  BY DEF TestPrograms
<1> HIDE DEF words
<1>7. TestPrograms = [a \in 0 .. 255 |-> TestPrograms[a]]
  BY <1>6
<1> QED BY <1>3, <1>4, <1>5, <1>7

LEMMA PrgInvInit == TestRun /\ ProgramInit => PrgInv
<1> SUFFICES ASSUME TestRun, ProgramInit
             PROVE  PrgInv
  OBVIOUS
<1>1. 0 \in Word
  BY SMT DEF Word
<1>2. TestPrograms \in [0 .. 255 -> Word]
  BY TestProgramsWords
<1>3. /\ TestPrograms[255] = 0
      /\ TestPrograms[148] \in PauseWords
  <2>1. \A i \in 1 .. 19 : TestPrograms[137 + i - 1] = DisplayFunction[i]
    BY Layout DEF Lies
  <2>2. TestPrograms[148] = DisplayFunction[12]
    BY <2>1
  <2>3. DisplayFunction[12] = 55298
    BY DEF DisplayFunction, opPSE
  <2> QED BY <2>2, <2>3, Layout, SMT DEF PauseWords
<1>4. CpuTypes
  BY <1>1, <1>2, Registers8 DEF CpuTypes, ProgramInit, TestRun, CCs
<1>5. CodeKept
  BY <1>3 DEF CodeKept, ProgramInit, TestRun
<1>6. InBoot
  BY <1>3 DEF InBoot, ProgramInit, TestRun
<1> QED BY <1>4, <1>5, <1>6 DEF PrgInv, Intact, Somewhere, ProgramInit

LEMMA InstructionStep ==
  ASSUME TestRun, PrgInv, Instruction, Guided
  PROVE  /\ PrgInv'
         /\ InSort \/ (pc' \notin 120 .. 136 /\ (LeavesData \/ Enters))
<1>1. Intact
  BY DEF PrgInv
<1>2. CASE InBoot
  BY <1>1, <1>2, BootStep DEF PrgInv, LeavesData
<1>3. CASE InIOTests
  BY <1>1, <1>3, IOTestsStep DEF PrgInv, LeavesData, Somewhere, InIOTests
<1>4. CASE InXor
  BY <1>1, <1>4, XorStep DEF PrgInv, LeavesData, Somewhere, InXor
<1>5. CASE InRunOnce
  BY <1>1, <1>5, RunOnceStep DEF PrgInv, LeavesData, Somewhere, InRunOnce
<1>6. CASE InMultiplier
  BY <1>1, <1>6, MultiplierStep DEF PrgInv, LeavesData, Somewhere, InMultiplier
<1>7. CASE InMenu
  BY <1>1, <1>7, MenuStep DEF PrgInv, LeavesData, Somewhere
<1>8. CASE InEntry
  BY <1>1, <1>8, EntryStep DEF PrgInv, Somewhere, InEntry, InMenu
<1>9. CASE InSort
  BY <1>1, <1>9, SortStep DEF PrgInv, Somewhere
<1>10. CASE InDisplay
  BY <1>1, <1>10, DisplayStep DEF PrgInv, LeavesData, Somewhere, InDisplay, InMenu
<1>11. CASE InAutoCount
  BY <1>1, <1>11, AutoCountStep DEF PrgInv, LeavesData, Somewhere, InAutoCount
<1> QED BY <1>2, <1>3, <1>4, <1>5, <1>6, <1>7, <1>8, <1>9, <1>10, <1>11 DEF PrgInv, Somewhere

(* Only an instruction changes what the programs work on.                  *)
LEMMA NotAnInstruction ==
  [ProgramNext]_progVars =>
     (Instruction /\ Guided /\ Noted) \/ UNCHANGED <<pc, regs, cc, mem, hex, given>>
BY DEF ProgramNext, Start, Resume, isaVars, progVars

LEMMA PrgInvStep == TestRun /\ PrgInv /\ [ProgramNext]_progVars => PrgInv'
<1> SUFFICES ASSUME TestRun, PrgInv, [ProgramNext]_progVars
             PROVE  PrgInv'
  OBVIOUS
<1>1. CASE Instruction /\ Guided /\ Noted
  BY <1>1, InstructionStep
<1>2. CASE UNCHANGED <<pc, regs, cc, mem, hex, given>>
  <2>1. Intact'
    BY <1>2 DEF PrgInv, Intact, CpuTypes, CodeKept
  <2>2. Somewhere'
    BY <1>2 DEF PrgInv, Somewhere, InBoot, InIOTests, InXor, InRunOnce, InMultiplier, InMenu,
                InEntry, InSort, InDisplay, InAutoCount
  <2> QED BY <2>1, <2>2 DEF PrgInv
<1> QED BY <1>1, <1>2, NotAnInstruction

LEMMA PrgInvAlways ==
  ASSUME TestRun
  PROVE  ProgramSpec => []PrgInv
<1>1. ProgramInit => PrgInv
  BY PrgInvInit
<1>2. PrgInv /\ [ProgramNext]_progVars => PrgInv'
  BY PrgInvStep
<1> QED BY <1>1, <1>2, PTL DEF ProgramSpec

LEMMA ShownByInv == PrgInv => ResultsShown
<1> SUFFICES ASSUME PrgInv
             PROVE  ResultsShown
  OBVIOUS
<1>1. ASSUME pc = 35
      PROVE  hex = ExOr(regs[1], regs[2])
  BY <1>1 DEF PrgInv, Somewhere, InBoot, InIOTests, InXor, InRunOnce, InMultiplier, InMenu,
              InEntry, InSort, InDisplay, InAutoCount
<1>2. ASSUME pc = 72
      PROVE  hex = Times(Signed8(regs[1] \div 256), regs[2])
  BY <1>2 DEF PrgInv, Somewhere, InBoot, InIOTests, InXor, InRunOnce, InMultiplier, InMenu,
              InEntry, InSort, InDisplay, InAutoCount
<1>3. regs[1] \in Word /\ regs[2] \in Word
  BY Registers8 DEF PrgInv, Intact, CpuTypes
<1>4. PausedAt(34) => \A w \in Powers : Bit(hex, w) = (Bit(regs[1], w) + Bit(regs[2], w)) % 2
  BY <1>1, <1>3, ExOrBits DEF PausedAt
<1>5. PausedAt(71) => hex = (Signed8(regs[1] \div 256) * regs[2]) % 65536
  BY <1>2 DEF PausedAt, Times
<1> QED BY <1>4, <1>5 DEF ResultsShown

LEMMA DatumByInv == PrgInv => DisplayShowsDatum
<1> SUFFICES ASSUME PrgInv, PausedAt(148)
             PROVE  /\ hex = mem[74 + regs[1]]
                    /\ regs[1] > 0 => mem[148] = mem[155] + 16 * regs[1]
  BY DEF DisplayShowsDatum
<1>1. pc = 149
  BY DEF PausedAt
<1>2. InDisplay
  BY <1>1 DEF PrgInv, Somewhere, InBoot, InIOTests, InXor, InRunOnce, InMultiplier, InMenu,
              InEntry, InSort, InDisplay, InAutoCount
<1>3. mem[155] = 55298
  <2>1. \A i \in 1 .. 19 : TestPrograms[137 + i - 1] = DisplayFunction[i]
    BY Layout DEF Lies
  <2>2. TestPrograms[155] = DisplayFunction[19]
    BY <2>1
  <2> QED BY <2>2 DEF PrgInv, Intact, CodeKept, DisplayFunction, opPSE
<1> QED BY <1>1, <1>2, <1>3 DEF InDisplay

(***************************************************************************)
(* The sort.                                                               *)
(***************************************************************************)

(* The data, the two that are being exchanged as if they were already.     *)
Data == [a \in 74 .. 89 |-> IF pc = 130 /\ a = regs[3] THEN regs[4] ELSE mem[a]]

(* The data are numbers of ten bits, which their differences keep apart.   *)
Fits(d) == \A a \in 74 .. 89 : d[a] \in SwitchWords

(* Each address has a datum of the other's, no two the same one.           *)
Pairs(f, h) ==
  \A a \in DataAddresses : /\ f[a] \in DataAddresses /\ h[a] \in DataAddresses
                           /\ h[f[a]] = a /\ f[h[a]] = a

Reordered(d, g) == \E f, h : Pairs(f, h) /\ \A a \in DataAddresses : d[a] = g[f[a]]

(* From an address on, no datum is less than one in front of it.           *)
Sorted(d, from) == \A a, b \in 74 .. 89 : a < b /\ b >= from => d[a] <= d[b]

Largest(d, b) == \A a \in 74 .. 89 : a < b => d[a] <= d[b]

Sorting ==
  LET l == Left(regs[1])
      b == 74 + regs[2]
  IN  /\ pc \in 120 .. 133 \cup 135 .. 136 => Sorted(Data, 74 + l)
      /\ pc = 134 => Sorted(Data, 73 + l)
      /\ pc \in 121 .. 129 \cup 132 .. 133 => Largest(Data, b - 1)
      /\ pc \in 130 .. 131 => Largest(Data, b)
      /\ pc \in 121 .. 127 \cup {131} => regs[2] < l \/ (l = 1 /\ regs[2] = 1)
      /\ pc \in 128 .. 130 => regs[2] < l
      /\ pc \in 132 .. 133 => regs[2] <= l \/ (l = 1 /\ regs[2] = 2)
      /\ pc \in 123 .. 129 => regs[4] = Data[b - 1]
      /\ pc = 124 => regs[5] = Data[b]
      /\ pc = 125 => regs[5] = Not(Data[b])
      /\ pc = 126 => regs[5] = Plus(Not(Data[b]), 1)
      /\ pc = 127 => cc = NZP(Plus(Data[b - 1], Plus(Not(Data[b]), 1)))
      /\ pc \in 128 .. 129 => Data[b] < Data[b - 1]
      /\ pc = 129 => regs[5] = Data[b]

LEMMA DataWords == \A i \in 1 .. 16 : SortData[i] \in SwitchWords
BY DEF SortData, SwitchWords

Exchanged(d, b) ==
  [a \in 74 .. 89 |-> IF a = b THEN d[b - 1] ELSE IF a = b - 1 THEN d[b] ELSE d[a]]

LEMMA DataOrder ==
  /\ \A x, y \in SwitchWords : ~(x <= y) => y < x
  /\ \A x, y \in SwitchWords : y < x => y <= x /\ ~(x <= y)
  /\ \A x, y, w \in SwitchWords : x <= y /\ y <= w => x <= w
  /\ \A x \in SwitchWords : x <= x
<1>1. \A x, y \in SwitchWords : ~(x <= y) => y < x
  BY DEF SwitchWords
<1>2. \A x, y \in SwitchWords : y < x => y <= x /\ ~(x <= y)
  BY DEF SwitchWords
<1>3. \A x, y, w \in SwitchWords : x <= y /\ y <= w => x <= w
  BY DEF SwitchWords
<1>4. \A x \in SwitchWords : x <= x
  BY DEF SwitchWords
<1> QED BY <1>1, <1>2, <1>3, <1>4

Swap(b) == [a \in DataAddresses |-> IF a = b THEN b - 1 ELSE IF a = b - 1 THEN b ELSE a]

LEMMA Swapped ==
  ASSUME NEW d, NEW b \in 75 .. 89
  PROVE  Pairs(Swap(b), Swap(b)) /\ \A a \in DataAddresses : Exchanged(d, b)[a] = d[Swap(b)[a]]
BY DEF Pairs, Swap, Exchanged, DataAddresses

LEMMA PairsCompose ==
  ASSUME NEW f, NEW h, NEW s, Pairs(f, h), Pairs(s, s)
  PROVE  Pairs([a \in DataAddresses |-> f[s[a]]], [a \in DataAddresses |-> s[h[a]]])
BY DEF Pairs

LEMMA ExchangeReorders ==
  ASSUME NEW d, NEW g, NEW b \in 75 .. 89, Reordered(d, g)
  PROVE  Reordered(Exchanged(d, b), g)
<1> DEFINE s == Swap(b)
           e == Exchanged(d, b)
<1>1. Pairs(s, s) /\ \A a \in DataAddresses : e[a] = d[s[a]]
  BY Swapped
<1> HIDE DEF s, e
<1>2. PICK f, h : Pairs(f, h) /\ \A a \in DataAddresses : d[a] = g[f[a]]
  BY DEF Reordered
<1> DEFINE fs == [a \in DataAddresses |-> f[s[a]]]
           sh == [a \in DataAddresses |-> s[h[a]]]
<1>3. Pairs(fs, sh)
  BY <1>1, <1>2, PairsCompose
<1>4. \A a \in DataAddresses : e[a] = g[fs[a]]
  BY <1>1, <1>2 DEF Pairs
<1> HIDE DEF fs, sh
<1> QED BY <1>3, <1>4 DEF Reordered, e

LEMMA ExchangeFits ==
  ASSUME NEW d, NEW b \in 75 .. 89, Fits(d)
  PROVE  Fits(Exchanged(d, b))
<1>1. b - 1 \in 74 .. 89 /\ b \in 74 .. 89
  OBVIOUS
<1> QED BY <1>1 DEF Fits, Exchanged

LEMMA ExchangeOrders ==
  ASSUME NEW d, NEW b \in 75 .. 89, Fits(d), d[b] < d[b - 1], Largest(d, b - 1),
         NEW from \in Int, b < from, Sorted(d, from)
  PROVE  Largest(Exchanged(d, b), b) /\ Sorted(Exchanged(d, b), from)
<1> DEFINE e == Exchanged(d, b)
<1>1. \A a \in 74 .. 89 : e[a] = IF a = b THEN d[b - 1] ELSE IF a = b - 1 THEN d[b] ELSE d[a]
  BY DEF Exchanged
<1> HIDE DEF e
<1>2. d[b] <= d[b - 1]
  <2>1. b - 1 \in 74 .. 89 /\ b \in 74 .. 89
    OBVIOUS
  <2>2. d[b - 1] \in SwitchWords /\ d[b] \in SwitchWords
    BY <2>1 DEF Fits
  <2> QED BY <2>2, DataOrder, Zenon
<1>3. Largest(e, b)
  BY <1>1, <1>2 DEF Largest
<1>4. Sorted(e, from)
  BY <1>1 DEF Sorted
<1> QED BY <1>3, <1>4 DEF e

LEMMA Compare ==
  \A x, y \in SwitchWords : NZP(Plus(x, Plus(Not(y), 1))) \in {2, 4} <=> x <= y
<1> SUFFICES ASSUME NEW x \in SwitchWords, NEW y \in SwitchWords
             PROVE  NZP(Plus(x, Plus(Not(y), 1))) \in {2, 4} <=> x <= y
  OBVIOUS
<1>0. x \in 0 .. 1023 /\ y \in 0 .. 1023
  BY DEF SwitchWords
<1>1. Plus(Not(y), 1) = IF y = 0 THEN 0 ELSE 65536 - y
  BY <1>0, SMTT(30) DEF Plus, Not
<1>2. Plus(x, Plus(Not(y), 1)) = IF x >= y THEN x - y ELSE 65536 + x - y
  BY <1>0, <1>1, SMTT(30) DEF Plus
<1> QED BY <1>0, <1>2, SMT DEF NZP

LEMMA DataStays ==
  ASSUME LeavesData, pc # 130, pc' # 130
  PROVE  Data' = Data /\ \A a \in 74 .. 89 : Data[a] = mem[a]
BY DEF LeavesData, Data

(* The largest so far stays behind a datum that is not less.               *)
LEMMA LargestGrows ==
  ASSUME NEW d, NEW b \in 75 .. 89, Fits(d), Largest(d, b - 1), d[b - 1] <= d[b]
  PROVE  Largest(d, b)
<1>1. \A a \in 74 .. 89 : d[a] \in SwitchWords
  BY DEF Fits
<1>2. d[b - 1] \in SwitchWords /\ d[b] \in SwitchWords
  <2>1. b - 1 \in 74 .. 89 /\ b \in 74 .. 89
    OBVIOUS
  <2> QED BY <1>1, <2>1
<1> SUFFICES ASSUME NEW a \in 74 .. 89, a < b
             PROVE  d[a] <= d[b]
  BY DEF Largest
<1>3. CASE a = b - 1
  BY <1>3
<1>4. CASE a # b - 1
  <2>1. d[a] <= d[b - 1]
    BY <1>4 DEF Largest
  <2>2. d[a] \in SwitchWords
    BY <1>1, Zenon
  <2> QED BY <1>2, <2>1, <2>2, DataOrder, Zenon
<1> QED BY <1>3, <1>4

(* The two stores of an exchange, the first of them done.                  *)
LEMMA ExchangeBegins ==
  ASSUME pc = 129, pc' = 130, UNCHANGED regs, NEW b \in 75 .. 89, regs[3] = b,
         mem \in [0 .. 255 -> Word], mem' = [mem EXCEPT ![b - 1] = regs[5]],
         regs[5] = Data[b], regs[4] = Data[b - 1]
  PROVE  Data' = Exchanged(Data, b)
<1>1. \A a \in 74 .. 89 : Data[a] = mem[a]
  BY DEF Data
<1>2. regs[5] = mem[b] /\ regs[4] = mem[b - 1]
  BY <1>1
<1>3. \A a \in 74 .. 89 : mem'[a] = IF a = b - 1 THEN mem[b] ELSE mem[a]
  <2> DEFINE All == 0 .. 255
  <2>1. mem \in [All -> Word] /\ \A a \in 74 .. 89 : a \in All
    OBVIOUS
  <2> HIDE DEF All
  <2> QED BY <1>2, <2>1
<1>4. regs'[3] = b /\ regs'[4] = mem[b - 1]
  BY <1>2
<1>5. Data' = [a \in 74 .. 89 |-> IF a = b THEN mem[b - 1] ELSE IF a = b - 1 THEN mem[b] ELSE mem[a]]
  <2> DEFINE m == mem'
             g == regs'
  <2>1. Data' = [a \in 74 .. 89 |-> IF a = g[3] THEN g[4] ELSE m[a]]
    BY DEF Data
  <2>2. \A a \in 74 .. 89 : m[a] = IF a = b - 1 THEN mem[b] ELSE mem[a]
    BY <1>3
  <2>3. g[3] = b /\ g[4] = mem[b - 1]
    BY <1>4
  <2> HIDE DEF m, g
  <2> QED BY <2>1, <2>2, <2>3
<1>6. Exchanged(Data, b)
      = [a \in 74 .. 89 |-> IF a = b THEN mem[b - 1] ELSE IF a = b - 1 THEN mem[b] ELSE mem[a]]
  BY <1>1 DEF Exchanged
<1> QED BY <1>5, <1>6

(* What an instruction of the sort does to the data.                       *)
Moves == Data' = Data \/ \E b \in 75 .. 89 : Data' = Exchanged(Data, b)

LEMMA SortingStep ==
  ASSUME TestRun, Intact, InSort, Fits(Data), Sorting, Instruction, Guided
  PROVE  Moves /\ Sorting'
<1> USE Registers8 DEF Moves
<1> DEFINE l == Left(regs[1])
           b == 74 + regs[2]
<1>1. /\ Ready /\ regs \in [RegNames -> Word] /\ regs[0] = 0
      /\ mem \in [0 .. 255 -> Word]
      /\ \A r \in RegNames : regs[r] \in Word
  BY RegisterWords DEF Ready, Runs, Intact, CpuTypes
<1>2. /\ Intact' /\ (InSort \/ InMenu)'
      /\ pc \notin {129, 130} => LeavesData
  BY SortStep
<1>3. \A a \in 74 .. 89 : Data[a] \in SwitchWords
  BY DEF Fits
<1>4. CASE pc = 119
  <2>1. Sets(1, Plus(0, -16)) /\ Left(Plus(0, -16)) = 16
    BY <1>1, <1>4, SortEffects, PassCounts
  <2>2. Data' = Data
    BY <1>2, <1>4, <2>1, DataStays DEF Sets
  <2>3. Left(regs'[1]) = 16 /\ pc' = 120
    BY <1>1, <1>4, <2>1 DEF Sets
  <2>4. Sorting'
    BY <2>3 DEF Sorting, Sorted
  <2> QED BY <2>2, <2>4
<1>5. CASE pc = 120
  <2>1. Sets(2, 1) /\ Left(regs[1]) \in 1 .. 16
    BY <1>1, <1>5, SortEffects, PassCounts DEF InSort
  <2>2. Data' = Data
    BY <1>2, <1>5, <2>1, DataStays DEF Sets
  <2>3. pc' = 121 /\ regs'[1] = regs[1] /\ regs'[2] = 1
    BY <1>1, <1>5, <2>1 DEF Sets
  <2>4. Largest(Data, 74)
    BY DEF Largest
  <2>5. Sorted(Data, 74 + l)
    BY <1>5 DEF Sorting
  <2>6. Sorting'
    BY <2>1, <2>2, <2>3, <2>4, <2>5 DEF Sorting
  <2> QED BY <2>2, <2>6
<1>6. CASE pc \in {121, 122, 123, 124, 125}
  <2>1. b \in 75 .. 89 /\ b - 1 \in 74 .. 89 /\ regs[2] \in 1 .. 15 /\ regs[6] = 74
        /\ Plus(74, regs[2]) = b /\ (pc # 121 => regs[3] = b /\ regs[3] - 1 = b - 1)
    BY <1>6, SixteenCounts DEF InSort
  <2>2. Data[b] = mem[b] /\ Data[b - 1] = mem[b - 1]
    BY <1>6, <2>1 DEF Data
  <2>3. /\ pc = 121 => Sets(3, b)
        /\ pc = 122 => Sets(4, Data[b - 1])
        /\ pc = 123 => Sets(5, Data[b])
        /\ pc = 124 => Sets(5, Not(regs[5]))
        /\ pc = 125 => Sets(5, Plus(regs[5], 1))
    BY <1>1, <1>6, <2>1, <2>2, SortEffects
  <2>4. pc' = pc + 1 /\ regs'[1] = regs[1] /\ regs'[2] = regs[2]
    BY <1>1, <1>6, <2>3 DEF Sets
  <2>5. Data' = Data
    BY <1>2, <1>6, <2>4, DataStays
  <2>6. /\ pc = 122 => regs'[4] = Data[b - 1]
        /\ pc # 122 => regs'[4] = regs[4]
        /\ pc = 123 => regs'[5] = Data[b]
        /\ pc = 124 => regs'[5] = Not(Data[b])
        /\ pc = 125 => regs'[5] = Plus(Not(Data[b]), 1)
    BY <1>1, <1>6, <2>3 DEF Sorting, Sets
  <2>7. /\ Sorted(Data, 74 + l) /\ Largest(Data, b - 1)
        /\ regs[2] < l \/ (l = 1 /\ regs[2] = 1)
        /\ pc \in 123 .. 125 => regs[4] = Data[b - 1]
    BY <1>6 DEF Sorting
  <2> HIDE DEF l, b
  <2>8. l = Left(regs[1]) /\ b = 74 + regs[2]
    BY DEF l, b
  <2>9. Sorting'
    BY <1>6, <2>4, <2>5, <2>6, <2>7, <2>8 DEF Sorting
  <2> QED BY <2>5, <2>9
<1>7. CASE pc = 126
  <2>1. Sets(5, Plus(regs[4], regs[5])) /\ regs[4] = Data[b - 1] /\ regs[5] = Plus(Not(Data[b]), 1)
    BY <1>1, <1>7, SortEffects DEF Sorting
  <2>2. /\ pc' = 127 /\ regs'[1] = regs[1] /\ regs'[2] = regs[2] /\ regs'[4] = regs[4]
        /\ cc' = NZP(Plus(Data[b - 1], Plus(Not(Data[b]), 1)))
    BY <1>1, <1>7, <2>1 DEF Sets
  <2>3. Data' = Data
    BY <1>2, <1>7, <2>2, DataStays
  <2>4. Sorting'
    BY <1>7, <2>2, <2>3 DEF Sorting
  <2> QED BY <2>3, <2>4
<1>8. CASE pc = 127
  <2>1. b \in 75 .. 89 /\ b - 1 \in 74 .. 89 /\ l \in 1 .. 16 /\ regs[2] \in 1 .. 15
    BY <1>8 DEF InSort
  <2>2. cc \in {2, 4} <=> Data[b - 1] <= Data[b]
    <3>1. cc = NZP(Plus(Data[b - 1], Plus(Not(Data[b]), 1)))
      BY <1>8 DEF Sorting
    <3>2. Data[b - 1] \in SwitchWords /\ Data[b] \in SwitchWords
      BY <1>3, <2>1
    <3> QED BY <3>1, <3>2, Compare
  <2>3. Goes(IF cc \in {2, 4} THEN 131 ELSE 128)
    BY <1>1, <1>8, SortEffects
  <2>4. Data' = Data /\ UNCHANGED regs
    BY <1>2, <1>8, <2>3, DataStays DEF Goes
  <2>5. /\ Sorted(Data, 74 + l) /\ Largest(Data, b - 1) /\ regs[4] = Data[b - 1]
        /\ regs[2] < l \/ (l = 1 /\ regs[2] = 1)
    BY <1>8 DEF Sorting
  <2>6. l = Left(regs[1]) /\ b = 74 + regs[2]
    OBVIOUS
  <2> HIDE DEF l, b
  <2>7. CASE Data[b - 1] <= Data[b]
    <3>1. pc' = 131
      BY <2>2, <2>3, <2>7 DEF Goes
    <3>2. Largest(Data, b)
      BY <2>1, <2>5, <2>7, LargestGrows
    <3>3. Sorting'
      BY <2>4, <2>5, <2>6, <3>1, <3>2 DEF Sorting
    <3> QED BY <2>4, <3>3
  <2>8. CASE ~(Data[b - 1] <= Data[b])
    <3>1. pc' = 128
      BY <2>2, <2>3, <2>8 DEF Goes
    <3>2. Data[b - 1] \in SwitchWords /\ Data[b] \in SwitchWords
      BY <1>3, <2>1
    <3>3. Data[b] < Data[b - 1]
      BY <2>8, <3>2, DataOrder, Zenon
    <3>4. regs[2] < l
      <4>1. l = 1 /\ regs[2] = 1 => b = 75
        BY <2>6
      <4>2. l = 1 /\ regs[2] = 1 => Data[b - 1] <= Data[b]
        BY <2>1, <2>5, <4>1 DEF Sorted
      <4> QED BY <2>5, <2>8, <4>2
    <3>5. Sorting'
      BY <2>4, <2>5, <2>6, <3>1, <3>3, <3>4 DEF Sorting
    <3> QED BY <2>4, <3>5
  <2> QED BY <2>7, <2>8
<1>9. CASE pc = 128
  <2>1. b \in 75 .. 89 /\ regs[3] = b
    BY <1>9 DEF InSort
  <2>2. Data[b] = mem[b]
    BY <1>9, <2>1 DEF Data
  <2>3. Sets(5, Data[b])
    BY <1>1, <1>9, <2>1, <2>2, SortEffects
  <2>4. /\ pc' = 129 /\ regs'[1] = regs[1] /\ regs'[2] = regs[2] /\ regs'[4] = regs[4]
        /\ regs'[5] = Data[b]
    BY <1>1, <1>9, <2>3 DEF Sets
  <2>5. Data' = Data
    BY <1>2, <1>9, <2>4, DataStays
  <2>6. Sorting'
    BY <1>9, <2>4, <2>5 DEF Sorting
  <2> QED BY <2>5, <2>6
<1>10. CASE pc = 129
  <2>1. b \in 75 .. 89 /\ regs[3] = b /\ l \in 1 .. 16
    BY <1>10 DEF InSort
  <2>2. Stores(b - 1, regs[5]) /\ regs[5] = Data[b] /\ regs[4] = Data[b - 1]
    BY <1>1, <1>10, <2>1, SortEffects DEF Sorting
  <2>3. pc' = 130 /\ UNCHANGED regs /\ mem' = [mem EXCEPT ![b - 1] = regs[5]]
    BY <1>10, <2>2 DEF Stores
  <2>4. Data' = Exchanged(Data, b)
    BY <1>1, <1>10, <2>1, <2>2, <2>3, ExchangeBegins
  <2>5. /\ Data[b] < Data[b - 1] /\ Largest(Data, b - 1) /\ Sorted(Data, 74 + l)
        /\ regs[2] < l
    BY <1>10 DEF Sorting
  <2>6. Largest(Data', b) /\ Sorted(Data', 74 + l)
    <3> DEFINE from == 74 + l
    <3>1. from \in Int /\ b < from
      <4>1. regs[2] \in 1 .. 15
        BY <1>10 DEF InSort
      <4> HIDE DEF l
      <4> QED BY <2>1, <2>5, <4>1
    <3> HIDE DEF b, from
    <3>2. Sorted(Data, from)
      BY <2>5 DEF from
    <3>3. Largest(Exchanged(Data, b), b) /\ Sorted(Exchanged(Data, b), from)
      BY <2>1, <2>5, <3>1, <3>2, ExchangeOrders
    <3> QED BY <2>4, <3>3 DEF from
  <2>7. Moves
    BY <2>1, <2>4
  <2>8. Sorting'
    BY <2>3, <2>5, <2>6 DEF Sorting
  <2> QED BY <2>7, <2>8
<1>11. CASE pc = 130
  <2>1. b \in 75 .. 89 /\ regs[3] = b
    BY <1>11 DEF InSort
  <2>2. Stores(b, regs[4])
    BY <1>1, <1>11, <2>1, SortEffects
  <2>3. pc' = 131 /\ UNCHANGED regs /\ mem' = [mem EXCEPT ![b] = regs[4]]
    BY <1>11, <2>2 DEF Stores
  <2>4. Data' = Data
    BY <1>1, <1>11, <2>1, <2>3 DEF Data
  <2>5. Sorting'
    BY <1>11, <2>3, <2>4 DEF Sorting
  <2> QED BY <2>4, <2>5
<1>12. CASE pc = 131
  <2>1. regs[2] \in 1 .. 15 /\ Sets(2, regs[2] + 1)
    BY <1>1, <1>12, SortEffects, SixteenCounts DEF InSort
  <2>2. pc' = 132 /\ regs'[1] = regs[1] /\ regs'[2] = regs[2] + 1
    BY <1>1, <1>12, <2>1 DEF Sets
  <2>3. Data' = Data
    BY <1>2, <1>12, <2>2, DataStays
  <2>4. (74 + regs'[2]) - 1 = b /\ l \in 1 .. 16
    BY <1>12, <2>1, <2>2 DEF InSort
  <2>5. /\ Sorted(Data, 74 + l) /\ Largest(Data, b)
        /\ regs[2] < l \/ (l = 1 /\ regs[2] = 1)
    BY <1>12 DEF Sorting
  <2>6. regs'[2] <= l \/ (l = 1 /\ regs'[2] = 2)
    BY <2>1, <2>2, <2>4, <2>5
  <2>0. l = Left(regs[1])
    OBVIOUS
  <2> HIDE DEF l, b
  <2>7. Left(regs'[1]) = l /\ Largest(Data', (74 + regs'[2]) - 1) /\ Sorted(Data', 74 + l)
    BY <2>0, <2>2, <2>3, <2>4, <2>5, Zenon
  <2>8. pc' = 132 /\ (regs'[2] <= Left(regs'[1]) \/ (Left(regs'[1]) = 1 /\ regs'[2] = 2))
    BY <2>2, <2>6, <2>7, Zenon
  <2>9. Sorted(Data', 74 + Left(regs'[1]))
    BY <2>7, Zenon
  <2>10. Sorting'
    BY <2>7, <2>8, <2>9 DEF Sorting
  <2> QED BY <2>3, <2>10
<1>13. CASE pc = 132
  <2>1. Sets(3, Plus(regs[1], regs[2]))
    BY <1>1, <1>13, SortEffects
  <2>2. pc' = 133 /\ regs'[1] = regs[1] /\ regs'[2] = regs[2]
    BY <1>1, <1>13, <2>1 DEF Sets
  <2>3. Data' = Data
    BY <1>2, <1>13, <2>2, DataStays
  <2>4. Sorting'
    BY <1>13, <2>2, <2>3 DEF Sorting
  <2> QED BY <2>3, <2>4
<1>14. CASE pc = 133
  <2>1. /\ l \in 1 .. 16 /\ regs[2] \in 2 .. 16
        /\ cc = (IF regs[2] < l THEN 4 ELSE IF regs[2] = l THEN 2 ELSE 1)
    BY <1>1, <1>14, PassCounts DEF InSort
  <2>2. Goes(IF regs[2] < l THEN 121 ELSE 134)
    BY <1>1, <1>14, <2>1, SortEffects
  <2>3. Data' = Data /\ UNCHANGED regs
    BY <1>2, <1>14, <2>2, DataStays DEF Goes
  <2>4. /\ Sorted(Data, 74 + l) /\ Largest(Data, b - 1)
        /\ regs[2] <= l \/ (l = 1 /\ regs[2] = 2)
    BY <1>14 DEF Sorting
  <2>5. CASE regs[2] < l
    <3>1. pc' = 121
      BY <2>2, <2>5 DEF Goes
    <3>2. Sorting'
      BY <2>3, <2>4, <2>5, <3>1 DEF Sorting
    <3> QED BY <2>3, <3>2
  <2>6. CASE ~(regs[2] < l)
    <3>1. pc' = 134
      BY <2>2, <2>6 DEF Goes
    <3>2. Sorted(Data, 73 + l)
      <4>1. CASE regs[2] = l
        BY <2>1, <2>4, <4>1 DEF Sorted, Largest
      <4>2. CASE l = 1 /\ regs[2] = 2
        BY <2>4, <4>2 DEF Sorted
      <4> QED BY <2>1, <2>4, <2>6, <4>1, <4>2
    <3>3. Sorting'
      BY <2>3, <3>1, <3>2 DEF Sorting
    <3> QED BY <2>3, <3>3
  <2> QED BY <2>5, <2>6
<1>15. CASE pc = 134
  <2>1. /\ l \in 1 .. 16 /\ Left(Plus(regs[1], 1)) = l - 1 /\ Sets(1, Plus(regs[1], 1))
    BY <1>1, <1>15, PassCounts, SortEffects DEF InSort
  <2>2. pc' = 135 /\ Left(regs'[1]) = l - 1
    BY <1>1, <1>15, <2>1 DEF Sets
  <2>3. Data' = Data
    BY <1>2, <1>15, <2>2, DataStays
  <2>4. Sorted(Data, 73 + l) /\ 74 + Left(regs'[1]) = 73 + l
    BY <1>15, <2>1, <2>2 DEF Sorting
  <2>5. Sorting'
    BY <2>2, <2>3, <2>4 DEF Sorting
  <2> QED BY <2>3, <2>5
<1>16. CASE pc = 135
  <2>1. Goes(IF cc = 4 THEN 120 ELSE 136)
    BY <1>1, <1>16, SortEffects
  <2>2. Data' = Data /\ UNCHANGED regs /\ pc' \in {120, 136}
    BY <1>2, <1>16, <2>1, DataStays DEF Goes
  <2>3. Sorting'
    BY <1>16, <2>2 DEF Sorting
  <2> QED BY <2>2, <2>3
<1>17. CASE pc = 136
  <2>1. Goes(104)
    BY <1>1, <1>17, SortEffects DEF InSort
  <2>2. Data' = Data /\ pc' = 104
    BY <1>2, <1>17, <2>1, DataStays DEF Goes
  <2>3. Sorting'
    BY <2>2 DEF Sorting
  <2> QED BY <2>2, <2>3
<1> QED BY <1>4, <1>5, <1>6, <1>7, <1>8, <1>9, <1>10, <1>11, <1>12, <1>13, <1>14, <1>15,
           <1>16, <1>17 DEF InSort

DataInv ==
  /\ PrgInv /\ Fits(Data) /\ Sorting
  /\ pc \in 120 .. 136 => Reordered(Data, given)

LEMMA DataInvInit == TestRun /\ ProgramInit => DataInv
<1> SUFFICES ASSUME TestRun, ProgramInit
             PROVE  DataInv
  OBVIOUS
<1>1. pc = 0 /\ mem = TestPrograms
  BY DEF ProgramInit, TestRun
<1>2. \A i \in 1 .. 16 : TestPrograms[74 + i - 1] = SortData[i]
  BY Layout DEF Lies
<1>3. \A a \in 74 .. 89 : Data[a] \in SwitchWords
  <2> SUFFICES ASSUME NEW a \in 74 .. 89
               PROVE  Data[a] \in SwitchWords
    OBVIOUS
  <2>1. a - 73 \in 1 .. 16 /\ (74 + (a - 73)) - 1 = a
    OBVIOUS
  <2>2. TestPrograms[a] = SortData[a - 73]
    BY <1>2, <2>1
  <2> QED BY <1>1, <2>1, <2>2, DataWords DEF Data
<1>4. Sorting
  BY <1>1 DEF Sorting
<1> QED BY <1>1, <1>3, <1>4, PrgInvInit DEF DataInv, Fits

(* The data that the sort is called with are in their own order.           *)
LEMMA SameOrder ==
  ASSUME NEW d, NEW g, \A a \in DataAddresses : d[a] = g[a]
  PROVE  Reordered(d, g)
<1> DEFINE i == [a \in DataAddresses |-> a]
<1>1. Pairs(i, i) /\ \A a \in DataAddresses : d[a] = g[i[a]]
  BY DEF Pairs
<1> HIDE DEF i
<1> QED BY <1>1 DEF Reordered

LEMMA SortKeepsData ==
  ASSUME InSort, Fits(Data), pc \in 120 .. 136 => Reordered(Data, given), Moves, Noted
  PROVE  Fits(Data)' /\ Reordered(Data, given)'
<1>1. Fits(Data')
  BY ExchangeFits DEF Moves
<1>2. CASE pc = 119
  <2>1. given' = [a \in DataAddresses |-> mem[a]]
    BY <1>2 DEF Noted
  <2>2. \A a \in DataAddresses : Data[a] = mem[a]
    BY <1>2 DEF Data, DataAddresses
  <2>3. Reordered(Data, given')
    BY <2>1, <2>2, SameOrder
  <2> QED BY <1>1, <2>3, ExchangeReorders DEF Moves
<1>3. CASE pc # 119
  <2>1. given' = given /\ Reordered(Data, given)
    BY <1>3 DEF Noted, InSort
  <2> QED BY <1>1, <2>1, ExchangeReorders DEF Moves
<1> QED BY <1>2, <1>3

LEMMA DataInvStep == TestRun /\ DataInv /\ [ProgramNext]_progVars => DataInv'
<1> SUFFICES ASSUME TestRun, DataInv, [ProgramNext]_progVars
             PROVE  DataInv'
  OBVIOUS
<1>1. PrgInv /\ PrgInv' /\ Fits(Data) /\ Sorting /\ Intact
  BY PrgInvStep DEF DataInv, PrgInv
<1>2. CASE Instruction /\ Guided /\ Noted
  <2>1. CASE InSort
    <3>1. Moves /\ Sorting'
      BY <1>1, <1>2, <2>1, SortingStep
    <3>2. Fits(Data)' /\ Reordered(Data, given)'
      BY <1>1, <1>2, <2>1, <3>1, SortKeepsData DEF DataInv
    <3> QED BY <1>1, <3>1, <3>2 DEF DataInv
  <2>2. CASE ~InSort
    <3>1. pc' \notin 120 .. 136 /\ (LeavesData \/ Enters)
      BY <1>1, <1>2, <2>2, InstructionStep
    <3>2. pc # 130
      BY <1>1, <2>2 DEF PrgInv, Somewhere, InBoot, InIOTests, InXor, InRunOnce, InMultiplier,
                        InMenu, InEntry, InDisplay, InAutoCount
    <3>3. Fits(Data)'
      <4>1. \A a \in 74 .. 89 : Data[a] = mem[a] /\ Data'[a] = mem'[a]
        BY <3>1, <3>2 DEF Data
      <4>2. \A a \in 74 .. 89 : mem'[a] = mem[a] \/ mem'[a] \in SwitchWords
        BY <1>1, <3>1 DEF LeavesData, Enters, Intact, CpuTypes
      <4> QED BY <1>1, <4>1, <4>2 DEF Fits
    <3>4. Sorting'
      BY <3>1 DEF Sorting
    <3> QED BY <1>1, <3>1, <3>3, <3>4 DEF DataInv
  <2> QED BY <2>1, <2>2
<1>3. CASE UNCHANGED <<pc, regs, cc, mem, hex, given>>
  <2>1. Data' = Data
    BY <1>3 DEF Data
  <2>2. Sorting'
    BY <1>1, <1>3, <2>1 DEF Sorting
  <2> QED BY <1>1, <1>3, <2>1, <2>2 DEF DataInv
<1> QED BY <1>2, <1>3, NotAnInstruction

(* Each value is among the data as often as among those they come from.    *)
LEMMA SameCounts ==
  ASSUME NEW d, NEW g, Reordered(d, g), NEW v
  PROVE  Count(d, v) = Count(g, v)
<1>1. PICK f, h : Pairs(f, h) /\ \A a \in DataAddresses : d[a] = g[f[a]]
  BY DEF Reordered
<1> DEFINE S == {a \in DataAddresses : d[a] = v}
           T == {a \in DataAddresses : g[a] = v}
           F == [a \in S |-> f[a]]
<1>2. F \in Bijection(S, T)
  <2>1. \A a \in S : F[a] \in T /\ h[F[a]] = a
    BY <1>1 DEF Pairs
  <2>2. \A a \in T : h[a] \in S /\ F[h[a]] = a
    BY <1>1 DEF Pairs
  <2>3. F \in [S -> T]
    BY <2>1
  <2> HIDE DEF S, T, F
  <2>4. \A a, b \in S : F[a] = F[b] => a = b
    BY <2>1
  <2>5. \A b \in T : \E a \in S : F[a] = b
    BY <2>2
  <2> QED BY <2>3, <2>4, <2>5 DEF Bijection, Injection, Surjection, IsInjective
<1>3. ExistsBijection(S, T)
  BY <1>2 DEF ExistsBijection
<1>4. IsFiniteSet(S)
  <2>1. IsFiniteSet(DataAddresses)
    <3>1. 74 \in Int /\ 89 \in Int
      OBVIOUS
    <3> QED BY <3>1, FS_Interval, Zenon DEF DataAddresses
  <2> QED BY <2>1, FS_Subset
<1>5. Cardinality(S) = Cardinality(T)
  BY <1>3, <1>4, FS_Bijection
<1> QED BY <1>5 DEF Count

LEMMA SortedByInv == DataInv => SortReturnsSorted
<1> SUFFICES ASSUME DataInv, pc = 136
             PROVE  /\ \A i, j \in DataAddresses : i < j => mem[i] <= mem[j]
                    /\ \A v \in {given[a] : a \in DataAddresses} : Count(mem, v) = Count(given, v)
  BY DEF SortReturnsSorted
<1>1. Left(regs[1]) = 0
  BY DEF DataInv, PrgInv, Somewhere, InBoot, InIOTests, InXor, InRunOnce, InMultiplier,
         InMenu, InEntry, InSort, InDisplay, InAutoCount
<1>2. Sorted(Data, 74)
  BY <1>1 DEF DataInv, Sorting
<1>3. \A a \in DataAddresses : Data[a] = mem[a]
  BY DEF Data, DataAddresses
<1>4. \A i, j \in DataAddresses : i < j => mem[i] <= mem[j]
  BY <1>2, <1>3 DEF Sorted, DataAddresses
<1>5. Reordered(mem, given)
  <2>1. Reordered(Data, given)
    BY DEF DataInv
  <2>2. PICK f, h : Pairs(f, h) /\ \A a \in DataAddresses : Data[a] = given[f[a]]
    BY <2>1 DEF Reordered
  <2>3. \A a \in DataAddresses : mem[a] = given[f[a]]
    BY <1>3, <2>2
  <2> QED BY <2>2, <2>3 DEF Reordered
<1> QED BY <1>4, <1>5, SameCounts

(***************************************************************************)
(* The theorems: whatever the user chooses at the switches, for the tests  *)
(* that are started from their documented addresses.                       *)
(***************************************************************************)

(* memory_contents.sv:60-75, 91-115: the XOR test shows the exclusive or   *)
(* of any two words, the multiplier the product of any two operands.       *)
THEOREM TestsShowResults ==
  ASSUME TestRun
  PROVE  ProgramSpec => []ResultsShown
<1>1. ProgramSpec => []PrgInv
  BY PrgInvAlways
<1> QED BY <1>1, ShownByInv, PTL

(* memory_contents.sv:180-197: the display function shows the datum that   *)
(* its counter names, also after the user has entered data of their own.   *)
THEOREM DisplayIsRight ==
  ASSUME TestRun
  PROVE  ProgramSpec => []DisplayShowsDatum
<1>1. ProgramSpec => []PrgInv
  BY PrgInvAlways
<1> QED BY <1>1, DatumByInv, PTL

(* memory_contents.sv:162-179: the sort returns the data in order, those   *)
(* of the program and whatever the user has entered instead.               *)
THEOREM SortSorts ==
  ASSUME TestRun
  PROVE  ProgramSpec => []SortReturnsSorted
<1>1. ProgramInit => DataInv
  BY DataInvInit
<1>2. DataInv /\ [ProgramNext]_progVars => DataInv'
  BY DataInvStep
<1> QED BY <1>1, <1>2, SortedByInv, PTL DEF ProgramSpec
=============================================================================
