------------------------------ MODULE Slc3Word ------------------------------
(***************************************************************************)
(* The sixteen-bit words of the SLC-3 (src/ECE385_5): arithmetic, the ALU  *)
(* and the fields of an instruction, shared by the instruction set and by  *)
(* the processor that implements it.                                       *)
(***************************************************************************)
EXTENDS Integers

Word    == {w \in Nat : w < 65536}
IOWord  == 65535              \* address of the switches and the hex display
RegNames == 0 .. 7

(* Fault: a sum wider than the word. *)
PlusUnwrapped(a, b) == a + b
Plus(a, b) == (a + b) % 65536
Not(a)     == 65535 - a

Bit(a, n)     == (a \div n) % 2                 \* n a power of two
Both(a, b, n) == IF Bit(a, n) = 1 /\ Bit(b, n) = 1 THEN n ELSE 0
AndNibble(a, b) == Both(a, b, 1) + Both(a, b, 2) + Both(a, b, 4) + Both(a, b, 8)
And(a, b) == AndNibble(a % 16, b % 16)
             + 16   * AndNibble((a \div 16) % 16, (b \div 16) % 16)
             + 256  * AndNibble((a \div 256) % 16, (b \div 256) % 16)
             + 4096 * AndNibble(a \div 4096, b \div 4096)

(* Sign extension of the low bits of w, as many as m = 2^bits says. *)
Sext(w, m) == IF 2 * (w % m) < m THEN w % m ELSE (w % m) + 65536 - m

Opcode(ir) == ir \div 4096
DR(ir)     == (ir \div 512) % 8
SR1(ir)    == (ir \div 64) % 8
SR2(ir)    == ir % 8
IR_5(ir)   == Bit(ir, 32) = 1
Imm5(ir)   == Sext(ir, 32)
Off6(ir)   == Sext(ir, 64)
Off9(ir)   == Sext(ir, 512)
Off11(ir)  == Sext(ir, 2048)

(* The condition codes n, z, p as the three-bit register holds them. *)
CCs   == {0, 1, 2, 4}
(* Fault: words without a sign. *)
NZPUnsigned(v) == IF v = 0 THEN 2 ELSE 1
NZP(v) == IF v >= 32768 THEN 4 ELSE IF v = 0 THEN 2 ELSE 1

(* Some condition the branch names is set. *)
newBEN(ir, cc) == \E b \in {1, 2, 4} : Bit(DR(ir), b) = 1 /\ cc = b
=============================================================================
