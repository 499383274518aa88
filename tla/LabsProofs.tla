----------------------------- MODULE LabsProofs -----------------------------
(***************************************************************************)
(* Theorems about the multiplier, for all settings of its switches; about  *)
(* the ball and the video signal, for all sizes of the picture; about the  *)
(* text display, for all tables of colours; and that all the circuits side *)
(* by side are each what they are alone.                                   *)
(***************************************************************************)
EXTENDS MCLabs, AddersProofs

(***************************************************************************)
(* The multiplier.                                                         *)
(***************************************************************************)

(* A with the sign X, and the multiplicand and multiplier of the run. *)
Upper == A - 256 * X
S == Signed(factors[2])
b == factors[1]

(* What is in the registers when the bits of m have been used up: the      *)
(* partial product, c halvings short of its place, and the unused bits.    *)
Partial(c, m, d) == 256 * Upper + B = c * (S * m) + b \div d

AddInv ==
  /\ n = 1 => Partial(256, 0, 1)
  /\ n = 2 => Partial(128, b % 2, 2)
  /\ n = 3 => Partial(64, b % 4, 4)
  /\ n = 4 => Partial(32, b % 8, 8)
  /\ n = 5 => Partial(16, b % 16, 16)
  /\ n = 6 => Partial(8, b % 32, 32)
  /\ n = 7 => Partial(4, b % 64, 64)
  /\ n = 8 => Partial(2, b % 128, 128)

ShiftInv ==
  /\ n = 1 => Partial(256, b % 2, 1)
  /\ n = 2 => Partial(128, b % 4, 2)
  /\ n = 3 => Partial(64, b % 8, 4)
  /\ n = 4 => Partial(32, b % 16, 8)
  /\ n = 5 => Partial(16, b % 32, 16)
  /\ n = 6 => Partial(8, b % 64, 32)
  /\ n = 7 => Partial(4, b % 128, 64)
  /\ n = 8 => Partial(2, Signed(b), 128)

(* Before an addition X is the sign of A; the switches are those the run   *)
(* started with.                                                           *)
MulInv ==
  /\ curr_state \in {"add", "Subtract"} =>
       AddInv /\ (X = 1 <=> A >= 128) /\ Din = factors[2]
  /\ curr_state = "shift" => ShiftInv /\ Din = factors[2]
  /\ curr_state = "End" =>
       256 * Upper + B = S * Signed(b) /\ (X = 1 <=> A >= 128)

LEMMA SignedRange ==
  ASSUME NEW x \in Byte
  PROVE  Signed(x) \in Int /\ Signed(x) >= -128 /\ Signed(x) <= 127
BY DEF Signed, Byte

(* The register's type, the adder's carry included. *)
LEMMA SumRange ==
  ASSUME MulTypeOK
  PROVE  Sum \in Nat /\ Sum < 512 /\ Sum % 256 \in Byte /\ Sum \div 256 \in {0, 1}
<1>1. A \in Byte /\ Din \in Byte
  BY DEF MulTypeOK
<1> DEFINE s == Extended(A) + IF Sub THEN 512 - Extended(Din) ELSE Extended(Din)
<1>2. s \in Int
  <2>1. \A x \in Byte : Extended(x) \in Int
    BY DEF Extended, Byte
  <2>2. Extended(A) \in Int /\ Extended(Din) \in Int
    BY <1>1, <2>1
  <2> QED BY <2>2
<1>3. Sum = s % 512
  BY DEF Sum
<1> HIDE DEF s
<1>4. Sum \in 0 .. 511
  BY <1>2, <1>3
<1> QED BY <1>4 DEF Byte

LEMMA ShiftRange ==
  ASSUME MulTypeOK
  PROVE  ShiftedA \in Byte /\ 128 * (A % 2) + B \div 2 \in Byte
<1>1. A \in Nat /\ A < 256 /\ B \in Nat /\ B < 256 /\ X \in {0, 1}
  BY DEF MulTypeOK, Byte
<1>2. A \div 2 \in 0 .. 127 /\ B \div 2 \in 0 .. 127 /\ A % 2 \in {0, 1}
  BY <1>1
<1>3. ShiftedA \in Nat /\ ShiftedA < 256
  BY <1>1, <1>2 DEF ShiftedA
<1>4. 128 * (A % 2) + B \div 2 \in 0 .. 255
  BY <1>2
<1> QED BY <1>3, <1>4 DEF Byte

LEMMA RegistersType ==
  ASSUME MulTypeOK, Registers
  PROVE  A' \in Byte /\ B' \in Byte /\ X' \in {0, 1}
<1>1. A \in Byte /\ B \in Byte /\ X \in {0, 1} /\ Din_S \in Byte /\ 0 \in Byte
  BY DEF MulTypeOK, Byte
<1>2. ShiftedA \in Byte /\ 128 * (A % 2) + B \div 2 \in Byte
  BY ShiftRange
<1>3. Sum % 256 \in Byte /\ Sum \div 256 \in {0, 1}
  BY SumRange
<1> HIDE DEF Byte
<1> QED BY <1>1, <1>2, <1>3 DEF Registers

LEMMA ControlType ==
  ASSUME MulTypeOK, NEW Run_S, NEW Cloare_S, Control(Run_S, Cloare_S)
  PROVE  \/ curr_state' \in {"Initial", "Wait", "Start", "End"} /\ n' = 0
         \/ curr_state' = "add" /\ n' \in 1 .. 7
         \/ curr_state' = "Subtract" /\ n' = 8
         \/ curr_state' = "shift" /\ n' \in 1 .. 8
BY DEF Control, Next_state, To, MulTypeOK

LEMMA MulTypeStep == MulTypeOK /\ [MulNext]_mulVars => MulTypeOK'
<1> SUFFICES ASSUME MulTypeOK, [MulNext]_mulVars PROVE MulTypeOK'
  OBVIOUS
<1>1. CASE MulNext
  <2>1. \/ curr_state' \in {"Initial", "Wait", "Start", "End"} /\ n' = 0
        \/ curr_state' = "add" /\ n' \in 1 .. 7
        \/ curr_state' = "Subtract" /\ n' = 8
        \/ curr_state' = "shift" /\ n' \in 1 .. 8
    BY <1>1, ControlType DEF MulNext
  <2>2. A' \in Byte /\ B' \in Byte /\ X' \in {0, 1}
    BY <1>1, RegistersType DEF MulNext
  <2>3. Din' \in Byte /\ Din_S' \in Byte
    BY <1>1, SwitchesAreBytes DEF MulNext, Inputs, MulTypeOK
  <2>4. factors' \in Byte \X Byte
    BY <1>1 DEF MulNext, MulTypeOK
  <2> QED BY <2>1, <2>2, <2>3, <2>4 DEF MulTypeOK
<1>2. CASE UNCHANGED mulVars
  BY <1>2 DEF mulVars, MulTypeOK
<1> QED BY <1>1, <1>2

(* Nine bits hold the sum or the difference of two signed bytes. *)
LEMMA SumIsExact ==
  ASSUME MulTypeOK, X = 1 <=> A >= 128
  PROVE  (Sum % 256) - 256 * (Sum \div 256)
           = IF Sub THEN Upper - Signed(Din) ELSE Upper + Signed(Din)
<1>1. A \in Nat /\ A < 256 /\ Din \in Nat /\ Din < 256 /\ X \in {0, 1}
  BY DEF MulTypeOK, Byte
<1>2. CASE Sub
  BY <1>1, <1>2 DEF Sum, Extended, Signed, Upper
<1>3. CASE ~Sub
  BY <1>1, <1>3 DEF Sum, Extended, Signed, Upper
<1> QED BY <1>2, <1>3

(* A shift halves the double word, and X stays the sign of A. *)
LEMMA ShiftHalves ==
  ASSUME MulTypeOK, Shift, Registers
  PROVE  /\ 256 * Upper' + B' = (256 * Upper + B) \div 2
         /\ X' = 1 <=> A' >= 128
<1>1. A \in Nat /\ A < 256 /\ B \in Nat /\ B < 256 /\ X \in {0, 1}
  BY DEF MulTypeOK, Byte
<1>2. /\ A' = 128 * X + A \div 2 /\ X' = X
      /\ B' = 128 * (A % 2) + B \div 2
  BY DEF Registers, Shift, Clear_A, LoadSum, Load_B, ShiftedA
<1> QED BY <1>1, <1>2 DEF Upper

(* The lower bits of a byte, one more at a time. *)
LEMMA BitsOfByte ==
  ASSUME NEW x \in Byte
  PROVE  /\ x % 2 = 0 + 1 * ((x \div 1) % 2)
         /\ x % 4 = (x % 2) + 2 * ((x \div 2) % 2)
         /\ x % 8 = (x % 4) + 4 * ((x \div 4) % 2)
         /\ x % 16 = (x % 8) + 8 * ((x \div 8) % 2)
         /\ x % 32 = (x % 16) + 16 * ((x \div 16) % 2)
         /\ x % 64 = (x % 32) + 32 * ((x \div 32) % 2)
         /\ x % 128 = (x % 64) + 64 * ((x \div 64) % 2)
         /\ Signed(x) = (x % 128) - 128 * ((x \div 128) % 2)
<1>1. x \in Nat /\ x < 256
  BY DEF Byte
<1>2. x % 2 = 0 + 1 * ((x \div 1) % 2) /\ x % 4 = (x % 2) + 2 * ((x \div 2) % 2)
  BY <1>1
<1>3. x % 8 = (x % 4) + 4 * ((x \div 4) % 2) /\ x % 16 = (x % 8) + 8 * ((x \div 8) % 2)
  BY <1>1
<1>4. x % 32 = (x % 16) + 16 * ((x \div 16) % 2)
  BY <1>1
<1>5. x % 64 = (x % 32) + 32 * ((x \div 32) % 2)
  BY <1>1
<1>6. x % 128 = (x % 64) + 64 * ((x \div 64) % 2)
  BY <1>1
<1>7. Signed(x) = (x % 128) - 128 * ((x \div 128) % 2)
  BY <1>1 DEF Signed
<1> QED BY <1>2, <1>3, <1>4, <1>5, <1>6, <1>7

(* An addition, or the subtraction at the end, uses the lowest bit of B. *)
LEMMA UseBit ==
  ASSUME MulTypeOK, curr_state \in {"add", "Subtract"}, X = 1 <=> A >= 128,
         Din = factors[2], Registers
  PROVE  /\ B' = B
         /\ Upper \in Int /\ B \in Int /\ B % 2 \in {0, 1}
         /\ B % 2 = 0 => Upper' = Upper
         /\ B % 2 = 1 /\ curr_state = "add" => Upper' = Upper + S
         /\ B % 2 = 1 /\ curr_state = "Subtract" => Upper' = Upper - S
<1>1. A \in Nat /\ A < 256 /\ B \in Int /\ B < 256 /\ X \in {0, 1}
  BY DEF MulTypeOK, Byte
<1>2. S \in Int /\ Signed(Din) = S /\ Upper \in Int
  BY <1>1, SignedRange DEF MulTypeOK, S, Upper
<1>3. B % 2 \in {0, 1}
  BY <1>1
<1>4. B' = B
  BY DEF Registers, Load_B, Shift
<1>5. B % 2 = 0 => Upper' = Upper
  BY DEF Registers, Clear_A, LoadSum, Shift, M, Upper
<1>6. ASSUME B % 2 = 1
      PROVE  Upper' = IF curr_state = "Subtract" THEN Upper - S ELSE Upper + S
  <2>1. A' = Sum % 256 /\ X' = Sum \div 256
    BY <1>6 DEF Registers, Clear_A, LoadSum, M
  <2>2. Upper' = IF Sub THEN Upper - S ELSE Upper + S
    BY <1>2, <2>1, SumIsExact DEF Upper
  <2> QED BY <1>6, <2>2 DEF Sub, M
<1> QED BY <1>1, <1>2, <1>3, <1>4, <1>5, <1>6

(* The n-th addition, whose bit has the weight 2 ^ (n - 1). *)
LEMMA Addition ==
  ASSUME MulTypeOK, curr_state \in {"add", "Subtract"}, X = 1 <=> A >= 128,
         Din = factors[2], Registers, factors' = factors, n' = n, AddInv
  PROVE  ShiftInv'
<1>1. b \in Byte /\ S \in Int
  BY SignedRange DEF MulTypeOK, S, b
<1>2. b \in Nat /\ b < 256
  BY <1>1 DEF Byte
<1>3. S' = S /\ b' = b
  BY DEF S, b
<1>4. n \in 1 .. 8 /\ (n = 8 => curr_state = "Subtract") /\ (n # 8 => curr_state = "add")
  BY DEF MulTypeOK
<1> DEFINE v == Upper
           v2 == Upper'
<1>u. /\ B' = B
      /\ v \in Int /\ B \in Int /\ B % 2 \in {0, 1}
      /\ B % 2 = 0 => v2 = v
      /\ B % 2 = 1 /\ n # 8 => v2 = v + S
      /\ B % 2 = 1 /\ n = 8 => v2 = v - S
  BY <1>4, UseBit
<1> HIDE DEF v, v2
<1>5. CASE n = 1
  <2> DEFINE h == b \div 1
             p == S * (0)
             p2 == S * (b % 2)
  <2>1. 256 * v + B = 256 * p + h
    BY <1>5 DEF AddInv, Partial, v
  <2>2. b % 2 \in Int /\ (0) \in Int /\ b % 2 = (0) + 1 * (h % 2)
    BY <1>1, <1>2, BitsOfByte, SignedRange
  <2>3. h \in Int /\ p \in Int /\ p2 \in Int
    BY <1>1, <1>2, <2>2
  <2>4. h % 2 = 0 => p2 = p
    BY <1>1, <2>2, <2>3
  <2>5. h % 2 = 1 => p2 = p + 1 * S
    BY <1>1, <2>2, <2>3
  <2> HIDE DEF h, p, p2
  <2>7. 256 * v2 + B' = 256 * p2 + h
    BY <1>5, <1>1, <1>u, <2>1, <2>3, <2>4, <2>5
  <2> QED BY <1>3, <1>u, <1>5, <2>7 DEF ShiftInv, Partial, h, p2, v2
<1>6. CASE n = 2
  <2> DEFINE h == b \div 2
             p == S * (b % 2)
             p2 == S * (b % 4)
  <2>1. 256 * v + B = 128 * p + h
    BY <1>6 DEF AddInv, Partial, v
  <2>2. b % 4 \in Int /\ (b % 2) \in Int /\ b % 4 = (b % 2) + 2 * (h % 2)
    BY <1>1, <1>2, BitsOfByte, SignedRange
  <2>3. h \in Int /\ p \in Int /\ p2 \in Int
    BY <1>1, <1>2, <2>2
  <2>4. h % 2 = 0 => p2 = p
    BY <1>1, <2>2, <2>3
  <2>5. h % 2 = 1 => p2 = p + 2 * S
    BY <1>1, <2>2, <2>3
  <2> HIDE DEF h, p, p2
  <2>7. 256 * v2 + B' = 128 * p2 + h
    BY <1>6, <1>1, <1>u, <2>1, <2>3, <2>4, <2>5
  <2> QED BY <1>3, <1>u, <1>6, <2>7 DEF ShiftInv, Partial, h, p2, v2
<1>7. CASE n = 3
  <2> DEFINE h == b \div 4
             p == S * (b % 4)
             p2 == S * (b % 8)
  <2>1. 256 * v + B = 64 * p + h
    BY <1>7 DEF AddInv, Partial, v
  <2>2. b % 8 \in Int /\ (b % 4) \in Int /\ b % 8 = (b % 4) + 4 * (h % 2)
    BY <1>1, <1>2, BitsOfByte, SignedRange
  <2>3. h \in Int /\ p \in Int /\ p2 \in Int
    BY <1>1, <1>2, <2>2
  <2>4. h % 2 = 0 => p2 = p
    BY <1>1, <2>2, <2>3
  <2>5. h % 2 = 1 => p2 = p + 4 * S
    BY <1>1, <2>2, <2>3
  <2> HIDE DEF h, p, p2
  <2>7. 256 * v2 + B' = 64 * p2 + h
    BY <1>7, <1>1, <1>u, <2>1, <2>3, <2>4, <2>5
  <2> QED BY <1>3, <1>u, <1>7, <2>7 DEF ShiftInv, Partial, h, p2, v2
<1>8. CASE n = 4
  <2> DEFINE h == b \div 8
             p == S * (b % 8)
             p2 == S * (b % 16)
  <2>1. 256 * v + B = 32 * p + h
    BY <1>8 DEF AddInv, Partial, v
  <2>2. b % 16 \in Int /\ (b % 8) \in Int /\ b % 16 = (b % 8) + 8 * (h % 2)
    BY <1>1, <1>2, BitsOfByte, SignedRange
  <2>3. h \in Int /\ p \in Int /\ p2 \in Int
    BY <1>1, <1>2, <2>2
  <2>4. h % 2 = 0 => p2 = p
    BY <1>1, <2>2, <2>3
  <2>5. h % 2 = 1 => p2 = p + 8 * S
    BY <1>1, <2>2, <2>3
  <2> HIDE DEF h, p, p2
  <2>7. 256 * v2 + B' = 32 * p2 + h
    BY <1>8, <1>1, <1>u, <2>1, <2>3, <2>4, <2>5
  <2> QED BY <1>3, <1>u, <1>8, <2>7 DEF ShiftInv, Partial, h, p2, v2
<1>9. CASE n = 5
  <2> DEFINE h == b \div 16
             p == S * (b % 16)
             p2 == S * (b % 32)
  <2>1. 256 * v + B = 16 * p + h
    BY <1>9 DEF AddInv, Partial, v
  <2>2. b % 32 \in Int /\ (b % 16) \in Int /\ b % 32 = (b % 16) + 16 * (h % 2)
    BY <1>1, <1>2, BitsOfByte, SignedRange
  <2>3. h \in Int /\ p \in Int /\ p2 \in Int
    BY <1>1, <1>2, <2>2
  <2>4. h % 2 = 0 => p2 = p
    BY <1>1, <2>2, <2>3
  <2>5. h % 2 = 1 => p2 = p + 16 * S
    BY <1>1, <2>2, <2>3
  <2> HIDE DEF h, p, p2
  <2>7. 256 * v2 + B' = 16 * p2 + h
    BY <1>9, <1>1, <1>u, <2>1, <2>3, <2>4, <2>5
  <2> QED BY <1>3, <1>u, <1>9, <2>7 DEF ShiftInv, Partial, h, p2, v2
<1>10. CASE n = 6
  <2> DEFINE h == b \div 32
             p == S * (b % 32)
             p2 == S * (b % 64)
  <2>1. 256 * v + B = 8 * p + h
    BY <1>10 DEF AddInv, Partial, v
  <2>2. b % 64 \in Int /\ (b % 32) \in Int /\ b % 64 = (b % 32) + 32 * (h % 2)
    BY <1>1, <1>2, BitsOfByte, SignedRange
  <2>3. h \in Int /\ p \in Int /\ p2 \in Int
    BY <1>1, <1>2, <2>2
  <2>4. h % 2 = 0 => p2 = p
    BY <1>1, <2>2, <2>3
  <2>5. h % 2 = 1 => p2 = p + 32 * S
    BY <1>1, <2>2, <2>3
  <2> HIDE DEF h, p, p2
  <2>7. 256 * v2 + B' = 8 * p2 + h
    BY <1>10, <1>1, <1>u, <2>1, <2>3, <2>4, <2>5
  <2> QED BY <1>3, <1>u, <1>10, <2>7 DEF ShiftInv, Partial, h, p2, v2
<1>11. CASE n = 7
  <2> DEFINE h == b \div 64
             p == S * (b % 64)
             p2 == S * (b % 128)
  <2>1. 256 * v + B = 4 * p + h
    BY <1>11 DEF AddInv, Partial, v
  <2>2. b % 128 \in Int /\ (b % 64) \in Int /\ b % 128 = (b % 64) + 64 * (h % 2)
    BY <1>1, <1>2, BitsOfByte, SignedRange
  <2>3. h \in Int /\ p \in Int /\ p2 \in Int
    BY <1>1, <1>2, <2>2
  <2>4. h % 2 = 0 => p2 = p
    BY <1>1, <2>2, <2>3
  <2>5. h % 2 = 1 => p2 = p + 64 * S
    BY <1>1, <2>2, <2>3
  <2> HIDE DEF h, p, p2
  <2>7. 256 * v2 + B' = 4 * p2 + h
    BY <1>11, <1>1, <1>u, <2>1, <2>3, <2>4, <2>5
  <2> QED BY <1>3, <1>u, <1>11, <2>7 DEF ShiftInv, Partial, h, p2, v2
<1>12. CASE n = 8
  <2> DEFINE h == b \div 128
             p == S * (b % 128)
             p2 == S * (Signed(b))
  <2>1. 256 * v + B = 2 * p + h
    BY <1>12 DEF AddInv, Partial, v
  <2>2. Signed(b) \in Int /\ (b % 128) \in Int /\ Signed(b) = (b % 128) - 128 * (h % 2)
    BY <1>1, <1>2, BitsOfByte, SignedRange
  <2>3. h \in Int /\ p \in Int /\ p2 \in Int
    BY <1>1, <1>2, <2>2
  <2>4. h % 2 = 0 => p2 = p
    BY <1>1, <2>2, <2>3
  <2>5. h % 2 = 1 => p2 = p - 128 * S
    BY <1>1, <2>2, <2>3
  <2> HIDE DEF h, p, p2
  <2>7. 256 * v2 + B' = 2 * p2 + h
    BY <1>12, <1>1, <1>u, <2>1, <2>3, <2>4, <2>5
  <2> QED BY <1>3, <1>u, <1>12, <2>7 DEF ShiftInv, Partial, h, p2, v2
<1> QED BY <1>4, <1>5, <1>6, <1>7, <1>8, <1>9, <1>10, <1>11, <1>12

(* The n-th shift makes place for the next bit; the last leaves the product. *)
LEMMA Shifting ==
  ASSUME MulTypeOK, Shift, Registers, factors' = factors, ShiftInv
  PROVE  /\ X' = 1 <=> A' >= 128
         /\ n < 8 /\ n' = n + 1 => AddInv'
         /\ n = 8 => 256 * Upper' + B' = S' * Signed(b')
<1>1. b \in Byte /\ S \in Int
  BY SignedRange DEF MulTypeOK, S, b
<1>2. b \in Nat /\ b < 256 /\ Signed(b) \in Int
  BY <1>1, SignedRange DEF Byte
<1>3. S' = S /\ b' = b
  BY DEF S, b
<1>4. n \in 1 .. 8
  BY DEF MulTypeOK, Shift
<1> DEFINE w == 256 * Upper + B
           w2 == 256 * Upper' + B'
<1>5. w2 = w \div 2 /\ (X' = 1 <=> A' >= 128)
  BY ShiftHalves
<1> HIDE DEF w, w2
<1>6. CASE n = 1
  <2> DEFINE t == S * (b % 2)
  <2>1. w = 256 * t + b \div 1
    BY <1>6 DEF ShiftInv, Partial, w
  <2>2. t \in Int
    BY <1>1, <1>2
  <2> HIDE DEF t
  <2>3. w2 = 128 * t + b \div 2
    BY <1>2, <1>5, <2>1, <2>2
  <2> QED BY <1>3, <1>5, <1>6, <2>3 DEF AddInv, Partial, t, w2
<1>7. CASE n = 2
  <2> DEFINE t == S * (b % 4)
  <2>1. w = 128 * t + b \div 2
    BY <1>7 DEF ShiftInv, Partial, w
  <2>2. t \in Int
    BY <1>1, <1>2
  <2> HIDE DEF t
  <2>3. w2 = 64 * t + b \div 4
    BY <1>2, <1>5, <2>1, <2>2
  <2> QED BY <1>3, <1>5, <1>7, <2>3 DEF AddInv, Partial, t, w2
<1>8. CASE n = 3
  <2> DEFINE t == S * (b % 8)
  <2>1. w = 64 * t + b \div 4
    BY <1>8 DEF ShiftInv, Partial, w
  <2>2. t \in Int
    BY <1>1, <1>2
  <2> HIDE DEF t
  <2>3. w2 = 32 * t + b \div 8
    BY <1>2, <1>5, <2>1, <2>2
  <2> QED BY <1>3, <1>5, <1>8, <2>3 DEF AddInv, Partial, t, w2
<1>9. CASE n = 4
  <2> DEFINE t == S * (b % 16)
  <2>1. w = 32 * t + b \div 8
    BY <1>9 DEF ShiftInv, Partial, w
  <2>2. t \in Int
    BY <1>1, <1>2
  <2> HIDE DEF t
  <2>3. w2 = 16 * t + b \div 16
    BY <1>2, <1>5, <2>1, <2>2
  <2> QED BY <1>3, <1>5, <1>9, <2>3 DEF AddInv, Partial, t, w2
<1>10. CASE n = 5
  <2> DEFINE t == S * (b % 32)
  <2>1. w = 16 * t + b \div 16
    BY <1>10 DEF ShiftInv, Partial, w
  <2>2. t \in Int
    BY <1>1, <1>2
  <2> HIDE DEF t
  <2>3. w2 = 8 * t + b \div 32
    BY <1>2, <1>5, <2>1, <2>2
  <2> QED BY <1>3, <1>5, <1>10, <2>3 DEF AddInv, Partial, t, w2
<1>11. CASE n = 6
  <2> DEFINE t == S * (b % 64)
  <2>1. w = 8 * t + b \div 32
    BY <1>11 DEF ShiftInv, Partial, w
  <2>2. t \in Int
    BY <1>1, <1>2
  <2> HIDE DEF t
  <2>3. w2 = 4 * t + b \div 64
    BY <1>2, <1>5, <2>1, <2>2
  <2> QED BY <1>3, <1>5, <1>11, <2>3 DEF AddInv, Partial, t, w2
<1>12. CASE n = 7
  <2> DEFINE t == S * (b % 128)
  <2>1. w = 4 * t + b \div 64
    BY <1>12 DEF ShiftInv, Partial, w
  <2>2. t \in Int
    BY <1>1, <1>2
  <2> HIDE DEF t
  <2>3. w2 = 2 * t + b \div 128
    BY <1>2, <1>5, <2>1, <2>2
  <2> QED BY <1>3, <1>5, <1>12, <2>3 DEF AddInv, Partial, t, w2
<1>13. CASE n = 8
  <2> DEFINE t == S * (Signed(b))
  <2>1. w = 2 * t + b \div 128
    BY <1>13 DEF ShiftInv, Partial, w
  <2>2. t \in Int
    BY <1>1, <1>2
  <2> HIDE DEF t
  <2>3. w2 = t
    BY <1>2, <1>5, <2>1, <2>2
  <2> QED BY <1>3, <1>5, <1>13, <2>3 DEF AddInv, Partial, t, w2
<1> QED BY <1>4, <1>6, <1>7, <1>8, <1>9, <1>10, <1>11, <1>12, <1>13

LEMMA MulInvStep ==
  MulTypeOK /\ MulTypeOK' /\ MulInv /\ [MulNext]_mulVars => MulInv'
<1> SUFFICES ASSUME MulTypeOK, MulTypeOK', MulInv, [MulNext]_mulVars
             PROVE  MulInv'
  OBVIOUS
<1>1. CASE UNCHANGED mulVars
  BY <1>1 DEF mulVars, MulInv, AddInv, ShiftInv, Partial, Upper, S, b
<1>2. CASE MulNext
  <2>1. Registers /\ Inputs /\ factors' = IF curr_state = "Start" THEN <<B, Din>> ELSE factors
    BY <1>2 DEF MulNext
  <2>2. PICK Run_S, Cloare_S \in BOOLEAN : Control(Run_S, Cloare_S)
    BY <1>2 DEF MulNext
  <2>3. CASE Cloare_S \/ curr_state \in {"Initial", "Wait"}
    <3>1. curr_state' \in {"Initial", "Wait", "Start"}
      BY <2>2, <2>3 DEF Control, Next_state, To
    <3> QED BY <3>1 DEF MulInv
  <2>4. CASE ~Cloare_S /\ curr_state = "Start"
    <3>1. curr_state' = "add" /\ n' = 1
      BY <2>2, <2>4 DEF Control, Next_state, To
    <3>2. A' = 0 /\ X' = 0 /\ B' = B /\ Din' = Din /\ factors' = <<B, Din>>
      BY <2>1, <2>4 DEF Registers, Inputs, Clear_A, Load_B, Shift
    <3>3. b' = B /\ Upper' = 0 /\ B \in Int
      BY <3>2 DEF b, Upper, MulTypeOK, Byte
    <3>4. S' \in Int
      <4>1. S' = Signed(Din) /\ Din \in Byte
        BY <3>2 DEF S, MulTypeOK
      <4> QED BY <4>1, SignedRange
    <3>5. 256 * Upper' + B' = 256 * (S' * 0) + b' \div 1
      <4>1. \A s, x \in Int : s * 0 = 0 /\ x \div 1 = x
        OBVIOUS
      <4>2. S' * 0 = 0 /\ B \div 1 = B
        BY <3>3, <3>4, <4>1
      <4> QED BY <3>2, <3>3, <4>2
    <3>6. AddInv'
      BY <3>1, <3>5 DEF AddInv, Partial
    <3> QED BY <3>1, <3>2, <3>6 DEF MulInv
  <2>5. CASE ~Cloare_S /\ curr_state \in {"add", "Subtract"}
    <3>1. curr_state' = "shift" /\ n' = n
      BY <2>2, <2>5 DEF Control, Next_state, To, MulTypeOK
    <3>2. factors' = factors /\ Din' = Din
      BY <2>1, <2>5 DEF Inputs
    <3>3. AddInv /\ (X = 1 <=> A >= 128) /\ Din = factors[2]
      BY <2>5 DEF MulInv
    <3>4. ShiftInv'
      BY <2>1, <2>5, <3>1, <3>2, <3>3, Addition
    <3> QED BY <3>1, <3>2, <3>3, <3>4 DEF MulInv
  <2>6. CASE ~Cloare_S /\ curr_state = "shift"
    <3>1. \/ curr_state' \in {"add", "Subtract"} /\ n < 8 /\ n' = n + 1
          \/ curr_state' = "End" /\ n = 8
      BY <2>2, <2>6 DEF Control, Next_state, To, MulTypeOK
    <3>2. factors' = factors /\ Din' = Din
      BY <2>1, <2>6 DEF Inputs
    <3>3. ShiftInv /\ Din = factors[2]
      BY <2>6 DEF MulInv
    <3>4. /\ X' = 1 <=> A' >= 128
          /\ n < 8 /\ n' = n + 1 => AddInv'
          /\ n = 8 => 256 * Upper' + B' = S' * Signed(b')
      BY <2>1, <2>6, <3>2, <3>3, Shifting DEF Shift
    <3> QED BY <3>1, <3>2, <3>3, <3>4 DEF MulInv
  <2>7. CASE ~Cloare_S /\ curr_state = "End"
    <3>1. curr_state' \in {"End", "Wait"}
      BY <2>2, <2>7 DEF Control, Next_state, To
    <3>2. A' = A /\ B' = B /\ X' = X /\ factors' = factors
      BY <2>1, <2>7 DEF Registers, Clear_A, LoadSum, Load_B, Shift
    <3> QED BY <2>7, <3>1, <3>2 DEF MulInv, Upper, S, b
  <2> QED BY <2>3, <2>4, <2>5, <2>6, <2>7 DEF MulTypeOK
<1> QED BY <1>1, <1>2

(* Control.sv:30-62: whatever the switches were at, the registers hold the *)
(* signed product when a run has ended, also of bytes left by another run. *)
THEOREM MultiplierMultiplies == MulSpec => []ProductCorrect
<1>1. MulInit => MulTypeOK /\ MulInv
  BY SwitchesAreBytes DEF MulInit, MulTypeOK, MulInv, Byte
<1>2. MulTypeOK /\ MulInv => ProductCorrect
  <2> SUFFICES ASSUME MulTypeOK, MulInv, curr_state = "End"
               PROVE  256 * Signed(A) + B = Signed(factors[1]) * Signed(factors[2])
    BY DEF ProductCorrect
  <2>1. 256 * Upper + B = S * Signed(b) /\ (X = 1 <=> A >= 128)
    BY DEF MulInv
  <2>2. Signed(A) = Upper
    BY <2>1 DEF MulTypeOK, Byte, Signed, Upper
  <2>3. S \in Int /\ Signed(b) \in Int
    BY SignedRange DEF MulTypeOK, S, b
  <2> HIDE DEF Upper
  <2> QED BY <2>1, <2>2, <2>3 DEF S, b
<1> QED BY <1>1, <1>2, MulTypeStep, MulInvStep, PTL DEF MulSpec

(***************************************************************************)
(* The ball and the video signal that clocks it.                           *)
(***************************************************************************)

(* Along one axis: at most one pixel past an edge, and not going on.       *)
Held(pos, motion, max) ==
  /\ pos \in Int /\ 3 <= pos /\ pos <= max - 3
  /\ motion \in {0, Forward, Back}
  /\ pos = max - 3 => motion # Forward
  /\ pos = 3 => motion # Back

BallInv ==
  /\ Held(Ball_X_Pos, Ball_X_Motion, Ball_X_Max)
  /\ Held(Ball_Y_Pos, Ball_Y_Motion, Ball_Y_Max)

LEMMA BallFrame ==
  ASSUME BallInv, Frame
  PROVE  BallInv'
<1>1. PICK key \in Keys \cup {"none"} : Move_Ball(key)
  BY DEF Frame
<1>2. /\ Ball_X_Max \in 10 .. 1000 /\ Ball_Y_Max \in 10 .. 1000
      /\ Ball_X_Pos \in Int /\ Ball_Y_Pos \in Int
      /\ 3 <= Ball_X_Pos /\ Ball_X_Pos <= Ball_X_Max - 3
      /\ 3 <= Ball_Y_Pos /\ Ball_Y_Pos <= Ball_Y_Max - 3
      /\ Ball_X_Motion \in {0, Forward, Back} /\ Ball_Y_Motion \in {0, Forward, Back}
  BY BallAssumption DEF BallInv, Held
<1>3. /\ AtRight <=> Ball_X_Pos + 4 >= Ball_X_Max
      /\ AtLeft <=> Ball_X_Pos - 4 <= 0
      /\ AtBottom <=> Ball_Y_Pos + 4 >= Ball_Y_Max
      /\ AtTop <=> Ball_Y_Pos - 4 <= 0
  BY <1>2 DEF AtRight, AtLeft, AtBottom, AtTop, Ball_Size, Ball_X_Min, Ball_Y_Min
<1>4. ~(AtRight /\ AtLeft) /\ ~(AtBottom /\ AtTop)
  <2>1. /\ ~(Ball_X_Pos + 4 >= Ball_X_Max /\ Ball_X_Pos - 4 <= 0)
        /\ ~(Ball_Y_Pos + 4 >= Ball_Y_Max /\ Ball_Y_Pos - 4 <= 0)
    BY <1>2
  <2> QED BY <1>3, <2>1
<1>5. Forward # Back /\ Forward # 0 /\ Back # 0
  BY DEF Forward, Back
<1>6. /\ Ball_X_Motion' \in {0, Forward, Back} /\ Ball_Y_Motion' \in {0, Forward, Back}
      /\ AtRight => Ball_X_Motion' # Forward
      /\ AtLeft => Ball_X_Motion' # Back
      /\ AtBottom => Ball_Y_Motion' # Forward
      /\ AtTop => Ball_Y_Motion' # Back
  <2>1. CASE key \in Keys
    BY <1>1, <1>4, <1>5, <2>1 DEF Move_Ball, KeyMotion, Motion, Keys
  <2>2. CASE key \notin Keys
    BY <1>1, <1>2, <1>4, <1>5, <2>2 DEF Move_Ball, Bounce, Motion
  <2> QED BY <2>1, <2>2
<1>7. /\ Ball_X_Pos' = (Ball_X_Pos + Ball_X_Motion) % 1024
      /\ Ball_Y_Pos' = (Ball_Y_Pos + Ball_Y_Motion) % 1024
  BY <1>1 DEF Move_Ball
<1>8. Held(Ball_X_Pos', Ball_X_Motion', Ball_X_Max)
  <2>1. /\ Ball_X_Pos + 4 >= Ball_X_Max => Ball_X_Motion' # Forward
        /\ Ball_X_Pos - 4 <= 0 => Ball_X_Motion' # Back
    BY <1>3, <1>6
  <2>2. Held(Ball_X_Pos, Ball_X_Motion, Ball_X_Max)
    BY DEF BallInv
  <2> QED BY <1>2, <1>6, <1>7, <2>1, <2>2 DEF Held, Forward, Back
<1>9. Held(Ball_Y_Pos', Ball_Y_Motion', Ball_Y_Max)
  <2>1. /\ Ball_Y_Pos + 4 >= Ball_Y_Max => Ball_Y_Motion' # Forward
        /\ Ball_Y_Pos - 4 <= 0 => Ball_Y_Motion' # Back
    BY <1>3, <1>6
  <2>2. Held(Ball_Y_Pos, Ball_Y_Motion, Ball_Y_Max)
    BY DEF BallInv
  <2> QED BY <1>2, <1>6, <1>7, <2>1, <2>2 DEF Held, Forward, Back
<1> QED BY <1>8, <1>9 DEF BallInv

LEMMA BallCentered ==
  ASSUME Centered
  PROVE  BallInv
BY BallAssumption DEF Centered, BallInv, Held, Forward, Back

LEMMA BallPutBack ==
  ASSUME BallReset
  PROVE  BallInv'
BY BallAssumption DEF BallReset, Motion, BallInv, Held, Forward, Back

LEMMA BallUntouched ==
  ASSUME BallInv, UNCHANGED ballVars
  PROVE  BallInv'
BY DEF BallInv, ballVars
-----------------------------------------------------------------------------
(* What the counters say of the pulses: the horizontal one lies right of   *)
(* the picture, the vertical one below it, up to the first pixel of its    *)
(* third line.  A reset leaves both low, with a ball that rests.           *)
AfterReset == hc = 0 /\ vc = 0 /\ Ball_X_Motion = 0 /\ Ball_Y_Motion = 0

RasterInv ==
  /\ hc \in Nat /\ hc <= hpixels /\ vc \in Nat /\ vc <= vlines
  /\ {clkdiv, hs, vs} \subseteq BOOLEAN
  /\ ~hs => hc >= Width \/ AfterReset
  /\ ~vs => \/ vc \in {VSyncFirst - 1, VSyncFirst}
            \/ vc = VSyncFirst + 1 /\ hc = 0
            \/ AfterReset

VideoInv == BallInv /\ RasterInv

LEMMA RasterStep ==
  ASSUME RasterInv, Clk
  PROVE  RasterInv'
<1>1. /\ hpixels \in Nat /\ vlines \in Nat /\ Width \in Nat /\ VSyncFirst \in Nat
      /\ HSyncFirst \in Int /\ HSyncEnd \in Int
      /\ Width < HSyncFirst /\ HSyncFirst < HSyncEnd /\ HSyncEnd <= hpixels
      /\ 0 < VSyncFirst /\ VSyncFirst < vlines
  BY RasterAssumption
<1>2. /\ hc \in Nat /\ hc <= hpixels /\ vc \in Nat /\ vc <= vlines
      /\ {clkdiv, hs, vs} \subseteq BOOLEAN
  BY DEF RasterInv
<1>3. CASE clkdiv
  <2>1. UNCHANGED <<hc, vc, hs, vs>>
    BY <1>3 DEF Clk, PixelEdge
  <2>3. clkdiv' \in BOOLEAN
    BY DEF Clk
  <2>2. UNCHANGED ballVars
    BY <2>1, <1>2 DEF Clk, FrameEdge
  <2> QED BY <1>2, <2>1, <2>2, <2>3 DEF RasterInv, AfterReset, ballVars
<1>4. CASE ~clkdiv
  <2>1. /\ hc' = IF hc = hpixels THEN 0 ELSE hc + 1
        /\ vc' = IF hc # hpixels THEN vc ELSE IF vc = vlines THEN 0 ELSE vc + 1
    BY <1>4 DEF Clk, PixelEdge, Counters
  <2>2. /\ hc' \in Nat /\ hc' <= hpixels /\ vc' \in Nat /\ vc' <= vlines
    BY <1>1, <1>2, <2>1
  <2>3. hs' = HSync /\ vs' = VSync /\ clkdiv' = TRUE
    BY <1>2, <1>4 DEF Clk, PixelEdge
  <2>4. {clkdiv', hs', vs'} \subseteq BOOLEAN
    BY <2>3 DEF HSync, VSync
  <2>5. ASSUME ~hs'
        PROVE  hc' >= Width
    <3>1. hc + 1 \in HSyncFirst .. HSyncEnd - 1
      BY <2>3, <2>5 DEF HSync
    <3> QED BY <1>1, <1>2, <2>1, <3>1
  <2>6. ASSUME ~vs'
        PROVE  vc' \in {VSyncFirst - 1, VSyncFirst} \/ (vc' = VSyncFirst + 1 /\ hc' = 0)
    <3>1. vc + 1 \in {VSyncFirst, VSyncFirst + 1}
      BY <2>3, <2>6 DEF VSync
    <3> QED BY <1>1, <1>2, <2>1, <3>1
  <2> QED BY <2>2, <2>4, <2>5, <2>6 DEF RasterInv
<1> QED BY <1>2, <1>3, <1>4

LEMMA VideoStep == VideoInv /\ [VideoNext]_videoVars => VideoInv'
<1> SUFFICES ASSUME VideoInv, [VideoNext]_videoVars PROVE VideoInv'
  OBVIOUS
<1>1. CASE Clk
  <2>1. Frame \/ UNCHANGED ballVars
    BY <1>1 DEF Clk
  <2>2. BallInv'
    BY <2>1, BallFrame, BallUntouched DEF VideoInv
  <2>3. RasterInv'
    BY <1>1, RasterStep DEF VideoInv
  <2> QED BY <2>2, <2>3 DEF VideoInv
<1>2. CASE VideoReset
  <2>1. BallInv'
    BY <1>2, BallPutBack DEF VideoReset
  <2>2. RasterInv'
    <3>1. hc' = 0 /\ vc' = 0 /\ Ball_X_Motion' = 0 /\ Ball_Y_Motion' = 0
      BY <1>2 DEF VideoReset, BallReset, Motion
    <3>2. {clkdiv', hs', vs'} \subseteq BOOLEAN
      BY <1>2 DEF VideoReset
    <3>3. hpixels \in Nat /\ vlines \in Nat
      BY RasterAssumption
    <3> QED BY <3>1, <3>2, <3>3 DEF RasterInv, AfterReset
  <2> QED BY <2>1, <2>2 DEF VideoInv
<1>3. CASE UNCHANGED videoVars
  <2>1. BallInv'
    BY <1>3, BallUntouched DEF VideoInv, videoVars
  <2>2. RasterInv'
    BY <1>3 DEF VideoInv, RasterInv, AfterReset, videoVars, rasterVars, ballVars
  <2> QED BY <2>1, <2>2 DEF VideoInv
<1> QED BY <1>1, <1>2, <1>3 DEF VideoNext

LEMMA VideoStart == VideoInit => VideoInv
<1> SUFFICES ASSUME VideoInit PROVE VideoInv
  OBVIOUS
<1>1. BallInv
  BY BallCentered DEF VideoInit
<1>2. RasterInv
  <2>1. hc = 0 /\ vc = 0 /\ Ball_X_Motion = 0 /\ Ball_Y_Motion = 0
    BY DEF VideoInit, Centered
  <2>2. {clkdiv, hs, vs} \subseteq BOOLEAN
    BY DEF VideoInit
  <2>3. hpixels \in Nat /\ vlines \in Nat
    BY RasterAssumption
  <2> QED BY <2>1, <2>2, <2>3 DEF RasterInv, AfterReset
<1> QED BY <1>1, <1>2 DEF VideoInv

(* ball.sv:55-135: on a screen of any size, and under every key, the ball  *)
(* runs at most one pixel past an edge.                                    *)
THEOREM BallStays == VideoSpec => []BallStaysOnScreen
<1>1. VideoInv => BallStaysOnScreen
  BY BallAssumption DEF VideoInv, BallInv, Held, BallStaysOnScreen, Ball_Size
<1> QED BY <1>1, VideoStart, VideoStep, PTL DEF VideoSpec

(* VGA_controller.sv:86-111: for any raster, the pulses lie outside the    *)
(* picture, but for its first pixel after a reset.                         *)
THEOREM SyncStaysOutside == VideoSpec => []SyncOutsidePicture
<1>1. VideoInv => SyncOutsidePicture
  <2> SUFFICES ASSUME VideoInv, ~hs \/ ~vs, ~(hc = 0 /\ vc = 0)
               PROVE  ~display
    BY DEF SyncOutsidePicture
  <2>1. hc \in Nat /\ vc \in Nat /\ Width \in Nat /\ Height \in Nat /\ VSyncFirst \in Nat
        /\ Height < VSyncFirst
    BY RasterAssumption DEF VideoInv, RasterInv
  <2>2. hc >= Width \/ vc >= Height
    BY <2>1 DEF VideoInv, RasterInv, AfterReset
  <2> QED BY <2>1, <2>2 DEF display
<1> QED BY <1>1, VideoStart, VideoStep, PTL DEF VideoSpec

(* lab62.sv:164-166: for any raster, the ball moves only outside the       *)
(* picture; the edge that follows a reset finds it at rest.                *)
THEOREM PictureNeverTears == VideoSpec => NoTearing
<1>1. VideoInv /\ [VideoNext]_videoVars =>
        [<<Ball_X_Pos, Ball_Y_Pos>>' # <<Ball_X_Pos, Ball_Y_Pos>> =>
            ~display' \/ VideoReset]_videoVars
  <2> SUFFICES ASSUME VideoInv, VideoNext, ~VideoReset,
                      <<Ball_X_Pos, Ball_Y_Pos>>' # <<Ball_X_Pos, Ball_Y_Pos>>
               PROVE  ~display'
    BY DEF videoVars, ballVars
  <2>1. Clk /\ ~vs /\ vs' /\ Frame
    BY DEF VideoNext, Clk, FrameEdge, ballVars
  <2>2. /\ hc \in Nat /\ vc \in Nat /\ Height \in Nat /\ VSyncFirst \in Nat
        /\ Height < VSyncFirst /\ hpixels \in Nat /\ 0 < hpixels
    BY RasterAssumption DEF VideoInv, RasterInv
  <2>3. ~AfterReset
    <3> SUFFICES ASSUME AfterReset PROVE FALSE
      OBVIOUS
    <3>1. /\ Ball_X_Pos' = (Ball_X_Pos + 0) % 1024
          /\ Ball_Y_Pos' = (Ball_Y_Pos + 0) % 1024
      BY <2>1 DEF Frame, Move_Ball, AfterReset
    <3>2. Ball_X_Pos \in 0 .. 1000 /\ Ball_Y_Pos \in 0 .. 1000
      BY BallAssumption DEF VideoInv, BallInv, Held
    <3> QED BY <3>1, <3>2
  <2>4. PixelEdge
    <3> SUFFICES ASSUME ~PixelEdge PROVE FALSE
      OBVIOUS
    <3>1. vs' = vs
      BY <2>1 DEF Clk
    <3> QED BY <2>1, <3>1
  <2>5. vs' = VSync /\ vc' = (IF hc # hpixels THEN vc ELSE IF vc = vlines THEN 0 ELSE vc + 1)
    BY <2>1, <2>4 DEF Clk, Counters
  <2>6. vc = VSyncFirst + 1 /\ hc = 0
    <3>1. vc + 1 # VSyncFirst /\ vc + 1 # VSyncFirst + 1
      BY <2>1, <2>5 DEF VSync
    <3> QED BY <2>1, <2>2, <2>3, <3>1 DEF VideoInv, RasterInv
  <2> QED BY <2>2, <2>5, <2>6 DEF display
<1> QED BY <1>1, VideoStart, VideoStep, PTL DEF VideoSpec, NoTearing

(***************************************************************************)
(* The text display.                                                       *)
(***************************************************************************)

Texts == [cell : Cells, fg : ColorNumbers, bg : ColorNumbers, glyph : Nat]

TextTypes ==
  /\ palette \in [PaletteWords -> [Halves -> Nat]]
  /\ shadow \in [PaletteWords -> [Halves -> Nat]]
  /\ vram \in [0 .. 2 * CellCount - 1 -> Nat]
  /\ doing \in {"clear", "palette", "choose", "draw"}
  /\ step \in 0 .. 3 /\ i \in Nat
  /\ word \in [Halves -> Nat]
  /\ string \in Texts /\ drawn \in [Cells -> Texts]
  /\ set \subseteq ColorNumbers

(* How far the driver is: the colours are set in order, before any text.   *)
Progress ==
  /\ doing = "clear" => i < 2 * CellCount /\ step = 0 /\ set = {}
  /\ doing = "palette" => i \in ColorNumbers /\ set = {c \in ColorNumbers : c < i}
  /\ doing \in {"clear", "palette"} => \A x \in Cells : drawn[x] = NoString
  /\ doing \in {"choose", "draw"} => set = ColorNumbers
  /\ doing = "choose" => step = 0
  /\ doing = "draw" => step \in {0, 1}

(* The memory behind the palette has the colours, too, and so has a word   *)
(* that was read from it.                                                  *)
Colored(words) == \A c \in set : words[c \div 2][c % 2] = ColorTable[c]

ColorInv ==
  /\ Colored(palette) /\ Colored(shadow)
  /\ doing = "palette" /\ step \in {1, 3} =>
       \A c \in set : c \div 2 = i \div 2 => word[c % 2] = ColorTable[c]

(* Every text is in the memory of its cell, one that is half drawn over    *)
(* excepted.                                                               *)
HalfDrawn(x) == doing = "draw" /\ step = 1 /\ x = string.cell

TextInv ==
  /\ \A x \in Cells : drawn[x] # NoString /\ ~HalfDrawn(x) =>
       vram[2 * x] = ColorByte(drawn[x]) /\ vram[2 * x + 1] = drawn[x].glyph
  /\ doing = "draw" /\ step = 1 => vram[2 * string.cell] = ColorByte(string)

DisplayInv == TextTypes /\ Progress /\ ColorInv /\ TextInv

LEMMA ColorFacts ==
  /\ ColorNumbers \subseteq 0 .. 15 /\ 0 \in ColorNumbers
  /\ \A c \in ColorNumbers : /\ c \in Nat /\ c \div 2 \in PaletteWords /\ c % 2 \in Halves
                             /\ ColorTable[c] \in Nat
                             /\ \A d \in Nat : d < c => d \in ColorNumbers
  /\ \A c, d \in ColorNumbers : c \div 2 = d \div 2 /\ c % 2 = d % 2 => c = d
<1>1. PICK m \in 1 .. 8 : ColorTable \in [0 .. 2 * m - 1 -> Nat]
  BY TextAssumption
<1>2. ColorNumbers = 0 .. 2 * m - 1
  BY <1>1 DEF ColorNumbers
<1>3. ColorNumbers \subseteq 0 .. 15 /\ 0 \in ColorNumbers
  BY <1>1, <1>2
<1>4. \A c \in ColorNumbers : c % 2 \in Halves
  BY <1>2 DEF Halves
<1>5. \A c \in ColorNumbers : c \in Nat /\ ColorTable[c] \in Nat /\ \A d \in Nat : d < c => d \in ColorNumbers
  BY <1>1, <1>2
<1>6. \A c \in ColorNumbers : c \div 2 \in PaletteWords
  BY DEF PaletteWords
<1>7. \A c, d \in ColorNumbers : c \div 2 = d \div 2 /\ c % 2 = d % 2 => c = d
  BY <1>3
<1> QED BY <1>3, <1>4, <1>5, <1>6, <1>7

LEMMA CellFacts ==
  /\ 0 \in Cells
  /\ \A x \in Cells : x \in Nat /\ 2 * x \in 0 .. 2 * CellCount - 1 /\ 2 * x + 1 \in 0 .. 2 * CellCount - 1
BY TextAssumption DEF Cells

LEMMA NoStringType == NoString \in Texts
BY ColorFacts, CellFacts DEF NoString, Texts

LEMMA ColorByteType ==
  ASSUME NEW s \in Texts
  PROVE  ColorByte(s) \in Nat /\ ColorByte(s) \div 16 = s.fg /\ ColorByte(s) % 16 = s.bg
<1>1. s.fg \in 0 .. 15 /\ s.bg \in 0 .. 15
  BY ColorFacts DEF Texts
<1> QED BY <1>1 DEF ColorByte

(* One write of the palette, of any word at the place of colour i.         *)
LEMMA PaletteTypes ==
  ASSUME TextTypes, i \in ColorNumbers, NEW w \in [Halves -> Nat], WritePalette(i \div 2, w)
  PROVE  /\ palette' \in [PaletteWords -> [Halves -> Nat]]
         /\ shadow' \in [PaletteWords -> [Halves -> Nat]]
         /\ palette'[i \div 2] = w /\ shadow'[i \div 2] = w
         /\ \A k \in PaletteWords : k # i \div 2 => palette'[k] = palette[k] /\ shadow'[k] = shadow[k]
BY ColorFacts DEF TextTypes, WritePalette

LEMMA DisplayStart == TxtInit => DisplayInv
<1> SUFFICES ASSUME TxtInit PROVE DisplayInv
  OBVIOUS
<1>1. PICK v \in PowerUp : palette = [k \in PaletteWords |-> [h \in Halves |-> v]]
  BY DEF TxtInit
<1>2. TextTypes
  <2>1. palette \in [PaletteWords -> [Halves -> Nat]]
    BY <1>1, TextAssumption
  <2>2. drawn \in [Cells -> Texts] /\ string \in Texts
    BY NoStringType DEF TxtInit
  <2> QED BY <2>1, <2>2, TextAssumption DEF TxtInit, TextTypes
<1>3. Progress
  BY TextAssumption DEF TxtInit, Progress
<1>4. ColorInv
  BY DEF TxtInit, ColorInv, Colored
<1>5. TextInv
  BY DEF TxtInit, TextInv
<1> QED BY <1>2, <1>3, <1>4, <1>5 DEF DisplayInv

LEMMA Cleared ==
  ASSUME DisplayInv, ClearByte
  PROVE  DisplayInv'
<1>1. TextTypes /\ Progress
  BY DEF DisplayInv
<1>2. i < 2 * CellCount /\ step = 0 /\ set = {} /\ i \in Nat /\ \A x \in Cells : drawn[x] = NoString
  BY <1>1 DEF ClearByte, Progress, TextTypes
<1>3. /\ vram' = [vram EXCEPT ![i] = 0]
      /\ step' = step /\ set' = set /\ drawn' = drawn /\ palette' = palette /\ shadow' = shadow
      /\ word' = word /\ string' = string
  BY DEF ClearByte
<1>4. \/ doing' = "palette" /\ i' = 0
      \/ doing' = "clear" /\ i' = i + 1 /\ i # 2 * CellCount - 1
  BY DEF ClearByte
<1>5. TextTypes'
  <2>1. vram' \in [0 .. 2 * CellCount - 1 -> Nat]
    BY <1>1, <1>3 DEF TextTypes
  <2>2. i' \in Nat /\ doing' \in {"clear", "palette", "choose", "draw"}
    <3>1. CASE doing' = "palette" /\ i' = 0
      BY <3>1
    <3>2. CASE doing' = "clear" /\ i' = i + 1
      BY <1>2, <3>2
    <3> QED BY <1>4, <3>1, <3>2
  <2> QED BY <1>1, <1>3, <2>1, <2>2 DEF TextTypes
<1>6. Progress'
  <2>1. CASE doing' = "palette" /\ i' = 0
    <3>1. 0 \in ColorNumbers /\ \A c \in ColorNumbers : c \in Nat
      BY ColorFacts
    <3>2. {c \in ColorNumbers : c < 0} = {}
      BY <3>1
    <3> QED BY <1>2, <1>3, <2>1, <3>1, <3>2 DEF Progress
  <2>2. CASE doing' = "clear" /\ i' = i + 1 /\ i # 2 * CellCount - 1
    <3>1. i' < 2 * CellCount
      BY <1>2, <2>2, TextAssumption
    <3> QED BY <1>2, <1>3, <2>2, <3>1 DEF Progress
  <2> QED BY <1>4, <2>1, <2>2
<1>7. ColorInv'
  BY <1>2, <1>3 DEF ColorInv, Colored
<1>8. TextInv'
  BY <1>2, <1>3, <1>4 DEF TextInv
<1> QED BY <1>5, <1>6, <1>7, <1>8 DEF DisplayInv

LEMMA PaletteRead ==
  ASSUME DisplayInv, ReadPalette
  PROVE  DisplayInv'
<1>1. TextTypes /\ Progress /\ ColorInv
  BY DEF DisplayInv
<1>2. i \in ColorNumbers /\ i \div 2 \in PaletteWords
  BY <1>1, ColorFacts DEF Progress, ReadPalette
<1>3. word' = shadow[i \div 2] /\ word' \in [Halves -> Nat]
  BY <1>1, <1>2 DEF ReadPalette, TextTypes
<1>4. /\ step' \in 0 .. 3 /\ doing = "palette" /\ doing' = doing
      /\ i' = i /\ set' = set /\ drawn' = drawn /\ palette' = palette /\ shadow' = shadow
      /\ vram' = vram /\ string' = string
  BY DEF ReadPalette
<1>5. TextTypes'
  BY <1>1, <1>3, <1>4 DEF TextTypes
<1>6. Progress'
  BY <1>1, <1>4 DEF Progress
<1>7. ColorInv'
  <2>1. \A c \in set : c \div 2 = i \div 2 => word'[c % 2] = ColorTable[c]
    BY <1>1, <1>3 DEF ColorInv, Colored
  <2> QED BY <1>1, <1>4, <2>1 DEF ColorInv, Colored
<1>8. TextInv'
  <2>1. \A x \in Cells : drawn[x] = NoString
    BY <1>1, <1>4 DEF Progress
  <2> QED BY <1>4, <2>1 DEF TextInv
<1> QED BY <1>5, <1>6, <1>7, <1>8 DEF DisplayInv

LEMMA MaskedWritten ==
  ASSUME DisplayInv, WriteMasked
  PROVE  DisplayInv'
<1>1. TextTypes /\ Progress /\ ColorInv
  BY DEF DisplayInv
<1> DEFINE w == Kept(i, word)
<1>2. i \in ColorNumbers /\ i \in Nat /\ i % 2 \in Halves /\ doing = "palette" /\ step = 1
      /\ set = {c \in ColorNumbers : c < i}
  BY <1>1, ColorFacts DEF Progress, WriteMasked
<1>3. w \in [Halves -> Nat] /\ \A h \in Halves : h # i % 2 => w[h] = word[h]
  BY <1>1, <1>2 DEF Kept, TextTypes
<1>4. WritePalette(i \div 2, w)
  BY DEF WriteMasked
<1> HIDE DEF w
<1>5. /\ palette' \in [PaletteWords -> [Halves -> Nat]]
      /\ shadow' \in [PaletteWords -> [Halves -> Nat]]
      /\ palette'[i \div 2] = w /\ shadow'[i \div 2] = w
      /\ \A k \in PaletteWords : k # i \div 2 => palette'[k] = palette[k] /\ shadow'[k] = shadow[k]
  BY <1>1, <1>2, <1>3, <1>4, PaletteTypes
<1>6. step' = 2 /\ UNCHANGED <<vram, doing, i, word, string, set, drawn>>
  BY DEF WriteMasked
<1>7. TextTypes'
  BY <1>1, <1>5, <1>6 DEF TextTypes
<1>8. Progress'
  BY <1>1, <1>2, <1>6 DEF Progress
<1>9. ColorInv'
  <2>1. ASSUME NEW c \in set
        PROVE  palette'[c \div 2][c % 2] = ColorTable[c] /\ shadow'[c \div 2][c % 2] = ColorTable[c]
    <3>1. c \in ColorNumbers /\ c # i /\ c \div 2 \in PaletteWords /\ c % 2 \in Halves
      BY <1>2, ColorFacts
    <3>2. CASE c \div 2 = i \div 2
      <4>1. c % 2 # i % 2
        BY <1>2, <3>1, <3>2, ColorFacts
      <4>2. word[c % 2] = ColorTable[c]
        BY <1>1, <1>2, <3>2 DEF ColorInv
      <4> QED BY <1>3, <1>5, <3>1, <3>2, <4>1, <4>2
    <3>3. CASE c \div 2 # i \div 2
      BY <1>1, <1>5, <3>1, <3>3 DEF ColorInv, Colored
    <3> QED BY <3>2, <3>3
  <2> QED BY <1>6, <2>1 DEF ColorInv, Colored
<1>10. TextInv'
  BY <1>1, <1>2, <1>6 DEF TextInv, Progress
<1> QED BY <1>7, <1>8, <1>9, <1>10 DEF DisplayInv

LEMMA ColorWritten ==
  ASSUME DisplayInv, WriteJoined
  PROVE  DisplayInv'
<1>1. TextTypes /\ Progress /\ ColorInv
  BY DEF DisplayInv
<1> DEFINE w == WithColor(i, word)
<1>2. i \in ColorNumbers /\ i \in Nat /\ i % 2 \in Halves /\ doing = "palette" /\ step = 3
      /\ set = {c \in ColorNumbers : c < i} /\ ColorTable[i] \in Nat /\ i \div 2 \in PaletteWords
  BY <1>1, ColorFacts DEF Progress, WriteJoined
<1>3. w \in [Halves -> Nat] /\ w[i % 2] = ColorTable[i] /\ \A h \in Halves : h # i % 2 => w[h] = word[h]
  BY <1>1, <1>2 DEF WithColor, TextTypes
<1>4. WritePalette(i \div 2, w)
  BY DEF WriteJoined
<1> HIDE DEF w
<1>5. /\ palette' \in [PaletteWords -> [Halves -> Nat]]
      /\ shadow' \in [PaletteWords -> [Halves -> Nat]]
      /\ palette'[i \div 2] = w /\ shadow'[i \div 2] = w
      /\ \A k \in PaletteWords : k # i \div 2 => palette'[k] = palette[k] /\ shadow'[k] = shadow[k]
  BY <1>1, <1>2, <1>3, <1>4, PaletteTypes
<1>6. step' = 0 /\ set' = set \cup {i} /\ UNCHANGED <<vram, word, string, drawn>>
  BY DEF WriteJoined
<1>7. \/ i + 1 \in ColorNumbers /\ doing' = doing /\ i' = i + 1
      \/ i + 1 \notin ColorNumbers /\ doing' = "choose" /\ i' = 0
  BY DEF WriteJoined
<1>8. TextTypes'
  <2>1. i' \in Nat /\ doing' \in {"clear", "palette", "choose", "draw"} /\ set' \subseteq ColorNumbers
    BY <1>1, <1>2, <1>6, <1>7 DEF TextTypes
  <2> QED BY <1>1, <1>5, <1>6, <2>1 DEF TextTypes
<1>9. Progress'
  <2>1. CASE i + 1 \in ColorNumbers /\ doing' = doing /\ i' = i + 1
    <3>1. set' = {c \in ColorNumbers : c < i + 1}
      <4>1. \A c \in ColorNumbers : c < i + 1 <=> c < i \/ c = i
        BY <1>2, ColorFacts
      <4> QED BY <1>2, <1>6, <4>1
    <3> QED BY <1>1, <1>2, <1>6, <2>1, <3>1 DEF Progress
  <2>2. CASE i + 1 \notin ColorNumbers /\ doing' = "choose" /\ i' = 0
    <3>1. \A c \in ColorNumbers : c < i \/ c = i
      <4> SUFFICES ASSUME NEW c \in ColorNumbers, c > i PROVE FALSE
        BY <1>2, ColorFacts
      <4>1. i + 1 < c \/ i + 1 = c
        BY <1>2, ColorFacts
      <4> QED BY <1>2, <2>2, <4>1, ColorFacts
    <3>2. set' = ColorNumbers
      BY <1>2, <1>6, <3>1
    <3> QED BY <1>6, <2>2, <3>2 DEF Progress
  <2> QED BY <1>7, <2>1, <2>2
<1>10. ColorInv'
  <2>1. ASSUME NEW c \in set'
        PROVE  palette'[c \div 2][c % 2] = ColorTable[c] /\ shadow'[c \div 2][c % 2] = ColorTable[c]
    <3>1. CASE c = i
      BY <1>3, <1>5, <3>1
    <3>2. CASE c # i
      <4>1. c \in set /\ c \in ColorNumbers /\ c \div 2 \in PaletteWords /\ c % 2 \in Halves
        BY <1>2, <1>6, <3>2, ColorFacts
      <4>2. CASE c \div 2 = i \div 2
        <5>1. c % 2 # i % 2
          BY <1>2, <3>2, <4>1, <4>2, ColorFacts
        <5>2. word[c % 2] = ColorTable[c]
          BY <1>1, <1>2, <4>1, <4>2 DEF ColorInv
        <5> QED BY <1>3, <1>5, <4>1, <4>2, <5>1, <5>2
      <4>3. CASE c \div 2 # i \div 2
        BY <1>1, <1>5, <4>1, <4>3 DEF ColorInv, Colored
      <4> QED BY <4>2, <4>3
    <3> QED BY <3>1, <3>2
  <2> QED BY <1>6, <2>1 DEF ColorInv, Colored
<1>11. TextInv'
  BY <1>1, <1>2, <1>6 DEF TextInv, Progress
<1> QED BY <1>8, <1>9, <1>10, <1>11 DEF DisplayInv

LEMMA TextChosen ==
  ASSUME DisplayInv, Choose
  PROVE  DisplayInv'
<1>1. TextTypes /\ Progress /\ ColorInv /\ TextInv
  BY DEF DisplayInv
<1>2. string' \in Texts
  BY TextAssumption DEF Choose, Texts
<1>3. doing = "choose" /\ doing' = "draw" /\ step = 0 /\ set = ColorNumbers
      /\ UNCHANGED <<palette, shadow, vram, i, step, word, set, drawn>>
  BY <1>1 DEF Choose, Progress
<1>4. TextTypes'
  BY <1>1, <1>2, <1>3 DEF TextTypes
<1>5. Progress'
  BY <1>3 DEF Progress
<1>6. ColorInv'
  BY <1>1, <1>3 DEF ColorInv, Colored
<1>7. TextInv'
  BY <1>1, <1>3 DEF TextInv, HalfDrawn
<1> QED BY <1>4, <1>5, <1>6, <1>7 DEF DisplayInv

LEMMA ByteDrawn ==
  ASSUME DisplayInv, DrawByte
  PROVE  DisplayInv'
<1>1. TextTypes /\ Progress /\ ColorInv /\ TextInv
  BY DEF DisplayInv
<1>2. doing = "draw" /\ step \in {0, 1} /\ set = ColorNumbers /\ string.cell \in Cells
      /\ string \in Texts /\ string.glyph \in Nat
      /\ UNCHANGED <<palette, shadow, i, word, string, set>>
  BY <1>1 DEF DrawByte, Progress, TextTypes, Texts
<1>3. ColorInv'
  BY <1>1, <1>2 DEF ColorInv, Colored, DrawByte
<1>4. \A x \in Cells : /\ x \in Nat /\ 2 * x \in 0 .. 2 * CellCount - 1
                       /\ 2 * x + 1 \in 0 .. 2 * CellCount - 1
  BY CellFacts
<1>5. ColorByte(string) \in Nat
  BY <1>2, ColorByteType
<1>6. CASE step = 0
  <2>1. /\ vram' = [vram EXCEPT ![2 * string.cell] = ColorByte(string)]
        /\ step' = 1 /\ doing' = doing /\ drawn' = drawn
    <3>1. 2 * string.cell + 0 = 2 * string.cell
      BY <1>2, <1>4
    <3> QED BY <1>6, <3>1 DEF DrawByte
  <2>2. vram' \in [0 .. 2 * CellCount - 1 -> Nat] /\ vram'[2 * string.cell] = ColorByte(string)
    BY <1>1, <1>2, <1>4, <1>5, <2>1 DEF TextTypes
  <2>3. TextTypes'
    BY <1>1, <1>2, <2>1, <2>2 DEF TextTypes
  <2>4. Progress'
    BY <1>1, <1>2, <2>1 DEF Progress
  <2>5. ASSUME NEW x \in Cells, x # string.cell, drawn[x] # NoString
        PROVE  vram'[2 * x] = ColorByte(drawn[x]) /\ vram'[2 * x + 1] = drawn[x].glyph
    <3>1. 2 * x # 2 * string.cell /\ 2 * x + 1 # 2 * string.cell
      BY <1>2, <1>4, <2>5
    <3>2. vram'[2 * x] = vram[2 * x] /\ vram'[2 * x + 1] = vram[2 * x + 1]
      BY <1>1, <1>4, <2>1, <3>1 DEF TextTypes
    <3>3. vram[2 * x] = ColorByte(drawn[x]) /\ vram[2 * x + 1] = drawn[x].glyph
      BY <1>1, <2>5 DEF TextInv, HalfDrawn
    <3> QED BY <3>2, <3>3
  <2>6. ASSUME NEW x \in Cells, drawn'[x] # NoString, ~HalfDrawn(x)'
        PROVE  vram'[2 * x] = ColorByte(drawn'[x]) /\ vram'[2 * x + 1] = drawn'[x].glyph
    BY <1>2, <2>1, <2>5, <2>6 DEF HalfDrawn
  <2>7. TextInv'
    <3>1. vram'[2 * string'.cell] = ColorByte(string')
      BY <1>2, <2>2
    <3> QED BY <2>6, <3>1 DEF TextInv, ColorByte
  <2> QED BY <1>3, <2>3, <2>4, <2>7 DEF DisplayInv
<1>7. CASE step = 1
  <2>1. /\ vram' = [vram EXCEPT ![2 * string.cell + 1] = string.glyph]
        /\ step' = 0 /\ doing' = "choose" /\ drawn' = [drawn EXCEPT ![string.cell] = string]
    BY <1>7 DEF DrawByte
  <2>2. vram' \in [0 .. 2 * CellCount - 1 -> Nat] /\ vram'[2 * string.cell + 1] = string.glyph
    BY <1>1, <1>2, <1>4, <2>1 DEF TextTypes
  <2>3. drawn' \in [Cells -> Texts] /\ drawn'[string.cell] = string
    BY <1>1, <1>2, <2>1 DEF TextTypes
  <2>4. TextTypes'
    BY <1>1, <1>2, <2>1, <2>2, <2>3 DEF TextTypes
  <2>5. Progress'
    BY <1>2, <2>1 DEF Progress
  <2>6. ASSUME NEW x \in Cells, drawn'[x] # NoString
        PROVE  vram'[2 * x] = ColorByte(drawn'[x]) /\ vram'[2 * x + 1] = drawn'[x].glyph
    <3>1. CASE x = string.cell
      <4>1. vram'[2 * x] = vram[2 * x]
        BY <1>1, <1>2, <1>4, <2>1, <3>1 DEF TextTypes
      <4>2. vram[2 * x] = ColorByte(string)
        BY <1>1, <1>2, <1>7, <3>1 DEF TextInv
      <4> QED BY <2>2, <2>3, <3>1, <4>1, <4>2
    <3>2. CASE x # string.cell
      <4>1. drawn'[x] = drawn[x]
        BY <1>1, <2>1, <3>2 DEF TextTypes
      <4>2. 2 * x # 2 * string.cell + 1 /\ 2 * x + 1 # 2 * string.cell + 1
        BY <1>2, <1>4, <3>2
      <4>3. vram'[2 * x] = vram[2 * x] /\ vram'[2 * x + 1] = vram[2 * x + 1]
        BY <1>1, <1>4, <2>1, <4>2 DEF TextTypes
      <4>4. vram[2 * x] = ColorByte(drawn[x]) /\ vram[2 * x + 1] = drawn[x].glyph
        BY <1>1, <2>6, <3>2, <4>1 DEF TextInv, HalfDrawn
      <4> QED BY <4>1, <4>3, <4>4
    <3> QED BY <3>1, <3>2
  <2>7. TextInv'
    BY <2>1, <2>6 DEF TextInv, ColorByte
  <2> QED BY <1>3, <2>4, <2>5, <2>7 DEF DisplayInv
<1> QED BY <1>2, <1>6, <1>7

LEMMA DisplayReset ==
  ASSUME DisplayInv, SystemReset
  PROVE  DisplayInv'
<1>1. TextTypes
  BY DEF DisplayInv
<1>2. /\ doing' = "clear" /\ i' = 0 /\ step' = 0 /\ set' = {}
      /\ word' = [h \in Halves |-> 0] /\ string' = NoString
      /\ drawn' = [x \in Cells |-> NoString] /\ UNCHANGED <<shadow, vram>>
  BY DEF SystemReset
<1>3. palette' \in [PaletteWords -> [Halves -> Nat]]
  BY <1>1 DEF SystemReset, TextTypes
<1>4. drawn' \in [Cells -> Texts] /\ string' \in Texts
  BY <1>2, NoStringType
<1>5. TextTypes'
  BY <1>1, <1>2, <1>3, <1>4 DEF TextTypes
<1>6. Progress'
  BY <1>2, TextAssumption DEF Progress
<1>7. ColorInv'
  BY <1>2 DEF ColorInv, Colored
<1>8. TextInv'
  BY <1>2 DEF TextInv
<1> QED BY <1>5, <1>6, <1>7, <1>8 DEF DisplayInv

LEMMA DisplayStep == DisplayInv /\ [TxtNext]_txtVars => DisplayInv'
<1> SUFFICES ASSUME DisplayInv, [TxtNext]_txtVars PROVE DisplayInv'
  OBVIOUS
<1>1. CASE UNCHANGED txtVars
  BY <1>1 DEF txtVars, DisplayInv, TextTypes, Progress, ColorInv, Colored, TextInv, HalfDrawn
<1> QED BY <1>1, Cleared, PaletteRead, MaskedWritten, ColorWritten, TextChosen, ByteDrawn,
           DisplayReset DEF TxtNext

(* text_mode_vga_color.c:37-49: for any table of colours, no colour that   *)
(* has been set is disturbed while the others are.                         *)
THEOREM ColorsStay == TxtSpec => []ColorsKept
<1>1. DisplayInv => ColorsKept
  BY DEF DisplayInv, ColorInv, Colored, ColorsKept, PaletteColor
<1> QED BY <1>1, DisplayStart, DisplayStep, PTL DEF TxtSpec

(* text_mode_vga_color.c:25-35: on a screen of any size, what was drawn    *)
(* since the reset shows in its colours.                                   *)
THEOREM TextShows == TxtSpec => []ShownAsDrawn
<1>1. DisplayInv => ShownAsDrawn
  <2> SUFFICES ASSUME DisplayInv, doing = "choose", NEW x \in Cells, drawn[x] # NoString
               PROVE  Shown(x) = [fg |-> ColorTable[drawn[x].fg], bg |-> ColorTable[drawn[x].bg],
                                  glyph |-> drawn[x].glyph]
    BY DEF ShownAsDrawn
  <2>1. vram[2 * x] = ColorByte(drawn[x]) /\ vram[2 * x + 1] = drawn[x].glyph
    BY DEF DisplayInv, TextInv, HalfDrawn
  <2>2. drawn[x] \in Texts /\ drawn[x].fg \in ColorNumbers /\ drawn[x].bg \in ColorNumbers
    BY DEF DisplayInv, TextTypes, Texts
  <2>3. vram[2 * x] \div 16 = drawn[x].fg /\ vram[2 * x] % 16 = drawn[x].bg
    BY <2>1, <2>2, ColorByteType
  <2>4. set = ColorNumbers /\ Colored(palette)
    BY DEF DisplayInv, Progress, ColorInv
  <2>5. /\ PaletteColor(drawn[x].fg) = ColorTable[drawn[x].fg]
        /\ PaletteColor(drawn[x].bg) = ColorTable[drawn[x].bg]
    BY <2>2, <2>4 DEF Colored, PaletteColor
  <2> QED BY <2>1, <2>3, <2>5 DEF Shown
<1> QED BY <1>1, DisplayStart, DisplayStep, PTL DEF TxtSpec

(***************************************************************************)
(* All the circuits side by side.                                          *)
(***************************************************************************)

THEOREM MulTypes == MulSpec => []MulTypeOK
<1>1. MulInit => MulTypeOK
  BY SwitchesAreBytes DEF MulInit, MulTypeOK, Byte
<1> QED BY <1>1, MulTypeStep, PTL DEF MulSpec

THEOREM VideoTypes == VideoSpec => []VideoTypeOK
<1>1. VideoInv => VideoTypeOK
  BY RasterAssumption DEF VideoInv, RasterInv, BallInv, Held, VideoTypeOK
<1> QED BY <1>1, VideoStart, VideoStep, PTL DEF VideoSpec

(* The loop counter runs over the bytes of the screen, then the colours.   *)
THEOREM TxtTypes == TxtSpec => []TxtTypeOK
<1>1. TxtInit => TxtTypeOK
  BY TextAssumption DEF TxtInit, TxtTypeOK
<1>2. ASSUME DisplayInv, TxtTypeOK, [TxtNext]_txtVars
      PROVE  TxtTypeOK'
  <2>1. /\ doing' \in {"clear", "palette", "choose", "draw"}
        /\ step' \in 0 .. 3 /\ set' \subseteq ColorNumbers
    BY <1>2, DisplayStep DEF DisplayInv, TextTypes
  <2>2. CellCount \in Nat \ {0} /\ 0 \in ColorNumbers
    BY TextAssumption, ColorFacts
  <2>3. i' \in (0 .. 2 * CellCount - 1) \cup ColorNumbers
    <3>1. CASE ClearByte
      <4>1. i \in Nat /\ i < 2 * CellCount
        BY <1>2, <3>1 DEF ClearByte, DisplayInv, TextTypes, Progress
      <4> QED BY <2>2, <3>1, <4>1 DEF ClearByte
    <3>2. CASE WriteJoined
      BY <1>2, <2>2, <3>2 DEF WriteJoined, TxtTypeOK
    <3>3. CASE SystemReset
      BY <2>2, <3>3 DEF SystemReset
    <3>4. CASE ReadPalette \/ WriteMasked \/ Choose \/ DrawByte \/ UNCHANGED txtVars
      BY <1>2, <3>4 DEF ReadPalette, WriteMasked, Choose, DrawByte, txtVars, TxtTypeOK
    <3> QED BY <1>2, <3>1, <3>2, <3>3, <3>4 DEF TxtNext
  <2> QED BY <2>1, <2>3 DEF TxtTypeOK
<1> QED BY <1>1, <1>2, DisplayStart, DisplayStep, PTL DEF TxtSpec
-----------------------------------------------------------------------------
SerP == INSTANCE SerialProofs WITH curr_state <- serState, A <- serA, B <- serB,
                                   Switches <- SerSwitches

(* MCLabs: the circuits share nothing, so each of them, whichever runs,    *)
(* does what its own specification says or rests.                          *)
THEOREM CircuitsRunAlone ==
  LabsSpec => MulSpec /\ AccSpec /\ Ser!SerSpec /\ VideoSpec /\ TxtSpec /\ Prg!ProgramSpec
<1>1. LabsInit => /\ MulInit /\ AccInit /\ Ser!SerInit /\ VideoInit /\ TxtInit
                  /\ Prg!ProgramInit
  BY DEF LabsInit
<1>2. ASSUME [LabsNext]_vars
      PROVE  /\ [MulNext]_mulVars /\ [AccNext]_accVars
             /\ [Ser!SerNext]_(Ser!serVars)
             /\ [VideoNext]_videoVars /\ [TxtNext]_txtVars
             /\ [Prg!ProgramNext]_(Prg!progVars)
  <2>1. CASE UNCHANGED vars
    BY <2>1 DEF vars, serVars, progVars, Ser!serVars, Prg!progVars, Prg!isaVars
  <2>2. CASE LabsNext
    BY <2>2 DEF LabsNext, Running, Others, serVars, progVars, Ser!serVars, Prg!progVars, Prg!isaVars
  <2> QED BY <1>2, <2>1, <2>2
<1> QED BY <1>1, <1>2, PTL DEF LabsSpec, MulSpec, AccSpec, Ser!SerSpec, VideoSpec, TxtSpec,
                               Prg!ProgramSpec

(* The serial processor here is that of its own module of proofs.          *)
LEMMA SerialAlone ==
  LabsSpec => [](Ser!SerTypeOK /\ Ser!WordsDone)
<1>1. SerP!InputsFit
  BY SettingsFit DEF SerP!InputsFit
<1>2. SerP!SerSpec => [](SerP!SerTypeOK /\ SerP!WordsDone)
  BY <1>1, SerP!SerTypes, SerP!WordsComeOut, PTL
<1>3. /\ Ser!SerInit => SerP!SerInit
      /\ [Ser!SerNext]_(Ser!serVars) => [SerP!SerNext]_(SerP!serVars)
      /\ SerP!SerTypeOK => Ser!SerTypeOK
      /\ SerP!WordsDone => Ser!WordsDone
  BY DEF Ser!SerInit, Ser!SerNext, Ser!serVars, Ser!SerTypeOK, Ser!Edge, Ser!Control,
         Ser!Register, Ser!Shift_En, Ser!After, Ser!Order, Ser!newA, Ser!newB, Ser!F_A_B,
         Ser!WordsDone, Ser!Bit, Ser!Weight,
         SerP!SerInit, SerP!SerNext, SerP!serVars, SerP!SerTypeOK, SerP!Edge, SerP!Control,
         SerP!Register, SerP!Shift_En, SerP!After, SerP!Order, SerP!newA, SerP!newB,
         SerP!F_A_B, SerP!WordsDone, SerP!Bit, SerP!Weight
<1> QED BY <1>2, <1>3, CircuitsRunAlone, PTL DEF Ser!SerSpec, SerP!SerSpec

(* Processor.sv: for all bytes, functions and routes, when the eight       *)
(* shifts are done the registers hold the function of the operands, or the *)
(* operand that the route keeps.                                           *)
THEOREM SerialWords == LabsSpec => []WordsDone
<1>1. Ser!WordsDone => WordsDone
  BY DEF WordsDone
<1> QED BY <1>1, SerialAlone, PTL

(* The types of all the circuits, for all switches that fit, every raster, *)
(* screen and table of colours.                                            *)
THEOREM TypesHold == LabsSpec => []TypesOK
<1>1. AccSpec => []AccTypeOK
  <2>1. AccSwitches \subseteq WordRange
    BY SettingsFit DEF WordRange
  <2> QED BY <2>1, AccTypes
<1>2. MulTypeOK /\ AccTypeOK /\ Ser!SerTypeOK /\ VideoTypeOK /\ TxtTypeOK => TypesOK
  BY DEF TypesOK
<1> QED BY <1>1, <1>2, SerialAlone, MulTypes, VideoTypes, TxtTypes, CircuitsRunAlone, PTL
PrgP == INSTANCE ProgramsProofs

LEMMA SamePrograms == Asm!TestPrograms = PrgP!TestPrograms
BY DEF Asm!p, PrgP!p, Asm!nz, PrgP!nz, Asm!z, PrgP!z, Asm!np, PrgP!np, Asm!n, PrgP!n, Asm!nzp,
       PrgP!nzp, Asm!Word4, PrgP!Word4, Asm!opAND, PrgP!opAND, Asm!opADD, PrgP!opADD,
       Asm!opADDi, PrgP!opADDi, Asm!opCLR, PrgP!opCLR, Asm!opINC, PrgP!opINC, Asm!opDEC,
       PrgP!opDEC, Asm!opNOT, PrgP!opNOT, Asm!opBR, PrgP!opBR, Asm!opJMP, PrgP!opJMP,
       Asm!opRET, PrgP!opRET, Asm!opJSR, PrgP!opJSR, Asm!opLDR, PrgP!opLDR, Asm!opSTR,
       PrgP!opSTR, Asm!opPSE, PrgP!opPSE, Asm!Boot, PrgP!Boot, Asm!IOTest1, PrgP!IOTest1,
       Asm!IOTest2, PrgP!IOTest2, Asm!IOTest3, PrgP!IOTest3, Asm!XorTest, PrgP!XorTest,
       Asm!RunOnce, PrgP!RunOnce, Asm!MultiplierTest, PrgP!MultiplierTest, Asm!SortData,
       PrgP!SortData, Asm!SortMenu, PrgP!SortMenu, Asm!EntryFunction, PrgP!EntryFunction,
       Asm!SortFunction, PrgP!SortFunction, Asm!DisplayFunction, PrgP!DisplayFunction,
       Asm!AutoCount, PrgP!AutoCount, Asm!TestPrograms, PrgP!TestPrograms

LEMMA SameInit == Prg!ProgramInit => PrgP!ProgramInit
BY DEF Prg!ProgramInit, PrgP!ProgramInit, Prg!RegNames, PrgP!RegNames, Prg!DataAddresses,
       PrgP!DataAddresses

LEMMA SamePerform == \A ir : Prg!Perform(ir) => PrgP!Perform(ir)
<1> SUFFICES ASSUME NEW ir PROVE Prg!Perform(ir) => PrgP!Perform(ir)
  OBVIOUS
<1>1. Prg!Add(ir) => PrgP!Add(ir)
  BY DEF Prg!Add, PrgP!Add, Prg!Operate, PrgP!Operate, Prg!Operand, PrgP!Operand, Prg!SetRegister,
         PrgP!SetRegister, Prg!Advance, PrgP!Advance, Prg!Plus, PrgP!Plus, Prg!NZP,
         PrgP!NZP, Prg!Opcode, PrgP!Opcode, Prg!DR, PrgP!DR, Prg!SR1, PrgP!SR1, Prg!SR2,
         PrgP!SR2, Prg!IR_5, PrgP!IR_5, Prg!Imm5, PrgP!Imm5, Prg!Sext, PrgP!Sext, Prg!Bit,
         PrgP!Bit
<1>2. Prg!AndOp(ir) => PrgP!AndOp(ir)
  <2>1. \A x, y : Prg!AndNibble(x, y) = PrgP!AndNibble(x, y)
    BY DEF Prg!AndNibble, PrgP!AndNibble, Prg!Both, PrgP!Both, Prg!Bit, PrgP!Bit
  <2>2. \A x, y : Prg!And(x, y) = PrgP!And(x, y)
    BY <2>1 DEF Prg!And, PrgP!And
  <2>3. Prg!Operand(ir) = PrgP!Operand(ir)
    BY DEF Prg!Operand, PrgP!Operand, Prg!IR_5, PrgP!IR_5, Prg!Bit, PrgP!Bit, Prg!Imm5, PrgP!Imm5,
           Prg!Sext, PrgP!Sext, Prg!SR2, PrgP!SR2
  <2>4. Prg!And(regs[Prg!SR1(ir)], Prg!Operand(ir)) = PrgP!And(regs[PrgP!SR1(ir)], PrgP!Operand(ir))
    BY <2>2, <2>3 DEF Prg!SR1, PrgP!SR1
  <2>5. \A v : Prg!Operate(ir, v) => PrgP!Operate(ir, v)
    BY DEF Prg!Operate, PrgP!Operate, Prg!SetRegister, PrgP!SetRegister, Prg!Advance, PrgP!Advance,
           Prg!Plus, PrgP!Plus, Prg!NZP, PrgP!NZP, Prg!DR, PrgP!DR
  <2> QED BY <2>4, <2>5 DEF Prg!AndOp, PrgP!AndOp, Prg!Opcode, PrgP!Opcode
<1>3. Prg!NotOp(ir) => PrgP!NotOp(ir)
  BY DEF Prg!NotOp, PrgP!NotOp, Prg!Operate, PrgP!Operate, Prg!SetRegister, PrgP!SetRegister,
         Prg!Advance, PrgP!Advance, Prg!Plus, PrgP!Plus, Prg!NZP, PrgP!NZP, Prg!Opcode,
         PrgP!Opcode, Prg!DR, PrgP!DR, Prg!SR1, PrgP!SR1, Prg!Not, PrgP!Not
<1>4. Prg!Ldr(ir) => PrgP!Ldr(ir)
  <2>1. Prg!ReadAt(Prg!BaseAddress(ir)) = PrgP!ReadAt(PrgP!BaseAddress(ir))
    BY DEF Prg!ReadAt, PrgP!ReadAt, Prg!IOWord, PrgP!IOWord, Prg!BaseAddress, PrgP!BaseAddress,
           Prg!SR1, PrgP!SR1, Prg!Plus, PrgP!Plus, Prg!Off6, PrgP!Off6, Prg!Sext, PrgP!Sext
  <2>2. \A v : Prg!Operate(ir, v) => PrgP!Operate(ir, v)
    BY DEF Prg!Operate, PrgP!Operate, Prg!SetRegister, PrgP!SetRegister, Prg!Advance, PrgP!Advance,
           Prg!Plus, PrgP!Plus, Prg!NZP, PrgP!NZP, Prg!DR, PrgP!DR
  <2> QED BY <2>1, <2>2 DEF Prg!Ldr, PrgP!Ldr, Prg!Opcode, PrgP!Opcode
<1>5. Prg!Str(ir) => PrgP!Str(ir)
  BY DEF Prg!Str, PrgP!Str, Prg!Advance, PrgP!Advance, Prg!Plus, PrgP!Plus, Prg!Opcode, PrgP!Opcode,
         Prg!DR, PrgP!DR, Prg!SR1, PrgP!SR1, Prg!IOWord, PrgP!IOWord, Prg!BaseAddress,
         PrgP!BaseAddress, Prg!Off6, PrgP!Off6, Prg!Sext, PrgP!Sext
<1>6. Prg!Br(ir) => PrgP!Br(ir)
  BY DEF Prg!Br, PrgP!Br, Prg!Opcode, PrgP!Opcode, Prg!DR, PrgP!DR, Prg!Plus, PrgP!Plus, Prg!Off9,
         PrgP!Off9, Prg!Sext, PrgP!Sext, Prg!newBEN, PrgP!newBEN, Prg!Bit, PrgP!Bit
<1>7. Prg!Jmp(ir) => PrgP!Jmp(ir)
  BY DEF Prg!Jmp, PrgP!Jmp, Prg!Opcode, PrgP!Opcode, Prg!SR1, PrgP!SR1
<1>8. Prg!Jsr(ir) => PrgP!Jsr(ir)
  BY DEF Prg!Jsr, PrgP!Jsr, Prg!Opcode, PrgP!Opcode, Prg!SetRegister, PrgP!SetRegister, Prg!Link,
         PrgP!Link, Prg!Plus, PrgP!Plus, Prg!Off11, PrgP!Off11, Prg!Sext, PrgP!Sext
<1>9. Prg!Pse(ir) => PrgP!Pse(ir)
  BY DEF Prg!Pse, PrgP!Pse, Prg!Opcode, PrgP!Opcode, Prg!Advance, PrgP!Advance, Prg!Plus, PrgP!Plus
<1>10. Prg!Nop(ir) => PrgP!Nop(ir)
  BY DEF Prg!Nop, PrgP!Nop, Prg!Opcode, PrgP!Opcode, Prg!Advance, PrgP!Advance, Prg!Plus, PrgP!Plus
<1> QED BY <1>1, <1>2, <1>3, <1>4, <1>5, <1>6, <1>7, <1>8, <1>9, <1>10 DEF Prg!Perform, PrgP!Perform

LEMMA SameStep == [Prg!ProgramNext]_(Prg!progVars) => [PrgP!ProgramNext]_(PrgP!progVars)
<1>1. Prg!Instruction => PrgP!Instruction
  <2>1. Prg!ReadAt(pc) = PrgP!ReadAt(pc)
    BY DEF Prg!ReadAt, PrgP!ReadAt, Prg!IOWord, PrgP!IOWord
  <2> QED BY <2>1, SamePerform DEF Prg!Instruction, PrgP!Instruction
<1>2. Prg!Guided => PrgP!Guided
  BY DEF Prg!Guided, PrgP!Guided, Prg!ReadsSwitches, PrgP!ReadsSwitches, Prg!Current, PrgP!Current,
         Prg!BaseAddress, PrgP!BaseAddress, Prg!Opcode, PrgP!Opcode, Prg!DR, PrgP!DR,
         Prg!SR1, PrgP!SR1, Prg!Plus, PrgP!Plus, Prg!Off6, PrgP!Off6, Prg!Sext, PrgP!Sext,
         Prg!IOWord, PrgP!IOWord
<1>3. Prg!Start \/ Prg!Resume => PrgP!Start \/ PrgP!Resume
  BY DEF Prg!Start, PrgP!Start, Prg!Resume, PrgP!Resume
<1>4. Prg!Noted => PrgP!Noted
  BY DEF Prg!Noted, PrgP!Noted, Prg!DataAddresses, PrgP!DataAddresses
<1> QED BY <1>1, <1>2, <1>3, <1>4 DEF Prg!ProgramNext, PrgP!ProgramNext, Prg!progVars,
           PrgP!progVars, Prg!isaVars, PrgP!isaVars

LEMMA SameCount == \A d, v : PrgP!Count(d, v) = Prg!Count(d, v)
<1>1. \A D : PrgP!Cardinality(D) = Prg!Cardinality(D)
  BY DEF PrgP!Cardinality, Prg!Cardinality
<1> QED BY <1>1 DEF PrgP!Count, Prg!Count, PrgP!DataAddresses, Prg!DataAddresses

LEMMA SameClaims ==
  /\ PrgP!ResultsShown => Prg!ResultsShown
  /\ PrgP!SortReturnsSorted => Prg!SortReturnsSorted
  /\ PrgP!DisplayShowsDatum => Prg!DisplayShowsDatum
<1>1. PrgP!ResultsShown => Prg!ResultsShown
  BY DEF Prg!PausedAt, PrgP!PausedAt, Prg!Powers, PrgP!Powers, Prg!Signed8, PrgP!Signed8,
         Prg!ResultsShown, PrgP!ResultsShown, Prg!Bit, PrgP!Bit
<1>2. PrgP!SortReturnsSorted => Prg!SortReturnsSorted
  BY SameCount DEF Prg!SortReturnsSorted, PrgP!SortReturnsSorted, PrgP!DataAddresses,
                   Prg!DataAddresses
<1>3. PrgP!DisplayShowsDatum => Prg!DisplayShowsDatum
  BY DEF Prg!PausedAt, PrgP!PausedAt, Prg!DisplayShowsDatum, PrgP!DisplayShowsDatum
<1> QED BY <1>1, <1>2, <1>3

(* The processor here, and what is chosen at its switches, is that of the  *)
(* module of the programs' proofs.                                         *)
LEMMA ProgramsAlone ==
  LabsSpec => PrgP!ProgramSpec
<1> QED BY SameInit, SameStep, CircuitsRunAlone, PTL DEF Prg!ProgramSpec, PrgP!ProgramSpec

LEMMA ProgramsFit == PrgP!TestRun
<1>1. Program = PrgP!TestPrograms
  BY ProgramsLoaded, SamePrograms DEF TestPrograms
<1>2. \A a \in {1, 257}, h \in PrgP!Word : Chosen(a, h) \subseteq PrgP!ProgramStarts
  <2>1. LastWord \in Int /\ \A h \in PrgP!Word : h \in Int /\ 0 <= h /\ h <= LastWord
    BY DEF PrgP!Word, LastWord
  <2>2. \A h \in PrgP!Word : h \in 0 .. LastWord
    BY <2>1
  <2> QED BY <2>2, ChosenFit DEF PrgP!ProgramStarts
<1>3. RamSize = 256 /\ Settings \subseteq PrgP!Word \cap PrgP!SwitchWords
  BY ProgramsLoaded, SettingsFit DEF PrgP!Word, PrgP!SwitchWords
<1> QED BY <1>1, <1>2, <1>3 DEF PrgP!TestRun

(* memory_contents.sv:60-75, 91-115: for all operands at the switches the  *)
(* XOR test shows their exclusive or and the multiplier their product.     *)
THEOREM ProgramsShowResults == LabsSpec => []ResultsShown
<1>1. PrgP!ProgramSpec => []PrgP!ResultsShown
  BY ProgramsFit, PrgP!TestsShowResults
<1>2. PrgP!ResultsShown => ResultsShown
  BY SameClaims DEF ResultsShown
<1> QED BY <1>1, <1>2, ProgramsAlone, PTL

(* memory_contents.sv:180-197: the display shows the datum it counts at.   *)
THEOREM ProgramsShowDatum == LabsSpec => []DisplayShowsDatum
<1>1. PrgP!ProgramSpec => []PrgP!DisplayShowsDatum
  BY ProgramsFit, PrgP!DisplayIsRight
<1>2. PrgP!DisplayShowsDatum => DisplayShowsDatum
  BY SameClaims DEF DisplayShowsDatum
<1> QED BY <1>1, <1>2, ProgramsAlone, PTL

(* memory_contents.sv:162-179: the sort returns its data in order, those   *)
(* of the program or whatever the user has entered instead.                *)
THEOREM ProgramsSort == LabsSpec => []SortReturnsSorted
<1>1. PrgP!ProgramSpec => []PrgP!SortReturnsSorted
  BY ProgramsFit, PrgP!SortSorts
<1>2. PrgP!SortReturnsSorted => SortReturnsSorted
  BY SameClaims DEF SortReturnsSorted
<1> QED BY <1>1, <1>2, ProgramsAlone, PTL
=============================================================================
