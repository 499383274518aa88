---------------------------- MODULE SerialProofs ----------------------------
(***************************************************************************)
(* Theorems about the bit-serial processor: for all settings of switches   *)
(* that are bytes, all functions and all routes.                           *)
(***************************************************************************)
EXTENDS SerialProcessor, TLAPS

InputsFit ==
  /\ Switches \subseteq 0 .. 255
  /\ Functions \subseteq 0 .. 7
  /\ Routes \subseteq 0 .. 3

(* Every function of two bits is a bit. *)
LEMMA FunctionIsBit ==
  \A f : \A x, y \in {0, 1} : F_A_B(f, x, y) \in {0, 1}
<1> TAKE f
<1> TAKE x, y \in {0, 1}
<1>1. /\ x * y \in {0, 1} /\ 1 - x * y \in {0, 1}
      /\ (x + y) % 2 \in {0, 1} /\ 1 - ((x + y) % 2) \in {0, 1}
  OBVIOUS
<1> QED BY <1>1 DEF F_A_B

LEMMA RouteIsBit ==
  \A x, y \in {0, 1} : newA(x, y) \in {0, 1} /\ newB(x, y) \in {0, 1}
BY FunctionIsBit DEF newA, newB

LEMMA BitIsBit ==
  \A x \in 0 .. 255, i \in 1 .. 8 : Bit(x, i) \in {0, 1}
<1> SUFFICES ASSUME NEW x \in 0 .. 255, NEW i \in 1 .. 8 PROVE Bit(x, i) \in {0, 1}
  OBVIOUS
<1>1. i \in {1, 2, 3, 4, 5, 6, 7, 8}
  OBVIOUS
<1> QED BY <1>1 DEF Bit, Weight

(* A shift moves every bit down one place and takes the new one on top. *)
LEMMA ShiftBits ==
  ASSUME NEW x \in 0 .. 255, NEW bit \in {0, 1}, NEW y \in Int, y = 128 * bit + x \div 2
  PROVE  /\ \A i \in 1 .. 7 : Bit(y, i) = Bit(x, i + 1)
         /\ Bit(y, 8) = bit
<1>1. Bit(y, 8) = bit
  BY DEF Bit, Weight
<1>2. ASSUME NEW i \in 1 .. 7
      PROVE  Bit(y, i) = Bit(x, i + 1)
  <2>1. CASE i = 1
    BY <2>1 DEF Bit, Weight
  <2>2. CASE i = 2
    BY <2>2 DEF Bit, Weight
  <2>3. CASE i = 3
    BY <2>3 DEF Bit, Weight
  <2>4. CASE i = 4
    BY <2>4 DEF Bit, Weight
  <2>5. CASE i = 5
    BY <2>5 DEF Bit, Weight
  <2>6. CASE i = 6
    BY <2>6 DEF Bit, Weight
  <2>7. CASE i = 7
    BY <2>7 DEF Bit, Weight
  <2> QED BY <1>2, <2>1, <2>2, <2>3, <2>4, <2>5, <2>6, <2>7
<1> QED BY <1>1, <1>2

LEMMA LowestBit ==
  \A x \in 0 .. 255 : Bit(x, 1) = x % 2
BY DEF Bit, Weight
-----------------------------------------------------------------------------
(* Where the control unit stands, and how many shifts are done by then.    *)
LEMMA ControlStep ==
  ASSUME NEW k \in 1 .. 10, curr_state = Order[k],
         NEW Reset \in BOOLEAN, NEW Execute \in BOOLEAN, Control(Reset, Execute)
  PROVE  \/ curr_state' = "A"
         \/ curr_state' = curr_state /\ k \in {1, 10}
         \/ k < 10 /\ curr_state' = Order[k + 1]
<1>1. Len(Order) = 10
  BY DEF Order
<1>2. \A i, j \in 1 .. 10 : Order[i] = Order[j] => i = j
  BY DEF Order
<1>3. curr_state = "A" => k = 1
  BY <1>2 DEF Order
<1>4. curr_state = "F" => k = 10
  BY <1>2 DEF Order
<1>5. ASSUME curr_state' \in After(curr_state)
      PROVE  k < 10 /\ curr_state' = Order[k + 1]
  <2>1. PICK i \in 1 .. 9 : Order[i] = curr_state /\ curr_state' = Order[i + 1]
    BY <1>1, <1>5 DEF After
  <2>2. i = k
    BY <2>1, <1>2
  <2> QED BY <2>1, <2>2
<1> QED BY <1>3, <1>4, <1>5 DEF Control

(* Of the bits that old had, the lowest k are replaced by those of the     *)
(* result, above the others, which are on their way down.                  *)
Passed(reg, old, result, k) ==
  \A i \in 1 .. 8 :
     /\ i <= 8 - k => Bit(reg, i) = Bit(old, i + k)
     /\ i > 8 - k => Bit(reg, i) = result[i + k - 8]

Results == [1 .. 8 -> {0, 1}]
ResultA == [i \in 1 .. 8 |-> newA(Bit(operands[1], i), Bit(operands[2], i))]
ResultB == [i \in 1 .. 8 |-> newB(Bit(operands[1], i), Bit(operands[2], i))]

SerInv ==
  /\ SerTypeOK
  /\ operands \in (0 .. 255) \X (0 .. 255)
  /\ \A k \in 0 .. 8 : curr_state = Order[k + 2] =>
        Passed(A, operands[1], ResultA, k) /\ Passed(B, operands[2], ResultB, k)

LEMMA NothingPassed ==
  \A reg, result : Passed(reg, reg, result, 0)
BY DEF Passed

LEMMA AllPassed ==
  \A reg, old, result : Passed(reg, old, result, 8) => \A i \in 1 .. 8 : Bit(reg, i) = result[i]
BY DEF Passed

LEMMA OnePassed ==
  ASSUME NEW reg \in 0 .. 255, NEW old \in 0 .. 255, NEW result \in Results,
         NEW k \in 0 .. 7, Passed(reg, old, result, k),
         NEW y, y = 128 * result[k + 1] + reg \div 2
  PROVE  Passed(y, old, result, k + 1)
<1>1. /\ \A i \in 1 .. 7 : Bit(y, i) = Bit(reg, i + 1)
      /\ Bit(y, 8) = result[k + 1]
  <2>1. PICK bit \in {0, 1} : bit = result[k + 1]
    BY DEF Results
  <2>2. y \in Int /\ y = 128 * bit + reg \div 2
    BY <2>1
  <2>3. (\A i \in 1 .. 7 : Bit(y, i) = Bit(reg, i + 1)) /\ Bit(y, 8) = bit
    BY <2>2, ShiftBits
  <2> QED BY <2>1, <2>3
<1> SUFFICES ASSUME NEW i \in 1 .. 8
             PROVE  /\ i <= 8 - (k + 1) => Bit(y, i) = Bit(old, i + (k + 1))
                    /\ i > 8 - (k + 1) => Bit(y, i) = result[i + (k + 1) - 8]
  BY DEF Passed
<1>2. CASE i = 8
  <2>1. i + (k + 1) - 8 = k + 1 /\ ~(i <= 8 - (k + 1))
    BY <1>2
  <2> QED BY <1>1, <1>2, <2>1
<1>3. CASE i < 8
  <2>1. i + 1 \in 1 .. 8 /\ Bit(y, i) = Bit(reg, i + 1)
    BY <1>1, <1>3
  <2>2. /\ i + 1 <= 8 - k => Bit(reg, i + 1) = Bit(old, (i + 1) + k)
        /\ i + 1 > 8 - k => Bit(reg, i + 1) = result[(i + 1) + k - 8]
    BY <2>1 DEF Passed
  <2>3. (i + 1) + k = i + (k + 1) /\ (i + 1) + k - 8 = i + (k + 1) - 8
    OBVIOUS
  <2> QED BY <2>1, <2>2, <2>3
<1> QED BY <1>2, <1>3

(* The bits that are routed in the next shift are those of the operands.   *)
LEMMA RoutedBits ==
  ASSUME SerInv, NEW k \in 0 .. 7, curr_state = Order[k + 2]
  PROVE  /\ newA(A % 2, B % 2) = ResultA[k + 1]
         /\ newB(A % 2, B % 2) = ResultB[k + 1]
<1>1. A \in 0 .. 255 /\ B \in 0 .. 255
  BY DEF SerInv, SerTypeOK
<1>2. Bit(A, 1) = Bit(operands[1], k + 1) /\ Bit(B, 1) = Bit(operands[2], k + 1)
  <2>1. Passed(A, operands[1], ResultA, k) /\ Passed(B, operands[2], ResultB, k)
    BY DEF SerInv
  <2> QED BY <2>1 DEF Passed
<1>3. Bit(A, 1) = A % 2 /\ Bit(B, 1) = B % 2
  BY <1>1, LowestBit
<1> QED BY <1>2, <1>3 DEF ResultA, ResultB

LEMMA ResultTypes ==
  operands \in (0 .. 255) \X (0 .. 255) => ResultA \in Results /\ ResultB \in Results
BY BitIsBit, RouteIsBit DEF ResultA, ResultB, Results
-----------------------------------------------------------------------------
LEMMA SerStep ==
  ASSUME InputsFit
  PROVE  SerInv /\ [SerNext]_serVars => SerInv'
<1> SUFFICES ASSUME SerInv, [SerNext]_serVars PROVE SerInv'
  OBVIOUS
<1>1. CASE UNCHANGED serVars
  BY <1>1 DEF serVars, SerInv, SerTypeOK, ResultA, ResultB, newA, newB
<1>2. CASE SerNext
  <2>1. PICK Reset, LoadA, LoadB, Execute \in BOOLEAN, Din \in Switches :
               Edge(Reset, LoadA, LoadB, Execute, Din)
    BY <1>2 DEF SerNext
  <2>2. /\ A \in 0 .. 255 /\ B \in 0 .. 255 /\ Din \in 0 .. 255
        /\ F \in 0 .. 7 /\ R \in 0 .. 3
        /\ operands \in (0 .. 255) \X (0 .. 255)
    BY DEF SerInv, SerTypeOK, InputsFit
  <2>3. PICK k \in 1 .. 10 : curr_state = Order[k]
    BY DEF SerInv, SerTypeOK, Order
  <2>4. \/ curr_state' = "A"
        \/ curr_state' = curr_state /\ k \in {1, 10}
        \/ k < 10 /\ curr_state' = Order[k + 1]
    BY <2>1, <2>3, ControlStep DEF Edge
  <2>5. A' \in 0 .. 255 /\ B' \in 0 .. 255
    <3>1. newA(A % 2, B % 2) \in {0, 1} /\ newB(A % 2, B % 2) \in {0, 1}
      BY <2>2, RouteIsBit
    <3>2. /\ 128 * newA(A % 2, B % 2) + A \div 2 \in 0 .. 255
          /\ 128 * newB(A % 2, B % 2) + B \div 2 \in 0 .. 255
      BY <2>2, <3>1
    <3> QED BY <2>1, <2>2, <3>2 DEF Edge, Register
  <2>6. F' = F /\ R' = R
    BY <2>1 DEF Edge
  <2>7. SerTypeOK'
    <3>1. \E i \in 1 .. Len(Order) : curr_state' = Order[i]
      BY <2>3, <2>4 DEF Order
    <3> QED BY <2>2, <2>5, <2>6, <3>1 DEF SerTypeOK
  <2>8. operands' \in (0 .. 255) \X (0 .. 255)
    BY <2>1, <2>2, <2>5 DEF Edge
  <2>9. ASSUME NEW j \in 0 .. 8, curr_state' = Order[j + 2]
        PROVE  Passed(A', operands'[1], ResultA', j) /\ Passed(B', operands'[2], ResultB', j)
    <3>1. \A i, l \in 1 .. 10 : Order[i] = Order[l] => i = l
      BY DEF Order
    <3>2. curr_state' # "A"
      BY <2>9, <3>1 DEF Order
    <3>3. CASE k = 1
      <4>1. j = 0 /\ curr_state = "A"
        BY <2>3, <2>4, <2>9, <3>1, <3>2, <3>3 DEF Order
      <4>2. operands'[1] = A' /\ operands'[2] = B'
        BY <2>1, <4>1 DEF Edge
      <4> QED BY <4>1, <4>2, NothingPassed
    <3>4. CASE k > 1
      <4>1. curr_state # "A"
        BY <2>3, <3>1, <3>4 DEF Order
      <4>2. operands' = operands
        BY <2>1, <4>1 DEF Edge
      <4>3. ResultA' = ResultA /\ ResultB' = ResultB
        BY <2>6, <4>2 DEF ResultA, ResultB, newA, newB
      <4>4. ~Reset
        BY <2>1, <3>2 DEF Edge, Control
      <4>5. CASE k = 10
        <5>1. curr_state = "F" /\ j = 8 /\ curr_state' = curr_state
          BY <2>3, <2>4, <2>9, <3>1, <3>2, <4>5 DEF Order
        <5>2. A' = A /\ B' = B
          BY <2>1, <4>4, <5>1 DEF Edge, Register, Shift_En
        <5> QED BY <2>9, <4>2, <4>3, <5>1, <5>2 DEF SerInv
      <4>6. CASE k < 10
        <5> DEFINE l == k - 2
        <5>1. l \in 0 .. 7 /\ j = l + 1 /\ curr_state = Order[l + 2]
          BY <2>3, <2>4, <2>9, <3>1, <3>2, <3>4, <4>6
        <5> HIDE DEF l
        <5>2. curr_state # "F"
          BY <2>3, <3>1, <4>6 DEF Order
        <5>3. /\ A' = 128 * newA(A % 2, B % 2) + A \div 2
              /\ B' = 128 * newB(A % 2, B % 2) + B \div 2
          BY <2>1, <4>1, <4>4, <5>2 DEF Edge, Register, Shift_En
        <5>4. A' = 128 * ResultA[l + 1] + A \div 2 /\ B' = 128 * ResultB[l + 1] + B \div 2
          BY <5>1, <5>3, RoutedBits
        <5>5. Passed(A, operands[1], ResultA, l) /\ Passed(B, operands[2], ResultB, l)
          BY <5>1 DEF SerInv
        <5>6. Passed(A', operands[1], ResultA, l + 1) /\ Passed(B', operands[2], ResultB, l + 1)
          BY <2>2, <5>1, <5>4, <5>5, OnePassed, ResultTypes
        <5> QED BY <4>2, <4>3, <5>1, <5>6
      <4> QED BY <4>5, <4>6
    <3> QED BY <3>3, <3>4
  <2> QED BY <2>7, <2>8, <2>9 DEF SerInv
<1> QED BY <1>1, <1>2

LEMMA SerStart ==
  ASSUME InputsFit
  PROVE  SerInit => SerInv
<1> SUFFICES ASSUME SerInit PROVE SerInv
  OBVIOUS
<1>1. SerTypeOK
  BY DEF SerInit, SerTypeOK, InputsFit, Order
<1>2. operands \in (0 .. 255) \X (0 .. 255)
  BY DEF SerInit
<1>3. \A k \in 0 .. 8 : curr_state # Order[k + 2]
  BY DEF SerInit, Order
<1> QED BY <1>1, <1>2, <1>3 DEF SerInv

(* Control.sv:27-44, Router.sv:24-43: whatever the registers held and      *)
(* whichever of them was loaded, a run leaves in each the word that the    *)
(* function and the router make of both, for every function and route.     *)
THEOREM WordsComeOut ==
  ASSUME InputsFit
  PROVE  SerSpec => []WordsDone
<1>1. SerInv => WordsDone
  <2> SUFFICES ASSUME SerInv, curr_state = "F", NEW i \in 1 .. 8
               PROVE  /\ Bit(A, i) = newA(Bit(operands[1], i), Bit(operands[2], i))
                      /\ Bit(B, i) = newB(Bit(operands[1], i), Bit(operands[2], i))
    BY DEF WordsDone
  <2>1. curr_state = Order[8 + 2]
    BY DEF Order
  <2>2. Passed(A, operands[1], ResultA, 8) /\ Passed(B, operands[2], ResultB, 8)
    BY <2>1 DEF SerInv
  <2> QED BY <2>2, AllPassed DEF ResultA, ResultB
<1> QED BY <1>1, SerStart, SerStep, PTL DEF SerSpec

(* The registers are bytes, and the control unit is in one of its states.  *)
THEOREM SerTypes ==
  ASSUME InputsFit
  PROVE  SerSpec => []SerTypeOK
<1>1. SerInv => SerTypeOK
  BY DEF SerInv
<1> QED BY <1>1, SerStart, SerStep, PTL DEF SerSpec
=============================================================================
