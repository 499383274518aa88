----------------------------- MODULE Multiplier -----------------------------
(***************************************************************************)
(* The eight-bit multiplier of src/ECE385_4 (wpsass2, pw16): control unit, *)
(* nine-bit adder, registers X, A, B and the synchronised inputs.  One     *)
(* step is one rising edge of the clock.                                   *)
(***************************************************************************)
EXTENDS Integers

Byte == {b \in Nat : b < 256}

CONSTANT Switches       \* what the eight switches may be set to

ASSUME SwitchesAreBytes == Switches \subseteq Byte

VARIABLES
    curr_state, n,      \* control state, and the number in add1 .. shift8
    A, B, X,            \* the registers
    Din, Din_S,         \* the switches, and their synchronised copy
    factors             \* history: B and the switches when the run started

mulVars == <<curr_state, n, A, B, X, Din, Din_S, factors>>
-----------------------------------------------------------------------------
Signed(b) == IF b >= 128 THEN b - 256 ELSE b

M == B % 2 = 1
Sub     == curr_state = "Subtract" /\ M
LoadSum == curr_state \in {"add", "Subtract"} /\ M              \* Add | Sub
Shift   == curr_state = "shift"
(* Fault: A keeps the upper byte of the last product. *)
Clear_AOnReset == curr_state = "Initial"
Clear_A == curr_state \in {"Initial", "Start"}
Load_B  == curr_state = "Initial"

(* ADDER9 on the sign-extended operands; a carry in complements the second. *)
Extended(b) == IF b >= 128 THEN b + 256 ELSE b
Sum == (Extended(A) + IF Sub THEN 512 - Extended(Din) ELSE Extended(Din)) % 512

To(s, k) == curr_state' = s /\ n' = k

Next_state(Run_S) ==
    \/ curr_state = "Initial" /\ To("Wait", 0)
    \/ curr_state = "Wait" /\ IF Run_S THEN To("Start", 0) ELSE To("Wait", 0)
    \/ curr_state = "Start" /\ To("add", 1)
    \/ curr_state = "add" /\ To("shift", n)
    \/ curr_state = "shift" /\ n < 7 /\ To("add", n + 1)
    \/ curr_state = "shift" /\ n = 7 /\ To("Subtract", 8)
    \/ curr_state = "Subtract" /\ To("shift", 8)
    \/ curr_state = "shift" /\ n = 8 /\ To("End", 0)
    \/ curr_state = "End" /\ IF Run_S THEN To("End", 0) ELSE To("Wait", 0)

Control(Run_S, Cloare_S) == IF Cloare_S THEN To("Initial", 0) ELSE Next_state(Run_S)

ShiftedA == 128 * X + A \div 2

Registers ==
    /\ A' = IF Clear_A THEN 0
            ELSE IF LoadSum THEN Sum % 256
            ELSE IF Shift THEN ShiftedA
            ELSE A
    /\ X' = IF Clear_A THEN 0 ELSE IF LoadSum THEN Sum \div 256 ELSE X
    /\ B' = IF Load_B THEN Din_S
            ELSE IF Shift THEN 128 * (A % 2) + B \div 2
            ELSE B

(* The user sets the switches between two runs and holds them during one:  *)
(* the adder reads them without a register.                                *)
Inputs ==
    /\ Din' \in IF curr_state \in {"Initial", "Wait", "End"} THEN Switches ELSE {Din}
    /\ Din_S' = Din

(* The buttons, after the synchroniser, are up or down as they please. *)
MulNext ==
    /\ \E Run_S, Cloare_S \in BOOLEAN : Control(Run_S, Cloare_S)
    /\ Registers /\ Inputs
    /\ factors' = IF curr_state = "Start" THEN <<B, Din>> ELSE factors

MulInit ==
    /\ curr_state = "Initial" /\ n = 0
    /\ A = 0 /\ B = 0 /\ X = 0
    /\ Din \in Switches /\ Din_S = Din
    /\ factors = <<0, 0>>

MulSpec == MulInit /\ [][MulNext]_mulVars
-----------------------------------------------------------------------------
MulTypeOK ==
    /\ \/ curr_state \in {"Initial", "Wait", "Start", "End"} /\ n = 0
       \/ curr_state = "add" /\ n \in 1 .. 7
       \/ curr_state = "Subtract" /\ n = 8
       \/ curr_state = "shift" /\ n \in 1 .. 8
    /\ A \in Byte /\ B \in Byte /\ X \in {0, 1}
    /\ Din \in Byte /\ Din_S \in Byte
    /\ factors \in Byte \X Byte

(* Control.sv:30-62: when a run has ended, A and B hold the product of the *)
(* two signed bytes, the most negative ones included, and a second run     *)
(* multiplies the lower byte of the first product.                         *)
ProductCorrect ==
    curr_state = "End" =>
        256 * Signed(A) + B = Signed(factors[1]) * Signed(factors[2])
=============================================================================
