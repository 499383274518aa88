-------------------------- MODULE SerialProcessor ---------------------------
(***************************************************************************)
(* The bit-serial logic processor of src/ECE385_2.2 (pw16, wpsass2): two   *)
(* shift registers, a one-bit function and a router.  One step is one      *)
(* rising edge of the clock.                                               *)
(***************************************************************************)
EXTENDS Integers, Sequences

CONSTANTS
    Switches,           \* what the eight switches may be set to
    Functions,          \* function and route codes: Processor.sv ties them
    Routes              \*   to 2 and 1, the parts take any

VARIABLES
    curr_state,
    A, B,               \* the registers
    F, R,               \* function and route
    operands            \* history: the registers when the run started

serVars == <<curr_state, A, B, F, R, operands>>
-----------------------------------------------------------------------------
(* compute: the function of two bits. *)
F_A_B(f, a, b) ==
    LET pair == a + b
    IN  IF f = 0 THEN a * b
        ELSE IF f = 1 THEN IF pair = 0 THEN 0 ELSE 1
        ELSE IF f = 2 THEN pair % 2
        ELSE IF f = 3 THEN 1
        ELSE IF f = 4 THEN 1 - a * b
        ELSE IF f = 5 THEN IF pair = 0 THEN 1 ELSE 0
        ELSE IF f = 6 THEN 1 - (pair % 2)
        ELSE 0

(* router: the bits that return to A and to B. *)
newA(a, b) == IF R = 2 THEN F_A_B(F, a, b) ELSE IF R = 3 THEN b ELSE a
newB(a, b) == IF R = 1 THEN F_A_B(F, a, b) ELSE IF R = 3 THEN a ELSE b

(* The letters of the control states, in the order they are passed. *)
(* Fault: seven shifts. *)
OrderShort == <<"A", "B", "C", "D", "E", "G", "H", "I", "F">>
Order == <<"A", "B", "C", "D", "E", "G", "H", "I", "J", "F">>
After(s) == {Order[i + 1] : i \in {i \in 1 .. Len(Order) - 1 : Order[i] = s}}

Shift_En == curr_state \notin {"A", "F"}

Control(Reset, Execute) ==
    \/ Reset /\ curr_state' = "A"
    \/ ~Reset /\ curr_state = "A" /\ ~Execute /\ curr_state' = "A"
    \/ ~Reset /\ curr_state = "F" /\ Execute /\ curr_state' = "F"
    \/ ~Reset /\ curr_state = "F" /\ ~Execute /\ curr_state' = "A"
    \/ /\ ~Reset
       /\ curr_state = "A" => Execute
       /\ curr_state' \in After(curr_state)

Register(Reset, Ld, bit, D, old) ==
    IF Reset THEN 0
    ELSE IF Ld /\ curr_state = "A" THEN D
    ELSE IF Shift_En THEN 128 * bit + old \div 2
    ELSE old

Edge(Reset, LoadA, LoadB, Execute, Din) ==
    /\ Control(Reset, Execute)
    /\ A' = Register(Reset, LoadA, newA(A % 2, B % 2), Din, A)
    /\ B' = Register(Reset, LoadB, newB(A % 2, B % 2), Din, B)
    /\ operands' = IF curr_state = "A" THEN <<A', B'>> ELSE operands
    /\ UNCHANGED <<F, R>>

(* The buttons, after the synchronisers, are up or down as they please. *)
SerNext == \E Reset, LoadA, LoadB, Execute \in BOOLEAN, Din \in Switches :
              Edge(Reset, LoadA, LoadB, Execute, Din)

SerInit ==
    /\ curr_state = "A"
    /\ A = 0 /\ B = 0
    /\ F \in Functions /\ R \in Routes
    /\ operands = <<0, 0>>

SerSpec == SerInit /\ [][SerNext]_serVars
-----------------------------------------------------------------------------
SerTypeOK ==
    /\ \E i \in 1 .. Len(Order) : curr_state = Order[i]
    /\ A \in 0 .. 255 /\ B \in 0 .. 255
    /\ F \in 0 .. 7 /\ R \in 0 .. 3

Weight == <<1, 2, 4, 8, 16, 32, 64, 128>>
Bit(x, i) == (x \div Weight[i]) % 2

(* Control.sv:27-44, Router.sv: when a run has ended, every bit has been   *)
(* through the function and the router once and is back in its place.      *)
WordsDone ==
    curr_state = "F" =>
        \A i \in 1 .. 8 :
            LET a == Bit(operands[1], i)
                b == Bit(operands[2], i)
            IN  Bit(A, i) = newA(a, b) /\ Bit(B, i) = newB(a, b)
=============================================================================
