---------------------------- MODULE Accumulator -----------------------------
(***************************************************************************)
(* The accumulator of src/ECE385_3 (wpsass2, pw16): a press of Run adds    *)
(* the switches to the register through one of the adders.  One step is    *)
(* one rising edge of the clock.                                           *)
(***************************************************************************)
EXTENDS Adders

CONSTANT AccSwitches       \* what the ten switches may be set to

VARIABLES
    acc_state,          \* curr_state of the control unit
    Out,                \* the register, its carry included
    Reset,              \* the button, which the control unit sees at once
    added               \* history: Run has been down since the last addition

accVars == <<acc_state, Out, Reset, added>>
-----------------------------------------------------------------------------
Load == acc_state = "B"

(* Fault: the pulse lasts as long as the press. *)
next_stateLevel(Run) ==
    IF acc_state = "A" THEN IF Run THEN "B" ELSE "A"
    ELSE IF Run THEN "B" ELSE "A"
next_state(Run) ==
    IF acc_state = "A" THEN IF Run THEN "B" ELSE "A"
    ELSE IF acc_state = "B" THEN "C"
    ELSE IF Run THEN "C" ELSE "A"

Total(SW) == ripple_adder(SW, Out % 65536, 0)

(* Run and the switches are read as they are; the reset of the control     *)
(* unit is asynchronous, that of the register is not.                      *)
Edge(Run, SW) ==
    /\ Reset' \in BOOLEAN
    /\ acc_state' = IF Reset \/ Reset' THEN "A" ELSE next_state(Run)
    /\ Out' = IF Reset THEN 0 ELSE IF Load THEN Total(SW) ELSE Out
    /\ added' = (Run /\ ~Reset /\ ~Reset' /\ (added \/ Load))

AccNext == \E Run \in BOOLEAN, SW \in AccSwitches : Edge(Run, SW)

AccInit ==
    /\ acc_state = "A"
    /\ Out = 0
    /\ Reset = FALSE
    /\ added = FALSE

AccSpec == AccInit /\ [][AccNext]_accVars
-----------------------------------------------------------------------------
Sums == {w \in Nat : w < 131072}

AccTypeOK ==
    /\ acc_state \in {"A", "B", "C"}
    /\ Out \in Sums
    /\ Reset \in BOOLEAN /\ added \in BOOLEAN

(* control.sv:23-29, adder_toplevel.sv:37-47: however long Run is down, a  *)
(* press adds once, and it adds the switches to the lower sixteen bits.    *)
AddsOnce ==
    [][Out' # Out =>
          \/ Reset /\ Out' = 0
          \/ ~added /\ \E SW \in AccSwitches : Out' = SW + (Out % 65536)]_accVars

(* adder_toplevel.sv:47-51: any of the three adders can take the place of  *)
(* the one that is not commented out, for all that is added.               *)
AddersAgree ==
    Load => \A SW \in AccSwitches, cin \in Bits :
        LET old == Out % 65536
        IN  /\ lookahead_adder(SW, old, cin) = ripple_adder(SW, old, cin)
            /\ select_adder(SW, old, cin) = ripple_adder(SW, old, cin)
=============================================================================
