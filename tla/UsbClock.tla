------------------------------ MODULE UsbClock ------------------------------
(***************************************************************************)
(* The millisecond clock of the USB host and a wait on it.  The HAL counts *)
(* timer ticks in 32 bits; the code computes milliseconds from them as     *)
(* (alt_nticks()*1000)/alt_ticks_per_second(), whose product wraps in the  *)
(* same 32 bits, so that the clock falls back to zero long before the tick *)
(* count does.  USB_Task waits until the clock passes usb_delay.           *)
(***************************************************************************)
EXTENDS Integers

CONSTANTS
  Word,      \* values of an unsigned word (2^32)
  PerSecond, \* the factor of the product (1000)
  Rate,      \* alt_ticks_per_second() (1000)
  Settle     \* settle time in milliseconds (200)

ASSUME ClockAssumption ==
  /\ Word \in Nat \ {0} /\ PerSecond \in Nat \ {0}
  /\ Rate \in Nat \ {0} /\ Settle \in Nat
  /\ (Word - 1) \div Rate + Settle < Word

VARIABLES
  nticks,    \* alt_nticks()
  usb_delay, \* time the wait ends
  waiting,   \* in USB_ATTACHED_SUBSTATE_SETTLE
  waited     \* ticks since the wait began; history variable, capped

clockVars == <<nticks, usb_delay, waiting, waited>>

Now == ((nticks * PerSecond) % Word) \div Rate

(* The deadline itself does not wrap: the sum stays far below a word. *)
Begin == /\ ~waiting
         /\ usb_delay' = (Now + Settle) % Word
         /\ waiting' = TRUE /\ waited' = 0
         /\ UNCHANGED nticks

(* Fault: a wait that ends as soon as its deadline differs from the clock. *)
EndWhenDiffers == /\ waiting /\ Now # usb_delay
                  /\ waiting' = FALSE
                  /\ UNCHANGED <<nticks, usb_delay, waited>>

(* Fault: a wait that counts the settle time a second time. *)
EndLate == /\ waiting /\ Now > usb_delay + Settle
           /\ waiting' = FALSE
           /\ UNCHANGED <<nticks, usb_delay, waited>>

End == /\ waiting /\ Now > usb_delay
       /\ waiting' = FALSE
       /\ UNCHANGED <<nticks, usb_delay, waited>>

(* The HAL's timer. *)
TimerTick == /\ nticks' = (nticks + 1) % Word
             /\ waited' = IF waited < Word THEN waited + 1 ELSE waited
             /\ UNCHANGED <<usb_delay, waiting>>

ClockInit == nticks = 0 /\ usb_delay = 0 /\ waiting = FALSE /\ waited = 0

ClockNext == Begin \/ End \/ TimerTick

(* Time goes on, and the loop looks at the clock often enough to see a      *)
(* deadline pass before the clock wraps.                                    *)
ClockSpec == ClockInit /\ [][ClockNext]_clockVars /\ WF_clockVars(TimerTick) /\ SF_clockVars(End)

(* A wait that ends has lasted the settle time, wherever the clock wrapped. *)
NeverEarly ==
  [][waiting /\ ~waiting' => waited * PerSecond >= Settle * Rate]_clockVars

(* The last time the clock shows before it wraps. *)
LastShown == (Word - 1) \div Rate

(* A wait ends unless its deadline lies at or beyond the last time the clock*)
(* shows; then the task waits for ever.                                     *)
EndsWithinClock == waiting ~> (~waiting \/ usb_delay >= LastShown)

(* transfer.c:277 "initial settle 200ms": the wait comes to an end. *)
SettleEnds == waiting ~> ~waiting
=============================================================================
