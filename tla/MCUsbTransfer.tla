---------------------------- MODULE MCUsbTransfer ----------------------------
(***************************************************************************)
(* The waits of the USB host on its clock, for TLC: the transfers, and the *)
(* settle wait with the arithmetic of the clock.  A behaviour picks one of *)
(* them, the other rests.                                                  *)
(***************************************************************************)
EXTENDS UsbTransfer, UsbClock

VARIABLE wait

allVars == <<wait, vars, clockVars>>

Transferring == wait = "transfer" /\ UNCHANGED <<wait, clockVars>>
Settling     == wait = "settle" /\ UNCHANGED <<wait, vars>>

WaitInit == wait \in {"transfer", "settle"} /\ Init /\ ClockInit

WaitNext ==
    \/ Transferring /\ Next
    \/ Settling /\ ClockNext

WaitSpec ==
    /\ WaitInit /\ [][WaitNext]_allVars
    /\ SF_allVars(Transferring /\ HostStep)
    /\ WF_allVars(Transferring /\ Controller) /\ WF_allVars(Transferring /\ Tick)
    /\ WF_allVars(Settling /\ TimerTick) /\ SF_allVars(Settling /\ End)
=============================================================================
