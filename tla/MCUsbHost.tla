----------------------------- MODULE MCUsbHost ------------------------------
(***************************************************************************)
(* Model-checking instances of UsbHost and UsbClaims.                      *)
(***************************************************************************)
EXTENDS UsbClaims

(* No plug moves between a probe and its acknowledgement, and the clock     *)
(* does not wrap between the end of a settle time and the next look at it.  *)
CalmNext == Loop \/ (Plug /\ pc \notin {"clear", "ack"})
            \/ BusResetDone \/ OscOk \/ Tick
            \/ (ClockWrap /\ usb_task_state # SETTLE)
CalmFairSpec == Init /\ [][CalmNext]_vars /\ WF_vars(Loop)
                /\ WF_vars(BusResetDone) /\ WF_vars(OscOk) /\ WF_vars(Tick)
=============================================================================
