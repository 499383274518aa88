----------------------------- MODULE UsbClaims ------------------------------
(***************************************************************************)
(* What comments of the USB host say of it, as properties of UsbHost.  The *)
(* runs of this module show where the code does something else.            *)
(***************************************************************************)
EXTENDS UsbHost

(* transfer.c:256 "Detached state - when nothing is connected to ( or just  *)
(* disconnected from) USB bus": the host waits for a device only while none *)
(* is there or its connection is still to be served.                        *)
DetachedMeansEmpty ==
  usb_task_state = DETACHED_WAIT_FOR_DEVICE /\ pc = "irq"
    => plugged = "none" \/ "CONDET" \in irq

(* MAX3421E.c:170 "clear device data structures": once the loop has passed  *)
(* through a detached state, no entry of the device table is in use.        *)
DetachedTableIsClear ==
  Major(usb_task_state) = 0 /\ pc = "irq" => \A a \in Addresses : Free(a)
=============================================================================
