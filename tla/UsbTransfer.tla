----------------------------- MODULE UsbTransfer -----------------------------
(***************************************************************************)
(* The transfers of the USB host: polls of the interrupt endpoint          *)
(* (kbdPoll) and control requests (XferCtrlReq), packet by packet, over a  *)
(* bus that loses packets in both directions.  XferDispatchPkt launches a      *)
(* packet and repeats it on NAKs and bus timeouts; the controller and the  *)
(* device keep one data toggle each, by which a packet that is sent again  *)
(* is told from a new one.                                                 *)
(***************************************************************************)
EXTENDS Integers, Sequences

CONSTANTS
    Reports,        \* what a keyboard may report
    Ahead,          \* how many reports it may hold
    Packets,        \* length of a control read
    NakLimit,       \* USB_NAK_LIMIT (200)
    RetryLimit,     \* USB_RETRY_LIMIT (3)
    Timeout,        \* USB_XFER_TIMEOUT (5000)
    LastTime        \* the last millisecond before the clock wraps (4294967)

(* An attempt takes less than a millisecond, and all of them together less *)
(* than the timeout.                                                       *)
ASSUME TransferAssumption ==
    /\ Ahead \in Nat /\ Packets \in Nat \ {0} /\ NakLimit \in Nat \ {0} /\ RetryLimit \in Nat \ {0}
    /\ Timeout \in Nat /\ LastTime \in Nat
    /\ NakLimit + RetryLimit <= Timeout /\ Timeout < LastTime

VARIABLES
    now,            \* the clock in milliseconds
    stage,          \* of the transfer
    datastage,      \* whether the control request has a data stage
    timeout, retry_count, nak_count,    \* of XferDispatchPkt
    data,           \* packets read so far
    rcvToggle,      \* of the interrupt endpoint, in the device table
    keycode,        \* what main() last showed of the keyboard
    busy, HRSL,     \* controller: packet under way; result while HXFRDNIRQ is up
    RCVTOG, RCVFIFO,    \* controller: toggle; packet while RCVDAVIRQ is up
    dev,            \* the device's endpoints
    dead,           \* the controller does not answer any more
    ticked          \* the clock has moved since the launch

hostVars == <<timeout, retry_count, nak_count, data, rcvToggle, keycode>>
sieVars == <<busy, HRSL, RCVTOG, RCVFIFO>>
vars == <<now, stage, datastage, hostVars, sieVars, dev, dead, ticked>>

Endpoint == IF stage = "poll" THEN "interrupt" ELSE "control"
Toggled(t) == 1 - t
-----------------------------------------------------------------------------
(* Host. *)
Launch == busy' = TRUE /\ ticked' = FALSE

(* XferDispatchPkt is called; the sum does not wrap. *)
Dispatch ==
    /\ timeout' = now + Timeout
    /\ retry_count' = 0 /\ nak_count' = 0
    /\ Launch

BeginPoll ==
    /\ stage = "idle" /\ stage' = "poll"
    /\ RCVTOG' = rcvToggle
    /\ Dispatch
    /\ UNCHANGED <<HRSL, now, datastage, data, rcvToggle, keycode, RCVFIFO, dev, dead>>

BeginRequest ==
    /\ stage = "idle" /\ stage' = "setup"
    /\ datastage' \in BOOLEAN
    /\ Dispatch
    /\ UNCHANGED <<HRSL, now, data, rcvToggle, keycode, RCVTOG, RCVFIFO, dev, dead>>

(* The host sees the flag in time, clears it, and reads the result.        *)
Done(results) ==
    /\ stage # "idle"
    /\ now < timeout /\ HRSL \in results
    /\ HRSL' = "none"
    /\ UNCHANGED <<now, dev, dead>>

(* The transfer is over, with its locals; main() goes on with its loop. *)
Return ==
    /\ stage' = "idle"
    /\ timeout' = 0 /\ retry_count' = 0 /\ nak_count' = 0
    /\ ticked' = FALSE
    /\ datastage' = FALSE /\ data' = <<>>
    /\ UNCHANGED busy

Again == Launch /\ UNCHANGED <<stage, datastage, timeout, data>>

Untouched == UNCHANGED <<rcvToggle, keycode, RCVTOG, RCVFIFO>>

(* Fault: a NAK forgives the bus timeouts before it. *)
NakForgiving ==
    /\ Done({"NAK"})
    /\ IF nak_count + 1 = NakLimit
       THEN Return
       ELSE nak_count' = nak_count + 1 /\ retry_count' = 0 /\ Again
    /\ Untouched
Nak ==
    /\ Done({"NAK"})
    /\ IF nak_count + 1 = NakLimit
       THEN Return
       ELSE nak_count' = nak_count + 1 /\ UNCHANGED retry_count /\ Again
    /\ Untouched

Retry ==
    /\ Done({"TIMEOUT"})
    /\ IF retry_count + 1 = RetryLimit
       THEN Return
       ELSE retry_count' = retry_count + 1 /\ UNCHANGED nak_count /\ Again
    /\ Untouched

Fail == Done({"TOGERR", "CRCERR"}) /\ Return /\ Untouched

(* XferCtrlData: the data stage begins with DATA1. *)
DataStage ==
    /\ Done({"SUCCESS"})
    /\ stage = "setup" /\ datastage /\ stage' = "data"
    /\ RCVTOG' = 1
    /\ Dispatch
    /\ UNCHANGED <<datastage, data, rcvToggle, keycode, RCVFIFO>>

(* XferCtrlND. *)
NoDataStage ==
    /\ Done({"SUCCESS"})
    /\ stage = "setup" /\ ~datastage /\ stage' = "status"
    /\ Dispatch /\ Untouched
    /\ UNCHANGED <<datastage, data>>

(* XferInTransfer: the controller has acknowledged a packet it did not     *)
(* keep.                                                                   *)
NothingReceived ==
    /\ Done({"SUCCESS"})
    /\ stage \in {"poll", "data"} /\ RCVFIFO = <<>>
    /\ Return /\ Untouched

(* Fault: the toggle is set before each packet. *)
PacketReadToggled ==
    /\ Done({"SUCCESS"})
    /\ stage = "data" /\ RCVFIFO # <<>>
    /\ data' = data \o RCVFIFO
    /\ RCVFIFO' = <<>>
    /\ stage' = IF Len(data') < Packets THEN "data" ELSE "status"
    /\ RCVTOG' = 1
    /\ Dispatch
    /\ UNCHANGED <<datastage, rcvToggle, keycode>>
(* A packet of the data stage; with the last one, nbytes have come. *)
PacketRead ==
    /\ Done({"SUCCESS"})
    /\ stage = "data" /\ RCVFIFO # <<>>
    /\ data' = data \o RCVFIFO
    /\ RCVFIFO' = <<>>
    /\ stage' = IF Len(data') < Packets THEN "data" ELSE "status"
    /\ Dispatch
    /\ UNCHANGED <<datastage, rcvToggle, keycode, RCVTOG>>

StatusDone ==
    /\ Done({"SUCCESS"})
    /\ stage = "status"
    /\ Return /\ Untouched

(* Fault: the toggle is not saved. *)
ReportReadOnly ==
    /\ Done({"SUCCESS"})
    /\ stage = "poll" /\ RCVFIFO # <<>>
    /\ RCVFIFO' = <<>>
    /\ keycode' = RCVFIFO[1]
    /\ Return
    /\ UNCHANGED <<rcvToggle, RCVTOG>>
(* A report of the keyboard is one packet; main() shows it. *)
ReportRead ==
    /\ Done({"SUCCESS"})
    /\ stage = "poll" /\ RCVFIFO # <<>>
    /\ RCVFIFO' = <<>>
    /\ rcvToggle' = RCVTOG
    /\ keycode' = RCVFIFO[1]
    /\ Return
    /\ UNCHANGED RCVTOG

(* Fault: one millisecond more. *)
GiveUpLater ==
    /\ stage # "idle" /\ now > timeout
    /\ Return /\ Untouched
    /\ UNCHANGED <<HRSL, now, dev, dead>>
(* The wait for the flag ends without another look at it. *)
GiveUp ==
    /\ stage # "idle" /\ now >= timeout
    /\ Return /\ Untouched
    /\ UNCHANGED <<HRSL, now, dev, dead>>

(* HID_init and XferSetConf: both sides begin with DATA0. *)
Configure ==
    /\ stage = "idle"
    /\ rcvToggle' = 0
    /\ dev' = [dev EXCEPT !["interrupt"] = [tog |-> 0, queue |-> <<>>]]
    /\ UNCHANGED <<now, stage, datastage, timeout, retry_count, nak_count, data, keycode, sieVars,
                   dead, ticked>>

HostStep ==
    \/ Nak \/ Retry \/ Fail \/ DataStage \/ NoDataStage \/ NothingReceived
    \/ PacketRead \/ StatusDone \/ ReportRead \/ GiveUp
-----------------------------------------------------------------------------
(* Controller and device: a packet ends with its handshake, or without.    *)
Finish(result) ==
    /\ busy /\ ~dead
    /\ busy' = FALSE /\ HRSL' = result
    /\ UNCHANGED <<now, stage, datastage, hostVars, dead, ticked>>

Silent == UNCHANGED <<RCVTOG, RCVFIFO>>

Lost == Finish("TIMEOUT") /\ Silent /\ UNCHANGED dev

NotReady == stage # "setup" /\ Finish("NAK") /\ Silent /\ UNCHANGED dev

Corrupted ==
    /\ stage \in {"poll", "data"} /\ dev[Endpoint].queue # <<>>
    /\ Finish("CRCERR") /\ Silent /\ UNCHANGED dev

(* The device takes a SETUP at any time; its answer may be lost. *)
Setup ==
    /\ stage = "setup"
    /\ dev' = [dev EXCEPT !["control"] = [tog |-> 1, queue |-> [k \in 1 .. Packets |-> k]]]
    /\ \E result \in {"SUCCESS", "TIMEOUT"} : Finish(result)
    /\ Silent

Status ==
    /\ stage = "status"
    /\ Finish("SUCCESS") /\ Silent /\ UNCHANGED dev

(* The device sends the packet it holds.  The controller keeps it if its   *)
(* toggle is the expected one, and acknowledges it in any case; if the     *)
(* acknowledgement is lost, the device holds on to the packet.             *)
Sent(acknowledged) ==
    /\ stage \in {"poll", "data"} /\ dev[Endpoint].queue # <<>>
    /\ IF dev[Endpoint].tog = RCVTOG
       THEN /\ Finish("SUCCESS")
            /\ RCVTOG' = Toggled(RCVTOG)
            /\ RCVFIFO' = <<Head(dev[Endpoint].queue)>>
       ELSE Silent /\ \E result \in {"TOGERR", "SUCCESS"} : Finish(result)
    /\ dev' = IF acknowledged
              THEN [dev EXCEPT ![Endpoint] = [tog |-> Toggled(@.tog), queue |-> Tail(@.queue)]]
              ELSE dev

Controller ==
    Lost \/ NotReady \/ Corrupted \/ Setup \/ Status \/ \E a \in BOOLEAN : Sent(a)

Press(r) ==
    /\ Len(dev["interrupt"].queue) < Ahead
    /\ dev' = [dev EXCEPT !["interrupt"].queue = Append(@, r)]
    /\ UNCHANGED <<now, stage, datastage, hostVars, sieVars, dead, ticked>>

Die ==
    /\ ~dead /\ dead' = TRUE
    /\ UNCHANGED <<now, stage, datastage, hostVars, sieVars, dev, ticked>>

(* An attempt of a working controller takes less than a millisecond; the   *)
(* host sees the flag within one, too.                                     *)
Tick ==
    /\ stage = "idle" \/ ~ticked \/ (dead /\ HRSL = "none")
    /\ now' = IF now = LastTime THEN 0 ELSE now + 1
    /\ ticked' = (stage # "idle")
    /\ UNCHANGED <<stage, datastage, hostVars, sieVars, dev, dead>>
-----------------------------------------------------------------------------
Init ==
    /\ now = 0
    /\ stage = "idle" /\ datastage = FALSE
    /\ timeout = 0 /\ retry_count = 0 /\ nak_count = 0
    /\ data = <<>> /\ rcvToggle = 0 /\ keycode = "none"
    /\ busy = FALSE /\ HRSL = "none"
    /\ RCVTOG = 0 /\ RCVFIFO = <<>>
    /\ dev = [e \in {"control", "interrupt"} |-> [tog |-> 0, queue |-> <<>>]]
    /\ dead = FALSE /\ ticked = FALSE

Next ==
    \/ BeginPoll \/ BeginRequest \/ HostStep \/ Configure
    \/ Controller \/ Die \/ Tick
    \/ \E r \in Reports : Press(r)

Spec == Init /\ [][Next]_vars
        /\ SF_vars(HostStep) /\ WF_vars(Controller) /\ WF_vars(Tick)
-----------------------------------------------------------------------------
TypeOK ==
    /\ now \in 0 .. LastTime
    /\ stage \in {"idle", "poll", "setup", "data", "status"}
    /\ timeout \in 0 .. LastTime + Timeout
    /\ retry_count \in 0 .. RetryLimit - 1 /\ nak_count \in 0 .. NakLimit - 1
    /\ data \in Seq(1 .. Packets)
    /\ {rcvToggle, RCVTOG} \subseteq {0, 1}
    /\ keycode \in Reports \cup {"none"}
    /\ HRSL \in {"none", "SUCCESS", "NAK", "TIMEOUT", "TOGERR", "CRCERR"}
    /\ {datastage, busy, dead, ticked} \subseteq BOOLEAN
    /\ \A e \in DOMAIN dev : dev[e].tog \in {0, 1}

(* transfer.c:142-186: however NAKs and bus timeouts mix and wherever the  *)
(* clock wraps, no transfer gives up (0xff) a controller that works.       *)
GivesUpOnlyTheDead ==
    [][stage # "idle" /\ stage' = "idle" => dead \/ HRSL # HRSL']_vars

(* transfer.c:150-163: a transfer comes back even from a controller that   *)
(* has died, unless its timeout lies beyond the last time of the clock.    *)
TransfersReturn ==
    stage # "idle" ~> (stage = "idle" \/ (dead /\ timeout > LastTime))

(* transfer.c:107-124, 191-227: a control read that comes to its end has   *)
(* read each packet of the answer once and in order, although any of them  *)
(* and any acknowledgement may be lost and sent again.                     *)
ReadIsComplete == stage = "status" /\ datastage => data = [k \in 1 .. Packets |-> k]

(* What is on its way to main(): a packet in the controller, and what the  *)
(* device holds, but for a packet the controller has had already.          *)
Expected == IF stage = "poll" THEN RCVTOG ELSE rcvToggle
InController == IF stage = "poll" THEN RCVFIFO ELSE <<>>
InDevice ==
    IF dev["interrupt"].tog = Expected
    THEN dev["interrupt"].queue
    ELSE Tail(dev["interrupt"].queue)

Channel == INSTANCE ReportChannel WITH waiting <- InController \o InDevice

(* HID.c:216-222, transfer.c:191-227: the polls show each report of the    *)
(* keyboard once and in order, control reads in between or not.            *)
ReportsShownOnce == Channel!ChannelSpec
=============================================================================
