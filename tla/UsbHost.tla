------------------------------ MODULE UsbHost -------------------------------
(***************************************************************************)
(* The USB keyboard host of the final project: the main loop (main.c), the *)
(* enumeration state machine USB_Task (transfer.c), the interrupt handler  *)
(* of the MAX3421E host controller (MAX3421E.c) and the HID probes (HID.c).*)
(*                                                                         *)
(* The program is one polling loop: serve the controller's interrupt pin,  *)
(* run USB_Task once, then poll the device or react to the task state.     *)
(* pc names the part that runs next; the controller, the bus and the clock *)
(* run on between the parts.  The handler is cut in two, at the register   *)
(* write that acknowledges the flags, and so is the initialisation, because*)
(* what the bus does between a probe and its acknowledgement is lost.      *)
(* A transfer is atomic and succeeds or fails; it can succeed only if a    *)
(* device listens on the address used.                                     *)
(***************************************************************************)
EXTENDS Integers, FiniteSetsExt

CONSTANTS
  LastAddr,   \* highest device address (USB_NUMDEVICES - 1 = 7)
  Kinds,      \* devices that may be plugged in: "kbd", "mouse", "disk"
  KeyCodes,   \* first key code of a keyboard report
  NoKey,      \* its value when no key is held
  Glitch,     \* whether the bus probe may see the illegal state SE1
  Lossy,      \* whether a transfer to a device that listens may fail
  Wraps,      \* whether the millisecond clock may wrap (after 71 minutes)
  MaxPlugs    \* bound of the model: how often a device may be plugged in

ASSUME UsbAssumption ==
  /\ LastAddr \in Nat \ {0} /\ MaxPlugs \in Nat
  /\ Kinds \subseteq {"kbd", "mouse", "disk"} /\ NoKey \in KeyCodes
  /\ Glitch \in BOOLEAN /\ Lossy \in BOOLEAN /\ Wraps \in BOOLEAN

VARIABLES
  usb_task_state, tmp_addr,  \* transfer.c
  usb_delay,                 \* where the clock stands to usb_delay: "past" it,
                             \* it lies "ahead", or "beyond" the last value the
                             \* clock takes before it wraps
  epinfo, devclass,          \* devtable[]
  hid_addr,                  \* hid_device.addr
  pc, hirq,                  \* next part of the loop; HIRQ as MaxIntHandler read it
  runningdebugflag, errorflag, device, keycode, led9, \* main.c and its PIOs
  irq, busrst, osc,          \* MAX3421E: raised flags, bus reset, oscillator
  plugged, devaddr, plugs    \* the bus; devaddr is -1 until the first bus reset

task     == <<usb_task_state, usb_delay, tmp_addr, epinfo, devclass, hid_addr>>
app      == <<runningdebugflag, errorflag, device, keycode, led9>>
chip     == <<irq, busrst, osc>>
bus      == <<plugged, devaddr, plugs>>
vars     == <<task, app, chip, bus, pc, hirq>>

(* usb_task_state: the high four bits are the state, the low ones the       *)
(* substate (USB.h).                                                        *)
DETACHED_INITIALIZE      == 1
DETACHED_WAIT_FOR_DEVICE == 3
DETACHED_ILLEGAL         == 4
ATTACHED                 == 16
SETTLE                   == 17
RESET_DEVICE             == 18
WAIT_RESET_COMPLETE      == 19
WAIT_SOF                 == 20
GET_DESCRIPTOR           == 21
ADDRESSING               == 32
CONFIGURING              == 48
RUNNING                  == 64
ERROR                    == 255

Major(s) == s \div 16     \* s & USB_STATE_MASK

Addresses == 1..LastAddr

(***************************************************************************)
(* Pieces of the handlers.                                                 *)
(***************************************************************************)

(* What the bus probe can see: the line follows the plug. *)
Samples == (IF plugged = "none" THEN {"SE0"} ELSE {"JK"})
           \cup (IF Glitch THEN {"SE1"} ELSE {})

(* Fault: a probe that takes an empty bus for what it was before. *)
ProbedKeepsOnEmpty(s, sample) == IF sample = "JK" THEN ATTACHED ELSE s

(* MAX_busprobe: the next task state.  A bus reset also raises the          *)
(* connection interrupt, hence the exception.                               *)
Probed(s, sample) ==
  CASE sample = "JK"  -> IF s = WAIT_RESET_COMPLETE THEN s ELSE ATTACHED
    [] sample = "SE1" -> DETACHED_ILLEGAL
    [] sample = "SE0" -> IF Major(s) # 0 THEN DETACHED_INITIALIZE
                         ELSE DETACHED_WAIT_FOR_DEVICE

(* USB_init: no entry of the device table but the uninitialized device's. *)
ClearTable == /\ epinfo' = [a \in Addresses |-> "null"]
              /\ devclass' = [a \in Addresses |-> "none"]

(* The outcomes of a transfer to an address. *)
Transfer(a) == IF plugged # "none" /\ devaddr = a
                 THEN IF Lossy THEN BOOLEAN ELSE {TRUE}
                 ELSE {FALSE}

(***************************************************************************)
(* MAX3421E_init.  MAX3421E_reset waits for the oscillator; the bus is     *)
(* probed; then the connection flag is cleared and the caller goes on with *)
(* USB_init, and main() with a dark LED.                                   *)
(***************************************************************************)
InitProbe ==
  /\ pc = "reset" /\ osc
  /\ \E sample \in Samples : usb_task_state' = Probed(usb_task_state, sample)
  /\ pc' = "clear"
  /\ UNCHANGED <<usb_delay, tmp_addr, epinfo, devclass, hid_addr, hirq,
                 app, chip, bus>>

(* Fault: an initialisation that leaves the LED to the error state. *)
InitClearLit ==
  /\ pc = "clear"
  /\ irq' = irq \ {"CONDET"}
  /\ ClearTable
  /\ errorflag' = FALSE
  /\ pc' = "irq"
  /\ UNCHANGED <<usb_task_state, usb_delay, tmp_addr, hid_addr, hirq,
                 runningdebugflag, device, keycode, led9, busrst, osc, bus>>

InitClear ==
  /\ pc = "clear"
  /\ irq' = irq \ {"CONDET"}
  /\ ClearTable
  /\ led9' = FALSE /\ errorflag' = FALSE
  /\ pc' = "irq"
  /\ UNCHANGED <<usb_task_state, usb_delay, tmp_addr, hid_addr, hirq,
                 runningdebugflag, device, keycode, busrst, osc, bus>>

(***************************************************************************)
(* MAX3421E_Task: the interrupt pin follows the connection flag, the only  *)
(* one enabled; MaxIntHandler serves every flag it then finds raised and   *)
(* acknowledges those.                                                     *)
(***************************************************************************)
NoInterrupt ==
  /\ pc = "irq" /\ "CONDET" \notin irq
  /\ pc' = "task"
  /\ UNCHANGED <<task, hirq, app, chip, bus>>

ServeInterrupt ==
  /\ pc = "irq" /\ "CONDET" \in irq
  /\ hirq' = irq
  /\ \E sample \in Samples :
       LET s == Probed(usb_task_state, sample)
       IN  usb_task_state' = IF "BUSEVENT" \in irq THEN s + 1 ELSE s
  /\ pc' = "ack"
  /\ UNCHANGED <<usb_delay, tmp_addr, epinfo, devclass, hid_addr,
                 app, chip, bus>>

Acknowledge ==
  /\ pc = "ack"
  /\ irq' = irq \ hirq
  /\ hirq' = {}
  /\ pc' = "task"
  /\ UNCHANGED <<task, app, busrst, osc, bus>>

(***************************************************************************)
(* USB_Task, one action per state that does something.                     *)
(***************************************************************************)
InState(s) == pc = "task" /\ usb_task_state = s /\ pc' = "app"

TaskInitialize ==
  /\ InState(DETACHED_INITIALIZE)
  /\ ClearTable
  /\ usb_task_state' = DETACHED_WAIT_FOR_DEVICE
  /\ UNCHANGED <<usb_delay, tmp_addr, hid_addr, hirq, app, chip, bus>>

TaskAttached ==
  /\ InState(ATTACHED)
  /\ usb_delay' \in {"ahead"} \cup (IF Wraps THEN {"beyond"} ELSE {})
  /\ usb_task_state' = SETTLE
  /\ UNCHANGED <<tmp_addr, epinfo, devclass, hid_addr, hirq, app, chip, bus>>

TaskSettled ==
  /\ InState(SETTLE) /\ usb_delay = "past"
  /\ usb_task_state' = RESET_DEVICE
  /\ UNCHANGED <<usb_delay, tmp_addr, epinfo, devclass, hid_addr, hirq,
                 app, chip, bus>>

TaskReset ==
  /\ InState(RESET_DEVICE)
  /\ irq' = irq \ {"BUSEVENT"}
  /\ busrst' = TRUE
  /\ usb_task_state' = WAIT_RESET_COMPLETE
  /\ UNCHANGED <<usb_delay, tmp_addr, epinfo, devclass, hid_addr, hirq,
                 app, osc, bus>>

TaskResetComplete ==
  /\ InState(WAIT_RESET_COMPLETE) /\ ~busrst
  /\ usb_task_state' = WAIT_SOF
  /\ UNCHANGED <<usb_delay, tmp_addr, epinfo, devclass, hid_addr, hirq,
                 app, chip, bus>>

(* The condition is HIRQ | bmFRAMEIRQ, which is never zero: the flag of the *)
(* first frame decides nothing, and is left out.                           *)
TaskSof ==
  /\ InState(WAIT_SOF)
  /\ usb_task_state' = GET_DESCRIPTOR
  /\ UNCHANGED <<usb_delay, tmp_addr, epinfo, devclass, hid_addr, hirq,
                 app, chip, bus>>

(* Only the first of the descriptor transfers decides. *)
TaskDescriptor ==
  /\ InState(GET_DESCRIPTOR)
  /\ \E ok \in Transfer(0) : usb_task_state' = IF ok THEN ADDRESSING ELSE ERROR
  /\ UNCHANGED <<usb_delay, tmp_addr, epinfo, devclass, hid_addr, hirq,
                 app, chip, bus>>

Free(a) == epinfo[a] = "null"

(* Fault: every entry is taken, and the check after the search is missing. *)
NoAddressUnnoticed ==
  /\ \A a \in Addresses : ~Free(a)
  /\ UNCHANGED <<usb_task_state, tmp_addr, epinfo, devaddr>>

(* Every entry is taken: no address for the device. *)
NoAddress ==
  /\ \A a \in Addresses : ~Free(a)
  /\ usb_task_state' = ERROR
  /\ UNCHANGED <<tmp_addr, epinfo, devaddr>>

(* The lowest free entry is taken before the address is sent, and stays     *)
(* taken if that fails; a failed transfer may still have set the address.   *)
TakeAddress ==
  \E a \in Addresses :
    /\ Free(a) /\ \A b \in 1..(a - 1) : ~Free(b)
    /\ epinfo' = [epinfo EXCEPT ![a] = "dev0"]
    /\ \E ok \in Transfer(0) :
         /\ usb_task_state' = IF ok THEN CONFIGURING ELSE ERROR
         /\ tmp_addr' = IF ok THEN a ELSE tmp_addr
         /\ devaddr' \in IF ok THEN {a}
                         ELSE IF TRUE \in Transfer(0) THEN {devaddr, a}
                         ELSE {devaddr}

TaskAddress ==
  /\ InState(ADDRESSING)
  /\ NoAddress \/ TakeAddress
  /\ UNCHANGED <<usb_delay, devclass, hid_addr, hirq, app, chip, plugged, plugs>>

(* How the probe of the device's own class ends: not at all (no descriptor, *)
(* or no driver matches), half way (the endpoint record is filled, then a   *)
(* transfer fails), or with a configured device.                            *)
ProbeResults ==
  IF TRUE \in Transfer(tmp_addr) /\ plugged \in {"kbd", "mouse"}
    THEN IF Lossy THEN {"none", "half", "found"} ELSE {"found"}
    ELSE {"none"}

(* Fault: the probe fills the entry of the address main.c hard-wires. *)
UseHidEndpointsHardWired ==
  /\ devclass' = [devclass EXCEPT ![1] = plugged]
  /\ epinfo' = [epinfo EXCEPT ![1] = "hid"]
  /\ hid_addr' = 1

(* The probe switches its entry of the table to the HID endpoint record. *)
UseHidEndpoints ==
  /\ devclass' = [devclass EXCEPT ![tmp_addr] = plugged]
  /\ epinfo' = [epinfo EXCEPT ![tmp_addr] = "hid"]
  /\ hid_addr' = tmp_addr

TaskConfigure ==
  /\ InState(CONFIGURING)
  /\ \E r \in ProbeResults :
       /\ usb_task_state' = IF r = "found" THEN RUNNING ELSE ERROR
       /\ IF r = "none" THEN UNCHANGED <<devclass, epinfo, hid_addr>>
          ELSE UseHidEndpoints
  /\ UNCHANGED <<usb_delay, tmp_addr, hirq, app, chip, bus>>

(* Running, error, waiting, or a state the switch has no case for. *)
TaskIdle ==
  /\ pc = "task" /\ pc' = "app"
  /\ \/ usb_task_state \notin {DETACHED_INITIALIZE, ATTACHED, SETTLE, RESET_DEVICE,
                               WAIT_RESET_COMPLETE, WAIT_SOF, GET_DESCRIPTOR,
                               ADDRESSING, CONFIGURING}
     \/ usb_task_state = SETTLE /\ usb_delay # "past"
     \/ usb_task_state = WAIT_RESET_COMPLETE /\ busrst
  /\ UNCHANGED <<task, hirq, app, chip, bus>>

USB_Task == \/ TaskInitialize \/ TaskAttached \/ TaskSettled \/ TaskReset
            \/ TaskResetComplete \/ TaskSof \/ TaskDescriptor
            \/ TaskAddress \/ TaskConfigure \/ TaskIdle

(***************************************************************************)
(* The rest of the loop in main().                                         *)
(***************************************************************************)
Running == pc = "app" /\ usb_task_state = RUNNING

(* Fault: the class of the first entry in use. *)
AppStartFirst ==
  /\ Running /\ ~runningdebugflag
  /\ runningdebugflag' = TRUE /\ led9' = TRUE
  /\ LET used == {a \in Addresses : epinfo[a] # "null"}
     IN  device' = IF used = {} THEN "none" ELSE devclass[Min(used)]
  /\ pc' = "irq"
  /\ UNCHANGED <<task, hirq, errorflag, keycode, chip, bus>>

(* First pass in the running state: GetDriverandReport takes the class of   *)
(* the last entry in use.                                                   *)
AppStart ==
  /\ Running /\ ~runningdebugflag
  /\ runningdebugflag' = TRUE /\ led9' = TRUE
  /\ LET used == {a \in Addresses : epinfo[a] # "null"}
     IN  device' = IF used = {} THEN "none" ELSE devclass[Max(used)]
  /\ pc' = "irq"
  /\ UNCHANGED <<task, hirq, errorflag, keycode, chip, bus>>

(* Later passes poll: a keyboard's first key goes to the keycode PIO, unless*)
(* the poll fails or has nothing new.                                       *)
AppPoll ==
  /\ Running /\ runningdebugflag
  /\ keycode' \in {keycode} \cup
       (IF device = "kbd" /\ TRUE \in Transfer(hid_addr) THEN KeyCodes ELSE {})
  /\ pc' = "irq"
  /\ UNCHANGED <<task, hirq, runningdebugflag, errorflag, device, led9, chip, bus>>

AppError ==
  /\ pc = "app" /\ usb_task_state = ERROR
  /\ errorflag' = TRUE
  /\ led9' = (led9 /\ errorflag)
  /\ pc' = "irq"
  /\ UNCHANGED <<task, hirq, runningdebugflag, device, keycode, chip, bus>>

AppWait ==
  /\ pc = "app" /\ usb_task_state \notin {RUNNING, ERROR} /\ ~runningdebugflag
  /\ errorflag' = FALSE /\ led9' = FALSE
  /\ pc' = "irq"
  /\ UNCHANGED <<task, hirq, runningdebugflag, device, keycode, chip, bus>>

(* The device that ran is gone: the controller is initialized anew. *)
AppStop ==
  /\ pc = "app" /\ usb_task_state \notin {RUNNING, ERROR} /\ runningdebugflag
  /\ runningdebugflag' = FALSE
  /\ irq' = {} /\ busrst' = FALSE /\ osc' = FALSE
  /\ pc' = "reset"
  /\ UNCHANGED <<task, hirq, errorflag, device, keycode, led9, bus>>

App == AppStart \/ AppPoll \/ AppError \/ AppWait \/ AppStop

(***************************************************************************)
(* The controller, the bus and the clock.                                  *)
(***************************************************************************)
Attach ==
  /\ plugged = "none" /\ plugs < MaxPlugs
  /\ plugged' \in Kinds
  /\ devaddr' = -1 /\ plugs' = plugs + 1
  /\ irq' = irq \cup {"CONDET"}
  /\ UNCHANGED <<task, app, pc, hirq, busrst, osc>>

Detach ==
  /\ plugged # "none"
  /\ plugged' = "none" /\ devaddr' = -1
  /\ irq' = irq \cup {"CONDET"}
  /\ UNCHANGED <<task, app, pc, hirq, busrst, osc, plugs>>

(* The end of a bus reset may look like a connection, too. *)
BusResetDone ==
  /\ busrst /\ busrst' = FALSE
  /\ irq' \in {irq \cup {"BUSEVENT"}, irq \cup {"BUSEVENT", "CONDET"}}
  /\ devaddr' = IF plugged = "none" THEN -1 ELSE 0
  /\ UNCHANGED <<task, app, pc, hirq, osc, plugged, plugs>>

OscOk ==
  /\ pc = "reset" /\ ~osc /\ osc' = TRUE
  /\ UNCHANGED <<task, app, pc, hirq, irq, busrst, bus>>

Tick ==
  /\ usb_delay = "ahead" /\ usb_delay' = "past"
  /\ UNCHANGED <<usb_task_state, tmp_addr, epinfo, devclass, hid_addr,
                 app, chip, bus, pc, hirq>>

ClockWrap ==
  /\ Wraps /\ usb_delay = "past" /\ usb_delay' = "ahead"
  /\ UNCHANGED <<usb_task_state, tmp_addr, epinfo, devclass, hid_addr,
                 app, chip, bus, pc, hirq>>

Plug == Attach \/ Detach
Environment == Plug \/ BusResetDone \/ OscOk \/ Tick \/ ClockWrap

Loop == \/ InitProbe \/ InitClear \/ NoInterrupt \/ ServeInterrupt
        \/ Acknowledge \/ USB_Task \/ App

(***************************************************************************)
(* The program starts in MAX3421E_init, with or without a device plugged.  *)
(***************************************************************************)
Init ==
  /\ usb_task_state = DETACHED_INITIALIZE /\ usb_delay = "past" /\ tmp_addr = 0
  /\ epinfo = [a \in Addresses |-> "null"]
  /\ devclass = [a \in Addresses |-> "none"]
  /\ hid_addr = 0 /\ pc = "reset" /\ hirq = {}
  /\ runningdebugflag = FALSE /\ errorflag = FALSE
  /\ device = "none" /\ keycode = NoKey /\ led9 = FALSE
  /\ irq = {} /\ busrst = FALSE /\ osc = FALSE
  /\ plugged \in Kinds \cup {"none"} /\ devaddr = -1 /\ plugs = 0

Next == Loop \/ Environment

Spec == Init /\ [][Next]_vars

(* The loop never stops, and neither do the clock and the controller. *)
FairSpec == Spec /\ WF_vars(Loop) /\ WF_vars(BusResetDone)
                 /\ WF_vars(OscOk) /\ WF_vars(Tick)

(***************************************************************************)
(* Properties.                                                             *)
(***************************************************************************)

(* Every variable keeps its type; usb_task_state also takes the two codes   *)
(* no state is named for, when the handler adds one to a detached state.    *)
TypeOK ==
  /\ usb_task_state \in {1, 2, 3, 4, 5} \cup 16..21 \cup {32, 48, 64, 255}
  /\ usb_delay \in {"past", "ahead", "beyond"}
  /\ tmp_addr \in 0..LastAddr /\ hid_addr \in 0..LastAddr
  /\ epinfo \in [Addresses -> {"null", "dev0", "hid"}]
  /\ devclass \in [Addresses -> {"none", "kbd", "mouse"}]
  /\ pc \in {"reset", "clear", "irq", "ack", "task", "app"}
  /\ hirq \in SUBSET {"CONDET", "BUSEVENT"}
  /\ irq \in SUBSET {"CONDET", "BUSEVENT"}
  /\ runningdebugflag \in BOOLEAN /\ errorflag \in BOOLEAN /\ led9 \in BOOLEAN
  /\ busrst \in BOOLEAN /\ osc \in BOOLEAN
  /\ device \in {"none", "kbd", "mouse"} /\ keycode \in KeyCodes
  /\ plugged \in Kinds \cup {"none"} /\ devaddr \in -1..LastAddr
  /\ plugs \in 0..MaxPlugs

(* While the task state is running, the HID record and the device table     *)
(* name the same configured device, so that a poll (kbdPoll, mousePoll)     *)
(* never follows a null endpoint pointer and never uses an endpoint of an   *)
(* address that was given up.                                               *)
ConfiguredWhileRunning ==
  usb_task_state = RUNNING =>
    /\ hid_addr \in Addresses /\ hid_addr = tmp_addr
    /\ epinfo[hid_addr] = "hid" /\ devclass[hid_addr] # "none"

(* LED 9 tells that a device is being polled: main() turns it off on every  *)
(* way out of the running state, however the interrupts fall.               *)
LedTellsRunning ==
  /\ pc # "reset" /\ pc # "clear" => led9 = runningdebugflag
  /\ pc = "irq" /\ usb_task_state = RUNNING => led9

(* The key code the game reads comes from a keyboard only: the class main() *)
(* remembers is the class of the device that answers, also after devices    *)
(* are exchanged while the loop runs.                                       *)
KeysFromKeyboard == [][keycode' # keycode => plugged = "kbd"]_vars

(* A device that is pulled out while it runs is given up: the LED goes off  *)
(* unless something is plugged in again first.                              *)
DetachNoticed == plugged = "none" ~> (~led9 \/ plugged # "none")

(* A device that stays plugged in ends up running or refused for good,      *)
(* unless bus resets go on for ever (each may look like a new connection    *)
(* and start the attachment over) or the wait was set beyond the wrap of    *)
(* the clock.                                                               *)
HostDecides ==
  <>[](plugged # "none") =>
     \/ <>[](usb_task_state \in {RUNNING, ERROR})
     \/ []<>(usb_task_state = RESET_DEVICE)
     \/ <>[](usb_task_state = SETTLE /\ usb_delay = "beyond")
=============================================================================
