----------------------------- MODULE UsbProofs ------------------------------
(* Theorems about the USB host, for any number of addresses, any devices   *)
(* and any order of plugs, interrupts, failures and clock wraps.           *)
EXTENDS UsbHost, WellFoundedInduction, TLAPS

(***************************************************************************)
(* The inductive invariant.                                                *)
(***************************************************************************)

(* What MAX_busprobe leaves behind when the state is not WAIT_RESET_COMPLETE*)
(* before it, also after the handler's extra step.                         *)
AfterProbe == {1, 2, 3, 4, 5, ATTACHED, SETTLE}

(* main() never sees the task state go from running to anywhere but a state *)
(* of detachment or early attachment, on which it takes the flag back.      *)
FlagInv ==
  /\ pc \in {"reset", "clear"} => ~runningdebugflag
  /\ pc = "clear" => usb_task_state \in {1, 3, 4, ATTACHED, WAIT_RESET_COMPLETE}
  /\ runningdebugflag =>
       /\ pc = "irq" => usb_task_state = RUNNING
       /\ pc \in {"ack", "task"} => usb_task_state \in AfterProbe \cup {RUNNING}
       /\ pc = "app" => usb_task_state \in (AfterProbe \ {1, ATTACHED})
                                            \cup {RESET_DEVICE, RUNNING}

(* The entries in use are the lowest ones, and the last of them belongs to *)
(* the device that is being configured or runs.                            *)
TableInv ==
  /\ \A a, b \in Addresses : b < a /\ Free(b) => Free(a)
  /\ usb_task_state \in {CONFIGURING, RUNNING} =>
       /\ tmp_addr \in Addresses /\ ~Free(tmp_addr)
       /\ \A b \in Addresses : b > tmp_addr => Free(b)

(* Whoever answers at the address that runs is of the class the table says,*)
(* and main() remembers that class.                                        *)
ClassInv ==
  usb_task_state = RUNNING =>
    /\ devaddr = hid_addr => devclass[hid_addr] = plugged
    /\ runningdebugflag => device = devclass[hid_addr]

HostInv == /\ TypeOK /\ FlagInv /\ TableInv /\ ClassInv
           /\ ConfiguredWhileRunning /\ LedTellsRunning

(***************************************************************************)
(* The last entry in use exists.                                           *)
(***************************************************************************)

LEMMA MaxOfAddresses ==
  ASSUME NEW S, S \subseteq Addresses, S # {}
  PROVE  Max(S) \in S /\ \A b \in S : Max(S) >= b
<1> DEFINE R == {ss \in Nat \X Nat : ss[1] < ss[2]}
           T == {LastAddr - a : a \in S}
<1>1. LastAddr \in Nat /\ \A a \in S : a \in 1..LastAddr
  BY UsbAssumption DEF Addresses
<1>2. T \subseteq Nat /\ T # {}
  BY <1>1
<1>3. PICK x \in T : \A y \in T : ~(<<y, x>> \in R)
  <2>1. IsWellFoundedOn(R, Nat)
    BY NatLessThanWellFounded DEF OpToRel
  <2> HIDE DEF R, T
  <2> QED BY <1>2, <2>1, WFMin
<1>4. \A y \in T : ~(y < x)
  BY <1>2, <1>3
<1>5. PICK a \in S : x = LastAddr - a
  BY <1>3
<1>6. \A b \in S : a >= b
  <2>1. ASSUME NEW b \in S PROVE ~(LastAddr - b < LastAddr - a)
    BY <1>4, <1>5
  <2> QED BY <1>1, <2>1
<1> QED BY <1>6 DEF Max

(* What the bus probe can do to the task state. *)
LEMMA ProbedState ==
  ASSUME NEW s, NEW sample \in Samples
  PROVE  \/ Probed(s, sample) \in {1, 3, 4, 16}
         \/ s = WAIT_RESET_COMPLETE /\ Probed(s, sample) = s
<1>1. sample \in {"SE0", "SE1", "JK"}
  BY DEF Samples
<1>2. CASE sample = "JK"
  <2>1. Probed(s, sample) = IF s = WAIT_RESET_COMPLETE THEN s ELSE ATTACHED
    BY <1>2, Zenon DEF Probed
  <2> QED BY <2>1 DEF ATTACHED
<1>3. CASE sample = "SE1"
  <2>1. Probed(s, sample) = DETACHED_ILLEGAL
    BY <1>3, Zenon DEF Probed
  <2> QED BY <2>1 DEF DETACHED_ILLEGAL
<1>4. CASE sample = "SE0"
  <2>1. Probed(s, sample) = IF Major(s) # 0 THEN DETACHED_INITIALIZE
                            ELSE DETACHED_WAIT_FOR_DEVICE
    BY <1>4, Zenon DEF Probed
  <2> QED BY <2>1 DEF DETACHED_INITIALIZE, DETACHED_WAIT_FOR_DEVICE
<1> QED BY <1>1, <1>2, <1>3, <1>4

(***************************************************************************)
(* Types.                                                                  *)
(***************************************************************************)

LEMMA TypeStep == TypeOK /\ Next => TypeOK'
<1> SUFFICES ASSUME TypeOK, Next PROVE TypeOK'
  OBVIOUS
<1> USE UsbAssumption DEF TypeOK
<1> USE DEF DETACHED_INITIALIZE, DETACHED_WAIT_FOR_DEVICE, DETACHED_ILLEGAL,
  ATTACHED, SETTLE, RESET_DEVICE, WAIT_RESET_COMPLETE, WAIT_SOF,
  GET_DESCRIPTOR, ADDRESSING, CONFIGURING, RUNNING, ERROR
<1>1. CASE InitProbe
  BY <1>1, ProbedState DEF InitProbe, task, app, chip, bus
<1>2. CASE InitClear
  BY <1>2 DEF InitClear, ClearTable, task, app, chip, bus
<1>3. CASE NoInterrupt
  BY <1>3 DEF NoInterrupt, task, app, chip, bus
<1>4. CASE ServeInterrupt
  <2>1. PICK sample \in Samples :
          usb_task_state' = IF "BUSEVENT" \in irq
                            THEN Probed(usb_task_state, sample) + 1
                            ELSE Probed(usb_task_state, sample)
    BY <1>4 DEF ServeInterrupt
  <2>2. usb_task_state' \in {1, 2, 3, 4, 5, 16, 17, 19, 20}
    BY <2>1, ProbedState
  <2> QED BY <1>4, <2>2 DEF ServeInterrupt, app, chip, bus
<1>5. CASE Acknowledge
  BY <1>5 DEF Acknowledge, task, app, chip, bus
<1>6. CASE TaskInitialize
  BY <1>6 DEF TaskInitialize, InState, ClearTable, task, app, chip, bus
<1>7. CASE TaskAttached
  BY <1>7 DEF TaskAttached, InState, task, app, chip, bus
<1>8. CASE TaskSettled
  BY <1>8 DEF TaskSettled, InState, task, app, chip, bus
<1>9. CASE TaskReset
  BY <1>9 DEF TaskReset, InState, task, app, chip, bus
<1>10. CASE TaskResetComplete
  BY <1>10 DEF TaskResetComplete, InState, task, app, chip, bus
<1>11. CASE TaskSof
  BY <1>11 DEF TaskSof, InState, task, app, chip, bus
<1>12. CASE TaskDescriptor
  BY <1>12 DEF TaskDescriptor, InState, task, app, chip, bus
<1>13. CASE TaskAddress
  <2>1. CASE NoAddress
    BY <1>13, <2>1 DEF TaskAddress, InState, NoAddress, app, chip, bus
  <2>2. CASE TakeAddress
    <3>1. PICK a \in Addresses :
            /\ epinfo' = [epinfo EXCEPT ![a] = "dev0"]
            /\ usb_task_state' \in {CONFIGURING, ERROR}
            /\ tmp_addr' \in {tmp_addr, a} /\ devaddr' \in {devaddr, a}
      BY <2>2 DEF TakeAddress
    <3> QED BY <1>13, <3>1 DEF TaskAddress, InState, Addresses, app, chip
  <2> QED BY <1>13, <2>1, <2>2 DEF TaskAddress
<1>14. CASE TaskConfigure
  <2>1. PICK r \in ProbeResults :
          /\ usb_task_state' \in {RUNNING, ERROR}
          /\ IF r = "none" THEN UNCHANGED <<devclass, epinfo, hid_addr>>
             ELSE UseHidEndpoints
    BY <1>14 DEF TaskConfigure
  <2>2. r # "none" => plugged \in {"kbd", "mouse"}
    BY <2>1 DEF ProbeResults
  <2>3. /\ epinfo' \in [Addresses -> {"null", "dev0", "hid"}]
        /\ devclass' \in [Addresses -> {"none", "kbd", "mouse"}]
        /\ hid_addr' \in 0..LastAddr
    BY <2>1, <2>2 DEF UseHidEndpoints
  <2> QED BY <1>14, <2>1, <2>3 DEF TaskConfigure, InState, app, chip, bus
<1>15. CASE TaskIdle
  BY <1>15 DEF TaskIdle, task, app, chip, bus
<1>16. CASE AppStart
  <2> DEFINE used == {b \in Addresses : epinfo[b] # "null"}
  <2>1. device' \in {"none", "kbd", "mouse"}
    <3>1. CASE used = {}
      BY <1>16, <3>1 DEF AppStart
    <3>2. CASE used # {}
      <4>1. Max(used) \in Addresses
        BY <3>2, MaxOfAddresses
      <4> QED BY <1>16, <3>2, <4>1 DEF AppStart
    <3> QED BY <3>1, <3>2
  <2> QED BY <1>16, <2>1 DEF AppStart, task, chip, bus
<1>17. CASE AppPoll
  <2>1. keycode' \in KeyCodes
    BY <1>17 DEF AppPoll
  <2> QED BY <1>17, <2>1 DEF AppPoll, task, chip, bus
<1>18. CASE AppError
  BY <1>18 DEF AppError, task, app, chip, bus
<1>19. CASE AppWait
  BY <1>19 DEF AppWait, task, app, chip, bus
<1>20. CASE AppStop
  BY <1>20 DEF AppStop, task, app, chip, bus
<1>21. CASE Attach
  BY <1>21 DEF Attach, task, app, chip, bus
<1>22. CASE Detach
  BY <1>22 DEF Detach, task, app, chip, bus
<1>23. CASE BusResetDone
  <2>1. irq' \in SUBSET {"CONDET", "BUSEVENT"}
    BY <1>23 DEF BusResetDone
  <2>2. devaddr' \in -1..LastAddr
    BY <1>23 DEF BusResetDone
  <2>3. /\ busrst' \in BOOLEAN
        /\ UNCHANGED <<usb_task_state, usb_delay, tmp_addr, epinfo, devclass,
                       hid_addr, runningdebugflag, errorflag, device, keycode,
                       led9, pc, hirq, osc, plugged, plugs>>
    BY <1>23 DEF BusResetDone, task, app
  <2> QED BY <2>1, <2>2, <2>3
<1>24. CASE OscOk
  BY <1>24 DEF OscOk, task, app, chip, bus
<1>25. CASE Tick
  BY <1>25 DEF Tick, task, app, chip, bus
<1>26. CASE ClockWrap
  BY <1>26 DEF ClockWrap, task, app, chip, bus
<1> QED BY <1>1, <1>2, <1>3, <1>4, <1>5, <1>6, <1>7, <1>8, <1>9, <1>10,
  <1>11, <1>12, <1>13, <1>14, <1>15, <1>16, <1>17, <1>18, <1>19, <1>20,
  <1>21, <1>22, <1>23, <1>24, <1>25, <1>26 DEF Next, Loop, USB_Task, App,
  Environment, Plug

(***************************************************************************)
(* Steps that several invariants need.                                     *)
(***************************************************************************)

(* The environment leaves the program's variables alone, but for the delay.*)
LEMMA EnvironmentFrame ==
  Environment => UNCHANGED <<usb_task_state, tmp_addr, epinfo, devclass,
                             hid_addr, app, pc>>
BY DEF Environment, Plug, Attach, Detach, BusResetDone, OscOk, Tick, ClockWrap,
       task

(* A plug or a bus reset takes the device's address away. *)
LEMMA EnvironmentAddress ==
  Environment => \/ UNCHANGED <<plugged, devaddr>>
                 \/ devaddr' \in {-1, 0}
BY DEF Environment, Plug, Attach, Detach, BusResetDone, OscOk, Tick, ClockWrap,
       bus

(* Neither the probe nor the handler reaches a state past the bus reset.   *)
LEMMA ServeState ==
  ASSUME TypeOK, ServeInterrupt
  PROVE  /\ usb_task_state' \in AfterProbe \cup {WAIT_RESET_COMPLETE, WAIT_SOF}
         /\ usb_task_state # WAIT_RESET_COMPLETE
              => usb_task_state' \in AfterProbe
<1>1. PICK sample \in Samples :
        usb_task_state' = IF "BUSEVENT" \in irq
                          THEN Probed(usb_task_state, sample) + 1
                          ELSE Probed(usb_task_state, sample)
  BY DEF ServeInterrupt
<1> QED BY <1>1, ProbedState
        DEF AfterProbe, ATTACHED, SETTLE, WAIT_RESET_COMPLETE, WAIT_SOF

LEMMA InitProbeState ==
  InitProbe => usb_task_state' \in {1, 3, 4, ATTACHED, WAIT_RESET_COMPLETE}
BY ProbedState DEF InitProbe, ATTACHED

(***************************************************************************)
(* The flag.                                                               *)
(***************************************************************************)

LEMMA FlagStep == TypeOK /\ FlagInv /\ Next => FlagInv'
<1> SUFFICES ASSUME TypeOK, FlagInv, Next PROVE FlagInv'
  OBVIOUS
<1> USE DEF FlagInv, AfterProbe, DETACHED_INITIALIZE,
  DETACHED_WAIT_FOR_DEVICE, DETACHED_ILLEGAL, ATTACHED, SETTLE,
  RESET_DEVICE, WAIT_RESET_COMPLETE, WAIT_SOF, GET_DESCRIPTOR, ADDRESSING,
  CONFIGURING, RUNNING, ERROR
<1>1. CASE InitProbe
  BY <1>1, InitProbeState DEF InitProbe, app
<1>2. CASE InitClear
  BY <1>2 DEF InitClear
<1>3. CASE NoInterrupt
  BY <1>3 DEF NoInterrupt, task, app
<1>4. CASE ServeInterrupt
  BY <1>4, ServeState DEF ServeInterrupt, app
<1>5. CASE Acknowledge
  BY <1>5 DEF Acknowledge, task, app
<1>6. CASE TaskInitialize
  BY <1>6 DEF TaskInitialize, InState, app
<1>7. CASE TaskAttached
  BY <1>7 DEF TaskAttached, InState, app
<1>8. CASE TaskSettled
  BY <1>8 DEF TaskSettled, InState, app
<1>9. CASE TaskReset
  BY <1>9 DEF TaskReset, InState, app
<1>10. CASE TaskResetComplete
  BY <1>10 DEF TaskResetComplete, InState, app
<1>11. CASE TaskSof
  BY <1>11 DEF TaskSof, InState, app
<1>12. CASE TaskDescriptor
  BY <1>12 DEF TaskDescriptor, InState, app
<1>13. CASE TaskAddress
  BY <1>13 DEF TaskAddress, NoAddress, TakeAddress, InState, app
<1>14. CASE TaskConfigure
  BY <1>14 DEF TaskConfigure, InState, app
<1>15. CASE TaskIdle
  BY <1>15 DEF TaskIdle, task, app, TypeOK
<1>16. CASE AppStart
  BY <1>16 DEF AppStart, Running, task
<1>17. CASE AppPoll
  BY <1>17 DEF AppPoll, Running, task
<1>18. CASE AppError
  BY <1>18 DEF AppError, Running, task
<1>19. CASE AppWait
  BY <1>19 DEF AppWait, Running, task
<1>20. CASE AppStop
  BY <1>20 DEF AppStop, Running, task
<1>21. CASE Environment
  BY <1>21, EnvironmentFrame DEF app
<1> QED BY <1>1, <1>2, <1>3, <1>4, <1>5, <1>6, <1>7, <1>8, <1>9, <1>10,
  <1>11, <1>12, <1>13, <1>14, <1>15, <1>16, <1>17, <1>18, <1>19, <1>20,
  <1>21 DEF Next, Loop, USB_Task, App

(***************************************************************************)
(* The device table.                                                       *)
(***************************************************************************)

LEMMA TakenAddress ==
  TakeAddress =>
    \E a \in Addresses :
      /\ Free(a) /\ \A b \in 1..(a - 1) : ~Free(b)
      /\ epinfo' = [epinfo EXCEPT ![a] = "dev0"]
      /\ \/ usb_task_state' = ERROR
         \/ usb_task_state' = CONFIGURING /\ tmp_addr' = a
<1> SUFFICES ASSUME TakeAddress,
                    NEW a \in Addresses,
                    Free(a), \A b \in 1..(a - 1) : ~Free(b),
                    epinfo' = [epinfo EXCEPT ![a] = "dev0"],
                    NEW ok \in Transfer(0),
                    usb_task_state' = IF ok THEN CONFIGURING ELSE ERROR,
                    tmp_addr' = IF ok THEN a ELSE tmp_addr
             PROVE  \/ usb_task_state' = ERROR
                    \/ usb_task_state' = CONFIGURING /\ tmp_addr' = a
  BY Zenon DEF TakeAddress
<1>1. CASE ok
  BY <1>1
<1>2. CASE ~ok
  BY <1>2
<1> QED BY <1>1, <1>2

LEMMA TableStep == TypeOK /\ FlagInv /\ TableInv /\ Next => TableInv'
<1> SUFFICES ASSUME TypeOK, FlagInv, TableInv, Next PROVE TableInv'
  OBVIOUS
<1> USE UsbAssumption DEF TableInv, Free, Addresses
<1> USE DEF DETACHED_INITIALIZE, DETACHED_WAIT_FOR_DEVICE, DETACHED_ILLEGAL,
  ATTACHED, SETTLE, RESET_DEVICE, WAIT_RESET_COMPLETE, WAIT_SOF,
  GET_DESCRIPTOR, ADDRESSING, CONFIGURING, RUNNING, ERROR
<1>1. CASE InitProbe
  BY <1>1, InitProbeState DEF InitProbe
<1>2. CASE InitClear
  BY <1>2 DEF InitClear, ClearTable, FlagInv
<1>3. CASE NoInterrupt
  BY <1>3 DEF NoInterrupt, task
<1>4. CASE ServeInterrupt
  BY <1>4, ServeState DEF ServeInterrupt, AfterProbe
<1>5. CASE Acknowledge
  BY <1>5 DEF Acknowledge, task
<1>6. CASE TaskInitialize
  BY <1>6 DEF TaskInitialize, InState, ClearTable
<1>7. CASE TaskAttached
  BY <1>7 DEF TaskAttached, InState
<1>8. CASE TaskSettled
  BY <1>8 DEF TaskSettled, InState
<1>9. CASE TaskReset
  BY <1>9 DEF TaskReset, InState
<1>10. CASE TaskResetComplete
  BY <1>10 DEF TaskResetComplete, InState
<1>11. CASE TaskSof
  BY <1>11 DEF TaskSof, InState
<1>12. CASE TaskDescriptor
  BY <1>12 DEF TaskDescriptor, InState
<1>13. CASE TaskAddress
  <2>1. CASE NoAddress
    BY <2>1 DEF NoAddress
  <2>2. CASE TakeAddress
    <3>1. PICK a \in Addresses :
            /\ Free(a) /\ \A b \in 1..(a - 1) : ~Free(b)
            /\ epinfo' = [epinfo EXCEPT ![a] = "dev0"]
            /\ \/ usb_task_state' = ERROR
               \/ usb_task_state' = CONFIGURING /\ tmp_addr' = a
      BY <2>2, TakenAddress
    <3>2. \A b \in Addresses : epinfo'[b] = IF b = a THEN "dev0" ELSE epinfo[b]
      BY <3>1 DEF TypeOK
    <3>3. \A b \in Addresses : b > a => Free(b)
      BY <3>1
    <3> QED BY <3>1, <3>2, <3>3
  <2> QED BY <1>13, <2>1, <2>2 DEF TaskAddress
<1>14. CASE TaskConfigure
  <2>1. \A b \in Addresses : epinfo'[b] = "null" <=> epinfo[b] = "null"
    BY <1>14 DEF TaskConfigure, InState, UseHidEndpoints, TypeOK
  <2>2. tmp_addr' = tmp_addr /\ usb_task_state = CONFIGURING
    BY <1>14 DEF TaskConfigure, InState
  <2> QED BY <2>1, <2>2
<1>15. CASE TaskIdle
  BY <1>15 DEF TaskIdle, task
<1>16. CASE AppStart
  BY <1>16 DEF AppStart, task
<1>17. CASE AppPoll
  BY <1>17 DEF AppPoll, task
<1>18. CASE AppError
  BY <1>18 DEF AppError, task
<1>19. CASE AppWait
  BY <1>19 DEF AppWait, task
<1>20. CASE AppStop
  BY <1>20 DEF AppStop, task
<1>21. CASE Environment
  BY <1>21, EnvironmentFrame
<1> QED BY <1>1, <1>2, <1>3, <1>4, <1>5, <1>6, <1>7, <1>8, <1>9, <1>10,
  <1>11, <1>12, <1>13, <1>14, <1>15, <1>16, <1>17, <1>18, <1>19, <1>20,
  <1>21 DEF Next, Loop, USB_Task, App

(***************************************************************************)
(* The device that runs.                                                   *)
(***************************************************************************)

(* The running state is only entered by configuring a keyboard or a mouse. *)
LEMMA RunningEntered ==
  ASSUME TypeOK, FlagInv, TableInv, Next,
         usb_task_state' = RUNNING, usb_task_state # RUNNING
  PROVE  /\ TaskConfigure /\ usb_task_state = CONFIGURING
         /\ UseHidEndpoints /\ plugged \in {"kbd", "mouse"}
<1> USE DEF DETACHED_INITIALIZE, DETACHED_WAIT_FOR_DEVICE, DETACHED_ILLEGAL,
  ATTACHED, SETTLE, RESET_DEVICE, WAIT_RESET_COMPLETE, WAIT_SOF,
  GET_DESCRIPTOR, ADDRESSING, CONFIGURING, RUNNING, ERROR
<1>1. CASE InitProbe
  BY <1>1, InitProbeState
<1>2. CASE ServeInterrupt
  BY <1>2, ServeState DEF AfterProbe
<1>3. CASE TaskInitialize
  BY <1>3 DEF TaskInitialize, InState
<1>4. CASE TaskAttached
  BY <1>4 DEF TaskAttached, InState
<1>5. CASE TaskSettled
  BY <1>5 DEF TaskSettled, InState
<1>6. CASE TaskReset
  BY <1>6 DEF TaskReset, InState
<1>7. CASE TaskResetComplete
  BY <1>7 DEF TaskResetComplete, InState
<1>8. CASE TaskSof
  BY <1>8 DEF TaskSof, InState
<1>9. CASE TaskDescriptor
  BY <1>9 DEF TaskDescriptor, InState
<1>10. CASE TaskAddress
  BY <1>10, TakenAddress DEF TaskAddress, NoAddress, InState
<1>11. CASE InitClear \/ NoInterrupt \/ Acknowledge \/ TaskIdle
  BY <1>11 DEF InitClear, NoInterrupt, Acknowledge, TaskIdle, task
<1>12. CASE App
  BY <1>12 DEF App, AppStart, AppPoll, AppError, AppWait, AppStop, task
<1>13. CASE Environment
  BY <1>13, EnvironmentFrame
<1>14. CASE TaskConfigure
  <2>1. PICK r \in ProbeResults :
          /\ usb_task_state' = IF r = "found" THEN RUNNING ELSE ERROR
          /\ IF r = "none" THEN UNCHANGED <<devclass, epinfo, hid_addr>>
             ELSE UseHidEndpoints
    BY <1>14, Zenon DEF TaskConfigure
  <2>2. r = "found"
    BY <2>1
  <2>3. plugged \in {"kbd", "mouse"}
    BY <2>1, <2>2 DEF ProbeResults
  <2> QED BY <1>14, <2>1, <2>2, <2>3 DEF TaskConfigure, InState
<1> QED BY <1>1, <1>2, <1>3, <1>4, <1>5, <1>6, <1>7, <1>8, <1>9, <1>10,
  <1>11, <1>12, <1>13, <1>14 DEF Next, Loop, USB_Task

(* As long as the state stays running, what describes the device stays.    *)
LEMMA RunningKept ==
  ASSUME TypeOK, FlagInv, Next,
         usb_task_state = RUNNING, usb_task_state' = RUNNING
  PROVE  UNCHANGED <<tmp_addr, hid_addr, epinfo, devclass>>
<1> USE DEF DETACHED_INITIALIZE, DETACHED_WAIT_FOR_DEVICE, DETACHED_ILLEGAL,
  ATTACHED, SETTLE, RESET_DEVICE, WAIT_RESET_COMPLETE, WAIT_SOF,
  GET_DESCRIPTOR, ADDRESSING, CONFIGURING, RUNNING, ERROR
<1>1. CASE InitProbe
  BY <1>1 DEF InitProbe
<1>2. CASE InitClear
  BY <1>2 DEF InitClear, FlagInv
<1>3. CASE ServeInterrupt
  BY <1>3 DEF ServeInterrupt
<1>4. CASE NoInterrupt \/ Acknowledge \/ TaskIdle
  BY <1>4 DEF NoInterrupt, Acknowledge, TaskIdle, task
<1>5. CASE USB_Task /\ ~TaskIdle
  BY <1>5 DEF USB_Task, InState, TaskInitialize, TaskAttached, TaskSettled,
    TaskReset, TaskResetComplete, TaskSof, TaskDescriptor, TaskAddress,
    TaskConfigure
<1>6. CASE App
  BY <1>6 DEF App, AppStart, AppPoll, AppError, AppWait, AppStop, task
<1>7. CASE Environment
  BY <1>7, EnvironmentFrame
<1> QED BY <1>1, <1>2, <1>3, <1>4, <1>5, <1>6, <1>7 DEF Next, Loop, USB_Task

LEMMA ConfiguredStep ==
  TypeOK /\ FlagInv /\ TableInv /\ ConfiguredWhileRunning /\ Next
    => ConfiguredWhileRunning'
<1> SUFFICES ASSUME TypeOK, FlagInv, TableInv, ConfiguredWhileRunning, Next,
                    usb_task_state' = RUNNING
             PROVE  ConfiguredWhileRunning'
  BY DEF ConfiguredWhileRunning
<1>1. CASE usb_task_state = RUNNING
  BY <1>1, RunningKept DEF ConfiguredWhileRunning
<1>2. CASE usb_task_state # RUNNING
  <2>1. /\ TaskConfigure /\ usb_task_state = CONFIGURING
        /\ UseHidEndpoints /\ plugged \in {"kbd", "mouse"}
    BY <1>2, RunningEntered
  <2>2. tmp_addr \in Addresses /\ tmp_addr' = tmp_addr
    BY <2>1 DEF TableInv, TaskConfigure
  <2> QED BY <2>1, <2>2 DEF ConfiguredWhileRunning, UseHidEndpoints, TypeOK
<1> QED BY <1>1, <1>2

(* The class main() takes over is that of the address that runs.           *)
LEMMA StartedClass ==
  ASSUME TypeOK, TableInv, ConfiguredWhileRunning, AppStart
  PROVE  device' = devclass[hid_addr]
<1> DEFINE used == {a \in Addresses : epinfo[a] # "null"}
<1>1. usb_task_state = RUNNING
  BY DEF AppStart, Running
<1>2. /\ hid_addr \in used
      /\ \A b \in used : ~(b > hid_addr)
  BY <1>1 DEF TableInv, ConfiguredWhileRunning, Free
<1>3. Max(used) \in used /\ \A b \in used : Max(used) >= b
  BY <1>2, MaxOfAddresses
<1>4. used \subseteq Int
  BY UsbAssumption DEF Addresses
<1>5. Max(used) = hid_addr
  <2> DEFINE last == Max(used)
  <2>1. /\ last \in Int /\ hid_addr \in Int
        /\ last >= hid_addr /\ ~(last > hid_addr)
    BY <1>2, <1>3, <1>4
  <2> HIDE DEF last
  <2>2. last = hid_addr
    BY <2>1
  <2> QED BY <2>2 DEF last
<1>6. device' = devclass[Max(used)]
  BY <1>2 DEF AppStart
<1> QED BY <1>5, <1>6

LEMMA ClassStep == HostInv /\ Next => ClassInv'
<1> SUFFICES ASSUME HostInv, Next, usb_task_state' = RUNNING
             PROVE  /\ devaddr' = hid_addr' => devclass'[hid_addr'] = plugged'
                    /\ runningdebugflag' => device' = devclass'[hid_addr']
  BY DEF ClassInv
<1> USE DEF HostInv
<1>1. CASE usb_task_state # RUNNING
  <2>1. /\ TaskConfigure /\ usb_task_state = CONFIGURING
        /\ UseHidEndpoints
    BY <1>1, RunningEntered
  <2>2. ~runningdebugflag'
    <3>1. pc = "task" /\ runningdebugflag' = runningdebugflag
      BY <2>1 DEF TaskConfigure, InState, app
    <3> QED BY <2>1, <3>1
            DEF FlagInv, AfterProbe, CONFIGURING, RUNNING, ATTACHED, SETTLE
  <2>3. tmp_addr \in Addresses /\ plugged' = plugged
    BY <2>1 DEF TableInv, TaskConfigure, bus
  <2> QED BY <2>1, <2>2, <2>3 DEF UseHidEndpoints, TypeOK
<1>2. CASE usb_task_state = RUNNING
  <2>1. UNCHANGED <<hid_addr, devclass>> /\ hid_addr \in Addresses
    BY <1>2, RunningKept DEF ConfiguredWhileRunning
  <2>2. devaddr' = hid_addr => devclass[hid_addr] = plugged'
    <3>1. \/ UNCHANGED <<plugged, devaddr>>
          \/ devaddr' \in {-1, 0}
      <4>1. CASE USB_Task
        <5>1. TaskIdle
          BY <1>2, <4>1 DEF USB_Task, InState, TaskInitialize, TaskAttached,
            TaskSettled, TaskReset, TaskResetComplete, TaskSof,
            TaskDescriptor, TaskAddress, TaskConfigure, DETACHED_INITIALIZE,
            DETACHED_WAIT_FOR_DEVICE, DETACHED_ILLEGAL, ATTACHED, SETTLE,
            RESET_DEVICE, WAIT_RESET_COMPLETE, WAIT_SOF, GET_DESCRIPTOR,
            ADDRESSING, CONFIGURING, RUNNING, ERROR
        <5> QED BY <5>1 DEF TaskIdle, bus
      <4>3. CASE Loop /\ ~USB_Task
        BY <4>3 DEF Loop, App, InitProbe, InitClear, NoInterrupt,
          ServeInterrupt, Acknowledge, AppStart, AppPoll, AppError, AppWait,
          AppStop, bus
      <4>2. CASE Environment
        BY <4>2, EnvironmentAddress
      <4> QED BY <4>1, <4>2, <4>3 DEF Next
    <3>2. hid_addr \notin {-1, 0}
      BY <2>1, UsbAssumption DEF Addresses
    <3> QED BY <1>2, <3>1, <3>2 DEF ClassInv
  <2>3. runningdebugflag' => device' = devclass[hid_addr]
    <3>1. CASE AppStart
      BY <3>1, StartedClass
    <3>2. CASE Next /\ ~AppStart
      <4>1. CASE AppStop
        BY <4>1 DEF AppStop
      <4>2. CASE ~AppStop
        <5>1. UNCHANGED <<device, runningdebugflag>>
          BY <3>2, <4>2, EnvironmentFrame DEF Next, Loop, USB_Task, App,
            InitProbe, InitClear, NoInterrupt, ServeInterrupt, Acknowledge,
            TaskIdle, TaskInitialize, TaskAttached, TaskSettled, TaskReset,
            TaskResetComplete, TaskSof, TaskDescriptor, TaskAddress,
            TaskConfigure, AppStart, AppPoll, AppError, AppWait, AppStop,
            app
        <5> QED BY <1>2, <5>1 DEF ClassInv
      <4> QED BY <4>1, <4>2
    <3> QED BY <3>1, <3>2
  <2> QED BY <2>1, <2>2, <2>3
<1> QED BY <1>1, <1>2

(***************************************************************************)
(* The LED.                                                                *)
(***************************************************************************)

LEMMA LedStep ==
  TypeOK /\ FlagInv /\ LedTellsRunning /\ Next => LedTellsRunning'
<1> SUFFICES ASSUME TypeOK, FlagInv, LedTellsRunning, Next
             PROVE  LedTellsRunning'
  OBVIOUS
<1>0. led9 \in BOOLEAN /\ runningdebugflag \in BOOLEAN /\ errorflag \in BOOLEAN
  BY DEF TypeOK
<1> USE DEF LedTellsRunning, DETACHED_INITIALIZE, DETACHED_WAIT_FOR_DEVICE,
  DETACHED_ILLEGAL, ATTACHED, SETTLE, RESET_DEVICE, WAIT_RESET_COMPLETE,
  WAIT_SOF, GET_DESCRIPTOR, ADDRESSING, CONFIGURING, RUNNING, ERROR
<1>1. CASE InitProbe
  BY <1>1 DEF InitProbe
<1>2. CASE InitClear
  <2>1. ~runningdebugflag' /\ ~led9' /\ usb_task_state' # RUNNING
    BY <1>2 DEF InitClear, FlagInv
  <2>2. led9' = FALSE /\ runningdebugflag' = runningdebugflag
    BY <1>2 DEF InitClear
  <2>3. led9' = runningdebugflag'
    BY <2>1, <2>2, <1>0
  <2> QED BY <2>1, <2>3
<1>3. CASE NoInterrupt \/ ServeInterrupt \/ Acknowledge
  BY <1>3 DEF NoInterrupt, ServeInterrupt, Acknowledge, app, task
<1>4. CASE USB_Task
  BY <1>4 DEF USB_Task, InState, TaskIdle, TaskInitialize, TaskAttached,
    TaskSettled, TaskReset, TaskResetComplete, TaskSof, TaskDescriptor,
    TaskAddress, TaskConfigure, app
<1>5. CASE AppStart
  BY <1>5 DEF AppStart
<1>6. CASE AppPoll
  <2>1. UNCHANGED <<led9, runningdebugflag>> /\ runningdebugflag /\ pc = "app"
    BY <1>6 DEF AppPoll, Running
  <2>2. led9 = runningdebugflag
    BY <2>1
  <2> QED BY <2>1, <2>2, <1>0
<1>7. CASE AppError
  BY <1>7, <1>0 DEF AppError, FlagInv, AfterProbe, task
<1>8. CASE AppWait
  BY <1>8, <1>0 DEF AppWait, task
<1>9. CASE AppStop
  BY <1>9 DEF AppStop
<1>10. CASE Environment
  BY <1>10, EnvironmentFrame DEF app
<1> QED BY <1>1, <1>2, <1>3, <1>4, <1>5, <1>6, <1>7, <1>8, <1>9, <1>10 DEF
  Next, Loop, App

(***************************************************************************)
(* The theorems.                                                           *)
(***************************************************************************)

LEMMA HostInit == Init => HostInv
<1> SUFFICES ASSUME Init PROVE HostInv
  OBVIOUS
<1>1. TypeOK
  <2>1. /\ hirq \in SUBSET {"CONDET", "BUSEVENT"}
        /\ irq \in SUBSET {"CONDET", "BUSEVENT"}
    BY DEF Init
  <2>2. /\ tmp_addr \in 0..LastAddr /\ hid_addr \in 0..LastAddr
        /\ devaddr \in -1..LastAddr /\ plugs \in 0..MaxPlugs
    BY UsbAssumption DEF Init
  <2> QED BY <2>1, <2>2, UsbAssumption DEF Init, TypeOK, DETACHED_INITIALIZE
<1> QED BY <1>1 DEF Init, HostInv, FlagInv, TableInv, ClassInv, Free,
           ConfiguredWhileRunning, LedTellsRunning, RUNNING, CONFIGURING,
           DETACHED_INITIALIZE

LEMMA HostStep == HostInv /\ [Next]_vars => HostInv'
<1> SUFFICES ASSUME HostInv, [Next]_vars PROVE HostInv'
  OBVIOUS
<1>1. CASE Next
  <2>1. TypeOK' /\ FlagInv' /\ TableInv'
    BY <1>1, TypeStep, FlagStep, TableStep DEF HostInv
  <2>2. ClassInv' /\ ConfiguredWhileRunning' /\ LedTellsRunning'
    BY <1>1, ClassStep, ConfiguredStep, LedStep DEF HostInv
  <2> QED BY <2>1, <2>2 DEF HostInv
<1>2. CASE UNCHANGED vars
  BY <1>2 DEF vars, task, app, chip, bus, HostInv, TypeOK, FlagInv, TableInv,
              ClassInv, Free, ConfiguredWhileRunning, LedTellsRunning
<1> QED BY <1>1, <1>2

LEMMA HostCorrect == Spec => []HostInv
BY HostInit, HostStep, PTL DEF Spec

(* Every variable keeps its type, also when the handler adds its step to a *)
(* task state the probe has just set.                                      *)
THEOREM HostTypes == Spec => []TypeOK
<1>1. HostInv => TypeOK
  BY DEF HostInv
<1> QED BY <1>1, HostCorrect, PTL

(* A poll in the running state never follows a null endpoint pointer: the  *)
(* HID record names a configured entry of the table, for any number of     *)
(* addresses and whatever interrupts, glitches and failures fall between.  *)
THEOREM RunningIsConfigured == Spec => []ConfiguredWhileRunning
<1>1. HostInv => ConfiguredWhileRunning
  BY DEF HostInv
<1> QED BY <1>1, HostCorrect, PTL

(* LED 9 agrees with the flag that tells main() to poll.                   *)
THEOREM LedIsRight == Spec => []LedTellsRunning
<1>1. HostInv => LedTellsRunning
  BY DEF HostInv
<1> QED BY <1>1, HostCorrect, PTL

(* The key code changes only while a keyboard is plugged in, after any     *)
(* exchange of devices.                                                    *)
THEOREM KeysAreTyped == Spec => KeysFromKeyboard
<1>1. HostInv /\ [Next]_vars => [keycode' # keycode => plugged = "kbd"]_vars
  <2> SUFFICES ASSUME HostInv, Next, keycode' # keycode
               PROVE  plugged = "kbd"
    OBVIOUS
  <2>1. AppPoll
    BY EnvironmentFrame DEF Next, Loop, USB_Task, App, InitProbe, InitClear,
      NoInterrupt, ServeInterrupt, Acknowledge, TaskIdle, TaskInitialize,
      TaskAttached, TaskSettled, TaskReset, TaskResetComplete, TaskSof,
      TaskDescriptor, TaskAddress, TaskConfigure, AppStart, AppPoll,
      AppError, AppWait, AppStop, app
  <2>2. device = "kbd" /\ TRUE \in Transfer(hid_addr)
    BY <2>1 DEF AppPoll
  <2>3. devaddr = hid_addr
    BY <2>2 DEF Transfer
  <2> QED BY <2>1, <2>2, <2>3 DEF AppPoll, Running, HostInv, ClassInv
<1> QED BY <1>1, HostCorrect, PTL DEF Spec, KeysFromKeyboard
=============================================================================
