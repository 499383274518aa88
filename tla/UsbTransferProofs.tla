-------------------------- MODULE UsbTransferProofs --------------------------
(***************************************************************************)
(* For every limit, timeout and clock: no transfer gives up a controller   *)
(* that works; the polls implement ReportChannel, and a control read that  *)
(* ends is complete, however packets and acknowledgements are lost; and no *)
(* settle wait is short.                                                   *)
(***************************************************************************)
EXTENDS UsbTransfer, UsbClock, SequenceTheorems, TLAPS

(***************************************************************************)
(* Time.                                                                   *)
(***************************************************************************)

Counts ==
    /\ now \in Nat /\ now <= LastTime
    /\ timeout \in Nat /\ timeout <= LastTime + Timeout
    /\ retry_count \in Nat /\ retry_count < RetryLimit
    /\ nak_count \in Nat /\ nak_count < NakLimit

(* So many milliseconds at most have passed since the dispatch, with or    *)
(* without a wrap of the clock.                                            *)
Within(ms) ==
    \/ timeout - now <= Timeout /\ timeout - now >= Timeout - ms
    \/ /\ timeout - (now + LastTime + 1) <= Timeout
       /\ timeout - (now + LastTime + 1) >= Timeout - ms

(* Each attempt has taken less than one. *)
Elapsed ==
    stage # "idle" /\ (dead => HRSL # "none") =>
        /\ Within(nak_count + retry_count + 1)
        /\ ticked = FALSE => Within(nak_count + retry_count)

TimeInv == Counts /\ Elapsed
-----------------------------------------------------------------------------
(* A dispatch begins with the whole timeout before it. *)
LEMMA DispatchTime ==
  ASSUME TimeInv, Dispatch, now' = now
  PROVE  TimeInv'
<1>1. Counts'
  BY TransferAssumption DEF TimeInv, Counts, Dispatch
<1>2. nak_count' = 0 /\ retry_count' = 0 /\ timeout' - now' = Timeout /\ Timeout \in Nat
  BY TransferAssumption DEF TimeInv, Counts, Dispatch
<1>3. Within(nak_count + retry_count)' /\ Within(nak_count + retry_count + 1)'
  BY <1>2 DEF Within
<1> QED BY <1>1, <1>3 DEF TimeInv, Elapsed

(* A return leaves the counts at zero. *)
LEMMA ReturnTime ==
  ASSUME TimeInv, Return, now' = now
  PROVE  TimeInv'
BY TransferAssumption DEF TimeInv, Counts, Elapsed, Return

(* One attempt more is one millisecond more. *)
LEMMA AgainTime ==
  ASSUME TimeInv, Again, now' = now, HRSL # "none",
         nak_count' < NakLimit, retry_count' < RetryLimit,
         \/ nak_count' = nak_count + 1 /\ retry_count' = retry_count
         \/ nak_count' = nak_count /\ retry_count' = retry_count + 1
  PROVE  TimeInv'
<1>1. Counts'
  BY TransferAssumption DEF TimeInv, Counts, Again
<1> SUFFICES ASSUME stage' # "idle"
             PROVE  /\ Within(nak_count + retry_count + 1)'
                    /\ Within(nak_count + retry_count)'
  BY <1>1 DEF TimeInv, Elapsed
<1>2. Within(nak_count + retry_count + 1)
  BY DEF TimeInv, Elapsed, Again
<1>3. now' = now /\ timeout' = timeout
  BY DEF Again
<1>4. nak_count' + retry_count' = nak_count + retry_count + 1
  BY DEF TimeInv, Counts
<1>5. Within(nak_count + retry_count)'
  BY <1>2, <1>3, <1>4 DEF Within
<1>6. Within(nak_count + retry_count + 1)'
  BY <1>2, <1>3, TransferAssumption DEF TimeInv, Counts, Within
<1> QED BY <1>5, <1>6

(* The host's steps. *)
LEMMA HostTime ==
  ASSUME TimeInv, HostStep
  PROVE  TimeInv'
<1>1. CASE Nak
  <2>1. now' = now /\ HRSL # "none" BY <1>1 DEF Nak, Done
  <2>2. CASE Return BY <2>1, <2>2, ReturnTime
  <2>3. CASE ~Return
    <3>1. /\ Again /\ nak_count' = nak_count + 1 /\ retry_count' = retry_count
          /\ nak_count + 1 # NakLimit
      BY <1>1, <2>3 DEF Nak
    <3>2. nak_count' < NakLimit /\ retry_count' < RetryLimit
      BY <3>1, TransferAssumption DEF TimeInv, Counts
    <3> QED BY <2>1, <3>1, <3>2, AgainTime
  <2> QED BY <2>2, <2>3
<1>2. CASE Retry
  <2>1. now' = now /\ HRSL # "none" BY <1>2 DEF Retry, Done
  <2>2. CASE Return BY <2>1, <2>2, ReturnTime
  <2>3. CASE ~Return
    <3>1. /\ Again /\ retry_count' = retry_count + 1 /\ nak_count' = nak_count
          /\ retry_count + 1 # RetryLimit
      BY <1>2, <2>3 DEF Retry
    <3>2. nak_count' < NakLimit /\ retry_count' < RetryLimit
      BY <3>1, TransferAssumption DEF TimeInv, Counts
    <3> QED BY <2>1, <3>1, <3>2, AgainTime
  <2> QED BY <2>2, <2>3
<1>3. CASE Fail \/ NothingReceived \/ StatusDone \/ ReportRead \/ GiveUp
  BY <1>3, ReturnTime DEF Fail, NothingReceived, StatusDone, ReportRead, GiveUp, Done
<1>4. CASE DataStage \/ NoDataStage \/ PacketRead
  BY <1>4, DispatchTime DEF DataStage, NoDataStage, PacketRead, Done
<1> QED BY <1>1, <1>2, <1>3, <1>4 DEF HostStep

(* The clock: one tick an attempt, and one wrap at most. *)
LEMMA TickTime ==
  ASSUME TimeInv, Tick
  PROVE  TimeInv'
<1>1. Counts'
  BY TransferAssumption DEF TimeInv, Counts, Tick, hostVars
<1> SUFFICES ASSUME stage' # "idle", dead' => HRSL' # "none"
             PROVE  Within(nak_count + retry_count + 1)' /\ ticked' # FALSE
  BY <1>1 DEF TimeInv, Elapsed
<1>2. /\ stage # "idle" /\ (dead => HRSL # "none") /\ ticked = FALSE
      /\ UNCHANGED <<timeout, nak_count, retry_count>>
      /\ now' = IF now = LastTime THEN 0 ELSE now + 1
      /\ ticked' = (stage # "idle")
  BY DEF Tick, hostVars, sieVars
<1>3. Within(nak_count + retry_count)
  BY <1>2 DEF TimeInv, Elapsed
<1>4. Within(nak_count + retry_count + 1)'
  <2>1. nak_count + retry_count + 1 < Timeout
    BY TransferAssumption DEF TimeInv, Counts
  <2>2. CASE now = LastTime
    BY <1>2, <1>3, <2>1, <2>2, TransferAssumption DEF TimeInv, Counts, Within
  <2>3. CASE now # LastTime
    BY <1>2, <1>3, <2>1, <2>3, TransferAssumption DEF TimeInv, Counts, Within
  <2> QED BY <2>2, <2>3
<1> QED BY <1>2, <1>4

(* The rest leaves clock and counts alone. *)
LEMMA RestTime ==
  ASSUME TimeInv, Controller \/ Die \/ Configure \/ UNCHANGED vars \/ \E r \in Reports : Press(r)
  PROVE  TimeInv'
<1>1. /\ UNCHANGED <<now, stage, timeout, nak_count, retry_count, ticked>>
      /\ (dead' => HRSL' # "none") => (dead => HRSL # "none")
  BY DEF Controller, Lost, NotReady, Corrupted, Setup, Status, Sent, Finish, Die, Configure,
         Press, vars, hostVars, sieVars
<1> QED BY <1>1 DEF TimeInv, Counts, Elapsed, Within

(* The time since a dispatch is bounded by its attempts. *)
LEMMA TimeInductive ==
  /\ Init => TimeInv
  /\ TimeInv /\ [Next]_vars => TimeInv'
<1>1. Init => TimeInv
  BY TransferAssumption DEF Init, TimeInv, Counts, Elapsed
<1>2. ASSUME TimeInv, [Next]_vars PROVE TimeInv'
  <2>1. CASE BeginPoll BY <1>2, <2>1, DispatchTime DEF BeginPoll
  <2>2. CASE BeginRequest BY <1>2, <2>2, DispatchTime DEF BeginRequest
  <2> QED BY <1>2, <2>1, <2>2, HostTime, TickTime, RestTime DEF Next
<1> QED BY <1>1, <1>2

(* Whoever gives up has a dead controller before him, and no result. *)
LEMMA GivenUp ==
  ASSUME TimeInv, GiveUp
  PROVE  dead /\ HRSL = "none"
<1> SUFFICES ASSUME dead => HRSL # "none" PROVE FALSE
  OBVIOUS
<1>1. Within(nak_count + retry_count + 1) /\ now >= timeout
  BY DEF TimeInv, Elapsed, GiveUp
<1>2. nak_count + retry_count + 1 < Timeout
  BY TransferAssumption DEF TimeInv, Counts
<1> QED BY <1>1, <1>2, TransferAssumption DEF TimeInv, Counts, Within

(* transfer.c:142-186: NAKs and bus timeouts in any mixture, at any time   *)
(* of the clock: only a dead controller is given up.                       *)
THEOREM OnlyTheDeadAreGivenUp ==
  Spec => GivesUpOnlyTheDead
<1>1. ASSUME TimeInv, [Next]_vars, stage # "idle", stage' = "idle", ~dead
      PROVE  HRSL # HRSL'
  <2>1. CASE HostStep
    BY <1>1, <2>1, GivenUp
    DEF HostStep, Nak, Retry, Fail, DataStage, NoDataStage, NothingReceived, PacketRead,
        StatusDone, ReportRead, Done
  <2>2. CASE Controller \/ Die \/ Tick \/ Configure \/ UNCHANGED vars \/ \E r \in Reports : Press(r)
    BY <1>1, <2>2
    DEF Controller, Lost, NotReady, Corrupted, Setup, Status, Sent, Finish, Die, Tick,
        Configure, Press, vars
  <2>3. CASE BeginPoll \/ BeginRequest
    BY <1>1, <2>3 DEF BeginPoll, BeginRequest
  <2> QED BY <1>1, <2>1, <2>2, <2>3 DEF Next
<1> QED BY <1>1, TimeInductive, PTL DEF Spec, GivesUpOnlyTheDead

(***************************************************************************)
(* Reports and control reads.                                              *)
(***************************************************************************)

Endpoints == {"control", "interrupt"}
Whole == [k \in 1 .. Packets |-> k]

Types ==
    /\ rcvToggle \in {0, 1} /\ RCVTOG \in {0, 1}
    /\ dev \in [Endpoints -> [tog : {0, 1}, queue : Seq(Reports \cup 1 .. Packets)]]
    /\ dev["interrupt"].queue \in Seq(Reports)
    /\ dev["control"].queue \in Seq(1 .. Packets)
    /\ data \in Seq(1 .. Packets)
    /\ stage \in {"idle", "poll", "setup", "data", "status"}

(* A packet is in the controller only while its result is to be read. *)
Flags ==
    /\ busy => HRSL = "none" /\ (stage # "idle" \/ dead)
    /\ HRSL # "none" => stage # "idle"
    /\ RCVFIFO # <<>> => HRSL = "SUCCESS" /\ stage \in {"poll", "data"}
    /\ stage = "poll" => RCVFIFO = <<>> \/ \E r \in Reports : RCVFIFO = <<r>>
    /\ stage = "data" => RCVFIFO = <<>> \/ \E k \in 1 .. Packets : RCVFIFO = <<k>>
    /\ stage = "setup" /\ HRSL = "SUCCESS" => dev["control"] = [tog |-> 1, queue |-> Whole]

(* What a device still has to send, to a host that expects a toggle. *)
Left(e, expected) ==
    IF dev[e].tog = expected THEN dev[e].queue ELSE Tail(dev[e].queue)

(* A toggle that differs is that of a packet the controller has had. *)
Polls ==
    /\ stage = "poll" => RCVTOG = IF RCVFIFO = <<>> THEN rcvToggle ELSE Toggled(rcvToggle)
    /\ dev["interrupt"].tog # Expected => dev["interrupt"].queue # <<>>

Reads ==
    /\ stage \in {"idle", "poll", "setup"} => data = <<>>
    /\ stage = "data" =>
        /\ dev["control"].tog # RCVTOG => dev["control"].queue # <<>>
        /\ data \o (RCVFIFO \o Left("control", RCVTOG)) = Whole
    /\ stage = "status" /\ datastage => data = Whole

Inv == Types /\ Flags /\ Polls /\ Reads
-----------------------------------------------------------------------------
(* One packet before the others. *)
LEMMA PacketFirst ==
  ASSUME NEW S, NEW s \in Seq(S), NEW x \in S
  PROVE  /\ <<x>> \o s \in Seq(S) /\ <<x>> \o s # <<>>
         /\ Head(<<x>> \o s) = x /\ Tail(<<x>> \o s) = s
<1>1. <<x>> \in Seq(S) /\ Len(<<x>>) = 1 /\ <<x>>[1] = x
  OBVIOUS
<1>2. /\ <<x>> \o s \in Seq(S) /\ Len(<<x>> \o s) = Len(s) + 1
      /\ (<<x>> \o s)[1] = x
      /\ \A k \in 1 .. Len(s) : (<<x>> \o s)[k + 1] = s[k]
  BY <1>1, ConcatProperties
<1>3. <<x>> \o s # <<>>
  BY <1>2
<1>4. /\ Head(<<x>> \o s) = x
      /\ Tail(<<x>> \o s) \in Seq(S) /\ Len(Tail(<<x>> \o s)) = Len(s)
      /\ \A k \in 1 .. Len(s) : Tail(<<x>> \o s)[k] = s[k]
  BY <1>2, <1>3, HeadTailProperties
<1>5. Tail(<<x>> \o s) = s
  BY <1>4, SeqEqual
<1> QED BY <1>2, <1>3, <1>4, <1>5

(* A sequence is its first element and the rest. *)
LEMMA FirstAndRest ==
  ASSUME NEW S, NEW s \in Seq(S), s # <<>>
  PROVE  /\ Head(s) \in S /\ Tail(s) \in Seq(S)
         /\ <<Head(s)>> \o Tail(s) = s
<1>1. /\ Head(s) \in S /\ Head(s) = s[1]
      /\ Tail(s) \in Seq(S) /\ Len(Tail(s)) = Len(s) - 1 /\ Len(s) \in Nat \ {0}
      /\ \A k \in 1 .. Len(Tail(s)) : Tail(s)[k] = s[k + 1]
  BY HeadTailProperties, EmptySeq
<1>2. <<Head(s)>> \in Seq(S) /\ Len(<<Head(s)>>) = 1 /\ <<Head(s)>>[1] = s[1]
  BY <1>1
<1>3. /\ <<Head(s)>> \o Tail(s) \in Seq(S) /\ Len(<<Head(s)>> \o Tail(s)) = Len(s)
      /\ \A k \in 1 .. Len(s) : (<<Head(s)>> \o Tail(s))[k] = s[k]
  BY <1>1, <1>2, ConcatProperties
<1> QED BY <1>1, <1>3, SeqEqual

(* What comes later stays last. *)
LEMMA LaterLast ==
  ASSUME NEW S, NEW s \in Seq(S), NEW y \in S
  PROVE  /\ Append(s, y) \in Seq(S) /\ Append(s, y) # <<>> /\ Len(Append(s, y)) = Len(s) + 1
         /\ s # <<>> => Tail(Append(s, y)) = Append(Tail(s), y)
         /\ \A x \in S : <<x>> \o Append(s, y) = Append(<<x>> \o s, y)
<1>1. Append(s, y) \in Seq(S) /\ Append(s, y) # <<>> /\ Len(Append(s, y)) = Len(s) + 1
  BY AppendProperties
<1>2. ASSUME s # <<>> PROVE Tail(Append(s, y)) = Append(Tail(s), y)
  BY <1>2, HeadTailAppend
<1>3. ASSUME NEW x \in S PROVE <<x>> \o Append(s, y) = Append(<<x>> \o s, y)
  <2>1. <<x>> \in Seq(S) /\ <<y>> \in Seq(S) /\ <<x>> \o s \in Seq(S)
    BY ConcatProperties
  <2>2. Append(s, y) = s \o <<y>> /\ Append(<<x>> \o s, y) = (<<x>> \o s) \o <<y>>
    BY <2>1, AppendIsConcat
  <2> QED BY <2>1, <2>2, ConcatAssociative
<1> QED BY <1>1, <1>2, <1>3

(* The answer to a control read. *)
LEMMA WholeType ==
  Whole \in Seq(1 .. Packets) /\ Len(Whole) = Packets
<1>1. Whole \in [1 .. Packets -> 1 .. Packets] /\ Packets \in Nat
  BY TransferAssumption DEF Whole
<1>2. Whole \in Seq(1 .. Packets)
  BY <1>1, SeqDef
<1> QED BY <1>1, <1>2, LenProperties DEF Whole
-----------------------------------------------------------------------------
(* Reports on their way. *)
Waiting == InController \o InDevice

(* A step of ReportChannel, or none, on what is waiting. *)
Stays == Waiting' = Waiting /\ keycode' = keycode
Simulated ==
    \/ Stays
    \/ \E r \in Reports :
         Len(Waiting) <= Ahead /\ Waiting' = Append(Waiting, r) /\ keycode' = keycode
    \/ Waiting # <<>> /\ keycode' = Head(Waiting) /\ Waiting' = Tail(Waiting)
    \/ Waiting' = <<>> /\ keycode' = keycode

(* What the device still holds is a sequence of reports. *)
LEMMA InDeviceType ==
  ASSUME Inv
  PROVE  InDevice \in Seq(Reports)
BY HeadTailProperties DEF Inv, Types, Polls, InDevice

(* A transfer that ends without a packet leaves everything as it was. *)
LEMMA ReturnReports ==
  ASSUME Inv, Return, UNCHANGED <<rcvToggle, keycode, RCVTOG, RCVFIFO, dev>>,
         HRSL' = "none", RCVFIFO = <<>>, busy => dead'
  PROVE  Inv' /\ Stays
<1>1. stage' = "idle" /\ datastage' = FALSE /\ data' = <<>> /\ Expected' = Expected
  BY DEF Return, Expected, Inv, Polls
<1>2. Types'
  BY <1>1, EmptySeq DEF Inv, Types
<1>3. Flags'
  BY <1>1 DEF Inv, Flags, Return
<1>4. Polls' /\ Reads'
  BY <1>1 DEF Inv, Polls, Reads
<1>5. InController' = InController /\ InDevice' = InDevice
  BY <1>1 DEF InController, InDevice
<1> QED BY <1>2, <1>3, <1>4, <1>5 DEF Inv, Stays, Waiting

(* So does another attempt. *)
LEMMA AgainReports ==
  ASSUME Inv, Again, Untouched, UNCHANGED dev, HRSL # "none", HRSL' = "none", RCVFIFO = <<>>
  PROVE  Inv' /\ Stays
<1>1. UNCHANGED <<stage, datastage, data, rcvToggle, keycode, RCVTOG, RCVFIFO, dev>>
  BY DEF Again, Untouched
<1>2. Types' /\ Flags'
  BY <1>1 DEF Inv, Types, Flags
<1>3. Polls' /\ Reads'
  BY <1>1 DEF Inv, Polls, Reads, Expected, Left
<1>4. Stays
  BY <1>1 DEF Stays, Waiting, InController, InDevice, Expected
<1> QED BY <1>2, <1>3, <1>4 DEF Inv

(* A transfer begins; no packet is in the controller. *)
LEMMA BeginReports ==
  ASSUME Inv, BeginPoll \/ BeginRequest
  PROVE  Inv' /\ Stays
<1>1. /\ stage = "idle" /\ stage' \in {"poll", "setup"}
      /\ UNCHANGED <<HRSL, data, rcvToggle, keycode, RCVFIFO, dev>>
      /\ RCVTOG' \in {rcvToggle, RCVTOG}
      /\ stage' = "poll" => RCVTOG' = rcvToggle
  BY DEF BeginPoll, BeginRequest
<1>2. RCVFIFO = <<>> /\ HRSL = "none" /\ data = <<>> /\ Expected' = Expected
  BY <1>1 DEF Inv, Flags, Reads, Expected
<1>3. Types' /\ Flags'
  <2>1. Types'
    BY <1>1 DEF Inv, Types
  <2>2. Flags'
    BY <1>1, <1>2 DEF Flags
  <2> QED BY <2>1, <2>2
<1>4. Polls' /\ Reads'
  BY <1>1, <1>2 DEF Inv, Polls, Reads
<1>5. Stays
  BY <1>1, <1>2 DEF Stays, Waiting, InController, InDevice
<1> QED BY <1>3, <1>4, <1>5 DEF Inv

(* From the setup packet on to the data or the status stage. *)
LEMMA StageReports ==
  ASSUME Inv, DataStage \/ NoDataStage
  PROVE  Inv' /\ Stays
<1>1. /\ stage = "setup" /\ stage' \in {"data", "status"} /\ HRSL = "SUCCESS" /\ HRSL' = "none"
      /\ UNCHANGED <<data, datastage, rcvToggle, keycode, RCVFIFO, dev>>
      /\ stage' = "data" => RCVTOG' = 1
      /\ stage' = "status" => RCVTOG' = RCVTOG /\ ~datastage
  BY DEF DataStage, NoDataStage, Done, Untouched
<1>2. /\ RCVFIFO = <<>> /\ data = <<>> /\ Expected' = Expected
      /\ dev["control"].tog = 1 /\ dev["control"].queue = Whole
  BY <1>1 DEF Inv, Flags, Reads, Expected
<1>3. Types' /\ Flags'
  BY <1>1, <1>2 DEF Inv, Types, Flags
<1>4. stage' = "data" => data' \o (RCVFIFO' \o Left("control", RCVTOG)') = Whole
  BY <1>1, <1>2, WholeType, ConcatEmptySeq DEF Left
<1>5. Polls' /\ Reads'
  BY <1>1, <1>2, <1>4 DEF Inv, Polls, Reads
<1>6. Stays
  BY <1>1, <1>2 DEF Stays, Waiting, InController, InDevice
<1> QED BY <1>3, <1>5, <1>6 DEF Inv

(* A packet of the data stage goes from the controller to the data. *)
LEMMA PacketReports ==
  ASSUME Inv, PacketRead
  PROVE  Inv' /\ Stays
<1>1. /\ stage = "data" /\ RCVFIFO # <<>> /\ HRSL' = "none"
      /\ UNCHANGED <<datastage, rcvToggle, keycode, RCVTOG, dev>>
      /\ data' = data \o RCVFIFO /\ RCVFIFO' = <<>>
      /\ stage' = IF Len(data') < Packets THEN "data" ELSE "status"
  BY DEF PacketRead, Done
<1>2. PICK k \in 1 .. Packets : RCVFIFO = <<k>>
  BY <1>1 DEF Inv, Flags
<1> DEFINE left == Left("control", RCVTOG)
<1>3. /\ data \in Seq(1 .. Packets) /\ RCVFIFO \in Seq(1 .. Packets)
      /\ data' \in Seq(1 .. Packets) /\ left \in Seq(1 .. Packets)
  <2>1. data \in Seq(1 .. Packets) /\ RCVFIFO \in Seq(1 .. Packets)
    BY <1>2 DEF Inv, Types
  <2>2. data' \in Seq(1 .. Packets)
    BY <1>1, <2>1, ConcatProperties
  <2>3. left \in Seq(1 .. Packets)
    BY <1>1, HeadTailProperties DEF Inv, Types, Reads, Left
  <2> QED BY <2>1, <2>2, <2>3
<1>4. data' \o left = Whole
  <2>1. data \o (RCVFIFO \o left) = Whole
    BY <1>1 DEF Inv, Reads
  <2>2. data' = data \o RCVFIFO
    BY <1>1
  <2> HIDE DEF left
  <2>3. (data \o RCVFIFO) \o left = data \o (RCVFIFO \o left)
    BY <1>3, ConcatAssociative
  <2> QED BY <2>1, <2>2, <2>3
<1>5. left' = left /\ RCVFIFO' \o left' = left
  <2>1. left' = left /\ RCVFIFO' = <<>>
    BY <1>1 DEF Left
  <2> HIDE DEF left
  <2> QED BY <1>3, <2>1, ConcatEmptySeq
<1>6. ASSUME stage' = "status" PROVE data' = Whole
  <2> HIDE DEF left
  <2>1. Len(data') \in Nat /\ Len(left) \in Nat /\ Len(data' \o left) = Len(data') + Len(left)
    BY <1>3, ConcatProperties, LenProperties
  <2>2. Len(left) = 0
    BY <1>1, <1>4, <1>6, <2>1, WholeType, TransferAssumption
  <2>3. left = <<>>
    BY <1>3, <2>2, EmptySeq
  <2> QED BY <1>3, <1>4, <2>3, ConcatEmptySeq
<1>7. Types' /\ Flags'
  BY <1>1, <1>3 DEF Inv, Types, Flags
<1>8. Polls' /\ Reads'
  BY <1>1, <1>4, <1>5, <1>6 DEF Inv, Polls, Reads, Expected
<1>9. Stays
  BY <1>1 DEF Stays, Waiting, InController, InDevice, Expected
<1> QED BY <1>7, <1>8, <1>9 DEF Inv

(* A report goes from the controller to the main program. *)
LEMMA ReportReports ==
  ASSUME Inv, ReportRead
  PROVE  Inv' /\ Simulated
<1>1. /\ stage = "poll" /\ RCVFIFO # <<>> /\ HRSL' = "none" /\ stage' = "idle"
      /\ HRSL = "SUCCESS" /\ busy' = busy
      /\ RCVFIFO' = <<>> /\ rcvToggle' = RCVTOG /\ RCVTOG' = RCVTOG /\ keycode' = RCVFIFO[1]
      /\ UNCHANGED dev /\ data' = <<>> /\ datastage' = FALSE
  BY DEF ReportRead, Done, Return
<1>2. PICK r \in Reports : RCVFIFO = <<r>>
  BY <1>1 DEF Inv, Flags
<1>3. Expected' = Expected /\ InDevice' = InDevice
  BY <1>1 DEF Expected, InDevice
<1>4. Types' /\ Flags'
  BY <1>1, EmptySeq DEF Inv, Types, Flags
<1>5. Polls' /\ Reads'
  BY <1>1, <1>3 DEF Inv, Polls, Reads
<1>6. InController = <<r>> /\ InController' = <<>> /\ keycode' = r /\ InDevice \in Seq(Reports)
  BY <1>1, <1>2, InDeviceType DEF InController
<1>7. Waiting # <<>> /\ keycode' = Head(Waiting) /\ Waiting' = Tail(Waiting)
  BY <1>3, <1>6, PacketFirst, ConcatEmptySeq DEF Waiting
<1> QED BY <1>4, <1>5, <1>7 DEF Inv, Simulated

(* A configuration forgets the reports and begins with DATA0. *)
LEMMA ConfigureReports ==
  ASSUME Inv, Configure
  PROVE  Inv' /\ Simulated
<1>1. /\ stage = "idle" /\ rcvToggle' = 0
      /\ dev' = [dev EXCEPT !["interrupt"] = [tog |-> 0, queue |-> <<>>]]
      /\ UNCHANGED <<stage, datastage, data, keycode, busy, HRSL, RCVTOG, RCVFIFO, dead>>
  BY DEF Configure, sieVars
<1>2. /\ dev'["interrupt"].tog = 0 /\ dev'["interrupt"].queue = <<>>
      /\ dev'["control"] = dev["control"]
  BY <1>1 DEF Inv, Types, Endpoints
<1>3. Types'
  BY <1>1, <1>2, EmptySeq DEF Inv, Types, Endpoints
<1>4. Flags' /\ Reads'
  BY <1>1, <1>2 DEF Inv, Flags, Reads
<1>5. Polls'
  BY <1>1, <1>2 DEF Inv, Polls, Expected
<1>6. InController' = <<>> /\ InDevice' = <<>>
  BY <1>1, <1>2 DEF InController, InDevice, Expected
<1>7. Waiting' = <<>>
  BY <1>6, ConcatEmptySeq, EmptySeq DEF Waiting
<1> QED BY <1>1, <1>3, <1>4, <1>5, <1>7 DEF Inv, Simulated

(* A report is made, after those that wait. *)
LEMMA PressReports ==
  ASSUME Inv, NEW r \in Reports, Press(r)
  PROVE  Inv' /\ Simulated
<1> DEFINE queue == dev["interrupt"].queue
<1>1. /\ Len(queue) < Ahead /\ dev' = [dev EXCEPT !["interrupt"].queue = Append(@, r)]
      /\ UNCHANGED <<stage, datastage, data, rcvToggle, keycode, busy, HRSL, RCVTOG, RCVFIFO,
                     dead>>
  BY DEF Press, sieVars, hostVars
<1>2. /\ dev'["interrupt"].tog = dev["interrupt"].tog
      /\ dev'["interrupt"].queue = Append(queue, r)
      /\ dev'["control"] = dev["control"]
      /\ queue \in Seq(Reports)
  BY <1>1 DEF Inv, Types, Endpoints
<1>3. /\ Append(queue, r) \in Seq(Reports) /\ Append(queue, r) # <<>>
      /\ queue # <<>> => Tail(Append(queue, r)) = Append(Tail(queue), r)
      /\ Append(queue, r) \in Seq(Reports \cup 1 .. Packets)
  <2> HIDE DEF queue
  <2>1. Append(queue, r) \in Seq(Reports) /\ Append(queue, r) # <<>>
    BY <1>2, LaterLast
  <2> QED BY <1>2, <2>1, LaterLast, SeqMonotonic
<1>4. Types'
  BY <1>1, <1>2, <1>3 DEF Inv, Types, Endpoints
<1>5. Flags' /\ Reads'
  BY <1>1, <1>2 DEF Inv, Flags, Reads, Left
<1>6. Polls'
  BY <1>1, <1>2, <1>3 DEF Inv, Polls, Expected
<1>7. /\ InController' = InController /\ InDevice' = Append(InDevice, r)
      /\ InDevice \in Seq(Reports)
      /\ InController = <<>> \/ \E x \in Reports : InController = <<x>>
  BY <1>1, <1>2, <1>3, InDeviceType
  DEF InController, InDevice, Expected, Inv, Polls, Flags
<1>8. Len(InDevice) <= Len(queue)
  BY <1>2, HeadTailProperties, LenProperties DEF InDevice, Inv, Polls
<1>9. Len(Waiting) <= Ahead /\ Waiting' = Append(Waiting, r)
  <2> HIDE DEF queue
  <2>1. Len(queue) \in Nat /\ Len(InDevice) \in Nat
    BY <1>2, <1>7, LenProperties
  <2>2. CASE InController = <<>>
    <3>1. Waiting = InDevice /\ Waiting' = Append(InDevice, r)
      BY <1>7, <2>2, LaterLast, ConcatEmptySeq DEF Waiting
    <3> QED BY <1>1, <1>8, <2>1, <3>1, TransferAssumption
  <2>3. ASSUME NEW x \in Reports, InController = <<x>>
        PROVE  Len(Waiting) <= Ahead /\ Waiting' = Append(Waiting, r)
    <3>1. Waiting' = Append(Waiting, r)
      BY <1>7, <2>3, LaterLast DEF Waiting
    <3>2. Len(Waiting) = 1 + Len(InDevice)
      BY <1>7, <2>3, ConcatProperties DEF Waiting
    <3> QED BY <1>1, <1>8, <2>1, <3>1, <3>2, TransferAssumption
  <2> QED BY <1>7, <2>2, <2>3
<1> QED BY <1>1, <1>4, <1>5, <1>6, <1>9 DEF Inv, Simulated

(* A packet the controller keeps is the next one it expects, and one it    *)
(* does not keep is one it has had.                                        *)
LEMMA SentPacket ==
  ASSUME Types, NEW S, NEW a \in BOOLEAN, Sent(a), RCVFIFO = <<>>,
         NEW CONSTANT e \in Endpoints, e = Endpoint, dev[e].queue \in Seq(S)
  PROVE  /\ dev' \in [Endpoints -> [tog : {0, 1}, queue : Seq(Reports \cup 1 .. Packets)]]
         /\ \A d \in Endpoints \ {e} : dev'[d] = dev[d]
         /\ dev'[e].queue \in Seq(S)
         /\ dev'[e].tog # RCVTOG' => dev'[e].queue # <<>>
         /\ \/ /\ RCVFIFO' = <<>> /\ RCVTOG' = RCVTOG
               /\ Left(e, RCVTOG)' = Left(e, RCVTOG)
            \/ /\ \E x \in S : RCVFIFO' = <<x>> /\ <<x>> \o Left(e, RCVTOG)' = Left(e, RCVTOG)
               /\ RCVTOG' = Toggled(RCVTOG) /\ HRSL' = "SUCCESS"
<1> DEFINE queue == dev[e].queue
           Items == Reports \cup 1 .. Packets
<1>1. /\ queue # <<>>
      /\ \/ dev[e].tog = RCVTOG /\ HRSL' = "SUCCESS" /\ RCVTOG' = Toggled(RCVTOG)
            /\ RCVFIFO' = <<Head(queue)>>
         \/ dev[e].tog # RCVTOG /\ RCVTOG' = RCVTOG /\ RCVFIFO' = <<>>
      /\ \/ dev' = dev
         \/ dev' = [dev EXCEPT ![e] = [tog |-> Toggled(@.tog), queue |-> Tail(@.queue)]]
  BY DEF Sent, Finish, Silent
<1>2. /\ dev[e].tog \in {0, 1} /\ RCVTOG \in {0, 1} /\ queue \in Seq(Items)
      /\ dev \in [Endpoints -> [tog : {0, 1}, queue : Seq(Items)]]
  BY DEF Types
<1>3. /\ Head(queue) \in S /\ Tail(queue) \in Seq(S) /\ Tail(queue) \in Seq(Items)
      /\ <<Head(queue)>> \o Tail(queue) = queue
  <2> HIDE DEF queue, Items
  <2>1. Tail(queue) \in Seq(Items)
    BY <1>1, <1>2, FirstAndRest
  <2>2. queue \in Seq(S)
    BY DEF queue
  <2> QED BY <1>1, <2>1, <2>2, FirstAndRest
<1>4. CASE dev' = dev
  BY <1>1, <1>2, <1>3, <1>4 DEF Left, Toggled
<1>5. CASE dev' = [dev EXCEPT ![e] = [tog |-> Toggled(@.tog), queue |-> Tail(@.queue)]]
  <2>1. /\ dev' \in [Endpoints -> [tog : {0, 1}, queue : Seq(Items)]]
        /\ \A d \in Endpoints \ {e} : dev'[d] = dev[d]
        /\ dev'[e].tog = Toggled(dev[e].tog) /\ dev'[e].queue = Tail(queue)
    BY <1>2, <1>3, <1>5 DEF Toggled
  <2>2. CASE dev[e].tog = RCVTOG
    <3>1. Left(e, RCVTOG)' = Tail(queue) /\ Left(e, RCVTOG) = queue
      BY <1>1, <1>2, <2>1, <2>2 DEF Left, Toggled
    <3>2. dev'[e].tog = RCVTOG'
      BY <1>1, <2>1, <2>2
    <3> QED BY <1>1, <1>3, <2>1, <2>2, <3>1, <3>2
  <2>3. CASE dev[e].tog # RCVTOG
    <3>1. Left(e, RCVTOG)' = Tail(queue) /\ Left(e, RCVTOG) = Tail(queue)
      BY <1>1, <1>2, <2>1, <2>3 DEF Left, Toggled
    <3>2. dev'[e].tog = RCVTOG'
      BY <1>1, <1>2, <2>1, <2>3 DEF Toggled
    <3> QED BY <1>1, <1>3, <2>1, <2>3, <3>1, <3>2
  <2> QED BY <2>2, <2>3
<1> QED BY <1>1, <1>4, <1>5

(* A packet on its way changes neither what waits nor what is left to      *)
(* read: it moves from the device to the controller, or is dropped as one  *)
(* that came before.                                                       *)
LEMMA SentReports ==
  ASSUME Inv, NEW a \in BOOLEAN, Sent(a)
  PROVE  Inv' /\ Stays
<1>1. /\ busy /\ busy' = FALSE /\ stage \in {"poll", "data"}
      /\ UNCHANGED <<stage, datastage, data, rcvToggle, keycode>>
      /\ Endpoint' = Endpoint
  BY DEF Sent, Finish, hostVars, Endpoint
<1>2. RCVFIFO = <<>> /\ (stage = "poll" => RCVTOG = rcvToggle)
  BY <1>1 DEF Inv, Flags, Polls
<1>3. CASE stage = "poll"
  <2> DEFINE e == "interrupt"
  <2>1. e = Endpoint /\ e \in Endpoints /\ dev[e].queue \in Seq(Reports)
    BY <1>3 DEF Endpoint, Endpoints, Inv, Types
  <2>2. /\ dev' \in [Endpoints -> [tog : {0, 1}, queue : Seq(Reports \cup 1 .. Packets)]]
        /\ \A d \in Endpoints \ {e} : dev'[d] = dev[d]
        /\ dev'[e].queue \in Seq(Reports)
        /\ dev'[e].tog # RCVTOG' => dev'[e].queue # <<>>
        /\ \/ /\ RCVFIFO' = <<>> /\ RCVTOG' = RCVTOG
              /\ Left(e, RCVTOG)' = Left(e, RCVTOG)
           \/ /\ \E x \in Reports : RCVFIFO' = <<x>> /\ <<x>> \o Left(e, RCVTOG)' = Left(e, RCVTOG)
              /\ RCVTOG' = Toggled(RCVTOG) /\ HRSL' = "SUCCESS"
    BY <1>2, <2>1, SentPacket DEF Inv
  <2>3. dev'["control"] = dev["control"] /\ RCVTOG' \in {0, 1}
    BY <2>2 DEF Endpoints, Inv, Types, Toggled
  <2>4. Types'
    BY <1>1, <2>2, <2>3 DEF Inv, Types
  <2>5. Flags' /\ Reads'
    BY <1>1, <1>2, <1>3, <2>2, <2>3 DEF Inv, Flags, Reads
  <2>6. Polls'
    <3>1. RCVTOG' = IF RCVFIFO' = <<>> THEN rcvToggle' ELSE Toggled(rcvToggle')
      <4>1. CASE RCVFIFO' = <<>>
        BY <1>1, <1>2, <1>3, <2>2, <4>1
      <4>2. CASE RCVFIFO' # <<>>
        BY <1>1, <1>2, <1>3, <2>2, <4>2
      <4> QED BY <4>1, <4>2
    <3>2. Expected' = RCVTOG'
      BY <1>1, <1>3 DEF Expected
    <3> QED BY <2>2, <3>1, <3>2 DEF Polls
  <2>7. /\ InDevice = Left(e, RCVTOG) /\ InDevice' = Left(e, RCVTOG)'
        /\ InController = <<>> /\ InController' = RCVFIFO'
    BY <1>1, <1>2, <1>3 DEF InDevice, InController, Expected, Left
  <2>8. Left(e, RCVTOG) \in Seq(Reports)
    BY <2>7, InDeviceType
  <2>9. RCVFIFO' \o InDevice' = InDevice
    <3>1. InDevice \in Seq(Reports)
      BY InDeviceType
    <3> QED BY <2>2, <2>7, <3>1, ConcatEmptySeq
  <2>10. Waiting' = Waiting
    BY <2>7, <2>8, <2>9, ConcatEmptySeq DEF Waiting
  <2> QED BY <1>1, <2>4, <2>5, <2>6, <2>10 DEF Inv, Stays
<1>4. CASE stage = "data"
  <2> DEFINE e == "control"
  <2>1. e = Endpoint /\ e \in Endpoints /\ dev[e].queue \in Seq(1 .. Packets)
    BY <1>4 DEF Endpoint, Endpoints, Inv, Types
  <2>2. /\ dev' \in [Endpoints -> [tog : {0, 1}, queue : Seq(Reports \cup 1 .. Packets)]]
        /\ \A d \in Endpoints \ {e} : dev'[d] = dev[d]
        /\ dev'[e].queue \in Seq(1 .. Packets)
        /\ dev'[e].tog # RCVTOG' => dev'[e].queue # <<>>
        /\ \/ /\ RCVFIFO' = <<>> /\ RCVTOG' = RCVTOG
              /\ Left(e, RCVTOG)' = Left(e, RCVTOG)
           \/ /\ \E x \in 1 .. Packets :
                   RCVFIFO' = <<x>> /\ <<x>> \o Left(e, RCVTOG)' = Left(e, RCVTOG)
              /\ RCVTOG' = Toggled(RCVTOG) /\ HRSL' = "SUCCESS"
    BY <1>2, <2>1, SentPacket DEF Inv
  <2>3. dev'["interrupt"] = dev["interrupt"] /\ RCVTOG' \in {0, 1}
    BY <2>2 DEF Endpoints, Inv, Types, Toggled
  <2>4. Types'
    BY <1>1, <2>2, <2>3 DEF Inv, Types
  <2>5. Flags'
    BY <1>1, <1>2, <1>4, <2>2, <2>3 DEF Inv, Flags
  <2>6. RCVFIFO' \o Left(e, RCVTOG)' = RCVFIFO \o Left(e, RCVTOG)
    <3>1. Left(e, RCVTOG) \in Seq(1 .. Packets)
      BY <1>4, HeadTailProperties DEF Inv, Types, Reads, Left
    <3>2. RCVFIFO \o Left(e, RCVTOG) = Left(e, RCVTOG)
      BY <1>2, <3>1, ConcatEmptySeq
    <3> QED BY <1>2, <2>2, <3>2
  <2>7. Reads'
    BY <1>1, <1>4, <2>2, <2>6 DEF Inv, Reads
  <2>8. Polls' /\ Stays
    BY <1>1, <1>4, <2>3 DEF Inv, Polls, Expected, Stays, Waiting, InController, InDevice
  <2> QED BY <2>4, <2>5, <2>7, <2>8 DEF Inv
<1> QED BY <1>1, <1>3, <1>4

(* The other handshakes carry no packet. *)
LEMMA HandshakeReports ==
  ASSUME Inv, Lost \/ NotReady \/ Corrupted \/ Status \/ Setup
  PROVE  Inv' /\ Stays
<1>1. /\ busy /\ busy' = FALSE /\ UNCHANGED <<RCVTOG, RCVFIFO>>
      /\ UNCHANGED <<stage, datastage, data, rcvToggle, keycode>>
  BY DEF Lost, NotReady, Corrupted, Status, Setup, Finish, Silent, hostVars
<1>2. RCVFIFO = <<>>
  BY <1>1 DEF Inv, Flags
<1>3. CASE Lost \/ NotReady \/ Corrupted \/ Status
  <2>1. dev' = dev /\ stage # "idle" /\ (HRSL' = "SUCCESS" => stage = "status")
    BY <1>3 DEF Lost, NotReady, Corrupted, Status, Finish, Inv, Flags
  <2> QED BY <1>1, <1>2, <2>1
      DEF Inv, Types, Flags, Polls, Reads, Expected, Left, Stays, Waiting, InController, InDevice
<1>4. CASE Setup
  <2>1. /\ stage = "setup" /\ dev'["control"] = [tog |-> 1, queue |-> Whole]
        /\ dev'["interrupt"] = dev["interrupt"]
        /\ dev' \in [Endpoints -> [tog : {0, 1}, queue : Seq(Reports \cup 1 .. Packets)]]
    <3>1. Whole \in Seq(Reports \cup 1 .. Packets)
      BY WholeType, SeqMonotonic
    <3> QED BY <1>4, <3>1 DEF Setup, Inv, Types, Endpoints, Whole
  <2>2. Types' /\ Flags'
    BY <1>1, <1>2, <2>1, WholeType DEF Inv, Types, Flags
  <2>3. Polls' /\ Reads' /\ Stays
    BY <1>1, <2>1 DEF Inv, Polls, Reads, Expected, Stays, Waiting, InController, InDevice
  <2> QED BY <2>2, <2>3 DEF Inv
<1> QED BY <1>3, <1>4

(* The host's other steps. *)
LEMMA HostReports ==
  ASSUME Inv, TimeInv, HostStep
  PROVE  Inv' /\ Simulated
<1>1. CASE Nak \/ Retry
  <2>1. /\ HRSL \notin {"none", "SUCCESS"} /\ HRSL' = "none" /\ dev' = dev /\ dead' = dead
        /\ Untouched /\ (Return \/ Again)
    BY <1>1 DEF Nak, Retry, Done
  <2>2. RCVFIFO = <<>> /\ ~busy
    BY <2>1 DEF Inv, Flags
  <2> QED BY <2>1, <2>2, ReturnReports, AgainReports DEF Untouched, Simulated
<1>2. CASE Fail \/ NothingReceived \/ StatusDone \/ GiveUp
  <2>1. /\ Return /\ Untouched /\ HRSL' = "none" /\ UNCHANGED <<dev, dead>>
        /\ HRSL # "none" \/ dead
        /\ RCVFIFO = <<>>
    BY <1>2, GivenUp DEF Fail, NothingReceived, StatusDone, GiveUp, Done, Inv, Flags
  <2>2. busy => dead'
    BY <2>1 DEF Inv, Flags
  <2> QED BY <2>1, <2>2, ReturnReports DEF Untouched, Simulated
<1>3. CASE DataStage \/ NoDataStage
  BY <1>3, StageReports DEF Simulated
<1>4. CASE PacketRead
  BY <1>4, PacketReports DEF Simulated
<1>5. CASE ReportRead
  BY <1>5, ReportReports
<1> QED BY <1>1, <1>2, <1>3, <1>4, <1>5 DEF HostStep

(* Invariant and simulation together. *)
LEMMA ReportsInductive ==
  /\ Init => Inv /\ Waiting = <<>> /\ keycode = "none"
  /\ Inv /\ TimeInv /\ [Next]_vars => Inv' /\ Simulated
<1>1. Init => Inv /\ Waiting = <<>> /\ keycode = "none"
  <2> SUFFICES ASSUME Init PROVE Inv /\ Waiting = <<>>
    BY DEF Init
  <2>1. Types
    BY EmptySeq DEF Init, Types, Endpoints
  <2>2. Flags /\ Polls /\ Reads
    BY DEF Init, Flags, Polls, Reads, Expected
  <2>3. InController = <<>> /\ InDevice = <<>>
    BY DEF Init, InController, InDevice, Expected
  <2> QED BY <2>1, <2>2, <2>3, ConcatEmptySeq, EmptySeq DEF Inv, Waiting
<1>2. ASSUME Inv, TimeInv, [Next]_vars PROVE Inv' /\ Simulated
  <2>1. CASE BeginPoll \/ BeginRequest
    BY <1>2, <2>1, BeginReports DEF Simulated
  <2>2. CASE HostStep
    BY <1>2, <2>2, HostReports
  <2>3. CASE Configure
    BY <1>2, <2>3, ConfigureReports
  <2>4. CASE Controller
    BY <1>2, <2>4, HandshakeReports, SentReports DEF Controller, Simulated
  <2>5. CASE Die \/ Tick \/ UNCHANGED vars
    <3>1. /\ UNCHANGED <<stage, datastage, data, rcvToggle, keycode, busy, HRSL, RCVTOG, RCVFIFO, dev>>
          /\ dead => dead'
      BY <2>5 DEF Die, Tick, vars, hostVars, sieVars
    <3>2. Types' /\ Flags'
      BY <1>2, <3>1 DEF Inv, Types, Flags
    <3>3. Polls' /\ Reads'
      BY <1>2, <3>1 DEF Inv, Polls, Reads, Expected, Left
    <3>4. Stays
      BY <3>1 DEF Stays, Waiting, InController, InDevice, Expected
    <3> QED BY <3>2, <3>3, <3>4 DEF Inv, Simulated
  <2>6. CASE \E r \in Reports : Press(r)
    BY <1>2, <2>6, PressReports
  <2> QED BY <1>2, <2>1, <2>2, <2>3, <2>4, <2>5, <2>6 DEF Next
<1> QED BY <1>1, <1>2
-----------------------------------------------------------------------------
(* transfer.c:107-124, 191-227: a control read that ends has read the whole*)
(* answer, packet by packet, whatever was lost on the way.                 *)
THEOREM ReadsAreComplete ==
  Spec => []ReadIsComplete
<1>1. Inv => ReadIsComplete
  BY DEF Inv, Reads, ReadIsComplete, Whole
<1> QED BY <1>1, ReportsInductive, TimeInductive, PTL DEF Spec

(* HID.c:216-222, transfer.c:191-227: the polls implement the channel: the *)
(* main program sees each report once and in order, although packets are   *)
(* lost and sent again, controllers die and control reads come in between. *)
THEOREM PollsImplementChannel ==
  Spec => ReportsShownOnce
<1>1. Simulated => [Channel!ChannelNext]_(Channel!channelVars)
  BY DEF Simulated, Stays, Waiting, Channel!ChannelNext, Channel!Make, Channel!See,
         Channel!Forget, Channel!channelVars
<1>2. Init => InController \o InDevice = <<>> /\ keycode = "none"
  BY ReportsInductive DEF Waiting
<1> QED
  BY <1>1, <1>2, ReportsInductive, TimeInductive, PTL DEF Spec, ReportsShownOnce, Channel!ChannelSpec

(***************************************************************************)
(* The settle wait.                                                        *)
(***************************************************************************)
(* The clock.  The time it shows never gains on the ticks: a sum taken      *)
(* modulo a word grows by no more than what is added.                       *)
LEMMA ModuloGrows ==
  ASSUME NEW x \in Nat, NEW y \in Nat, NEW w \in Nat \ {0}
  PROVE  (x + y) % w <= (x % w) + y
<1> DEFINE q == x \div w
           r == x % w
           q2 == (x + y) \div w
           r2 == (x + y) % w
<1>1. q \in Int /\ r \in Int /\ q2 \in Int /\ r2 \in Int /\ r < w /\ 0 <= r /\ r2 < w /\ 0 <= r2
  OBVIOUS
<1>2. x = w * q + r /\ x + y = w * q2 + r2
  OBVIOUS
<1> HIDE DEF q, r, q2, r2
<1>3. q2 >= q
  <2> SUFFICES ASSUME q2 + 1 <= q PROVE FALSE
    BY <1>1
  <2>1. w * (q2 + 1) <= w * q
    BY <1>1
  <2>2. w * (q2 + 1) = w * q2 + w
    BY <1>1
  <2> QED BY <1>1, <1>2, <2>1, <2>2
<1>4. w * q <= w * q2
  BY <1>1, <1>3
<1>5. r2 <= r + y
  BY <1>1, <1>2, <1>4
<1> QED BY <1>5 DEF r, r2

(* A difference of rounded quotients is one of what was divided.           *)
LEMMA QuotientsApart ==
  ASSUME NEW x \in Nat, NEW y \in Nat, NEW d \in Nat \ {0}, NEW k \in Nat,
         x \div d > y \div d + k
  PROVE  x >= y + k * d
<1> DEFINE q == x \div d
           p == y \div d
<1>1. q \in Int /\ p \in Int /\ x >= d * q /\ y < d * p + d
  OBVIOUS
<1>2. q >= p + k + 1
  BY <1>1
<1> HIDE DEF q, p
<1>3. d * q >= d * (p + k + 1)
  BY <1>1, <1>2
<1>4. d * (p + k + 1) = d * p + k * d + d
  BY <1>1
<1>5. k * d \in Int /\ d * p \in Int
  BY <1>1
<1> QED BY <1>1, <1>3, <1>4, <1>5

ClockType ==
    /\ nticks \in Nat /\ nticks < Word
    /\ waited \in Nat /\ waited <= Word

Product == (nticks * PerSecond) % Word

(* A wait began at a product from which the clock has gone no further than *)
(* the ticks since; a wrap sets it back.                                   *)
Begun == waiting =>
    \E start \in Nat :
        /\ usb_delay = start \div Rate + Settle
        /\ waited < Word => Product <= start + waited * PerSecond

LEMMA ProductRange ==
  ASSUME ClockType
  PROVE  Product \in Nat /\ Product < Word
<1>1. nticks * PerSecond \in Nat
  BY ClockAssumption DEF ClockType
<1> QED BY <1>1, ClockAssumption DEF Product

LEMMA ClockStep == ClockType /\ Begun /\ [ClockNext]_clockVars => ClockType' /\ Begun'
<1> SUFFICES ASSUME ClockType, Begun, [ClockNext]_clockVars PROVE ClockType' /\ Begun'
  OBVIOUS
<1>1. CASE Begin
  <2>1. ClockType'
    BY <1>1, ClockAssumption DEF Begin, ClockType
  <2>2. Product \in Nat /\ Product < Word
    BY ProductRange
  <2>3. Product \div Rate \in Nat /\ Product \div Rate <= (Word - 1) \div Rate
    <3>1. \A x, y \in Nat, d \in Nat \ {0} : x <= y => x \div d \in Nat /\ x \div d <= y \div d
      OBVIOUS
    <3> QED BY <2>2, <3>1, ClockAssumption
  <2>4. usb_delay' = Product \div Rate + Settle
    <3>1. usb_delay' = (Product \div Rate + Settle) % Word
      BY <1>1 DEF Begin, Now, Product
    <3> QED BY <2>3, <3>1, ClockAssumption
  <2>5. waited' = 0 /\ Product' = Product
    BY <1>1 DEF Begin, Product
  <2>6. Product' <= Product + waited' * PerSecond
    BY <2>2, <2>5, ClockAssumption
  <2> QED BY <2>1, <2>2, <2>4, <2>6 DEF Begun
<1>2. CASE End
  BY <1>2 DEF End, ClockType, Begun
<1>3. CASE TimerTick
  <2>1. ClockType'
    BY <1>3, ClockAssumption DEF TimerTick, ClockType
  <2>2. Product' <= Product + PerSecond
    <3>0. Product \in Nat
      BY ProductRange
    <3>1. CASE nticks + 1 = Word
      <4>1. nticks' = 0
        BY <1>3, <3>1, ClockAssumption DEF TimerTick
      <4>2. Product' = 0
        BY <4>1, ClockAssumption DEF Product
      <4> QED BY <3>0, <4>2, ClockAssumption
    <3>2. CASE nticks + 1 # Word
      <4>1. nticks' = nticks + 1
        BY <1>3, <3>2, ClockAssumption DEF TimerTick, ClockType
      <4>2. nticks' * PerSecond = nticks * PerSecond + PerSecond
        BY <4>1, ClockAssumption DEF ClockType
      <4>3. nticks * PerSecond \in Nat
        BY ClockAssumption DEF ClockType
      <4> QED BY <4>2, <4>3, ClockAssumption, ModuloGrows DEF Product
    <3> QED BY <3>1, <3>2
  <2>3. ASSUME waiting
        PROVE  \E start \in Nat :
                 /\ usb_delay' = start \div Rate + Settle
                 /\ waited' < Word => Product' <= start + waited' * PerSecond
    <3>1. PICK start \in Nat :
                 /\ usb_delay = start \div Rate + Settle
                 /\ waited < Word => Product <= start + waited * PerSecond
      BY <2>3 DEF Begun
    <3>2. ASSUME waited' < Word
          PROVE  Product' <= start + waited' * PerSecond
      <4>1. waited < Word /\ waited' = waited + 1
        BY <1>3, <3>2, ClockAssumption DEF TimerTick, ClockType
      <4>2. waited' * PerSecond = waited * PerSecond + PerSecond /\ waited * PerSecond \in Nat
        BY <4>1, ClockAssumption DEF ClockType
      <4>3. Product \in Nat /\ Product' \in Nat
        <5>1. Product \in Nat
          BY ProductRange
        <5>2. (ClockType => Product \in Nat)'
          BY ProductRange, PTL
        <5> QED BY <2>1, <5>1, <5>2
      <4> QED BY <2>2, <3>1, <4>1, <4>2, <4>3, ClockAssumption
    <3>3. usb_delay' = usb_delay
      BY <1>3 DEF TimerTick
    <3> QED BY <3>1, <3>2, <3>3
  <2>4. waiting' = waiting
    BY <1>3 DEF TimerTick
  <2> QED BY <2>1, <2>3, <2>4 DEF Begun
<1>4. CASE UNCHANGED clockVars
  BY <1>4 DEF clockVars, ClockType, Begun, Product
<1> QED BY <1>1, <1>2, <1>3, <1>4 DEF ClockNext

(* transfer.c:277-281: whatever the word, the rate and the settle time, a  *)
(* wait that ends has lasted the settle time, a wrap in between or not.    *)
THEOREM SettleIsNeverShort == ClockSpec => NeverEarly
<1>1. ClockInit => ClockType /\ Begun
  BY ClockAssumption DEF ClockInit, ClockType, Begun
<1>2. ClockType /\ Begun /\ [ClockNext]_clockVars =>
        [waiting /\ ~waiting' => waited * PerSecond >= Settle * Rate]_clockVars
  <2> SUFFICES ASSUME ClockType, Begun, ClockNext, waiting, ~waiting'
               PROVE  waited * PerSecond >= Settle * Rate
    BY DEF clockVars
  <2>1. End
    BY DEF ClockNext, Begin, TimerTick
  <2>2. PICK start \in Nat :
               /\ usb_delay = start \div Rate + Settle
               /\ waited < Word => Product <= start + waited * PerSecond
    BY DEF Begun
  <2>3. Product \in Nat /\ Product < Word
    BY ProductRange
  <2>4. Product \div Rate > start \div Rate + Settle
    BY <2>1, <2>2 DEF End, Now, Product
  <2>5. Product >= start + Settle * Rate
    BY <2>3, <2>4, ClockAssumption, QuotientsApart
  <2>6. Settle * Rate \in Nat /\ waited * PerSecond \in Nat
    BY ClockAssumption DEF ClockType
  <2>7. CASE waited < Word
    BY <2>2, <2>3, <2>5, <2>6, <2>7
  <2>8. CASE waited = Word
    <3>1. waited * PerSecond >= Word
      BY <2>8, ClockAssumption
    <3> QED BY <2>3, <2>5, <2>6, <3>1, ClockAssumption
  <2> QED BY <2>7, <2>8, ClockAssumption DEF ClockType
<1> QED BY <1>1, <1>2, ClockStep, PTL DEF ClockSpec, NeverEarly
=============================================================================
