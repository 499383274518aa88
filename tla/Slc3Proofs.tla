----------------------------- MODULE Slc3Proofs -----------------------------
(***************************************************************************)
(* Proofs about the processor of the SLC-3: its types, the bus, the pause, *)
(* the program loader, and that it implements its instruction set.         *)
(***************************************************************************)
EXTENDS Slc3, TLAPS

LEMMA WordOps ==
  /\ \A a, b \in Word : Plus(a, b) \in Word
  /\ \A a \in Word : Not(a) \in Word
  /\ \A a \in Word : NZP(a) \in CCs
BY DEF Word, Plus, Not, NZP, CCs

LEMMA Fields ==
  ASSUME NEW ir \in Word
  PROVE  /\ DR(ir) \in RegNames /\ SR1(ir) \in RegNames /\ SR2(ir) \in RegNames
         /\ Imm5(ir) \in Word /\ Off6(ir) \in Word /\ Off9(ir) \in Word /\ Off11(ir) \in Word
         /\ Opcode(ir) \in 0 .. 15
BY DEF Word, DR, SR1, SR2, RegNames, Imm5, Off6, Off9, Off11, Sext, Opcode

LEMMA NibbleRange ==
  ASSUME NEW a \in 0 .. 15, NEW b \in 0 .. 15
  PROVE  AndNibble(a, b) \in 0 .. 15
BY DEF AndNibble, Both, Bit

LEMMA AndRange ==
  ASSUME NEW a \in Word, NEW b \in Word
  PROVE  And(a, b) \in Word
<1>1. /\ a % 16 \in 0 .. 15 /\ (a \div 16) % 16 \in 0 .. 15
      /\ (a \div 256) % 16 \in 0 .. 15 /\ a \div 4096 \in 0 .. 15
  BY DEF Word
<1>2. /\ b % 16 \in 0 .. 15 /\ (b \div 16) % 16 \in 0 .. 15
      /\ (b \div 256) % 16 \in 0 .. 15 /\ b \div 4096 \in 0 .. 15
  BY DEF Word
<1>3. /\ AndNibble(a % 16, b % 16) \in 0 .. 15
      /\ AndNibble((a \div 16) % 16, (b \div 16) % 16) \in 0 .. 15
      /\ AndNibble((a \div 256) % 16, (b \div 256) % 16) \in 0 .. 15
      /\ AndNibble(a \div 4096, b \div 4096) \in 0 .. 15
  BY <1>1, <1>2, NibbleRange
<1> DEFINE n0 == AndNibble(a % 16, b % 16)
           n1 == AndNibble((a \div 16) % 16, (b \div 16) % 16)
           n2 == AndNibble((a \div 256) % 16, (b \div 256) % 16)
           n3 == AndNibble(a \div 4096, b \div 4096)
<1>5. And(a, b) = n0 + 16 * n1 + 256 * n2 + 4096 * n3
  BY DEF And
<1>6. n0 \in 0 .. 15 /\ n1 \in 0 .. 15 /\ n2 \in 0 .. 15 /\ n3 \in 0 .. 15
  BY <1>3
<1> HIDE DEF n0, n1, n2, n3
<1> QED
  BY <1>5, <1>6 DEF Word


(***************************************************************************)
(* Types.                                                                  *)
(***************************************************************************)
LEMMA ProgramAddresses ==
  /\ RamSize \in Nat \ {0}
  /\ \A a \in DOMAIN Program : Program[a] \in Word /\ a \in Nat /\ a < RamSize
  /\ 0 \in DOMAIN Program
  /\ \A a : a \in DOMAIN Program /\ a # LastAddress => a + 1 \in DOMAIN Program
  /\ \A a \in Nat : a % RamSize \in 0 .. RamSize - 1
<1>1. PICK n \in 1 .. RamSize : Program \in [0 .. n - 1 -> Word]
  BY Slc3Assumption
<1>2. LastAddress = n - 1
  <2>1. n - 1 \in DOMAIN Program /\ (n - 1) + 1 \notin DOMAIN Program
    BY <1>1
  <2>2. ASSUME NEW a \in DOMAIN Program, a + 1 \notin DOMAIN Program
        PROVE  a = n - 1
    BY <1>1, <2>2
  <2> QED BY <2>1, <2>2 DEF LastAddress
<1>3. \A a : a \in DOMAIN Program /\ a # LastAddress => a + 1 \in DOMAIN Program
  BY <1>1, <1>2
<1>4. \A a \in Nat : a % RamSize \in 0 .. RamSize - 1
  BY Slc3Assumption
<1>5. \A a \in DOMAIN Program : Program[a] \in Word /\ a \in Nat /\ a < RamSize
  <2> SUFFICES ASSUME NEW a \in 0 .. n - 1 PROVE Program[a] \in Word /\ a \in Nat /\ a < RamSize
    BY <1>1
  <2> QED BY <1>1, Slc3Assumption
<1>6. 0 \in DOMAIN Program
  BY <1>1
<1> QED
  BY <1>3, <1>4, <1>5, <1>6, Slc3Assumption

LEMMA PathType ==
  ASSUME TypeOK
  PROVE  /\ SR1_out \in Word /\ SR2_in \in Word /\ DR_in \in RegNames
         /\ ALU \in Word /\ MARMUX \in Word /\ PC_in \in Word
         /\ BUS_out \subseteq Word /\ Data_to_CPU \subseteq Word
<1>1. /\ PC \in Word /\ IR \in Word /\ MDR \in Word /\ q \in Word
      /\ R \in [RegNames -> Word]
  BY DEF TypeOK
<1>2. /\ DR(IR) \in RegNames /\ SR1(IR) \in RegNames /\ SR2(IR) \in RegNames
      /\ Imm5(IR) \in Word /\ Off6(IR) \in Word /\ Off9(IR) \in Word /\ Off11(IR) \in Word
  BY <1>1, Fields
<1>3. SR1_out \in Word /\ SR2_in \in Word /\ DR_in \in RegNames
  <2>1. 7 \in RegNames
    BY DEF RegNames
  <2> QED BY <1>1, <1>2, <2>1 DEF SR1_out, SR2_in, DR_in
<1>4. ALU \in Word
  BY <1>3, WordOps, AndRange DEF ALU
<1>5. 0 \in Word /\ 1 \in Word
  BY DEF Word
<1>6. ADDR1 \in Word /\ ADDR2 \in Word
  BY <1>1, <1>2, <1>3, <1>5 DEF ADDR1, ADDR2
<1>7. MARMUX \in Word /\ PC_in \in Word
  BY <1>1, <1>5, <1>6, WordOps DEF MARMUX, PC_in
<1>8. BUS_out \subseteq Word
  BY <1>1, <1>4, <1>7, Slc3Assumption DEF BUS_out
<1>9. Data_to_CPU \subseteq Word
  BY <1>1, <1>5, Slc3Assumption DEF Data_to_CPU
<1> QED
  BY <1>3, <1>4, <1>7, <1>8, <1>9

LEMMA NextStateType ==
  ASSUME Next_state
  PROVE  State' \in States
BY DEF Next_state, Step, Decode, Selects, NoOperation, AwaitPress, AwaitRelease, States

LEMMA ProcessorType ==
  ASSUME TypeOK, Processor
  PROVE  /\ State' \in States
         /\ PC' \in Word /\ IR' \in Word /\ MAR' \in Word /\ MDR' \in Word
         /\ hex_data' \in Word /\ BEN' \in BOOLEAN /\ CC' \in CCs
         /\ R' \in [RegNames -> Word]
         /\ LED' \in Nat /\ LED' < 1024
<1>1. /\ PC \in Word /\ IR \in Word /\ MAR \in Word /\ MDR \in Word /\ hex_data \in Word
      /\ BEN \in BOOLEAN /\ CC \in CCs /\ R \in [RegNames -> Word]
  BY DEF TypeOK
<1>2. LED' \in Nat /\ LED' < 1024
  BY <1>1 DEF Processor, Loaded, Word
<1>3. CASE Reset_ah
  <2>1. 0 \in Word /\ 0 \in CCs /\ "Halted" \in States
    BY DEF Word, CCs, States
  <2>2. ClearRegisters
    BY <1>3 DEF Processor
  <2>3. BEN' \in BOOLEAN
    BY <2>2 DEF ClearRegisters
  <2>4. R' \in [RegNames -> Word]
    BY <2>1, <2>2 DEF ClearRegisters
  <2> QED BY <1>2, <2>1, <2>2, <2>3, <2>4 DEF ClearRegisters
<1>4. CASE ~Reset_ah
  <2>1. PICK bus \in BUS_out, mdr_in \in Data_to_CPU : Execute(bus, mdr_in)
    BY <1>4 DEF Processor
  <2>2. bus \in Word /\ mdr_in \in Word
    BY PathType
  <2>3. PC' \in Word /\ IR' \in Word /\ MAR' \in Word /\ MDR' \in Word /\ hex_data' \in Word
    BY <1>1, <2>1, <2>2, PathType DEF Execute, Loaded
  <2>4. BEN' \in BOOLEAN
    <3>1. newBEN(IR, CC) \in BOOLEAN
      BY DEF newBEN
    <3> QED BY <1>1, <2>1, <3>1 DEF Execute, Loaded
  <2>5. CC' \in CCs
    BY <1>1, <2>1, <2>2, WordOps DEF Execute, Loaded
  <2>6. R' \in [RegNames -> Word]
    BY <1>1, <2>1, <2>2, PathType DEF Execute
  <2>7. State' \in States
    BY <2>1, NextStateType DEF Execute
  <2> QED BY <1>2, <2>3, <2>4, <2>5, <2>6, <2>7
<1> QED
  BY <1>3, <1>4

LEMMA MemoryType ==
  ASSUME TypeOK, Memory
  PROVE  /\ ram' \in [0 .. RamSize - 1 -> Word]
         /\ latched' \in Word /\ q' \in Word
<1>1. /\ ram \in [0 .. RamSize - 1 -> Word] /\ latched \in Word
      /\ MAR \in Word /\ MDR \in Word /\ address \in Nat
      /\ we_select => address \in DOMAIN Program
  BY DEF TypeOK, we_select
<1>2. RamAddress \in 0 .. RamSize - 1
  <2>1. address % RamSize \in 0 .. RamSize - 1 /\ MAR % RamSize \in 0 .. RamSize - 1
    <3>1. address \in Nat /\ MAR \in Nat
      BY <1>1 DEF Word
    <3> QED BY <3>1, ProgramAddresses
  <2> QED BY <2>1 DEF RamAddress
<1>3. RamData \in Word
  BY <1>1, ProgramAddresses DEF RamData
<1> QED
  BY <1>1, <1>2, <1>3 DEF Memory

LEMMA LoaderType ==
  ASSUME TypeOK, Buttons, Loader
  PROVE  /\ loader' \in {"idle", "mem_write", "done"}
         /\ address' \in Nat
         /\ loader' = "mem_write" => address' \in DOMAIN Program
<1>1. /\ loader \in {"idle", "mem_write", "done"} /\ address \in Nat
      /\ loader = "mem_write" => address \in DOMAIN Program
  BY DEF TypeOK
<1>2. CASE (run' /\ cont') \/ Reset_ah
  BY <1>2, ProgramAddresses DEF Loader
<1>3. CASE ~((run' /\ cont') \/ Reset_ah) /\ we_select
  <2>1. address \in Nat /\ (address # LastAddress => address + 1 \in DOMAIN Program)
    BY <1>1, <1>3, ProgramAddresses DEF we_select
  <2> QED BY <1>3, <2>1 DEF Loader
<1>4. CASE ~((run' /\ cont') \/ Reset_ah) /\ ~we_select
  BY <1>1, <1>4 DEF Loader, we_select
<1> QED
  BY <1>2, <1>3, <1>4

(* Whatever the bus carries when nothing drives it, every register keeps   *)
(* the width it has, and the loader's counter stays inside the program.    *)
THEOREM Slc3Types == Spec => []TypeOK
<1>1. Init => TypeOK
  <2>1. 0 \in Word /\ 0 \in CCs /\ "Halted" \in States
    BY DEF Word, CCs, States
  <2> SUFFICES ASSUME Init PROVE TypeOK
    OBVIOUS
  <2>2. {PC, IR, MAR, MDR, hex_data, latched, q} \subseteq Word
    BY <2>1 DEF Init
  <2>3. BEN \in BOOLEAN /\ {run, cont, pressed, muddled} \subseteq BOOLEAN
    BY DEF Init
  <2>4. R \in [RegNames -> Word]
    BY <2>1 DEF Init
  <2>5. ram \in [0 .. RamSize - 1 -> Word]
    BY Slc3Assumption DEF Init
  <2> QED BY <2>1, <2>2, <2>3, <2>4, <2>5 DEF Init, TypeOK
<1>2. TypeOK /\ [Next]_vars => TypeOK'
  <2> SUFFICES ASSUME TypeOK, [Next]_vars PROVE TypeOK'
    OBVIOUS
  <2>1. CASE Clock
    <3>1. Buttons /\ Processor /\ Memory /\ Loader
      BY <2>1 DEF Clock
    <3>2. run' \in BOOLEAN /\ cont' \in BOOLEAN /\ pressed' \in BOOLEAN /\ muddled' \in BOOLEAN
      BY <2>1, <3>1 DEF Clock, Watch, Buttons, TypeOK, Reset_ah
    <3> QED BY <3>1, <3>2, ProcessorType, MemoryType, LoaderType DEF TypeOK
  <2>2. CASE UNCHANGED vars
    BY <2>2 DEF TypeOK, vars, cpuVars
  <2> QED BY <2>1, <2>2 DEF Next
<1> QED
  BY <1>1, <1>2, PTL DEF Spec

(***************************************************************************)
(* The bus.                                                                *)
(***************************************************************************)

(* In every control state at most one gate is open, and what loads from    *)
(* the bus finds it driven.                                                *)
THEOREM BusIsDriven == Spec => []BusDriven
<1>1. TypeOK => BusDriven
  BY DEF TypeOK, BusDriven, Gates, GatePC, GateMDR, GateALU, GateMARMUX, LD_MAR, LD_IR,
         LD_CC, LD_REG, LD_MDR, Mem_OE
<1> QED BY <1>1, Slc3Types, PTL

(***************************************************************************)
(* The pause.                                                              *)
(***************************************************************************)

(* A button that is down outside Halted was pressed since the last pause,  *)
(* and a pause that waits for its release has seen it pressed.             *)
PauseInv ==
  /\ cont => pressed \/ State = "Halted"
  /\ State = "PauseIR2" => pressed

LEMMA PauseStep ==
  ASSUME TypeOK, PauseInv, Clock
  PROVE  PauseInv'
<1>1. /\ cont \in BOOLEAN /\ run \in BOOLEAN /\ pressed \in BOOLEAN
      /\ cont' \in BOOLEAN /\ pressed' \in BOOLEAN
  BY DEF TypeOK, Clock, Watch, Buttons
<1>2. /\ ~cont /\ cont' => pressed'
      /\ pressed /\ ~Reset_ah /\ State # "PauseIR2" => pressed'
      /\ pressed /\ ~Reset_ah /\ cont => pressed'
  BY DEF Clock, Watch
<1>3. CASE Reset_ah
  <2>1. State' = "Halted"
    BY <1>3 DEF Clock, Processor, ClearRegisters
  <2> QED BY <2>1 DEF PauseInv
<1>4. CASE ~Reset_ah
  <2>1. Next_state
    BY <1>4 DEF Clock, Processor, Execute
  <2>2. /\ State = "Halted" /\ State' # "Halted" => run
        /\ State' = "PauseIR2" => \/ State = "PauseIR1" /\ cont
                                  \/ State = "PauseIR2" /\ cont
        /\ State # "Halted" => State' # "Halted"
    BY <2>1 DEF Next_state, Step, Decode, Selects, NoOperation, AwaitPress, AwaitRelease
  <2> QED BY <1>1, <1>2, <1>4, <2>2 DEF PauseInv, Reset_ah
<1> QED BY <1>3, <1>4

(* No pause ends without a press of its own, however long the button is    *)
(* held and whenever it is released.                                       *)
THEOREM PauseWaits == Spec => PauseTakesAPress
<1>1. Init => PauseInv
  BY DEF Init, PauseInv
<1>2. TypeOK /\ PauseInv /\ [Next]_vars => PauseInv'
  <2>1. CASE Next
    BY <2>1, PauseStep DEF Next
  <2>2. CASE UNCHANGED vars
    BY <2>2 DEF vars, PauseInv
  <2> QED BY <2>1, <2>2
<1>3. PauseInv => [State = "PauseIR2" /\ State' = "S_18" => pressed]_vars
  BY DEF PauseInv
<1> QED BY <1>1, <1>2, <1>3, Slc3Types, PTL DEF Spec, PauseTakesAPress

(***************************************************************************)
(* The loader.                                                             *)
(***************************************************************************)

(* The words below the counter have been written.                          *)
WrittenBelow ==
  loader = "mem_write" => \A a \in DOMAIN Program : a < address => ram[a] = Program[a]

LEMMA LastIsLast == \A a \in DOMAIN Program : a <= LastAddress
<1>1. PICK n \in 1 .. RamSize : Program \in [0 .. n - 1 -> Word]
  BY Slc3Assumption
<1>2. n \in Nat /\ DOMAIN Program = 0 .. n - 1
  BY <1>1, Slc3Assumption
<1>3. n - 1 \in DOMAIN Program /\ (n - 1) + 1 \notin DOMAIN Program
  BY <1>2, <1>1
<1>4. ASSUME NEW a \in DOMAIN Program, a + 1 \notin DOMAIN Program
      PROVE  a = n - 1
  BY <1>2, <1>4
<1>5. LastAddress = n - 1
  BY <1>3, <1>4 DEF LastAddress
<1> QED BY <1>2, <1>5

LEMMA WordWritten ==
  ASSUME TypeOK, WrittenBelow, Memory, loader = "mem_write"
  PROVE  \A a \in DOMAIN Program : a <= address => ram'[a] = Program[a]
<1> SUFFICES ASSUME NEW a \in DOMAIN Program, a <= address
             PROVE  ram'[a] = Program[a]
  OBVIOUS
<1>1. /\ a \in Nat /\ a < RamSize /\ address \in Nat /\ address < RamSize
      /\ RamSize \in Nat /\ address \in DOMAIN Program
  BY ProgramAddresses DEF TypeOK
<1>2. address % RamSize = address
  BY <1>1
<1>3. ram' = [ram EXCEPT ![address] = Program[address]]
  BY <1>2 DEF Memory, RamWrite, RamAddress, RamData, we_select
<1>4. a \in DOMAIN ram
  BY <1>1 DEF TypeOK
<1>5. CASE a = address
  BY <1>3, <1>4, <1>5
<1>6. CASE a # address
  <2>1. a < address
    BY <1>1, <1>6
  <2> QED BY <1>3, <1>4, <1>6, <2>1 DEF WrittenBelow
<1> QED BY <1>5, <1>6

LEMMA LoaderStep ==
  ASSUME TypeOK, WrittenBelow, Clock
  PROVE  WrittenBelow'
<1>1. CASE loader' # "mem_write"
  BY <1>1 DEF WrittenBelow
<1>2. CASE loader' = "mem_write" /\ address' = 0
  BY <1>2, ProgramAddresses DEF WrittenBelow
<1>3. CASE loader' = "mem_write" /\ address' # 0
  <2>1. loader = "mem_write" /\ address' = address + 1
    BY <1>3 DEF Clock, Loader, we_select
  <2>2. \A a \in DOMAIN Program : a <= address => ram'[a] = Program[a]
    BY <2>1, WordWritten DEF Clock
  <2>3. address \in Nat /\ \A a \in DOMAIN Program : a \in Nat
    BY ProgramAddresses DEF TypeOK
  <2> QED BY <2>1, <2>2, <2>3 DEF WrittenBelow
<1> QED BY <1>1, <1>2, <1>3

(* Whatever reset comes in between, the loader is done only when the RAM   *)
(* holds the whole program.                                                *)
THEOREM LoadCompletes == Spec => LoadIsComplete
<1>1. Init => WrittenBelow
  BY DEF Init, WrittenBelow
<1>2. TypeOK /\ WrittenBelow /\ [Next]_vars => WrittenBelow'
  <2>1. CASE Next
    BY <2>1, LoaderStep DEF Next
  <2>2. CASE UNCHANGED vars
    BY <2>2 DEF vars, WrittenBelow
  <2> QED BY <2>1, <2>2
<1>3. TypeOK /\ WrittenBelow /\ [Next]_vars
      => [loader = "mem_write" /\ loader' = "done" =>
            \A a \in DOMAIN Program : ram'[a] = Program[a]]_vars
  <2> SUFFICES ASSUME TypeOK, WrittenBelow, Clock, loader = "mem_write", loader' = "done"
               PROVE  \A a \in DOMAIN Program : ram'[a] = Program[a]
    BY DEF Next
  <2>1. address = LastAddress
    BY DEF Clock, Loader, we_select
  <2> QED BY <2>1, WordWritten, LastIsLast DEF Clock
<1> QED BY <1>1, <1>2, <1>3, Slc3Types, PTL DEF Spec, LoadIsComplete
-----------------------------------------------------------------------------
(***************************************************************************)
(* What each control state does, if the processor is not reset.            *)
(***************************************************************************)
USE DEF Processor, Execute, Loaded, Next_state, Step, Decode, Selects, NoOperation,
        AwaitPress, AwaitRelease, LD_MAR, LD_MDR, LD_IR, LD_BEN, LD_CC, LD_REG, LD_PC,
        GatePC, GateMDR, GateALU, GateMARMUX, Mem_OE, Mem_WE, BUS_out, Data_to_CPU,
        PC_in, MARMUX, ADDR1, ADDR2, SR1_out, SR2_in, DR_in, ALU

SecondOperand == IF IR_5(IR) THEN Imm5(IR) ELSE R[SR2(IR)]
Base == Plus(R[SR1(IR)], Off6(IR))
MayRead(a) == IF a = IOWord THEN Settings ELSE {ram[a % RamSize]}

(* S_18: the fetch: PC goes out as the address and moves on.               *)
LEMMA In_S_18 ==
  ASSUME Processor, ~Reset_ah, State = "S_18"
  PROVE  /\ State' = "S_33_1"
         /\ PC' = Plus(PC, 1)
         /\ MAR' = PC
         /\ UNCHANGED <<IR, MDR, BEN, CC, R, hex_data>>
OBVIOUS

(* S_33_1: a wait for the memory.                                          *)
LEMMA In_S_33_1 ==
  ASSUME Processor, ~Reset_ah, State = "S_33_1"
  PROVE  /\ State' = "S_33_2"
         /\ UNCHANGED <<PC, IR, MAR, MDR, BEN, CC, R, hex_data>>
OBVIOUS

(* S_33_2: a wait for the memory.                                          *)
LEMMA In_S_33_2 ==
  ASSUME Processor, ~Reset_ah, State = "S_33_2"
  PROVE  /\ State' = "S_33_3"
         /\ UNCHANGED <<PC, IR, MAR, MDR, BEN, CC, R, hex_data>>
OBVIOUS

(* S_33_3: MDR takes what the memory or the switches give.                 *)
LEMMA In_S_33_3 ==
  ASSUME Processor, ~Reset_ah, State = "S_33_3"
  PROVE  /\ State' = "S_35"
         /\ MDR' \in IF MAR = IOWord THEN Settings ELSE {q}
         /\ UNCHANGED <<PC, IR, MAR, BEN, CC, R, hex_data>>
OBVIOUS

(* S_35: IR takes the instruction.                                         *)
LEMMA In_S_35 ==
  ASSUME Processor, ~Reset_ah, State = "S_35"
  PROVE  /\ State' = "S_32"
         /\ IR' = MDR
         /\ UNCHANGED <<PC, MAR, MDR, BEN, CC, R, hex_data>>
OBVIOUS

(* S_32: the decoding, and BEN.                                            *)
LEMMA In_S_32 ==
  ASSUME Processor, ~Reset_ah, State = "S_32"
  PROVE  /\ Decode
         /\ BEN' = newBEN(IR, CC)
         /\ UNCHANGED <<PC, IR, MAR, MDR, CC, R, hex_data>>
OBVIOUS

(* S_01: ADD.                                                              *)
LEMMA In_S_01 ==
  ASSUME Processor, ~Reset_ah, State = "S_01"
  PROVE  /\ State' = "S_18"
         /\ R' = [R EXCEPT ![DR(IR)] = Plus(R[SR1(IR)], SecondOperand)]
         /\ CC' = NZP(Plus(R[SR1(IR)], SecondOperand))
         /\ UNCHANGED <<PC, IR, MAR, MDR, BEN, hex_data>>
BY DEF SecondOperand

(* S_05: AND.                                                              *)
LEMMA In_S_05 ==
  ASSUME Processor, ~Reset_ah, State = "S_05"
  PROVE  /\ State' = "S_18"
         /\ R' = [R EXCEPT ![DR(IR)] = And(R[SR1(IR)], SecondOperand)]
         /\ CC' = NZP(And(R[SR1(IR)], SecondOperand))
         /\ UNCHANGED <<PC, IR, MAR, MDR, BEN, hex_data>>
BY DEF SecondOperand

(* S_09: NOT.                                                              *)
LEMMA In_S_09 ==
  ASSUME Processor, ~Reset_ah, State = "S_09"
  PROVE  /\ State' = "S_18"
         /\ R' = [R EXCEPT ![DR(IR)] = Not(R[SR1(IR)])]
         /\ CC' = NZP(Not(R[SR1(IR)]))
         /\ UNCHANGED <<PC, IR, MAR, MDR, BEN, hex_data>>
OBVIOUS

(* S_06: LDR, the address.                                                 *)
LEMMA In_S_06 ==
  ASSUME Processor, ~Reset_ah, State = "S_06"
  PROVE  /\ State' = "S_25_1"
         /\ MAR' = Base
         /\ UNCHANGED <<PC, IR, MDR, BEN, CC, R, hex_data>>
BY DEF Base

(* S_25_1: LDR, a wait for the memory.                                     *)
LEMMA In_S_25_1 ==
  ASSUME Processor, ~Reset_ah, State = "S_25_1"
  PROVE  /\ State' = "S_25_2"
         /\ UNCHANGED <<PC, IR, MAR, MDR, BEN, CC, R, hex_data>>
OBVIOUS

(* S_25_2: LDR, a wait for the memory.                                     *)
LEMMA In_S_25_2 ==
  ASSUME Processor, ~Reset_ah, State = "S_25_2"
  PROVE  /\ State' = "S_25_3"
         /\ UNCHANGED <<PC, IR, MAR, MDR, BEN, CC, R, hex_data>>
OBVIOUS

(* S_25_3: LDR, MDR takes the word.                                        *)
LEMMA In_S_25_3 ==
  ASSUME Processor, ~Reset_ah, State = "S_25_3"
  PROVE  /\ State' = "S_27"
         /\ MDR' \in IF MAR = IOWord THEN Settings ELSE {q}
         /\ UNCHANGED <<PC, IR, MAR, BEN, CC, R, hex_data>>
OBVIOUS

(* S_27: LDR, the register takes it.                                       *)
LEMMA In_S_27 ==
  ASSUME Processor, ~Reset_ah, State = "S_27"
  PROVE  /\ State' = "S_18"
         /\ R' = [R EXCEPT ![DR(IR)] = MDR]
         /\ CC' = NZP(MDR)
         /\ UNCHANGED <<PC, IR, MAR, MDR, BEN, hex_data>>
OBVIOUS

(* S_07: STR, the address.                                                 *)
LEMMA In_S_07 ==
  ASSUME Processor, ~Reset_ah, State = "S_07"
  PROVE  /\ State' = "S_23"
         /\ MAR' = Base
         /\ UNCHANGED <<PC, IR, MDR, BEN, CC, R, hex_data>>
BY DEF Base

(* S_23: STR, the word to be stored.                                       *)
LEMMA In_S_23 ==
  ASSUME Processor, ~Reset_ah, State = "S_23"
  PROVE  /\ State' = "S_16"
         /\ MDR' = R[DR(IR)]
         /\ UNCHANGED <<PC, IR, MAR, BEN, CC, R, hex_data>>
OBVIOUS

(* S_16: STR, the store; at the I/O address the display takes it.          *)
LEMMA In_S_16 ==
  ASSUME Processor, ~Reset_ah, State = "S_16"
  PROVE  /\ State' = "S_18"
         /\ hex_data' = IF MAR = IOWord THEN MDR ELSE hex_data
         /\ UNCHANGED <<PC, IR, MAR, MDR, BEN, CC, R>>
OBVIOUS

(* S_BEN: BR, the branch is taken or not.                                  *)
LEMMA In_S_BEN ==
  ASSUME Processor, ~Reset_ah, State = "S_BEN"
  PROVE  /\ State' = IF BEN THEN "S_22" ELSE "S_18"
         /\ UNCHANGED <<PC, IR, MAR, MDR, BEN, CC, R, hex_data>>
OBVIOUS

(* S_22: BR, the jump.                                                     *)
LEMMA In_S_22 ==
  ASSUME Processor, ~Reset_ah, State = "S_22"
  PROVE  /\ State' = "S_18"
         /\ PC' = Plus(PC, Off9(IR))
         /\ UNCHANGED <<IR, MAR, MDR, BEN, CC, R, hex_data>>
OBVIOUS

(* S_12: JMP.                                                              *)
LEMMA In_S_12 ==
  ASSUME Processor, ~Reset_ah, State = "S_12"
  PROVE  /\ State' = "S_18"
         /\ PC' = Plus(R[SR1(IR)], 0)
         /\ UNCHANGED <<IR, MAR, MDR, BEN, CC, R, hex_data>>
OBVIOUS

(* S_04: JSR, the link.                                                    *)
LEMMA In_S_04 ==
  ASSUME Processor, ~Reset_ah, State = "S_04"
  PROVE  /\ State' = "S_21"
         /\ R' = [R EXCEPT ![7] = PC]
         /\ UNCHANGED <<PC, IR, MAR, MDR, BEN, CC, hex_data>>
OBVIOUS

(* S_21: JSR, the jump.                                                    *)
LEMMA In_S_21 ==
  ASSUME Processor, ~Reset_ah, State = "S_21"
  PROVE  /\ State' = "S_18"
         /\ PC' = Plus(PC, Off11(IR))
         /\ UNCHANGED <<IR, MAR, MDR, BEN, CC, R, hex_data>>
OBVIOUS

(* Halted: Halted, until Run is pressed.                                   *)
LEMMA In_Halted ==
  ASSUME Processor, ~Reset_ah, State = "Halted"
  PROVE  /\ State' = IF run THEN "S_18" ELSE "Halted"
         /\ UNCHANGED <<PC, IR, MAR, MDR, BEN, CC, R, hex_data>>
OBVIOUS

(* PauseIR1: PSE, until Continue is pressed.                               *)
LEMMA In_PauseIR1 ==
  ASSUME Processor, ~Reset_ah, State = "PauseIR1"
  PROVE  /\ State' \in {"PauseIR1", "PauseIR2"}
         /\ UNCHANGED <<PC, IR, MAR, MDR, BEN, CC, R, hex_data>>
OBVIOUS

(* PauseIR2: PSE, until Continue is released.                              *)
LEMMA In_PauseIR2 ==
  ASSUME Processor, ~Reset_ah, State = "PauseIR2"
  PROVE  /\ State' \in {"PauseIR2", "S_18"}
         /\ UNCHANGED <<PC, IR, MAR, MDR, BEN, CC, R, hex_data>>
OBVIOUS

HIDE DEF Processor, Execute, Loaded, Next_state, Step, Decode, Selects, NoOperation,
         AwaitPress, AwaitRelease, LD_MAR, LD_MDR, LD_IR, LD_BEN, LD_CC, LD_REG, LD_PC,
         GatePC, GateMDR, GateALU, GateMARMUX, Mem_OE, Mem_WE, BUS_out, Data_to_CPU,
         PC_in, MARMUX, ADDR1, ADDR2, SR1_out, SR2_in, DR_in, ALU

(***************************************************************************)
(* The inductive invariant of the refinement.                              *)
(***************************************************************************)

(* A reset finds the loader writing. *)
LoaderInv == Reset_ah => loader = "mem_write"

Prev == (PC + 65535) % 65536

(* The word in flight: from the latched address to the register.           *)
FetchInv ==
  /\ State \in {"S_33_1", "S_33_2", "S_33_3"} => MAR = Prev
  /\ State \in {"S_33_2", "S_25_2"} => latched = ram[MAR % RamSize]
  /\ State \in {"S_33_3", "S_25_3"} => q = ram[MAR % RamSize]
  /\ State = "S_35" => MDR \in MayRead(Prev)

InFlight == {"S_32", "S_01", "S_05", "S_09", "S_06", "S_25_1", "S_25_2", "S_25_3", "S_27",
             "S_07", "S_23", "S_16", "S_BEN", "S_22", "S_12", "S_04"}

(* The instruction register holds what was read at the address before PC,  *)
(* and the control state is one of its instruction's.                      *)
DecodeInv ==
  /\ State \in InFlight => IR \in MayRead(Prev)
  /\ State = "S_01" => Opcode(IR) = 1
  /\ State = "S_05" => Opcode(IR) = 5
  /\ State = "S_09" => Opcode(IR) = 9
  /\ State = "S_12" => Opcode(IR) = 12
  /\ State = "S_04" => Opcode(IR) = 4
  /\ State \in {"S_06", "S_25_1", "S_25_2", "S_25_3", "S_27"} => Opcode(IR) = 6
  /\ State \in {"S_07", "S_23", "S_16"} => Opcode(IR) = 7
  /\ State \in {"S_BEN", "S_22"} => Opcode(IR) = 0

(* What the earlier states of an instruction have left for the last.       *)
ExecInv ==
  /\ State \in {"S_25_1", "S_25_2", "S_25_3", "S_23", "S_16"} => MAR = Base
  /\ State = "S_27" => MDR \in MayRead(Base)
  /\ State = "S_16" => MDR = R[DR(IR)]
  /\ State = "S_BEN" => BEN = newBEN(IR, CC)
  /\ State = "S_22" => newBEN(IR, CC)

CpuInv == TypeOK /\ LoaderInv /\ FetchInv /\ DecodeInv /\ ExecInv

(* An instruction under which the loader writes may find anything. *)
UnlessMuddled == TypeOK /\ LoaderInv /\ (~muddled => FetchInv /\ DecodeInv /\ ExecInv)
-----------------------------------------------------------------------------
(***************************************************************************)
(* What holds at every edge without reset outside the state Halted.        *)
(***************************************************************************)
LEMMA Back ==
  ASSUME NEW p \in Word
  PROVE  /\ Plus((p + 65535) % 65536, 1) = p
         /\ (Plus(p, 1) + 65535) % 65536 = p
         /\ Plus(p, 0) = p
         /\ (p + 65535) % 65536 \in Word
BY DEF Plus, Word

Undisturbed ==
  CpuInv /\ Clock /\ ~Reset_ah /\ State # "Halted" /\ loader # "mem_write"

(* With the loader idle only a store writes.                               *)
LEMMA MemoryKept ==
  ASSUME Undisturbed
  PROVE  /\ Processor
         /\ ram' = IF State = "S_16" THEN [ram EXCEPT ![MAR % RamSize] = MDR] ELSE ram
         /\ latched' = IF State \in {"S_33_1", "S_33_2", "S_33_3", "S_25_1", "S_25_2", "S_25_3"}
                       THEN ram[MAR % RamSize] ELSE latched
         /\ q' = latched
<1>1. loader # "mem_write" /\ Memory /\ Processor
  BY DEF Undisturbed, Clock
<1> QED
  BY <1>1 DEF Memory, we_select, RamAddress, RamData, RamWrite, Mem_OE, Mem_WE

(* No edge breaks the invariant of the loader.                             *)
LEMMA LoaderKept ==
  ASSUME Clock
  PROVE  LoaderInv'
BY DEF Clock, Loader, LoaderInv, Reset_ah

(* Between instructions nothing is under way that could have been muddled. *)
LEMMA NothingUnderWay ==
  ASSUME Between
  PROVE  FetchInv /\ DecodeInv /\ ExecInv
BY DEF Between, FetchInv, DecodeInv, ExecInv, InFlight

(* The instance shares the words with the processor. *)
LEMMA SameFields ==
  /\ Seen!IOWord = IOWord /\ Seen!RegNames = RegNames
  /\ \A a : Seen!DR(a) = DR(a) /\ Seen!SR1(a) = SR1(a) /\ Seen!SR2(a) = SR2(a)
  /\ \A a : Seen!Opcode(a) = Opcode(a) /\ Seen!IR_5(a) = IR_5(a)
  /\ \A a : Seen!Imm5(a) = Imm5(a) /\ Seen!Off6(a) = Off6(a)
  /\ \A a : Seen!Off9(a) = Off9(a) /\ Seen!Off11(a) = Off11(a)
<1>1. Seen!IOWord = IOWord /\ Seen!RegNames = RegNames
  BY DEF Seen!IOWord, IOWord, Seen!RegNames, RegNames
<1>2. \A a : Seen!DR(a) = DR(a) /\ Seen!SR1(a) = SR1(a) /\ Seen!SR2(a) = SR2(a) /\ Seen!Opcode(a) = Opcode(a)
  BY DEF Seen!DR, DR, Seen!SR1, SR1, Seen!SR2, SR2, Seen!Opcode, Opcode
<1>3. \A a : Seen!IR_5(a) = IR_5(a)
  BY DEF Seen!IR_5, IR_5, Seen!Bit, Bit
<1>4. \A a, m : Seen!Sext(a, m) = Sext(a, m)
  BY DEF Seen!Sext, Sext
<1>5. /\ \A a : Seen!Imm5(a) = Imm5(a) /\ Seen!Off6(a) = Off6(a)
      /\ \A a : Seen!Off9(a) = Off9(a) /\ Seen!Off11(a) = Off11(a)
  BY <1>4 DEF Seen!Imm5, Imm5, Seen!Off6, Off6, Seen!Off9, Off9, Seen!Off11, Off11
<1> QED BY <1>1, <1>2, <1>3, <1>5

(* It shares the arithmetic, too.                                          *)
LEMMA SameOps ==
  /\ \A a, b : Seen!Plus(a, b) = Plus(a, b) /\ Seen!And(a, b) = And(a, b)
  /\ \A a : Seen!Not(a) = Not(a) /\ Seen!NZP(a) = NZP(a)
  /\ \A a, b : Seen!newBEN(a, b) = newBEN(a, b)
<1>1. \A a, b : Seen!Plus(a, b) = Plus(a, b)
  BY DEF Seen!Plus, Plus
<1>2. \A a, b : Seen!AndNibble(a, b) = AndNibble(a, b)
  BY DEF Seen!AndNibble, AndNibble, Seen!Both, Both, Seen!Bit, Bit
<1>3. \A a, b : Seen!And(a, b) = And(a, b)
  BY <1>2 DEF Seen!And, And
<1>4. \A a : Seen!Not(a) = Not(a) /\ Seen!NZP(a) = NZP(a)
  BY DEF Seen!Not, Not, Seen!NZP, NZP
<1>5. \A a, b : Seen!newBEN(a, b) = newBEN(a, b)
  BY SameFields DEF Seen!newBEN, newBEN, Seen!Bit, Bit
<1> QED BY <1>1, <1>3, <1>4, <1>5

(* An instruction is made when its last control state is left.             *)
LEMMA Commit ==
  ASSUME CpuInv, State \in InFlight, Seen!Perform(IR)
  PROVE  Seen!Instruction
<1>1. IR \in MayRead(Prev) /\ SeenPC = Prev /\ SeenMode = "run"
  BY DEF CpuInv, DecodeInv, SeenPC, SeenMode, Ahead, InFlight, Prev
<1>2. MayRead(Prev) = Seen!ReadAt(SeenPC)
  BY <1>1, SameFields DEF MayRead, Seen!ReadAt
<1> QED BY <1>1, <1>2 DEF Seen!Instruction

(* The promise of a step: the invariant goes on and the programmer sees an *)
(* instruction of the set or nothing.                                      *)
Inv == FetchInv /\ DecodeInv /\ ExecInv
USE DEF Inv, FetchInv, DecodeInv, ExecInv, InFlight, Prev, Ahead, SeenPC, SeenMode

(* The programmer sees nothing of the fetch: PC runs ahead of what is seen. *)
LEMMA Step_S_18 ==
  ASSUME Undisturbed, State = "S_18"
  PROVE  Inv' /\ UNCHANGED Seen!isaVars
<1>1. PC \in Word BY DEF Undisturbed, CpuInv, TypeOK
<1> QED BY <1>1, Back, MemoryKept, In_S_18 DEF Undisturbed, CpuInv, Seen!isaVars

(* Nor of the waits for the memory.                                        *)
LEMMA Step_S_33_1 ==
  ASSUME Undisturbed, State = "S_33_1"
  PROVE  Inv' /\ UNCHANGED Seen!isaVars
BY MemoryKept, In_S_33_1 DEF Undisturbed, CpuInv, Seen!isaVars

(* Nor of the second.                                                      *)
LEMMA Step_S_33_2 ==
  ASSUME Undisturbed, State = "S_33_2"
  PROVE  Inv' /\ UNCHANGED Seen!isaVars
BY MemoryKept, In_S_33_2 DEF Undisturbed, CpuInv, Seen!isaVars

(* MDR has the word at the address of the instruction.                     *)
LEMMA Step_S_33_3 ==
  ASSUME Undisturbed, State = "S_33_3"
  PROVE  Inv' /\ UNCHANGED Seen!isaVars
BY MemoryKept, In_S_33_3 DEF Undisturbed, CpuInv, Seen!isaVars, MayRead

(* IR has what MDR has, which was read at that address.                    *)
LEMMA Step_S_35 ==
  ASSUME Undisturbed, State = "S_35"
  PROVE  Inv' /\ UNCHANGED Seen!isaVars
BY MemoryKept, In_S_35 DEF Undisturbed, CpuInv, Seen!isaVars, MayRead

(* LDR begins unseen.                                                      *)
LEMMA Step_S_06 ==
  ASSUME Undisturbed, State = "S_06"
  PROVE  Inv' /\ UNCHANGED Seen!isaVars
BY MemoryKept, In_S_06 DEF Undisturbed, CpuInv, Seen!isaVars, MayRead, Base

(* LDR waits unseen.                                                       *)
LEMMA Step_S_25_1 ==
  ASSUME Undisturbed, State = "S_25_1"
  PROVE  Inv' /\ UNCHANGED Seen!isaVars
BY MemoryKept, In_S_25_1 DEF Undisturbed, CpuInv, Seen!isaVars, MayRead, Base

(* LDR waits unseen.                                                       *)
LEMMA Step_S_25_2 ==
  ASSUME Undisturbed, State = "S_25_2"
  PROVE  Inv' /\ UNCHANGED Seen!isaVars
BY MemoryKept, In_S_25_2 DEF Undisturbed, CpuInv, Seen!isaVars, MayRead, Base

(* MDR has the word at the base and offset.                                *)
LEMMA Step_S_25_3 ==
  ASSUME Undisturbed, State = "S_25_3"
  PROVE  Inv' /\ UNCHANGED Seen!isaVars
BY MemoryKept, In_S_25_3 DEF Undisturbed, CpuInv, Seen!isaVars, MayRead, Base

(* STR begins unseen.                                                      *)
LEMMA Step_S_07 ==
  ASSUME Undisturbed, State = "S_07"
  PROVE  Inv' /\ UNCHANGED Seen!isaVars
BY MemoryKept, In_S_07 DEF Undisturbed, CpuInv, Seen!isaVars, MayRead, Base

(* STR takes its word unseen.                                              *)
LEMMA Step_S_23 ==
  ASSUME Undisturbed, State = "S_23"
  PROVE  Inv' /\ UNCHANGED Seen!isaVars
BY MemoryKept, In_S_23 DEF Undisturbed, CpuInv, Seen!isaVars, MayRead, Base

(* S_32 ends the instruction that does nothing and begins a pause. *)
LEMMA Step_S_32 ==
  ASSUME Undisturbed, State = "S_32"
  PROVE  Inv' /\ (Seen!Instruction \/ UNCHANGED Seen!isaVars)
<1>1. PC \in Word BY DEF Undisturbed, CpuInv, TypeOK
<1>2. Decode /\ BEN' = newBEN(IR, CC) /\ UNCHANGED <<PC, IR, MAR, MDR, CC, R, hex_data, ram>>
  BY MemoryKept, In_S_32 DEF Undisturbed
<1>3. Inv'
  BY <1>2 DEF Undisturbed, CpuInv, MayRead, Decode, Selects, NoOperation, Step
<1>4. CASE State' = "PauseIR1"
  <2>1. Opcode(IR) = 13
    BY <1>2, <1>4 DEF Decode, Selects, NoOperation, Step
  <2>2. Seen!Pse(IR)
    BY <1>1, <1>2, <1>4, <2>1, Back, SameFields, SameOps DEF Seen!Pse, Seen!Advance
  <2> QED BY <1>3, <2>2, Commit DEF Seen!Perform, Undisturbed
<1>5. CASE State' = "S_18"
  <2>1. Opcode(IR) \notin {0, 1, 4, 5, 6, 7, 9, 12, 13}
    BY <1>2, <1>5 DEF Decode, Selects, NoOperation, Step
  <2>2. Seen!Nop(IR)
    BY <1>1, <1>2, <1>5, <2>1, Back, SameFields, SameOps DEF Seen!Nop, Seen!Advance
  <2> QED BY <1>3, <2>2, Commit DEF Seen!Perform, Undisturbed
<1>6. CASE State' \notin {"PauseIR1", "S_18"}
  BY <1>2, <1>3, <1>6 DEF Decode, Selects, NoOperation, Step, Seen!isaVars
<1> QED BY <1>3, <1>4, <1>5, <1>6

(* ADD is made as its state is left.                                       *)
LEMMA Step_S_01 ==
  ASSUME Undisturbed, State = "S_01"
  PROVE  Inv' /\ Seen!Instruction
<1>1. PC \in Word BY DEF Undisturbed, CpuInv, TypeOK
<1>2. Inv'
  BY MemoryKept, In_S_01 DEF Undisturbed, CpuInv
<1>3. Seen!Add(IR)
  BY <1>1, Back, MemoryKept, In_S_01, SameFields, SameOps
  DEF Undisturbed, CpuInv, Seen!Add, Seen!Operate, Seen!SetRegister, Seen!Advance, Seen!Operand, SecondOperand
<1> QED BY <1>2, <1>3, Commit DEF Undisturbed, Seen!Perform

(* AND is made.                                                            *)
LEMMA Step_S_05 ==
  ASSUME Undisturbed, State = "S_05"
  PROVE  Inv' /\ Seen!Instruction
<1>1. PC \in Word BY DEF Undisturbed, CpuInv, TypeOK
<1>2. Inv'
  BY MemoryKept, In_S_05 DEF Undisturbed, CpuInv
<1>3. Seen!AndOp(IR)
  BY <1>1, Back, MemoryKept, In_S_05, SameFields, SameOps
  DEF Undisturbed, CpuInv, Seen!AndOp, Seen!Operate, Seen!SetRegister, Seen!Advance, Seen!Operand, SecondOperand
<1> QED BY <1>2, <1>3, Commit DEF Undisturbed, Seen!Perform

(* NOT is made.                                                            *)
LEMMA Step_S_09 ==
  ASSUME Undisturbed, State = "S_09"
  PROVE  Inv' /\ Seen!Instruction
<1>1. PC \in Word BY DEF Undisturbed, CpuInv, TypeOK
<1>2. Inv'
  BY MemoryKept, In_S_09 DEF Undisturbed, CpuInv
<1>3. Seen!NotOp(IR)
  BY <1>1, Back, MemoryKept, In_S_09, SameFields, SameOps
  DEF Undisturbed, CpuInv, Seen!NotOp, Seen!Operate, Seen!SetRegister, Seen!Advance
<1> QED BY <1>2, <1>3, Commit DEF Undisturbed, Seen!Perform

(* LDR is made with its last state.                                        *)
LEMMA Step_S_27 ==
  ASSUME Undisturbed, State = "S_27"
  PROVE  Inv' /\ Seen!Instruction
<1>1. PC \in Word BY DEF Undisturbed, CpuInv, TypeOK
<1>2. Inv'
  BY MemoryKept, In_S_27 DEF Undisturbed, CpuInv
<1>3. Seen!Ldr(IR)
  BY <1>1, Back, MemoryKept, In_S_27, SameFields, SameOps
  DEF Undisturbed, CpuInv, Seen!Ldr, Seen!Operate, Seen!SetRegister, Seen!Advance, Seen!ReadAt, MayRead, Base, Seen!BaseAddress
<1> QED BY <1>2, <1>3, Commit DEF Undisturbed, Seen!Perform

(* STR is made with its last state.                                        *)
LEMMA Step_S_16 ==
  ASSUME Undisturbed, State = "S_16"
  PROVE  Inv' /\ Seen!Instruction
<1>1. PC \in Word BY DEF Undisturbed, CpuInv, TypeOK
<1>2. Inv'
  BY MemoryKept, In_S_16 DEF Undisturbed, CpuInv
<1>3. Seen!Str(IR)
  BY <1>1, Back, MemoryKept, In_S_16, SameFields, SameOps
  DEF Undisturbed, CpuInv, Seen!Str, Seen!Advance, Seen!BaseAddress, Base
<1> QED BY <1>2, <1>3, Commit DEF Undisturbed, Seen!Perform

(* JMP is made.                                                            *)
LEMMA Step_S_12 ==
  ASSUME Undisturbed, State = "S_12"
  PROVE  Inv' /\ Seen!Instruction
<1>1. R[SR1(IR)] \in Word
  BY Fields DEF Undisturbed, CpuInv, TypeOK
<1>2. Inv'
  BY MemoryKept, In_S_12 DEF Undisturbed, CpuInv
<1>3. PC' = R[SR1(IR)]
  BY <1>1, Back, MemoryKept, In_S_12 DEF Undisturbed
<1>4. Seen!Jmp(IR)
  BY <1>3, MemoryKept, In_S_12, SameFields DEF Undisturbed, CpuInv, Seen!Jmp
<1> QED BY <1>2, <1>4, Commit DEF Undisturbed, Seen!Perform

(* JSR is made with its first state; the jump is seen as done.             *)
LEMMA Step_S_04 ==
  ASSUME Undisturbed, State = "S_04"
  PROVE  Inv' /\ Seen!Instruction
<1>1. PC \in Word BY DEF Undisturbed, CpuInv, TypeOK
<1>2. Inv'
  BY MemoryKept, In_S_04 DEF Undisturbed, CpuInv
<1>3. Seen!Jsr(IR)
  BY <1>1, Back, MemoryKept, In_S_04, SameFields, SameOps
  DEF Undisturbed, CpuInv, Seen!Jsr, Seen!SetRegister, Seen!Link
<1> QED BY <1>2, <1>3, Commit DEF Undisturbed, Seen!Perform

(* The jump of JSR is the one already seen.                                *)
LEMMA Step_S_21 ==
  ASSUME Undisturbed, State = "S_21"
  PROVE  Inv' /\ UNCHANGED Seen!isaVars
BY MemoryKept, In_S_21 DEF Undisturbed, CpuInv, Seen!isaVars

(* A branch that is not taken ends in S_BEN, one that is taken in S_22. *)
LEMMA Step_S_BEN ==
  ASSUME Undisturbed, State = "S_BEN"
  PROVE  Inv' /\ (Seen!Instruction \/ UNCHANGED Seen!isaVars)
<1>1. PC \in Word BY DEF Undisturbed, CpuInv, TypeOK
<1>2. Inv'
  BY MemoryKept, In_S_BEN DEF Undisturbed, CpuInv, MayRead
<1>3. BEN = newBEN(IR, CC)
  BY DEF Undisturbed, CpuInv
<1>4. CASE BEN
  BY <1>2, <1>4, MemoryKept, In_S_BEN DEF Undisturbed, Seen!isaVars
<1>5. CASE ~BEN
  <2>1. ~Seen!newBEN(IR, CC)
    BY <1>3, <1>5, SameOps
  <2>2. Seen!Br(IR)
    BY <1>1, <1>5, <2>1, Back, MemoryKept, In_S_BEN, SameFields, SameOps
    DEF Undisturbed, CpuInv, Seen!Br
  <2> QED BY <1>2, <2>2, Commit DEF Undisturbed, Seen!Perform
<1> QED BY <1>4, <1>5

(* BR is made here if it is.                                               *)
LEMMA Step_S_22 ==
  ASSUME Undisturbed, State = "S_22"
  PROVE  Inv' /\ Seen!Instruction
<1>1. PC \in Word BY DEF Undisturbed, CpuInv, TypeOK
<1>2. Inv'
  BY MemoryKept, In_S_22 DEF Undisturbed, CpuInv
<1>3. Seen!newBEN(IR, CC)
  BY SameOps DEF Undisturbed, CpuInv
<1>4. Seen!Br(IR)
  BY <1>1, <1>3, Back, MemoryKept, In_S_22, SameFields, SameOps
  DEF Undisturbed, CpuInv, Seen!Br
<1> QED BY <1>2, <1>4, Commit DEF Undisturbed, Seen!Perform

(* The pause stays a pause.                                                *)
LEMMA Step_PauseIR1 ==
  ASSUME Undisturbed, State = "PauseIR1"
  PROVE  Inv' /\ UNCHANGED Seen!isaVars
BY MemoryKept, In_PauseIR1 DEF Undisturbed, CpuInv, Seen!isaVars

(* The release of Continue resumes.                                        *)
LEMMA Step_PauseIR2 ==
  ASSUME Undisturbed, State = "PauseIR2"
  PROVE  Inv' /\ (Seen!Resume \/ UNCHANGED Seen!isaVars)
BY MemoryKept, In_PauseIR2 DEF Undisturbed, CpuInv, Seen!isaVars, Seen!Resume

(* The loader writes while the processor stays halted, or it starts. *)
LEMMA Step_Halted ==
  ASSUME CpuInv, Clock, ~Reset_ah, State = "Halted", ~muddled'
  PROVE  Inv' /\ (Seen!Start \/ Seen!Load \/ UNCHANGED Seen!isaVars)
<1>1. /\ State' = IF run THEN "S_18" ELSE "Halted"
      /\ UNCHANGED <<PC, IR, MAR, MDR, BEN, CC, R, hex_data>>
  BY In_Halted DEF Clock
<1>2. Inv'
  BY <1>1
<1>3. CASE loader = "mem_write"
  <2>1. ~run /\ address \in DOMAIN Program
    BY <1>1, <1>3 DEF CpuInv, TypeOK, Clock, Watch, we_select
  <2>2. ram' = [ram EXCEPT ![address % RamSize] = Program[address]]
    BY <1>3 DEF Clock, Memory, RamWrite, RamAddress, RamData, we_select
  <2>3. Seen!LoadWord
    BY <2>1, <2>2 DEF Seen!LoadWord
  <2>4. State' = "Halted"
    BY <1>1, <2>1
  <2>5. SeenPC' = SeenPC /\ SeenMode = "halted" /\ SeenMode' = SeenMode
    BY <1>1, <2>4
  <2>6. Seen!Load
    BY <1>1, <2>3, <2>5 DEF Seen!Load
  <2> QED BY <1>2, <2>6
<1>4. CASE loader # "mem_write"
  <2>1. ram' = ram
    BY <1>4 DEF Clock, Memory, RamWrite, we_select, Mem_WE
  <2>2. CASE run
    <3>1. State' = "S_18"
      BY <1>1, <2>2
    <3>2. SeenPC' = SeenPC /\ SeenMode = "halted" /\ SeenMode' = "run"
      BY <1>1, <3>1
    <3> QED BY <1>1, <1>2, <2>1, <3>2 DEF Seen!Start
  <2>3. CASE ~run
    <3>1. State' = "Halted"
      BY <1>1, <2>3
    <3>2. SeenPC' = SeenPC /\ SeenMode' = SeenMode
      BY <1>1, <3>1
    <3> QED BY <1>1, <1>2, <2>1, <3>2 DEF Seen!isaVars
  <2> QED BY <2>2, <2>3
<1> QED BY <1>3, <1>4

(* A reset in any state is the reset of the instruction set; the loader starts over. *)
LEMMA Step_Reset ==
  ASSUME TypeOK, LoaderInv, Clock, Reset_ah
  PROVE  Inv' /\ Seen!Reset
<1>1. ClearRegisters
  BY DEF Clock, Processor
<1>2. Inv'
  BY <1>1 DEF ClearRegisters
<1>3. loader = "mem_write" /\ address \in DOMAIN Program
  BY DEF LoaderInv, TypeOK
<1>4. ram' = [ram EXCEPT ![address % RamSize] = Program[address]]
  BY <1>3 DEF Clock, Memory, RamWrite, RamAddress, RamData, we_select
<1>5. Seen!LoadWord
  BY <1>3, <1>4 DEF Seen!LoadWord
<1>6. SeenPC' = 0 /\ SeenMode' = "halted"
  BY <1>1 DEF ClearRegisters
<1>7. R' = [r \in Seen!RegNames |-> 0]
  BY <1>1, SameFields DEF ClearRegisters
<1>8. CC' = 0 /\ hex_data' = 0
  BY <1>1 DEF ClearRegisters
<1> QED BY <1>2, <1>5, <1>6, <1>7, <1>8 DEF Seen!Reset

HIDE DEF Inv, FetchInv, DecodeInv, ExecInv, InFlight, Prev, Ahead, SeenPC, SeenMode

-----------------------------------------------------------------------------
(* Every edge is an instruction, a button, a word of the loader, a reset,  *)
(* or nothing a programmer sees, but under an instruction that the loader  *)
(* muddles.                                                                *)
LEMMA EveryStep ==
  ASSUME UnlessMuddled, Clock, ~muddled'
  PROVE  Inv' /\ (Seen!IsaNext \/ UNCHANGED Seen!isaVars)
<1>1. CASE Reset_ah
  BY <1>1, Step_Reset DEF UnlessMuddled, Seen!IsaNext
<1>2. CASE ~Reset_ah
  <2>1. State \in States /\ muddled \in BOOLEAN
    BY DEF UnlessMuddled, TypeOK
  <2>2. CpuInv
    <3>1. CASE muddled
      <4>1. Between \/ State' = "Halted"
        BY <1>2, <3>1 DEF Clock, Watch
      <4>2. Between
        <5>1. Next_state
          BY <1>2 DEF Clock, Processor, Execute
        <5>2. State' = "Halted" => State = "Halted"
          BY <5>1 DEF Next_state, Step, Decode, Selects, NoOperation, AwaitPress, AwaitRelease
        <5> QED BY <4>1, <5>2 DEF Between
      <4> QED BY <4>2, NothingUnderWay DEF UnlessMuddled, CpuInv
    <3>2. CASE ~muddled
      BY <3>2 DEF UnlessMuddled, CpuInv
    <3> QED BY <3>1, <3>2
  <2>3. CASE State = "Halted"
    BY <1>2, <2>2, <2>3, Step_Halted DEF Seen!IsaNext
  <2>4. CASE State # "Halted"
    <3>1. State' # "Halted"
      <4>1. Next_state
        BY <1>2 DEF Clock, Processor, Execute
      <4> QED BY <2>4, <4>1
              DEF Next_state, Step, Decode, Selects, NoOperation, AwaitPress, AwaitRelease
    <3>2. loader # "mem_write"
      BY <1>2, <3>1 DEF Clock, Watch, we_select
    <3>3. Undisturbed
      BY <1>2, <2>2, <2>4, <3>2 DEF Undisturbed
    <3> QED
      BY <2>1, <2>4, <3>3, Step_S_18, Step_S_33_1, Step_S_33_2, Step_S_33_3, Step_S_35,
         Step_S_32, Step_S_01, Step_S_05, Step_S_09, Step_S_06, Step_S_25_1, Step_S_25_2,
         Step_S_25_3, Step_S_27, Step_S_07, Step_S_23, Step_S_16, Step_S_BEN, Step_S_22,
         Step_S_12, Step_S_04, Step_S_21, Step_PauseIR1, Step_PauseIR2
      DEF States, Seen!IsaNext
  <2> QED BY <2>3, <2>4
<1> QED BY <1>1, <1>2

(* UnlessMuddled is an invariant of the processor: no control state is     *)
(* reached without what the states before it must have left for it, unless *)
(* the loader has written under the instruction.                           *)
THEOREM Slc3Invariant == Spec => []UnlessMuddled
<1>1. Init => LoaderInv /\ Inv
  BY DEF Init, LoaderInv, Reset_ah, Inv, FetchInv, DecodeInv, ExecInv, InFlight
<1>2. TypeOK /\ LoaderInv /\ (~muddled => Inv) /\ [Next]_vars
      => LoaderInv' /\ (~muddled' => Inv')
  <2>1. CASE Next
    BY <2>1, EveryStep, LoaderKept DEF Next, UnlessMuddled, Inv
  <2>2. CASE UNCHANGED vars
    BY <2>2 DEF vars, cpuVars, LoaderInv, Reset_ah, Inv, FetchInv, DecodeInv, ExecInv,
                InFlight, Prev, MayRead, Base
  <2> QED BY <2>1, <2>2
<1> QED BY <1>1, <1>2, Slc3Types, PTL DEF Spec, UnlessMuddled, Inv

(* The control states and the data path of the processor, with the waits   *)
(* for the memory, the loader and the reset, implement the instruction     *)
(* set, for every program, RAM and switch setting, and whatever the        *)
(* buttons do.  Nothing is said of the edges of an instruction under which *)
(* the loader writes, and of no others.                                    *)
THEOREM Implements == Spec => ImplementsIsa
<1>1. Init => Seen!IsaInit
  BY Slc3Assumption, SameFields DEF Init, Seen!IsaInit, SeenPC, SeenMode, Ahead, Seen!Word, Word
<1>2. UnlessMuddled /\ [Next]_vars => [muddled' \/ Seen!IsaNext]_(Seen!isaVars)
  <2>1. CASE Next
    BY <2>1, EveryStep DEF Next
  <2>2. CASE UNCHANGED vars
    BY <2>2 DEF vars, cpuVars, Seen!isaVars, SeenPC, SeenMode, Ahead
  <2> QED BY <2>1, <2>2
<1> QED BY <1>1, <1>2, Slc3Invariant, PTL DEF Spec, ImplementsIsa
=============================================================================
