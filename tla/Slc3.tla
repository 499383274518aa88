-------------------------------- MODULE Slc3 --------------------------------
(***************************************************************************)
(* The SLC-3 processor of src/ECE385_5 (wpsass2, pw16): the control unit   *)
(* ISDU, the data path, the memory interface, the synchronised buttons of  *)
(* the top level, the program loader, and the RAM as an external part.     *)
(* One step of Clock is one rising edge.                                   *)
(***************************************************************************)
EXTENDS Slc3Word

CONSTANTS
    RamSize,     (* words of RAM; the address bus is cut to its size       *)
    Settings,    (* what the switches may be set to                        *)
    Program,     (* the words the loader writes, from address 0            *)
    PowerUpRam,  (* what the RAM holds before the first load               *)
    Undriven     (* what a bus without a driver may read as                *)

ASSUME Slc3Assumption ==
    /\ RamSize \in Nat \ {0}
    /\ Settings \subseteq Word
    /\ \E n \in 1 .. RamSize : Program \in [0 .. n - 1 -> Word]
    /\ PowerUpRam \in [0 .. RamSize - 1 -> Word]
    /\ Undriven \subseteq Word /\ Undriven # {}

States == {"Halted", "PauseIR1", "PauseIR2", "S_18", "S_33_1", "S_33_2", "S_33_3",
           "S_35", "S_32", "S_01", "S_05", "S_09", "S_06", "S_25_1", "S_25_2",
           "S_25_3", "S_27", "S_07", "S_23", "S_16", "S_BEN", "S_22", "S_12",
           "S_04", "S_21"}

VARIABLES
    State,                  \* control state
    PC, IR, MAR, MDR,
    BEN, CC,
    R,                      \* register file
    LED, hex_data,
    ram,                    \* the memory,
    latched, q,             \*   its input stage and its output
    loader, address,        \* state and counter of the program loader
    run, cont,              \* the buttons after the synchroniser
    pressed,                \* history: Continue went down since the last pause
    muddled                 \* history: the loader has written under an instruction

cpuVars == <<PC, IR, MAR, MDR, BEN, CC, R>>
vars == <<State, cpuVars, LED, hex_data, ram, latched, q, loader, address, run, cont,
          pressed, muddled>>
-----------------------------------------------------------------------------
(* Control unit: the states that assert each signal. *)
LD_MAR == State \in {"S_18", "S_06", "S_07"}
LD_MDR == State \in {"S_33_3", "S_25_3", "S_23"}
LD_IR  == State = "S_35"
(* Fault: the branch condition is latched a state late. *)
LD_BENLate == State = "S_BEN"
LD_BEN == State = "S_32"
LD_CC  == State \in {"S_01", "S_05", "S_09", "S_27"}
LD_REG == State \in {"S_01", "S_05", "S_09", "S_27", "S_04"}
LD_PC  == State \in {"S_18", "S_22", "S_12", "S_21"}
LD_LED == State = "PauseIR1"

GatePC     == State \in {"S_18", "S_04"}
GateMDR    == State \in {"S_35", "S_27"}
(* Fault: S_23 forgets to open the gate. *)
GateALUNoStore == State \in {"S_01", "S_05", "S_09"}
GateALU    == State \in {"S_01", "S_05", "S_09", "S_23"}
GateMARMUX == State \in {"S_06", "S_07"}

Mem_OE == State \in {"S_33_1", "S_33_2", "S_33_3", "S_25_1", "S_25_2", "S_25_3"}
Mem_WE == State = "S_16"

Step(s, t) == State = s /\ State' = t

(* The pause waits for Continue to go down and then to go up. *)
(* Fault: the pause does not wait for the button to go down. *)
AwaitPressUnheld == Step("PauseIR1", "PauseIR2")
AwaitPress ==
    \/ ~cont /\ Step("PauseIR1", "PauseIR1")
    \/ cont /\ Step("PauseIR1", "PauseIR2")

AwaitRelease ==
    \/ cont /\ Step("PauseIR2", "PauseIR2")
    \/ ~cont /\ Step("PauseIR2", "S_18")

(* S_32 selects a state by the opcode. *)
Selects(op, t) == Opcode(IR) = op /\ Step("S_32", t)

(* Fault: no default branch: an unused opcode stays in S_32. *)
NoOperationStays == Step("S_32", "S_32")
NoOperation == Step("S_32", "S_18")

Decode ==
    \/ Selects(1, "S_01") \/ Selects(5, "S_05") \/ Selects(9, "S_09")
    \/ Selects(0, "S_BEN") \/ Selects(12, "S_12") \/ Selects(4, "S_04")
    \/ Selects(6, "S_06") \/ Selects(7, "S_07") \/ Selects(13, "PauseIR1")
    \/ Opcode(IR) \notin {0, 1, 4, 5, 6, 7, 9, 12, 13} /\ NoOperation

Next_state ==
    \/ ~run /\ Step("Halted", "Halted")
    \/ run /\ Step("Halted", "S_18")
    \/ Step("S_18", "S_33_1") \/ Step("S_33_1", "S_33_2") \/ Step("S_33_2", "S_33_3")
    \/ Step("S_33_3", "S_35") \/ Step("S_35", "S_32") \/ Decode
    \/ Step("S_06", "S_25_1") \/ Step("S_25_1", "S_25_2") \/ Step("S_25_2", "S_25_3")
    \/ Step("S_25_3", "S_27")
    \/ Step("S_07", "S_23") \/ Step("S_23", "S_16")
    \/ Step("S_04", "S_21")
    \/ BEN /\ Step("S_BEN", "S_22")
    \/ ~BEN /\ Step("S_BEN", "S_18")
    \/ AwaitPress \/ AwaitRelease
    \/ \E s \in {"S_01", "S_05", "S_09", "S_27", "S_16", "S_22", "S_12", "S_21"} :
          Step(s, "S_18")
-----------------------------------------------------------------------------
(* Data path. *)
SR1_out  == IF State = "S_23" THEN R[DR(IR)] ELSE R[SR1(IR)]        \* SR1MUX
SR2_in   == IF State \in {"S_01", "S_05"} /\ IR_5(IR)               \* SR2MUX
            THEN Imm5(IR) ELSE R[SR2(IR)]
DR_in    == IF State = "S_04" THEN 7 ELSE DR(IR)                    \* DRMUX

ALU ==
    IF State = "S_05" THEN And(SR1_out, SR2_in)                     \* ALUK
    ELSE IF State = "S_09" THEN Not(SR1_out)
    ELSE IF State = "S_23" THEN SR1_out
    ELSE Plus(SR1_out, SR2_in)

ADDR1 == IF State \in {"S_22", "S_21"} THEN PC ELSE SR1_out         \* ADDR1MUX
ADDR2 ==                                                            \* ADDR2MUX
    IF State \in {"S_06", "S_07"} THEN Off6(IR)
    ELSE IF State = "S_22" THEN Off9(IR)
    ELSE IF State = "S_21" THEN Off11(IR)
    ELSE 0
MARMUX == Plus(ADDR1, ADDR2)

PC_in == IF State \in {"S_22", "S_12", "S_21"} THEN MARMUX ELSE Plus(PC, 1)   \* PCMUX

(* The bus: the first gate that is open drives it. *)
BUS_out ==
    IF GatePC THEN {PC}
    ELSE IF GateMDR THEN {MDR}
    ELSE IF GateALU THEN {ALU}
    ELSE IF GateMARMUX THEN {MARMUX}
    ELSE Undriven

(* Memory interface: the switches are read at the last address. *)
Data_to_CPU ==
    IF Mem_WE \/ ~Mem_OE THEN {0}
    ELSE IF MAR = IOWord THEN Settings
    ELSE {q}

Loaded(load, value, old) == IF load THEN value ELSE old

(* The registers at an edge without reset: bus and mdr_in are what the bus *)
(* and the memory interface carry.                                         *)
Execute(bus, mdr_in) ==
    /\ Next_state
    /\ PC' = Loaded(LD_PC, PC_in, PC)
    /\ IR' = Loaded(LD_IR, bus, IR)
    /\ MAR' = Loaded(LD_MAR, bus, MAR)
    /\ MDR' = Loaded(LD_MDR, IF Mem_OE THEN mdr_in ELSE bus, MDR)
    /\ BEN' = Loaded(LD_BEN, newBEN(IR, CC), BEN)
    /\ CC' = Loaded(LD_CC, NZP(bus), CC)
    /\ R' = IF LD_REG THEN [R EXCEPT ![DR_in] = bus] ELSE R
    /\ hex_data' = Loaded(Mem_WE /\ MAR = IOWord, MDR, hex_data)

ClearRegisters ==
    /\ State' = "Halted"
    /\ PC' = 0 /\ IR' = 0 /\ MAR' = 0 /\ MDR' = 0
    /\ BEN' = FALSE /\ CC' = 0
    /\ R' = [r \in RegNames |-> 0]
    /\ hex_data' = 0

Reset_ah == run /\ cont

Processor ==
    /\ IF Reset_ah
       THEN ClearRegisters
       ELSE \E bus \in BUS_out, mdr_in \in Data_to_CPU : Execute(bus, mdr_in)
    /\ LED' = Loaded(LD_LED, IR % 1024, 0)
-----------------------------------------------------------------------------
(* The loader takes address, data and write enable of the RAM while it     *)
(* writes.                                                                 *)
we_select == loader = "mem_write"

(* Fault: a store of the processor keeps the loader from the RAM. *)
RamAddressOfStore == (IF we_select /\ ~Mem_WE THEN address ELSE MAR) % RamSize

RamAddress == (IF we_select THEN address ELSE MAR) % RamSize
RamData    == IF we_select THEN Program[address] ELSE MDR
RamWrite   == we_select \/ Mem_WE

(* The RAM is a megafunction: the address is latched with the clock and    *)
(* the word comes out an edge later.                                       *)
Memory ==
    /\ ram' = IF RamWrite THEN [ram EXCEPT ![RamAddress] = RamData] ELSE ram
    /\ latched' = IF Mem_OE THEN ram[RamAddress] ELSE latched
    /\ q' = latched

LastAddress == CHOOSE a \in DOMAIN Program : a + 1 \notin DOMAIN Program

(* A reset takes effect on the loader at once and for as long as it lasts. *)
Loader ==
    IF (run' /\ cont') \/ Reset_ah
    THEN loader' = "mem_write" /\ address' = 0
    ELSE IF we_select
    THEN /\ loader' = IF address = LastAddress THEN "done" ELSE "mem_write"
         /\ address' = address + 1
    ELSE loader' = "idle" /\ UNCHANGED address

(* Any button may go up or down at any edge. *)
Buttons == run' \in BOOLEAN /\ cont' \in BOOLEAN

(* Where the programmer is between two instructions. *)
Between == State \in {"Halted", "S_18", "PauseIR1", "PauseIR2"}

(* Nothing keeps the processor from running while the loader has the RAM:  *)
(* its reads go to the loader's address and its stores are lost.  History: *)
(* that happened to the instruction that is under way.                     *)
Watch ==
    /\ pressed' = \/ ~cont /\ cont'
                  \/ pressed /\ ~Reset_ah /\ State # "PauseIR2"
                  \/ pressed /\ ~Reset_ah /\ cont
    /\ muddled' = /\ ~Reset_ah /\ State' # "Halted"
                  /\ we_select \/ (muddled /\ ~Between)

Clock ==
    /\ Buttons
    /\ Processor
    /\ Memory
    /\ Loader
    /\ Watch

Init ==
    /\ State = "Halted"
    /\ PC = 0 /\ IR = 0 /\ MAR = 0 /\ MDR = 0
    /\ BEN = FALSE /\ CC = 0
    /\ R = [r \in RegNames |-> 0]
    /\ LED = 0 /\ hex_data = 0
    /\ ram = PowerUpRam /\ latched = 0 /\ q = 0
    /\ loader = "idle" /\ address = 0
    /\ run = FALSE /\ cont = FALSE
    /\ pressed = FALSE /\ muddled = FALSE

Next == Clock

Spec == Init /\ [][Next]_vars /\ WF_vars(Next)
-----------------------------------------------------------------------------
(* The registers hold what they are made for. *)
TypeOK ==
    /\ State \in States
    /\ {PC, IR, MAR, MDR, hex_data, latched, q} \subseteq Word
    /\ BEN \in BOOLEAN /\ CC \in CCs
    /\ R \in [RegNames -> Word]
    /\ LED < 1024 /\ LED \in Nat
    /\ ram \in [0 .. RamSize - 1 -> Word]
    /\ loader \in {"idle", "mem_write", "done"}
    /\ address \in Nat
    /\ loader = "mem_write" => address \in DOMAIN Program
    /\ {run, cont, pressed, muddled} \subseteq BOOLEAN

(* ISDU.sv:208-337 with BUS.sv: no two gates are open at once, and a       *)
(* register that loads from the bus does so in a state that drives it.     *)
Gates == {g \in {"PC", "MDR", "ALU", "MARMUX"} :
             \/ g = "PC" /\ GatePC
             \/ g = "MDR" /\ GateMDR
             \/ g = "ALU" /\ GateALU
             \/ g = "MARMUX" /\ GateMARMUX}

BusDriven ==
    /\ \A g, h \in Gates : g = h
    /\ (LD_MAR \/ LD_IR \/ LD_CC \/ LD_REG \/ (LD_MDR /\ ~Mem_OE)) => Gates # {}

(* ISDU.sv:141-149: a pause ends only after Continue has gone down and up  *)
(* since the last one; a button held over two pauses ends only the first.  *)
PauseTakesAPress == [][State = "PauseIR2" /\ State' = "S_18" => pressed]_vars

(* Instantiateram.sv:31-88: when the loader is done, the whole program is  *)
(* in the RAM, whatever was pressed before and however often.              *)
LoadIsComplete ==
    [][loader = "mem_write" /\ loader' = "done" =>
          \A a \in DOMAIN Program : ram'[a] = Program[a]]_vars

(* ISDU.sv:122-205: an instruction comes to its end; no state waits for    *)
(* something that does not happen.                                         *)
AtRest == State \in {"Halted", "S_18", "PauseIR1"}
InstructionsEnd == ~AtRest /\ State # "PauseIR2" ~> AtRest
-----------------------------------------------------------------------------
(* What a programmer sees of it.  PC runs ahead of the instruction from    *)
(* the end of S_18 until the instruction takes effect; S_21 is to make     *)
(* the jump that belongs to the link which S_04 has written.               *)
Ahead == State \notin {"Halted", "PauseIR1", "PauseIR2", "S_18", "S_21"}

SeenPC == IF Ahead THEN (PC + 65535) % 65536
          ELSE IF State = "S_21" THEN Plus(PC, Off11(IR))
          ELSE PC

SeenMode == IF State = "Halted" THEN "halted"
            ELSE IF State \in {"PauseIR1", "PauseIR2"} THEN "paused"
            ELSE "run"

Seen == INSTANCE Slc3Isa WITH pc <- SeenPC, regs <- R, cc <- CC, mem <- ram,
                              hex <- hex_data, mode <- SeenMode

(* ISDU.sv and datapath.sv: the microstates of each instruction, with the  *)
(* waits for the memory, the reset and the loader, do together what the    *)
(* instruction set says.  The one exception is an instruction under which  *)
(* the loader writes (slc3_sramtop.sv:50): nothing is said of its edges;   *)
(* the next instruction, and any reset, are right again.                   *)
ImplementsIsa == Seen!IsaInit /\ [][muddled' \/ Seen!IsaNext]_(Seen!isaVars)
=============================================================================
