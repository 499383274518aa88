---------------------------- MODULE Slc3Programs ----------------------------
(***************************************************************************)
(* The test programs of the repository on the instruction set, once the    *)
(* loader is done.  Slc3 implements the instruction set, so what holds     *)
(* here holds of the processor.                                            *)
(***************************************************************************)
EXTENDS Slc3Isa, Slc3Assembler, FiniteSets

CONSTANT
    Chosen(_, _)  \* the switch settings a user picks for the read at an
                  \* address, with this number on the display

VARIABLE given    \* history: the data that the sort was called with

progVars == <<isaVars, given>>
DataAddresses == 74 .. 89

(* The instruction at pc, and whether it reads the switches. *)
Current == mem[pc % RamSize]
ReadsSwitches == mode = "run" /\ Opcode(Current) = 6 /\ BaseAddress(Current) = IOWord

ProgramInit ==
    /\ pc = 0
    /\ regs = [r \in RegNames |-> 0]
    /\ cc = 0
    /\ hex = 0
    /\ mode = "halted"
    /\ mem = Program
    /\ given = [a \in DataAddresses |-> mem[a]]

Guided == ReadsSwitches => regs'[DR(Current)] \in Chosen(pc, hex)

(* The sort begins at 119. *)
Noted == given' = IF pc = 119 THEN [a \in DataAddresses |-> mem[a]] ELSE given

ProgramNext ==
    \/ Instruction /\ Guided /\ Noted
    \/ (Start \/ Resume) /\ UNCHANGED given

ProgramSpec == ProgramInit /\ [][ProgramNext]_progVars
-----------------------------------------------------------------------------
PausedAt(a) == mode = "paused" /\ pc = a + 1

Powers == {1, 2, 4, 8, 16, 32, 64, 128, 256, 512, 1024, 2048, 4096, 8192, 16384, 32768}

Signed8(b) == IF b >= 128 THEN b - 256 ELSE b

(* memory_contents.sv:60-75, 91-115: at its last checkpoint the XOR test  *)
(* shows the exclusive or of its two inputs, and the multiplier the first  *)
(* operand, a signed byte, times the second.  The loop has shifted the     *)
(* first operand into the upper byte of R1 by then.                        *)
ResultsShown ==
    /\ PausedAt(34) => \A w \in Powers : Bit(hex, w) = (Bit(regs[1], w) + Bit(regs[2], w)) % 2
    /\ PausedAt(71) => hex = (Signed8(regs[1] \div 256) * regs[2]) % 65536

(* How often a value is among the data. *)
Count(d, v) == Cardinality({a \in DataAddresses : d[a] = v})

(* memory_contents.sv:162-179: when the sort returns, the data are in      *)
(* order, and each value is among them as often as when it was called,     *)
(* also if the user has entered data of their own.                         *)
SortReturnsSorted ==
    (mode = "run" /\ pc = 136) =>
        /\ \A i, j \in DataAddresses : i < j => mem[i] <= mem[j]
        /\ \A v \in {given[a] : a \in DataAddresses} : Count(mem, v) = Count(given, v)

(* memory_contents.sv:180-197: what the display function shows at its      *)
(* checkpoint is the datum that its counter names, and the checkpoint's    *)
(* own number counts along, which the function writes into the instruction.*)
DisplayShowsDatum ==
    PausedAt(148) =>
        /\ hex = mem[74 + regs[1]]
        /\ regs[1] > 0 => mem[148] = mem[155] + 16 * regs[1]
=============================================================================
