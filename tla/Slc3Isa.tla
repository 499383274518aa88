------------------------------ MODULE Slc3Isa -------------------------------
(***************************************************************************)
(* The instruction set of the SLC-3: what a programmer sees of the         *)
(* processor of src/ECE385_5.  One step is one instruction.  The           *)
(* processor, Slc3, is shown to implement this module.                     *)
(***************************************************************************)
EXTENDS Slc3Word

CONSTANTS
    RamSize,     (* words of RAM; an address is taken modulo it            *)
    Settings,    (* what the switches may be set to                        *)
    Program      (* the words the loader writes, from address 0            *)

VARIABLES
    pc,      (* address of the next instruction   *)
    regs,    (* R0 .. R7                          *)
    cc,      (* condition codes                   *)
    mem,     (* RAM                               *)
    hex,     (* hex displays                      *)
    mode     (* "halted", "run" or "paused"       *)

isaVars == <<pc, regs, cc, mem, hex, mode>>

(* What reading address a may give: the switches stand at any setting.     *)
ReadAt(a) == IF a = IOWord THEN Settings ELSE {mem[a % RamSize]}
-----------------------------------------------------------------------------
Advance == pc' = Plus(pc, 1)

SetRegister(r, v) == regs' = [regs EXCEPT ![r] = v]

Operate(ir, v) ==
    /\ SetRegister(DR(ir), v)
    /\ cc' = NZP(v)
    /\ Advance
    /\ UNCHANGED <<mem, hex, mode>>

Operand(ir) == IF IR_5(ir) THEN Imm5(ir) ELSE regs[SR2(ir)]
BaseAddress(ir) == Plus(regs[SR1(ir)], Off6(ir))

Add(ir) == Opcode(ir) = 1 /\ Operate(ir, Plus(regs[SR1(ir)], Operand(ir)))
AndOp(ir) == Opcode(ir) = 5 /\ Operate(ir, And(regs[SR1(ir)], Operand(ir)))
NotOp(ir) == Opcode(ir) = 9 /\ Operate(ir, Not(regs[SR1(ir)]))

Ldr(ir) == Opcode(ir) = 6 /\ \E v \in ReadAt(BaseAddress(ir)) : Operate(ir, v)

Str(ir) ==
    LET a == BaseAddress(ir)
        v == regs[DR(ir)]
    IN  /\ Opcode(ir) = 7
        /\ mem' = [mem EXCEPT ![a % RamSize] = v]
        /\ hex' = IF a = IOWord THEN v ELSE hex
        /\ Advance
        /\ UNCHANGED <<regs, cc, mode>>

Br(ir) ==
    /\ Opcode(ir) = 0
    /\ pc' = IF newBEN(ir, cc) THEN Plus(Plus(pc, 1), Off9(ir)) ELSE Plus(pc, 1)
    /\ UNCHANGED <<regs, cc, mem, hex, mode>>

Jmp(ir) ==
    /\ Opcode(ir) = 12
    /\ pc' = regs[SR1(ir)]
    /\ UNCHANGED <<regs, cc, mem, hex, mode>>

(* Fault: the link is not advanced. *)
LinkItself == pc
Link == Plus(pc, 1)

Jsr(ir) ==
    /\ Opcode(ir) = 4
    /\ SetRegister(7, Link)
    /\ pc' = Plus(Plus(pc, 1), Off11(ir))
    /\ UNCHANGED <<cc, mem, hex, mode>>

Pse(ir) ==
    /\ Opcode(ir) = 13
    /\ mode' = "paused"
    /\ Advance
    /\ UNCHANGED <<regs, cc, mem, hex>>

(* Every other code does nothing. *)
Nop(ir) ==
    /\ Opcode(ir) \notin {0, 1, 4, 5, 6, 7, 9, 12, 13}
    /\ Advance
    /\ UNCHANGED <<regs, cc, mem, hex, mode>>

Perform(ir) ==
    \/ Add(ir) \/ AndOp(ir) \/ NotOp(ir) \/ Ldr(ir) \/ Str(ir)
    \/ Br(ir) \/ Jmp(ir) \/ Jsr(ir) \/ Pse(ir) \/ Nop(ir)

Instruction == mode = "run" /\ \E ir \in ReadAt(pc) : Perform(ir)
-----------------------------------------------------------------------------
Start  == mode = "halted" /\ mode' = "run" /\ UNCHANGED <<pc, regs, cc, mem, hex>>
Resume == mode = "paused" /\ mode' = "run" /\ UNCHANGED <<pc, regs, cc, mem, hex>>

(* The loader writes a word of the program. *)
LoadWord == \E a \in DOMAIN Program : mem' = [mem EXCEPT ![a % RamSize] = Program[a]]

Load == mode = "halted" /\ LoadWord /\ UNCHANGED <<pc, regs, cc, hex, mode>>

Reset ==
    /\ pc' = 0
    /\ regs' = [r \in RegNames |-> 0]
    /\ cc' = 0
    /\ hex' = 0
    /\ mode' = "halted"
    /\ mem' = mem \/ LoadWord

IsaInit ==
    /\ pc = 0
    /\ regs = [r \in RegNames |-> 0]
    /\ cc = 0
    /\ hex = 0
    /\ mode = "halted"
    /\ mem \in [0 .. RamSize - 1 -> Word]

IsaNext == Instruction \/ Start \/ Resume \/ Load \/ Reset

IsaSpec == IsaInit /\ [][IsaNext]_isaVars
=============================================================================
