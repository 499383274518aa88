------------------------------- MODULE MCLabs -------------------------------
(***************************************************************************)
(* The circuits of the labs for TLC.  They are boards of their own and     *)
(* share nothing: a behaviour picks one and runs it, the others rest.      *)
(***************************************************************************)
EXTENDS Multiplier, Accumulator, Video, TextMode

CONSTANTS
    SerSwitches, Functions, Routes,
    RamSize, Settings, Program, Chosen(_, _), Operands, Starts

VARIABLES
    circuit,
    serState, serA, serB, F, R, operands,
    q,
    pc, regs, cc, mem, hex, mode, given

Ser == INSTANCE SerialProcessor WITH curr_state <- serState, A <- serA, B <- serB,
                                     Switches <- SerSwitches
Rnd == INSTANCE Lfsr
Asm == INSTANCE Slc3Assembler
Prg == INSTANCE Slc3Programs

TestPrograms == Asm!TestPrograms

ASSUME SettingsFit ==
    /\ AccSwitches \subseteq {w \in Nat : w < 65536}
    /\ SerSwitches \subseteq 0 .. 255
    /\ Functions \subseteq 0 .. 7 /\ Routes \subseteq 0 .. 3
    /\ Settings \subseteq {w \in Nat : w < 1024}

\* A RAM of the size that the programs of the loader fill (the board's is
\* four times as large).
ASSUME ProgramsLoaded == RamSize = 256 /\ Program = TestPrograms

LastWord == 65535

\* The user starts the documented programs, save the third input test, which
\* counts its pause instruction up until it is another one.
ASSUME ChosenFit ==
    \A a \in {1, 257}, h \in 0 .. LastWord : Chosen(a, h) \subseteq {3, 6, 20, 42, 49, 90, 156, 173}

\* A different colour for each number.
Colors == [c \in 0 .. 3 |-> 10 + c]

\* Some of the data are there more than once; one is either of two.
Entered == << 1023, 5, 255, 5, 0, 128, 1023, 90, 1, 3, 127, 5, 2, 173, 6, 49 >>

\* At 1 the switches choose the program, at 95 what the menu does, at 112 the
\* datum whose number is displayed.
ChosenAt(a, h) ==
    IF a % RamSize = 1 THEN Starts
    ELSE IF a = 95 THEN {1, 2, 3}
    ELSE IF a # 112 THEN Operands
    ELSE IF h = 7 THEN {0, 1023} ELSE {Entered[h + 1]}

Circuits == {"multiplier", "accumulator", "serial", "video", "text", "random", "programs"}

serVars == <<serState, serA, serB, F, R, operands>>
progVars == <<pc, regs, cc, mem, hex, mode, given>>
vars == <<circuit, mulVars, accVars, serVars, videoVars, txtVars, q, progVars>>

\* A circuit that rests starts in one of its initial states only.
LabsInit ==
    /\ circuit \in Circuits
    /\ MulInit /\ AccInit /\ Ser!SerInit /\ VideoInit /\ TxtInit
    /\ Rnd!Init /\ Prg!ProgramInit
    /\ circuit # "multiplier" => Din = CHOOSE d \in Switches : TRUE
    /\ circuit # "serial" => F = 2 /\ R = 1
    /\ circuit # "text" => palette[0][0] = CHOOSE v \in PowerUp : TRUE

Others(c) ==
    /\ UNCHANGED circuit
    /\ IF c = "multiplier" THEN TRUE ELSE UNCHANGED mulVars
    /\ IF c = "accumulator" THEN TRUE ELSE UNCHANGED accVars
    /\ IF c = "serial" THEN TRUE ELSE UNCHANGED serVars
    /\ IF c = "video" THEN TRUE ELSE UNCHANGED videoVars
    /\ IF c = "text" THEN TRUE ELSE UNCHANGED txtVars
    /\ IF c = "random" THEN TRUE ELSE UNCHANGED q
    /\ IF c = "programs" THEN TRUE ELSE UNCHANGED progVars

Running(c) == circuit = c /\ Others(c)

LabsNext ==
    \/ Running("multiplier") /\ MulNext
    \/ Running("accumulator") /\ AccNext
    \/ Running("serial") /\ Ser!SerNext
    \/ Running("video") /\ VideoNext
    \/ Running("text") /\ TxtNext
    \/ Running("random") /\ Rnd!Next
    \/ Running("programs") /\ Prg!ProgramNext

LabsSpec == LabsInit /\ [][LabsNext]_vars
            /\ WF_vars(Running("random") /\ Rnd!Shift)
-----------------------------------------------------------------------------
\* The properties of the circuits, where TLC can find them.
TypesOK == /\ MulTypeOK /\ AccTypeOK /\ Ser!SerTypeOK
           /\ VideoTypeOK /\ TxtTypeOK
WordsDone == Ser!WordsDone
EveryTypeComesUp == circuit = "random" => Rnd!EveryTypeComesUp
ResultsShown == Prg!ResultsShown
SortReturnsSorted == Prg!SortReturnsSorted
DisplayShowsDatum == Prg!DisplayShowsDatum
=============================================================================
