----------------------------- MODULE MCSlc3Cpu ------------------------------
(* The processor for TLC: a RAM of sixteen words and a program that uses   *)
(* every instruction, among them a jump to the switches' address.          *)
EXTENDS Slc3, Slc3Assembler

SmallProgram ==
    LET words == << opLDR(1, 0, -1), opBR(z, 2), opADDi(2, 1, -4), opSTR(2, 0, -1),
                    opNOT(3, 1), opAND(4, 3, 2), 61440, opPSE(1),
                    opJSR(1), 0, opNOT(5, 5), opSTR(5, 7, 5),
                    opLDR(6, 7, 5), opJMP(3) >>
    IN  [a \in 0 .. Len(words) - 1 |-> words[a + 1]]

\* Before the first load every word is a jump to address 0.
Jumps == [a \in 0 .. 15 |-> opJMP(0)]
=============================================================================
