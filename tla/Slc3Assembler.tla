---------------------------- MODULE Slc3Assembler ---------------------------
(***************************************************************************)
(* The instruction builders of src/ECE385_5 (wpsass2, pw16)/SLC3_2.sv and  *)
(* the test programs the loader writes into the RAM, Instantiateram.sv.    *)
(***************************************************************************)
EXTENDS Integers, Sequences

p == 1
nz == 6
z == 2
np == 5
n == 4
nzp == 7

Word4(op, a, b, low) == op * 4096 + a * 512 + b * 64 + low

opAND(dr, sr1, sr2)   == Word4(5, dr, sr1, sr2)
opADD(dr, sr1, sr2)   == Word4(1, dr, sr1, sr2)
opADDi(dr, sr, imm5)  == Word4(1, dr, sr, 32 + (imm5 % 32))
opCLR(dr)             == Word4(5, dr, dr, 32)
opINC(dr)             == opADDi(dr, dr, 1)
opDEC(dr)             == opADDi(dr, dr, -1)
opNOT(dr, sr)         == Word4(9, dr, sr, 1)
opBR(cond, offset9)   == Word4(0, cond, 0, offset9 % 512)
opJMP(base)           == Word4(12, 0, base, 0)
opRET                 == opJMP(7)
opJSR(offset11)       == 4 * 4096 + 2048 + (offset11 % 2048)
opLDR(dr, base, off6) == Word4(6, dr, base, off6 % 64)
opSTR(sr, base, off6) == Word4(7, sr, base, off6 % 64)
opPSE(ledVect12)      == 13 * 4096 + ledVect12
-----------------------------------------------------------------------------
(* Read the switches and jump there: the programs start at 3, 6, 11, 20,   *)
(* 42, 49, 90 and 156.                                                     *)
Boot == << opCLR(0), opLDR(1, 0, -1), opJMP(1) >>

IOTest1 == << opLDR(1, 0, -1), opSTR(1, 0, -1), opBR(nzp, -3) >>

IOTest2 == << opPSE(2049), opLDR(1, 0, -1), opSTR(1, 0, -1), opPSE(3074), opBR(nzp, -4) >>

(* Counts up the number in its own pause instruction. *)
IOTest3 ==
    << opPSE(2049), opJSR(0), opLDR(2, 7, 3), opLDR(1, 0, -1), opSTR(1, 0, -1),
       opPSE(3074), opINC(2), opSTR(2, 7, 3), opBR(nzp, -6) >>

XorTest ==
    << opCLR(0), opPSE(2049), opLDR(1, 0, -1), opPSE(2050), opLDR(2, 0, -1),
       opNOT(3, 1), opAND(3, 3, 2), opNOT(3, 3), opNOT(4, 2), opAND(4, 4, 1),
       opNOT(4, 4), opAND(3, 3, 4), opNOT(3, 3), opSTR(3, 0, -1), opPSE(1029),
       opBR(nzp, -15), 0, 0, 0, 0, 0, 0 >>

RunOnce ==
    << opCLR(0), opCLR(1), opJSR(0), opSTR(1, 0, -1), opPSE(1025), opINC(1), opRET >>

MultiplierTest ==
    << opCLR(0), opJSR(0), opLDR(3, 7, 22), opCLR(4), opCLR(5),
       opPSE(2049), opLDR(1, 0, -1), opPSE(2050), opLDR(2, 0, -1),
       opADD(5, 5, 5), opAND(7, 3, 1), opBR(z, 1), opADD(5, 5, 2),
       opADDi(4, 4, 0), opBR(p, 2), opNOT(5, 5), opINC(5),
       opINC(4), opADD(1, 1, 1), opADDi(7, 4, -8), opBR(n, -12),
       opSTR(5, 0, -1), opPSE(1027), opBR(nzp, -21), 128 >>

SortData == << 239, 27, 1, 140, 219, 250, 71, 70, 31, 13, 184, 3, 107, 78, 248, 7 >>

(* The bubble sort program: a menu of three functions and these.           *)
SortMenu ==
    << opCLR(0), opJSR(0), opADDi(6, 7, -16), opADDi(6, 6, -2),
       opPSE(1023), opLDR(1, 0, -1), opBR(z, -3),
       opDEC(1), opBR(np, 2), opJSR(9), opBR(nzp, -7),
       opDEC(1), opBR(np, 2), opJSR(15), opBR(nzp, -11),
       opDEC(1), opBR(np, -13), opJSR(29), opBR(nzp, -15) >>

EntryFunction ==
    << opCLR(1), opSTR(1, 0, -1), opPSE(3073), opLDR(2, 0, -1), opADD(5, 6, 1),
       opSTR(2, 5, 0), opINC(1), opADDi(3, 1, -16), opBR(n, -8), opRET >>

SortFunction ==
    << opADDi(1, 0, -16), opADDi(2, 0, 1), opADD(3, 6, 2), opLDR(4, 3, -1),
       opLDR(5, 3, 0), opNOT(5, 5), opADDi(5, 5, 1), opADD(5, 4, 5), opBR(nz, 3),
       opLDR(5, 3, 0), opSTR(5, 3, -1), opSTR(4, 3, 0), opINC(2), opADD(3, 1, 2),
       opBR(n, -13), opINC(1), opBR(n, -16), opRET >>

DisplayFunction ==
    << opCLR(1), opADD(4, 7, 0), opJSR(0), opADD(5, 7, 0), opADD(7, 4, 0),
       opLDR(3, 5, 15), opADDi(2, 0, 8), opADD(2, 2, 2), opADD(4, 6, 1),
       opLDR(4, 4, 0), opSTR(4, 0, -1), opPSE(2050), opADD(3, 3, 2), opSTR(3, 5, 8),
       opINC(1), opADDi(4, 1, -16), opBR(n, -9), opRET, opPSE(2050) >>

AutoCount ==
    << opCLR(0), opCLR(1), opCLR(2), opCLR(3), opJSR(0), opLDR(1, 7, 12),
       opLDR(2, 7, 13), opDEC(1), opBR(z, 1), opBR(nzp, -3), opDEC(2), opBR(z, 2),
       opLDR(1, 7, 12), opBR(nzp, -7), opSTR(3, 0, -1), opINC(3), opBR(nzp, -12),
       65535, 5 >>

(* The loader writes 256 words, zero after the programs. *)
TestPrograms ==
    LET words == Boot \o IOTest1 \o IOTest2 \o IOTest3 \o XorTest \o RunOnce
                 \o MultiplierTest \o SortData
                 \o SortMenu \o EntryFunction \o SortFunction \o DisplayFunction
                 \o AutoCount
    IN  [a \in 0 .. 255 |-> IF a < Len(words) THEN words[a + 1] ELSE 0]
=============================================================================
