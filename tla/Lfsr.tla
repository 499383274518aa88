-------------------------------- MODULE Lfsr --------------------------------
(***************************************************************************)
(* The random number generator of the Tetris engine: an 8-bit linear       *)
(* feedback shift register, clocked on every video frame and never         *)
(* disabled (LFSR.sv, instantiated as rando in ball.sv).  Its three lowest *)
(* bits name the type of the next piece.                                   *)
(***************************************************************************)
EXTENDS Integers, TetrominoRom

VARIABLE q

Bit(n, b) == (n \div 2^b) % 2

(* The next register value, shifted left with the parity of taps shifted in. *)
ShiftIn(n, bits) == ((2 * n) % 256) + (bits % 2)

(* Fault: only the highest bit is fed back. *)
FeedbackOnlyTop(n) == Bit(n, 7)

Feedback(n) == Bit(n, 7) + Bit(n, 5) + Bit(n, 4) + Bit(n, 3)

Init  == q = 1
Shift == q' = ShiftIn(q, Feedback(q))
Reset == q' = 1
Next  == Shift \/ Reset
Spec  == Init /\ [][Next]_q /\ WF_q(Shift)

(* The type of a piece drawn now (ball.sv:300). *)
Drawn == q % 8

(* Without resets every type can be drawn again and again: the register    *)
(* does not fall into a cycle that leaves a type out, as the zero state does.   *)
EveryTypeComesUp ==
  []<><<Reset /\ ~Shift>>_q \/ \A t \in PieceTypes : []<>(Drawn = t)
=============================================================================
