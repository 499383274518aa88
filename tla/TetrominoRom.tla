---------------------------- MODULE TetrominoRom ----------------------------
(***************************************************************************)
(* The shape table of the Tetris engine: tetromino_rom.sv holds, for each  *)
(* of 8 piece types and 4 orientations, four 4-bit rows.  A row is the set *)
(* of its bit positions, so that bit b of row r of a piece at (x, y) lies  *)
(* over bit x + b of board row y + r.  Type 7 repeats type 0, so that any  *)
(* 3-bit random number names a piece.                                      *)
(***************************************************************************)
EXTENDS Integers, FiniteSets

PieceTypes == 0..7
Orientations == 0..3

(* The ROM: one line per type, one 4-tuple of rows per orientation. *)
ROM == <<
  <<<<{}, {}, {0, 1, 2, 3}, {}>>,
    <<{1}, {1}, {1}, {1}>>,
    <<{}, {}, {0, 1, 2, 3}, {}>>,
    <<{1}, {1}, {1}, {1}>>>>,
  <<<<{}, {3}, {1, 2, 3}, {}>>,
    <<{2, 3}, {3}, {3}, {}>>,
    <<{}, {1, 2, 3}, {1}, {}>>,
    <<{2}, {2}, {2, 3}, {}>>>>,
  <<<<{}, {1}, {1, 2, 3}, {}>>,
    <<{2}, {2}, {1, 2}, {}>>,
    <<{}, {1, 2, 3}, {3}, {}>>,
    <<{1, 2}, {1}, {1}, {}>>>>,
  <<<<{}, {1, 2}, {1, 2}, {}>>,
    <<{}, {1, 2}, {1, 2}, {}>>,
    <<{}, {1, 2}, {1, 2}, {}>>,
    <<{}, {1, 2}, {1, 2}, {}>>>>,
  <<<<{}, {1, 2}, {2, 3}, {}>>,
    <<{}, {2}, {1, 2}, {1}>>,
    <<{}, {1, 2}, {2, 3}, {}>>,
    <<{}, {2}, {1, 2}, {1}>>>>,
  <<<<{}, {2}, {1, 2, 3}, {}>>,
    <<{}, {2}, {1, 2}, {2}>>,
    <<{}, {1, 2, 3}, {2}, {}>>,
    <<{}, {2}, {2, 3}, {2}>>>>,
  <<<<{}, {2, 3}, {1, 2}, {}>>,
    <<{}, {1}, {1, 2}, {2}>>,
    <<{}, {2, 3}, {1, 2}, {}>>,
    <<{}, {1}, {1, 2}, {2}>>>>,
  <<<<{}, {}, {0, 1, 2, 3}, {}>>,
    <<{1}, {1}, {1}, {1}>>,
    <<{}, {}, {0, 1, 2, 3}, {}>>,
    <<{1}, {1}, {1}, {1}>>>>
>>

(* Row r of a piece, addressed by type, orientation and row number. *)
PieceRow(t, o, r) == ROM[t + 1][o + 1][r + 1]

(* The cells of a piece relative to its 4 x 4 window, as <<row, bit>>. *)
Cells(t, o) == {c \in (0..3) \X (0..3) : c[2] \in PieceRow(t, o, c[1])}

Adjacent(c, d) ==
  \/ c[1] = d[1] /\ c[2] \in {d[2] - 1, d[2] + 1}
  \/ c[2] = d[2] /\ c[1] \in {d[1] - 1, d[1] + 1}

(* What the engine relies on in the table: a piece has four cells that     *)
(* hang together, and turning it leaves some cell where it was.            *)
ASSUME ShapeAssumption ==
  \A t \in PieceTypes, o \in Orientations :
    /\ Cardinality(Cells(t, o)) = 4
    /\ \A part \in SUBSET Cells(t, o) :
         part \notin {{}, Cells(t, o)} =>
           \E c \in part, d \in Cells(t, o) \ part : Adjacent(c, d)
    /\ \A p \in Orientations : Cells(t, o) \cap Cells(t, p) # {}
=============================================================================
