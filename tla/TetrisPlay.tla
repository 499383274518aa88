----------------------------- MODULE TetrisPlay -----------------------------
(***************************************************************************)
(* The engine of module Tetris with history variables, and its properties. *)
(*                                                                         *)
(* ball.sv tests a move, a turn or a new piece in one frame and applies it *)
(* in a later one, and applies some changes without any test.  So the      *)
(* falling piece can come to overlap the board.  The history variables     *)
(* record whether that could have happened yet:                            *)
(*   moveFresh  the pending motion was tested against the present piece    *)
(*              and board,                                                 *)
(*   turnFresh  the same for the pending orientation,                      *)
(*   intact     every change of piece or board since the reset was applied *)
(*              as it was tested, or is one that the code never tests and  *)
(*              did no harm, and the game goes on.                         *)
(* The properties then say that the tests the code makes are the right     *)
(* ones, made again while a key is held, and that what a new game inherits *)
(* is harmless: while the game is intact, nothing is overlapped or broken, *)
(* and no block is lost but those of a piece that a clear overwrites as it *)
(* lands.  A move or turn tested in a frame before the piece falls and     *)
(* applied in the fall or after it ends intact play, overlap or not: the   *)
(* code does nothing against it.                                           *)
(***************************************************************************)
EXTENDS Tetris

VARIABLES moveFresh, turnFresh, intact

history  == <<moveFresh, turnFresh, intact>>
playVars == <<vars, history>>

FieldCells == (0..(Depth - 1)) \X Field

(* The piece lies inside the walls and above the floor, over empty cells. *)
PieceFree == \A c \in Piece : c \in FieldCells /\ ~Occupied(c)

PendingMove == Block_X_Motion # 0 \/ Block_Y_Motion # 0
PendingTurn == neworientation # orientation
PendingType == newtype # blockType

(* This frame applies what is pending just as it was tested: one change at *)
(* a time, tested against what is still there, and with no gravity step in *)
(* the same frame unless that overrides the move.  A type is never tested. *)
AppliesTested ==
  /\ PendingMove => /\ ~PendingTurn /\ ~PendingType
                    /\ IF move THEN Block_X_Motion = 0 ELSE moveFresh
  /\ PendingTurn => turnFresh /\ ~PendingType /\ ~move

(* The first frame of a game applies whatever the game before left pending, *)
(* as the reset clears none of it: a motion, a turn and a type at once.     *)
FirstFrame ==
  gameboard = EmptyBoard /\ xpos = SpawnX /\ ypos = 0 /\ counter = 0

(* This frame changes the piece or the board in a way the code never tests: *)
(* a new type, a new piece, or rows moving down under the piece.            *)
Untested(test) ==
  (~pressed /\ PendingType /\ ~FirstFrame) \/ Lands(test) \/ FullRows # {}

PlayFrame(k) ==
  \E test \in Tests :
    /\ Edge(k, test)
    /\ LET still == UNCHANGED <<gameboard, xpos, ypos, orientation, blockType>>
       IN  /\ moveFresh' = (still /\ (moveFresh \/ k \in MoveKeys))
           /\ turnFresh' = (still /\ (turnFresh
                                      \/ (k \in RotateKeys /\ ~test.rotate)))
    /\ intact' = (/\ intact
                  /\ ~Ends(test)
                  /\ ~pressed /\ ~Lands(test) => AppliesTested \/ FirstFrame
                  /\ Untested(test) => PieceFree')

PlayReset ==
  /\ Reset
  /\ moveFresh' = FALSE /\ turnFresh' = FALSE
  /\ intact' = TRUE

PlayInit ==
  /\ Init
  /\ moveFresh = FALSE /\ turnFresh = FALSE
  /\ intact = TRUE

PlayStep == \E k \in Keys : PlayFrame(k)
PlayNext == PlayStep \/ PlayReset
PlaySpec == PlayInit /\ [][PlayNext]_playVars
FairPlaySpec == PlaySpec /\ WF_playVars(PlayStep)

(***************************************************************************)
(* Properties.                                                             *)
(***************************************************************************)

TypeOK ==
  /\ gameboard \in Boards
  /\ xpos \in 0..(XMod - 1) /\ ypos \in 0..(YMod - 1)
  /\ orientation \in Orientations
  /\ neworientation \in Orientations /\ midorientation \in Orientations
  /\ blockType \in PieceTypes /\ newtype \in PieceTypes
  /\ Block_X_Motion \in -1..1 /\ Block_Y_Motion \in 0..1
  /\ pressed \in BOOLEAN
  /\ counter \in Nat /\ score \in 0..(ScoreMod - 1)
  /\ moveFresh \in BOOLEAN /\ turnFresh \in BOOLEAN /\ intact \in BOOLEAN

(* The collision tests are the right ones, and are made again in every     *)
(* frame that a key is held while the piece falls: as long as every change *)
(* was applied as it was tested, the falling piece is inside the walls,    *)
(* above the floor and over empty cells.  That includes the first frame of *)
(* a game, which applies what the game before left pending.                *)
NoOverlapWhileIntact == intact => PieceFree

(* Walls and floor stand: landed pieces and row clears touch only the      *)
(* inside of the field, although both rewrite whole slices of rows.        *)
WallsStandWhileIntact ==
  intact => \A r \in Rows : gameboard[r] \ Field = EmptyBoard[r] \ Field
                            /\ (r >= Depth => gameboard[r] = EmptyBoard[r])

Blocks == {c \in FieldCells : Occupied(c)}

(* What a landing adds to the board: the piece, but when a row is cleared  *)
(* in the same frame only what lies below that row.  The rows above are    *)
(* copied down as they were before the landing, and the clear comes last.  *)
Added(test) ==
  IF ~Lands(test) THEN {}
  ELSE IF FullRows = {} THEN Piece
  ELSE {c \in Piece : c[1] > Max(FullRows)}

(* No block is invented, and none is lost but those of a piece that lands  *)
(* above a row that is cleared in the same frame: a landed piece adds its  *)
(* blocks, a cleared row takes exactly one row of them, and nothing else   *)
(* changes their number.                                                   *)
BlocksConserved ==
  [][intact /\ intact' /\ ~PlayReset =>
       \E test \in Tests :
         Cardinality(Blocks') =
           Cardinality(Blocks)
           + Cardinality(Added(test))
           - (IF FullRows # {} THEN Cardinality(Field) ELSE 0)]_playVars

(* Every frame that finds full rows clears one of them, in lost games too: *)
(* down to the lowest one there are fewer in the next frame, whatever      *)
(* gravity does, and only a landing can fill another below it.  So several *)
(* rows completed by one piece are all gone a few frames later.            *)
ClearDrains ==
  [][FullRows # {} =>
       LET left == {r \in FullRows' : r <= Max(FullRows)}
       IN  /\ Cardinality(left) < Cardinality(FullRows)
           /\ left # FullRows' => \E test \in Tests : Lands(test)]_playVars

(* The END picture stays until the reset: whatever the parked piece does,  *)
(* and whatever undefined bits its tests read, it cannot start a new game. *)
GameOverIsFinal ==
  [][gameboard = GameOverBoard =>
       gameboard' \in {GameOverBoard, EmptyBoard}]_playVars

(* The piece comes down: whatever keys are pressed or held, an intact game *)
(* goes on landing pieces, because gravity runs on while keys are held.    *)
PiecesLand ==
  []<>(~intact) \/ []<><<PlayReset \/ \E test \in Tests : Land(test)>>_playVars
=============================================================================
