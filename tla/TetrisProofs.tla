---------------------------- MODULE TetrisProofs ----------------------------
(* Theorems about the Tetris engine and about intact play: for every        *)
(* geometry, picture and pace that the assumptions of Tetris admit, and     *)
(* whatever keys are pressed.                                               *)
EXTENDS TetrisPlay, FunctionTheorems, FiniteSetTheorems, NaturalsInduction,
        WellFoundedInduction, TLAPS

(* The board after a reset is a board: the walls lie inside the word. *)
LEMMA EmptyBoardType == EmptyBoard \in Boards
BY GeometryAssumption DEF EmptyBoard, Boards, Rows, Cols

(* Adding a piece to the board writes inside the board only. *)
LEMMA LockedType ==
  ASSUME TypeOK, NEW slices \in LockedSlices
  PROVE  Locked(slices) \in Boards
<1>1. \A r \in 0..3 : slices[r] \in SUBSET Cols
  <2>1. CASE xpos + 3 \in Cols
    <3>1. \A b \in 0..3 : xpos + b \in Cols
      BY <2>1, GeometryAssumption DEF TypeOK, Cols
    <3>2. \A S, T : NibbleSum(S, T) \subseteq 0..3
      BY DEF NibbleSum
    <3> DEFINE sum(r) == NibbleSum({s \in 0..3 : Occupied(<<ypos + r, xpos + s>>)},
                                   PieceRow(blockType, orientation, r))
               columns == [r \in 0..3 |-> {xpos + b : b \in sum(r)}]
    <3>3. slices = columns
      BY <2>1 DEF LockedSlices
    <3>4. ASSUME NEW r \in 0..3 PROVE columns[r] \in SUBSET Cols
      <4> HIDE DEF sum
      <4>1. sum(r) \subseteq 0..3
        BY <3>2 DEF sum
      <4> QED BY <3>1, <4>1
    <3> QED BY <3>3, <3>4
  <2>2. CASE xpos + 3 \notin Cols
    <3>1. slices \in [0..3 -> SUBSET Window]
      BY <2>2 DEF LockedSlices
    <3>2. Window \subseteq Cols
      BY DEF Window
    <3> QED BY <3>1, <3>2
  <2> QED BY <2>1, <2>2
<1>2. \A r \in Rows : gameboard[r] \in SUBSET Cols
  BY DEF TypeOK, Boards
<1> QED BY <1>1, <1>2 DEF Locked, Boards

(* A row clear keeps the board a board, and the score stays in its register. *)
LEMMA SettleType ==
  ASSUME TypeOK, NEW written \in Boards, NEW points \in Nat,
         Settle(written, points)
  PROVE  gameboard' \in Boards /\ score' \in 0..(ScoreMod - 1)
<1>1. Collapsed(written) \in Boards
  <2>1. \A r \in Rows : r # 0 => r - 1 \in Rows
    BY GeometryAssumption DEF Rows
  <2>2. \A r \in Rows : written[r] \in SUBSET Cols /\ gameboard[r] \in SUBSET Cols
    BY DEF TypeOK, Boards
  <2> QED BY <2>1, <2>2 DEF Collapsed, Boards
<1>2. \A p \in Nat : (score + p) % ScoreMod \in 0..(ScoreMod - 1)
  BY RateAssumption DEF TypeOK
<1> QED BY <1>1, <1>2, RateAssumption DEF Settle

(* The key decoder keeps its registers in range. *)
LEMMA DecodeType ==
  ASSUME TypeOK, NEW k \in Keys, NEW test, DecodeKey(k, test),
         test.left \in BOOLEAN, test.right \in BOOLEAN, test.down \in BOOLEAN
  PROVE  /\ Block_X_Motion' \in -1..1 /\ Block_Y_Motion' \in 0..1
         /\ neworientation' \in Orientations /\ midorientation' \in Orientations
         /\ pressed' \in BOOLEAN
<1>1. Block_X_Motion' \in -1..1 /\ Block_Y_Motion' \in 0..1
  <2>1. CASE pressed /\ k \in MoveKeys
    BY <2>1 DEF DecodeKey, LatchMotion, MotionOf, MoveKeys
  <2>2. CASE ~(pressed /\ k \in MoveKeys)
    BY <2>2 DEF DecodeKey, LatchMotion, TypeOK
  <2> QED BY <2>1, <2>2
<1>2. midorientation' \in Orientations /\ neworientation' \in Orientations
  BY DEF DecodeKey, LatchRotation, TypeOK, Orientations
<1>3. pressed' \in BOOLEAN
  <2>1. CASE k \in MoveKeys
    BY <2>1 DEF DecodeKey, LatchPressed, Blocked, MoveKeys, TypeOK
  <2>2. CASE k \notin MoveKeys
    BY <2>2 DEF DecodeKey, LatchPressed
  <2> QED BY <2>1, <2>2
<1> QED BY <1>1, <1>2, <1>3

(* The values on the test wires are bits. *)
LEMMA TestBits ==
  ASSUME NEW test \in Tests
  PROVE  /\ test.left \in BOOLEAN /\ test.right \in BOOLEAN
         /\ test.down \in BOOLEAN /\ test.rotate \in BOOLEAN
         /\ test.end \in BOOLEAN
<1>1. \A cells : Test(cells) \subseteq BOOLEAN
  BY DEF Test
<1> QED BY <1>1 DEF Tests

(* One clock edge keeps every register in range. *)
LEMMA EdgeType ==
  ASSUME TypeOK, NEW k \in Keys, NEW test \in Tests, Edge(k, test),
         moveFresh' \in BOOLEAN, turnFresh' \in BOOLEAN, intact' \in BOOLEAN
  PROVE  TypeOK'
<1>1. /\ Block_X_Motion' \in -1..1 /\ Block_Y_Motion' \in 0..1
      /\ neworientation' \in Orientations /\ midorientation' \in Orientations
      /\ pressed' \in BOOLEAN
  BY DecodeType, TestBits DEF Edge
<1>2. orientation' \in Orientations /\ blockType' \in PieceTypes
  BY DEF Edge, AdoptShape, TypeOK
<1>3. /\ Moved(xpos, Block_X_Motion, XMod) \in 0..(XMod - 1)
      /\ Moved(ypos, Block_Y_Motion, YMod) \in 0..(YMod - 1)
      /\ (ypos + 1) % YMod \in 0..(YMod - 1)
  BY GeometryAssumption DEF Moved, TypeOK
<1>4. counter + speed \in Nat
  BY RateAssumption DEF speed, TypeOK
<1>5. /\ gameboard' \in Boards /\ score' \in 0..(ScoreMod - 1)
      /\ xpos' \in 0..(XMod - 1) /\ ypos' \in 0..(YMod - 1)
      /\ newtype' \in PieceTypes /\ counter' \in Nat
  <2>0. gameboard \in Boards /\ newtype \in PieceTypes /\ LockPoints \in Nat
    BY RateAssumption DEF TypeOK
  <2>1. CASE Coast
    BY <2>0, <2>1, <1>3, <1>4, SettleType DEF Coast
  <2>2. CASE Fall(test)
    BY <2>0, <2>2, <1>3, SettleType DEF Fall
  <2>3. CASE Land(test)
    <3>1. PICK slices \in LockedSlices : Settle(Locked(slices), LockPoints)
      BY <2>3 DEF Land
    <3>2. Locked(slices) \in Boards
      BY LockedType
    <3>3. gameboard' \in Boards /\ score' \in 0..(ScoreMod - 1)
      BY <2>0, <3>1, <3>2, SettleType
    <3> QED BY <2>3, <3>3, GeometryAssumption, InputAssumption DEF Land
  <2>4. CASE GameOver(test)
    BY <2>0, <2>4, SettleType, GeometryAssumption DEF GameOver
  <2> QED BY <2>1, <2>2, <2>3, <2>4 DEF Edge
<1> QED BY <1>1, <1>2, <1>5 DEF TypeOK

LEMMA TypeStep == TypeOK /\ [PlayNext]_playVars => TypeOK'
<1> SUFFICES ASSUME TypeOK, [PlayNext]_playVars PROVE TypeOK'
  OBVIOUS
<1>1. ASSUME NEW k \in Keys, PlayFrame(k) PROVE TypeOK'
  <2>1. PICK test \in Tests :
          /\ Edge(k, test)
          /\ moveFresh' \in BOOLEAN /\ turnFresh' \in BOOLEAN /\ intact' \in BOOLEAN
    BY <1>1 DEF PlayFrame
  <2> QED BY <2>1, EdgeType
<1>2. CASE PlayReset
  <2>1. 0 \in 0..(XMod - 1) /\ SpawnX \in 0..(XMod - 1) /\ 0 \in 0..(YMod - 1)
        /\ 0 \in 0..(ScoreMod - 1)
    BY GeometryAssumption, RateAssumption
  <2>2. gameboard' \in Boards
    BY <1>2, EmptyBoardType DEF PlayReset, Reset
  <2>3. /\ xpos' \in 0..(XMod - 1) /\ ypos' \in 0..(YMod - 1)
        /\ orientation' \in Orientations /\ blockType' \in PieceTypes
        /\ counter' \in Nat /\ score' \in 0..(ScoreMod - 1)
    BY <1>2, <2>1 DEF PlayReset, Reset, Orientations, PieceTypes
  <2>4. /\ pressed' \in BOOLEAN
        /\ moveFresh' \in BOOLEAN /\ turnFresh' \in BOOLEAN /\ intact' \in BOOLEAN
    BY <1>2 DEF PlayReset, Reset
  <2> QED BY <1>2, <2>2, <2>3, <2>4 DEF PlayReset, Reset, TypeOK
<1>3. CASE UNCHANGED playVars
  BY <1>3 DEF playVars, vars, history, TypeOK, Boards
<1> QED BY <1>1, <1>2, <1>3 DEF PlayNext, PlayStep

LEMMA TypeInit == PlayInit => TypeOK
<1> SUFFICES ASSUME PlayInit PROVE TypeOK
  OBVIOUS
<1>1. /\ xpos \in 0..(XMod - 1) /\ ypos \in 0..(YMod - 1)
      /\ counter \in Nat /\ score \in 0..(ScoreMod - 1)
  BY GeometryAssumption, RateAssumption DEF PlayInit, Init
<1>2. /\ orientation \in Orientations
      /\ neworientation \in Orientations /\ midorientation \in Orientations
      /\ blockType \in PieceTypes /\ newtype \in PieceTypes
      /\ Block_X_Motion \in -1..1 /\ Block_Y_Motion \in 0..1
  BY DEF PlayInit, Init, Orientations, PieceTypes
<1>3. /\ pressed \in BOOLEAN
      /\ moveFresh \in BOOLEAN /\ turnFresh \in BOOLEAN /\ intact \in BOOLEAN
  BY DEF PlayInit, Init
<1> QED BY <1>1, <1>2, <1>3, EmptyBoardType DEF PlayInit, Init, TypeOK

(* Every register keeps the range its width gives it, whatever keys are    *)
(* pressed and whatever undefined bits the collision tests read.           *)
THEOREM TypeCorrect == PlaySpec => []TypeOK
<1> QED BY TypeInit, TypeStep, PTL DEF PlaySpec

(***************************************************************************)
(* The end of the game.                                                    *)
(***************************************************************************)

(* On the END picture every piece collides at its start. *)
LEMMA NoRoomOnPicture ==
  ASSUME TypeOK, gameboard = GameOverBoard, NEW test \in Tests
  PROVE  test.end = TRUE
<1> DEFINE start == At(SpawnX, 0, blockType, orientation)
<1>1. PICK c \in Cells(blockType, orientation) :
        SpawnX + c[2] \in GameOverBoard[c[1]]
  BY PictureAssumption DEF TypeOK
<1>2. c[1] \in 0..3 /\ c[2] \in 0..3
  BY <1>1 DEF Cells
<1>3. <<c[1], SpawnX + c[2]>> \in start
  <2>1. 0 + c[1] = c[1]
    BY <1>2
  <2> QED BY <1>1, <2>1 DEF At
<1>4. Occupied(<<c[1], SpawnX + c[2]>>)
  <2>1. c[1] \in Rows
    BY <1>2, GeometryAssumption DEF Rows
  <2>2. GameOverBoard[c[1]] \subseteq Cols
    BY <2>1, GeometryAssumption DEF Boards
  <2> QED BY <1>1, <2>1, <2>2 DEF Occupied, OnBoard
<1>5. Test(start) = {TRUE}
  BY <1>3, <1>4 DEF Test
<1>6. test.end \in Test(start)
  BY DEF Tests
<1> QED BY <1>5, <1>6

LEMMA PictureHasNoFullRow == gameboard = GameOverBoard => FullRows = {}
BY PictureAssumption DEF FullRows

(* On the END picture a clock edge leaves the board as it is. *)
LEMMA PictureStays ==
  ASSUME TypeOK, gameboard = GameOverBoard, NEW k, NEW test \in Tests, Edge(k, test)
  PROVE  gameboard' = GameOverBoard
<1>1. \A points : Settle(GameOverBoard, points) => gameboard' = GameOverBoard
  BY PictureHasNoFullRow DEF Settle
<1>2. ~Land(test)
  BY NoRoomOnPicture DEF Land, Lands
<1> QED BY <1>1, <1>2 DEF Edge, Coast, Fall, GameOver

(* The END picture stays until the reset, whatever keys are pressed and    *)
(* whatever undefined bits the parked piece reads outside the board.       *)
THEOREM GameOverFinal == PlaySpec => GameOverIsFinal
<1>1. TypeOK /\ [PlayNext]_playVars
        => [gameboard = GameOverBoard
              => gameboard' \in {GameOverBoard, EmptyBoard}]_playVars
  <2> SUFFICES ASSUME TypeOK, PlayNext, gameboard = GameOverBoard
               PROVE  gameboard' \in {GameOverBoard, EmptyBoard}
    OBVIOUS
  <2>1. CASE PlayReset
    BY <2>1 DEF PlayReset, Reset
  <2>2. CASE PlayStep
    BY <2>2, PictureStays DEF PlayStep, PlayFrame
  <2> QED BY <2>1, <2>2 DEF PlayNext
<1> QED BY <1>1, TypeCorrect, PTL DEF PlaySpec, GameOverIsFinal
-----------------------------------------------------------------------------
(***************************************************************************)
(* The lowest full row.                                                    *)
(***************************************************************************)

LEMMA LowestFullRow ==
  ASSUME FullRows # {}
  PROVE  Max(FullRows) \in FullRows /\ \A r \in FullRows : Max(FullRows) >= r
<1> DEFINE R == {ss \in Nat \X Nat : ss[1] < ss[2]}
           T == {Depth - r : r \in FullRows}
<1>1. Depth \in Nat /\ \A r \in FullRows : r \in 0..(Depth - 1)
  BY GeometryAssumption DEF FullRows
<1>2. T \subseteq Nat /\ T # {}
  BY <1>1
<1>3. PICK x \in T : \A y \in T : ~(<<y, x>> \in R)
  <2>1. IsWellFoundedOn(R, Nat)
    BY NatLessThanWellFounded DEF OpToRel
  <2> HIDE DEF R, T
  <2> QED BY <1>2, <2>1, WFMin
<1>4. \A y \in T : ~(y < x)
  BY <1>2, <1>3
<1>5. PICK a \in FullRows : x = Depth - a
  BY <1>3
<1>6. \A b \in FullRows : a >= b
  <2>1. ASSUME NEW b \in FullRows PROVE ~(Depth - b < Depth - a)
    BY <1>4, <1>5
  <2> QED BY <1>1, <2>1
<1> QED BY <1>6 DEF Max

(***************************************************************************)
(* The invariant of intact play.                                           *)
(***************************************************************************)

(* Cells inside the walls, above the floor and empty. *)
FreeCells(cells) == \A c \in cells : c \in FieldCells /\ ~Occupied(c)

Walls == \A r \in Rows : /\ gameboard[r] \ Field = EmptyBoard[r] \ Field
                         /\ r >= Depth => gameboard[r] = EmptyBoard[r]

(* What a fresh test has found free is still free. *)
FreshMoveIsFree ==
  moveFresh /\ PendingMove =>
    FreeCells(At(xpos + Block_X_Motion, ypos + Block_Y_Motion,
                 blockType, orientation))

FreshTurnIsFree ==
  turnFresh /\ PendingTurn =>
    FreeCells(At(xpos, ypos, blockType, neworientation))

PlayInv ==
  intact => Walls /\ PieceFree /\ FreshMoveIsFree /\ FreshTurnIsFree

(***************************************************************************)
(* The collision tests.                                                    *)
(***************************************************************************)

LEMMA CellRange ==
  ASSUME NEW t, NEW o, NEW c \in Cells(t, o)
  PROVE  c = <<c[1], c[2]>> /\ c[1] \in 0..3 /\ c[2] \in 0..3
BY DEF Cells

(* A cell next to the field, sideways or below, is wall or floor. *)
LEMMA EdgeOfField ==
  ASSUME TypeOK, Walls, NEW row \in Int, NEW col \in Int, row >= 0,
         <<row, col>> \notin FieldCells,
         \/ <<row, col - 1>> \in FieldCells
         \/ <<row, col + 1>> \in FieldCells
         \/ <<row - 1, col>> \in FieldCells
         \/ <<row + 1, col>> \in FieldCells
  PROVE  Occupied(<<row, col>>)
<1>1. /\ LeftWall \in Nat /\ RightWall \in Nat /\ Depth \in Nat /\ XMod \in Nat
      /\ LeftWall < RightWall /\ RightWall + 3 <= XMod
  BY GeometryAssumption
<1>2. row \in 0..Depth /\ col \in LeftWall..RightWall
  BY <1>1 DEF FieldCells, Field
<1>3. row = Depth \/ (row < Depth /\ col \in {LeftWall, RightWall})
  BY <1>1, <1>2 DEF FieldCells, Field
<1>4. row \in Rows /\ col \in Cols
  BY <1>1, <1>2 DEF Rows, Cols
<1>5. col \in gameboard[row]
  <2>1. CASE row = Depth
    <3>1. gameboard[row] = EmptyBoard[row]
      BY <1>1, <1>4, <2>1 DEF Walls
    <3>2. EmptyBoard[row] = LeftWall..RightWall
      BY <1>1, <1>4, <2>1 DEF EmptyBoard
    <3> QED BY <1>2, <3>1, <3>2
  <2>2. CASE row < Depth /\ col \in {LeftWall, RightWall}
    <3>1. EmptyBoard[row] = {LeftWall, RightWall}
      BY <1>4, <2>2 DEF EmptyBoard
    <3>2. col \notin Field
      BY <1>1, <2>2 DEF Field
    <3>3. gameboard[row] \ Field = EmptyBoard[row] \ Field
      BY <1>4 DEF Walls
    <3> QED BY <2>2, <3>1, <3>2, <3>3
  <2> QED BY <1>3, <2>1, <2>2
<1> QED BY <1>4, <1>5 DEF Occupied, OnBoard

(* A test wire that shows 0 has found no bit set. *)
LEMMA TestFindsNothing ==
  ASSUME NEW cells, FALSE \in Test(cells)
  PROVE  \A c \in cells : ~Occupied(c)
BY DEF Test

(* The move tests: one step aside or down from inside the field, a wire    *)
(* that shows 0 means that the target is free.                             *)
LEMMA MoveTestIsRight ==
  ASSUME TypeOK, Walls, PieceFree,
         NEW dx \in {-1, 0, 1}, NEW dy \in {0, 1}, dx = 0 \/ dy = 0,
         FALSE \in Test(At(xpos + dx, ypos + dy, blockType, orientation))
  PROVE  FreeCells(At(xpos + dx, ypos + dy, blockType, orientation))
<1> DEFINE target == At(xpos + dx, ypos + dy, blockType, orientation)
<1>1. \A c \in target : ~Occupied(c)
  BY TestFindsNothing
<1>2. ASSUME NEW c \in Cells(blockType, orientation),
             <<ypos + dy + c[1], xpos + dx + c[2]>> \notin FieldCells
      PROVE  FALSE
  <2>1. c[1] \in 0..3 /\ c[2] \in 0..3 /\ xpos \in Nat /\ ypos \in Nat
    BY CellRange DEF TypeOK
  <2>2. <<ypos + c[1], xpos + c[2]>> \in FieldCells
    BY DEF PieceFree, Piece, At
  <2> DEFINE row == ypos + dy + c[1]
             col == xpos + dx + c[2]
  <2>3. row \in Int /\ col \in Int /\ row >= 0
    BY <2>1
  <2>4. \/ <<row, col - 1>> \in FieldCells
        \/ <<row, col + 1>> \in FieldCells
        \/ <<row - 1, col>> \in FieldCells
        \/ <<row + 1, col>> \in FieldCells
    <3>1. dx = 0 /\ dy = 0 => row = ypos + c[1] /\ col = xpos + c[2]
      BY <2>1
    <3>2. dx = 1 /\ dy = 0 => row = ypos + c[1] /\ col - 1 = xpos + c[2]
      BY <2>1
    <3>3. dx = -1 /\ dy = 0 => row = ypos + c[1] /\ col + 1 = xpos + c[2]
      BY <2>1
    <3>4. dx = 0 /\ dy = 1 => row - 1 = ypos + c[1] /\ col = xpos + c[2]
      BY <2>1
    <3> HIDE DEF row, col
    <3>5. row = ypos + c[1] /\ col = xpos + c[2] => FALSE
      BY <1>2, <2>2 DEF row, col
    <3> QED BY <2>2, <3>1, <3>2, <3>3, <3>4, <3>5
  <2>5. Occupied(<<row, col>>)
    <3> HIDE DEF row, col
    <3>1. <<row, col>> \notin FieldCells
      BY <1>2 DEF row, col
    <3> QED BY <2>3, <2>4, <3>1, EdgeOfField
  <2>6. <<row, col>> \in target
    BY DEF At
  <2> QED BY <1>1, <2>5, <2>6
<1>3. \A c \in target : c \in FieldCells
  BY <1>2 DEF At
<1> QED BY <1>1, <1>3 DEF FreeCells

(* The rotation test: the turned piece hangs together and keeps a cell of   *)
(* the present one, so it cannot lie beyond a wall without touching it.     *)
LEMMA TurnTestIsRight ==
  ASSUME TypeOK, Walls, PieceFree, NEW p \in Orientations,
         FALSE \in Test(At(xpos, ypos, blockType, p))
  PROVE  FreeCells(At(xpos, ypos, blockType, p))
<1> DEFINE place(c) == <<ypos + c[1], xpos + c[2]>>
           part == {c \in Cells(blockType, p) : place(c) \in FieldCells}
<1>1. \A c \in At(xpos, ypos, blockType, p) : ~Occupied(c)
  BY TestFindsNothing
<1>2. part # {}
  <2>1. PICK c \in Cells(blockType, orientation) : c \in Cells(blockType, p)
    BY ShapeAssumption DEF TypeOK
  <2>2. place(c) \in FieldCells
    BY DEF PieceFree, Piece, At
  <2> QED BY <2>1, <2>2
<1>3. ASSUME part # Cells(blockType, p) PROVE FALSE
  <2>1. PICK c \in part, d \in Cells(blockType, p) \ part : Adjacent(c, d)
    <3>1. part \in SUBSET Cells(blockType, p) /\ part \notin {{}, Cells(blockType, p)}
      BY <1>2, <1>3
    <3>2. blockType \in PieceTypes
      BY DEF TypeOK
    <3> HIDE DEF part
    <3> QED BY <3>1, <3>2, ShapeAssumption
  <2>2. /\ c[1] \in 0..3 /\ c[2] \in 0..3 /\ d[1] \in 0..3 /\ d[2] \in 0..3
        /\ xpos \in Nat /\ ypos \in Nat
    <3>1. c \in Cells(blockType, p) /\ d \in Cells(blockType, p)
      BY <2>1
    <3> QED BY <3>1, CellRange DEF TypeOK
  <2> DEFINE row == ypos + d[1]
             col == xpos + d[2]
  <2>3. place(c) \in FieldCells /\ <<row, col>> \notin FieldCells
    BY <2>1
  <2>4. row \in Int /\ col \in Int /\ row >= 0
    BY <2>2
  <2>5. \/ <<row, col - 1>> \in FieldCells
        \/ <<row, col + 1>> \in FieldCells
        \/ <<row - 1, col>> \in FieldCells
        \/ <<row + 1, col>> \in FieldCells
    <3>1. \/ c[1] = d[1] /\ c[2] = d[2] - 1
          \/ c[1] = d[1] /\ c[2] = d[2] + 1
          \/ c[2] = d[2] /\ c[1] = d[1] - 1
          \/ c[2] = d[2] /\ c[1] = d[1] + 1
      BY <2>1 DEF Adjacent
    <3>2. \/ place(c) = <<row, col - 1>>
          \/ place(c) = <<row, col + 1>>
          \/ place(c) = <<row - 1, col>>
          \/ place(c) = <<row + 1, col>>
      BY <2>2, <3>1
    <3> HIDE DEF row, col, place
    <3> QED BY <2>3, <3>2
  <2>6. Occupied(<<row, col>>)
    <3> HIDE DEF row, col
    <3> QED BY <2>3, <2>4, <2>5, EdgeOfField
  <2>7. <<row, col>> \in At(xpos, ypos, blockType, p)
    BY <2>1 DEF At
  <2> QED BY <1>1, <2>6, <2>7
<1>4. \A c \in At(xpos, ypos, blockType, p) : c \in FieldCells
  BY <1>3 DEF At
<1> QED BY <1>1, <1>4 DEF FreeCells

(* A free target lies inside the registers: nothing wraps. *)
LEMMA TargetFits ==
  ASSUME NEW x \in Int, NEW y \in Nat,
         NEW t \in PieceTypes, NEW o \in Orientations, FreeCells(At(x, y, t, o))
  PROVE  /\ x \in 0..(RightWall - 1) /\ x % XMod = x
         /\ y \in 0..(Depth - 1) /\ y % YMod = y
<1>1. PICK c \in Cells(t, o) : TRUE
  BY ShapeAssumption
<1>2. c[1] \in 0..3 /\ c[2] \in 0..3
  BY CellRange
<1>3. <<y + c[1], x + c[2]>> \in FieldCells
  BY DEF FreeCells, At
<1>4. x + c[2] >= LeftWall + 1 /\ x + c[2] <= RightWall - 1 /\ y + c[1] <= Depth - 1
  BY <1>3, GeometryAssumption DEF FieldCells, Field
<1>5. x >= 0 /\ x <= RightWall - 1 /\ y <= Depth - 1
  BY <1>2, <1>4, GeometryAssumption
<1> QED BY <1>5, GeometryAssumption

LEMMA PieceFits ==
  ASSUME TypeOK, PieceFree
  PROVE  xpos + 3 \in Cols /\ xpos % XMod = xpos /\ ypos % YMod = ypos
<1>1. FreeCells(At(xpos, ypos, blockType, orientation))
  BY DEF FreeCells, PieceFree, Piece
<1>2. /\ xpos \in Int /\ ypos \in Nat
      /\ blockType \in PieceTypes /\ orientation \in Orientations
  BY DEF TypeOK
<1>3. xpos \in 0..(RightWall - 1) /\ xpos % XMod = xpos /\ ypos % YMod = ypos
  BY <1>1, <1>2, TargetFits
<1> QED BY <1>3, GeometryAssumption DEF Cols

(***************************************************************************)
(* What a landing and a row clear write.                                   *)
(***************************************************************************)

(* Without a carry the sum of two nibbles is their union. *)
LEMMA DisjointSum ==
  ASSUME NEW S, NEW T, S \cap T = {}
  PROVE  NibbleSum(S, T) = {b \in 0..3 : b \in S \/ b \in T}
<1>1. /\ ~(0 \in S /\ 0 \in T) /\ ~(1 \in S /\ 1 \in T)
      /\ ~(2 \in S /\ 2 \in T) /\ ~(3 \in S /\ 3 \in T)
  OBVIOUS
<1>2. NibbleSum(S, T) = {b \in 0..3 : (b \in S) # (b \in T)}
  BY <1>1 DEF NibbleSum
<1>3. \A b : ~(b \in S /\ b \in T)
  OBVIOUS
<1>4. \A b : (b \in S) # (b \in T) <=> b \in S \/ b \in T
  BY <1>3
<1> QED BY <1>2, <1>4

(* A piece that lies free is added to the board and changes nothing else.  *)
LEMMA LockedIsUnion ==
  ASSUME TypeOK, PieceFree, NEW slices \in LockedSlices, NEW r \in Rows,
         NEW col \in Cols
  PROVE  col \in Locked(slices)[r] <=> col \in gameboard[r] \/ <<r, col>> \in Piece
<1> DEFINE bits(n) == {s \in 0..3 : Occupied(<<ypos + n, xpos + s>>)}
           rom(n) == PieceRow(blockType, orientation, n)
<1>0. xpos \in Nat /\ ypos \in Nat /\ xpos + 3 \in Cols /\ r \in Nat /\ col \in Nat
  BY PieceFits, GeometryAssumption DEF TypeOK, Rows, Cols
<1>1. CASE r - ypos \in 0..3
  <2> DEFINE n == r - ypos
  <2>1. slices[n] = {xpos + b : b \in NibbleSum(bits(n), rom(n))}
    BY <1>0, <1>1 DEF LockedSlices
  <2>2. ASSUME NEW b \in 0..3
        PROVE  b \in rom(n) <=> <<r, xpos + b>> \in Piece
    <3>1. b \in rom(n) <=> <<n, b>> \in Cells(blockType, orientation)
      BY <1>1 DEF Cells
    <3>2. ASSUME NEW c \in Cells(blockType, orientation)
          PROVE  <<ypos + c[1], xpos + c[2]>> = <<r, xpos + b>> <=> c = <<n, b>>
      BY <1>0, <1>1, CellRange
    <3> QED BY <3>1, <3>2 DEF Piece, At
  <2>3. \A b \in 0..3 : b \in bits(n) <=> xpos + b \in gameboard[r]
    <3>1. \A b \in 0..3 : xpos + b \in Cols
      BY <1>0, GeometryAssumption DEF Cols
    <3>2. ypos + n = r
      BY <1>0
    <3> HIDE DEF n
    <3> QED BY <3>1, <3>2 DEF Occupied, OnBoard
  <2>4. bits(n) \cap rom(n) = {}
    <3>1. ASSUME NEW b \in 0..3, b \in rom(n), b \in bits(n) PROVE FALSE
      <4>1. <<r, xpos + b>> \in Piece
        BY <2>2, <3>1
      <4>2. ~Occupied(<<r, xpos + b>>)
        BY <4>1 DEF PieceFree
      <4>3. ypos + n = r
        BY <1>0
      <4> QED BY <3>1, <4>2, <4>3
    <3> QED BY <3>1
  <2>5. NibbleSum(bits(n), rom(n)) = {b \in 0..3 : b \in bits(n) \/ b \in rom(n)}
    <3> HIDE DEF bits, rom, n
    <3> QED BY <2>4, DisjointSum
  <2>6. Locked(slices)[r] = (gameboard[r] \ Window) \cup slices[n]
    BY <1>1 DEF Locked
  <2>7. CASE \E b \in 0..3 : col = xpos + b
    <3>1. PICK b \in 0..3 : col = xpos + b
      BY <2>7
    <3>2. col \in Window
      BY <3>1 DEF Window
    <3>3. col \in slices[n] <=> b \in bits(n) \/ b \in rom(n)
      <4> HIDE DEF bits, rom, n
      <4> QED BY <1>0, <2>1, <2>5, <3>1
    <3>4. col \in Locked(slices)[r] <=> b \in bits(n) \/ b \in rom(n)
      BY <2>6, <3>2, <3>3
    <3> HIDE DEF bits, rom, n
    <3> QED BY <2>2, <2>3, <3>1, <3>4
  <2>8. CASE ~\E b \in 0..3 : col = xpos + b
    <3>1. col \notin Window
      BY <2>8 DEF Window
    <3>2. col \notin slices[n]
      BY <2>1, <2>8 DEF NibbleSum
    <3>3. <<r, col>> \notin Piece
      BY <2>8, CellRange DEF Piece, At
    <3> QED BY <2>6, <3>1, <3>2, <3>3
  <2> QED BY <2>7, <2>8
<1>2. CASE r - ypos \notin 0..3
  <2>1. Locked(slices)[r] = gameboard[r]
    BY <1>2 DEF Locked
  <2>2. ASSUME <<r, col>> \in Piece PROVE FALSE
    <3>1. PICK c \in Cells(blockType, orientation) :
            <<r, col>> = <<ypos + c[1], xpos + c[2]>>
      BY <2>2 DEF Piece, At
    <3>2. r - ypos = c[1]
      BY <1>0, <3>1, CellRange
    <3> QED BY <1>2, <3>2, CellRange
  <2> QED BY <2>1, <2>2
<1> QED BY <1>1, <1>2

(* A landing and a row clear write inside the field only. *)
LEMMA LockedKeepsWalls ==
  ASSUME TypeOK, PieceFree, NEW slices \in LockedSlices, NEW r \in Rows
  PROVE  /\ Locked(slices)[r] \ Field = gameboard[r] \ Field
         /\ r >= Depth => Locked(slices)[r] = gameboard[r]
<1>1. Locked(slices)[r] \subseteq Cols /\ gameboard[r] \subseteq Cols
  BY LockedType DEF TypeOK, Boards
<1>2. \A col : <<r, col>> \in Piece => col \in Field /\ r < Depth
  BY GeometryAssumption DEF PieceFree, FieldCells, Rows
<1>3. \A col \in Cols :
        col \in Locked(slices)[r] <=> col \in gameboard[r] \/ <<r, col>> \in Piece
  BY LockedIsUnion
<1>4. ASSUME r >= Depth PROVE Locked(slices)[r] = gameboard[r]
  <2>1. \A col : <<r, col>> \notin Piece
    BY <1>2, <1>4, GeometryAssumption DEF Rows
  <2> QED BY <1>1, <1>3, <2>1
<1> QED BY <1>1, <1>2, <1>3, <1>4

LEMMA SettleKeepsWalls ==
  ASSUME TypeOK, Walls, NEW written, NEW points, Settle(written, points),
         \A r \in Rows : /\ written[r] \ Field = gameboard[r] \ Field
                         /\ r >= Depth => written[r] = gameboard[r]
  PROVE  Walls'
<1>1. CASE FullRows = {}
  BY <1>1 DEF Settle, Walls, EmptyBoard, Field, Rows
<1>2. CASE FullRows # {}
  <2>1. Max(FullRows) \in 0..(Depth - 1)
    BY <1>2, LowestFullRow DEF FullRows
  <2>2. gameboard' = Collapsed(written)
    BY <1>2 DEF Settle
  <2>3. ASSUME NEW r \in Rows
        PROVE  /\ gameboard'[r] \ Field = EmptyBoard[r] \ Field
               /\ r >= Depth => gameboard'[r] = EmptyBoard[r]
    <3>1. gameboard[r] \ Field = EmptyBoard[r] \ Field
          /\ (r >= Depth => gameboard[r] = EmptyBoard[r])
      BY DEF Walls
    <3>2. CASE r > Max(FullRows)
      BY <2>2, <3>1, <3>2 DEF Collapsed
    <3>3. CASE ~(r > Max(FullRows))
      <4>1. ~(r >= Depth)
        BY <2>1, <3>3, GeometryAssumption DEF Rows
      <4>2. gameboard'[r] \ Field = written[r] \ Field
        BY <2>2, <3>3 DEF Collapsed
      <4> QED BY <3>1, <4>1, <4>2
    <3> QED BY <3>2, <3>3
  <2> QED BY <2>3 DEF Walls, EmptyBoard, Field, Rows
<1> QED BY <1>1, <1>2

(***************************************************************************)
(* The step of intact play.                                                *)
(***************************************************************************)

(* The board of a frame without a landing and without a full row. *)
LEMMA QuietBoard ==
  ASSUME FullRows = {}, NEW test, Coast \/ Fall(test)
  PROVE  gameboard' = gameboard
BY DEF Coast, Fall, Settle

LEMMA FrameKeepsWalls ==
  ASSUME TypeOK, Walls, PieceFree, NEW test,
         Coast \/ Fall(test) \/ Land(test)
  PROVE  Walls'
<1>1. CASE Coast \/ Fall(test)
  BY <1>1, SettleKeepsWalls DEF Coast, Fall
<1>2. CASE Land(test)
  <2>1. PICK slices \in LockedSlices : Settle(Locked(slices), LockPoints)
    BY <1>2 DEF Land
  <2> QED BY <2>1, LockedKeepsWalls, SettleKeepsWalls
<1> QED BY <1>1, <1>2

(* What a motion latched in this frame finds, the piece being still. *)
LEMMA MoveLatched ==
  ASSUME TypeOK, Walls, PieceFree, FreshMoveIsFree,
         NEW k \in Keys, NEW test \in Tests, LatchMotion(k, test),
         UNCHANGED <<gameboard, xpos, ypos, orientation, blockType>>,
         moveFresh' => moveFresh \/ k \in MoveKeys
  PROVE  FreshMoveIsFree'
<1> SUFFICES ASSUME moveFresh', PendingMove'
             PROVE  FreeCells(At(xpos + Block_X_Motion', ypos + Block_Y_Motion',
                                 blockType, orientation))
  BY DEF FreshMoveIsFree, FreeCells, FieldCells, Field, Occupied, OnBoard, Rows, Cols
<1>1. pressed
  BY DEF LatchMotion, PendingMove
<1>2. CASE k \in MoveKeys
  <2>1. ~Blocked(k, test) /\ Block_X_Motion' = MotionOf(k)[1]
        /\ Block_Y_Motion' = MotionOf(k)[2]
    BY <1>1, <1>2 DEF LatchMotion, PendingMove
  <2>2. xpos \in Int /\ ypos \in Int
    BY DEF TypeOK
  <2>3. CASE k = "A"
    <3>1. FALSE \in Test(At(xpos - 1, ypos, blockType, orientation))
      BY <2>1, <2>3, TestBits DEF Blocked, Tests
    <3>2. Block_X_Motion' = -1 /\ Block_Y_Motion' = 0
      BY <2>1, <2>3 DEF MotionOf
    <3>3. xpos - 1 = xpos + (-1) /\ ypos = ypos + 0
      BY <2>2
    <3> QED BY <3>1, <3>2, <3>3, MoveTestIsRight
  <2>4. CASE k = "D"
    <3>1. FALSE \in Test(At(xpos + 1, ypos, blockType, orientation))
      BY <2>1, <2>4, TestBits DEF Blocked, Tests
    <3>2. Block_X_Motion' = 1 /\ Block_Y_Motion' = 0
      BY <2>1, <2>4 DEF MotionOf
    <3>3. ypos = ypos + 0
      BY <2>2
    <3> QED BY <3>1, <3>2, <3>3, MoveTestIsRight
  <2>5. CASE k = "S"
    <3>1. FALSE \in Test(At(xpos, ypos + 1, blockType, orientation))
      BY <2>1, <2>5, TestBits DEF Blocked, Tests
    <3>2. Block_X_Motion' = 0 /\ Block_Y_Motion' = 1
      BY <2>1, <2>5 DEF MotionOf
    <3>3. xpos = xpos + 0
      BY <2>2
    <3> QED BY <3>1, <3>2, <3>3, MoveTestIsRight
  <2> QED BY <1>2, <2>3, <2>4, <2>5 DEF MoveKeys
<1>3. CASE k \notin MoveKeys
  <2>1. Block_X_Motion' = Block_X_Motion /\ Block_Y_Motion' = Block_Y_Motion
    BY <1>1, <1>3 DEF LatchMotion
  <2> QED BY <1>3, <2>1 DEF FreshMoveIsFree, PendingMove
<1> QED BY <1>2, <1>3

(* What a turn latched in this frame finds, the piece being still. *)
LEMMA TurnLatched ==
  ASSUME TypeOK, Walls, PieceFree, FreshTurnIsFree,
         NEW k \in Keys, NEW test \in Tests, LatchRotation(k, test),
         UNCHANGED <<gameboard, xpos, ypos, orientation, blockType>>,
         turnFresh' => turnFresh \/ (k \in RotateKeys /\ ~test.rotate)
  PROVE  FreshTurnIsFree'
<1> SUFFICES ASSUME turnFresh', PendingTurn'
             PROVE  FreeCells(At(xpos, ypos, blockType, neworientation'))
  BY DEF FreshTurnIsFree, FreeCells, FieldCells, Field, Occupied, OnBoard, Rows, Cols
<1>1. CASE k \in RotateKeys /\ ~test.rotate
  <2>1. FALSE \in Test(At(xpos, ypos, blockType, midorientation))
    BY <1>1, TestBits DEF Tests
  <2>2. neworientation' = midorientation /\ midorientation \in Orientations
    BY <1>1 DEF LatchRotation, TypeOK
  <2> QED BY <2>1, <2>2, TurnTestIsRight
<1>2. CASE ~(k \in RotateKeys /\ ~test.rotate)
  <2>1. neworientation' = neworientation /\ turnFresh
    BY <1>2 DEF LatchRotation
  <2> QED BY <2>1 DEF FreshTurnIsFree, PendingTurn
<1> QED BY <1>1, <1>2

(* A frame that applies only what was tested leaves the piece free. *)
LEMMA TestedMoveIsFree ==
  ASSUME TypeOK, Walls, PieceFree, FreshMoveIsFree, FreshTurnIsFree,
         NEW test \in Tests, AdoptShape, Coast \/ Fall(test),
         FullRows = {}, ~pressed => AppliesTested /\ ~PendingType
  PROVE  PieceFree'
<1>1. gameboard' = gameboard
  BY QuietBoard
<1>2. blockType' = blockType
  BY DEF AdoptShape, PendingType
<1>3. SUFFICES FreeCells(At(xpos', ypos', blockType, orientation'))
  BY <1>1, <1>2 DEF PieceFree, Piece, FreeCells, FieldCells, Field, Occupied,
                    OnBoard, Rows, Cols
<1>4. /\ xpos \in Int /\ ypos \in Nat /\ blockType \in PieceTypes
      /\ orientation \in Orientations /\ neworientation \in Orientations
      /\ Block_X_Motion \in Int /\ Block_Y_Motion \in Nat
      /\ xpos + Block_X_Motion \in Int /\ ypos + Block_Y_Motion \in Nat
      /\ xpos + 0 = xpos /\ ypos + 0 = ypos
  BY DEF TypeOK
<1>5. xpos % XMod = xpos /\ ypos % YMod = ypos
  BY PieceFits
<1>6. CASE Fall(test)
  <2>1. orientation' = orientation
    BY <1>6 DEF AdoptShape, AppliesTested, PendingTurn, Fall
  <2>2. xpos' = xpos
    BY <1>4, <1>5, <1>6 DEF Moved, AppliesTested, PendingMove, Fall
  <2>3. FALSE \in Test(At(xpos, ypos + 1, blockType, orientation))
    BY <1>6, TestBits DEF Tests, Fall
  <2>4. FreeCells(At(xpos, ypos + 1, blockType, orientation))
    BY <1>4, <2>3, MoveTestIsRight
  <2>5. (ypos + 1) % YMod = ypos + 1
    <3>1. ypos + 1 \in Nat
      BY <1>4
    <3> QED BY <1>4, <2>4, <3>1, TargetFits
  <2> QED BY <1>6, <2>1, <2>2, <2>4, <2>5 DEF Fall
<1>7. CASE Coast /\ ~pressed /\ PendingMove
  <2>1. orientation' = orientation /\ moveFresh
    BY <1>7 DEF AdoptShape, AppliesTested, PendingTurn, Coast
  <2>2. FreeCells(At(xpos + Block_X_Motion, ypos + Block_Y_Motion,
                     blockType, orientation))
    BY <1>7, <2>1 DEF FreshMoveIsFree
  <2>3. /\ (xpos + Block_X_Motion) % XMod = xpos + Block_X_Motion
        /\ (ypos + Block_Y_Motion) % YMod = ypos + Block_Y_Motion
    BY <1>4, <2>2, TargetFits
  <2> QED BY <1>7, <2>1, <2>2, <2>3 DEF Coast, Moved
<1>8. CASE Coast /\ (pressed \/ ~PendingMove)
  <2>1. xpos' = xpos /\ ypos' = ypos
    BY <1>4, <1>5, <1>8 DEF Coast, Moved, PendingMove
  <2>2. CASE orientation' = orientation
    BY <2>1, <2>2 DEF PieceFree, Piece, FreeCells
  <2>3. CASE orientation' # orientation
    <3>1. orientation' = neworientation /\ PendingTurn /\ turnFresh
      BY <2>3 DEF AdoptShape, AppliesTested, PendingTurn
    <3> QED BY <2>1, <3>1 DEF FreshTurnIsFree
  <2> QED BY <2>2, <2>3
<1> QED BY <1>6, <1>7, <1>8

(* No row of the empty board is full. *)
LEMMA EmptyBoardHasNoFullRow == gameboard = EmptyBoard => FullRows = {}
<1>1. SpawnX \in Field /\ SpawnX \notin {LeftWall, RightWall}
  BY GeometryAssumption DEF Field
<1>2. \A r \in 0..(Depth - 1) : EmptyBoard[r] = {LeftWall, RightWall}
  BY GeometryAssumption DEF EmptyBoard, Rows
<1> QED BY <1>1, <1>2 DEF FullRows

(* In the empty field the middle of the top rows is free for any piece, a  *)
(* column to the left or right of the start and a row below it too.        *)
AtTheTop ==
  gameboard = EmptyBoard /\ xpos \in (SpawnX - 1)..(SpawnX + 1) /\ ypos \in 0..1

LEMMA TopIsFree == AtTheTop => PieceFree
<1> SUFFICES ASSUME AtTheTop, NEW c \in Cells(blockType, orientation)
             PROVE  <<ypos + c[1], xpos + c[2]>> \in FieldCells
                    /\ ~Occupied(<<ypos + c[1], xpos + c[2]>>)
  BY DEF PieceFree, Piece, At
<1>1. c[1] \in 0..3 /\ c[2] \in 0..3
  BY CellRange
<1>2. ypos + c[1] \in 0..(Depth - 1) /\ xpos + c[2] \in Field
  BY <1>1, GeometryAssumption DEF Field, AtTheTop
<1>3. xpos + c[2] \notin {LeftWall, RightWall}
  BY <1>2, GeometryAssumption DEF Field
<1>4. gameboard[ypos + c[1]] = {LeftWall, RightWall}
  <2>1. \A r \in 0..(Depth - 1) : EmptyBoard[r] = {LeftWall, RightWall}
    BY GeometryAssumption DEF EmptyBoard, Rows
  <2> QED BY <1>2, <2>1 DEF AtTheTop
<1> QED BY <1>2, <1>3, <1>4 DEF FieldCells, Occupied, OnBoard

(* Whatever motion, turn and type a new game inherits, its first frame     *)
(* leaves the piece in the free middle of the empty field.                 *)
LEMMA FirstFrameIsFree ==
  ASSUME TypeOK, FirstFrame, NEW test, AdoptShape, Coast \/ Fall(test)
  PROVE  PieceFree'
<1>1. Coast
  <2>1. ~move
    BY RateAssumption DEF FirstFrame, move
  <2> QED BY <2>1 DEF Fall
<1>2. gameboard' = EmptyBoard
  BY <1>1, EmptyBoardHasNoFullRow, QuietBoard DEF FirstFrame
<1>3. /\ xpos' \in (SpawnX - 1)..(SpawnX + 1)
      /\ ypos' \in 0..1
  <2>1. /\ Block_X_Motion \in -1..1 /\ Block_Y_Motion \in 0..1
        /\ xpos = SpawnX /\ ypos = 0
    BY DEF TypeOK, FirstFrame
  <2>2. /\ xpos + Block_X_Motion \in 0..(XMod - 1)
        /\ ypos + Block_Y_Motion \in 0..(YMod - 1)
    BY <2>1, GeometryAssumption
  <2>3. /\ (xpos + Block_X_Motion) % XMod = xpos + Block_X_Motion
        /\ (ypos + Block_Y_Motion) % YMod = ypos + Block_Y_Motion
    BY <2>2, GeometryAssumption
  <2>4. /\ xpos' = xpos \/ xpos' = xpos + Block_X_Motion
        /\ ypos' = ypos \/ ypos' = ypos + Block_Y_Motion
    BY <1>1, <2>3 DEF Coast, Moved
  <2> QED BY <2>1, <2>4, GeometryAssumption
<1>4. AtTheTop' /\ (AtTheTop => PieceFree)'
  <2>1. AtTheTop'
    BY <1>2, <1>3 DEF AtTheTop, EmptyBoard, Rows
  <2>2. (AtTheTop => PieceFree)'
    BY TopIsFree, PTL
  <2> QED BY <2>1, <2>2
<1> QED BY <1>4

LEMMA FrameKeepsPlay ==
  ASSUME TypeOK, PlayInv, NEW k \in Keys, PlayFrame(k)
  PROVE  PlayInv'
<1> SUFFICES ASSUME intact'
             PROVE  Walls' /\ PieceFree' /\ FreshMoveIsFree' /\ FreshTurnIsFree'
  BY DEF PlayInv
<1> DEFINE still == UNCHANGED <<gameboard, xpos, ypos, orientation, blockType>>
<1>1. PICK test \in Tests :
        /\ Edge(k, test)
        /\ moveFresh' = (still /\ (moveFresh \/ k \in MoveKeys))
        /\ turnFresh' = (still /\ (turnFresh \/ (k \in RotateKeys /\ ~test.rotate)))
        /\ intact' = (/\ intact
                      /\ ~Ends(test)
                      /\ ~pressed /\ ~Lands(test) => AppliesTested \/ FirstFrame
                      /\ Untested(test) => PieceFree')
  BY DEF PlayFrame
<1>2. /\ intact /\ ~Ends(test)
      /\ ~pressed /\ ~Lands(test) => AppliesTested \/ FirstFrame
  BY <1>1
<1>3. Untested(test) => PieceFree'
  BY <1>1
<1>4. Walls /\ PieceFree /\ FreshMoveIsFree /\ FreshTurnIsFree
  BY <1>2 DEF PlayInv
<1>5. Coast \/ Fall(test) \/ Land(test)
  BY <1>1, <1>2 DEF Edge, GameOver
<1>6. Walls'
  BY <1>4, <1>5, FrameKeepsWalls
<1>7. PieceFree'
  <2>1. CASE Untested(test)
    BY <1>3, <2>1
  <2>2. CASE ~Untested(test)
    <3>1. ~Lands(test) /\ FullRows = {} /\ (~pressed /\ ~FirstFrame => ~PendingType)
      BY <2>2 DEF Untested
    <3>2. Coast \/ Fall(test)
      BY <1>5, <3>1 DEF Land
    <3>3. AdoptShape
      BY <1>1 DEF Edge
    <3>4. CASE FirstFrame
      BY <3>2, <3>3, <3>4, FirstFrameIsFree
    <3>5. CASE ~FirstFrame
      <4>1. ~pressed => AppliesTested /\ ~PendingType
        BY <1>2, <3>1, <3>5
      <4> QED BY <1>4, <3>1, <3>2, <3>3, <4>1, TestedMoveIsFree
    <3> QED BY <3>4, <3>5
  <2> QED BY <2>1, <2>2
<1>8. FreshMoveIsFree'
  <2>1. CASE still
    BY <1>1, <1>4, <2>1, MoveLatched DEF Edge, DecodeKey
  <2>2. CASE ~still
    BY <1>1, <2>2 DEF FreshMoveIsFree
  <2> QED BY <2>1, <2>2
<1>9. FreshTurnIsFree'
  <2>1. CASE still
    BY <1>1, <1>4, <2>1, TurnLatched DEF Edge, DecodeKey
  <2>2. CASE ~still
    BY <1>1, <2>2 DEF FreshTurnIsFree
  <2> QED BY <2>1, <2>2
<1> QED BY <1>6, <1>7, <1>8, <1>9

(* A new game: the first bar lies free in the empty field. *)
NewGame ==
  /\ gameboard = EmptyBoard /\ xpos = SpawnX /\ ypos = 0
  /\ blockType = 0 /\ orientation = 0

LEMMA StartIsFree == NewGame => Walls /\ PieceFree
<1> SUFFICES ASSUME NewGame PROVE Walls /\ PieceFree
  OBVIOUS
<1>1. Walls
  BY DEF Walls, NewGame
<1>2. AtTheTop
  BY GeometryAssumption DEF NewGame, AtTheTop
<1> QED BY <1>1, <1>2, TopIsFree

LEMMA PlayStarts == PlayInit => PlayInv
<1> SUFFICES ASSUME PlayInit PROVE PlayInv
  OBVIOUS
<1>1. Walls /\ PieceFree
  BY StartIsFree DEF PlayInit, Init, NewGame
<1>2. FreshMoveIsFree /\ FreshTurnIsFree
  BY DEF PlayInit, FreshMoveIsFree, FreshTurnIsFree
<1> QED BY <1>1, <1>2 DEF PlayInv

LEMMA PlayStepInv == TypeOK /\ PlayInv /\ [PlayNext]_playVars => PlayInv'
<1> SUFFICES ASSUME TypeOK, PlayInv, [PlayNext]_playVars PROVE PlayInv'
  OBVIOUS
<1>1. CASE PlayStep
  BY <1>1, FrameKeepsPlay DEF PlayStep
<1>2. CASE PlayReset
  <2>1. (Walls /\ PieceFree)'
    <3>1. NewGame'
      BY <1>2 DEF PlayReset, Reset, NewGame, EmptyBoard, Rows
    <3>2. NewGame' => (Walls /\ PieceFree)'
      BY StartIsFree, PTL
    <3> QED BY <3>1, <3>2
  <2>2. FreshMoveIsFree' /\ FreshTurnIsFree'
    BY <1>2 DEF PlayReset, FreshMoveIsFree, FreshTurnIsFree
  <2> QED BY <2>1, <2>2 DEF PlayInv
<1>3. CASE UNCHANGED playVars
  BY <1>3 DEF playVars, vars, history, PlayInv, Walls, PieceFree, Piece, FieldCells,
              Field, Occupied, OnBoard, Rows, Cols, FreshMoveIsFree, FreshTurnIsFree,
              FreeCells, PendingMove, PendingTurn, EmptyBoard
<1> QED BY <1>1, <1>2, <1>3 DEF PlayNext

LEMMA PlayAlways == PlaySpec => []PlayInv
<1> QED BY TypeCorrect, PlayStarts, PlayStepInv, PTL DEF PlaySpec

(* The collision tests are the right ones: as long as every change was     *)
(* applied as it was tested, the falling piece lies inside the walls,      *)
(* above the floor and over empty cells, and what a new game inherits from *)
(* the one before changes nothing about that.                              *)
THEOREM PlayOverlapsNothing == PlaySpec => []NoOverlapWhileIntact
<1>1. PlayInv => NoOverlapWhileIntact
  BY DEF PlayInv, NoOverlapWhileIntact
<1> QED BY <1>1, PlayAlways, PTL

(* Landings and row clears, which rewrite whole slices of rows, leave the  *)
(* walls and the floor as the reset wrote them.                            *)
THEOREM WallsStand == PlaySpec => []WallsStandWhileIntact
<1>1. PlayInv => WallsStandWhileIntact
  BY DEF PlayInv, Walls, WallsStandWhileIntact
<1> QED BY <1>1, PlayAlways, PTL

(***************************************************************************)
(* Counting rows and blocks.                                               *)
(***************************************************************************)

LEMMA SameSize ==
  ASSUME NEW S, NEW T, IsFiniteSet(S), NEW F \in [S -> T],
         \A a, b \in S : F[a] = F[b] => a = b,
         \A t \in T : \E s \in S : F[s] = t
  PROVE  IsFiniteSet(T) /\ Cardinality(T) = Cardinality(S)
<1>1. F \in Bijection(S, T)
  BY Fun_IsBij
<1>2. ExistsBijection(S, T)
  BY <1>1 DEF ExistsBijection
<1> QED BY <1>2, FS_Bijection

LEMMA FullRowsFinite ==
  IsFiniteSet(FullRows) /\ Cardinality(FullRows) \in Nat
<1>1. FullRows \in SUBSET (0..(Depth - 1)) /\ Depth - 1 \in Int
  BY GeometryAssumption DEF FullRows
<1>2. IsFiniteSet(0..(Depth - 1))
  BY <1>1, FS_Interval
<1>3. IsFiniteSet(FullRows)
  BY <1>1, <1>2, FS_Subset
<1> QED BY <1>3, FS_CardinalityType

(* Of the rows full after a clear down to the one it took, each was full   *)
(* one row higher before, and none of them is that one, whatever the step  *)
(* of the piece wrote.                                                     *)
LEMMA ClearTakesARow ==
  ASSUME TypeOK, FullRows # {}, NEW written, gameboard' = Collapsed(written),
         NEW r \in FullRows', r <= Max(FullRows)
  PROVE  r - 1 \in FullRows \ {Max(FullRows)}
<1>1. r \in 0..(Depth - 1) /\ Field \subseteq gameboard'[r] /\ r \in Rows /\ Depth \in Nat
  BY GeometryAssumption DEF FullRows, Field, Rows
<1>2. Max(FullRows) \in FullRows /\ \A q \in FullRows : Max(FullRows) >= q
  BY LowestFullRow
<1>3. Max(FullRows) \in 0..(Depth - 1)
  BY <1>2 DEF FullRows
<1>4. ~(r > Max(FullRows))
  BY <1>1, <1>3
<1>5. gameboard'[r] = (written[r] \ Field)
                      \cup (IF r = 0 THEN {} ELSE gameboard[r - 1] \cap Field)
  BY <1>1, <1>4 DEF Collapsed
<1>6. SpawnX \in Field
  BY GeometryAssumption DEF Field
<1>7. r # 0 /\ Field \subseteq gameboard[r - 1]
  BY <1>1, <1>5, <1>6
<1>8. r - 1 \in FullRows
  BY <1>1, <1>7 DEF FullRows
<1> QED BY <1>1, <1>3, <1>4, <1>8

(* A row full after a clear below the one it took was completed by the     *)
(* piece that landed in the same frame.                                    *)
LEMMA OnlyLandingsFill ==
  ASSUME TypeOK, FullRows # {}, NEW test,
         Coast \/ Fall(test) \/ Land(test) \/ GameOver(test),
         NEW r \in FullRows', ~(r <= Max(FullRows))
  PROVE  Lands(test)
<1>1. r \in 0..(Depth - 1) /\ Field \subseteq gameboard'[r] /\ r \in Rows
  BY GeometryAssumption DEF FullRows, Field, Rows
<1>2. \A q \in FullRows : Max(FullRows) >= q
  BY LowestFullRow
<1>3. Max(FullRows) \in 0..(Depth - 1)
  BY LowestFullRow DEF FullRows
<1>4. r > Max(FullRows)
  BY <1>1, <1>3
<1>5. ASSUME NEW written, gameboard' = Collapsed(written)
      PROVE  Field \subseteq written[r]
  BY <1>1, <1>4, <1>5 DEF Collapsed
<1>6. CASE Coast \/ Fall(test)
  <2>1. gameboard' = Collapsed(gameboard)
    BY <1>6 DEF Coast, Fall, Settle
  <2>2. r \in FullRows
    BY <1>1, <1>5, <2>1 DEF FullRows
  <2> QED BY <1>2, <1>3, <1>4, <1>1, <2>2
<1>7. CASE GameOver(test)
  <2>1. gameboard' = Collapsed(GameOverBoard)
    BY <1>7 DEF GameOver, Settle
  <2> QED BY <1>1, <1>5, <2>1, PictureAssumption
<1> QED BY <1>6, <1>7 DEF Land

(* Every frame that finds full rows takes one of them away, landings and   *)
(* ends of the game included, so the rows that one piece completes are     *)
(* gone a few frames later.                                                *)
THEOREM ClearsDrain == PlaySpec => ClearDrains
<1> DEFINE left == {r \in FullRows' : r <= Max(FullRows)}
           Drained == /\ Cardinality(left) < Cardinality(FullRows)
                      /\ left # FullRows' => \E test \in Tests : Lands(test)
<1>1. TypeOK /\ [PlayNext]_playVars => [FullRows # {} => Drained]_playVars
  <2> SUFFICES ASSUME TypeOK, PlayNext, FullRows # {} PROVE Drained
    OBVIOUS
  <2>1. IsFiniteSet(FullRows) /\ Cardinality(FullRows) \in Nat
    BY FullRowsFinite
  <2>2. CASE PlayReset
    <3>1. (gameboard = EmptyBoard)'
      BY <2>2 DEF PlayReset, Reset, EmptyBoard, Rows
    <3>2. (gameboard = EmptyBoard => FullRows = {})'
      BY EmptyBoardHasNoFullRow, PTL
    <3>3. left = {} /\ FullRows' = {}
      BY <3>1, <3>2
    <3>4. Cardinality(left) = 0 /\ Cardinality(FullRows) # 0
      BY <2>1, <3>3, FS_EmptySet
    <3> QED BY <2>1, <3>3, <3>4
  <2>3. CASE PlayStep
    <3> DEFINE low == Max(FullRows)
               rest == FullRows \ {low}
               up == [r \in left |-> r - 1]
    <3>1. PICK test \in Tests : Coast \/ Fall(test) \/ Land(test) \/ GameOver(test)
      BY <2>3 DEF PlayStep, PlayFrame, Edge
    <3>2. PICK written : gameboard' = Collapsed(written)
      BY <3>1 DEF Coast, Fall, Land, GameOver, Settle
    <3>3. \A r \in left : r - 1 \in rest
      BY <3>2, ClearTakesARow
    <3>4. IsFiniteSet(rest) /\ Cardinality(rest) = Cardinality(FullRows) - 1
      BY <2>1, LowestFullRow, FS_RemoveElement
    <3>5. up \in [left -> rest]
      BY <3>3
    <3>6. \A a, b \in left : up[a] = up[b] => a = b
      BY DEF FullRows
    <3>7. left # FullRows' => Lands(test)
      BY <3>1, OnlyLandingsFill
    <3> HIDE DEF rest, up, left
    <3>8. up \in Injection(left, rest)
      BY <3>5, <3>6, Fun_IsInj
    <3>9. IsFiniteSet(left) /\ Cardinality(left) <= Cardinality(rest)
      BY <3>4, <3>8, FS_Injection
    <3>10. Cardinality(left) \in Nat
      BY <3>9, FS_CardinalityType
    <3>11. Cardinality(left) < Cardinality(FullRows)
      BY <2>1, <3>4, <3>9, <3>10
    <3> QED BY <3>7, <3>11
  <2> QED BY <2>2, <2>3 DEF PlayNext
<1> QED BY <1>1, TypeCorrect, PTL DEF PlaySpec, ClearDrains

LEMMA BlocksFinite ==
  /\ IsFiniteSet(Field) /\ IsFiniteSet(Blocks)
  /\ Cardinality(Field) \in Nat /\ Cardinality(Blocks) \in Nat
<1>1. IsFiniteSet(Field) /\ IsFiniteSet(0..(Depth - 1))
  <2>1. LeftWall + 1 \in Int /\ RightWall - 1 \in Int /\ Depth - 1 \in Int
    BY GeometryAssumption
  <2> QED BY <2>1, FS_Interval DEF Field
<1>2. IsFiniteSet(FieldCells)
  BY <1>1, FS_Product DEF FieldCells
<1>3. Blocks \in SUBSET FieldCells
  BY DEF Blocks
<1>4. IsFiniteSet(Blocks)
  BY <1>2, <1>3, FS_Subset
<1> QED BY <1>1, <1>4, FS_CardinalityType

(* A piece covers four cells of the board. *)
LEMMA PieceSize ==
  ASSUME TypeOK
  PROVE  IsFiniteSet(Piece) /\ Cardinality(Piece) = 4
<1> DEFINE cells == Cells(blockType, orientation)
           place == [c \in cells |-> <<ypos + c[1], xpos + c[2]>>]
<1>1. IsFiniteSet(cells) /\ Cardinality(cells) = 4
  <2>1. cells \in SUBSET ((0..3) \X (0..3))
    BY DEF Cells
  <2>2. IsFiniteSet(0..3)
    <3>1. 0 \in Int /\ 3 \in Int
      OBVIOUS
    <3> QED BY <3>1, FS_Interval
  <2>3. IsFiniteSet((0..3) \X (0..3))
    BY <2>2, FS_Product
  <2>4. Cardinality(cells) = 4
    BY ShapeAssumption DEF TypeOK
  <2> QED BY <2>1, <2>3, <2>4, FS_Subset
<1>2. place \in [cells -> Piece]
  BY DEF Piece, At
<1>3. \A a, b \in cells : place[a] = place[b] => a = b
  <2>1. ASSUME NEW a \in cells, NEW b \in cells, place[a] = place[b]
        PROVE  a = b
    <3>1. /\ a = <<a[1], a[2]>> /\ a[1] \in Int /\ a[2] \in Int
          /\ b = <<b[1], b[2]>> /\ b[1] \in Int /\ b[2] \in Int
      BY CellRange
    <3>2. ypos + a[1] = ypos + b[1] /\ xpos + a[2] = xpos + b[2]
      BY <2>1
    <3> QED BY <3>1, <3>2 DEF TypeOK
  <2> QED BY <2>1
<1>4. \A p \in Piece : \E c \in cells : place[c] = p
  BY DEF Piece, At
<1> HIDE DEF cells, place
<1> QED BY <1>1, <1>2, <1>3, <1>4, SameSize

(* A landing in a frame without a clear adds the blocks of the piece. *)
LEMMA LandingAddsPiece ==
  ASSUME TypeOK, PieceFree, NEW slices \in LockedSlices,
         gameboard' = Locked(slices)
  PROVE  Cardinality(Blocks') = Cardinality(Blocks) + Cardinality(Piece)
<1>1. Blocks' = Blocks \cup Piece
  <2>1. \A r \in 0..(Depth - 1) : r \in Rows
    BY GeometryAssumption DEF Rows
  <2>2. \A col \in Field : col \in Cols
    BY GeometryAssumption DEF Field, Cols
  <2>3. ASSUME NEW r \in 0..(Depth - 1), NEW col \in Field
        PROVE  <<r, col>> \in Blocks' <=> <<r, col>> \in Blocks \/ <<r, col>> \in Piece
    <3>1. col \in Locked(slices)[r] <=> col \in gameboard[r] \/ <<r, col>> \in Piece
      BY <2>1, <2>2, LockedIsUnion
    <3>2. <<r, col>> \in Blocks <=> col \in gameboard[r]
      BY <2>1, <2>2 DEF Blocks, FieldCells, Occupied, OnBoard
    <3>3. <<r, col>> \in Blocks' <=> col \in gameboard'[r]
      BY <2>1, <2>2 DEF Blocks, FieldCells, Field, Occupied, OnBoard, Rows, Cols
    <3> QED BY <3>1, <3>2, <3>3
  <2>4. Piece \subseteq FieldCells /\ Blocks \subseteq FieldCells
    BY DEF PieceFree, Blocks
  <2>5. Blocks' \subseteq FieldCells
    BY DEF Blocks, FieldCells, Field
  <2>6. \A c \in FieldCells : c \in Blocks' <=> c \in Blocks \/ c \in Piece
    BY <2>3 DEF FieldCells
  <2> QED BY <2>4, <2>5, <2>6
<1>2. Blocks \cap Piece = {}
  BY DEF PieceFree, Blocks
<1>3. Cardinality(Blocks \cup Piece) = Cardinality(Blocks) + Cardinality(Piece) - Cardinality(Blocks \cap Piece)
  BY BlocksFinite, PieceSize, FS_Union
<1>4. Cardinality(Blocks \cap Piece) = 0
  BY <1>2, FS_EmptySet
<1> QED BY <1>1, <1>3, <1>4, BlocksFinite, PieceSize

(* A clear takes the blocks of the lowest full row; those above it move     *)
(* down one row, those below stay, and what the step of the piece wrote    *)
(* below it stays too.                                                     *)
LEMMA ClearTakesRow ==
  ASSUME TypeOK, FullRows # {}, NEW written, gameboard' = Collapsed(written),
         NEW new, IsFiniteSet(new), new \subseteq FieldCells, new \cap Blocks = {},
         \A c \in new : c[1] > Max(FullRows),
         \A r \in Rows, col \in Field :
           r > Max(FullRows) =>
             (col \in written[r] <=> col \in gameboard[r] \/ <<r, col>> \in new)
  PROVE  Cardinality(Blocks')
           = (Cardinality(Blocks) - Cardinality(Field)) + Cardinality(new)
<1> DEFINE low == Max(FullRows)
           row == {low} \X Field
           rest == Blocks \ row
           moved == [c \in rest |-> IF c[1] < low THEN <<c[1] + 1, c[2]>> ELSE c]
<1>1. low \in FullRows /\ low \in 0..(Depth - 1) /\ Field \subseteq gameboard[low]
  BY LowestFullRow DEF FullRows
<1>2. Depth \in Nat /\ Field \subseteq Cols /\ \A r \in 0..(Depth - 1) : r \in Rows
  BY GeometryAssumption DEF Field, Cols, Rows
<1>3. \A r, col : <<r, col>> \in Blocks
                    <=> r \in 0..(Depth - 1) /\ col \in Field /\ col \in gameboard[r]
  BY <1>2 DEF Blocks, FieldCells, Occupied, OnBoard
<1>4. \A r, col : <<r, col>> \in Blocks'
                    <=> r \in 0..(Depth - 1) /\ col \in Field /\ col \in gameboard'[r]
  BY <1>2 DEF Blocks, FieldCells, Field, Occupied, OnBoard, Rows, Cols
<1>5. \A c : c \in Blocks \/ c \in Blocks' => c = <<c[1], c[2]>>
  BY DEF Blocks, FieldCells
<1>6. Cardinality(rest) = Cardinality(Blocks) - Cardinality(Field) /\ IsFiniteSet(rest)
  <2>1. row \subseteq Blocks
    BY <1>1, <1>3
  <2>2. IsFiniteSet({low}) /\ Cardinality({low}) = 1
    BY FS_Singleton
  <2>3. Cardinality(row) = Cardinality(Field)
    <3>1. Cardinality(row) = 1 * Cardinality(Field)
      BY <2>2, BlocksFinite, FS_Product
    <3> QED BY <3>1, BlocksFinite
  <2>4. Blocks \cap row = row
    BY <2>1
  <2>5. IsFiniteSet(rest) /\ Cardinality(rest) = Cardinality(Blocks) - Cardinality(Blocks \cap row)
    BY BlocksFinite, FS_Difference
  <2> HIDE DEF rest, row
  <2> QED BY <2>3, <2>4, <2>5
<1>7. ASSUME NEW r \in 0..(Depth - 1), NEW col \in Field
      PROVE  /\ r > low => (col \in gameboard'[r]
                               <=> col \in gameboard[r] \/ <<r, col>> \in new)
             /\ r <= low => (col \in gameboard'[r] <=> r # 0 /\ col \in gameboard[r - 1])
  <2>1. CASE r > low
    BY <1>1, <1>2, <2>1 DEF Collapsed
  <2>2. CASE ~(r > low)
    <3>1. gameboard'[r] = (written[r] \ Field)
                          \cup (IF r = 0 THEN {} ELSE gameboard[r - 1] \cap Field)
      BY <1>2, <2>2 DEF Collapsed
    <3> QED BY <1>1, <2>2, <3>1
  <2> QED BY <2>1, <2>2
<1>8. ASSUME NEW c \in rest
      PROVE  /\ c = <<c[1], c[2]>> /\ c[1] \in 0..(Depth - 1) /\ c[2] \in Field
             /\ c[2] \in gameboard[c[1]] /\ c[1] # low
             /\ moved[c] = IF c[1] < low THEN <<c[1] + 1, c[2]>> ELSE <<c[1], c[2]>>
  <2>1. c = <<c[1], c[2]>>
    BY <1>5
  <2>2. <<c[1], c[2]>> \in Blocks /\ <<c[1], c[2]>> \notin row
    BY <2>1
  <2>3. c[1] \in 0..(Depth - 1) /\ c[2] \in Field /\ c[2] \in gameboard[c[1]]
    BY <1>3, <2>2
  <2>4. c[1] # low
    BY <2>2, <2>3
  <2> QED BY <2>1, <2>3, <2>4
<1>9. moved \in [rest -> Blocks' \ new]
  <2>1. ASSUME NEW c \in rest PROVE moved[c] \in Blocks' \ new
    <3> DEFINE r == c[1]
               col == c[2]
    <3>1. /\ r \in 0..(Depth - 1) /\ col \in Field /\ col \in gameboard[r] /\ r # low
          /\ moved[c] = IF r < low THEN <<r + 1, col>> ELSE <<r, col>>
      BY <1>8
    <3> HIDE DEF r, col, moved, rest
    <3>2. CASE r < low
      <4>1. r + 1 \in 0..(Depth - 1) /\ r + 1 <= low /\ r + 1 # 0 /\ (r + 1) - 1 = r
        BY <1>1, <1>2, <3>1, <3>2
      <4>2. col \in gameboard'[r + 1]
        BY <1>7, <3>1, <4>1
      <4>3. <<r + 1, col>> \notin new
        BY <1>1, <4>1
      <4> QED BY <1>4, <3>1, <3>2, <4>1, <4>2, <4>3
    <3>3. CASE ~(r < low)
      <4>1. r > low
        BY <1>1, <3>1, <3>3
      <4>2. col \in gameboard'[r]
        BY <1>7, <3>1, <4>1
      <4>3. <<r, col>> \notin new
        BY <1>3, <3>1
      <4> QED BY <1>4, <3>1, <3>3, <4>2, <4>3
    <3> QED BY <3>2, <3>3
  <2> QED BY <2>1
<1>10. \A a, b \in rest : moved[a] = moved[b] => a = b
  <2>1. ASSUME NEW a \in rest, NEW b \in rest, moved[a] = moved[b]
        PROVE  a = b
    <3>1. /\ a = <<a[1], a[2]>> /\ a[1] \in Int /\ a[1] # low
          /\ moved[a] = IF a[1] < low THEN <<a[1] + 1, a[2]>> ELSE <<a[1], a[2]>>
      BY <1>8
    <3>2. /\ b = <<b[1], b[2]>> /\ b[1] \in Int /\ b[1] # low
          /\ moved[b] = IF b[1] < low THEN <<b[1] + 1, b[2]>> ELSE <<b[1], b[2]>>
      BY <1>8
    <3>3. low \in Int
      BY <1>1
    <3> HIDE DEF moved, rest, low
    <3>4. a[1] = b[1] /\ a[2] = b[2]
      <4>1. CASE a[1] < low /\ b[1] < low
        <5>1. <<a[1] + 1, a[2]>> = <<b[1] + 1, b[2]>>
          BY <2>1, <3>1, <3>2, <4>1, Zenon
        <5> QED BY <3>1, <3>2, <5>1
      <4>2. CASE ~(a[1] < low) /\ ~(b[1] < low)
        BY <2>1, <3>1, <3>2, <4>2
      <4>3. CASE a[1] < low /\ ~(b[1] < low)
        <5>1. <<a[1] + 1, a[2]>> = <<b[1], b[2]>>
          BY <2>1, <3>1, <3>2, <4>3, Zenon
        <5> QED BY <3>1, <3>2, <3>3, <4>3, <5>1
      <4>4. CASE ~(a[1] < low) /\ b[1] < low
        <5>1. <<b[1] + 1, b[2]>> = <<a[1], a[2]>>
          BY <2>1, <3>1, <3>2, <4>4, Zenon
        <5> QED BY <3>1, <3>2, <3>3, <4>4, <5>1
      <4> QED BY <4>1, <4>2, <4>3, <4>4
    <3> QED BY <3>1, <3>2, <3>4
  <2> QED BY <2>1
<1>11. \A d \in Blocks' \ new : \E c \in rest : moved[c] = d
  <2>1. ASSUME NEW d \in Blocks' \ new PROVE \E c \in rest : moved[c] = d
    <3> DEFINE r == d[1]
               col == d[2]
    <3>1. /\ d = <<r, col>> /\ <<r, col>> \notin new
          /\ r \in 0..(Depth - 1) /\ col \in Field /\ col \in gameboard'[r]
      BY <1>4, <1>5
    <3> HIDE DEF r, col
    <3>2. CASE r > low
      <4>1. <<r, col>> \in rest
        BY <1>1, <1>3, <1>7, <3>1, <3>2
      <4>2. moved[<<r, col>>] = <<r, col>>
        BY <1>1, <3>1, <3>2, <4>1
      <4> QED BY <3>1, <4>1, <4>2
    <3>3. CASE ~(r > low)
      <4>1. r # 0 /\ col \in gameboard[r - 1] /\ r - 1 \in 0..(Depth - 1) /\ r - 1 < low
        BY <1>1, <1>2, <1>7, <3>1, <3>3
      <4>2. <<r - 1, col>> \in rest
        BY <1>1, <1>3, <3>1, <4>1
      <4>3. moved[<<r - 1, col>>] = <<(r - 1) + 1, col>>
        BY <4>1, <4>2
      <4>4. (r - 1) + 1 = r
        BY <3>1
      <4> QED BY <3>1, <4>2, <4>3, <4>4
    <3> QED BY <3>2, <3>3
  <2> QED BY <2>1
<1> HIDE DEF rest, moved
<1>12. Cardinality(Blocks' \ new) = Cardinality(rest)
  BY <1>6, <1>9, <1>10, <1>11, SameSize
<1>13. new \subseteq Blocks'
  <2>1. ASSUME NEW c \in new PROVE c \in Blocks'
    <3>1. c = <<c[1], c[2]>> /\ c[1] \in 0..(Depth - 1) /\ c[2] \in Field
      BY DEF FieldCells
    <3>2. c[2] \in gameboard'[c[1]]
      BY <1>7, <3>1
    <3> QED BY <1>4, <3>1, <3>2
  <2> QED BY <2>1
<1>14. Cardinality(Blocks' \ new) = Cardinality(Blocks') - Cardinality(new)
  <2>1. (/\ IsFiniteSet(Field) /\ IsFiniteSet(Blocks)
         /\ Cardinality(Field) \in Nat /\ Cardinality(Blocks) \in Nat)'
    BY BlocksFinite, PTL
  <2>2. Cardinality(Blocks' \ new) = Cardinality(Blocks') - Cardinality(Blocks' \cap new)
    BY <2>1, FS_Difference
  <2>3. Blocks' \cap new = new
    BY <1>13
  <2> QED BY <2>2, <2>3
<1>15. /\ Cardinality(Blocks') \in Int /\ Cardinality(new) \in Int
       /\ Cardinality(Blocks) \in Int /\ Cardinality(Field) \in Int
  <2>1. (/\ IsFiniteSet(Field) /\ IsFiniteSet(Blocks)
         /\ Cardinality(Field) \in Nat /\ Cardinality(Blocks) \in Nat)'
    BY BlocksFinite, PTL
  <2> QED BY <2>1, BlocksFinite, FS_CardinalityType
<1> QED BY <1>6, <1>12, <1>14, <1>15

(* A clear in a frame without a landing. *)
LEMMA QuietClear ==
  ASSUME TypeOK, FullRows # {}, gameboard' = Collapsed(gameboard)
  PROVE  Cardinality(Blocks') = Cardinality(Blocks) - Cardinality(Field)
<1>1. IsFiniteSet({}) /\ Cardinality({}) = 0
  BY FS_EmptySet
<1>2. Cardinality(Blocks')
        = (Cardinality(Blocks) - Cardinality(Field)) + Cardinality({})
  BY <1>1, ClearTakesRow
<1> QED BY <1>1, <1>2, BlocksFinite

(* A clear in the frame of a landing: of the piece the clear leaves what   *)
(* lies below the row it takes.                                            *)
LEMMA LandingInClear ==
  ASSUME TypeOK, PieceFree, FullRows # {}, NEW slices \in LockedSlices,
         gameboard' = Collapsed(Locked(slices))
  PROVE  LET new == {c \in Piece : c[1] > Max(FullRows)}
         IN  Cardinality(Blocks')
               = (Cardinality(Blocks) - Cardinality(Field)) + Cardinality(new)
<1> DEFINE new == {c \in Piece : c[1] > Max(FullRows)}
<1>1. IsFiniteSet(new)
  BY PieceSize, FS_Subset
<1>2. new \subseteq FieldCells /\ new \cap Blocks = {}
  BY DEF PieceFree, Blocks
<1>3. Field \subseteq Cols
  BY GeometryAssumption DEF Field, Cols
<1>4. ASSUME NEW r \in Rows, NEW col \in Field, r > Max(FullRows)
      PROVE  col \in Locked(slices)[r] <=> col \in gameboard[r] \/ <<r, col>> \in new
  BY <1>3, <1>4, LockedIsUnion
<1> HIDE DEF new
<1>5. \A c \in new : c[1] > Max(FullRows)
  BY DEF new
<1>6. Cardinality(Blocks')
        = (Cardinality(Blocks) - Cardinality(Field)) + Cardinality(new)
  BY <1>1, <1>2, <1>4, <1>5, ClearTakesRow
<1> QED BY <1>6 DEF new

(* No block is invented in intact play, and none is lost but those of a    *)
(* piece that lands above a row cleared in the same frame: a landing adds  *)
(* its blocks, a clear takes one row of them, and nothing else changes     *)
(* their number.                                                           *)
THEOREM BlocksAreConserved == PlaySpec => BlocksConserved
<1> DEFINE Kept ==
      intact /\ intact' /\ ~PlayReset =>
        \E test \in Tests :
          Cardinality(Blocks') =
            Cardinality(Blocks)
            + Cardinality(Added(test))
            - (IF FullRows # {} THEN Cardinality(Field) ELSE 0)
<1>1. TypeOK /\ PlayInv /\ [PlayNext]_playVars => [Kept]_playVars
  <2> SUFFICES ASSUME TypeOK, PlayInv, PlayStep, intact, intact' PROVE Kept
    BY DEF PlayNext
  <2>1. PICK k \in Keys, test \in Tests : Edge(k, test) /\ ~Ends(test)
    BY DEF PlayStep, PlayFrame
  <2>2. Coast \/ Fall(test) \/ Land(test)
    BY <2>1 DEF Edge, GameOver
  <2>3. PieceFree
    BY DEF PlayInv
  <2>4. /\ Cardinality(Blocks) \in Int /\ Cardinality(Field) \in Int
        /\ Cardinality(Added(test)) \in Int
    <3>1. Added(test) \in SUBSET Piece
      BY DEF Added
    <3>2. IsFiniteSet(Added(test))
      BY <3>1, PieceSize, FS_Subset
    <3> QED BY <3>2, BlocksFinite, FS_CardinalityType
  <2>5. Lands(test) => Land(test)
    BY <2>2 DEF Coast, Fall, Lands
  <2>6. Cardinality(Blocks') =
          Cardinality(Blocks)
          + Cardinality(Added(test))
          - (IF FullRows # {} THEN Cardinality(Field) ELSE 0)
    <3>1. CASE Lands(test)
      <4>1. PICK slices \in LockedSlices : Settle(Locked(slices), LockPoints)
        BY <2>5, <3>1 DEF Land
      <4>2. CASE FullRows = {}
        <5>1. gameboard' = Locked(slices) /\ Added(test) = Piece
          BY <3>1, <4>1, <4>2 DEF Settle, Added
        <5> QED BY <2>3, <2>4, <4>2, <5>1, LandingAddsPiece
      <4>3. CASE FullRows # {}
        <5>1. /\ gameboard' = Collapsed(Locked(slices))
              /\ Added(test) = {c \in Piece : c[1] > Max(FullRows)}
          BY <3>1, <4>1, <4>3 DEF Settle, Added
        <5>2. Cardinality(Blocks')
                = (Cardinality(Blocks) - Cardinality(Field)) + Cardinality(Added(test))
          BY <2>3, <4>3, <5>1, LandingInClear
        <5> QED BY <2>4, <4>3, <5>2
      <4> QED BY <4>2, <4>3
    <3>2. CASE ~Lands(test)
      <4>1. Added(test) = {} /\ Cardinality(Added(test)) = 0
        BY <3>2, FS_EmptySet DEF Added
      <4>2. CASE FullRows # {}
        <5>1. gameboard' = Collapsed(gameboard)
          BY <2>2, <3>2, <4>2 DEF Coast, Fall, Land, Settle
        <5> QED BY <2>4, <4>1, <4>2, <5>1, QuietClear
      <4>3. CASE FullRows = {}
        <5>1. gameboard' = gameboard
          BY <2>2, <3>2, <4>3, QuietBoard DEF Land
        <5>2. Blocks' = Blocks
          BY <5>1 DEF Blocks, FieldCells, Field, Occupied, OnBoard, Rows, Cols
        <5> QED BY <2>4, <4>1, <4>3, <5>2
      <4> QED BY <4>2, <4>3
    <3> QED BY <3>1, <3>2
  <2> QED BY <2>6
<1> QED BY <1>1, TypeCorrect, PlayAlways, PTL DEF PlaySpec, BlocksConserved
=============================================================================
