------------------------------- MODULE Tetris -------------------------------
(***************************************************************************)
(* The game engine of the final project: module ball of                    *)
(* FinalProject/ball.sv, clocked once per video frame (VGA_VS).            *)
(*                                                                         *)
(* One Frame is one clock edge.  Assignments in the source are             *)
(* non-blocking: every right-hand side and every collision test reads the  *)
(* values from before the edge, and where a register is assigned more than *)
(* once the last assignment in the text wins.  A frame therefore has three *)
(* layers: the key decoder, the step of the piece (which overrides what    *)
(* the key decoder did to the position) and the row clear (which overrides *)
(* what the step wrote into the board).                                    *)
(*                                                                         *)
(* The board is a function from row numbers to the set of columns whose    *)
(* bit is 1: side walls, floor and landed blocks are all just bits.        *)
(* The registers of the bouncing ball of an earlier lab that are still in  *)
(* the file (Ball_X_Pos and so on) drive nothing and are left out.         *)
(***************************************************************************)
EXTENDS TetrominoRom, FiniteSetsExt

CONSTANTS
  XMod,           \* bits of a board row = values of xpos (16)
  YMod,           \* values of ypos (32)
  LeftWall,       \* column of the left wall (2)
  RightWall,      \* column of the right wall (13)
  Depth,          \* row of the floor = number of playable rows (20)
  SpawnX,         \* xpos of a new piece (4)
  GameOverBoard,  \* the END picture written when the game is over
  MoveAt,         \* counter value at which a piece falls (63)
  LockPoints,     \* score for a landed piece (64)
  ClearPoints,    \* score for a cleared row (512)
  PointsPerSpeed, \* score that makes the counter one step faster (4096)
  ScoreMod,       \* values of score (2^24)
  RandomTypes,    \* types the random number generator may deliver (0..7)
  Keys            \* keys pressed: subset of AllKeys

VARIABLES
  gameboard, xpos, ypos,
  orientation,      \* of the falling piece
  neworientation,   \* adopted when no key is pressed
  midorientation,   \* candidate of the rotation test
  blockType,        \* of the falling piece
  newtype,          \* adopted when no key is pressed
  Block_X_Motion, Block_Y_Motion,  \* the pending move, applied on release
  pressed, counter, score

vars == <<gameboard, xpos, ypos, orientation, neworientation, midorientation,
          blockType, newtype, Block_X_Motion, Block_Y_Motion, pressed,
          counter, score>>

(* The key codes the decoder names, and None for every other code.  W is   *)
(* one of the latter: its branch is commented out in the source.           *)
AllKeys == {"A", "D", "S", "W", "Up", "Down", "None"}

Rows  == 0..(Depth + 2)
Cols  == 0..(XMod - 1)
Field == (LeftWall + 1)..(RightWall - 1)
Boards == [Rows -> SUBSET Cols]

(* The 4 x 4 window of a piece is always inside the word when the piece is *)
(* inside the field, and two spare rows lie below the floor.  A new piece  *)
(* has a free column on either side and a free row below its window.       *)
ASSUME GeometryAssumption ==
  /\ {XMod, YMod, LeftWall, RightWall, Depth, SpawnX} \subseteq Nat
  /\ LeftWall >= 2 /\ LeftWall < RightWall /\ RightWall + 3 <= XMod
  /\ Depth >= 5 /\ Depth + 3 <= YMod
  /\ LeftWall + 1 < SpawnX /\ SpawnX + 4 < RightWall
  /\ GameOverBoard \in Boards

(* The END picture fills no row, and leaves no piece room to start.        *)
ASSUME PictureAssumption ==
  /\ \A r \in 0..(Depth - 1) : ~(Field \subseteq GameOverBoard[r])
  /\ \A t \in PieceTypes, o \in Orientations :
       \E c \in Cells(t, o) : SpawnX + c[2] \in GameOverBoard[c[1]]

ASSUME RateAssumption ==
  /\ {LockPoints, ClearPoints} \subseteq Nat
  /\ MoveAt \in Nat \ {0}
  /\ PointsPerSpeed \in Nat \ {0}
  /\ ScoreMod \in Nat \ {0}

ASSUME InputAssumption ==
  /\ RandomTypes \subseteq PieceTypes
  /\ RandomTypes # {}
  /\ Keys \subseteq AllKeys

(***************************************************************************)
(* Collision tests.                                                        *)
(***************************************************************************)

(* The board positions a piece covers, as <<row, column>>. *)
At(x, y, t, o) == {<<y + c[1], x + c[2]>> : c \in Cells(t, o)}

Piece == At(xpos, ypos, blockType, orientation)

OnBoard(cell)  == cell[1] \in Rows /\ cell[2] \in Cols
Occupied(cell) == OnBoard(cell) /\ cell[2] \in gameboard[cell[1]]

(* What the AND of board rows and piece rows may show as non-zero.  A bit  *)
(* read outside the array is undefined, so it may or may not be 1.         *)
Test(cells) ==
  IF \E c \in cells : Occupied(c) THEN {TRUE}
  ELSE IF \A c \in cells : OnBoard(c) THEN {FALSE}
  ELSE BOOLEAN

(* Fault: the rotation test looks at the present orientation. *)
TestsAtPresentOrientation ==
  [left   : Test(At(xpos - 1, ypos, blockType, orientation)),
   right  : Test(At(xpos + 1, ypos, blockType, orientation)),
   down   : Test(At(xpos, ypos + 1, blockType, orientation)),
   rotate : Test(At(xpos, ypos, blockType, orientation)),
   end    : Test(At(SpawnX, 0, blockType, orientation))]

(* Fault: the end test looks at the top left corner of the board word. *)
TestsEndAtCorner ==
  [left   : Test(At(xpos - 1, ypos, blockType, orientation)),
   right  : Test(At(xpos + 1, ypos, blockType, orientation)),
   down   : Test(At(xpos, ypos + 1, blockType, orientation)),
   rotate : Test(At(xpos, ypos, blockType, midorientation)),
   end    : Test(At(0, 0, blockType, orientation))]

(* The five test wires.  End looks at the piece that lands now, not at the *)
(* one that comes next, and at the board before it has landed.             *)
Tests == [left   : Test(At(xpos - 1, ypos, blockType, orientation)),
          right  : Test(At(xpos + 1, ypos, blockType, orientation)),
          down   : Test(At(xpos, ypos + 1, blockType, orientation)),
          rotate : Test(At(xpos, ypos, blockType, midorientation)),
          end    : Test(At(SpawnX, 0, blockType, orientation))]

(***************************************************************************)
(* The key decoder.                                                        *)
(***************************************************************************)
MoveKeys   == {"A", "D", "S"}
RotateKeys == {"Up", "Down"}

Blocked(k, test) == CASE k = "A" -> test.left
                      [] k = "D" -> test.right
                      [] k = "S" -> test.down

MotionOf(k) == CASE k = "A" -> <<-1, 0>>
                 [] k = "D" -> <<1, 0>>
                 [] k = "S" -> <<0, 1>>

(* Fault: a key that is held is not tested again. *)
LatchMotionOnce(k, test) ==
  LET motion == IF ~pressed THEN <<0, 0>>
                ELSE IF k \notin MoveKeys \/ Block_X_Motion # 0
                  THEN <<Block_X_Motion, Block_Y_Motion>>
                ELSE IF Blocked(k, test) THEN <<0, 0>>
                ELSE MotionOf(k)
  IN  /\ Block_X_Motion' = motion[1]
      /\ Block_Y_Motion' = motion[2]

(* A move key latches a motion if its target is free.  Whatever it did to  *)
(* the motion is overridden when no key was pressed before this frame: the *)
(* pending motion is being applied and is cleared.                         *)
LatchMotion(k, test) ==
  LET motion == IF ~pressed THEN <<0, 0>>
                ELSE IF k \notin MoveKeys THEN <<Block_X_Motion, Block_Y_Motion>>
                ELSE IF Blocked(k, test) THEN <<0, 0>>
                ELSE MotionOf(k)
  IN  /\ Block_X_Motion' = motion[1]
      /\ Block_Y_Motion' = motion[2]

(* A rotation key proposes the next orientation; the proposal of the frame *)
(* before is accepted if it collides with nothing.                         *)
LatchRotation(k, test) ==
  /\ midorientation' = CASE k = "Up"   -> (orientation + 1) % 4
                         [] k = "Down" -> (orientation + 3) % 4
                         [] OTHER      -> midorientation
  /\ neworientation' = IF k \in RotateKeys /\ ~test.rotate
                         THEN midorientation ELSE neworientation

(* A blocked move key leaves pressed as it was. *)
LatchPressed(k, test) ==
  pressed' = CASE k \in MoveKeys   -> pressed \/ ~Blocked(k, test)
               [] k \in RotateKeys -> TRUE
               [] OTHER            -> FALSE

DecodeKey(k, test) ==
  /\ LatchMotion(k, test)
  /\ LatchRotation(k, test)
  /\ LatchPressed(k, test)

(* On a frame that finds no key pressed the piece takes over orientation   *)
(* and type; neither is tested here.                                       *)
AdoptShape ==
  /\ orientation' = IF pressed THEN orientation ELSE neworientation
  /\ blockType'   = IF pressed THEN blockType ELSE newtype

(***************************************************************************)
(* The step of the piece.                                                  *)
(***************************************************************************)

(* Fault: a position register wide enough not to wrap. *)
MovedUnwrapped(pos, motion, mod) == IF pressed THEN pos ELSE pos + motion

(* Where the piece goes when no gravity step overrides the pending motion. *)
Moved(pos, motion, mod) == IF pressed THEN pos ELSE (pos + motion) % mod

(* Four-bit addition of a board slice and a piece row, carry out dropped:  *)
(* the union when the operands are disjoint, a corrupted slice when not.   *)
NibbleSum(S, T) ==
  LET two(a, b, c) == (a /\ b) \/ (a /\ c) \/ (b /\ c)
      c1 == 0 \in S /\ 0 \in T
      c2 == two(1 \in S, 1 \in T, c1)
      c3 == two(2 \in S, 2 \in T, c2)
      carry(b) == (b = 1 /\ c1) \/ (b = 2 /\ c2) \/ (b = 3 /\ c3)
  IN  {b \in 0..3 : (b \in S) # ((b \in T) # carry(b))}

(* The columns of the board word that the piece window reaches. *)
Window == {xpos + b : b \in 0..3} \cap Cols

(* The four slices after the piece has been added to them.  A slice that   *)
(* reaches outside the word reads undefined bits, and so its sum is any.   *)
LockedSlices ==
  IF xpos + 3 \in Cols
    THEN {[r \in 0..3 |->
            {xpos + b : b \in
               NibbleSum({s \in 0..3 : Occupied(<<ypos + r, xpos + s>>)},
                         PieceRow(blockType, orientation, r))}]}
    ELSE [0..3 -> SUBSET Window]

(* The board with the slices written back; rows outside the array are lost. *)
Locked(slices) ==
  [r \in Rows |-> IF r - ypos \in 0..3
                    THEN (gameboard[r] \ Window) \cup slices[r - ypos]
                    ELSE gameboard[r]]

FullRows == {r \in 0..(Depth - 1) : Field \subseteq gameboard[r]}

(* Fault: the rows move down with what this frame's landing wrote in them. *)
CollapsedWritten(written) ==
  [r \in Rows |->
     IF r > Max(FullRows) THEN written[r]
     ELSE (written[r] \ Field)
          \cup (IF r = 0 THEN {} ELSE written[r - 1] \cap Field)]

(* Fault: whole words move down instead of the inside of the field. *)
CollapsedWords(written) ==
  [r \in Rows |->
     IF r > Max(FullRows) THEN written[r]
     ELSE IF r = 0 THEN {} ELSE gameboard[r - 1]]

(* Rows up to the lowest full one move down inside the field, read from    *)
(* the board before this frame; everything else keeps the value written    *)
(* before.                                                                 *)
Collapsed(written) ==
  [r \in Rows |->
     IF r > Max(FullRows) THEN written[r]
     ELSE (written[r] \ Field)
          \cup (IF r = 0 THEN {} ELSE gameboard[r - 1] \cap Field)]

(* Fault: what a landing writes comes last and replaces the row clear. *)
SettleStepLast(written, points) ==
  IF FullRows = {} \/ written # gameboard
    THEN /\ gameboard' = written
         /\ score' = (score + points) % ScoreMod
    ELSE /\ gameboard' = Collapsed(written)
         /\ score' = (score + ClearPoints) % ScoreMod

(* The board and the score, given what the step of the piece wrote: the    *)
(* row clear comes last, and its points replace those of the step.         *)
Settle(written, points) ==
  IF FullRows = {}
    THEN /\ gameboard' = written
         /\ score' = (score + points) % ScoreMod
    ELSE /\ gameboard' = Collapsed(written)
         /\ score' = (score + ClearPoints) % ScoreMod

speed == 1 + score \div PointsPerSpeed
move  == counter >= MoveAt

(* The piece lands; then there is room for the next one, or there is not. *)
Lands(test) == move /\ test.down /\ ~test.end
Ends(test)  == move /\ test.down /\ test.end

(* Fault: a held key starts the gravity count over. *)
CoastKeyRestarts ==
  /\ ~move
  /\ counter' = IF pressed THEN 0 ELSE counter + speed
  /\ xpos' = Moved(xpos, Block_X_Motion, XMod)
  /\ ypos' = Moved(ypos, Block_Y_Motion, YMod)
  /\ Settle(gameboard, 0)
  /\ UNCHANGED newtype

(* No gravity this frame: only the pending motion moves the piece. *)
Coast ==
  /\ ~move
  /\ counter' = counter + speed
  /\ xpos' = Moved(xpos, Block_X_Motion, XMod)
  /\ ypos' = Moved(ypos, Block_Y_Motion, YMod)
  /\ Settle(gameboard, 0)
  /\ UNCHANGED newtype

(* Gravity finds room below and overrides a pending downward motion. *)
Fall(test) ==
  /\ move /\ ~test.down
  /\ counter' = 0
  /\ xpos' = Moved(xpos, Block_X_Motion, XMod)
  /\ ypos' = (ypos + 1) % YMod
  /\ Settle(gameboard, 0)
  /\ UNCHANGED newtype

(* The piece lands and the next one starts, with a random type that it     *)
(* takes over on the first frame that finds no key pressed.                *)
Land(test) ==
  /\ Lands(test)
  /\ counter' = 0
  /\ xpos' = SpawnX
  /\ ypos' = 0
  /\ newtype' \in RandomTypes
  /\ \E slices \in LockedSlices : Settle(Locked(slices), LockPoints)

(* The piece lands and there is no room: the END picture replaces the      *)
(* board and the piece is parked in the corner outside the array.          *)
GameOver(test) ==
  /\ Ends(test)
  /\ counter' = 0
  /\ xpos' = XMod - 1
  /\ ypos' = YMod - 1
  /\ Settle(GameOverBoard, LockPoints)
  /\ UNCHANGED newtype

(* One clock edge with key code k and these values on the test wires. *)
Edge(k, test) ==
  /\ DecodeKey(k, test)
  /\ AdoptShape
  /\ Coast \/ Fall(test) \/ Land(test) \/ GameOver(test)

Frame(k) == \E test \in Tests : Edge(k, test)

(***************************************************************************)
(* Reset.                                                                  *)
(***************************************************************************)
EmptyBoard ==
  [r \in Rows |-> IF r < Depth THEN {LeftWall, RightWall}
                  ELSE IF r = Depth THEN LeftWall..RightWall
                  ELSE {}]

(* KEY[0], asynchronous.  The pending motion, both orientation candidates  *)
(* and the next type are not reset: the new game inherits them.            *)
Reset ==
  /\ pressed' = FALSE
  /\ gameboard' = EmptyBoard
  /\ blockType' = 0 /\ orientation' = 0
  /\ xpos' = SpawnX /\ ypos' = 0
  /\ counter' = 0 /\ score' = 0
  /\ UNCHANGED <<neworientation, midorientation, newtype,
                 Block_X_Motion, Block_Y_Motion>>

(* Power-up: registers with a reset value start with it, the others at 0.  *)
Init ==
  /\ pressed = FALSE
  /\ gameboard = EmptyBoard
  /\ blockType = 0 /\ orientation = 0
  /\ xpos = SpawnX /\ ypos = 0
  /\ counter = 0 /\ score = 0
  /\ neworientation = 0 /\ midorientation = 0 /\ newtype = 0
  /\ Block_X_Motion = 0 /\ Block_Y_Motion = 0

Step == \E k \in Keys : Frame(k)
Next == Step \/ Reset
Spec == Init /\ [][Next]_vars

(* The video controller never stops producing frames. *)
FairSpec == Spec /\ WF_vars(Step)
=============================================================================
