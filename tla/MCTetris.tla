------------------------------ MODULE MCTetris ------------------------------
(* Small instances of the Tetris engine for TLC. *)
EXTENDS TetrisPlay, TetrisClaims

MCGameOverBoard == [r \in Rows |-> IF r \in {1, 2} THEN 5..7 ELSE {}]

(* A game at its fourth piece, a square over the gap it fits: two rows are *)
(* full when it is down, a pile on the left is close to the new piece, and *)
(* the score makes gravity quick enough to land a bar while they clear.    *)
(* (Three squares dropped to the left, left and right lead here.)          *)
LateBoard ==
  [r \in Rows |-> IF r \in {4, 5} THEN {2, 3, 4} \cup {7, 8, 9}
                  ELSE IF r \in {2, 3} THEN {2, 3, 4} \cup {9}
                  ELSE EmptyBoard[r]]

LateInit ==
  /\ gameboard = LateBoard
  /\ xpos = SpawnX /\ ypos = 0
  /\ blockType = 3 /\ newtype = 3
  /\ orientation = 0 /\ neworientation = 0 /\ midorientation = 0
  /\ Block_X_Motion = 0 /\ Block_Y_Motion = 0 /\ pressed = FALSE
  /\ counter = 0 /\ score = 3
  /\ moveFresh = FALSE /\ turnFresh = FALSE /\ intact = TRUE

(* Play that stops at the first harmful change: the properties about an    *)
(* intact game say nothing about what comes after.                         *)
IntactNext == (intact /\ PlayStep) \/ PlayReset
IntactSpec == (PlayInit \/ LateInit) /\ [][IntactNext]_playVars
FairIntactSpec == IntactSpec /\ WF_playVars(intact /\ PlayStep)

(* A game that nobody resets. *)
UndisturbedSpec == PlayInit /\ [][PlayStep]_playVars /\ WF_playVars(PlayStep)

(* The END picture of the real board, rows 0 to 22 (ball.sv:307-330). *)
Picture == <<
  {},
  4..11,
  4..11,
  4..6,
  4..11,
  4..6,
  4..11,
  4..11,
  {},
  (4..6) \cup (10..11),
  (4..7) \cup (10..11),
  (4..5) \cup (7..8) \cup (10..11),
  (4..5) \cup (8..11),
  (4..5) \cup (9..11),
  (4..5) \cup (10..11),
  {},
  4..8,
  4..10,
  (4..5) \cup (9..11),
  (4..5) \cup (10..11),
  (4..5) \cup (9..11),
  4..10,
  4..8
>>
RealGameOverBoard == [r \in Rows |-> Picture[r + 1]]
=============================================================================
