-------------------------------- MODULE Ball --------------------------------
(***************************************************************************)
(* The bouncing ball of src/ECE385_6.2 (wpsass2, pw16): position and       *)
(* motion as ten-bit words.  One step is one rising edge of the frame      *)
(* clock, or a reset.                                                      *)
(***************************************************************************)
EXTENDS Integers

CONSTANTS Ball_X_Center, Ball_Y_Center, Ball_X_Max, Ball_Y_Max

Ball_Size == 4
Ball_X_Min == 0
Ball_Y_Min == 0

(* The center is on the screen, the screen within the words. *)
ASSUME BallAssumption ==
    /\ Ball_X_Max \in 10 .. 1000 /\ Ball_Y_Max \in 10 .. 1000
    /\ Ball_X_Center \in 5 .. Ball_X_Max - 5
    /\ Ball_Y_Center \in 5 .. Ball_Y_Max - 5

VARIABLES Ball_X_Pos, Ball_X_Motion, Ball_Y_Pos, Ball_Y_Motion

ballVars == <<Ball_X_Pos, Ball_X_Motion, Ball_Y_Pos, Ball_Y_Motion>>

Forward == 1
Back    == 1023         \* -1 in ten bits
-----------------------------------------------------------------------------
(* A sum of two words is a word; the subtractions, which the source writes *)
(* with a five added on both sides, are made in thirty-two bits.           *)
AtBottom == (Ball_Y_Pos + Ball_Size) % 1024 >= Ball_Y_Max
AtTop    == Ball_Y_Pos - Ball_Size <= Ball_Y_Min
AtRight  == (Ball_X_Pos + Ball_Size) % 1024 >= Ball_X_Max
AtLeft   == Ball_X_Pos - Ball_Size <= Ball_X_Min

Motion(x, y) == Ball_X_Motion' = x /\ Ball_Y_Motion' = y

(* The edges are tested in this order; a ball in the middle keeps moving.  *)
Bounce ==
    \/ AtBottom /\ Motion(0, Back)
    \/ ~AtBottom /\ AtTop /\ Motion(0, Forward)
    \/ ~AtBottom /\ ~AtTop /\ AtRight /\ Motion(Back, 0)
    \/ ~AtBottom /\ ~AtTop /\ ~AtRight /\ AtLeft /\ Motion(Forward, 0)
    \/ ~AtBottom /\ ~AtTop /\ ~AtRight /\ ~AtLeft /\ UNCHANGED <<Ball_X_Motion, Ball_Y_Motion>>

(* The four keys override the bounce; each tests the edge it heads for.    *)
Keys == {"A", "D", "S", "W"}
(* Fault: a key does not test the edge. *)
KeyMotionThrough(key) ==
    \/ key = "A" /\ Motion(Back, 0)
    \/ key = "D" /\ Motion(Forward, 0)
    \/ key = "S" /\ Motion(0, Forward)
    \/ key = "W" /\ Motion(0, Back)
KeyMotion(key) ==
    \/ key = "A" /\ IF AtLeft THEN Motion(Forward, 0) ELSE Motion(Back, 0)
    \/ key = "D" /\ IF AtRight THEN Motion(Back, 0) ELSE Motion(Forward, 0)
    \/ key = "S" /\ IF AtBottom THEN Motion(0, Back) ELSE Motion(0, Forward)
    \/ key = "W" /\ IF AtTop THEN Motion(0, Forward) ELSE Motion(0, Back)

(* The position moves by the motion as it was before this edge. *)
Move_Ball(key) ==
    /\ IF key \in Keys THEN KeyMotion(key) ELSE Bounce
    /\ Ball_X_Pos' = (Ball_X_Pos + Ball_X_Motion) % 1024
    /\ Ball_Y_Pos' = (Ball_Y_Pos + Ball_Y_Motion) % 1024

Frame == \E key \in Keys \cup {"none"} : Move_Ball(key)

Centered ==
    /\ Ball_X_Pos = Ball_X_Center /\ Ball_Y_Pos = Ball_Y_Center
    /\ Ball_X_Motion = 0 /\ Ball_Y_Motion = 0

(* Fault: the ball is put back and keeps its motion. *)
BallResetMoving ==
    /\ Ball_X_Pos' = Ball_X_Center /\ Ball_Y_Pos' = Ball_Y_Center
    /\ UNCHANGED <<Ball_X_Motion, Ball_Y_Motion>>
BallReset ==
    /\ Ball_X_Pos' = Ball_X_Center /\ Ball_Y_Pos' = Ball_Y_Center
    /\ Motion(0, 0)

BallNext == Frame \/ BallReset

BallSpec == Centered /\ [][BallNext]_ballVars
-----------------------------------------------------------------------------
(* ball.sv:55-135: whatever keys are pressed when, the ball runs at most   *)
(* one pixel past an edge, although each bounce is a frame late, and never *)
(* slides off along another one.                                           *)
BallStaysOnScreen ==
    /\ Ball_X_Pos \in Ball_Size - 1 .. Ball_X_Max - Ball_Size + 1
    /\ Ball_Y_Pos \in Ball_Size - 1 .. Ball_Y_Max - Ball_Size + 1
=============================================================================
