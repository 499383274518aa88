------------------------------- MODULE Video --------------------------------
(***************************************************************************)
(* The picture of src/ECE385_6.2 (wpsass2, pw16): the VGA controller,      *)
(* whose vertical sync is the frame clock of the ball.  One step is one    *)
(* rising edge of the 50 MHz clock, or the reset button.                   *)
(***************************************************************************)
EXTENDS Ball

CONSTANTS
    hpixels, vlines,        \* the last pixel of a line, the last line
    Width, Height,          \* the visible part
    HSyncFirst, HSyncEnd,   \* pixels of the horizontal pulse, the end excluded
    VSyncFirst              \* the first of the two lines of the vertical pulse

ASSUME RasterAssumption ==
    /\ hpixels \in Nat /\ vlines \in Nat
    /\ Width \in 1 .. hpixels /\ Height \in 1 .. vlines - 3
    /\ HSyncFirst \in Width + 1 .. hpixels /\ HSyncEnd \in HSyncFirst + 1 .. hpixels
    /\ VSyncFirst \in Height + 1 .. vlines - 1

VARIABLES clkdiv, hc, vc, hs, vs

rasterVars == <<clkdiv, hc, vc, hs, vs>>
videoVars == <<rasterVars, ballVars>>
-----------------------------------------------------------------------------
(* Fault: the line counter is never put back. *)
CountersNoLastLine ==
    /\ hc' = IF hc = hpixels THEN 0 ELSE hc + 1
    /\ vc' = IF hc # hpixels THEN vc ELSE vc + 1
Counters ==
    /\ hc' = IF hc = hpixels THEN 0 ELSE hc + 1
    /\ vc' = IF hc # hpixels THEN vc
             ELSE IF vc = vlines THEN 0 ELSE vc + 1

(* Fault: the pulse begins with the picture's last line. *)
VSyncEarly == vc + 1 \notin {Height - 1, Height}
HSync == hc + 1 \notin HSyncFirst .. HSyncEnd - 1
VSync == vc + 1 \notin {VSyncFirst, VSyncFirst + 1}

display == hc < Width /\ vc < Height

PixelEdge == ~clkdiv
FrameEdge == ~vs /\ vs'

Clk ==
    /\ clkdiv' = ~clkdiv
    /\ IF PixelEdge
       THEN Counters /\ hs' = HSync /\ vs' = VSync
       ELSE UNCHANGED <<hc, vc, hs, vs>>
    /\ IF FrameEdge THEN Frame ELSE UNCHANGED ballVars

VideoReset ==
    /\ clkdiv' = FALSE /\ hc' = 0 /\ vc' = 0
    /\ hs' = FALSE /\ vs' = FALSE
    /\ BallReset

VideoInit ==
    /\ clkdiv = FALSE /\ hc = 0 /\ vc = 0
    /\ hs = FALSE /\ vs = FALSE
    /\ Centered

VideoNext == Clk \/ VideoReset

VideoSpec == VideoInit /\ [][VideoNext]_videoVars
-----------------------------------------------------------------------------
VideoTypeOK ==
    /\ hc \in 0 .. hpixels /\ vc \in 0 .. vlines
    /\ {clkdiv, hs, vs} \subseteq BOOLEAN
    /\ {Ball_X_Motion, Ball_Y_Motion} \subseteq {0, Forward, Back}

(* VGA_controller.sv:86-111: a pulse is never inside the picture, but for  *)
(* the first pixel after a reset, which finds both low.                    *)
SyncOutsidePicture == ~hs \/ ~vs => ~display \/ (hc = 0 /\ vc = 0)

(* lab62.sv:164-166: the ball moves only while no pixel of the picture is  *)
(* drawn, in the frame edge that the end of a reset makes as well.         *)
NoTearing ==
    [][<<Ball_X_Pos, Ball_Y_Pos>>' # <<Ball_X_Pos, Ball_Y_Pos>> =>
          ~display' \/ VideoReset]_videoVars
=============================================================================
