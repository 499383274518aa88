---------------------------- MODULE TetrisClaims ----------------------------
(***************************************************************************)
(* What FinalProject/readme.txt says of the game and the engine does not   *)
(* do.  Each claim is checked by a run of its own, which violates it.      *)
(***************************************************************************)
EXTENDS Tetris

Landing == \E test \in Tests : Land(test)

(* readme.txt:14-15: the game continues "until it tries to spawn in the    *)
(* Tetromino at an alread occupied space".  So a game that continues after *)
(* a landing has room for the new piece.  The engine looks at the board    *)
(* before the piece has landed, and at the shape of the landed piece.      *)
SpawnsOnlyInFreeSpace ==
  [][Landing => \A c \in At(SpawnX, 0, newtype', orientation') : ~Occupied(c)']_vars

(* readme.txt:14-15: the game continues, "generating random Tetrominos     *)
(* using the LSFR".  So the piece that lands is of the type last drawn.    *)
(* The engine takes the drawn type over only in a frame that finds no key  *)
(* pressed: with a key held, the old type is played again and again.       *)
LandsTheDrawnPiece == [][Landing => blockType = newtype]_vars
=============================================================================
