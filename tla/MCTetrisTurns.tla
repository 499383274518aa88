---------------------------- MODULE MCTetrisTurns ----------------------------
(* Two games for TLC: one that turns a bar and a T piece and stops at the  *)
(* first harmful change, and one that piles up squares until it is lost    *)
(* and goes on under every key.                                            *)
EXTENDS MCTetris

VARIABLE game

gameVars == <<playVars, game>>

Draws(types) == newtype' \in {newtype} \cup types

\* Without keys until the game is over, with the move keys after that.
LostNext ==
    \/ gameboard = GameOverBoard /\ \E k \in MoveKeys : PlayFrame(k)
    \/ PlayFrame("None")
    \/ PlayReset

GamesInit == PlayInit /\ game \in {"turned", "lost"}

GamesNext ==
    /\ UNCHANGED game
    /\ \/ game = "turned" /\ IntactNext /\ Draws({0, 5})
       \/ game = "lost" /\ LostNext /\ Draws({3})

GamesSpec == GamesInit /\ [][GamesNext]_gameVars
=============================================================================
