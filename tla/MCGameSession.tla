---------------------------- MODULE MCGameSession ----------------------------
(* Sessions small enough for TLC: one or two ghosts on a few cells. *)
EXTENDS GameSession, TLC

CONSTANTS g1, g2

\* The ghosts in the last column of 3 x 2 cells, or at the end of a row.
TwoGhosts == g1 :> 2 @@ g2 :> 5
RowGhost  == g1 :> 3
=============================================================================
