------------------------------- MODULE MCBoard -------------------------------
(* Small boards for TLC: 3 x 2 cells unless said otherwise. *)
EXTENDS Board, TLC

CONSTANTS g1, g2

\* Two ghosts in the corners of the last column, the pacman in the first.
TwoGhosts == g1 :> 2 @@ g2 :> 5
\* Two ghosts in one column of four cells.
ColumnGhosts == g1 :> 2 @@ g2 :> 3
=============================================================================
