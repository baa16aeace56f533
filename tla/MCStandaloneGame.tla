--------------------------- MODULE MCStandaloneGame ---------------------------
(* The standalone game with interchangeable ghosts. *)
EXTENDS StandaloneGame, TLC

Symmetry == Permutations(Ghosts)
=============================================================================
