--------------------------- MODULE MCRequestQueue ---------------------------
(* Small instances of RequestQueue for TLC. *)
EXTENDS RequestQueue, TLC

\* Clients and managers are interchangeable in every safety property.
Symmetry == Permutations(Clients) \cup Permutations(Managers)
=============================================================================
