--------------------------- MODULE MCAsyncClient ---------------------------
(* Instances of AsyncClient for TLC. *)
EXTENDS AsyncClient, TLC

Symmetry == Permutations(Ops) \cup Permutations(Slots)
=============================================================================
