----------------------------- MODULE MCParties ------------------------------
(* Values of the constants of Parties for model checking.                   *)
EXTENDS Parties, TLC

Symmetry == Permutations(Char)
=============================================================================
