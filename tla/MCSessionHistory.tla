-------------------------- MODULE MCSessionHistory --------------------------
(* Turns are interchangeable; objects are not, Spare chooses among them.     *)
EXTENDS SessionHistory, TLC

Symmetry == Permutations(Turns)
=============================================================================
