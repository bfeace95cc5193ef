-------------------------- MODULE MCTwoLaneQueue ---------------------------
(* TwoLaneQueue for TLC: keys and workers are interchangeable.             *)
EXTENDS TwoLaneQueue, TLC

Symmetry == Permutations(Keys) \cup Permutations(Workers)

=============================================================================
