---------------------------- MODULE MCJobHistory ----------------------------
(* Instances of JobHistory for TLC. *)
EXTENDS JobHistory, TLC

Symmetry == Permutations(Jobs) \cup Permutations(Handlers)
=============================================================================
