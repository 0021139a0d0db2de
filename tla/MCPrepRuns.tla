----------------------------- MODULE MCPrepRuns -----------------------------
(* Instances of PrepRuns for TLC. *)
EXTENDS PrepRuns, TLC

CONSTANTS j1, j2

\* titles that differ in their first words
OwnPrefix == [j \in Jobs |-> {j}]
\* the title of j2 is the beginning of that of j1
ShortTitle == j1 :> {j1} @@ j2 :> {j1, j2}
\* the same title in two cities
OnePrefix == [j \in Jobs |-> Jobs]

SymmetryOfRuns == Permutations(Runs) \cup Permutations(Handlers)
Symmetry == Permutations(Jobs) \cup Permutations(Runs) \cup Permutations(Handlers)
=============================================================================
