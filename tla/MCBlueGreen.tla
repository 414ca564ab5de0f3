---------------------------- MODULE MCBlueGreen ----------------------------
(* Instances of BlueGreen.                                                  *)
EXTENDS BlueGreen, TLC

\* The liveness runs cannot use SYMMETRY; the hashes are interchangeable all
\* the same, so they start from one of them.
FirstHash == CHOOSE h \in Hash : TRUE
MCInit == Init /\ spec.template = FirstHash
MCFairSpec == MCInit /\ [][Next]_vars /\ Fairness

Symmetry == Permutations(Hash)
=============================================================================
