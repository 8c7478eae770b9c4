---------------------------- MODULE MCConnection ----------------------------
(* Instances of Connection for TLC.                                         *)
EXTENDS Connection, TLC

\* The setters are alike.
Symmetry == Permutations(Setters)

\* Bound: a second change, and with it a race of two setters, only beside the
\* first request; a second request beside one change.
FewChanges == current <= 1 \/ \A p \in Properties : value[p] <= 1
=============================================================================
