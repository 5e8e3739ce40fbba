---------------------------- MODULE MCAlertOutbox ----------------------------
(* Finite instances of AlertOutbox.                                         *)
EXTENDS AlertOutbox, TLC

\* Dispatchers are only compared for equality.
Symmetry == Permutations(Dispatchers)
=============================================================================
