---------------------------- MODULE MCBillReports -----------------------------
(* Finite instances of BillReports.                                         *)
EXTENDS BillReports, TLC

\* Requests differ only in what they do.
Symmetry == Permutations(Requests)
=============================================================================
