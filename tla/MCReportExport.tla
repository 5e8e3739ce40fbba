---------------------------- MODULE MCReportExport ----------------------------
(* Finite instances of ReportExport.  No symmetry: a liveness property runs.  *)
EXTENDS ReportExport
=============================================================================
