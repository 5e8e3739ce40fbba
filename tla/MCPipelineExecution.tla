------------------------- MODULE MCPipelineExecution -------------------------
(* Finite instances of PipelineExecution.                                   *)
EXTENDS PipelineExecution, TLC

\* Runs differ only in what they do.
Symmetry == Permutations(Runs)
=============================================================================
