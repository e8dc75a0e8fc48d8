------------------------------ MODULE MCOptimizer ------------------------------
(* A report that names an invoice twice; verifier.py with two definitions   *)
(* the splice can replace and one it cannot.                                *)
EXTENDS Optimizer

MCReports == {<<>>, <<"a", "b", "a">>}
=============================================================================
