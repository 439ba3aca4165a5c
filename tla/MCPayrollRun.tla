---------------------------- MODULE MCPayrollRun ----------------------------
(* PayrollRun on small instances.  The sets are model values given in the    *)
(* configurations; employees, runs and run requests are interchangeable, so  *)
(* the run that checks no liveness folds their permutations.                 *)
EXTENDS PayrollRun, TLC

Symmetry == Permutations(Req) \cup Permutations(Emp) \cup Permutations(Run)
=============================================================================
