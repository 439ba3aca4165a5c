--------------------------- MODULE MCPayrollLoans ---------------------------
(* PayrollLoans on small instances.  Deciders and loans are interchangeable. *)
EXTENDS PayrollLoans, TLC

Symmetry == Permutations(Decider) \cup Permutations(Loan)
=============================================================================
