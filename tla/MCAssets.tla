------------------------------ MODULE MCAssets ------------------------------
(* Assets on small sets.                                                     *)
EXTENDS Assets, TLC

Symmetry == Permutations(Asset) \cup Permutations(Assignment)
              \cup Permutations(Ticket) \cup Permutations(Clerk)
=============================================================================
