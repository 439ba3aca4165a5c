---------------------------- MODULE MCEmployment ----------------------------
(* Employment on small sets.                                                 *)
EXTENDS Employment, TLC

Symmetry == Permutations(Task) \cup Permutations(Item)
              \cup Permutations(Exit) \cup Permutations(Clerk)
=============================================================================
