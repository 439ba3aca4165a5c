------------------------------- MODULE MCLeave -------------------------------
(* Leave on small instances.  Handlers of one kind, requests and adjustments *)
(* are interchangeable.                                                      *)
EXTENDS Leave, TLC

Symmetry == Permutations(Leave) \cup Permutations(Creator) \cup Permutations(Decider)
              \cup Permutations(Adj) \cup Permutations(Adjuster)
=============================================================================
