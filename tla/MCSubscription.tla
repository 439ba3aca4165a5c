--------------------------- MODULE MCSubscription ---------------------------
(* Subscription on small sets.                                               *)
EXTENDS Subscription, TLC

=============================================================================
