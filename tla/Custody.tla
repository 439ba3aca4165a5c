------------------------------- MODULE Custody -------------------------------
(* What the assignments of assets promise: an asset that did not go astray   *)
(* is given only when nobody holds it, and an assignment of it ends once.    *)
CONSTANTS
    Asset,          \* assets
    NoAsset,        \* the asset of an assignment that is not made
    Assignment      \* assignments that may be made

VARIABLES
    assignment,     \* the assignments: of what, and how far
    astray          \* the assets nothing is promised of any more

vars == <<assignment, astray>>

Open(a) == {n \in Assignment : assignment[n] = [asset |-> a, state |-> "assigned"]}

Init ==
    /\ assignment = [n \in Assignment |-> [asset |-> NoAsset, state |-> "none"]]
    /\ astray = {}

Give(n, a) ==
    /\ assignment[n].state = "none"
    /\ a \in astray \/ Open(a) = {}
    /\ assignment' = [assignment EXCEPT ![n] = [asset |-> a, state |-> "assigned"]]
    /\ UNCHANGED astray

End(n, outcome) ==
    /\ \/ assignment[n].state = "assigned"
       \/ assignment[n].state # "none" /\ assignment[n].asset \in astray
    /\ assignment' = [assignment EXCEPT ![n].state = outcome]
    /\ UNCHANGED astray

Stray(a) ==
    /\ astray' = astray \cup {a}
    /\ UNCHANGED assignment

Next ==
    \/ \E n \in Assignment, a \in Asset : Give(n, a)
    \/ \E n \in Assignment, outcome \in {"returned", "lost"} : End(n, outcome)
    \/ \E a \in Asset : Stray(a)

Spec == Init /\ [][Next]_vars
=============================================================================
