\* Three clerks and an asset, given three times; any requests overlap.
CONSTANTS
    Asset = {a1}
    NoAsset = NoAsset
    Assignment = {n1, n2, n3}
    Ticket = {k1}
    Nothing = Nothing
    Clerk = {c1, c2, c3}
    MaxFaults = 1
SYMMETRY Symmetry
SPECIFICATION Spec
INVARIANTS
    OneHolder
    HeldIsAssigned
PROPERTY
    ImplementsCustody
CHECK_DEADLOCK FALSE
