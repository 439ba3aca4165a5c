SPECIFICATION Spec
CONSTANTS
    Leave = {l1, l2}
    NoLeave = NoLeave
    Adj = {}
    NoAdj = NoAdj
    Creator = {c1, c2}
    Decider = {d1}
    Adjuster = {}
    PortalUser = {p1}
    PortalRoutes = {"decide"}
    LastDay = 2
    Yearly = 1
    Carry = {0, 1}
    Delta = {}
    Opened = TRUE
    Caching = FALSE
    MaxFaults = 0
INVARIANTS
    NoOverlap
    AskedWithinEntitlement
    TakenIsApproved
SYMMETRY Symmetry
CHECK_DEADLOCK FALSE
