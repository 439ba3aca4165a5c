SPECIFICATION Spec
CONSTANTS
    Leave = {l1}
    NoLeave = NoLeave
    Adj = {a1, a2}
    NoAdj = NoAdj
    Creator = {c1}
    Decider = {d1}
    Adjuster = {h1, h2}
    PortalUser = {p1}
    PortalRoutes = {"create"}
    LastDay = 1
    Yearly = 1
    Carry = {0}
    Delta = {1}
    Opened = FALSE
    Caching = TRUE
    MaxFaults = 1
INVARIANTS
    TakenIsApproved
    AdjustmentsFoot
SYMMETRY Symmetry
CHECK_DEADLOCK FALSE
