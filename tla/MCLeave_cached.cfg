SPECIFICATION Spec
CONSTANTS
    Leave = {l1, l2}
    NoLeave = NoLeave
    Adj = {}
    NoAdj = NoAdj
    Creator = {c1}
    Decider = {}
    Adjuster = {}
    PortalUser = {}
    PortalRoutes = {}
    LastDay = 3
    Yearly = 2
    Carry = {0}
    Delta = {}
    Opened = TRUE
    Caching = TRUE
    MaxFaults = 0
INVARIANTS
    WithinEntitlement
CHECK_DEADLOCK FALSE
