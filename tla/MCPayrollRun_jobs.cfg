SPECIFICATION Spec
CONSTANTS
    Run = {r1, r2}
    NoRun = NoRun
    Emp = {e1}
    Adj = {}
    Leave = {v1}
    Loan = {}
    Req = {q1, q2}
    Handler = {}
    Routes = {}
    Concurrency = 2
    Attempts = 3
    MaxFaults = 1
    MaxAmount = 0
INVARIANTS
    TotalsFoot
    NoOrphans
    ApprovedIsPaid
    PayslipsBounded
    CompletedJobsPaid
PROPERTIES
    PaidOnceForGood
SYMMETRY Symmetry
