SPECIFICATION FairSpec
CONSTANTS
    Run = {r1}
    NoRun = NoRun
    Emp = {e1}
    Adj = {a1}
    Leave = {v1}
    Loan = {l1}
    Req = {q1}
    Handler = {h1}
    Routes = {"create", "edit", "sync"}
    Concurrency = 2
    Attempts = 3
    MaxFaults = 2
    MaxAmount = 2
INVARIANTS
    NoDoubleDeduction
PROPERTIES
    JobsSettle
