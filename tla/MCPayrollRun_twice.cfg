SPECIFICATION Spec
CONSTANTS
    Run = {r1, r2}
    NoRun = NoRun
    Emp = {e1}
    Adj = {a1}
    Leave = {v1}
    Loan = {}
    Req = {q1, q2}
    Handler = {}
    Routes = {}
    Concurrency = 2
    Attempts = 2
    MaxFaults = 1
    MaxAmount = 1
INVARIANTS
    OnePayslipEach
