SPECIFICATION PayrollSpec
CONSTANTS
    Loan = {l1}
    NoLoan = NoLoan
    Decider = {d1, d2}
    LastStart = 3
    LastMonth = 6
    MaxAmount = 4
    LastRun = 5
INVARIANTS
    PayrollTypeOK
    Conserved
    BalanceFollowsPlan
    NoMonthPaidTwice
    PaymentsCounted
    ClosedWhenRepaid
    PaidInOrder
    OverWithheldBounded
SYMMETRY Symmetry
CHECK_DEADLOCK FALSE
