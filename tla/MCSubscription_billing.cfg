\* A payment two handlers may be at, two employees being added, two deaths.
CONSTANTS
    Session = {s1}
    NoSession = NoSession
    Buyer = {b1}
    Webhook = {w1, w2}
    Adder = {a1, a2}
    Quota = {1, 2}
    Free = 1
    Term = 0
    LastDay = 1
    MaxArchived = 1
    MaxUnchecked = 1
    MaxFaults = 2
SPECIFICATION FairSpec
INVARIANTS
    OneReceipt
    ReceiptIsService
    SeatsBounded
PROPERTY
    PaidIsServed
CHECK_DEADLOCK FALSE
