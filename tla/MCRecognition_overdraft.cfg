\* Two redemptions of one person at a time.
CONSTANTS
    Recognition = {r1}
    NoRecognition = NoRecognition
    User = {u1, u2}
    NoUser = NoUser
    Client = {c1, c2}
    Amount = {1, 2}
    MaxPoints = 2
    MaxFaults = 1
SPECIFICATION Spec
INVARIANT NoOverdraft
CHECK_DEADLOCK FALSE
