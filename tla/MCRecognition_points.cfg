\* Two requests at a time about a recognition of one or two people.
CONSTANTS
    Recognition = {r1}
    NoRecognition = NoRecognition
    User = {u1, u2}
    NoUser = NoUser
    Client = {c1, c2}
    Amount = {1, 2}
    MaxPoints = 1
    MaxFaults = 1
SPECIFICATION FairSpec
INVARIANTS
    Balanced
    EarnedWasPublished
    OverdraftBounded
PROPERTIES
    AwardedOnce
    PublishedForGood
    PublishedIsCredited
CHECK_DEADLOCK FALSE
