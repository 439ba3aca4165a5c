\* Two requests at a time about one employee.
CONSTANTS
    Employee = {e1}
    Exit = {x1, x2}
    Nobody = Nobody
    Task = {s1, s2}
    Item = {i1, i2}
    Clerk = {c1, c2}
SYMMETRY Symmetry
SPECIFICATION Spec
INVARIANTS
    GraduatesWhenDone
    SomebodyNotices
    LeaversStay
PROPERTY
    DecidedOnce
CHECK_DEADLOCK FALSE
