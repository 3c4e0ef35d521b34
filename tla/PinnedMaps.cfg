SPECIFICATION Spec
CONSTANTS
    l1 = l1
    l2 = l2
    l3 = l3
    m1 = m1
    m2 = m2
    m3 = m3
    Loaders = {l1, l2, l3}
    Names = {m1, m2, m3}
    Defined <- Objects
    Requested <- Wanted
    Faults = TRUE
    FlakyReuse = {l3}
    NONE = NONE
    STALE = STALE
INVARIANTS
    TypeOK
    HandlesAgree
    SharedOrWarned
CHECK_DEADLOCK FALSE
