SPECIFICATION Spec
CONSTANTS
    Size = 4
    U32 = 8
    Batches = {1, 2, 3}
    MaxItems = 18
INVARIANTS
    EntriesIntact
    NoOverrun
PROPERTIES
    ImplementsQueue
    AllDelivered
CHECK_DEADLOCK FALSE
