SPECIFICATION Spec
CONSTANTS
    CPUs = {p1, p2}
    Actions = {1, 2, 5}
    Sizes = {60, 64}
    XDP_ACTION_MAX = 5
    MaxPackets = 2
INVARIANTS
    NoLostUpdate
    SnapshotNearlyWhole
PROPERTIES
    CountersGrow
CHECK_DEADLOCK FALSE
