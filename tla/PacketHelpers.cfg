SPECIFICATION Spec
CONSTANTS
    Inputs <- MCInputs
    Vlids = {7, 4095, 8195, 70000}
    Headroom = 12
    VLAN_MAX_DEPTH = 2
INVARIANTS
    TypeOK
    CursorInBounds
    RewritesUndo
    SkipsTags
CHECK_DEADLOCK FALSE
