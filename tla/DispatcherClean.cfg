SPECIFICATION Spec
CONSTANTS
    a1 = a1
    a2 = a2
    u1 = u1
    u2 = u2
    all1 = all1
    c1 = c1
    Attachers = {a1, a2}
    Unloaders = {}
    UnloadAll = {all1}
    Cleaners = {c1}
    Target <- UnloadNothing
    MAX_RETRY = 0
    MAX_DISPATCHER_ACTIONS = 2
    MaxIp = 1
    Faults = TRUE
    Crashes = TRUE
    NONE = NONE
    LEGACY = LEGACY
PROPERTIES
    ImplementsHookContents
    CleanReclaims
CHECK_DEADLOCK FALSE
