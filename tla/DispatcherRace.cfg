SPECIFICATION Spec
CONSTANTS
    a1 = a1
    a2 = a2
    u1 = u1
    u2 = u2
    all1 = all1
    c1 = c1
    Attachers = {a1, a2}
    Unloaders = {u1, u2}
    UnloadAll = {}
    Cleaners = {}
    Target <- UnloadEither
    MAX_RETRY = 2
    MAX_DISPATCHER_ACTIONS = 2
    MaxIp = 1
    Faults = TRUE
    Crashes = TRUE
    NONE = NONE
    LEGACY = LEGACY
INVARIANTS
    TypeOK
    PinnedUntilCleaned
    NoStalePins
PROPERTIES
    ImplementsHookContents
    AllReturn
CHECK_DEADLOCK FALSE
