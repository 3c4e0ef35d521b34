SPECIFICATION UserSpec
CONSTANTS
    p1 = p1
    p2 = p2
    Procs = {p1, p2}
    Options <- GivenOptions
    Argv <- CommandLines
    Devs = {"veth0", "veth1"}
    TooLong = "a-name-too-long-for-a-device"
    NoDevice = NoDevice
INVARIANTS
    ParsedAsWritten
    ExitTellsEffect
CHECK_DEADLOCK FALSE
