SPECIFICATION Spec
CONSTANTS
    Inputs <- MCInputs
    MaxTx = 4
    MaxSent = 2
INVARIANTS
    ReflectedAtMostOnce
    ReflectsEchoRequests
    UdpTurnsByParity
PROPERTIES
    RequestsAreBypassed
    WireDrains
CHECK_DEADLOCK FALSE
