SPECIFICATION Spec
CONSTANTS
    Inputs <- ArpInput
    MaxTx = 2
    MaxSent = 1
INVARIANTS
    OnlyUdpEchoed
CHECK_DEADLOCK FALSE
