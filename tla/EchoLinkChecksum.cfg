SPECIFICATION Spec
CONSTANTS
    Inputs <- IcmpInputs
    MaxTx = 2
    MaxSent = 1
INVARIANTS
    ChecksumFixed
CHECK_DEADLOCK FALSE
