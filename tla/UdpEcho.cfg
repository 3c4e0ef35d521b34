SPECIFICATION Spec
CONSTANTS
    c1 = c1
    c2 = c2
    Clients = {c1, c2}
    Count = 2
    Payload <- EmptyAndOversized
    BUF_SZ = 2048
    MaxLost <- OnlySecond
    MaxDups <- OnlySecond
    MaxFails <- OnlySecond
    MaxErrs = 1
    MaxTicks <- OnlyFirst
    MaxBack <- OnlyFirst
INVARIANTS
    TypeOK
    SamplesAreEchoes
    Conservation
    MeasuresAgree
PROPERTIES
    Completes
CHECK_DEADLOCK FALSE
