SPECIFICATION Spec
CONSTANTS
    s1 = s1
    s2 = s2
    s3 = s3
    s4 = s4
    u1 = u1
    u2 = u2
    q1 = q1
    q2 = q2
    Sockets = {s1, s2, s3, s4}
    Controls = {c1}
    Umems = {u1, u2}
    Queues = {q1, q2}
    Progs = {g1, g2}
    MAX_PROGS = 2
    None = None
    Umem <- UmemOf
    Queue <- QueueOf
    Inhibit = {s1}
    OwnRings = {s3, s4}
    MaxFaults = 1
SYMMETRY Alike
INVARIANTS
    TypeOK
    RefcntExact
    LiveIsServed
    AttachedIffReferenced
    UmemCounted
    RingsMapped
CHECK_DEADLOCK FALSE
