SPECIFICATION Spec
CONSTANTS
    a = a
    b = b
    Empty = Empty
    Leaf = {a, b, Empty}
    Depth = 3
    k1 = k1
    k2 = k2
    k3 = k3
    k4 = k4
    k5 = k5
    r1 = r1
    r2 = r2
    r3 = r3
    i1 = i1
    i2 = i2
    v1 = v1
    v2 = v2
    Conn = {k1, k2, k3, k4, k5}
    Ip = {i1, i2}
    IpOf <- MCIpOf
    PerIpCap = 2
    GlobalCap = 2
    Threads = 2
    Addr = {i1, i2}
    Req = {r1, r2, r3}
    AddrOf <- MCAddrOf
    Cost = 2
    PerTick = 1
    Second = 2
    Burst = 2
    MaxBuckets = 1
    MaxTime = 4
    Visitor = {v1, v2}
    Ttl = 2
    Selects = 5
    LastSecond = 5
    MaxAttempts = 10
    InitialBackoff = 1
    MaxBackoff = 20
    AttemptTimeout = 10
INVARIANTS
    LevelsRight
    PathsVerify
    PathsBind
    CountersExact
    CapsHold
    RateBound
    FiguresAge
    ConnectInBudget
PROPERTIES
    AppendChangesRoot
