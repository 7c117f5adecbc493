SPECIFICATION Spec
CONSTANTS
    c1 = c1
    c2 = c2
    a = a
    b = b
    Client = {c1}
    Pool = {a, b}
    PoolOf <- MCPoolOf
    Wants <- MCWants
    NotTold = NotTold
    MaxNote = 4
    Writers = 1
    Capacity = 4
    ReplayLimit = 2
    DrainPage = 2
    ListPage = 2
    Polls = 1
    MaxFaults = 0
INVARIANT
    NoGapsAtAll
