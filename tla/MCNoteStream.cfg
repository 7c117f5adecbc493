SPECIFICATION FairSpec
CONSTANTS
    c1 = c1
    c2 = c2
    a = a
    b = b
    Client = {c2}
    Pool = {a, b}
    PoolOf <- MCPoolOf
    Wants <- MCWants
    NotTold = NotTold
    MaxNote = 4
    Writers = 2
    Capacity = 1
    ReplayLimit = 2
    DrainPage = 2
    ListPage = 2
    Polls = 1
    MaxFaults = 1
INVARIANTS
    StreamTypeOK
    NoGap
    EventsInOrder
PROPERTIES
    FeedSpec
    StreamsCatchUp
