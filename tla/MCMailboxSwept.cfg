SPECIFICATION MailboxFairSpec
CONSTANTS
    d1 = d1
    d2 = d2
    k1 = k1
    k2 = k2
    p1 = p1
    r1 = r1
    r2 = r2
    Delivery = {d1}
    Claim = {k1, k2}
    Recipient = {}
    Replica = {r1, r2}
    Hour = 1
    Quota = 0
    ClaimedWindow = 1
    UnclaimedWindow = 1
    PageSize = 1
    SweepBatch = 1
    MaxSeq = 1
    MaxFaults = 1
INVARIANTS
    MailboxTypeOK
    OneWinner
    OneSweeper
PROPERTIES
    ExpiredGo
