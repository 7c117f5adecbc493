SPECIFICATION MailboxSpec
CONSTANTS
    d1 = d1
    d2 = d2
    k1 = k1
    k2 = k2
    p1 = p1
    r1 = r1
    r2 = r2
    Delivery = {d1, d2}
    Claim = {k1}
    Recipient = {p1}
    Replica = {r1}
    Hour = 1
    Quota = 1
    ClaimedWindow = 1
    UnclaimedWindow = 1
    PageSize = 1
    SweepBatch = 1
    MaxSeq = 3
    MaxFaults = 0
SYMMETRY MCSymmetry
INVARIANTS
    QuotaOvershoot
    RevokedOvershoot
    PassComplete
PROPERTIES
    LeavesOnlyWhenDue
