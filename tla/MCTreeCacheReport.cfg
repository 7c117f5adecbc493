SPECIFICATION TreeSpec
CONSTANTS
    r1 = r1
    r2 = r2
    q1 = q1
    q2 = q2
    cm1 = cm1
    cm2 = cm2
    pool = pool
    Replica = {r1, r2}
    Request = {q1, q2}
    Pool = {pool}
    Commitment = {cm1, cm2}
    LeafIndex = {0, 1}
    Ledger = {1, 2}
    NoRequest = NoRequest
    NoQuery = NoQuery
    MaxLeaves = 2
    MaxFaults = 0
SYMMETRY MCSymmetry
INVARIANTS
    OldReportsVerify
