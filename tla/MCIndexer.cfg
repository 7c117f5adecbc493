SPECIFICATION FairSpec
CONSTANTS
    w1 = w1
    w2 = w2
    pool = pool
    registry = registry
    cmA = cmA
    cmB = cmB
    nf = nf
    acme = acme
    Worker = {w1}
    Contract = {pool, registry}
    Order <- MCOrder
    Chain <- MCChain
    Commitment = {cmA, cmB}
    LeafIndex = {0, 1, 2, 3}
    Nullifier = {nf}
    Issuer = {acme}
    Status = {"active", "revoked"}
    NoStatus = "none"
    NoCursor = NoCursor
    PageSize = 2
    MaxLedger = 3
    MaxFaults = 2
    MaxCopies = 2
INVARIANTS
    TypeOK
    NoSkip
    LeavesInChainOrder
    OnceWithoutFaults
    IssuerCurrent
    SyncInv
PROPERTIES
    SettledOnce
    CursorForward
    ImplementsLeafLog
    
