SPECIFICATION SyncSpec
CONSTANTS
    None = None
    t1 = t1
    t2 = t2
    t3 = t3
    t4 = t4
    k1 = k1
    k2 = k2
    Genesis = "g"
    Blocks <- ForkBlocks
    Path <- DeepPath
    Height <- MCHeight
    Body <- MCBody
    Payees <- MCPayees
    Txs = {t1}
    PayTxs <- TornPayTxs
    Spends <- MCSpends
    Anchor <- MCAnchor
    Expiry <- MCExpiry
    Fee <- MCFee
    Moves <- Invalidates
    CallMoves <- Overtakes
    MinFee = 51
    Cap = 2
    Faults = {"rpc", "save"}
    MaxFaults = 1
    MaxCrashes = 1
INVARIANTS CallInv Inductive FeesAssigned
PROPERTIES FollowsService SavedAgrees PaysConfirmed
CHECK_DEADLOCK FALSE
