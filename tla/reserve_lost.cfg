SPECIFICATION Spec
CONSTANTS
    None = None
    t1 = t1
    t2 = t2
    t3 = t3
    t4 = t4
    k1 = k1
    k2 = k2
    Genesis = "g"
    Blocks <- DeepBlocks
    Path <- DeepPath
    Height <- MCHeight
    Body <- MCBody
    Payees <- MCPayees
    Txs = {t1, t2}
    PayTxs <- MCPayTxs
    Spends <- MCSpends
    Anchor <- MCAnchor
    Expiry <- MCExpiry
    Fee <- MCFee
    Moves <- Extends
    CallMoves <- Extends
    MinFee = 51
    Cap = 2
    Faults = {"verify"}
    MaxFaults = 1
    MaxCrashes = 0
INVARIANT PendingDisjoint
CHECK_DEADLOCK FALSE
