SPECIFICATION SyncSpec
CONSTANTS
    None = None
    t1 = t1
    t2 = t2
    t3 = t3
    t4 = t4
    k1 = k1
    k2 = k2
    Genesis = "g"
    Blocks <- DeepBlocks
    Path <- DeepPath
    Height <- MCHeight
    Body <- MCBody
    Payees <- MCPayees
    Txs = {t3}
    PayTxs = {}
    Spends <- MCSpends
    Anchor <- MCAnchor
    Expiry <- MCExpiry
    Fee <- MCFee
    Moves <- Overtakes
    CallMoves <- Overtakes
    MinFee = 51
    Cap = 2
    Faults = {}
    MaxFaults = 0
    MaxCrashes = 0
INVARIANT LedgerAgrees
CHECK_DEADLOCK FALSE
