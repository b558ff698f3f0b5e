SPECIFICATION Spec
CONSTANTS
    None = None
    t1 = t1
    t2 = t2
    t3 = t3
    t4 = t4
    k1 = k1
    k2 = k2
    Genesis = "g"
    Blocks <- LineBlocks
    Path <- DeepPath
    Height <- MCHeight
    Body <- MCBody
    Payees <- AllPayees
    Txs = {t1, t2, t3, t4}
    PayTxs <- OneNotePayTxs
    Spends <- MCSpends
    Anchor <- MCAnchor
    Expiry <- MCExpiry
    Fee <- MCFee
    Moves <- Extends
    CallMoves <- Extends
    MinFee = 51
    Cap = 2
    Faults = {"save", "rpc", "reply"}
    MaxFaults = 1
    MaxCrashes = 2
INVARIANTS PendingDisjoint PendingFitsCap
PROPERTIES NoRewind
CHECK_DEADLOCK FALSE
