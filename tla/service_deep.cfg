SPECIFICATION Spec
CONSTANTS
    None = None
    t1 = t1
    t2 = t2
    t3 = t3
    t4 = t4
    k1 = k1
    k2 = k2
    Genesis = "g"
    Blocks <- DeepBlocks
    Path <- DeepPath
    Height <- MCHeight
    Body <- MCBody
    Payees <- MCPayees
    Txs = {t1, t2, t3}
    PayTxs <- MCPayTxs
    Spends <- MCSpends
    Anchor <- MCAnchor
    Expiry <- MCExpiry
    Fee <- MCFee
    Moves <- Overtakes
    CallMoves <- Extends
    MinFee = 51
    Cap = 2
    Faults = {"save", "verify", "rpc", "reply"}
    MaxFaults = 1
    MaxCrashes = 1
INVARIANTS FeedIsDurable KnownIsDurable LedgerAgrees FeeAssignedOnce SentIsSigned PaidOnce
PROPERTIES AcceptedForever AcceptedValid SignedForever Promised
CHECK_DEADLOCK FALSE
