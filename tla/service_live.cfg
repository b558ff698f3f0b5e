SPECIFICATION FairSpec
CONSTANTS
    None = None
    t1 = t1
    t2 = t2
    t3 = t3
    t4 = t4
    k1 = k1
    k2 = k2
    Genesis = "g"
    Blocks <- LateBlocks
    Path <- LatePath
    Height <- MCHeight
    Body <- MCBody
    Payees <- MCPayees
    Txs = {t1, t3}
    PayTxs <- MCPayTxs
    Spends <- MCSpends
    Anchor <- MCAnchor
    Expiry <- MCExpiry
    Fee <- MCFee
    Moves <- Overtakes
    CallMoves <- Extends
    MinFee = 51
    Cap = 2
    Faults = {"save", "rpc", "reply"}
    MaxFaults = 1
    MaxCrashes = 1
INVARIANT SignedDisjoint
PROPERTIES CatchesUp PayoutsMove
CHECK_DEADLOCK FALSE
