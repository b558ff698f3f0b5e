SPECIFICATION FairPreconfSpec
CONSTANTS
    None = None
    t1 = t1
    t2 = t2
    Genesis = "g"
    Blocks <- MCBlocks
    Path <- MCPath
    Height <- MCHeight
    Body <- MCBody
    Payees <- MCPayees
    Txs = {t1, t2}
    PayTxs = {}
    Spends <- MCSpends
    Anchor <- MCAnchor
    Expiry <- MCExpiry
    Fee <- MCFee
    Moves <- Overtakes
    CallMoves <- Extends
    MinFee = 51
    Cap = 3
    Faults = {"save"}
    MaxFaults = 1
    MaxCrashes = 1
    Timeouts = {}
INVARIANT TemplateReceipted
PROPERTY ReceiptsServed
CHECK_DEADLOCK FALSE
