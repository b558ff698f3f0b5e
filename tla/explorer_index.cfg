SPECIFICATION FairSpec
CONSTANTS
    None = None
    t1 = t1
    t2 = t2
    Genesis = "g"
    Blocks <- MCBlocks
    Path <- MCPath
    Height <- MCHeight
    Body <- MCBody
    Payees <- MCPayees
    Txs = {t1, t2}
    PayTxs = {}
    Spends <- MCSpends
    Anchor <- MCAnchor
    Expiry <- MCExpiry
    Moves <- Overtakes
    Faults = {"rpc", "commit"}
    MaxFaults = 1
    MaxRestarts = 1
INVARIANTS EInv IndexIsBranch
PROPERTY IndexCatchesUp
