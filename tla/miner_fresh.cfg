SPECIFICATION FairSpec
CONSTANTS
    None = None
    t1 = t1
    t2 = t2
    t3 = t3
    Genesis = "g"
    Blocks <- MCBlocks
    Path <- MCPath
    Height <- MCHeight
    Body <- MCBody
    Payees <- MCPayees
    Txs = {t1, t2, t3}
    PayTxs = {}
    Spends <- MCSpends
    Anchor <- MCAnchor
    Expiry <- MCExpiry
    Moves <- Overtakes
    Snapshots <- MCSnapshots
    Timeouts = {t2}
INVARIANTS MInv TemplateMinable TemplateFresh
PROPERTY Converges
