SPECIFICATION FairWorkerSpec
CONSTANTS
    None = None
    n1 = n1
    n2 = n2
    n3 = n3
    n4 = n4
    x = x
    s1 = s1
    s3 = s3
    Genesis = "g"
    Blocks <- MCBlocks
    Path <- MCPath
    Height <- MCHeight
    Body <- MCBody
    Payees <- MCPayees
    Txs = {s1, s3}
    PayTxs = {}
    Spends <- MCSpends
    Anchor <- MCAnchor
    Expiry <- MCExpiry
    Notes = {n1, n2, n3, n4}
    Value <- MCValue
    Tree <- MCTree
    Moves <- Anywhere
    Calls <- MCCalls
    Lines <- MCLines
    Surcharge = 3
INVARIANTS WorkerInv NotesAgree InputSpendable NothingHidden PaymentsApart ConflictsCompete SecondFunded
PROPERTIES CutoffKept LinesAnswered
