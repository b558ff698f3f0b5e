------------------------------ MODULE Explorer ------------------------------
(***************************************************************************)
(* The explorer's index (scripts/explorer.py): a thread that every two      *)
(* seconds brings an SQLite copy of the service node's best chain up to     *)
(* date, one RPC at a time, beside the ledger it fetched before.  An update *)
(* is one transaction of the database; requests read the same connection    *)
(* whenever the lock is free, uncommitted rows included.                    *)
(*                                                                          *)
(* The row of height h is element h + 1 of `rows`.  Of a ledger its tip is  *)
(* modelled; driver events and rendering are left out.                      *)
(***************************************************************************)
EXTENDS Chain, SequencesExt

CONSTANTS
    Moves,      \* the pairs <<a, b>> such that the node's tip may go from a to b
    Faults,     \* the kinds of failure that may happen
    MaxFaults,  \* bound on the failures of a behaviour
    MaxRestarts \* bound on the restarts of node and explorer

ASSUME ExplorerParams ==
    /\ Moves \subseteq Blocks \X Blocks
    /\ \A m \in Moves : Height[m[1]] < Height[m[2]]
    /\ Faults \subseteq {"rpc", "commit"}
    /\ MaxFaults \in Nat /\ MaxRestarts \in Nat

VARIABLES
    tip,        \* the best tip of the service's node
    round,      \* the tip the service reconciles with
    served,     \* the tip of the ledger that /state answers with
    pc,         \* where the update is
    got,        \* the tip of the ledger fetched for it
    count,      \* the height it indexes up to
    db,         \* the tables as the connection sees them
    disk,       \* the tables as committed
    state,      \* self.state: the tip of the ledger shown
    error,      \* self.error
    faults,     \* failures still to come
    restarts    \* restarts still to come

service == <<tip, round, served>>
index == <<db, disk, state, error>>
vars == <<service, pc, got, count, index, faults, restarts>>

TxRow == [tx : AllTxs, height : Nat]

Tables == [rows : Seq(Blocks), txs : SUBSET TxRow, ledger : Blocks \cup {None}]

TypeOK ==
    /\ tip \in Blocks /\ round \in Blocks /\ served \in Blocks \cup {None}
    /\ pc \in {"sleep", "count", "roll", "insert", "check", "raised"}
    /\ got \in Blocks \cup {None} /\ count \in Nat
    /\ db \in Tables /\ disk \in Tables
    /\ state \in Blocks \cup {None} /\ error \in {"none", "connecting", "unavailable"}
    /\ faults \in 0..MaxFaults /\ restarts \in 0..MaxRestarts

Empty == [rows |-> <<>>, txs |-> {}, ledger |-> None]

Init ==
    /\ tip = Genesis /\ round = Genesis /\ served = None
    /\ pc = "sleep" /\ got = None /\ count = 0
    /\ db = Empty /\ disk = Empty /\ state = None /\ error = "connecting"
    /\ faults = MaxFaults /\ restarts = MaxRestarts

----------------------------------------------------------------------------
(* The service and its node.                                                *)

NodeMove(b) ==
    /\ <<tip, b>> \in Moves /\ tip' = b
    /\ UNCHANGED <<round, served, pc, got, count, index, faults, restarts>>

\* The follower locks the tip it fetched, and some time later its ledger is
\* there.  One that is recovering waits for the node.
Reconciles ==
    /\ served # None => Height[tip] >= Height[served]
    /\ round' = tip
    /\ UNCHANGED <<tip, served, pc, got, count, index, faults, restarts>>

Serves ==
    /\ served' = round
    /\ UNCHANGED <<tip, round, pc, got, count, index, faults, restarts>>

\* Service and node, one process, come back with the ledger that was saved, at
\* a block the node had finalized; an update on its way finds them gone.
NodeRestarts(b) ==
    /\ restarts > 0 /\ restarts' = restarts - 1
    /\ b \in Path[tip] /\ tip' = b
    /\ round' = IF served = None THEN Genesis ELSE served
    /\ pc' = IF pc = "sleep" THEN "sleep" ELSE "raised"
    /\ UNCHANGED <<served, got, count, index, faults>>

----------------------------------------------------------------------------
(* Index.update.                                                            *)

GetLedger ==
    /\ pc = "sleep"
    /\ got' = served /\ pc' = "count"
    /\ UNCHANGED <<service, count, index, faults, restarts>>

\* getblockcount; the lock is taken after it.
GetCount ==
    /\ pc = "count"
    /\ count' = Height[tip] /\ pc' = "roll"
    /\ UNCHANGED <<service, got, index, faults, restarts>>

Top == Last(db.rows)

\* Fault: only the heights are compared.
Orphaned_Height == db.rows # <<>> /\ Height[Top] > count

\* The newest row is above the count, or getblockhash has another block there.
Orphaned == db.rows # <<>> /\ (Height[Top] > count \/ Top \notin Path[tip])

RollStops ==
    /\ pc = "roll" /\ ~ Orphaned
    /\ pc' = "insert"
    /\ UNCHANGED <<service, got, count, index, faults, restarts>>

WithoutTop ==
    [db EXCEPT !.rows = Front(@), !.txs = {r \in @ : r.height # Height[Top]}]

RollBack ==
    /\ pc = "roll" /\ Orphaned
    /\ db' = WithoutTop
    /\ UNCHANGED <<service, pc, got, count, disk, state, error, faults, restarts>>

\* INSERT, and INSERT OR REPLACE by txid.
WithBlock(b) ==
    LET kept == {r \in db.txs : r.tx \notin Body[b]}
        new  == {[tx |-> t, height |-> Height[b]] : t \in Body[b]}
    IN  [db EXCEPT !.rows = Append(@, b), !.txs = kept \cup new]

InsertBlock(b) ==
    /\ pc = "insert" /\ Len(db.rows) <= count
    /\ b \in Path[tip] /\ Height[b] = Len(db.rows)
    /\ db' = WithBlock(b)
    /\ UNCHANGED <<service, pc, got, count, disk, state, error, faults, restarts>>

InsertDone ==
    /\ pc = "insert" /\ Len(db.rows) > count
    /\ pc' = "check"
    /\ UNCHANGED <<service, got, count, index, faults, restarts>>

\* Fault: the ledger may be of another tip.
OneView_Chain == tip = db.rows[count + 1]

\* getbestblockhash: best chain, ledger and index end in one block.
OneView == tip = db.rows[count + 1] /\ got = tip

ViewChanged ==
    /\ pc = "check" /\ ~ OneView
    /\ pc' = "raised"
    /\ UNCHANGED <<service, got, count, index, faults, restarts>>

Commit ==
    /\ pc = "check" /\ OneView
    /\ state' = got /\ db' = [db EXCEPT !.ledger = got] /\ disk' = db'
    /\ error' = "none" /\ pc' = "sleep"
    /\ UNCHANGED <<service, got, count, faults, restarts>>

----------------------------------------------------------------------------
(* Failures, and `loop`.                                                    *)

Fault(kind) == kind \in Faults /\ faults > 0 /\ faults' = faults - 1

\* An RPC fails: the exception gives the lock up.
RpcFails ==
    /\ pc \in {"sleep", "count", "roll", "insert", "check"}
    /\ Fault("rpc") /\ pc' = "raised"
    /\ UNCHANGED <<service, got, count, index, restarts>>

\* The database cannot commit; self.state is set by then.
CommitFails ==
    /\ pc = "check" /\ OneView
    /\ Fault("commit") /\ pc' = "raised"
    /\ state' = got /\ db' = [db EXCEPT !.ledger = got]
    /\ UNCHANGED <<service, got, count, disk, error, restarts>>

\* Fault: the transaction is left open.
Recover_Open ==
    /\ pc = "raised" /\ pc' = "sleep"
    /\ error' = "unavailable"
    /\ UNCHANGED <<service, got, count, db, disk, state, faults, restarts>>

\* The exception handler takes the lock again.
Recover ==
    /\ pc = "raised" /\ pc' = "sleep"
    /\ db' = disk /\ error' = "unavailable"
    /\ UNCHANGED <<service, got, count, disk, state, faults, restarts>>

\* The explorer is stopped and started: Index.__init__.
ExplorerRestarts ==
    /\ restarts > 0 /\ restarts' = restarts - 1
    /\ pc' = "sleep" /\ got' = None /\ count' = 0
    /\ db' = disk /\ state' = disk.ledger /\ error' = "connecting"
    /\ UNCHANGED <<service, disk, faults>>

----------------------------------------------------------------------------
Updates ==
    \/ GetLedger \/ GetCount
    \/ RollStops \/ RollBack
    \/ (\E b \in Blocks : InsertBlock(b)) \/ InsertDone
    \/ ViewChanged \/ Commit
    \/ Recover

Next ==
    \/ Updates
    \/ \E b \in Blocks : NodeMove(b) \/ NodeRestarts(b)
    \/ Reconciles \/ Serves
    \/ RpcFails \/ CommitFails \/ ExplorerRestarts

Spec == Init /\ [][Next]_vars

\* The indexing thread never stops.
FairSpec == Spec /\ WF_vars(Updates)

----------------------------------------------------------------------------
TxsDown(b) ==
    {r \in [tx : AllTxs, height : 0..Height[b]] :
        \E c \in Path[b] : r.height = Height[c] /\ r.tx \in Body[c]}

\* A row's height is its place.
Stacked(tables) == \A i \in DOMAIN tables.rows : Height[tables.rows[i]] = i - 1

\* The tables hold the branch of b, one row per block and per transaction.
Hold(tables, b) ==
    /\ ToSet(tables.rows) = Path[b]
    /\ Stacked(tables)
    /\ tables.txs = TxsDown(b)

\* They hold one branch, or nothing.
Whole(tables) ==
    IF tables.rows = <<>> THEN tables.txs = {} ELSE Hold(tables, Last(tables.rows))

TipOf(tables) == IF tables.rows = <<>> THEN None ELSE Last(tables.rows)

\* What is committed, and so what a restart or an archive opens, is one branch
\* and the ledger of its tip, although chain and ledger are fetched piece by
\* piece while the chain moves (explorer.py:43, `Archive ledger and indexed
\* chain do not match`).
IndexIsBranch == Whole(disk) /\ disk.ledger = TipOf(disk)

\* Once chain and ledger stand still, the explorer shows them, however many
\* updates were given up before.
IndexCatchesUp ==
    \A b \in Blocks : <>[](tip = b /\ served = b) => <>[](state = b /\ error = "none")

----------------------------------------------------------------------------
(* The inductive invariant behind them: an update works on one branch, or   *)
(* the chain has outgrown the height it indexes up to and it will be given  *)
(* up.                                                                      *)

OnOneBranch ==
    \/ Height[tip] > count
    \/ /\ Height[tip] = count /\ Whole(db)
       /\ db.rows # <<>> => Top \in Path[tip]

Indexing ==
    /\ pc \in {"sleep", "count"} => db = disk
    /\ pc \in {"roll", "insert", "check"} => Height[tip] >= count /\ Stacked(db)
    /\ pc = "roll" => Whole(db)
    /\ pc \in {"insert", "check"} => Len(db.rows) <= count + 1 /\ OnOneBranch
    /\ pc = "check" => Len(db.rows) = count + 1

EInv == TypeOK /\ Indexing /\ IndexIsBranch

=============================================================================
