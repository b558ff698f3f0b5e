------------------------------ MODULE Service ------------------------------
(***************************************************************************)
(* The preconfirmation service of src/server.rs: the merchants' submissions *)
(* (`dispatch`) and the chain follower (`reconcile`) run as two tasks of    *)
(* one process over one Store behind an async mutex, beside the node they   *)
(* are embedded in.  An action is the code between two awaits.              *)
(*                                                                          *)
(* The follower gives the mutex up only while it sleeps, fetches the chain  *)
(* or proves a payout; a submission holds it from its first check to its    *)
(* answer.  The node's tip moves at any time, also under the mutex.         *)
(***************************************************************************)
EXTENDS Ledger

CONSTANTS
    Moves,      \* the pairs <<a, b>> such that the node's tip may go from a to b
    CallMoves,  \* those it may make while wallet::chain reads the chain
    MinFee,     \* config.min_fee_zat
    Cap,        \* p2p::CAP, in transactions
    Faults,     \* the kinds of failure that may happen
    MaxFaults,  \* bound on the failures of a behaviour
    MaxCrashes  \* bound on the crashes of a behaviour

FaultKinds == {"save", "verify", "rpc", "reply"}

ASSUME ServiceParams ==
    /\ CallMoves \subseteq Moves /\ Moves \subseteq Blocks \X Blocks
    /\ MinFee \in Nat
    /\ Cap \in Nat
    /\ Faults \subseteq FaultKinds
    /\ MaxFaults \in Nat
    /\ MaxCrashes \in Nat

VARIABLES
    tip,        \* the node's best tip
    mempool,    \* the payouts in the node's mempool
    sent,       \* every payout the node ever took: its bytes and what it pays for
    mem,        \* store.ledger
    disk,       \* the ledger row of the database
    ready,      \* store.ready
    recovering, \* store.recovering
    feed,       \* the snapshot published to miners, with the tip None before the first
    sub,        \* the submission that holds the mutex
    pc,         \* where the follower is
    snap,       \* the tip of the chain the follower fetched; in a call, the tip it began at
    chain,      \* the blocks of the chain it fetched
    torn,       \* the cache of wallet::chain may hold blocks of two branches
    idx,        \* the next record the follower classifies
    todo,       \* the due payouts the follower has not come to
    cur,        \* the payout the follower works on
    faults,     \* failures still to come
    crashes     \* crashes still to come

node     == <<tip, mempool, sent>>
store    == <<mem, disk, ready, recovering, feed>>
fetched  == <<snap, chain, torn>>
follower == <<pc, fetched, idx, todo, cur>>
budget   == <<faults, crashes>>
vars     == <<node, store, sub, follower, budget>>

Free == {"idle", "fetch", "lock", "build", "failed"}
Held == {"records", "pay", "recheck", "mempool", "send", "sent"}

TypeOK ==
    /\ tip \in Blocks
    /\ mempool \subseteq PayTxs
    /\ sent \subseteq [raw : PayTxs, txs : SUBSET Txs]
    /\ mem \in LedgerType /\ disk \in LedgerType
    /\ ready \in BOOLEAN /\ recovering \in BOOLEAN
    /\ feed.tip \in Blocks \cup {None}
    /\ sub \in [phase : {"idle", "verify", "commit"}, tx : Txs \cup {None}]
    /\ pc \in Free \cup Held
    /\ snap \in Blocks /\ chain \subseteq Blocks /\ torn \in BOOLEAN
    /\ idx \in Nat
    /\ todo \subseteq Payout
    /\ cur \in Payout \cup {None}
    /\ faults \in 0..MaxFaults
    /\ crashes \in 0..MaxCrashes

NoSub == [phase |-> "idle", tx |-> None]

Init ==
    /\ tip = Genesis /\ mempool = {} /\ sent = {}
    /\ mem = EmptyLedger /\ disk = EmptyLedger
    /\ ready = FALSE /\ recovering = TRUE /\ feed = NoSnapshot
    /\ sub = NoSub
    /\ snap = Genesis /\ chain = Path[Genesis] /\ torn = FALSE
    /\ pc = "idle" /\ idx = 0 /\ todo = {} /\ cur = None
    /\ faults = MaxFaults /\ crashes = MaxCrashes

----------------------------------------------------------------------------
(* Failures and the database.                                               *)

Fault(kind) ==
    /\ kind \in Faults /\ faults > 0
    /\ faults' = faults - 1
    /\ UNCHANGED crashes

\* Store::save of a ledger the follower changed, then the next step; or the
\* save fails and `?` leaves `reconcile` with the change in memory only.
Save(ledger, next) ==
    /\ mem' = ledger
    /\ \/ disk' = ledger /\ pc' = next /\ UNCHANGED budget
       \/ Fault("save") /\ pc' = "failed" /\ UNCHANGED disk

----------------------------------------------------------------------------
(* The node and the process (external).                                     *)

\* The best tip moves; a block holds a payout only if the node once took it,
\* and the mempool drops what is mined or no longer valid.  A reorganisation
\* between two RPCs of wallet::chain can leave both branches in its cache.
NodeMove(b) ==
    /\ <<tip, b>> \in (IF pc = "fetch" THEN CallMoves ELSE Moves)
    /\ TxsOn(b) \cap PayTxs \subseteq {s.raw : s \in sent}
    /\ tip' = b
    /\ mempool' = {p \in mempool : Valid(p, b)}
    /\ torn' = (torn \/ (pc = "fetch" /\ Reorganises(tip, b)))
    /\ UNCHANGED <<sent, store, sub, pc, snap, chain, idx, todo, cur, budget>>

\* The process dies with everything in memory.  Store::open finds the ledger;
\* the node, in the same process, comes back at a block it had finalized.
Crash(b) ==
    /\ crashes > 0 /\ crashes' = crashes - 1
    /\ b \in Path[tip] /\ tip' = b /\ mempool' = {}
    /\ mem' = disk /\ ready' = FALSE /\ recovering' = TRUE /\ feed' = NoSnapshot
    /\ sub' = NoSub
    /\ snap' = Genesis /\ chain' = Path[Genesis] /\ torn' = FALSE
    /\ pc' = "idle" /\ idx' = 0 /\ todo' = {} /\ cur' = None
    /\ UNCHANGED <<sent, disk, faults>>

----------------------------------------------------------------------------
(* preconf_submit.  A retry of a known transaction answers from the record  *)
(* it finds and changes nothing, as does every refusal.                     *)

LockFree == sub.phase = "idle" /\ pc \in Free

TipUnchanged == tip = mem.tip

\* Fault: the reservations of pending transactions are not looked at.
Admits_Unreserved(t) ==
    t \notin TxsOf(mem.records) /\ ready /\ TipUnchanged

\* The checks made before the consensus check is awaited.
Admits(t) ==
    /\ t \notin TxsOf(mem.records)
    /\ ready /\ TipUnchanged
    /\ ~ Conflicted(t, mem.records)

SubmitBegin(t) ==
    /\ LockFree /\ Admits(t)
    /\ sub' = [phase |-> "verify", tx |-> t]
    /\ UNCHANGED <<node, store, follower, budget>>

SubmitVerified ==
    /\ sub.phase = "verify" /\ Valid(sub.tx, tip)
    /\ sub' = [sub EXCEPT !.phase = "commit"]
    /\ UNCHANGED <<node, store, follower, budget>>

\* The transaction is invalid, its verification takes more than a minute, or
\* the client is gone and the handler is dropped where it awaits.
SubmitDropped ==
    /\ sub.phase = "verify"
    /\ sub' = NoSub
    /\ UNCHANGED <<node, store, follower, budget>>

\* Fault: the tip is not looked at again after the verification.
Affords_AnyTip(t) ==
    Fee[t] >= MinFee /\ Len(PendingOf(mem).txs) < Cap

\* Fault: the new transaction is not counted.
Affords_OneMore(t) ==
    TipUnchanged /\ Fee[t] >= MinFee /\ Len(PendingOf(mem).txs) <= Cap

\* The checks made after it.
Affords(t) ==
    /\ TipUnchanged
    /\ Fee[t] >= MinFee
    /\ Len(PendingOf(mem).txs) < Cap

SubmitRefused ==
    /\ sub.phase = "commit" /\ ~ Affords(sub.tx)
    /\ sub' = NoSub
    /\ UNCHANGED <<node, store, follower, budget>>

SubmitCommit ==
    /\ sub.phase = "commit" /\ Affords(sub.tx)
    /\ mem' = [mem EXCEPT !.records = Append(@, NewRecord(sub.tx))]
    /\ disk' = mem'
    /\ feed' = PendingOf(mem')
    /\ sub' = NoSub
    /\ UNCHANGED <<node, ready, recovering, follower, budget>>

\* Fault: the record is published before it is saved.
SubmitSaveFails_Published ==
    /\ sub.phase = "commit" /\ Affords(sub.tx)
    /\ Fault("save")
    /\ ready' = FALSE
    /\ feed' = PendingOf([mem EXCEPT !.records = Append(@, NewRecord(sub.tx))])
    /\ sub' = NoSub
    /\ UNCHANGED <<node, mem, disk, recovering, follower>>

\* Fault: the record is not popped.
SubmitSaveFails_Kept ==
    /\ sub.phase = "commit" /\ Affords(sub.tx)
    /\ Fault("save")
    /\ ready' = FALSE
    /\ mem' = [mem EXCEPT !.records = Append(@, NewRecord(sub.tx))]
    /\ sub' = NoSub
    /\ UNCHANGED <<node, disk, recovering, feed, follower>>

\* The save fails: the new record is popped and admission stops.
SubmitSaveFails ==
    /\ sub.phase = "commit" /\ Affords(sub.tx)
    /\ Fault("save")
    /\ ready' = FALSE
    /\ sub' = NoSub
    /\ UNCHANGED <<node, mem, disk, recovering, feed, follower>>

----------------------------------------------------------------------------
(* The follower: `reconcile`, called every half second.                     *)

\* Fault: a recovered ledger is reconciled with whatever the node has.
Behind_Never == FALSE

\* Fault: the node has to be higher than the recovered ledger.
Behind_Equal ==
    recovering /\ mem.tip # None /\ Height[tip] <= Height[mem.tip]

\* After a restart the follower waits for the node to be as high as the
\* ledger it had recovered.
Behind ==
    recovering /\ mem.tip # None /\ Height[tip] < Height[mem.tip]

\* Fault: only payouts that were broadcast keep the follower going.
Settled_Unsent ==
    /\ ready /\ mem.tip = tip
    /\ \A p \in mem.payouts : p.status # "broadcast"

Settled ==
    /\ ready /\ mem.tip = tip
    /\ \A p \in mem.payouts : p.status \notin {"waiting", "broadcast"}

Poll ==
    /\ pc = "idle" /\ LockFree
    /\ ~ Behind /\ ~ Settled
    /\ pc' = "fetch" /\ snap' = tip
    /\ UNCHANGED <<node, store, sub, chain, torn, idx, todo, cur, budget>>

\* wallet::chain without the mutex, as its last RPC ends it: blocks up to the tip
\* of that moment, all of them on its branch unless the cache was torn.
\* ServiceSync has every RPC, and implements this.
Fetch ==
    /\ pc = "fetch"
    /\ snap' = tip /\ chain' \in Copies(tip, torn) /\ torn' = (chain' # Path[tip])
    /\ pc' = "lock"
    /\ UNCHANGED <<node, store, sub, idx, todo, cur, budget>>

\* The chain changed during the call, or the node does not answer.
FetchFails ==
    /\ pc = "fetch"
    /\ \/ (snap # tip \/ torn) /\ UNCHANGED budget
       \/ Fault("rpc")
    /\ pc' = "failed"
    /\ UNCHANGED <<node, store, sub, fetched, idx, todo, cur>>

\* The mutex is back.  If the node is still where the chain was fetched, the
\* payouts are settled at once and the records one by one after that.
Lock ==
    /\ pc = "lock" /\ LockFree
    /\ snap = tip
    /\ ready' = FALSE
    /\ mem' = [mem EXCEPT !.payouts = Settle(@, chain)]
    /\ idx' = 1 /\ pc' = "records"
    /\ UNCHANGED <<node, disk, recovering, feed, sub, fetched, todo, cur, budget>>

LockMoved ==
    /\ pc = "lock" /\ LockFree
    /\ snap # tip
    /\ pc' = "failed"
    /\ UNCHANGED <<node, store, sub, fetched, idx, todo, cur, budget>>

\* `?` anywhere: the caller takes the mutex again and stops admission.
FollowerFailed ==
    /\ pc = "failed" /\ LockFree
    /\ ready' = FALSE
    /\ pc' = "idle" /\ todo' = {} /\ cur' = None
    /\ UNCHANGED <<node, mem, disk, recovering, feed, sub, fetched, idx, budget>>

\* The record at hand becomes r.
Classify(r) ==
    /\ mem' = [mem EXCEPT !.records[idx] = r]
    /\ idx' = idx + 1
    /\ UNCHANGED <<node, disk, ready, recovering, feed, sub, pc, fetched, todo, cur>>

AtRecord == pc = "records" /\ idx <= Len(mem.records)

Mined(r) == r.tx \in TxsIn(chain)

\* Another transaction of the fetched chain spent its input.
Outspent(r) == ~ Mined(r) /\ Spends[r.tx] \cap SpentIn(chain) # {}

RecordIncluded ==
    /\ AtRecord
    /\ LET r == mem.records[idx]
       IN  \E b \in Latest(MinedIn(r.tx, chain)) : Classify(Included(r, b))
    /\ UNCHANGED budget

RecordConflicts ==
    /\ AtRecord /\ Outspent(mem.records[idx])
    /\ Classify(Lapsed(mem.records[idx]))
    /\ UNCHANGED budget

\* Neither mined nor outspent: the record is verified again, by the node and
\* so at the node's tip, whatever chain was fetched.
RecordRequeued ==
    /\ AtRecord
    /\ LET r == mem.records[idx]
       IN  /\ ~ Mined(r) /\ ~ Outspent(r)
           /\ Valid(r.tx, tip)
           /\ Classify(Requeued(r))
    /\ UNCHANGED budget

\* Any error of the verification, its timeout included, fails the record.
RecordFails ==
    /\ AtRecord
    /\ LET r == mem.records[idx]
       IN  /\ ~ Mined(r) /\ ~ Outspent(r)
           /\ IF Valid(r.tx, tip) THEN Fault("verify") ELSE UNCHANGED budget
           /\ Classify(Lapsed(r))

\* Fault: failed records are pruned.
Reconciled_Pruned ==
    LET Live(r) == r.status # "failed"
    IN  [mem EXCEPT !.tip = snap, !.records = SelectSeq(@, Live),
                    !.payouts = @ \cup NewPayouts(mem.records, @)]

\* Fault: only the newest block is assigned a payout.
Reconciled_Newest ==
    [mem EXCEPT !.tip = snap,
                !.payouts = @ \cup {p \in NewPayouts(mem.records, @) : p.block = snap}]

\* The ledger after the loops: its tip and the new assignments.
Reconciled ==
    [mem EXCEPT !.tip = snap,
                !.payouts = @ \cup NewPayouts(mem.records, @)]

\* Save, then publish.  The due payouts are worked on with the mutex held.
Reconcile ==
    /\ pc = "records" /\ idx > Len(mem.records)
    /\ Save(Reconciled, "pay")
    /\ IF pc' = "pay"
       THEN /\ ready' = TRUE /\ recovering' = FALSE
            /\ feed' = PendingOf(Reconciled)
            /\ todo' = {p \in Reconciled.payouts : Due(p, snap)}
       ELSE UNCHANGED <<ready, recovering, feed, todo>>
    /\ UNCHANGED <<node, sub, fetched, idx, cur>>

----------------------------------------------------------------------------
(* The payout loop of `reconcile`.                                          *)

\* Fault: the payout at hand is not replaced.
With_Added(p) == [mem EXCEPT !.payouts = @ \cup {p}]

\* The ledger with the payout at hand replaced by p.
With(p) == [mem EXCEPT !.payouts = (@ \ {cur}) \cup {p}]

\* `drop(store)` comes before a payout is built; a signed one keeps the mutex.
PayNext(p) ==
    /\ pc = "pay"
    /\ cur' = p /\ todo' = todo \ {p}
    /\ pc' = IF p.raw = None THEN "build" ELSE "recheck"
    /\ UNCHANGED <<node, store, sub, fetched, idx, budget>>

PayDone ==
    /\ pc = "pay" /\ todo = {}
    /\ pc' = "idle" /\ cur' = None
    /\ UNCHANGED <<node, store, sub, fetched, idx, todo, budget>>

\* The note tree of the fetched blocks; that of a torn chain may be no block's.
Provable(q) ==
    \/ Anchor[q] = snap
    \/ Anchor[q] = None /\ chain # Path[snap]

\* wallet::create on the fetched chain: a transaction anchored at its tip that
\* spends a note neither spent on it nor reserved by a signed payout.
Buildable ==
    {q \in PayTxs :
        /\ Provable(q)
        /\ Spends[q] \cap (SpentIn(chain) \cup Reserved(mem.payouts)) = {}
        /\ \A p \in mem.payouts : p.raw # q}

\* Fault: the signed bytes are not saved before they are sent.
Sign_Unsaved(q) ==
    /\ pc = "build" /\ LockFree
    /\ q \in Buildable
    /\ cur' = [cur EXCEPT !.raw = q]
    /\ mem' = With(cur') /\ pc' = "recheck"
    /\ UNCHANGED <<node, disk, ready, recovering, feed, sub, fetched, idx, todo, budget>>

Sign(q) ==
    /\ pc = "build" /\ LockFree
    /\ q \in Buildable
    /\ LET signed == [cur EXCEPT !.raw = q]
       IN  Save(With(signed), "recheck") /\ cur' = signed
    /\ UNCHANGED <<node, ready, recovering, feed, sub, fetched, idx, todo>>

\* Not enough spendable funds: the payout stays as it is.
BuildFails ==
    /\ pc = "build" /\ LockFree
    /\ Buildable = {}
    /\ pc' = "pay"
    /\ UNCHANGED <<node, store, sub, fetched, idx, todo, cur, budget>>

\* The payout at hand is set aside for inspection.
Block ==
    /\ Save(With([cur EXCEPT !.status = "blocked"]), "pay")
    /\ UNCHANGED <<node, ready, recovering, feed, sub, fetched, idx, todo, cur>>

\* getblockhash of the paid block's height.  Above the tip it is an error.
Canonical == cur.block \in Path[tip]

RecheckFails ==
    /\ pc = "recheck"
    /\ \/ Height[cur.block] > Height[tip] /\ UNCHANGED budget
       \/ Fault("rpc")
    /\ pc' = "failed"
    /\ UNCHANGED <<node, store, sub, fetched, idx, todo, cur>>

RecheckGone ==
    /\ pc = "recheck"
    /\ Height[cur.block] <= Height[tip] /\ ~ Canonical
    /\ Block

RawExpired == Expiry[cur.raw] # 0 /\ Expiry[cur.raw] <= Height[snap]

RecheckExpired ==
    /\ pc = "recheck" /\ Canonical /\ RawExpired
    /\ Block

Recheck ==
    /\ pc = "recheck" /\ Canonical /\ ~ RawExpired
    /\ pc' = "mempool"
    /\ UNCHANGED <<node, store, sub, fetched, idx, todo, cur, budget>>

\* getrawmempool: a payout that is there already is not sent again.
InMempool ==
    /\ pc = "mempool" /\ cur.raw \in mempool
    /\ IF cur.status = "broadcast"
       THEN pc' = "pay" /\ UNCHANGED <<mem, disk, budget>>
       ELSE Save(With([cur EXCEPT !.status = "broadcast"]), "pay")
    /\ UNCHANGED <<node, ready, recovering, feed, sub, fetched, idx, todo, cur>>

NotInMempool ==
    /\ pc = "mempool" /\ cur.raw \notin mempool
    /\ pc' = "send"
    /\ UNCHANGED <<node, store, sub, fetched, idx, todo, cur, budget>>

\* The node takes q into its mempool (external).
NodeTakes(q) ==
    /\ Valid(q, tip)
    /\ \A p \in mempool : Spends[p] \cap Spends[q] = {}

Broadcast ==
    /\ mempool' = mempool \cup {cur.raw}
    /\ sent' = sent \cup {[raw |-> cur.raw, txs |-> cur.txs]}
    /\ UNCHANGED tip

Send ==
    /\ pc = "send" /\ NodeTakes(cur.raw)
    /\ Broadcast
    /\ pc' = "sent"
    /\ UNCHANGED <<store, sub, fetched, idx, todo, cur, budget>>

RecordSent ==
    /\ pc = "sent"
    /\ Save(With([cur EXCEPT !.status = "broadcast"]), "pay")
    /\ UNCHANGED <<node, ready, recovering, feed, sub, fetched, idx, todo, cur>>

\* The node took it, the answer is an error; the next pass retries.
SendReplyLost ==
    /\ pc = "send" /\ NodeTakes(cur.raw)
    /\ Broadcast
    /\ Fault("reply") /\ pc' = "pay"
    /\ UNCHANGED <<store, sub, fetched, idx, todo, cur>>

SendRejected ==
    /\ pc = "send" /\ ~ NodeTakes(cur.raw)
    /\ pc' = "pay"
    /\ UNCHANGED <<node, store, sub, fetched, idx, todo, cur, budget>>

----------------------------------------------------------------------------
Submission ==
    \/ \E t \in Txs : SubmitBegin(t)
    \/ SubmitVerified \/ SubmitDropped
    \/ SubmitRefused \/ SubmitCommit \/ SubmitSaveFails

Records ==
    \/ RecordIncluded \/ RecordConflicts \/ RecordRequeued \/ RecordFails

Payouts ==
    \/ \E p \in todo : PayNext(p)
    \/ PayDone
    \/ \E q \in PayTxs : Sign(q)
    \/ BuildFails
    \/ RecheckFails \/ RecheckGone \/ RecheckExpired \/ Recheck
    \/ InMempool \/ NotInMempool
    \/ Send \/ RecordSent \/ SendReplyLost \/ SendRejected

Follower ==
    \/ Poll \/ Fetch \/ FetchFails \/ Lock \/ LockMoved \/ FollowerFailed
    \/ Records \/ Reconcile \/ Payouts

Environment ==
    \/ \E b \in Blocks : NodeMove(b)
    \/ \E b \in Blocks : Crash(b)

Next == Submission \/ Follower \/ Environment

Spec == Init /\ [][Next]_vars

\* What a submission that holds the mutex does next; each has an end, the
\* verification because it is given a minute.
SubmissionEnds ==
    SubmitVerified \/ SubmitDropped \/ SubmitRefused \/ SubmitCommit \/ SubmitSaveFails

\* The executor runs every task that can run.  The follower's fairness is
\* strong because tokio's mutex serves its waiters in order: submissions that
\* keep coming cannot keep it out.  The network goes on mining the best chain.
Fairness ==
    /\ SF_vars(Follower)
    /\ WF_vars(SubmissionEnds)
    /\ WF_vars(\E b \in Blocks : NodeMove(b))

FairSpec == Spec /\ Fairness

----------------------------------------------------------------------------
(* What the ledger promises merchants.                                      *)

\* Miners are only ever given durably accepted transactions, and exactly those
\* the database holds as pending: a submission or a reconciliation that fails
\* to save leaves the published snapshot as it was (App::publish).
FeedIsDurable == feed # NoSnapshot => feed = PendingOf(disk)

\* A transaction the service knows, and so answers retries for with a receipt,
\* is in the database, in the same order (the pop after a failed save).
KnownIsDurable == Accepted(mem.records) = Accepted(disk.records)

\* A receipt is for ever: no reorganisation, failure or restart takes an
\* accepted transaction out of the database or reorders it.
AcceptedForever ==
    [][IsPrefix(Accepted(disk.records), Accepted(disk'.records))]_vars

\* A receipt is given for a transaction that is valid on the chain the ledger
\* is at, although the node verified it while its tip could move.
AcceptedValid ==
    [][\A i \in DOMAIN disk'.records \ DOMAIN disk.records :
          Valid(disk'.records[i].tx, disk.tip)]_vars

\* A record says of its transaction what blocks do.
Agrees(r, blocks) ==
    /\ r.status = "included" <=> r.inclusion # None
    /\ r.inclusion # None => r.inclusion \in Latest(MinedIn(r.tx, blocks))
    /\ r.inclusion = None => MinedIn(r.tx, blocks) = {}
    /\ r.status = "pending" => Spends[r.tx] \cap SpentIn(blocks) = {}

\* Statuses are saved as the fetched blocks have them, all of them, whatever was
\* requeued, failed or accepted before and however the node moves meanwhile.
SavedAgrees ==
    [][pc = "records" /\ pc' = "pay" =>
          \A i \in DOMAIN disk'.records : Agrees(disk'.records[i], chain)]_vars

\* The database's statuses describe the branch of the database's tip: included
\* records are the mined ones, with the block that mined them, and nothing
\* pending is outspent.  True while no call of wallet::chain is overtaken by a
\* reorganisation; one that is brings blocks of two branches (ledger_torn).
LedgerAgrees == \A i \in DOMAIN disk.records : Agrees(disk.records[i], Path[disk.tip])

\* No two pending transactions spend the same note: a receipt reserves it.
PendingDisjoint ==
    \A i, j \in DOMAIN disk.records :
        /\ i # j /\ IsPending(disk.records[i]) /\ IsPending(disk.records[j])
        => Spends[disk.records[i].tx] \cap Spends[disk.records[j].tx] = {}

\* The snapshot fits the frame miners fetch it in.
PendingFitsCap == Len(feed.txs) <= Cap

\* Tip and transactions of a snapshot describe one chain: an accepted
\* transaction that can still be mined at that tip is in it.
SnapshotComplete ==
    feed.tip # None =>
        \A i \in DOMAIN disk.records :
            Valid(disk.records[i].tx, feed.tip) => IsPending(disk.records[i])

\* On a chain that only grows, a restart on a node that has fallen behind
\* never rewinds the ledger or takes an inclusion back.
NoRewind ==
    [][/\ disk.tip # None => Height[disk'.tip] >= Height[disk.tip]
       /\ \A i \in DOMAIN disk.records :
             disk.records[i].status = "included"
                => disk'.records[i] = disk.records[i]]_vars

\* However the chain, the failures and the submissions interleave, the service
\* comes back to the node's tip and takes submissions again.
CatchesUp == []<>(ready /\ mem.tip = tip)

----------------------------------------------------------------------------
(* What it promises miners, and the service's wallet.                       *)

\* A transaction's fee is shared with at most one miner: no two payouts of a
\* ledger cover it.
AssignedOnce(ledger) ==
    \A p, q \in ledger.payouts : p.txs \cap q.txs # {} => p = q

FeeAssignedOnce == AssignedOnce(mem) /\ AssignedOnce(disk)

Shares(ledger) ==
    \A i \in DOMAIN ledger.records :
        LET r == ledger.records[i]
        IN  r.status = "included" /\ Attributed(r.inclusion)
                => r.tx \in Assigned(ledger.payouts)

\* ... and at least once: an included transaction of an attributed block is
\* covered by a payout, however many blocks one reconciliation catches up.
FeesAssigned == Shares(disk)

\* Every payout the node ever took is in the ledger, with what it pays for.
SentIn(ledger) ==
    \A s \in sent : \E p \in ledger.payouts : p.raw = s.raw /\ p.txs = s.txs

\* What the node was ever given is in the database, same bytes for the same
\* transactions: the bytes are saved before they are sent.
SentIsSigned == SentIn(disk)

\* No fee is ever paid out twice by two different payout transactions, across
\* reorganisations, failed saves, lost answers and crashes.
PaidOnce == \A s, u \in sent : s.txs \cap u.txs # {} => s = u

\* Every signed payout of `earlier` is still in `later`: the same bytes for the
\* same transactions of the same block, set aside if it was set aside.
Carries(earlier, later) ==
    \A p \in earlier : p.raw # None =>
        \E q \in later :
            /\ q.raw = p.raw /\ q.txs = p.txs /\ q.block = p.block
            /\ p.status = "blocked" => q.status = "blocked"

\* The database neither drops nor re-signs a signed payout, and one that is
\* set aside for inspection stays aside.
SignedForever == [][Carries(disk.payouts, disk'.payouts)]_vars

Apart(ledger) ==
    \A p, q \in ledger.payouts :
        p.raw # None /\ q.raw # None /\ p # q => Spends[p.raw] \cap Spends[q.raw] = {}

\* Two signed payouts never spend the same note of the service's wallet.
SignedDisjoint == Apart(mem)

\* Money leaves for a block only with two confirmations at the ledger's tip, when
\* the block is among those fetched for it, and for transactions it contains.
PaysConfirmed ==
    [][sent' # sent =>
          /\ snap = mem.tip /\ cur.block \in chain
          /\ Height[mem.tip] >= Height[cur.block] + 1
          /\ cur.txs \subseteq Body[cur.block]]_vars

\* A due payout does not wait for ever: either it could not be funded, or the
\* node would not take the signed bytes.
Stuck(p) ==
    IF p.raw = None
    THEN \A q \in PayTxs :
            Spends[q] \cap (SpentOn(disk.tip) \cup Reserved(disk.payouts)) # {}
    ELSE ~ Valid(p.raw, tip)

PayoutsMove ==
    []<>(\A p \in disk.payouts :
            p.status = "waiting" /\ Due(p, disk.tip) => Stuck(p))

----------------------------------------------------------------------------
(* Both at once: the service implements the promise.                        *)

Offered == IF feed.tip = None THEN None ELSE feed.txs

P == INSTANCE Promise WITH
        accepted <- Accepted(disk.records), offered <- Offered, paid <- sent

\* Whatever reorganises, fails or crashes, all that merchants and miners can
\* see is a step of Promise: an acceptance publishes what it answers, an offer
\* is drawn from the receipts in their order, and a payout is for fees that
\* have a receipt and were never paid.
Promised == P!Spec

=============================================================================
