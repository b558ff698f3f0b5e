----------------------------- MODULE Invariants -----------------------------
(***************************************************************************)
(* The inductive invariants behind the properties of Service: what relates  *)
(* memory, database, feed and node while a reconciliation, a submission or   *)
(* a payout is under way.                                                   *)
(***************************************************************************)
EXTENDS Service

Building == {"build", "recheck", "mempool", "send", "sent"}
Paying   == {"pay"} \cup Building

----------------------------------------------------------------------------
(* The ledgers, the feed and the tasks.                                     *)

\* A submission holds the mutex with a transaction nobody has accepted.
Holder ==
    sub.phase # "idle" =>
        pc \in Free /\ sub.tx \in Txs /\ sub.tx \notin TxsOf(mem.records)

\* A transaction is accepted once.
UniqueRecords ==
    \A i, j \in DOMAIN mem.records : mem.records[i].tx = mem.records[j].tx => i = j

\* The record loop starts at the first record.  In the payout loop memory and
\* database agree, the payout at hand is one of theirs, and past the proving it
\* is signed.
Working ==
    /\ pc = "records" => idx >= 1
    /\ pc \in Paying =>
          mem = disk /\ todo \subseteq mem.payouts
    /\ pc \in Building =>
          cur \in mem.payouts /\ cur \notin todo
    /\ pc = "build" => cur.raw = None
    /\ pc \in {"recheck", "mempool", "send", "sent"} => cur.raw # None

IInv ==
    /\ TypeOK
    /\ Holder /\ UniqueRecords /\ Working
    /\ KnownIsDurable /\ FeedIsDurable
    /\ FeeAssignedOnce
    /\ SentIn(mem) /\ SentIn(disk)

\* Behind Promised: a payout is for accepted transactions.
Covers(ledger) == \A p \in ledger.payouts : p.txs \subseteq TxsOf(ledger.records)

Covered == Covers(mem) /\ Covers(disk)

\* Behind SignedForever: what a half-done reconciliation has in memory carries
\* the signed payouts of the database, and no payout that was set aside is
\* worked on.
Carried ==
    /\ Carries(disk.payouts, mem.payouts)
    /\ \A p \in todo : p.status # "blocked"
    /\ pc \in Building => cur.status # "blocked"

----------------------------------------------------------------------------
(* Half-done work and the chain.                                            *)

\* While submissions are taken or payouts worked on, memory has the statuses of
\* the database; none is taken while records are classified.
Steady ==
    /\ ready \/ pc \in Paying => mem.records = disk.records /\ mem.tip = disk.tip
    /\ pc = "records" => ~ ready
    /\ sub.phase # "idle" => ready
    /\ pc \in Paying => mem.tip = snap

\* The record loop has brought the records it has passed to the fetched chain.
Classified ==
    pc = "records" =>
        \A i \in DOMAIN mem.records : i < idx => Agrees(mem.records[i], chain)

Unpaid(p) == p.status \in {"waiting", "broadcast"}

\* The payouts were settled before: those to be paid are for blocks of the
\* fetched chain, and those at hand have their two confirmations on it.
Standing == pc = "records" => \A p \in mem.payouts : Unpaid(p) => p.block \in chain

Ripe(p) == p.block \in chain /\ Height[snap] >= Height[p.block] + 1

Ripened ==
    /\ pc \in Paying => \A p \in todo : Ripe(p)
    /\ pc \in Building => Ripe(cur)

\* A payout is for transactions of its block.
Earned(ledger) == \A p \in ledger.payouts : p.txs \subseteq Body[p.block]

\* Behind PaysConfirmed, FeesAssigned and SignedDisjoint.
Reconciling ==
    /\ Steady /\ Classified /\ Standing /\ Ripened
    /\ Earned(mem) /\ Earned(disk)
    /\ Shares(disk) /\ (ready => Shares(mem))
    /\ Apart(mem) /\ Apart(disk)

\* All that holds whatever the chain does.
Inductive == IInv /\ Covered /\ Carried /\ Reconciling

\* While no call is overtaken by a reorganisation, what is reconciled is the
\* branch of the fetched tip.
Whole ==
    /\ ~ torn
    /\ pc \notin {"idle", "fetch", "failed"} => chain = Path[snap]

\* A verification that ends at the ledger's tip was made there, since a tip
\* that was left does not come back.
Checked ==
    sub.phase # "idle" =>
        /\ mem.tip # None
        /\ tip = mem.tip \/ Height[mem.tip] < Height[tip]
        /\ sub.phase = "commit" /\ tip = mem.tip => Valid(sub.tx, tip)

----------------------------------------------------------------------------
(* On a chain that only grows, with restarts on a node that lost blocks.    *)

\* t can be mined neither after b nor after a descendant of b.
Dead(t, b) ==
    \/ Spends[t] \cap SpentOn(b) # {}
    \/ Expiry[t] # 0 /\ Height[b] + 1 > Expiry[t]

\* The database is behind memory, and memory behind the node once the follower
\* has seen that the node is as high as the recovered ledger.
Onward ==
    /\ disk.tip = None => disk.records = <<>>
    /\ disk.tip # None => mem.tip # None /\ Height[disk.tip] <= Height[mem.tip]
    /\ mem.tip # None /\ (pc # "idle" \/ ~ recovering) => Height[mem.tip] <= Height[tip]
    /\ pc \in {"lock", "records"} =>
          /\ mem.tip # None => Height[mem.tip] <= Height[snap]
          /\ Height[snap] <= Height[tip]

\* A reconciliation that may stop halfway leaves inclusions as they are.
Retained ==
    \A i \in DOMAIN disk.records :
        disk.records[i].status = "included" => mem.records[i] = disk.records[i]

\* An accepted transaction spends a note and is anchored on the chain for good.
Anchored ==
    \A i \in DOMAIN disk.records :
        LET t == disk.records[i].tx
        IN  Spends[t] # {} /\ Anchor[t] \in Path[disk.tip]

\* What is no longer pending cannot be mined any more: reservations are given
\* back only then.
Lapses ==
    \A i \in DOMAIN mem.records :
        ready \/ (pc = "records" /\ i < idx)
            => IsPending(mem.records[i]) \/ Dead(mem.records[i].tx, tip)

\* What is pending can still be mined.
Living ==
    /\ \A i \in DOMAIN disk.records :
          IsPending(disk.records[i]) => ~ Dead(disk.records[i].tx, disk.tip)
    /\ pc = "records" =>
          \A i \in DOMAIN mem.records :
              i < idx /\ IsPending(mem.records[i]) => ~ Dead(mem.records[i].tx, snap)

\* A submission under way conflicts with nothing pending.
Reserving == sub.phase # "idle" => ~ Conflicted(sub.tx, mem.records)

\* Of two accepted transactions that spend a note, one cannot be mined.
Exclusive ==
    \A i, j \in DOMAIN disk.records :
        /\ i # j
        /\ Spends[disk.records[i].tx] \cap Spends[disk.records[j].tx] # {}
        => Dead(disk.records[i].tx, disk.tip) \/ Dead(disk.records[j].tx, disk.tip)

\* The database holds no more that can be mined than the feed.
Bounded ==
    Cardinality({i \in DOMAIN disk.records : ~ Dead(disk.records[i].tx, disk.tip)}) <= Cap

\* A receipt reserves its notes until its transaction cannot be mined any more.
Claims == Anchored /\ Lapses /\ Living /\ Reserving /\ Exclusive

Growing == Onward /\ Retained /\ Claims

=============================================================================
