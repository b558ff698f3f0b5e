------------------------------- MODULE Ledger -------------------------------
(***************************************************************************)
(* The ledger of src/server.rs and the pure parts of `reconcile`: how a new *)
(* chain settles the payouts and records that are there, and which payouts  *)
(* it adds.  A record's raw bytes, receipt and txid are one value, the      *)
(* transaction.  The vector of payouts is a set: the code gives new payouts *)
(* the order of a HashMap's iteration.  Reasons and addresses are left out. *)
(***************************************************************************)
EXTENDS Chain, Subsequences, SequencesExt

CONSTANT Fee    \* Fee[t]: what t pays the service's address (wallet::received)

ASSUME FeeShape == Fee \in [Txs -> Nat]

Fees(txs) == MapThenSumSet(LAMBDA t : Fee[t], txs)

\* 98 % of the fees, in integer arithmetic.
Share(fees) == (fees * 98) \div 100

\* What a payout can amount to.
Amounts == {Share(Fees(txs)) : txs \in SUBSET Txs}

Record ==
    [tx : Txs, status : {"pending", "included", "failed"},
     inclusion : Blocks \cup {None}]

Payout ==
    [block : Blocks, txs : (SUBSET Txs) \ {{}}, amount : Amounts, raw : PayTxs \cup {None},
     status : {"waiting", "broadcast", "confirmed", "blocked"}]

LedgerType ==
    [tip : Blocks \cup {None}, records : Seq(Record), payouts : SUBSET Payout]

EmptyLedger == [tip |-> None, records |-> <<>>, payouts |-> {}]

TxsOf(records) == {records[i].tx : i \in DOMAIN records}

\* The transactions in the order they were accepted.
Accepted(records) == [i \in DOMAIN records |-> records[i].tx]

IsPending(r) == r.status = "pending"

PendingAt(records) == {i \in DOMAIN records : IsPending(records[i])}

NoSnapshot == [tip |-> None, txs |-> <<>>]

\* Fault: the newest comes first.
PendingOf_Newest(ledger) ==
    LET records == Reverse(ledger.records)
    IN  IF ledger.tip = None THEN NoSnapshot
        ELSE [tip |-> ledger.tip, txs |-> Picked(Accepted(records), PendingAt(records))]

\* App::pending: the snapshot miners fetch, in the order of acceptance.
PendingOf(ledger) ==
    IF ledger.tip = None THEN NoSnapshot
    ELSE [tip |-> ledger.tip,
          txs |-> Picked(Accepted(ledger.records), PendingAt(ledger.records))]

\* The spend of t is reserved by another accepted pending transaction.
Conflicted(t, records) ==
    \E i \in DOMAIN records :
        IsPending(records[i]) /\ Spends[records[i].tx] \cap Spends[t] # {}

NewRecord(t) == [tx |-> t, status |-> "pending", inclusion |-> None]

----------------------------------------------------------------------------
(* The payout pass and the records pass of `reconcile` over the blocks it   *)
(* fetched.                                                                 *)

\* Fault: a blocked payout is settled like any other.
SettledStatus_Unblocked(p, blocks) ==
    IF p.block \notin blocks
    THEN IF p.raw = None THEN p.status ELSE "blocked"
    ELSE IF p.raw \in TxsIn(blocks) THEN "confirmed" ELSE p.status

SettledStatus(p, blocks) ==
    CASE p.status = "blocked" -> "blocked"
      [] p.status # "blocked" /\ p.block \notin blocks ->
            IF p.raw = None THEN p.status ELSE "blocked"
      [] p.status # "blocked" /\ p.block \in blocks ->
            IF p.raw \in TxsIn(blocks) THEN "confirmed"
            ELSE IF p.status = "confirmed" THEN "blocked"
            ELSE p.status

\* Fault: every orphaned payout is dropped, the signed ones included.
Kept_Canonical(p, blocks) == p.block \in blocks

\* An orphaned payout that was never signed is dropped.
Kept(p, blocks) == p.raw # None \/ p.block \in blocks

Settle(payouts, blocks) ==
    {[p EXCEPT !.status = SettledStatus(p, blocks)] : p \in {q \in payouts : Kept(q, blocks)}}

\* The last block that holds a transaction is its inclusion.
Latest(blocks) == {c \in blocks : \A d \in blocks : Height[d] <= Height[c]}

Included(r, b) == [r EXCEPT !.status = "included", !.inclusion = b]

Lapsed(r) == [r EXCEPT !.status = "failed", !.inclusion = None]

\* Fault: the block that was orphaned is left in the record.
Requeued_Stale(r) == [r EXCEPT !.status = "pending"]

Requeued(r) == [r EXCEPT !.status = "pending", !.inclusion = None]

----------------------------------------------------------------------------
(* Payout assignment.                                                       *)

Assigned(payouts) == UNION {p.txs : p \in payouts}

\* Fault: what other payouts cover is assigned again.
Group_Unassigned(records, payouts, b) ==
    {records[i].tx : i \in {j \in DOMAIN records : records[j].inclusion = b}}

\* The accepted transactions of block b that no payout covers yet.
Group(records, payouts, b) ==
    {records[i].tx : i \in {j \in DOMAIN records : records[j].inclusion = b}}
        \ Assigned(payouts)

\* A block is attributed when its coinbase pays exactly one configured miner.
Attributed(b) == Cardinality(Payees[b]) = 1

NewPayout(b, txs) ==
    [block |-> b, txs |-> txs, amount |-> Share(Fees(txs)), raw |-> None,
     status |-> "waiting"]

NewPayouts(records, payouts) ==
    {NewPayout(b, Group(records, payouts, b)) :
        b \in {c \in Blocks : Attributed(c) /\ Group(records, payouts, c) # {}}}

\* Fault: one confirmation is enough.
Due_Fresh(p, b) ==
    p.status \in {"waiting", "broadcast"} /\ Height[b] >= Height[p.block]

\* Two confirmations at ledger tip b, and not settled.
Due(p, b) ==
    p.status \in {"waiting", "broadcast"} /\ Height[b] >= Height[p.block] + 1

\* Fault: only what was broadcast keeps its notes.
Reserved_Sent(payouts) ==
    UNION {Spends[p.raw] : p \in {q \in payouts : q.raw # None /\ q.status = "broadcast"}}

\* The nullifiers of the notes that signed payouts spend.
Reserved(payouts) == UNION {Spends[p.raw] : p \in {q \in payouts : q.raw # None}}

=============================================================================
