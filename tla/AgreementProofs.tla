-------------------------- MODULE AgreementProofs --------------------------
(***************************************************************************)
(* How the ledger agrees with the chain and with itself, for every block    *)
(* tree, every set of transactions and every bound.  Whatever the chain     *)
(* does, Reconciling is inductive beside IInv: it relates the statuses, the *)
(* payouts and the position of a reconciliation that may stop halfway.  On  *)
(* a tip that only moves upwards, statuses and receipts agree with the      *)
(* chain; without forks, receipts also reserve their notes and the pending  *)
(* set keeps within its capacity.                                           *)
(***************************************************************************)
EXTENDS ServiceProofs

USE DEF fetched

----------------------------------------------------------------------------
(* The operators of Ledger and the chain.                                   *)

\* Some block mined a transaction if the blocks have it.
LEMMA MinedSome ==
  ASSUME NEW blocks, NEW t
  PROVE  /\ MinedIn(t, blocks) \subseteq blocks
         /\ t \in TxsIn(blocks) <=> MinedIn(t, blocks) # {}
  BY DEF TxsIn, MinedIn

\* At most one block of a branch mined a transaction.
LEMMA MinedOnce ==
  ASSUME NEW b \in Blocks, NEW t
  PROVE  \A c, d \in MinedIn(t, Path[b]) : c = d
  <1> SUFFICES ASSUME NEW c \in MinedIn(t, Path[b]), NEW d \in MinedIn(t, Path[b])
               PROVE  c = d
    OBVIOUS
  <1>1. c \in Path[b] /\ d \in Path[b] /\ t \in Body[c] \cap Body[d]
    BY DEF MinedIn
  <1> QED BY <1>1, BranchConsensus

\* A record the loop has classified agrees with the fetched blocks.
LEMMA IncludedAgrees ==
  ASSUME NEW blocks \in SUBSET Blocks, NEW r \in Record,
         NEW b \in Latest(MinedIn(r.tx, blocks))
  PROVE  /\ Included(r, b) \in Record /\ Included(r, b).tx = r.tx
         /\ Included(r, b).status = "included"
         /\ Agrees(Included(r, b), blocks)
  <1> DEFINE s == Included(r, b)
  <1>1. b \in Blocks /\ b # None
    BY MinedSome, ChainShape DEF Latest
  <1>2. s \in Record /\ s.tx = r.tx /\ s.status = "included" /\ s.inclusion = b
    BY <1>1 DEF Included, Record
  <1> HIDE DEF s
  <1>3. Agrees(s, blocks)
    BY <1>1, <1>2 DEF Agrees
  <1> QED BY <1>2, <1>3 DEF s

LEMMA LapsedAgrees ==
  ASSUME NEW blocks, NEW r \in Record, r.tx \notin TxsIn(blocks)
  PROVE  Agrees(Lapsed(r), blocks)
  <1> DEFINE s == Lapsed(r)
  <1>1. MinedIn(r.tx, blocks) = {}
    BY MinedSome
  <1>2. s.tx = r.tx /\ s.status = "failed" /\ s.inclusion = None
    BY DEF Lapsed, Record
  <1> HIDE DEF s
  <1>3. Agrees(s, blocks)
    BY <1>1, <1>2 DEF Agrees
  <1> QED BY <1>3 DEF s

LEMMA RequeuedAgrees ==
  ASSUME NEW blocks, NEW r \in Record,
         r.tx \notin TxsIn(blocks), Spends[r.tx] \cap SpentIn(blocks) = {}
  PROVE  Agrees(Requeued(r), blocks)
  <1> DEFINE s == Requeued(r)
  <1>1. MinedIn(r.tx, blocks) = {}
    BY MinedSome
  <1>2. s.tx = r.tx /\ s.status = "pending" /\ s.inclusion = None
    BY DEF Requeued, Record
  <1> HIDE DEF s
  <1>3. Agrees(s, blocks)
    BY <1>1, <1>2 DEF Agrees
  <1> QED BY <1>3 DEF s

\* The block a classified record is included in was fetched and has its
\* transaction.
LEMMA AgreesBlock ==
  ASSUME NEW blocks, NEW r, Agrees(r, blocks), r.inclusion # None
  PROVE  r.inclusion \in blocks /\ r.tx \in Body[r.inclusion]
  BY DEF Agrees, Latest, MinedIn

\* What settling leaves to be paid is for the blocks it settled with, for the
\* same block and transactions as before.
LEMMA SettleStands ==
  ASSUME NEW S \in SUBSET Payout, NEW blocks, NEW p \in Settle(S, blocks)
  PROVE  /\ \E q \in S : p.block = q.block /\ p.txs = q.txs
         /\ Unpaid(p) => p.block \in blocks
  <1>1. PICK q \in S : Kept(q, blocks) /\ p = [q EXCEPT !.status = SettledStatus(q, blocks)]
    BY DEF Settle
  <1>2. q \in Payout
    OBVIOUS
  <1>3. /\ p.block = q.block /\ p.txs = q.txs
        /\ p.status = SettledStatus(q, blocks)
    BY <1>1, <1>2 DEF Payout
  <1>4. q.status \in {"waiting", "broadcast", "confirmed", "blocked"}
    BY <1>2 DEF Payout
  <1>5. ASSUME q.block \notin blocks PROVE SettledStatus(q, blocks) = "blocked"
    BY <1>1, <1>4, <1>5 DEF Kept, SettledStatus
  <1> QED BY <1>3, <1>5 DEF Unpaid

\* Settling keeps the notes of the signed payouts apart.
LEMMA SettleApart ==
  ASSUME NEW l \in LedgerType, NEW blocks, Apart(l),
         NEW p \in Settle(l.payouts, blocks), NEW q \in Settle(l.payouts, blocks),
         p.raw # None, q.raw # None, p # q
  PROVE  Spends[p.raw] \cap Spends[q.raw] = {}
  <1> DEFINE settled(r) == [r EXCEPT !.status = SettledStatus(r, blocks)]
  <1>1. PICK r \in l.payouts : p = settled(r)
    BY DEF Settle
  <1>2. PICK s \in l.payouts : q = settled(s)
    BY DEF Settle
  <1>3. p.raw = r.raw /\ q.raw = s.raw
    BY <1>1, <1>2 DEF LedgerType, Payout
  <1>4. r # s
    BY <1>1, <1>2
  <1> QED BY <1>3, <1>4 DEF Apart

\* A new payout is unsigned and covers records of its block.
LEMMA NewPayoutIs ==
  ASSUME NEW records, NEW payouts, NEW p \in NewPayouts(records, payouts)
  PROVE  /\ p.raw = None /\ p.block \in Blocks
         /\ \E i \in DOMAIN records : records[i].inclusion = p.block
         /\ \A t \in p.txs : \E i \in DOMAIN records :
               records[i].tx = t /\ records[i].inclusion = p.block
  <1>1. PICK b \in Blocks : /\ p = NewPayout(b, Group(records, payouts, b))
                            /\ Group(records, payouts, b) # {}
    BY DEF NewPayouts
  <1>2. p.raw = None /\ p.block = b /\ p.txs = Group(records, payouts, b)
    BY <1>1 DEF NewPayout
  <1>3. \A t \in Group(records, payouts, b) : \E i \in DOMAIN records :
            records[i].tx = t /\ records[i].inclusion = b
    BY DEF Group
  <1> QED BY <1>1, <1>2, <1>3

----------------------------------------------------------------------------
(* Reconciling is inductive: one lemma per kind of step.                    *)

\* A step that leaves the ledgers alone has only its control state to answer
\* for.
LEMMA QuietReconciling ==
  ASSUME Reconciling, UNCHANGED <<mem, disk>>, ready' => ready,
         Steady', Classified', Standing', Ripened'
  PROVE  Reconciling'
  BY DEF Reconciling, Earned, Shares, Apart

\* The first payout pass settles.
LEMMA LockReconciling ==
  ASSUME IInv, Reconciling, Lock
  PROVE  Reconciling'
  <1> USE DEF IInv, TypeOK, Reconciling
  <1>1. /\ mem.payouts \in SUBSET Payout /\ chain \in SUBSET Blocks
        /\ mem' = [mem EXCEPT !.payouts = Settle(@, chain)] /\ mem \in LedgerType
        /\ disk' = disk /\ chain' = chain /\ sub' = sub /\ sub.phase = "idle"
        /\ ready' = FALSE /\ idx' = 1 /\ pc' = "records"
    BY DEF LedgerType, Lock, LockFree
  <1>2. /\ mem'.payouts = Settle(mem.payouts, chain)
        /\ mem'.records = mem.records /\ mem'.tip = mem.tip
        /\ mem.records \in Seq(Record)
    BY <1>1 DEF LedgerType
  <1>3. Steady'
    BY <1>1 DEF Steady, Paying, Building
  <1>4. Classified'
    BY <1>1, <1>2 DEF Classified
  <1>5. Standing'
    BY <1>1, <1>2, SettleStands DEF Standing
  <1>6. Ripened'
    BY <1>1 DEF Ripened, Paying, Building
  <1>7. Earned(mem)'
    <2> SUFFICES ASSUME NEW p \in mem'.payouts PROVE p.txs \subseteq Body[p.block]
      BY DEF Earned
    <2>1. PICK q \in mem.payouts : p.block = q.block /\ p.txs = q.txs
      BY <1>1, <1>2, SettleStands
    <2> QED BY <2>1 DEF Earned
  <1>8. Apart(mem)'
    <2>1. Apart(mem)
      OBVIOUS
    <2>2. \A p, q \in Settle(mem.payouts, chain) :
             p.raw # None /\ q.raw # None /\ p # q
                => Spends[p.raw] \cap Spends[q.raw] = {}
      BY <1>1, <2>1, SettleApart
    <2> QED BY <1>2, <2>2 DEF Apart
  <1>9. Earned(disk)' /\ Shares(disk)' /\ Apart(disk)' /\ (ready' => Shares(mem)')
    BY <1>1 DEF Earned, Shares, Apart
  <1> QED BY <1>3, <1>4, <1>5, <1>6, <1>7, <1>8, <1>9

\* The record at hand becomes one that agrees with the fetched blocks.  It stays
\* pending only if it is valid at the node's tip, and a verification fails only
\* when it is not or by a fault.
LEMMA RecordAgrees ==
  ASSUME IInv, Records
  PROVE  \E r \in Record : /\ Classify(r)
                           /\ idx \in DOMAIN mem.records /\ r.tx = mem.records[idx].tx
                           /\ Agrees(r, chain)
                           /\ r.status = "pending" => Valid(r.tx, tip)
                           /\ r.status = "failed" /\ "verify" \notin Faults
                                 => Outspent(r) \/ ~ Valid(r.tx, tip)
  <1> USE DEF IInv, TypeOK
  <1>1. mem.records \in Seq(Record) /\ idx \in DOMAIN mem.records /\ chain \in SUBSET Blocks
    BY DEF Records, RecordIncluded, RecordConflicts, RecordRequeued, RecordFails, AtRecord,
           Working, LedgerType
  <1> DEFINE r == mem.records[idx]
  <1>2. r \in Record
    BY <1>1
  <1> HIDE DEF r
  <1>3. /\ Lapsed(r) \in Record /\ Lapsed(r).tx = r.tx /\ Lapsed(r).status = "failed"
        /\ Requeued(r) \in Record /\ Requeued(r).tx = r.tx
        /\ Requeued(r).status = "pending"
    BY <1>2 DEF Lapsed, Requeued, Record
  <1>4. CASE RecordIncluded
    <2>1. PICK b \in Latest(MinedIn(r.tx, chain)) : Classify(Included(r, b))
      BY <1>4 DEF RecordIncluded, r
    <2>2. /\ Included(r, b) \in Record /\ Included(r, b).tx = r.tx
          /\ Included(r, b).status = "included"
          /\ Agrees(Included(r, b), chain)
      BY <1>1, <1>2, IncludedAgrees
    <2> QED BY <1>1, <2>1, <2>2 DEF r
  <1>5. CASE RecordConflicts \/ RecordFails
    <2>1. Classify(Lapsed(r)) /\ r.tx \notin TxsIn(chain)
      BY <1>5 DEF RecordConflicts, RecordFails, Mined, Outspent, r
    <2>2. Agrees(Lapsed(r), chain)
      BY <1>1, <1>2, <2>1, LapsedAgrees
    <2>3. "verify" \notin Faults => Outspent(r) \/ ~ Valid(r.tx, tip)
      BY <1>5 DEF RecordConflicts, RecordFails, Fault, r
    <2>4. "verify" \notin Faults => Outspent(Lapsed(r)) \/ ~ Valid(Lapsed(r).tx, tip)
      BY <1>3, <2>3 DEF Outspent, Mined
    <2> QED BY <1>1, <1>3, <2>1, <2>2, <2>4 DEF r
  <1>6. CASE RecordRequeued
    <2>1. /\ Classify(Requeued(r)) /\ r.tx \notin TxsIn(chain)
          /\ Spends[r.tx] \cap SpentIn(chain) = {} /\ Valid(r.tx, tip)
      BY <1>6 DEF RecordRequeued, Mined, Outspent, r
    <2>2. Agrees(Requeued(r), chain)
      BY <1>1, <1>2, <2>1, RequeuedAgrees
    <2> QED BY <1>1, <1>3, <2>1, <2>2 DEF r
  <1> QED BY <1>4, <1>5, <1>6 DEF Records

\* The record loop moves on by one record.
LEMMA RecordsReconciling ==
  ASSUME IInv, Reconciling, Records
  PROVE  Reconciling'
  <1> USE DEF IInv, TypeOK, Reconciling
  <1>1. PICK r \in Record : /\ Classify(r)
                            /\ idx \in DOMAIN mem.records /\ r.tx = mem.records[idx].tx
                            /\ Agrees(r, chain)
    BY RecordAgrees
  <1>2. /\ mem' = [mem EXCEPT !.records[idx] = r] /\ idx' = idx + 1
        /\ UNCHANGED <<disk, ready, sub, pc, fetched, todo, cur>>
        /\ mem.records \in Seq(Record) /\ idx \in Nat /\ mem \in LedgerType
    BY <1>1 DEF Classify, LedgerType
  <1>3. pc = "records" /\ ready = FALSE
    BY DEF Records, RecordIncluded, RecordConflicts, RecordRequeued, RecordFails, AtRecord,
           Steady
  <1>4. /\ mem'.records = [mem.records EXCEPT ![idx] = r]
        /\ mem'.payouts = mem.payouts /\ mem'.tip = mem.tip
    BY <1>2 DEF LedgerType
  <1>5. /\ DOMAIN mem'.records = DOMAIN mem.records /\ mem'.records[idx] = r
        /\ DOMAIN mem.records \subseteq Nat
        /\ \A i \in DOMAIN mem.records : i # idx => mem'.records[i] = mem.records[i]
    BY <1>1, <1>2, <1>4
  <1>6. Steady'
    BY <1>2, <1>3 DEF Steady, Paying, Building
  <1>7. Classified'
    <2>1. ASSUME NEW i \in DOMAIN mem'.records, i < idx' PROVE Agrees(mem'.records[i], chain)
      <3>1. i = idx \/ i < idx
        BY <1>2, <1>5, <2>1
      <3> QED BY <1>1, <1>3, <1>5, <3>1 DEF Classified
    <2> QED BY <1>2, <2>1 DEF Classified
  <1>8. Standing' /\ Ripened'
    BY <1>2, <1>3, <1>4 DEF Standing, Ripened, Paying, Building
  <1>9. Earned(mem)' /\ Apart(mem)'
    BY <1>4 DEF Earned, Apart
  <1>10. Earned(disk)' /\ Shares(disk)' /\ Apart(disk)' /\ (ready' => Shares(mem)')
    BY <1>2, <1>3 DEF Earned, Shares, Apart
  <1> QED BY <1>6, <1>7, <1>8, <1>9, <1>10

\* The reconciled ledger shares the fees of every classified record, and its
\* new payouts are for fetched blocks.
LEMMA ReconciledEarns ==
  ASSUME IInv, Reconciling, pc = "records", idx > Len(mem.records)
  PROVE  /\ \A p \in Reconciled.payouts : Unpaid(p) => p.block \in chain
         /\ Earned(Reconciled) /\ Shares(Reconciled) /\ Apart(Reconciled)
  <1> USE DEF IInv, TypeOK, Reconciling
  <1> DEFINE fresh == NewPayouts(mem.records, mem.payouts)
  <1>1. /\ mem \in LedgerType /\ mem.records \in Seq(Record) /\ chain \in SUBSET Blocks
        /\ Reconciled.records = mem.records
        /\ Reconciled.payouts = mem.payouts \cup fresh
    BY DEF LedgerType, Reconciled
  <1>2. \A i \in DOMAIN mem.records : Agrees(mem.records[i], chain)
    BY <1>1 DEF Classified
  <1>3. \A p \in fresh : p.raw = None /\ p.block \in Blocks /\ p.block # None
    BY NewPayoutIs, ChainShape
  <1>4. \A p \in fresh : p.block \in chain
    BY <1>1, <1>2, <1>3, NewPayoutIs, AgreesBlock
  <1>5. \A p \in fresh : p.txs \subseteq Body[p.block]
    BY <1>1, <1>2, <1>3, NewPayoutIs, AgreesBlock
  <1> HIDE DEF fresh
  <1>6. \A p \in Reconciled.payouts : Unpaid(p) => p.block \in chain
    BY <1>1, <1>4 DEF Standing
  <1>7. Earned(Reconciled)
    BY <1>1, <1>5 DEF Earned
  <1>8. Apart(Reconciled)
    BY <1>1, <1>3 DEF Apart
  <1>9. Shares(Reconciled)
    <2> SUFFICES ASSUME NEW i \in DOMAIN mem.records,
                        mem.records[i].status = "included",
                        Attributed(mem.records[i].inclusion)
                 PROVE  mem.records[i].tx \in Assigned(Reconciled.payouts)
      BY <1>1 DEF Shares
    <2> DEFINE t == mem.records[i].tx
               c == mem.records[i].inclusion
               group == Group(mem.records, mem.payouts, c)
    <2>1. c \in Blocks
      <3>1. Agrees(mem.records[i], chain)
        BY <1>2
      <3>2. c # None
        BY <3>1 DEF Agrees
      <3> QED BY <1>1, <3>1, <3>2, AgreesBlock
    <2>2. CASE t \in Assigned(mem.payouts)
      BY <1>1, <2>2 DEF Assigned
    <2>3. CASE t \notin Assigned(mem.payouts)
      <3>1. t \in group
        BY <2>3 DEF Group
      <3>2. NewPayout(c, group) \in fresh
        BY <2>1, <3>1 DEF fresh, NewPayouts
      <3>3. NewPayout(c, group).txs = group
        BY DEF NewPayout
      <3> HIDE DEF group
      <3> QED BY <1>1, <3>1, <3>2, <3>3 DEF Assigned
    <2> QED BY <2>2, <2>3
  <1> QED BY <1>6, <1>7, <1>8, <1>9

\* The reconciliation is saved, or given up.
LEMMA ReconcileReconciling ==
  ASSUME IInv, Reconciling, Reconcile
  PROVE  Reconciling'
  <1> USE DEF IInv, TypeOK, Reconciling
  <1>1. /\ pc = "records" /\ idx > Len(mem.records) /\ mem' = Reconciled
        /\ UNCHANGED <<node, sub, fetched, idx, cur>> /\ mem \in LedgerType
    BY DEF Reconcile, Save
  <1>2. /\ Reconciled.records = mem.records /\ Reconciled.tip = snap
    BY <1>1 DEF Reconciled, LedgerType
  <1>3. /\ \A p \in mem'.payouts : Unpaid(p) => p.block \in chain
        /\ Earned(mem)' /\ Shares(mem)' /\ Apart(mem)'
    BY <1>1, ReconciledEarns DEF Earned, Shares, Apart
  <1>4. sub.phase = "idle" /\ ready = FALSE
    BY <1>1 DEF Holder, Free, Steady
  <1>5. CASE disk' = Reconciled /\ pc' = "pay"
    <2>1. todo' = {p \in mem'.payouts : Due(p, snap)} /\ disk' = mem'
      BY <1>1, <1>5 DEF Reconcile
    <2>2. Steady'
      BY <1>1, <1>2, <1>4, <1>5, <2>1 DEF Steady
    <2>3. Classified' /\ Standing'
      BY <1>5 DEF Classified, Standing
    <2>4. Ripened'
      BY <1>1, <1>3, <1>5, <2>1 DEF Ripened, Ripe, Due, Unpaid, Building
    <2> QED BY <1>3, <2>1, <2>2, <2>3, <2>4 DEF Earned, Shares, Apart
  <1>6. CASE disk' = disk /\ pc' = "failed"
    <2>1. ready' = ready
      BY <1>6 DEF Reconcile
    <2>2. Steady' /\ Classified' /\ Standing' /\ Ripened'
      BY <1>1, <1>4, <1>6, <2>1
         DEF Steady, Classified, Standing, Ripened, Paying, Building
    <2> QED BY <1>3, <1>4, <1>6, <2>1, <2>2 DEF Earned, Shares, Apart
  <1> QED BY <1>1, <1>5, <1>6 DEF Reconcile, Save

\* Saving a ledger in which p stands for the payout at hand: it is for the same
\* block and transactions, and spends no note another signed payout spends.
LEMMA SaveReconciling ==
  ASSUME IInv, Reconciling, sub.phase = "idle", pc \in Building,
         NEW p, p.txs = cur.txs, p.block = cur.block,
         \A q \in mem.payouts \ {cur} :
            p.raw # None /\ q.raw # None => Spends[p.raw] \cap Spends[q.raw] = {},
         NEW next \in {"pay", "recheck"}, Save(With(p), next),
         cur' \in {cur, p},
         UNCHANGED <<ready, sub, fetched, idx, todo>>
  PROVE  Reconciling'
  <1> USE DEF IInv, TypeOK, Reconciling
  <1>1. /\ mem \in LedgerType /\ pc \in Paying /\ cur \in mem.payouts
        /\ mem' = With(p) /\ disk' \in {disk, mem'} /\ pc' \in {next, "failed"}
        /\ pc' = next => disk' = mem'
    BY DEF Save, Working, Paying
  <1>2. /\ mem'.records = mem.records /\ mem'.tip = mem.tip
        /\ mem'.payouts = (mem.payouts \ {cur}) \cup {p}
    BY <1>1 DEF With, LedgerType
  <1>3. Steady'
    BY <1>1, <1>2 DEF Steady, Paying, Building
  <1>4. Classified' /\ Standing'
    BY <1>1 DEF Classified, Standing
  <1>5. Ripened'
    BY <1>1 DEF Ripened, Ripe, Paying, Building
  <1>6. Earned(mem)'
    BY <1>1, <1>2 DEF Earned
  <1>7. Assigned(mem'.payouts) = Assigned(mem.payouts)
    BY <1>1, <1>2 DEF Assigned
  <1>8. Shares(mem) => Shares(mem)'
    BY <1>2, <1>7 DEF Shares
  <1>9. Apart(mem)'
    BY <1>1, <1>2 DEF Apart
  <1>10. Shares(mem)
    <2>1. mem.records = disk.records /\ mem.payouts = disk.payouts
      BY <1>1 DEF Working
    <2> QED BY <2>1 DEF Shares
  <1>11. Earned(disk)' /\ Shares(disk)' /\ Apart(disk)'
    BY <1>1, <1>6, <1>8, <1>9, <1>10 DEF Earned, Shares, Apart
  <1> QED BY <1>3, <1>4, <1>5, <1>6, <1>8, <1>9, <1>10, <1>11

\* The payout loop where it saves the payout at hand.
LEMMA PaySaveReconciling ==
  ASSUME IInv, Reconciling,
         \/ \E q \in PayTxs : Sign(q)
         \/ RecheckGone \/ RecheckExpired \/ InMempool \/ RecordSent
  PROVE  Reconciling'
  <1>0. sub.phase = "idle" /\ pc \in Building
    BY DEF Sign, LockFree, RecheckGone, RecheckExpired, InMempool, RecordSent,
           IInv, Holder, Free, Building
  <1>1. cur \in mem.payouts /\ cur \in Payout /\ Apart(mem)
    BY <1>0 DEF IInv, Working, Building, Paying, TypeOK, LedgerType, Reconciling
  <1>2. ASSUME NEW q \in PayTxs, Sign(q) PROVE Reconciling'
    <2> DEFINE p == [cur EXCEPT !.raw = q]
    <2>1. p.txs = cur.txs /\ p.block = cur.block /\ p.raw = q
      BY <1>1 DEF Payout
    <2>2. /\ Save(With(p), "recheck") /\ cur' = p
          /\ UNCHANGED <<ready, sub, fetched, idx, todo>> /\ q \in Buildable
      BY <1>2 DEF Sign
    <2>3. \A r \in mem.payouts : r.raw # None => Spends[q] \cap Spends[r.raw] = {}
      BY <2>2 DEF Buildable, Reserved
    <2> HIDE DEF p
    <2> QED BY <1>0, <2>1, <2>2, <2>3, SaveReconciling
  <1>3. ASSUME NEW p, p.txs = cur.txs, p.block = cur.block, p.raw = cur.raw,
               Save(With(p), "pay"), UNCHANGED <<ready, sub, fetched, idx, todo, cur>>
        PROVE  Reconciling'
    <2>1. \A q \in mem.payouts \ {cur} :
             p.raw # None /\ q.raw # None => Spends[p.raw] \cap Spends[q.raw] = {}
      BY <1>1, <1>3 DEF Apart
    <2> QED BY <1>0, <1>3, <2>1, SaveReconciling
  <1>4. CASE RecheckGone \/ RecheckExpired
    <2> DEFINE p == [cur EXCEPT !.status = "blocked"]
    <2>1. p.txs = cur.txs /\ p.block = cur.block /\ p.raw = cur.raw
      BY <1>1 DEF Payout
    <2>2. /\ Save(With(p), "pay") /\ UNCHANGED <<ready, sub, fetched, idx, todo, cur>>
      BY <1>4 DEF RecheckGone, RecheckExpired, Block
    <2> QED BY <1>3, <2>1, <2>2
  <1>5. CASE InMempool \/ RecordSent
    <2> DEFINE p == [cur EXCEPT !.status = "broadcast"]
    <2>1. p.txs = cur.txs /\ p.block = cur.block /\ p.raw = cur.raw
      BY <1>1 DEF Payout
    <2>2. UNCHANGED <<ready, sub, fetched, idx, todo, cur>>
      BY <1>5 DEF InMempool, RecordSent
    <2>3. CASE Save(With(p), "pay")
      BY <1>3, <2>1, <2>2, <2>3
    <2>4. CASE pc' = "pay" /\ UNCHANGED <<mem, disk>>
      <3>1. pc \in Paying /\ pc' \notin Building
        BY <1>0, <2>4 DEF Paying, Building
      <3>2. Steady'
        BY <2>2, <2>4, <3>1 DEF Reconciling, Steady
      <3>3. Classified' /\ Standing' /\ Ripened'
        BY <2>2, <2>4, <3>1 DEF Reconciling, Classified, Standing, Ripened, Ripe
      <3> QED BY <2>2, <2>4, <3>2, <3>3, QuietReconciling
    <2> QED BY <1>5, <2>3, <2>4 DEF InMempool, RecordSent
  <1> QED BY <1>2, <1>4, <1>5

\* The payout loop where it leaves the ledger alone.  A payout it turns to is
\* one of those at hand.
LEMMA PayControlReconciling ==
  ASSUME Reconciling,
         \/ \E p \in todo : PayNext(p)
         \/ PayDone \/ BuildFails \/ RecheckFails \/ Recheck
         \/ NotInMempool \/ Send \/ SendReplyLost \/ SendRejected
  PROVE  Reconciling'
  <1> USE DEF Reconciling
  <1>1. UNCHANGED <<mem, disk, ready, sub, fetched>> /\ pc \in Paying
    BY DEF PayNext, PayDone, BuildFails, RecheckFails, Recheck, NotInMempool, Send,
           SendReplyLost, SendRejected, store, Paying, Building
  <1>2. CASE \E p \in todo : PayNext(p)
    <2>1. pc' \in Building /\ cur' \in todo /\ todo' \subseteq todo
      BY <1>2 DEF PayNext, Building
    <2>2. Steady' /\ Classified' /\ Standing' /\ Ripened'
      BY <1>1, <2>1 DEF Steady, Classified, Standing, Ripened, Ripe, Paying, Building
    <2> QED BY <1>1, <2>2, QuietReconciling
  <1>3. CASE ~ \E p \in todo : PayNext(p)
    <2>1. /\ todo' = todo /\ pc' # "records"
          /\ pc' \in Building => cur' = cur /\ pc \in Building
      BY <1>3 DEF PayDone, BuildFails, RecheckFails, Recheck, NotInMempool, Send,
                  SendReplyLost, SendRejected, Building
    <2>2. Steady' /\ Classified' /\ Standing'
      BY <1>1, <2>1 DEF Steady, Classified, Standing
    <2>3. Ripened'
      BY <1>1, <2>1 DEF Ripened, Ripe
    <2> QED BY <1>1, <2>2, <2>3, QuietReconciling
  <1> QED BY <1>2, <1>3

\* The follower before it has the fetched chain and the mutex, and where it
\* gives up.
LEMMA PollReconciling ==
  ASSUME Reconciling, Poll \/ Fetch \/ FetchFails \/ LockMoved \/ FollowerFailed
  PROVE  Reconciling'
  <1>1. UNCHANGED <<mem, disk, sub>> /\ pc' \in {"fetch", "lock", "failed", "idle"}
    BY DEF Poll, Fetch, FetchFails, LockMoved, FollowerFailed, store
  <1>2. ready' = ready \/ (ready' = FALSE /\ sub.phase = "idle")
    BY DEF Poll, Fetch, FetchFails, LockMoved, FollowerFailed, LockFree, store
  <1>3. Steady'
    BY <1>1, <1>2 DEF Reconciling, Steady, Paying, Building
  <1>4. Classified' /\ Standing' /\ Ripened'
    BY <1>1 DEF Classified, Standing, Ripened, Paying, Building
  <1> QED BY <1>1, <1>2, <1>3, <1>4, QuietReconciling

\* A submission adds a pending record to both ledgers.
LEMMA CommitReconciling ==
  ASSUME IInv, Reconciling, SubmitCommit
  PROVE  Reconciling'
  <1> USE DEF IInv, TypeOK, Reconciling
  <1>1. /\ mem' = [mem EXCEPT !.records = Append(@, NewRecord(sub.tx))] /\ disk' = mem'
        /\ UNCHANGED <<ready, pc, fetched, idx, todo, cur>> /\ sub' = NoSub
        /\ sub.phase # "idle" /\ sub.tx \in Txs
    BY DEF SubmitCommit, follower, Holder
  <1>2. /\ mem'.records = Append(mem.records, NewRecord(sub.tx))
        /\ mem'.payouts = mem.payouts /\ mem'.tip = mem.tip
    BY <1>1, AppendRecord DEF Holder
  <1>3. /\ mem.records \in Seq(Record) /\ pc # "records"
    BY <1>1 DEF LedgerType, Holder, Free
  <1>4. Steady'
    BY <1>1, <1>2, <1>3 DEF Steady, NoSub
  <1>5. Classified' /\ Standing' /\ Ripened'
    BY <1>1, <1>3 DEF Classified, Standing, Ripened, Ripe
  <1>6. Earned(mem)' /\ Apart(mem)'
    BY <1>2 DEF Earned, Apart
  <1>7. Shares(mem)'
    <2>1. ready
      BY <1>1 DEF Steady
    <2>2. \A i \in DOMAIN mem'.records :
             \/ i \in DOMAIN mem.records /\ mem'.records[i] = mem.records[i]
             \/ mem'.records[i] = NewRecord(sub.tx)
      BY <1>2, <1>3
    <2> QED BY <1>2, <2>1, <2>2 DEF Shares, NewRecord
  <1> QED BY <1>1, <1>4, <1>5, <1>6, <1>7 DEF Earned, Shares, Apart

\* The other steps of a submission, and the node's.
LEMMA IdleReconciling ==
  ASSUME Reconciling,
         \/ UNCHANGED vars
         \/ \E t \in Txs : SubmitBegin(t)
         \/ SubmitVerified \/ SubmitDropped \/ SubmitRefused \/ SubmitSaveFails
         \/ \E b \in Blocks : NodeMove(b)
  PROVE  Reconciling'
  <1>1. UNCHANGED <<mem, disk, pc, snap, chain, idx, todo, cur>>
    BY DEF vars, SubmitBegin, SubmitVerified, SubmitDropped, SubmitRefused,
           SubmitSaveFails, NodeMove, store, follower
  <1>2. ready' = ready \/ (ready' = FALSE /\ sub'.phase = "idle")
    <2>1. CASE SubmitSaveFails
      BY <2>1 DEF SubmitSaveFails, NoSub
    <2>2. CASE ~ SubmitSaveFails
      BY <2>2 DEF vars, SubmitBegin, SubmitVerified, SubmitDropped, SubmitRefused,
                  NodeMove, store
    <2> QED BY <2>1, <2>2
  <1>3. sub'.phase # "idle" => ready
    BY DEF vars, SubmitBegin, Admits, SubmitVerified, SubmitDropped, SubmitRefused,
           SubmitSaveFails, NodeMove, NoSub, Reconciling, Steady
  <1>4. Steady'
    BY <1>1, <1>2, <1>3 DEF Reconciling, Steady
  <1>5. Classified' /\ Standing' /\ Ripened'
    BY <1>1 DEF Reconciling, Classified, Standing, Ripened, Ripe
  <1> QED BY <1>1, <1>2, <1>4, <1>5, QuietReconciling

\* After a crash memory is the database.
LEMMA CrashReconciling ==
  ASSUME Reconciling, NEW b \in Blocks, Crash(b)
  PROVE  Reconciling'
  <1>1. /\ mem' = disk /\ disk' = disk /\ ready' = FALSE /\ pc' = "idle" /\ sub' = NoSub
    BY DEF Crash
  <1> QED BY <1>1 DEF Reconciling, Steady, Classified, Standing, Ripened, Earned, Shares,
                      Apart, Paying, Building, NoSub

\* Every step keeps Reconciling.
LEMMA NextReconciling ==
  ASSUME IInv, Reconciling, [Next]_vars
  PROVE  Reconciling'
  BY IdleReconciling, CommitReconciling, PollReconciling, LockReconciling,
     RecordsReconciling, ReconcileReconciling, PayControlReconciling, PaySaveReconciling,
     CrashReconciling
     DEF Next, Submission, Follower, Payouts, Environment

----------------------------------------------------------------------------
(* What holds whatever the chain does.                                      *)

\* The initial ledgers are empty and nothing is under way.
LEMMA InitReconciling == Init => Reconciling
  BY DEF Init, Reconciling, Steady, Classified, Standing, Ripened, Earned, Shares, Apart,
         Paying, Building, EmptyLedger, NoSub

\* Memory, database, feed, node and the position of the follower are always
\* related as Inductive says, across failed saves, crashes and reorganisations.
THEOREM InductiveAlways == Spec => []Inductive
  <1>1. IInv /\ Reconciling /\ [Next]_vars => Reconciling'
    BY NextReconciling
  <1>2. IInv /\ Covered /\ Carried /\ Reconciling => Inductive
    BY DEF Inductive
  <1> QED BY <1>1, <1>2, InitReconciling, Invariance, CoveredAlways, CarriedAlways, PTL
          DEF Spec

\* Two signed payouts never spend the same note of the service's wallet.
THEOREM NotesDisjoint == Spec => []SignedDisjoint
  <1>1. Inductive => SignedDisjoint
    BY DEF Inductive, Reconciling, SignedDisjoint
  <1> QED BY <1>1, InductiveAlways, PTL

\* Every included transaction of an attributed block is covered by a payout, and
\* AssignedAtMostOnce says by one.
THEOREM FeesCovered == Spec => []FeesAssigned
  <1>1. Inductive => FeesAssigned
    BY DEF Inductive, Reconciling, FeesAssigned
  <1> QED BY <1>1, InductiveAlways, PTL

\* The payout handed to the node is for a fetched block with two confirmations at
\* the ledger's tip, and for transactions of that block.
LEMMA SendRipe ==
  ASSUME Inductive, Send \/ SendReplyLost
  PROVE  /\ snap = mem.tip /\ cur.block \in chain
         /\ Height[mem.tip] >= Height[cur.block] + 1
         /\ cur.txs \subseteq Body[cur.block]
  <1>1. pc \in Paying /\ pc \in Building
    BY DEF Send, SendReplyLost, Paying, Building
  <1>2. cur \in mem.payouts /\ mem.tip = snap /\ Ripe(cur)
    BY <1>1 DEF Inductive, IInv, Working, Reconciling, Steady, Ripened
  <1> QED BY <1>2 DEF Inductive, Reconciling, Earned, Ripe

\* Money leaves only for a block that was fetched for the ledger's tip, with two
\* confirmations there, and for transactions of that block, wherever the node's
\* tip went meanwhile.
THEOREM PaysWhatIsRipe == Spec => PaysConfirmed
  <1>1. Inductive /\ [Next]_vars
           => [sent' # sent =>
                  /\ snap = mem.tip /\ cur.block \in chain
                  /\ Height[mem.tip] >= Height[cur.block] + 1
                  /\ cur.txs \subseteq Body[cur.block]]_vars
    <2> SUFFICES ASSUME Inductive, Next, sent' # sent
                 PROVE  Send \/ SendReplyLost
      BY SendRipe
    <2> QED BY DEF Next, Submission, SubmitBegin, SubmitVerified, SubmitDropped,
                   SubmitRefused, SubmitCommit, SubmitSaveFails, Follower, Poll, Fetch,
                   FetchFails, Lock,
                   LockMoved, FollowerFailed, Records, RecordIncluded, RecordConflicts,
                   RecordRequeued, RecordFails, Classify, Reconcile, Payouts, PayNext,
                   PayDone, Sign, BuildFails, RecheckFails, RecheckGone, RecheckExpired,
                   Block, Recheck, InMempool, NotInMempool, RecordSent, SendRejected,
                   Environment, NodeMove, Crash, node
  <1> QED BY <1>1, InductiveAlways, PTL DEF Spec, PaysConfirmed

\* Statuses are saved as the fetched blocks have them, all at once, although the
\* node moves and merchants wait while the records are classified.
THEOREM SavesWhatIsFetched == Spec => SavedAgrees
  <1>1. Inductive /\ [Next]_vars
           => [pc = "records" /\ pc' = "pay" =>
                  \A i \in DOMAIN disk'.records : Agrees(disk'.records[i], chain)]_vars
    <2> SUFFICES ASSUME Inductive, Next, pc = "records", pc' = "pay"
                 PROVE  \A i \in DOMAIN disk'.records : Agrees(disk'.records[i], chain)
      OBVIOUS
    <2>1. Reconcile
      BY DEF Next, Submission, SubmitBegin, SubmitVerified, SubmitDropped,
             SubmitRefused, SubmitCommit, SubmitSaveFails, Follower, Poll, Fetch,
             FetchFails, Lock, LockMoved, FollowerFailed, Records, RecordIncluded,
             RecordConflicts, RecordRequeued, RecordFails, Classify, Payouts, PayNext,
             PayDone, Sign, BuildFails, RecheckFails, RecheckGone, RecheckExpired,
             Block, Recheck, InMempool, NotInMempool, Send, SendReplyLost, RecordSent,
             SendRejected, Save, Environment, NodeMove, Crash, follower
    <2>2. disk' = Reconciled /\ idx > Len(mem.records) /\ mem \in LedgerType
      BY <2>1 DEF Reconcile, Save, Inductive, IInv, TypeOK
    <2>3. disk'.records = mem.records /\ mem.records \in Seq(Record) /\ idx \in Nat
      BY <2>2 DEF Reconciled, LedgerType, Inductive, IInv, TypeOK
    <2>4. \A i \in DOMAIN mem.records : i < idx
      BY <2>2, <2>3
    <2> QED BY <2>3, <2>4 DEF Inductive, Reconciling, Classified
  <1> QED BY <1>1, InductiveAlways, PTL DEF Spec, SavedAgrees

----------------------------------------------------------------------------
(* What holds because a node leaves its tip only for more work, and because *)
(* no call of wallet::chain is overtaken by a reorganisation.               *)

\* Height stands for work: a tip that was left does not come back.
BestChain == \A m \in Moves : Height[m[1]] < Height[m[2]]

\* During a call of wallet::chain the node only mines on.
CallGrows == \A m \in CallMoves : Path[m[1]] \subseteq Path[m[2]]

\* The steps that matter to the follower's view of the chain.
Seeing ==
  \/ Poll \/ Fetch \/ FetchFails \/ Reconcile
  \/ \E b \in Blocks : NodeMove(b) \/ Crash(b)

LEMMA BlindStep ==
  ASSUME [Next]_vars, ~ Seeing
  PROVE  /\ UNCHANGED <<tip, recovering, fetched>>
         /\ pc' # "idle" => pc # "idle"
         /\ pc' \in {"lock", "records"} => pc \in {"lock", "records"}
         /\ pc \in {"idle", "fetch", "failed"} => pc' \in {"idle", "fetch", "failed"}
  BY DEF Seeing, Next, Submission, SubmitBegin, SubmitVerified, SubmitDropped,
         SubmitRefused, SubmitCommit, SubmitSaveFails, Follower, Lock, LockMoved,
         FollowerFailed, Records, RecordIncluded, RecordConflicts, RecordRequeued,
         RecordFails, Classify, AtRecord, Payouts, PayNext, PayDone, Sign, BuildFails,
         RecheckFails, RecheckGone, RecheckExpired, Block, Recheck, InMempool,
         NotInMempool, Send, SendReplyLost, Broadcast, RecordSent, SendRejected, Save,
         Environment, vars, node, store, follower

\* Every step keeps what is reconciled on one branch.
LEMMA NextWhole ==
  ASSUME CallGrows, Whole, [Next]_vars
  PROVE  Whole'
  <1>1. CASE Poll \/ FetchFails
    BY <1>1 DEF Poll, FetchFails, Whole
  <1>2. CASE Fetch
    BY <1>2 DEF Fetch, Copies, Whole
  <1>3. CASE Reconcile
    <2>1. UNCHANGED <<snap, chain, torn>> /\ pc = "records"
      BY <1>3 DEF Reconcile
    <2> QED BY <2>1 DEF Whole
  <1>4. ASSUME NEW b \in Blocks, NodeMove(b) PROVE Whole'
    <2>1. UNCHANGED <<pc, snap, chain>>
      BY <1>4 DEF NodeMove
    <2>2. torn' = FALSE
      BY <1>4 DEF NodeMove, CallGrows, Reorganises, Whole
    <2> QED BY <2>1, <2>2 DEF Whole
  <1>5. ASSUME NEW b \in Blocks, Crash(b) PROVE Whole'
    BY <1>5 DEF Crash, Whole
  <1>6. CASE ~ Seeing
    BY <1>6, BlindStep DEF Whole
  <1> QED BY <1>1, <1>2, <1>3, <1>4, <1>5, <1>6 DEF Seeing

\* As long as the chain only grows during a call, the follower works on the branch
\* of the tip it fetched.
THEOREM WholeAlways ==
  ASSUME CallGrows
  PROVE  Spec => []Whole
  <1>1. Init => Whole
    BY DEF Init, Whole
  <1>2. Whole /\ [Next]_vars => Whole'
    BY NextWhole
  <1> QED BY <1>1, <1>2, PTL DEF Spec

\* Only the submission, the follower once it has the mutex, and a crash touch
\* what Checked speaks of; the node's tip goes up.
LEMMA NextChecked ==
  ASSUME BestChain, IInv, Checked, [Next]_vars
  PROVE  Checked'
  <1> USE DEF IInv, TypeOK
  <1>1. CASE sub'.phase = "idle"
    BY <1>1 DEF Checked
  <1>2. ASSUME NEW t \in Txs, SubmitBegin(t) PROVE Checked'
    <2>1. /\ sub' = [phase |-> "verify", tx |-> t] /\ mem' = mem /\ tip' = tip
          /\ tip = mem.tip
      BY <1>2 DEF SubmitBegin, Admits, TipUnchanged, store, node
    <2> QED BY <2>1, ChainShape DEF Checked
  <1>3. CASE SubmitVerified
    <2>1. /\ sub.phase = "verify" /\ Valid(sub.tx, tip)
          /\ sub' = [sub EXCEPT !.phase = "commit"] /\ mem' = mem /\ tip' = tip
      BY <1>3 DEF SubmitVerified, store, node
    <2>2. sub'.tx = sub.tx
      BY <2>1
    <2> QED BY <2>1, <2>2 DEF Checked
  <1>4. ASSUME NEW b \in Blocks, NodeMove(b), sub.phase # "idle" PROVE Checked'
    <2>1. /\ tip' = b /\ mem' = mem /\ sub' = sub
          /\ Height[tip] < Height[b]
      BY <1>4, ServiceParams DEF NodeMove, BestChain, store
    <2>2. /\ mem.tip \in Blocks /\ mem.tip # None
          /\ Height[mem.tip] <= Height[tip]
      BY <1>4, ChainShape DEF Checked, LedgerType
    <2>3. Height[mem.tip] < Height[b]
      BY <2>1, <2>2, ChainShape
    <2>4. b # mem.tip
      BY <2>2, <2>3, ChainShape
    <2> QED BY <2>1, <2>2, <2>3, <2>4 DEF Checked
  <1>5. CASE UNCHANGED <<tip, mem, sub>>
    BY <1>5 DEF Checked
  <1>6. CASE Follower
    <2>1. sub' = sub /\ tip' = tip
      BY <1>6 DEF Follower, Poll, Fetch, FetchFails, Lock, LockMoved, FollowerFailed, Records,
                  RecordIncluded, RecordConflicts, RecordRequeued, RecordFails, Classify,
                  Reconcile, Payouts, PayNext, PayDone, Sign, BuildFails, RecheckFails,
                  RecheckGone, RecheckExpired, Block, Recheck, InMempool, NotInMempool,
                  Send, SendReplyLost, Broadcast, RecordSent, SendRejected, node
    <2>2. mem' = mem \/ sub.phase = "idle"
      BY <1>6 DEF Follower, Poll, Fetch, FetchFails, Lock, LockMoved, FollowerFailed,
                  LockFree, Records,
                  RecordIncluded, RecordConflicts, RecordRequeued, RecordFails, AtRecord,
                  Reconcile, Payouts, PayNext, PayDone, Sign, BuildFails, RecheckFails,
                  RecheckGone, RecheckExpired, Recheck, InMempool, NotInMempool,
                  Send, SendReplyLost, RecordSent, SendRejected, store, Holder, Free
    <2> QED BY <1>1, <1>5, <2>1, <2>2
  <1>7. CASE SubmitDropped \/ SubmitRefused \/ SubmitCommit \/ SubmitSaveFails
             \/ \E b \in Blocks : Crash(b)
    BY <1>1, <1>7 DEF SubmitDropped, SubmitRefused, SubmitCommit, SubmitSaveFails, Crash,
                      NoSub
  <1>8. ASSUME NEW b \in Blocks, NodeMove(b) PROVE Checked'
    <2>1. sub' = sub
      BY <1>8 DEF NodeMove
    <2> QED BY <1>1, <1>4, <1>8, <2>1
  <1>9. CASE UNCHANGED vars
    BY <1>5, <1>9 DEF vars, node, store
  <1> QED BY <1>2, <1>3, <1>6, <1>7, <1>8, <1>9 DEF Next, Submission, Environment

\* What a saved submission adds is valid on the chain the database is at.
LEMMA CommitValid ==
  ASSUME Inductive, Checked, SubmitCommit
  PROVE  /\ disk.tip \in Blocks /\ Valid(sub.tx, disk.tip)
         /\ disk'.tip = disk.tip
         /\ disk.records \in Seq(Record) /\ sub.tx \in Txs
         /\ disk'.records = Append(disk.records, NewRecord(sub.tx))
  <1> USE DEF Inductive, IInv, TypeOK
  <1>1. /\ mem' = [mem EXCEPT !.records = Append(@, NewRecord(sub.tx))] /\ disk' = mem'
        /\ sub.phase = "commit" /\ tip = mem.tip /\ sub.tx \in Txs
        /\ sub.tx \notin TxsOf(mem.records)
    BY DEF SubmitCommit, Affords, TipUnchanged, Holder
  <1>2. mem.records = disk.records /\ mem.tip = disk.tip
    BY <1>1 DEF Reconciling, Steady
  <1>3. Valid(sub.tx, tip)
    BY <1>1 DEF Checked
  <1>4. /\ mem'.records = Append(mem.records, NewRecord(sub.tx))
        /\ mem'.tip = mem.tip
    BY <1>1, AppendRecord
  <1> QED BY <1>1, <1>2, <1>3, <1>4 DEF LedgerType

\* The record of a transaction that is valid on a chain agrees with it.
LEMMA NewAgrees ==
  ASSUME NEW b \in Blocks, NEW t \in Txs, Valid(t, b)
  PROVE  Agrees(NewRecord(t), Path[b])
  <1>1. Spends[t] # {} /\ Spends[t] \cap SpentOn(b) = {}
    BY DEF Valid
  <1>2. MinedIn(t, Path[b]) = {}
    <2> SUFFICES ASSUME NEW c \in MinedIn(t, Path[b]) PROVE FALSE
      OBVIOUS
    <2>1. t \in TxsOn(b)
      BY DEF MinedIn, TxsOn, TxsIn
    <2>2. Spends[t] \subseteq SpentOn(b)
      BY <2>1 DEF SpentOn, SpentIn, TxsOn
    <2> QED BY <1>1, <2>2
  <1> QED BY <1>1, <1>2 DEF Agrees, NewRecord, SpentOn

\* The follower saves the records it has classified, or those it has saved.
LEMMA FollowerAgrees ==
  ASSUME Inductive, Whole, Follower, LedgerAgrees
  PROVE  LedgerAgrees'
  <1> USE DEF Inductive, IInv, TypeOK
  <1>1. CASE disk' = disk
    BY <1>1 DEF LedgerAgrees
  <1>2. CASE Reconcile /\ disk' # disk
    <2>1. /\ pc = "records" /\ idx > Len(mem.records) /\ disk' = Reconciled
          /\ mem.records \in Seq(Record) /\ mem \in LedgerType
      BY <1>2 DEF Reconcile, Save, LedgerType
    <2>2. Reconciled.records = mem.records /\ Reconciled.tip = snap
      BY <2>1 DEF Reconciled, LedgerType
    <2>3. \A i \in DOMAIN mem.records : Agrees(mem.records[i], Path[snap])
      BY <2>1 DEF Reconciling, Classified, Whole
    <2> QED BY <2>1, <2>2, <2>3 DEF LedgerAgrees
  <1>3. ASSUME NEW p, NEW next, Save(With(p), next), pc \in Building
        PROVE  LedgerAgrees'
    <2>1. disk' \in {disk, With(p)} /\ mem = disk /\ mem \in LedgerType
      BY <1>3 DEF Save, Working, Paying
    <2>2. With(p).records = mem.records /\ With(p).tip = mem.tip
      BY <2>1 DEF With, LedgerType
    <2>3. disk'.records = disk.records /\ disk'.tip = disk.tip
      BY <2>1, <2>2
    <2> QED BY <2>3 DEF LedgerAgrees
  <1>4. CASE \E q \in PayTxs : Sign(q)
    BY <1>3, <1>4 DEF Sign, Building
  <1>5. CASE RecheckGone \/ RecheckExpired
    BY <1>3, <1>5 DEF RecheckGone, RecheckExpired, Block, Building
  <1>6. CASE InMempool \/ RecordSent
    BY <1>1, <1>3, <1>6 DEF InMempool, RecordSent, Building
  <1> QED BY <1>1, <1>2, <1>4, <1>5, <1>6
          DEF Follower, Poll, Fetch, FetchFails, Lock, LockMoved, FollowerFailed, Records,
              RecordIncluded, RecordConflicts, RecordRequeued, RecordFails, Classify,
              Payouts, PayNext, PayDone, BuildFails, RecheckFails, Recheck, NotInMempool,
              Send, SendReplyLost, SendRejected, store

\* Every step keeps the database's statuses those of the database's chain.
LEMMA NextAgrees ==
  ASSUME Inductive, Checked, Whole, LedgerAgrees, [Next]_vars
  PROVE  LedgerAgrees'
  <1>1. CASE SubmitCommit
    <2>1. Agrees(NewRecord(sub.tx), Path[disk.tip])
      BY <1>1, CommitValid, NewAgrees
    <2>2. \A i \in DOMAIN disk'.records :
             \/ i \in DOMAIN disk.records /\ disk'.records[i] = disk.records[i]
             \/ disk'.records[i] = NewRecord(sub.tx)
      <3>1. /\ disk.records \in Seq(Record) /\ NewRecord(sub.tx) \in Record
            /\ disk'.records = Append(disk.records, NewRecord(sub.tx))
        BY <1>1, CommitValid DEF NewRecord, Record
      <3> QED BY <3>1
    <2>3. disk'.tip = disk.tip
      BY <1>1, CommitValid
    <2> QED BY <2>1, <2>2, <2>3 DEF LedgerAgrees
  <1>2. CASE disk' = disk
    BY <1>2 DEF LedgerAgrees
  <1> QED BY <1>1, <1>2, FollowerAgrees
          DEF Next, Submission, SubmitBegin, SubmitVerified, SubmitDropped, SubmitRefused,
              SubmitSaveFails, Environment, NodeMove, Crash, vars, store

\* A submission that is verified while the tip moves is only taken where the
\* verification was made.
THEOREM CheckedAlways ==
  ASSUME BestChain
  PROVE  Spec => []Checked
  <1>1. Init => Checked
    BY DEF Init, Checked, NoSub
  <1>2. IInv /\ Checked /\ [Next]_vars => Checked'
    BY NextChecked
  <1> QED BY <1>1, <1>2, Invariance, PTL DEF Spec

\* The database's statuses describe the branch of its tip: what is included was
\* mined there, in the block the record names, and nothing pending is outspent.
\* This is so as long as no reorganisation overtakes a call of wallet::chain.
THEOREM StatusesAgree ==
  ASSUME BestChain, CallGrows
  PROVE  Spec => []LedgerAgrees
  <1>1. Init => LedgerAgrees
    BY DEF Init, LedgerAgrees, EmptyLedger
  <1>2. Inductive /\ Checked /\ Whole /\ LedgerAgrees /\ [Next]_vars => LedgerAgrees'
    BY NextAgrees
  <1> QED BY <1>1, <1>2, InductiveAlways, CheckedAlways, WholeAlways, PTL DEF Spec

\* A step adds no record to the database but that of a transaction that is
\* valid on the database's chain.
LEMMA AddsValid ==
  ASSUME Inductive, Checked, [Next]_vars,
         NEW i \in DOMAIN disk'.records \ DOMAIN disk.records
  PROVE  Valid(disk'.records[i].tx, disk.tip)
  <1>1. CASE SubmitCommit
    <2>1. /\ disk.records \in Seq(Record) /\ NewRecord(sub.tx) \in Record
          /\ disk'.records = Append(disk.records, NewRecord(sub.tx))
      BY <1>1, CommitValid DEF NewRecord, Record
    <2>2. disk'.records[i] = NewRecord(sub.tx)
      BY <2>1
    <2> QED BY <1>1, <2>2, CommitValid DEF NewRecord
  <1>2. CASE Follower
    <2>1. disk' = disk \/ disk'.records = mem.records
      BY <1>2, FollowerSaves DEF Inductive
    <2>2. DOMAIN mem.records = DOMAIN disk.records
      <3>1. DOMAIN Accepted(mem.records) = DOMAIN Accepted(disk.records)
        BY DEF Inductive, IInv, KnownIsDurable
      <3> QED BY <3>1 DEF Accepted
    <2> QED BY <2>1, <2>2
  <1>3. CASE disk' = disk
    BY <1>3
  <1> QED BY <1>1, <1>2, <1>3
          DEF Next, Submission, SubmitBegin, SubmitVerified, SubmitDropped, SubmitRefused,
              SubmitSaveFails, Environment, NodeMove, Crash, vars, store

\* A receipt is given for a transaction that is valid on the ledger's chain.
THEOREM OnlyValidAccepted ==
  ASSUME BestChain
  PROVE  Spec => AcceptedValid
  <1>1. Inductive /\ Checked /\ [Next]_vars
           => [\A i \in DOMAIN disk'.records \ DOMAIN disk.records :
                  Valid(disk'.records[i].tx, disk.tip)]_vars
    BY AddsValid
  <1> QED BY <1>1, InductiveAlways, CheckedAlways, PTL DEF Spec, AcceptedValid

----------------------------------------------------------------------------
(* A chain that only grows, with restarts on a node that has lost blocks.   *)

\* No two blocks are on different branches.
NoFork == \A b, c \in Blocks : b \in Path[c] \/ c \in Path[b]

\* The higher of two blocks has everything the lower one has.
LEMMA LineOrder ==
  ASSUME NoFork, NEW b \in Blocks, NEW c \in Blocks, Height[b] <= Height[c]
  PROVE  /\ b \in Path[c] /\ Path[b] \subseteq Path[c]
         /\ TxsOn(b) \subseteq TxsOn(c) /\ SpentOn(b) \subseteq SpentOn(c)
         /\ \A t : MinedIn(t, Path[b]) \subseteq MinedIn(t, Path[c])
         /\ \A t \in AllTxs : Dead(t, b) => Dead(t, c)
  <1>1. Height[b] \in Nat /\ Height[c] \in Nat
    BY ChainShape
  <1>2. b \in Path[c]
    <2>1. CASE c \in Path[b]
      <3>1. Height[c] <= Height[b]
        BY <2>1, BranchShape
      <3>2. b \in Path[b] /\ Height[b] = Height[c]
        BY <3>1, <1>1, BranchShape
      <3> QED BY <2>1, <3>2, BranchShape
    <2> QED BY <2>1 DEF NoFork
  <1>3. Path[b] \subseteq Path[c]
    BY <1>2, BranchShape
  <1>4. TxsOn(b) \subseteq TxsOn(c)
    BY <1>3 DEF TxsOn, TxsIn
  <1>5. SpentOn(b) \subseteq SpentOn(c)
    BY <1>4 DEF TxsOn, SpentOn, SpentIn
  <1>6. \A t : MinedIn(t, Path[b]) \subseteq MinedIn(t, Path[c])
    BY <1>3 DEF MinedIn
  <1>7. ASSUME NEW t \in AllTxs, Dead(t, b) PROVE Dead(t, c)
    <2>1. Expiry[t] \in Nat
      BY ChainShape
    <2> QED BY <1>1, <1>5, <1>7, <2>1 DEF Dead
  <1> QED BY <1>2, <1>3, <1>4, <1>5, <1>6, <1>7

\* Without forks no reorganisation overtakes anything.
LEMMA LineGrows ==
  ASSUME NoFork, BestChain
  PROVE  CallGrows
  <1> SUFFICES ASSUME NEW m \in CallMoves PROVE Path[m[1]] \subseteq Path[m[2]]
    BY DEF CallGrows
  <1>1. m[1] \in Blocks /\ m[2] \in Blocks /\ Height[m[1]] < Height[m[2]]
    BY ServiceParams DEF BestChain
  <1>2. Height[m[1]] \in Nat /\ Height[m[2]] \in Nat
    BY <1>1, ChainShape
  <1> QED BY <1>1, <1>2, LineOrder

----------------------------------------------------------------------------
(* The ledger goes onward.                                                  *)

\* Memory and database hold the same transactions at the same places.
LEMMA SameTxs ==
  ASSUME IInv
  PROVE  /\ DOMAIN mem.records = DOMAIN disk.records
         /\ \A i \in DOMAIN disk.records : mem.records[i].tx = disk.records[i].tx
  <1>1. Accepted(mem.records) = Accepted(disk.records)
    BY DEF IInv, KnownIsDurable
  <1>2. DOMAIN mem.records = DOMAIN disk.records
    <2>1. DOMAIN Accepted(mem.records) = DOMAIN mem.records
      BY DEF Accepted
    <2>2. DOMAIN Accepted(disk.records) = DOMAIN disk.records
      BY DEF Accepted
    <2> QED BY <1>1, <2>1, <2>2
  <1>3. ASSUME NEW i \in DOMAIN disk.records PROVE mem.records[i].tx = disk.records[i].tx
    <2>1. Accepted(mem.records)[i] = mem.records[i].tx
      BY <1>2 DEF Accepted
    <2>2. Accepted(disk.records)[i] = disk.records[i].tx
      BY DEF Accepted
    <2> QED BY <1>1, <2>1, <2>2
  <1> QED BY <1>2, <1>3

\* Saving the payout at hand changes neither records nor tips.
LEMMA SaveKeepsRecords ==
  ASSUME IInv, pc \in Building, NEW p, NEW next, Save(With(p), next)
  PROVE  /\ mem'.records = mem.records /\ mem'.tip = mem.tip
         /\ disk'.records = disk.records /\ disk'.tip = disk.tip
  <1>1. mem = disk /\ mem \in LedgerType
    BY DEF IInv, TypeOK, Working, Paying
  <1>2. mem' = With(p) /\ disk' \in {disk, mem'}
    BY DEF Save
  <1>3. mem'.records = mem.records /\ mem'.tip = mem.tip
    BY <1>1, <1>2 DEF With, LedgerType
  <1> QED BY <1>1, <1>2, <1>3

\* The steps that can change a record or a tip of the ledgers.
Moving ==
  SubmitCommit \/ Records \/ Reconcile \/ \E b \in Blocks : Crash(b)

LEMMA StillStep ==
  ASSUME IInv, [Next]_vars, ~ Moving
  PROVE  /\ mem'.records = mem.records /\ mem'.tip = mem.tip
         /\ disk'.records = disk.records /\ disk'.tip = disk.tip
  <1>1. CASE UNCHANGED <<mem, disk>>
    BY <1>1
  <1>2. CASE Lock
    BY <1>2 DEF Lock, IInv, TypeOK, LedgerType
  <1>3. CASE \E q \in PayTxs : Sign(q)
    BY <1>3, SaveKeepsRecords DEF Sign, Building
  <1>4. CASE RecheckGone \/ RecheckExpired
    BY <1>4, SaveKeepsRecords DEF RecheckGone, RecheckExpired, Block, Building
  <1>5. CASE InMempool \/ RecordSent
    BY <1>1, <1>5, SaveKeepsRecords DEF InMempool, RecordSent, Building
  <1> QED BY <1>1, <1>2, <1>3, <1>4, <1>5
          DEF Moving, Next, Submission, SubmitBegin, SubmitVerified, SubmitDropped,
              SubmitRefused, SubmitSaveFails, Follower, Poll, Fetch, FetchFails, LockMoved,
              FollowerFailed, Payouts, PayNext, PayDone, BuildFails, RecheckFails, Recheck,
              NotInMempool, Send, SendReplyLost, SendRejected, Environment, NodeMove, vars,
              store

\* The tips of the ledgers in the steps that keep them.
LEMMA TipsStep ==
  ASSUME Inductive, [Next]_vars, ~ Reconcile, ~ \E b \in Blocks : Crash(b)
  PROVE  mem'.tip = mem.tip /\ disk'.tip = disk.tip
  <1> USE DEF Inductive
  <1>1. CASE SubmitCommit
    <2>1. /\ mem' = [mem EXCEPT !.records = Append(@, NewRecord(sub.tx))] /\ disk' = mem'
          /\ sub.phase # "idle" /\ mem \in LedgerType
      BY <1>1 DEF SubmitCommit, IInv, TypeOK
    <2>2. mem.tip = disk.tip
      BY <2>1 DEF Reconciling, Steady
    <2> QED BY <2>1, <2>2 DEF LedgerType
  <1>2. CASE Records
    <2>1. PICK r : Classify(r)
      BY <1>2, RecordAgrees
    <2> QED BY <2>1 DEF Classify, IInv, TypeOK, LedgerType
  <1>3. CASE ~ Moving
    BY <1>3, StillStep
  <1> QED BY <1>1, <1>2, <1>3 DEF Moving

\* Types of what Onward compares.
LEMMA TipTypes ==
  ASSUME IInv
  PROVE  /\ tip \in Blocks /\ snap \in Blocks
         /\ mem.tip \in Blocks \cup {None} /\ disk.tip \in Blocks \cup {None}
         /\ \A b \in Blocks : Height[b] \in Nat /\ b # None
  BY ChainShape DEF IInv, TypeOK, LedgerType

\* Every step keeps Onward.
LEMMA NextOnward ==
  ASSUME BestChain, Inductive, Onward, [Next]_vars
  PROVE  Onward'
  <1> USE TipTypes DEF Inductive
  <1>1. CASE Reconcile
    <2>1. /\ pc = "records" /\ mem' = Reconciled /\ snap' = snap /\ tip' = tip
          /\ disk' \in {disk, mem'} /\ pc' \in {"pay", "failed"}
      BY <1>1 DEF Reconcile, Save, node
    <2>2. mem'.tip = snap
      BY <2>1 DEF Reconciled, IInv, TypeOK, LedgerType
    <2>3. /\ Height[snap] <= Height[tip]
          /\ disk.tip # None => Height[disk.tip] <= Height[snap]
      BY <2>1 DEF Onward
    <2> QED BY <2>1, <2>2, <2>3 DEF Onward
  <1>2. ASSUME NEW b \in Blocks, Crash(b) PROVE Onward'
    <2>1. mem' = disk /\ disk' = disk /\ recovering' = TRUE /\ pc' = "idle"
      BY <1>2 DEF Crash
    <2> QED BY <2>1 DEF Onward
  <1>3. CASE ~ Reconcile /\ ~ \E b \in Blocks : Crash(b)
    <2>1. mem'.tip = mem.tip /\ disk'.tip = disk.tip
      BY <1>3, TipsStep
    <2>2. disk'.tip = None => disk'.records = <<>>
      <3>1. CASE SubmitCommit
        <4>1. mem.tip = tip /\ mem.tip = disk.tip
          BY <3>1 DEF SubmitCommit, Affords, TipUnchanged, Reconciling, Steady
        <4> QED BY <2>1, <4>1
      <3>2. CASE Records
        <4>1. disk' = disk
          BY <3>2 DEF Records, RecordIncluded, RecordConflicts, RecordRequeued,
                      RecordFails, Classify
        <4> QED BY <4>1 DEF Onward
      <3>3. CASE ~ Moving
        <4>1. disk'.records = disk.records
          BY <3>3, StillStep
        <4> QED BY <2>1, <4>1 DEF Onward
      <3> QED BY <1>3, <3>1, <3>2, <3>3 DEF Moving
    <2>3. CASE Poll
      <3>1. /\ UNCHANGED <<tip, recovering>> /\ pc' = "fetch"
            /\ mem.tip # None => Height[mem.tip] <= Height[tip]
        BY <2>3 DEF Poll, Behind, Onward, node, store
      <3> QED BY <2>1, <2>2, <3>1 DEF Onward
    <2>4. CASE Fetch \/ FetchFails
      <3>1. /\ UNCHANGED <<tip, recovering>> /\ pc = "fetch"
            /\ (pc' = "lock" /\ snap' = tip) \/ pc' = "failed"
        BY <2>4 DEF Fetch, FetchFails, node, store
      <3> QED BY <2>1, <2>2, <3>1 DEF Onward
    <2>5. ASSUME NEW b \in Blocks, NodeMove(b) PROVE Onward'
      <3>1. UNCHANGED <<recovering, snap, pc>> /\ tip' = b /\ Height[tip] < Height[b]
        BY <2>5, ServiceParams DEF NodeMove, BestChain, store, follower
      <3> QED BY <2>1, <2>2, <3>1 DEF Onward
    <2>6. CASE ~ Seeing
      BY <2>1, <2>2, <2>6, BlindStep DEF Onward
    <2> QED BY <1>3, <2>3, <2>4, <2>5, <2>6 DEF Seeing
  <1> QED BY <1>1, <1>2, <1>3

\* What classifying a record does to the ledger in memory.
LEMMA ClassifyIs ==
  ASSUME IInv, NEW r \in Record, Classify(r), idx \in DOMAIN mem.records
  PROVE  /\ mem.records \in Seq(Record) /\ mem'.records \in Seq(Record)
         /\ DOMAIN mem'.records = DOMAIN mem.records /\ mem'.records[idx] = r
         /\ \A i \in DOMAIN mem.records : i # idx => mem'.records[i] = mem.records[i]
         /\ idx' = idx + 1 /\ idx \in Nat /\ DOMAIN mem.records \subseteq Nat
         /\ UNCHANGED <<disk, ready, sub, pc, fetched, tip>>
  <1>1. mem.records \in Seq(Record) /\ mem \in LedgerType /\ idx \in Nat
    BY DEF IInv, TypeOK, LedgerType
  <1>2. mem'.records = [mem.records EXCEPT ![idx] = r]
    BY <1>1 DEF Classify, LedgerType
  <1>3. UNCHANGED <<disk, ready, sub, pc, fetched, tip>> /\ idx' = idx + 1
    BY DEF Classify, node
  <1> QED BY <1>1, <1>2, <1>3

\* What a submission that is saved does to the ledgers.
LEMMA CommitIs ==
  ASSUME Inductive, SubmitCommit
  PROVE  /\ disk.records \in Seq(Record) /\ NewRecord(sub.tx) \in Record
         /\ disk'.records = Append(disk.records, NewRecord(sub.tx))
         /\ disk' = mem' /\ mem.records = disk.records /\ mem.tip = disk.tip
         /\ tip = disk.tip /\ disk'.tip = disk.tip /\ tip' = tip
         /\ pc' = pc /\ ready' = ready /\ ready /\ pc # "records" /\ sub'.phase = "idle"
  <1> USE DEF Inductive, IInv, TypeOK
  <1>1. /\ mem' = [mem EXCEPT !.records = Append(@, NewRecord(sub.tx))] /\ disk' = mem'
        /\ sub.phase = "commit" /\ tip = mem.tip /\ sub.tx \in Txs
        /\ sub.tx \notin TxsOf(mem.records) /\ pc \in Free
    BY DEF SubmitCommit, Affords, TipUnchanged, Holder
  <1>2. mem.records = disk.records /\ mem.tip = disk.tip /\ ready
    BY <1>1 DEF Reconciling, Steady
  <1>3. mem'.records = Append(mem.records, NewRecord(sub.tx)) /\ mem'.tip = mem.tip
    BY <1>1, AppendRecord
  <1>4. /\ tip' = tip /\ pc' = pc /\ ready' = ready /\ sub'.phase = "idle"
    BY DEF SubmitCommit, node, follower, NoSub
  <1>5. disk.records \in Seq(Record) /\ NewRecord(sub.tx) \in Record
    BY <1>1 DEF LedgerType, NewRecord, Record
  <1>6. pc # "records"
    BY <1>1 DEF Free
  <1> QED BY <1>1, <1>2, <1>3, <1>4, <1>5, <1>6

\* What a reconciliation does to the records.
LEMMA ReconcileIs ==
  ASSUME Inductive, Reconcile
  PROVE  /\ pc = "records" /\ idx > Len(mem.records) /\ mem.records \in Seq(Record)
         /\ DOMAIN mem.records = 1..Len(mem.records) /\ idx \in Nat
         /\ mem'.records = mem.records /\ mem'.tip = snap
         /\ \/ disk' = mem' /\ pc' = "pay"
            \/ disk' = disk /\ pc' = "failed" /\ ready' = ready /\ ready = FALSE
         /\ UNCHANGED <<tip, sub, fetched>> /\ sub.phase = "idle"
  <1> USE DEF Inductive, IInv, TypeOK
  <1>1. /\ pc = "records" /\ idx > Len(mem.records) /\ mem' = Reconciled
        /\ UNCHANGED <<tip, sub, fetched>> /\ mem \in LedgerType /\ idx \in Nat
    BY DEF Reconcile, Save, node
  <1>2. Reconciled.records = mem.records /\ Reconciled.tip = snap
    BY <1>1 DEF Reconciled, LedgerType
  <1>3. mem.records \in Seq(Record)
    BY <1>1 DEF LedgerType
  <1>4. DOMAIN mem.records = 1..Len(mem.records)
    BY <1>3
  <1>5. sub.phase = "idle" /\ ready = FALSE
    BY <1>1 DEF Holder, Free, Reconciling, Steady
  <1>6. \/ disk' = mem' /\ pc' = "pay"
        \/ disk' = disk /\ pc' = "failed" /\ ready' = ready
    BY <1>1 DEF Reconcile, Save
  <1> QED BY <1>1, <1>2, <1>3, <1>4, <1>5, <1>6

\* A reconciliation finds what was included where it was.
LEMMA RecordsRetain ==
  ASSUME NoFork, Inductive, Whole, LedgerAgrees, Onward, Retained, Records
  PROVE  Retained'
  <1> USE DEF Inductive
  <1>1. PICK r \in Record : /\ Classify(r)
                            /\ idx \in DOMAIN mem.records /\ r.tx = mem.records[idx].tx
                            /\ Agrees(r, chain)
    BY RecordAgrees
  <1>2. /\ DOMAIN mem'.records = DOMAIN mem.records /\ mem'.records[idx] = r
        /\ \A i \in DOMAIN mem.records : i # idx => mem'.records[i] = mem.records[i]
        /\ UNCHANGED <<disk, fetched>> /\ mem.records \in Seq(Record)
    BY <1>1, ClassifyIs
  <1>3. ASSUME disk.records[idx].status = "included" PROVE r = disk.records[idx]
    <2> DEFINE d == disk.records[idx]
    <2>1. mem.records[idx] = d /\ d \in Record /\ idx \in DOMAIN disk.records
      BY <1>1, <1>2, <1>3, SameTxs DEF Retained
    <2>2. Agrees(d, Path[disk.tip])
      BY <2>1 DEF LedgerAgrees
    <2>3. d.inclusion # None /\ d.inclusion \in MinedIn(d.tx, Path[disk.tip])
      BY <1>3, <2>2 DEF Agrees, Latest
    <2>4. /\ disk.tip \in Blocks /\ snap \in Blocks /\ Height[disk.tip] <= Height[snap]
          /\ chain = Path[snap]
      <3>1. disk.records # <<>>
        BY <2>1
      <3>2. pc = "records"
        BY DEF Records, RecordIncluded, RecordConflicts, RecordRequeued, RecordFails,
               AtRecord
      <3> QED BY <3>1, <3>2, TipTypes DEF Onward, Whole
    <2>5. d.inclusion \in MinedIn(d.tx, chain)
      BY <2>3, <2>4, LineOrder
    <2>6. r.inclusion = d.inclusion /\ r.tx = d.tx
      <3>1. r.tx = d.tx /\ r.inclusion \in MinedIn(d.tx, chain)
        BY <1>1, <2>1, <2>5 DEF Agrees, Latest
      <3> QED BY <2>4, <2>5, <3>1, MinedOnce
    <2>7. r.status = "included"
      BY <1>1, <2>3, <2>6 DEF Agrees
    <2> QED BY <1>3, <2>1, <2>6, <2>7 DEF Record
  <1> QED BY <1>2, <1>3, SameTxs DEF Retained

\* Every step keeps Retained.
LEMMA NextRetained ==
  ASSUME NoFork, Inductive, Whole, LedgerAgrees, Onward, Retained, [Next]_vars
  PROVE  Retained'
  <1>1. CASE SubmitCommit
    BY <1>1, CommitIs DEF Retained
  <1>2. CASE Records
    BY <1>2, RecordsRetain
  <1>3. CASE Reconcile
    BY <1>3, ReconcileIs DEF Retained
  <1>4. ASSUME NEW b \in Blocks, Crash(b) PROVE Retained'
    BY <1>4 DEF Crash, Retained
  <1>5. CASE ~ Moving
    BY <1>5, StillStep DEF Retained, Inductive
  <1> QED BY <1>1, <1>2, <1>3, <1>4, <1>5 DEF Moving

\* No step rewinds the database.
LEMMA NextOnly ==
  ASSUME Inductive, Onward, Retained, [Next]_vars
  PROVE  /\ disk.tip # None => Height[disk'.tip] >= Height[disk.tip]
         /\ \A i \in DOMAIN disk.records :
               disk.records[i].status = "included" => disk'.records[i] = disk.records[i]
  <1> USE DEF Inductive
  <1>0. disk.tip # None => Height[disk.tip] >= Height[disk.tip]
    BY TipTypes
  <1>1. CASE SubmitCommit
    <2>1. /\ disk'.records = Append(disk.records, NewRecord(sub.tx))
          /\ disk.records \in Seq(Record) /\ NewRecord(sub.tx) \in Record
          /\ disk'.tip = disk.tip
      BY <1>1, CommitIs
    <2>2. \A i \in DOMAIN disk.records : disk'.records[i] = disk.records[i]
      BY <2>1
    <2> QED BY <1>0, <2>1, <2>2
  <1>2. CASE Reconcile
    <2>1. /\ pc = "records" /\ mem'.records = mem.records /\ mem'.tip = snap
          /\ disk' \in {disk, mem'}
      BY <1>2, ReconcileIs
    <2>2. disk.tip # None => Height[snap] >= Height[disk.tip]
      BY <2>1, TipTypes DEF Onward
    <2> QED BY <1>0, <2>1, <2>2 DEF Retained
  <1>3. CASE Records \/ \E b \in Blocks : Crash(b)
    <2>1. disk' = disk
      BY <1>3 DEF Records, RecordIncluded, RecordConflicts, RecordRequeued, RecordFails,
                  Classify, Crash
    <2> QED BY <1>0, <2>1
  <1>4. CASE ~ Moving
    BY <1>0, <1>4, StillStep
  <1> QED BY <1>1, <1>2, <1>3, <1>4 DEF Moving

\* On a chain that only grows, a restart on a node that has fallen behind never
\* rewinds the ledger or takes an inclusion back: what is behind the recovered
\* ledger is waited for, and what is mined is found again where it was.
THEOREM NeverRewinds ==
  ASSUME NoFork, BestChain
  PROVE  Spec => NoRewind
  <1>1. Init => Onward /\ Retained
    BY DEF Init, Onward, Retained, EmptyLedger
  <1>2. Inductive /\ Whole /\ LedgerAgrees /\ Onward /\ Retained /\ [Next]_vars
           => Onward' /\ Retained'
    BY NextOnward, NextRetained
  <1>3. Inductive /\ Onward /\ Retained /\ [Next]_vars =>
           [/\ disk.tip # None => Height[disk'.tip] >= Height[disk.tip]
            /\ \A i \in DOMAIN disk.records :
                  disk.records[i].status = "included"
                     => disk'.records[i] = disk.records[i]]_vars
    BY NextOnly
  <1> QED BY <1>1, <1>2, <1>3, InductiveAlways, LineGrows, WholeAlways, StatusesAgree, PTL
          DEF Spec, NoRewind

----------------------------------------------------------------------------
(* A receipt reserves its notes.                                            *)

\* A transaction is valid where it is anchored and not dead.
LEMMA ValidAlive ==
  ASSUME NEW b \in Blocks, NEW t \in AllTxs
  PROVE  Valid(t, b) <=> Spends[t] # {} /\ Anchor[t] \in Path[b] /\ ~ Dead(t, b)
  <1>1. Expiry[t] \in Nat /\ Height[b] \in Nat
    BY ChainShape
  <1> QED BY <1>1 DEF Valid, Dead

\* What a branch mined, if it spends at all, is dead there.
LEMMA MinedDead ==
  ASSUME NEW b, NEW t \in TxsOn(b), Spends[t] # {}
  PROVE  Dead(t, b)
  BY DEF Dead, TxsOn, SpentOn, SpentIn

\* The records of the database are those of known transactions.
LEMMA DiskTx ==
  ASSUME IInv, NEW i \in DOMAIN disk.records
  PROVE  disk.records[i].tx \in AllTxs
  BY RecordsType DEF IInv, TypeOK, AllTxs

\* What a saved submission leaves at each place.
LEMMA CommitPlaces ==
  ASSUME Inductive, SubmitCommit
  PROVE  /\ DOMAIN disk.records \subseteq DOMAIN disk'.records
         /\ \A i \in DOMAIN disk.records : disk'.records[i] = disk.records[i]
         /\ \A i \in DOMAIN disk'.records \ DOMAIN disk.records :
               /\ disk'.records[i].tx = sub.tx /\ IsPending(disk'.records[i])
               /\ \A j \in DOMAIN disk'.records \ DOMAIN disk.records : i = j
  <1>1. /\ disk'.records = Append(disk.records, NewRecord(sub.tx))
        /\ disk.records \in Seq(Record) /\ NewRecord(sub.tx) \in Record
    BY CommitIs
  <1>2. NewRecord(sub.tx).tx = sub.tx /\ IsPending(NewRecord(sub.tx))
    BY DEF NewRecord, IsPending
  <1> DEFINE r == NewRecord(sub.tx)
             n == Len(disk.records)
  <1> HIDE DEF r
  <1>3. /\ n \in Nat /\ DOMAIN disk.records = 1..n /\ DOMAIN disk'.records = 1..(n + 1)
        /\ \A i \in 1..n : disk'.records[i] = disk.records[i]
        /\ disk'.records[n + 1] = r
    BY <1>1 DEF r
  <1>4. \A i \in 1..(n + 1) : i \notin 1..n => i = n + 1
    BY <1>3
  <1> QED BY <1>2, <1>3, <1>4 DEF r

\* A submission that is saved is valid where the database is, and shares a note
\* only with what is dead there.
LEMMA CommitClaims ==
  ASSUME Inductive, Checked, Claims, SubmitCommit
  PROVE  Claims'
  <1> USE DEF Inductive, Claims
  <1> DEFINE t == sub.tx
             old == DOMAIN disk.records
             new == DOMAIN disk'.records \ DOMAIN disk.records
  <1>1. /\ disk.tip \in Blocks /\ Valid(t, disk.tip) /\ t \in AllTxs
    BY CommitValid DEF AllTxs
  <1>2. /\ disk' = mem' /\ mem.records = disk.records /\ tip = disk.tip
        /\ disk'.tip = disk.tip /\ tip' = tip /\ pc' = pc /\ ready
        /\ pc # "records" /\ sub'.phase = "idle"
    BY CommitIs
  <1>3. /\ \A i \in old : disk'.records[i] = disk.records[i]
        /\ \A i \in new : disk'.records[i].tx = t /\ IsPending(disk'.records[i])
        /\ \A i, j \in new : i = j
        /\ \A i \in DOMAIN disk'.records : i \in old \/ i \in new
    BY CommitPlaces
  <1>4. Spends[t] # {} /\ Anchor[t] \in Path[disk.tip] /\ ~ Dead(t, disk.tip)
    BY <1>1, ValidAlive
  <1>5. \A i \in old : IsPending(disk.records[i]) \/ Dead(disk.records[i].tx, disk.tip)
    BY <1>2 DEF Lapses
  <1>6. \A i \in old : IsPending(disk.records[i])
                          => Spends[disk.records[i].tx] \cap Spends[t] = {}
    <2>1. sub.phase # "idle"
      BY DEF SubmitCommit
    <2> QED BY <1>2, <2>1 DEF Reserving, Conflicted
  <1> HIDE DEF t, old, new
  <1>7. Anchored'
    BY <1>2, <1>3, <1>4 DEF Anchored, old
  <1>8. Lapses'
    BY <1>2, <1>3, <1>5 DEF Lapses, old
  <1>9. Living'
    BY <1>2, <1>3, <1>4 DEF Living, old
  <1>10. Reserving'
    BY <1>2 DEF Reserving
  <1>11. Exclusive'
    <2> SUFFICES ASSUME NEW i \in DOMAIN disk'.records, NEW j \in DOMAIN disk'.records,
                        i # j,
                        Spends[disk'.records[i].tx] \cap Spends[disk'.records[j].tx] # {}
                 PROVE  \/ Dead(disk'.records[i].tx, disk.tip)
                        \/ Dead(disk'.records[j].tx, disk.tip)
      BY <1>2 DEF Exclusive
    <2>1. CASE i \in old /\ j \in old
      BY <1>3, <2>1 DEF Exclusive, old
    <2>2. CASE i \in new \/ j \in new
      BY <1>3, <1>5, <1>6, <2>2
    <2> QED BY <1>3, <2>1, <2>2
  <1> QED BY <1>7, <1>8, <1>9, <1>10, <1>11

\* A record that is classified stays pending only if it can be mined on the
\* fetched chain, and else cannot be mined at the node's tip.
LEMMA RecordsClaims ==
  ASSUME NoFork, "verify" \notin Faults, Inductive, Whole, Onward, Claims, Records
  PROVE  Claims'
  <1> USE DEF Inductive, Claims
  <1>1. PICK r \in Record : /\ Classify(r)
                            /\ idx \in DOMAIN mem.records /\ r.tx = mem.records[idx].tx
                            /\ Agrees(r, chain)
                            /\ r.status = "pending" => Valid(r.tx, tip)
                            /\ r.status = "failed" => Outspent(r) \/ ~ Valid(r.tx, tip)
    BY RecordAgrees
  <1>2. /\ DOMAIN mem'.records = DOMAIN mem.records /\ mem'.records[idx] = r
        /\ \A i \in DOMAIN mem.records : i # idx => mem'.records[i] = mem.records[i]
        /\ idx' = idx + 1 /\ idx \in Nat /\ DOMAIN mem.records \subseteq Nat
        /\ UNCHANGED <<disk, ready, sub, pc, fetched, tip>>
    BY <1>1, ClassifyIs
  <1>3. pc = "records" /\ ~ ready /\ sub.phase = "idle"
    BY DEF Records, RecordIncluded, RecordConflicts, RecordRequeued, RecordFails, AtRecord,
           Reconciling, Steady, IInv, Holder, Free
  <1>4. /\ idx \in DOMAIN disk.records /\ r.tx = disk.records[idx].tx
        /\ r.tx \in AllTxs /\ Spends[r.tx] # {} /\ Anchor[r.tx] \in Path[disk.tip]
    BY <1>1, SameTxs, DiskTx DEF Anchored
  <1>5. disk.records # <<>>
    BY <1>4
  <1>6. /\ disk.tip \in Blocks /\ snap \in Blocks /\ tip \in Blocks
        /\ Height[disk.tip] <= Height[snap] /\ Height[snap] <= Height[tip]
        /\ Height[disk.tip] <= Height[tip] /\ chain = Path[snap]
    BY <1>3, <1>5, TipTypes DEF Onward, Whole
  <1>7. r.status = "pending" => ~ Dead(r.tx, snap)
    BY <1>1, <1>4, <1>6, ValidAlive, LineOrder
  <1>8. r.status # "pending" => Dead(r.tx, tip)
    <2>1. CASE r.status = "included"
      <3>1. r.inclusion \in MinedIn(r.tx, chain)
        BY <1>1, <2>1 DEF Agrees, Latest
      <3>2. r.tx \in TxsOn(snap)
        BY <1>6, <3>1 DEF MinedIn, TxsOn, TxsIn
      <3> QED BY <1>4, <1>6, <3>2, MinedDead, LineOrder
    <2>2. CASE Outspent(r)
      <3>1. Dead(r.tx, snap)
        BY <1>6, <2>2 DEF Outspent, Dead, SpentOn
      <3> QED BY <1>4, <1>6, <3>1, LineOrder
    <2>3. CASE ~ Valid(r.tx, tip)
      <3>1. Path[disk.tip] \subseteq Path[tip]
        BY <1>6, LineOrder
      <3> QED BY <1>4, <1>6, <2>3, <3>1, ValidAlive
    <2> QED BY <1>1, <2>1, <2>2, <2>3 DEF Record
  <1>9. \A i \in DOMAIN mem.records : i < idx' => i = idx \/ i < idx
    BY <1>2
  <1>10. Lapses'
    <2> SUFFICES ASSUME NEW i \in DOMAIN mem.records, i < idx'
                 PROVE  IsPending(mem'.records[i]) \/ Dead(mem'.records[i].tx, tip)
      BY <1>2, <1>3 DEF Lapses
    <2>1. CASE i = idx
      BY <1>2, <1>8, <2>1 DEF IsPending
    <2>2. CASE i # idx
      BY <1>2, <1>3, <1>9, <2>2 DEF Lapses
    <2> QED BY <2>1, <2>2
  <1>11. Living'
    <2>1. ASSUME NEW i \in DOMAIN mem.records, i < idx', IsPending(mem'.records[i])
          PROVE  ~ Dead(mem'.records[i].tx, snap)
      <3>1. CASE i = idx
        BY <1>2, <1>7, <2>1, <3>1 DEF IsPending
      <3>2. CASE i # idx
        BY <1>2, <1>3, <1>9, <2>1, <3>2 DEF Living
      <3> QED BY <3>1, <3>2
    <2> QED BY <1>2, <2>1 DEF Living
  <1>12. Anchored' /\ Exclusive' /\ Reserving'
    BY <1>2, <1>3 DEF Anchored, Exclusive, Reserving
  <1> QED BY <1>10, <1>11, <1>12

\* The classified records are saved, or given up.
LEMMA ReconcileClaims ==
  ASSUME NoFork, Inductive, Onward, Claims, Reconcile
  PROVE  Claims'
  <1> USE DEF Inductive, Claims
  <1>1. /\ pc = "records" /\ \A i \in DOMAIN mem.records : i < idx
        /\ mem'.records = mem.records /\ mem'.tip = snap
        /\ UNCHANGED <<tip, sub, fetched>> /\ sub.phase = "idle"
    BY ReconcileIs
  <1>2. Reserving'
    BY <1>1 DEF Reserving
  <1>3. CASE disk' = disk /\ pc' = "failed" /\ ready' = FALSE
    <2>1. Lapses'
      BY <1>3 DEF Lapses
    <2>2. Anchored' /\ Living' /\ Exclusive'
      BY <1>3 DEF Anchored, Living, Exclusive
    <2> QED BY <1>2, <2>1, <2>2
  <1>4. CASE disk' = mem' /\ pc' = "pay"
    <2>1. /\ DOMAIN mem.records = DOMAIN disk.records
          /\ \A i \in DOMAIN disk.records : mem.records[i].tx = disk.records[i].tx
          /\ disk'.records = mem.records /\ disk'.tip = snap
      BY <1>1, <1>4, SameTxs
    <2>2. ASSUME NEW i \in DOMAIN disk.records
          PROVE  /\ Path[disk.tip] \subseteq Path[snap]
                 /\ \A j \in DOMAIN disk.records :
                       Dead(disk.records[j].tx, disk.tip) => Dead(disk.records[j].tx, snap)
      <3>1. disk.records # <<>>
        OBVIOUS
      <3>2. /\ disk.tip \in Blocks /\ snap \in Blocks /\ Height[disk.tip] <= Height[snap]
        BY <1>1, <3>1, TipTypes DEF Onward
      <3> QED BY <3>2, LineOrder, DiskTx
    <2>3. Anchored'
      BY <2>1, <2>2 DEF Anchored
    <2>4. Lapses'
      BY <1>1 DEF Lapses
    <2>5. Living'
      BY <1>1, <1>4, <2>1 DEF Living
    <2>6. Exclusive'
      BY <2>1, <2>2 DEF Exclusive
    <2> QED BY <1>2, <2>3, <2>4, <2>5, <2>6
  <1> QED BY <1>3, <1>4, ReconcileIs

\* What cannot be mined at the tip cannot be mined higher up.
LEMMA MoveClaims ==
  ASSUME NoFork, BestChain, Inductive, Claims, NEW b \in Blocks, NodeMove(b)
  PROVE  Claims'
  <1> USE DEF Inductive, Claims
  <1>1. /\ UNCHANGED <<mem, disk, ready, sub, pc, snap, idx>> /\ tip' = b
        /\ tip \in Blocks /\ Height[tip] <= Height[b]
    <2>1. Height[tip] < Height[b] /\ tip \in Blocks
      BY TipTypes, ServiceParams DEF NodeMove, BestChain
    <2>2. Height[tip] \in Nat /\ Height[b] \in Nat
      BY <2>1, ChainShape
    <2>3. UNCHANGED <<mem, disk, ready, sub, pc, snap, idx>> /\ tip' = b
      BY DEF NodeMove, store, follower
    <2> QED BY <2>1, <2>2, <2>3
  <1>2. \A t \in AllTxs : Dead(t, tip) => Dead(t, b)
    BY <1>1, LineOrder
  <1>3. \A i \in DOMAIN mem.records : mem.records[i].tx \in AllTxs
    BY SameTxs, DiskTx
  <1>4. Lapses'
    BY <1>1, <1>2, <1>3 DEF Lapses
  <1>5. Anchored' /\ Living' /\ Exclusive' /\ Reserving'
    BY <1>1 DEF Anchored, Living, Exclusive, Reserving, Conflicted
  <1> QED BY <1>4, <1>5

\* The control state Claims speaks of, in the steps that change no record.
LEMMA ClaimsControl ==
  ASSUME IInv, [Next]_vars, ~ Moving, ~ \E b \in Blocks : NodeMove(b)
  PROVE  /\ tip' = tip
         /\ ready' = ready \/ ready' = FALSE
         /\ pc' = "records" => \/ idx' = 1
                               \/ pc = "records" /\ idx' = idx /\ snap' = snap
         /\ sub'.phase # "idle" => \/ sub.phase # "idle" /\ sub'.tx = sub.tx
                                   \/ ~ Conflicted(sub'.tx, mem.records)
  <1>1. CASE Submission
    <2>1. tip' = tip /\ (ready' = ready \/ ready' = FALSE)
      BY <1>1 DEF Moving, Submission, SubmitBegin, SubmitVerified, SubmitDropped,
                  SubmitRefused, SubmitSaveFails, node, store
    <2>2. pc' = pc /\ idx' = idx /\ snap' = snap
      BY <1>1 DEF Moving, Submission, SubmitBegin, SubmitVerified, SubmitDropped,
                  SubmitRefused, SubmitSaveFails, follower
    <2>3. sub'.phase # "idle" => \/ sub.phase # "idle" /\ sub'.tx = sub.tx
                                 \/ ~ Conflicted(sub'.tx, mem.records)
      <3>1. ASSUME NEW t \in Txs, SubmitBegin(t)
            PROVE  ~ Conflicted(sub'.tx, mem.records)
        BY <3>1 DEF SubmitBegin, Admits
      <3>2. CASE SubmitVerified
        BY <3>2 DEF SubmitVerified, IInv, TypeOK
      <3> QED BY <1>1, <3>1, <3>2 DEF Moving, Submission, SubmitDropped, SubmitRefused,
                                      SubmitSaveFails, NoSub
    <2> QED BY <2>1, <2>2, <2>3
  <1>2. CASE Follower
    <2>1. sub' = sub /\ tip' = tip
      BY <1>2 DEF Moving, Follower, Poll, Fetch, FetchFails, Lock, LockMoved,
                  FollowerFailed, Payouts,
                  PayNext, PayDone, Sign, BuildFails, RecheckFails, RecheckGone,
                  RecheckExpired, Block, Recheck, InMempool, NotInMempool, Send,
                  SendReplyLost, Broadcast, RecordSent, SendRejected, node
    <2>2. ready' = ready \/ ready' = FALSE
      BY <1>2 DEF Moving, Follower, Poll, Fetch, FetchFails, Lock, LockMoved,
                  FollowerFailed, Payouts,
                  PayNext, PayDone, Sign, BuildFails, RecheckFails, RecheckGone,
                  RecheckExpired, Block, Recheck, InMempool, NotInMempool, Send,
                  SendReplyLost, RecordSent, SendRejected, store
    <2>3. pc' = "records" => idx' = 1
      BY <1>2 DEF Moving, Follower, Poll, Fetch, FetchFails, Lock, LockMoved,
                  FollowerFailed, Payouts,
                  PayNext, PayDone, Sign, BuildFails, RecheckFails, RecheckGone,
                  RecheckExpired, Block, Recheck, InMempool, NotInMempool, Send,
                  SendReplyLost, RecordSent, SendRejected, Save
    <2> QED BY <2>1, <2>2, <2>3
  <1>3. CASE UNCHANGED vars
    BY <1>3 DEF vars, node, store, follower
  <1> QED BY <1>1, <1>2, <1>3 DEF Next, Environment, Moving

\* Every step keeps Claims.
LEMMA NextClaims ==
  ASSUME NoFork, BestChain, "verify" \notin Faults,
         Inductive, Checked, Whole, Onward, Claims, [Next]_vars
  PROVE  Claims'
  <1>1. ASSUME NEW b \in Blocks, Crash(b) PROVE Claims'
    <2>1. mem' = disk /\ disk' = disk /\ ready' = FALSE /\ pc' = "idle" /\ sub' = NoSub
      BY <1>1 DEF Crash
    <2> QED BY <2>1 DEF Claims, Anchored, Lapses, Living, Reserving, Exclusive, NoSub
  <1>2. CASE ~ Moving /\ ~ \E b \in Blocks : NodeMove(b)
    <2>1. mem'.records = mem.records /\ disk'.records = disk.records /\ disk'.tip = disk.tip
      BY <1>2, StillStep DEF Inductive
    <2>2. \A i \in DOMAIN mem.records : ~ (i < 1)
      <3>1. mem.records \in Seq(Record)
        BY DEF Inductive, IInv, TypeOK, LedgerType
      <3> QED BY <3>1
    <2>3. /\ tip' = tip /\ (ready' = ready \/ ready' = FALSE)
          /\ pc' = "records" => \/ idx' = 1
                                \/ pc = "records" /\ idx' = idx /\ snap' = snap
      BY <1>2, ClaimsControl DEF Inductive
    <2>33. ready' => ready
      BY <2>3
    <2>4. Lapses' /\ Living'
      <3>1. \A i \in DOMAIN mem.records : pc' = "records" /\ i < idx'
                => pc = "records" /\ i < idx /\ snap' = snap
        BY <2>2, <2>3
      <3>2. Lapses'
        BY <2>1, <2>3, <2>33, <3>1 DEF Claims, Lapses
      <3>3. Living'
        BY <2>1, <2>3, <3>1 DEF Claims, Living
      <3> QED BY <3>2, <3>3
    <2>5. Reserving'
      BY <1>2, <2>1, ClaimsControl DEF Inductive, Claims, Reserving, Conflicted
    <2>6. Anchored' /\ Exclusive'
      BY <2>1 DEF Claims, Anchored, Exclusive
    <2> QED BY <2>4, <2>5, <2>6 DEF Claims
  <1> QED BY <1>1, <1>2, CommitClaims, RecordsClaims, ReconcileClaims, MoveClaims
          DEF Moving

\* All that Growing says holds on a chain that only grows, if no verification
\* fails for another reason than the transaction.
THEOREM GrowingAlways ==
  ASSUME NoFork, BestChain, "verify" \notin Faults
  PROVE  Spec => []Growing
  <1>1. Init => Onward /\ Retained /\ Claims
    BY DEF Init, Onward, Retained, Claims, Anchored, Lapses, Living, Reserving, Exclusive,
           EmptyLedger, NoSub
  <1>2. Inductive /\ Checked /\ Whole /\ LedgerAgrees /\ Onward /\ Retained /\ Claims
        /\ [Next]_vars => Onward' /\ Retained' /\ Claims'
    BY NextOnward, NextRetained, NextClaims
  <1>3. Onward /\ Retained /\ Claims <=> Growing
    BY DEF Growing
  <1> QED BY <1>1, <1>2, <1>3, InductiveAlways, CheckedAlways, LineGrows, WholeAlways,
             StatusesAgree, PTL DEF Spec

\* A receipt reserves its notes: no two pending transactions spend the same, since
\* what gives way to another one cannot be mined any more.
THEOREM NotesReserved ==
  ASSUME NoFork, BestChain, "verify" \notin Faults
  PROVE  Spec => []PendingDisjoint
  <1>1. Growing => PendingDisjoint
    BY DEF Growing, Claims, Living, Exclusive, PendingDisjoint
  <1> QED BY <1>1, GrowingAlways, PTL

----------------------------------------------------------------------------
(* The capacity.                                                            *)

\* The records whose transactions can still be mined.
Alive == {i \in DOMAIN disk.records : ~ Dead(disk.records[i].tx, disk.tip)}

\* There are finitely many records of each kind.
LEMMA FewRecords ==
  ASSUME IInv
  PROVE  /\ IsFiniteSet(Alive) /\ Cardinality(Alive) \in Nat
         /\ IsFiniteSet(PendingAt(disk.records))
         /\ Cardinality(PendingAt(disk.records)) \in Nat
  <1>1. DOMAIN disk.records = 1..Len(disk.records) /\ Len(disk.records) \in Nat
    <2>1. disk.records \in Seq(Record)
      BY DEF IInv, TypeOK, LedgerType
    <2> QED BY <2>1
  <1>2. Alive \in SUBSET (1..Len(disk.records))
    BY <1>1 DEF Alive
  <1>3. PendingAt(disk.records) \in SUBSET (1..Len(disk.records))
    BY <1>1 DEF PendingAt
  <1> QED BY <1>1, <1>2, <1>3, Ranks

\* A submission is saved where a place is left.
LEMMA CommitBounded ==
  ASSUME Inductive, Claims, SubmitCommit
  PROVE  Bounded'
  <1> USE DEF Inductive
  <1> DEFINE old == PendingAt(disk.records)
             new == DOMAIN disk'.records \ DOMAIN disk.records
  <1>1. /\ mem.records = disk.records /\ tip = disk.tip /\ mem.tip = disk.tip
        /\ disk'.tip = disk.tip /\ ready
    BY CommitIs
  <1>2. /\ \A i \in DOMAIN disk.records : disk'.records[i] = disk.records[i]
        /\ \A i, j \in new : i = j
    BY CommitPlaces
  <1>3. Cardinality(old) < Cap /\ IsFiniteSet(old) /\ Cardinality(old) \in Nat
    <2>1. Len(PendingOf(mem).txs) < Cap
      BY DEF SubmitCommit, Affords
    <2>2. mem \in LedgerType /\ mem.tip # None
      BY <1>1, TipTypes DEF SubmitCommit, Affords, TipUnchanged, IInv, TypeOK
    <2> QED BY <1>1, <2>1, <2>2, PendingLeft, FewRecords
  <1>4. \A i \in DOMAIN disk.records :
           ~ Dead(disk.records[i].tx, disk.tip) => i \in old
    BY <1>1 DEF Claims, Lapses, PendingAt
  <1>5. PICK n : Alive' \subseteq old \cup {n}
    <2>1. \A i \in Alive' : i \in old \/ i \in new
      BY <1>1, <1>2, <1>4 DEF Alive
    <2>2. CASE new = {}
      BY <2>1, <2>2
    <2>3. ASSUME NEW n \in new
          PROVE  Alive' \subseteq old \cup {n}
      BY <1>2, <2>1
    <2> QED BY <2>2, <2>3
  <1>6. IsFiniteSet(old \cup {n}) /\ Cardinality(old \cup {n}) <= Cardinality(old) + 1
        /\ Cardinality(old \cup {n}) \in Nat
    <2> HIDE DEF old
    <2>1. /\ IsFiniteSet(old \cup {n})
          /\ Cardinality(old \cup {n}) = IF n \in old THEN Cardinality(old)
                                                     ELSE Cardinality(old) + 1
      BY <1>3, FS_AddElement
    <2> QED BY <1>3, <2>1
  <1>7. Cardinality(Alive') <= Cardinality(old \cup {n})
    BY <1>5, <1>6, FS_Subset
  <1>8. Cardinality(Alive') \in Nat
    BY <1>5, <1>6, FS_Subset, FS_CardinalityType
  <1> HIDE DEF old
  <1>9. Cardinality(Alive') <= Cap
    BY <1>3, <1>6, <1>7, <1>8, ServiceParams
  <1> QED BY <1>9 DEF Bounded, Alive

\* On a higher chain nothing comes back to life.
LEMMA NextBounded ==
  ASSUME NoFork, Inductive, Onward, Claims, Bounded, [Next]_vars
  PROVE  Bounded'
  <1> USE DEF Inductive
  <1>1. CASE SubmitCommit
    BY <1>1, CommitBounded
  <1>2. CASE disk'.records = disk.records /\ disk'.tip = disk.tip
    BY <1>2 DEF Bounded
  <1>3. CASE Records
    <2>1. disk' = disk
      BY <1>3 DEF Records, RecordIncluded, RecordConflicts, RecordRequeued, RecordFails,
                  Classify
    <2> QED BY <1>2, <2>1
  <1>4. CASE Reconcile /\ disk' # disk
    <2>1. /\ disk'.records = mem.records /\ disk'.tip = snap /\ pc = "records"
          /\ DOMAIN mem.records = DOMAIN disk.records
          /\ \A i \in DOMAIN disk.records : mem.records[i].tx = disk.records[i].tx
      BY <1>4, ReconcileIs, SameTxs
    <2>2. ASSUME NEW i \in DOMAIN disk.records
          PROVE  Dead(disk.records[i].tx, disk.tip) => Dead(disk.records[i].tx, snap)
      <3>1. disk.records # <<>>
        OBVIOUS
      <3>2. disk.tip \in Blocks /\ snap \in Blocks /\ Height[disk.tip] <= Height[snap]
        BY <2>1, <3>1, TipTypes DEF Onward
      <3> QED BY <3>2, LineOrder, DiskTx
    <2>3. Alive' \in SUBSET Alive
      BY <2>1, <2>2 DEF Alive
    <2>4. Cardinality(Alive') <= Cardinality(Alive) /\ Cardinality(Alive) \in Nat
          /\ Cardinality(Alive') \in Nat
      BY <2>3, FewRecords, FS_Subset, FS_CardinalityType
    <2>5. Cardinality(Alive) <= Cap
      BY DEF Bounded, Alive
    <2>6. Cardinality(Alive') <= Cap
      BY <2>4, <2>5, ServiceParams
    <2> QED BY <2>6 DEF Bounded, Alive
  <1>5. ASSUME NEW b \in Blocks, Crash(b) PROVE Bounded'
    <2>1. disk' = disk
      BY <1>5 DEF Crash
    <2> QED BY <1>2, <2>1
  <1>6. CASE ~ Moving
    BY <1>2, <1>6, StillStep
  <1> QED BY <1>1, <1>2, <1>3, <1>4, <1>5, <1>6 DEF Moving

\* What can be mined fits the feed, and so does what is pending.
LEMMA FeedFits ==
  ASSUME IInv, Living, Bounded
  PROVE  PendingFitsCap
  <1>1. CASE feed = NoSnapshot
    BY <1>1, ServiceParams DEF NoSnapshot, PendingFitsCap
  <1>2. CASE feed # NoSnapshot
    <2>1. feed = PendingOf(disk) /\ disk.tip # None /\ disk \in LedgerType
      BY <1>2 DEF IInv, TypeOK, FeedIsDurable, PendingOf
    <2>2. Len(feed.txs) = Cardinality(PendingAt(disk.records))
      BY <2>1, PendingLeft
    <2>3. PendingAt(disk.records) \in SUBSET Alive
      BY DEF Living, PendingAt, Alive
    <2>4. Cardinality(PendingAt(disk.records)) <= Cardinality(Alive)
      BY <2>3, FewRecords, FS_Subset
    <2>5. Cardinality(Alive) <= Cap
      BY DEF Bounded, Alive
    <2>6. Cardinality(PendingAt(disk.records)) <= Cap
      BY <2>4, <2>5, FewRecords, ServiceParams
    <2> QED BY <2>2, <2>6 DEF PendingFitsCap
  <1> QED BY <1>1, <1>2

\* What is pending always fits the frame it is published in: a chain that only
\* grows brings nothing back that once made room for another transaction.
THEOREM FeedAlwaysFits ==
  ASSUME NoFork, BestChain, "verify" \notin Faults
  PROVE  Spec => []PendingFitsCap
  <1>1. Init => Bounded
    <2>1. ASSUME Init PROVE Alive = {}
      BY <2>1 DEF Init, EmptyLedger, Alive
    <2>2. Init => Cardinality(Alive) <= Cap
      BY <2>1, FS_EmptySet, ServiceParams
    <2> QED BY <2>2 DEF Bounded, Alive
  <1>2. Inductive /\ Growing /\ Bounded /\ [Next]_vars => Bounded'
    BY NextBounded DEF Growing
  <1>3. Inductive /\ Growing /\ Bounded => PendingFitsCap
    BY FeedFits DEF Inductive, Growing, Claims
  <1> QED BY <1>1, <1>2, <1>3, InductiveAlways, GrowingAlways, PTL DEF Spec

=============================================================================
