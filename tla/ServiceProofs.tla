--------------------------- MODULE ServiceProofs ---------------------------
(***************************************************************************)
(* The safety of the service for every block tree, every set of             *)
(* transactions and every bound.  IInv is inductive, and the promises of    *)
(* Service follow from it; then what no step may undo: the database never   *)
(* loses a receipt, and never loses or rewrites a signed payout.  From there *)
(* the service implements Promise.                                          *)
(***************************************************************************)
EXTENDS Invariants, SubsequenceProofs, SequenceTheorems, TLAPS

USE DEF fetched

----------------------------------------------------------------------------
(* The operators of Ledger.                                                 *)

\* A branch consists of blocks.
LEMMA PathBlocks == ASSUME NEW b \in Blocks PROVE Path[b] \subseteq Blocks
  BY ChainShape

\* A copy of the chain consists of blocks.
LEMMA CopiesType ==
  ASSUME NEW b \in Blocks, NEW overtaken, NEW blocks \in Copies(b, overtaken)
  PROVE  blocks \subseteq Blocks
  BY ChainShape DEF Copies

\* The records of a ledger are records.
LEMMA RecordsType ==
  ASSUME NEW l \in LedgerType, NEW i \in DOMAIN l.records
  PROVE  l.records[i] \in Record /\ l.records[i].tx \in Txs
  <1>1. l.records \in Seq(Record)
    BY DEF LedgerType
  <1>2. l.records[i] \in Record
    BY <1>1
  <1> QED BY <1>2 DEF Record

\* Settling yields payouts.
LEMMA SettleType ==
  ASSUME NEW S \in SUBSET Payout, NEW blocks
  PROVE  Settle(S, blocks) \subseteq Payout
  BY DEF Settle, SettledStatus, Payout

\* Settling keeps the payouts of a ledger apart.
LEMMA SettleAssigned ==
  ASSUME NEW l \in LedgerType, NEW blocks, AssignedOnce(l)
  PROVE  AssignedOnce([l EXCEPT !.payouts = Settle(@, blocks)])
  <1> DEFINE settled(p) == [p EXCEPT !.status = SettledStatus(p, blocks)]
  <1>1. SUFFICES ASSUME NEW p \in Settle(l.payouts, blocks), NEW q \in Settle(l.payouts, blocks),
                        p.txs \cap q.txs # {}
                 PROVE  p = q
    BY DEF AssignedOnce, LedgerType
  <1>2. PICK r \in l.payouts : p = settled(r)
    BY <1>1 DEF Settle
  <1>3. PICK s \in l.payouts : q = settled(s)
    BY <1>1 DEF Settle
  <1>4. p.txs = r.txs /\ q.txs = s.txs
    BY <1>2, <1>3 DEF LedgerType, Payout
  <1>5. r = s
    BY <1>1, <1>4 DEF AssignedOnce
  <1> QED BY <1>2, <1>3, <1>5

\* Settling keeps every signed payout, with its bytes and transactions.
LEMMA SettleSigned ==
  ASSUME NEW S \in SUBSET Payout, NEW blocks, NEW p \in S, p.raw # None
  PROVE  \E q \in Settle(S, blocks) : 
            /\ q.raw = p.raw /\ q.txs = p.txs /\ q.block = p.block
            /\ p.status = "blocked" => q.status = "blocked"
  <1> DEFINE q == [p EXCEPT !.status = SettledStatus(p, blocks)]
  <1>1. q \in Settle(S, blocks)
    BY DEF Settle, Kept
  <1>2. /\ q.raw = p.raw /\ q.txs = p.txs /\ q.block = p.block
        /\ p.status = "blocked" => q.status = "blocked"
    BY DEF Payout, SettledStatus
  <1> QED BY <1>1, <1>2

\* New payouts are payouts.
LEMMA NewPayoutsType ==
  ASSUME NEW l \in LedgerType
  PROVE  NewPayouts(l.records, l.payouts) \subseteq Payout
  <1>0. \A i \in DOMAIN l.records : l.records[i].tx \in Txs
    BY RecordsType
  <1>1. \A b \in Blocks : Group(l.records, l.payouts, b) \in SUBSET Txs
    BY <1>0 DEF Group
  <1>2. \A b \in Blocks, txs \in (SUBSET Txs) \ {{}} : NewPayout(b, txs) \in Payout
    BY DEF NewPayout, Payout, Amounts
  <1> QED BY <1>1, <1>2 DEF NewPayouts

\* New payouts cover nothing that is covered, and nothing twice.
LEMMA NewPayoutsAssigned ==
  ASSUME NEW l \in LedgerType, AssignedOnce(l),
         \A i, j \in DOMAIN l.records :
            l.records[i].tx = l.records[j].tx => i = j,
         NEW b \in Blocks
  PROVE  AssignedOnce([l EXCEPT !.tip = b, 
                                !.payouts = @ \cup NewPayouts(l.records, @)])
  <1> DEFINE group(c) == Group(l.records, l.payouts, c)
             fresh == NewPayouts(l.records, l.payouts)
  <1>1. SUFFICES ASSUME NEW p \in l.payouts \cup fresh, NEW q \in l.payouts \cup fresh,
                        p.txs \cap q.txs # {}
                 PROVE  p = q
    BY DEF AssignedOnce, LedgerType
  <1>2. \A r \in fresh : \E c \in Blocks : r = NewPayout(c, group(c)) /\ r.txs = group(c)
    BY DEF NewPayouts, NewPayout
  <1>3. \A c \in Blocks, r \in l.payouts : group(c) \cap r.txs = {}
    BY DEF Group, Assigned
  <1>4. ASSUME NEW c \in Blocks, NEW d \in Blocks, NEW t \in group(c), t \in group(d)
        PROVE  c = d
    BY <1>4 DEF Group
  <1>5. CASE p \in fresh /\ q \in fresh
    <2>1. PICK c \in Blocks : p = NewPayout(c, group(c)) /\ p.txs = group(c)
      BY <1>2, <1>5
    <2>2. PICK d \in Blocks : q = NewPayout(d, group(d)) /\ q.txs = group(d)
      BY <1>2, <1>5
    <2>3. c = d
      BY <1>1, <1>4, <2>1, <2>2
    <2> QED BY <2>1, <2>2, <2>3
  <1> QED BY <1>1, <1>2, <1>3, <1>5 DEF AssignedOnce

\* Replacing the payout at hand by one with its transactions, that keeps the
\* bytes it may have, keeps the payouts apart and loses no signed one.
LEMMA WithAssigned ==
  ASSUME mem \in LedgerType, AssignedOnce(mem), cur \in mem.payouts,
         NEW p \in Payout, p.txs = cur.txs
  PROVE  /\ With(p) \in LedgerType
         /\ AssignedOnce(With(p))
         /\ With(p).records = mem.records /\ With(p).tip = mem.tip
         /\ With(p).payouts = (mem.payouts \ {cur}) \cup {p}
  <1>1. /\ With(p) \in LedgerType
        /\ With(p).records = mem.records /\ With(p).tip = mem.tip
        /\ With(p).payouts = (mem.payouts \ {cur}) \cup {p}
    BY DEF With, LedgerType
  <1>2. AssignedOnce(With(p))
    BY <1>1 DEF AssignedOnce
  <1> QED BY <1>1, <1>2

\* The snapshot depends on a ledger's tip and records only.
LEMMA PendingOfCongruence ==
  ASSUME NEW l, NEW m, l.tip = m.tip, l.records = m.records
  PROVE  PendingOf(l) = PendingOf(m)
  BY DEF PendingOf

\* A record that is replaced by one of the same transaction.
LEMMA ClassifyRecords ==
  ASSUME mem \in LedgerType, UniqueRecords, NEW r \in Record,
         idx \in DOMAIN mem.records, r.tx = mem.records[idx].tx,
         mem' = [mem EXCEPT !.records[idx] = r]
  PROVE  /\ mem' \in LedgerType /\ UniqueRecords'
         /\ Accepted(mem'.records) = Accepted(mem.records)
         /\ mem'.tip = mem.tip /\ mem'.payouts = mem.payouts
  <1>1. mem.records \in Seq(Record)
    BY DEF LedgerType
  <1>2. /\ mem'.records = [mem.records EXCEPT ![idx] = r]
        /\ mem'.tip = mem.tip /\ mem'.payouts = mem.payouts
    BY DEF LedgerType
  <1>3. mem'.records \in Seq(Record) /\ DOMAIN mem'.records = DOMAIN mem.records
    BY <1>1, <1>2
  <1>4. \A i \in DOMAIN mem.records : mem'.records[i].tx = mem.records[i].tx
    BY <1>1, <1>2
  <1>5. mem' \in LedgerType
    BY <1>2, <1>3 DEF LedgerType
  <1>6. UniqueRecords'
    BY <1>3, <1>4 DEF UniqueRecords
  <1>7. Accepted(mem'.records) = Accepted(mem.records)
    BY <1>3, <1>4 DEF Accepted
  <1> QED BY <1>2, <1>5, <1>6, <1>7

\* A record that is added for a transaction the ledger does not have.
LEMMA AppendRecord ==
  ASSUME mem \in LedgerType, UniqueRecords, NEW t \in Txs, t \notin TxsOf(mem.records),
         mem' = [mem EXCEPT !.records = Append(@, NewRecord(t))]
  PROVE  /\ mem' \in LedgerType /\ UniqueRecords'
         /\ mem'.tip = mem.tip /\ mem'.payouts = mem.payouts
         /\ mem'.records = Append(mem.records, NewRecord(t))
  <1>1. mem.records \in Seq(Record) /\ NewRecord(t) \in Record
    BY DEF LedgerType, NewRecord, Record
  <1>2. /\ mem'.records = Append(mem.records, NewRecord(t))
        /\ mem'.tip = mem.tip /\ mem'.payouts = mem.payouts
    BY DEF LedgerType
  <1>3. /\ mem'.records \in Seq(Record)
        /\ DOMAIN mem.records = 1..Len(mem.records) /\ Len(mem.records) \in Nat
        /\ DOMAIN mem'.records = 1..(Len(mem.records) + 1)
        /\ \A i \in DOMAIN mem.records : mem'.records[i] = mem.records[i]
        /\ mem'.records[Len(mem.records) + 1] = NewRecord(t)
    BY <1>1, <1>2
  <1>4. mem' \in LedgerType
    BY <1>2, <1>3 DEF LedgerType
  <1>5. \A i \in DOMAIN mem.records : mem.records[i].tx # t
    BY DEF TxsOf
  <1>6. UniqueRecords'
    BY <1>3, <1>5 DEF UniqueRecords, NewRecord
  <1> QED BY <1>2, <1>4, <1>6

----------------------------------------------------------------------------
(* IInv is inductive: one lemma per task.                                   *)

\* The initial state satisfies the invariant.
LEMMA InitIInv == Init => IInv
  <1> SUFFICES ASSUME Init PROVE IInv
    OBVIOUS
  <1>1. EmptyLedger \in LedgerType
    BY DEF EmptyLedger, LedgerType
  <1>2. TypeOK
    <2>1. ready \in BOOLEAN /\ recovering \in BOOLEAN
      BY DEF Init
    <2>2. faults \in 0..MaxFaults /\ crashes \in 0..MaxCrashes
      BY ServiceParams DEF Init
    <2>3. tip \in Blocks /\ snap \in Blocks /\ chain \subseteq Blocks /\ torn \in BOOLEAN
      BY ChainShape DEF Init
    <2> QED BY <1>1, <2>1, <2>2, <2>3 DEF Init, TypeOK, NoSub, Free, NoSnapshot
  <1>3. Holder /\ UniqueRecords /\ Working
    BY DEF Init, Holder, UniqueRecords, Working, NoSub, EmptyLedger, Paying, Building
  <1>4. KnownIsDurable /\ FeedIsDurable /\ FeeAssignedOnce
    BY DEF Init, KnownIsDurable, FeedIsDurable, FeeAssignedOnce, AssignedOnce, EmptyLedger, NoSnapshot
  <1>5. SentIn(mem) /\ SentIn(disk)
    BY DEF Init, SentIn
  <1> QED BY <1>2, <1>3, <1>4, <1>5 DEF IInv

\* A step that leaves the ledgers, the feed and the sent payouts alone has
\* only its control state to answer for.
LEMMA Quiet ==
  ASSUME IInv, UNCHANGED <<mem, disk, sent, feed>>, TypeOK', Holder', Working'
  PROVE  IInv'
  <1>1. UniqueRecords' /\ KnownIsDurable' /\ FeedIsDurable'
    BY DEF IInv, UniqueRecords, KnownIsDurable, FeedIsDurable
  <1>2. FeeAssignedOnce' /\ SentIn(mem)' /\ SentIn(disk)'
    BY DEF IInv, FeeAssignedOnce, AssignedOnce, SentIn
  <1> QED BY <1>1, <1>2 DEF IInv

\* A failure stays within its budget.
LEMMA FaultType ==
  ASSUME TypeOK, NEW kind, Fault(kind)
  PROVE  faults' \in 0..MaxFaults /\ crashes' = crashes
  BY ServiceParams DEF Fault, TypeOK

\* preconf_submit preserves the invariant.
LEMMA SubmissionStep == IInv /\ Submission => IInv'
  <1> SUFFICES ASSUME IInv, Submission PROVE IInv'
    OBVIOUS
  <1> USE DEF IInv
  <1>1. ASSUME NEW t \in Txs, SubmitBegin(t) PROVE IInv'
    <2>1. TypeOK'
      BY <1>1 DEF SubmitBegin, TypeOK, node, store, follower, budget
    <2>2. Holder' /\ Working'
      BY <1>1 DEF SubmitBegin, Admits, LockFree, Holder, Working, node, store, follower, budget
    <2> QED BY <1>1, <2>1, <2>2, Quiet DEF SubmitBegin, node, store
  <1>2. CASE SubmitVerified \/ SubmitDropped \/ SubmitRefused
    <2>1. /\ UNCHANGED <<node, store, follower, budget>>
          /\ sub' \in {NoSub, [sub EXCEPT !.phase = "commit"]}
          /\ sub.phase # "idle"
      BY <1>2 DEF SubmitVerified, SubmitDropped, SubmitRefused
    <2>2. TypeOK'
      BY <2>1 DEF TypeOK, NoSub, node, store, follower, budget
    <2>3. Holder' /\ Working'
      BY <2>1 DEF TypeOK, Holder, Working, NoSub, node, store, follower, budget
    <2> QED BY <2>1, <2>2, <2>3, Quiet DEF node, store
  <1>3. CASE SubmitSaveFails
    <2>1. TypeOK'
      <3>1. faults' \in 0..MaxFaults /\ crashes' = crashes
        BY <1>3, FaultType DEF SubmitSaveFails
      <3>2. ready' \in BOOLEAN
        BY <1>3 DEF SubmitSaveFails
      <3> QED BY <1>3, <3>1, <3>2 DEF SubmitSaveFails, TypeOK, NoSub, node, follower
    <2>2. Holder' /\ Working'
      BY <1>3 DEF SubmitSaveFails, Holder, Working, NoSub, node, store, follower, budget
    <2> QED BY <1>3, <2>1, <2>2, Quiet DEF SubmitSaveFails, node
  <1>4. CASE SubmitCommit
    <2> DEFINE t == sub.tx
    <2>1. /\ t \in Txs /\ t \notin TxsOf(mem.records) /\ pc \in Free
          /\ mem' = [mem EXCEPT !.records = Append(@, NewRecord(t))]
          /\ disk' = mem' /\ feed' = PendingOf(mem') /\ sub' = NoSub
          /\ UNCHANGED <<node, ready, recovering, follower, budget>>
          /\ tip = mem.tip
      BY <1>4 DEF SubmitCommit, Holder, Affords, TipUnchanged
    <2>2. /\ mem' \in LedgerType /\ UniqueRecords'
          /\ mem'.tip = mem.tip /\ mem'.payouts = mem.payouts
      BY <2>1, AppendRecord DEF TypeOK
    <2>3. feed'.tip \in Blocks \cup {None}
      BY <2>1, <2>2 DEF PendingOf, NoSnapshot, TypeOK
    <2>4. TypeOK'
      BY <2>1, <2>2, <2>3 DEF TypeOK, NoSub, node, follower, budget
    <2>5. Holder' /\ Working'
      BY <2>1, <2>2 DEF Holder, Working, NoSub, follower, Free
    <2>6. KnownIsDurable' /\ FeedIsDurable'
      BY <2>1 DEF KnownIsDurable, FeedIsDurable
    <2>7. FeeAssignedOnce' /\ SentIn(mem)' /\ SentIn(disk)'
      BY <2>1, <2>2 DEF FeeAssignedOnce, AssignedOnce, SentIn, node
    <2> QED BY <2>2, <2>4, <2>5, <2>6, <2>7
  <1> QED BY <1>1, <1>2, <1>3, <1>4 DEF Submission

\* The follower's steps up to the records preserve the invariant.
LEMMA FollowStep ==
  IInv /\ (Poll \/ Fetch \/ FetchFails \/ Lock \/ LockMoved \/ FollowerFailed) => IInv'
  <1> SUFFICES ASSUME IInv, Poll \/ Fetch \/ FetchFails \/ Lock \/ LockMoved \/ FollowerFailed
               PROVE  IInv'
    OBVIOUS
  <1> USE DEF IInv
  <1>1. CASE Poll \/ LockMoved
    <2>1. TypeOK'
      BY <1>1 DEF Poll, LockMoved, TypeOK, Free, node, store, follower, budget
    <2>2. Holder' /\ Working'
      BY <1>1 DEF Poll, LockMoved, LockFree, Holder, Working, Free, store, Paying, Building
    <2> QED BY <1>1, <2>1, <2>2, Quiet DEF Poll, LockMoved, node, store
  <1>2. CASE Fetch
    <2>1. chain' \subseteq Blocks /\ torn' \in BOOLEAN
      BY <1>2, CopiesType DEF Fetch, TypeOK
    <2>2. TypeOK'
      BY <1>2, <2>1 DEF Fetch, TypeOK, Free, node, store, budget
    <2>3. Holder' /\ Working'
      BY <1>2 DEF Fetch, Holder, Working, Free, store, Paying, Building
    <2> QED BY <1>2, <2>2, <2>3, Quiet DEF Fetch, node, store
  <1>5. CASE FetchFails
    <2>1. faults' \in 0..MaxFaults /\ crashes' = crashes
      BY <1>5, FaultType DEF FetchFails, TypeOK, budget
    <2>2. TypeOK'
      BY <1>5, <2>1 DEF FetchFails, TypeOK, Free, node, store
    <2>3. Holder' /\ Working'
      BY <1>5 DEF FetchFails, Holder, Working, Free, store, Paying, Building
    <2> QED BY <1>5, <2>2, <2>3, Quiet DEF FetchFails, node, store
  <1>3. CASE FollowerFailed
    <2>1. ready' \in BOOLEAN
      BY <1>3 DEF FollowerFailed
    <2>2. TypeOK'
      BY <1>3, <2>1 DEF FollowerFailed, TypeOK, Free, node, budget
    <2>3. Holder' /\ Working'
      BY <1>3 DEF FollowerFailed, LockFree, Holder, Working, Paying, Building
    <2> QED BY <1>3, <2>2, <2>3, Quiet DEF FollowerFailed, node
  <1>4. CASE Lock
    <2>1. ready' \in BOOLEAN
      BY <1>4 DEF Lock
    <2>2. /\ mem' = [mem EXCEPT !.payouts = Settle(@, chain)]
          /\ sub.phase = "idle" /\ snap = tip
          /\ idx' = 1 /\ pc' = "records"
          /\ UNCHANGED <<node, disk, recovering, feed, sub, fetched, todo, cur, budget>>
      BY <1>4 DEF Lock, LockFree
    <2>3. mem.payouts \subseteq Payout
      BY DEF TypeOK, LedgerType
    <2>4. /\ mem' \in LedgerType
          /\ mem'.records = mem.records /\ mem'.tip = mem.tip
          /\ mem'.payouts = Settle(mem.payouts, chain)
      BY <2>2, <2>3, SettleType DEF TypeOK, LedgerType
    <2>5. TypeOK'
      BY <2>1, <2>2, <2>4 DEF TypeOK, Held, node, budget
    <2>6. Holder' /\ UniqueRecords' /\ Working'
      BY <2>2, <2>4 DEF Holder, UniqueRecords, Working, Paying, Building
    <2>7. KnownIsDurable' /\ FeedIsDurable'
      BY <2>2, <2>4 DEF KnownIsDurable, FeedIsDurable
    <2>8. FeeAssignedOnce'
      <3>1. AssignedOnce(mem)'
        BY <2>2, <2>3, SettleAssigned DEF TypeOK, FeeAssignedOnce, AssignedOnce
      <3> QED BY <2>2, <3>1 DEF FeeAssignedOnce, AssignedOnce
    <2>9. SentIn(mem)' /\ SentIn(disk)'
      <3>1. ASSUME NEW s \in sent
            PROVE  \E q \in Settle(mem.payouts, chain) : q.raw = s.raw /\ q.txs = s.txs
        <4>1. PICK p \in mem.payouts : p.raw = s.raw /\ p.txs = s.txs
          BY DEF SentIn
        <4>2. p.raw # None
          BY <4>1, ChainShape DEF TypeOK, AllTxs
        <4> QED BY <2>3, <4>1, <4>2, SettleSigned
      <3> QED BY <2>2, <2>4, <3>1 DEF SentIn, node
    <2> QED BY <2>5, <2>6, <2>7, <2>8, <2>9
  <1> QED BY <1>1, <1>2, <1>3, <1>4, <1>5

\* Classifying a record preserves the invariant.
LEMMA RecordsStep == IInv /\ Records => IInv'
  <1> SUFFICES ASSUME IInv, Records PROVE IInv'
    OBVIOUS
  <1> USE DEF IInv
  <1> DEFINE old == mem.records[idx]
  <1>1. AtRecord /\ pc = "records"
    BY DEF Records, RecordIncluded, RecordConflicts, RecordRequeued, RecordFails, AtRecord
  <1>2. idx \in DOMAIN mem.records
    <2>1. idx \in Nat /\ idx >= 1 /\ idx <= Len(mem.records)
      BY <1>1 DEF AtRecord, TypeOK, Working
    <2>2. mem.records \in Seq(Record)
      BY DEF TypeOK, LedgerType
    <2> QED BY <2>1, <2>2
  <1>3. old \in Record /\ old.tx \in Txs
    BY <1>2, RecordsType DEF TypeOK
  <1>4. faults' \in 0..MaxFaults /\ crashes' = crashes
    BY FaultType DEF Records, RecordIncluded, RecordConflicts, RecordRequeued,
                     RecordFails, TypeOK, budget
  <1>5. PICK r \in Record : r.tx = old.tx /\ Classify(r)
    <2>1. CASE RecordIncluded
      <3>1. PICK b \in Latest(MinedIn(old.tx, chain)) : Classify(Included(old, b))
        BY <2>1 DEF RecordIncluded
      <3>2. b \in Blocks
        BY <3>1 DEF Latest, MinedIn, TypeOK
      <3>3. Included(old, b) \in Record /\ Included(old, b).tx = old.tx
        BY <1>3, <3>2 DEF Included, Record
      <3> QED BY <3>1, <3>3
    <2>2. CASE RecordConflicts \/ RecordFails
      BY <2>2, <1>3 DEF RecordConflicts, RecordFails, Lapsed, Record
    <2>3. CASE RecordRequeued
      BY <2>3, <1>3 DEF RecordRequeued, Requeued, Record
    <2> QED BY <2>1, <2>2, <2>3 DEF Records
  <1>6. /\ mem' = [mem EXCEPT !.records[idx] = r]
        /\ idx' = idx + 1
        /\ UNCHANGED <<node, disk, ready, recovering, feed, sub, pc, fetched, todo, cur>>
    BY <1>5 DEF Classify
  <1>7. /\ mem' \in LedgerType /\ UniqueRecords'
        /\ Accepted(mem'.records) = Accepted(mem.records)
        /\ mem'.tip = mem.tip /\ mem'.payouts = mem.payouts
    BY <1>2, <1>5, <1>6, ClassifyRecords DEF TypeOK
  <1>8. TypeOK'
    BY <1>4, <1>6, <1>7 DEF TypeOK, node
  <1>9. Holder' /\ Working'
    BY <1>1, <1>6 DEF Holder, Working, Free, TypeOK, Paying, Building
  <1>10. KnownIsDurable' /\ FeedIsDurable'
    BY <1>6, <1>7 DEF KnownIsDurable, FeedIsDurable
  <1>11. FeeAssignedOnce' /\ SentIn(mem)' /\ SentIn(disk)'
    BY <1>6, <1>7 DEF FeeAssignedOnce, AssignedOnce, SentIn, node
  <1> QED BY <1>7, <1>8, <1>9, <1>10, <1>11

\* Saving the reconciled ledger preserves the invariant.
LEMMA ReconcileStep == IInv /\ Reconcile => IInv'
  <1> SUFFICES ASSUME IInv, Reconcile PROVE IInv'
    OBVIOUS
  <1> USE DEF IInv
  <1>1. /\ Reconciled \in LedgerType
        /\ Reconciled.tip = snap /\ Reconciled.records = mem.records
        /\ Reconciled.payouts = mem.payouts \cup NewPayouts(mem.records, mem.payouts)
    BY NewPayoutsType DEF Reconciled, TypeOK, LedgerType
  <1>2. AssignedOnce(Reconciled)
    <2>1. snap \in Blocks /\ mem \in LedgerType /\ AssignedOnce(mem)
      BY DEF TypeOK, FeeAssignedOnce
    <2> QED BY <2>1, NewPayoutsAssigned DEF Reconciled, UniqueRecords
  <1>3. /\ mem' = Reconciled /\ pc = "records"
        /\ UNCHANGED <<node, sub, fetched, idx, cur>>
    BY DEF Reconcile, Save
  <1>4. UniqueRecords' /\ SentIn(mem)' /\ AssignedOnce(mem)' /\ sub.phase = "idle"
    BY <1>1, <1>2, <1>3 DEF UniqueRecords, SentIn, AssignedOnce, node, Holder, Free
  <1>5. CASE disk' = Reconciled /\ pc' = "pay" /\ UNCHANGED budget
    <2>1. /\ ready' = TRUE /\ recovering' = FALSE
          /\ feed' = PendingOf(Reconciled)
          /\ todo' = {p \in Reconciled.payouts : Due(p, snap)}
      BY <1>5 DEF Reconcile
    <2>2. ready' \in BOOLEAN /\ recovering' \in BOOLEAN
      BY <2>1
    <2>3. feed'.tip \in Blocks \cup {None}
      BY <1>1, <2>1 DEF PendingOf, NoSnapshot, TypeOK
    <2>4. todo' \subseteq Payout /\ todo' \subseteq mem'.payouts
      BY <1>1, <1>3, <2>1 DEF LedgerType
    <2>5. TypeOK'
      BY <1>1, <1>3, <1>5, <2>2, <2>3, <2>4 DEF TypeOK, Held, node, budget
    <2>6. Holder' /\ Working'
      BY <1>3, <1>4, <1>5, <2>4 DEF Holder, Working, Paying, Building
    <2>7. KnownIsDurable' /\ FeedIsDurable'
      BY <1>3, <1>5, <2>1 DEF KnownIsDurable, FeedIsDurable
    <2>8. FeeAssignedOnce' /\ SentIn(disk)'
      BY <1>3, <1>4, <1>5 DEF FeeAssignedOnce, AssignedOnce, SentIn
    <2> QED BY <1>4, <2>5, <2>6, <2>7, <2>8
  <1>6. CASE Fault("save") /\ pc' = "failed" /\ UNCHANGED disk
    <2>1. UNCHANGED <<ready, recovering, feed, todo>>
      BY <1>6 DEF Reconcile
    <2>2. faults' \in 0..MaxFaults /\ crashes' = crashes
      BY <1>6, FaultType
    <2>3. TypeOK'
      BY <1>1, <1>3, <1>6, <2>1, <2>2 DEF TypeOK, Free, node
    <2>4. Holder' /\ Working'
      BY <1>3, <1>4, <1>6 DEF Holder, Working, Paying, Building
    <2>5. KnownIsDurable' /\ FeedIsDurable'
      BY <1>1, <1>3, <1>6, <2>1 DEF KnownIsDurable, FeedIsDurable
    <2>6. FeeAssignedOnce' /\ SentIn(disk)'
      BY <1>3, <1>4, <1>6 DEF FeeAssignedOnce, AssignedOnce, SentIn, node
    <2> QED BY <1>4, <2>3, <2>4, <2>5, <2>6
  <1> QED BY <1>5, <1>6 DEF Reconcile, Save

\* The payout loop preserves the invariant where it changes no ledger.
LEMMA PayControlStep ==
  ASSUME IInv,
         \/ \E p \in todo : PayNext(p)
         \/ PayDone \/ BuildFails \/ RecheckFails \/ Recheck
         \/ NotInMempool \/ SendRejected
  PROVE  IInv'
  <1> USE DEF IInv
  <1>1. UNCHANGED <<node, store, sub, fetched, idx>>
    BY DEF PayNext, PayDone, BuildFails, RecheckFails, Recheck, NotInMempool, SendRejected
  <1>2. faults' \in 0..MaxFaults /\ crashes' \in 0..MaxCrashes
    BY FaultType DEF PayNext, PayDone, BuildFails, RecheckFails, Recheck, NotInMempool,
                     SendRejected, TypeOK, budget
  <1>3. /\ pc' \in Free \cup Held
        /\ todo' \subseteq Payout /\ cur' \in Payout \cup {None}
    BY DEF PayNext, PayDone, BuildFails, RecheckFails, Recheck, NotInMempool,
           SendRejected, TypeOK, Free, Held
  <1>4. TypeOK'
    BY <1>1, <1>2, <1>3 DEF TypeOK, node, store
  <1>5. Holder'
    <2>1. sub.phase = "idle"
      BY DEF PayNext, PayDone, BuildFails, RecheckFails, Recheck, NotInMempool,
             SendRejected, Holder, LockFree, Free
    <2> QED BY <1>1, <2>1 DEF Holder
  <1>6. Working'
    BY <1>1 DEF PayNext, PayDone, BuildFails, RecheckFails, Recheck, NotInMempool,
                SendRejected, Working, store, Paying, Building
  <1> QED BY <1>1, <1>4, <1>5, <1>6, Quiet DEF node, store

\* Saving a ledger in which the payout at hand is replaced by p, that covers
\* the same transactions and has the bytes the payout at hand may have.
LEMMA SavePayout ==
  ASSUME IInv, sub.phase = "idle", pc \in Building,
         NEW p \in Payout, p.txs = cur.txs,
         cur.raw # None => p.raw = cur.raw,
         NEW next \in {"pay", "recheck"}, Save(With(p), next),
         cur' \in {cur, p}, next = "recheck" => cur' = p /\ p.raw # None,
         UNCHANGED <<node, ready, recovering, feed, sub, fetched, idx, todo>>
  PROVE  IInv'
  <1> USE DEF IInv
  <1>1. /\ mem = disk /\ todo \subseteq mem.payouts
        /\ cur \in mem.payouts /\ cur \notin todo
    BY DEF Working, Building, Paying
  <1>2. cur \in Payout
    BY <1>1 DEF TypeOK, LedgerType
  <1>3. /\ mem' = With(p) /\ mem' \in LedgerType
        /\ AssignedOnce(mem')
        /\ mem'.records = mem.records /\ mem'.tip = mem.tip
        /\ mem'.payouts = (mem.payouts \ {cur}) \cup {p}
    BY <1>1, WithAssigned DEF Save, TypeOK, FeeAssignedOnce
  <1>4. disk' \in {disk, mem'} /\ pc' \in {next, "failed"}
    BY <1>3 DEF Save
  <1>5. faults' \in 0..MaxFaults /\ crashes' = crashes
    BY FaultType DEF Save, TypeOK, budget
  <1>6. TypeOK'
    BY <1>2, <1>3, <1>4, <1>5 DEF TypeOK, Free, Held, node
  <1>7. Holder' /\ UniqueRecords'
    BY <1>3 DEF Holder, UniqueRecords
  <1>8. Working'
    <2>1. pc' = next => disk' = mem'
      BY <1>3 DEF Save
    <2>2. todo' \subseteq mem'.payouts
      BY <1>1, <1>3
    <2>3. next = "recheck" => p \in mem'.payouts /\ p \notin todo
      <3>1. ASSUME next = "recheck", p \in todo PROVE FALSE
        <4>1. p \in mem.payouts /\ p # cur
          BY <1>1, <3>1
        <4>2. p.txs \cap cur.txs # {}
          BY DEF Payout
        <4> QED BY <1>1, <4>1, <4>2 DEF FeeAssignedOnce, AssignedOnce
      <3> QED BY <1>3, <3>1
    <2> QED BY <1>4, <2>1, <2>2, <2>3 DEF Working, Paying, Building
  <1>9. KnownIsDurable' /\ FeedIsDurable'
    <2>1. PendingOf(disk') = PendingOf(disk)
      BY <1>1, <1>3, <1>4, PendingOfCongruence
    <2> QED BY <1>1, <1>3, <1>4, <2>1 DEF KnownIsDurable, FeedIsDurable
  <1>10. FeeAssignedOnce'
    BY <1>3, <1>4 DEF FeeAssignedOnce, AssignedOnce
  <1>11. SentIn(mem)' /\ SentIn(disk)'
    <2>1. ASSUME NEW s \in sent PROVE \E q \in mem'.payouts : q.raw = s.raw /\ q.txs = s.txs
      <3>1. PICK q \in mem.payouts : q.raw = s.raw /\ q.txs = s.txs
        BY DEF SentIn
      <3>2. CASE q = cur
        BY <3>1, <3>2, <1>3, ChainShape DEF TypeOK, AllTxs
      <3>3. CASE q # cur
        BY <3>1, <3>3, <1>3
      <3> QED BY <3>2, <3>3
    <2> QED BY <1>4, <2>1 DEF SentIn, node
  <1> QED BY <1>6, <1>7, <1>8, <1>9, <1>10, <1>11

\* The steps of the payout loop that save the payout at hand.
LEMMA PaySaveStep ==
  ASSUME IInv,
         \/ \E q \in PayTxs : Sign(q)
         \/ RecheckGone \/ RecheckExpired \/ InMempool \/ RecordSent
  PROVE  IInv'
  <1> USE DEF IInv
  <1>0. sub.phase = "idle" /\ pc \in Building
    BY DEF Sign, LockFree, RecheckGone, RecheckExpired, InMempool, RecordSent,
           Holder, Free, Building
  <1>1. cur \in Payout
    BY <1>0 DEF Working, Building, TypeOK, LedgerType
  <1>2. ASSUME NEW q \in PayTxs, Sign(q) PROVE IInv'
    <2> DEFINE p == [cur EXCEPT !.raw = q]
    <2>1. p \in Payout /\ p.txs = cur.txs /\ p.raw = q /\ q # None
      BY <1>1, ChainShape DEF Payout, AllTxs
    <2>2. cur.raw = None /\ Save(With(p), "recheck") /\ cur' = p
      BY <1>2 DEF Sign, Working
    <2>3. UNCHANGED <<node, ready, recovering, feed, sub, fetched, idx, todo>>
      BY <1>2 DEF Sign
    <2> QED BY <1>0, <2>1, <2>2, <2>3, SavePayout
  <1>3. CASE RecheckGone \/ RecheckExpired
    <2> DEFINE p == [cur EXCEPT !.status = "blocked"]
    <2>1. p \in Payout /\ p.txs = cur.txs /\ p.raw = cur.raw
      BY <1>1 DEF Payout
    <2>2. /\ Save(With(p), "pay")
          /\ UNCHANGED <<node, ready, recovering, feed, sub, fetched, idx, todo, cur>>
      BY <1>3 DEF RecheckGone, RecheckExpired, Block
    <2> QED BY <1>0, <2>1, <2>2, SavePayout
  <1>4. CASE InMempool \/ RecordSent
    <2> DEFINE p == [cur EXCEPT !.status = "broadcast"]
    <2>1. p \in Payout /\ p.txs = cur.txs /\ p.raw = cur.raw
      BY <1>1 DEF Payout
    <2>2. UNCHANGED <<node, ready, recovering, feed, sub, fetched, idx, todo, cur>>
      BY <1>4 DEF InMempool, RecordSent
    <2>3. CASE Save(With(p), "pay")
      BY <1>0, <2>1, <2>2, <2>3, SavePayout
    <2>4. CASE pc' = "pay" /\ UNCHANGED <<mem, disk, budget>>
      <3>1. TypeOK'
        BY <2>2, <2>4 DEF TypeOK, Held, node, budget
      <3>2. Holder' /\ Working'
        BY <1>0, <2>2, <2>4 DEF Holder, Working, Building, Paying
      <3> QED BY <2>2, <2>4, <3>1, <3>2, Quiet DEF node
    <2> QED BY <1>4, <2>3, <2>4 DEF InMempool, RecordSent
  <1> QED BY <1>2, <1>3, <1>4

\* Handing a payout to the node preserves the invariant.
LEMMA SendStep ==
  ASSUME IInv, Send \/ SendReplyLost
  PROVE  IInv'
  <1> USE DEF IInv
  <1>1. /\ pc = "send" /\ pc' \in {"sent", "pay"}
        /\ UNCHANGED <<store, sub, fetched, idx, todo, cur, tip>>
        /\ mempool' = mempool \cup {cur.raw}
        /\ sent' = sent \cup {[raw |-> cur.raw, txs |-> cur.txs]}
    BY DEF Send, SendReplyLost, Broadcast
  <1>2. /\ mem = disk /\ cur \in mem.payouts /\ cur \notin todo
        /\ todo \subseteq mem.payouts /\ cur.raw # None
    BY <1>1 DEF Working, Paying, Building
  <1>3. cur.raw \in PayTxs /\ cur.txs \in SUBSET Txs
    BY <1>2 DEF TypeOK, LedgerType, Payout
  <1>4. faults' \in 0..MaxFaults /\ crashes' = crashes
    BY FaultType DEF Send, SendReplyLost, TypeOK, budget
  <1>5. TypeOK'
    BY <1>1, <1>3, <1>4 DEF TypeOK, Held, store
  <1>6. Holder' /\ UniqueRecords' /\ Working'
    BY <1>1, <1>2 DEF Holder, UniqueRecords, Working, Free, store
  <1>7. KnownIsDurable' /\ FeedIsDurable'
    BY <1>1 DEF KnownIsDurable, FeedIsDurable, store
  <1>8. FeeAssignedOnce'
    BY <1>1 DEF FeeAssignedOnce, AssignedOnce, store
  <1>9. SentIn(mem)' /\ SentIn(disk)'
    BY <1>1, <1>2 DEF SentIn, store
  <1> QED BY <1>5, <1>6, <1>7, <1>8, <1>9

\* The payout loop preserves the invariant.
LEMMA PayoutsStep == IInv /\ Payouts => IInv'
  BY PayControlStep, PaySaveStep, SendStep DEF Payouts

\* A moving chain and a crash preserve the invariant.
LEMMA EnvironmentStep == IInv /\ Environment => IInv'
  <1> SUFFICES ASSUME IInv, Environment PROVE IInv'
    OBVIOUS
  <1> USE DEF IInv
  <1>1. ASSUME NEW b \in Blocks, NodeMove(b) PROVE IInv'
    <2>1. TypeOK'
      BY <1>1 DEF NodeMove, TypeOK, store, follower, budget
    <2>2. Holder' /\ Working'
      BY <1>1 DEF NodeMove, Holder, Working, store, follower
    <2> QED BY <1>1, <2>1, <2>2, Quiet DEF NodeMove, store
  <1>2. ASSUME NEW b \in Blocks, Crash(b) PROVE IInv'
    <2>1. crashes' \in 0..MaxCrashes
      BY <1>2, ServiceParams DEF Crash, TypeOK
    <2>2. ready' \in BOOLEAN /\ recovering' \in BOOLEAN
      BY <1>2 DEF Crash
    <2>3. tip' \in Blocks /\ snap' \in Blocks /\ chain' \subseteq Blocks /\ torn' \in BOOLEAN
      BY <1>2, ChainShape DEF Crash
    <2>4. /\ mem' = disk /\ disk' = disk /\ feed' = NoSnapshot /\ sub' = NoSub
          /\ pc' = "idle" /\ idx' = 0 /\ todo' = {} /\ cur' = None
          /\ mempool' = {} /\ sent' = sent /\ faults' = faults
      BY <1>2 DEF Crash
    <2>5. TypeOK'
      BY <2>1, <2>2, <2>3, <2>4 DEF TypeOK, NoSub, Free, NoSnapshot
    <2>6. Holder' /\ Working'
      BY <2>4 DEF Holder, Working, NoSub, Paying, Building
    <2>7. UniqueRecords'
      BY <2>4 DEF UniqueRecords, KnownIsDurable, Accepted
    <2>8. KnownIsDurable' /\ FeedIsDurable'
      BY <2>4 DEF KnownIsDurable, FeedIsDurable, NoSnapshot
    <2>9. FeeAssignedOnce' /\ SentIn(mem)' /\ SentIn(disk)'
      BY <2>4 DEF FeeAssignedOnce, AssignedOnce, SentIn
    <2> QED BY <2>5, <2>6, <2>7, <2>8, <2>9
  <1> QED BY <1>1, <1>2 DEF Environment

\* Every step preserves the invariant.
LEMMA NextIInv == IInv /\ [Next]_vars => IInv'
  <1>1. ASSUME IInv, UNCHANGED vars PROVE IInv'
    BY <1>1 DEF vars, node, store, follower, budget, IInv, TypeOK, Holder, UniqueRecords,
                Working, KnownIsDurable, FeedIsDurable, FeeAssignedOnce, AssignedOnce, SentIn
  <1> QED BY <1>1, SubmissionStep, FollowStep, RecordsStep, ReconcileStep, PayoutsStep,
             EnvironmentStep DEF Next, Follower

----------------------------------------------------------------------------
(* The promises.                                                            *)

\* The service always satisfies its inductive invariant.
THEOREM Invariance == Spec => []IInv
  BY InitIInv, NextIInv, PTL DEF Spec

\* Every variable has its type.
THEOREM TypeCorrect == Spec => []TypeOK
  <1>1. IInv => TypeOK
    BY DEF IInv
  <1> QED BY <1>1, Invariance, PTL

\* Miners are only given what is durably accepted.
THEOREM FeedDurable == Spec => []FeedIsDurable
  <1>1. IInv => FeedIsDurable
    BY DEF IInv
  <1> QED BY <1>1, Invariance, PTL

\* Every transaction the service answers for is in the database.
THEOREM KnownDurable == Spec => []KnownIsDurable
  <1>1. IInv => KnownIsDurable
    BY DEF IInv
  <1> QED BY <1>1, Invariance, PTL

\* No two payouts cover the same transaction.
THEOREM AssignedAtMostOnce == Spec => []FeeAssignedOnce
  <1>1. IInv => FeeAssignedOnce
    BY DEF IInv
  <1> QED BY <1>1, Invariance, PTL

\* What the node was given is in the database.
THEOREM SentDurable == Spec => []SentIsSigned
  <1>1. IInv => SentIsSigned
    BY DEF IInv, SentIsSigned
  <1> QED BY <1>1, Invariance, PTL

\* No fee is paid out by two payout transactions, whatever the chain does and
\* whatever fails or crashes: each of them is in the database with its
\* transactions, where no two payouts share any.
THEOREM PaidAtMostOnce == Spec => []PaidOnce
  <1>1. IInv => PaidOnce
    <2> SUFFICES ASSUME IInv, NEW s \in sent, NEW u \in sent, s.txs \cap u.txs # {}
                 PROVE  s = u
      BY DEF PaidOnce
    <2>1. PICK p \in disk.payouts : p.raw = s.raw /\ p.txs = s.txs
      BY DEF IInv, SentIn
    <2>2. PICK q \in disk.payouts : q.raw = u.raw /\ q.txs = u.txs
      BY DEF IInv, SentIn
    <2>3. p = q
      BY <2>1, <2>2 DEF IInv, FeeAssignedOnce, AssignedOnce
    <2> QED BY <2>1, <2>2, <2>3 DEF IInv, TypeOK
  <1> QED BY <1>1, Invariance, PTL

----------------------------------------------------------------------------
(* Receipts.                                                                *)

\* The accepted transactions of a ledger are a sequence.
LEMMA AcceptedType ==
  ASSUME NEW l \in LedgerType
  PROVE  /\ Accepted(l.records) \in Seq(Txs)
         /\ Len(Accepted(l.records)) = Len(l.records)
  <1>1. l.records \in Seq(Record)
    BY DEF LedgerType
  <1>2. DOMAIN l.records = 1..Len(l.records) /\ Len(l.records) \in Nat
    BY <1>1
  <1>3. \A i \in DOMAIN l.records : l.records[i].tx \in Txs
    BY RecordsType
  <1>4. Accepted(l.records) \in [1..Len(l.records) -> Txs]
    BY <1>2, <1>3 DEF Accepted
  <1> QED BY <1>2, <1>4

\* A sequence is a prefix of itself and of what is appended to it.
LEMMA PrefixAppend ==
  ASSUME NEW S, NEW s \in Seq(S), NEW x \in S
  PROVE  IsPrefix(s, s) /\ IsPrefix(s, Append(s, x))
  <1>1. IsPrefix(s, s)
    BY DEF IsPrefix
  <1> DEFINE t == Append(s, x)
             n == Len(s)
  <1>2. n \in Nat /\ t \in Seq(S) /\ Len(t) = n + 1 /\ \A i \in 1..n : t[i] = s[i]
    OBVIOUS
  <1>3. SubSeq(s, 1, n) = s
    BY SubSeqFull
  <1>4. SubSeq(t, 1, n) = s
    <2>1. /\ SubSeq(t, 1, n) \in Seq(S)
          /\ Len(SubSeq(t, 1, n)) = n
          /\ \A i \in 1..n : SubSeq(t, 1, n)[i] = t[i]
      BY <1>2
    <2> QED BY <1>2, <2>1
  <1>5. IsPrefix(s, t)
    BY <1>2, <1>3, <1>4 DEF IsPrefix
  <1> QED BY <1>1, <1>5

\* A submission that is saved adds its transaction at the end.
LEMMA CommitAppends ==
  ASSUME IInv, SubmitCommit
  PROVE  /\ sub.tx \in Txs
         /\ Accepted(disk'.records) = Append(Accepted(disk.records), sub.tx)
  <1> DEFINE t == sub.tx
  <1>1. /\ t \in Txs /\ t \notin TxsOf(mem.records) /\ mem \in LedgerType /\ UniqueRecords
        /\ disk' = mem' /\ mem' = [mem EXCEPT !.records = Append(@, NewRecord(t))]
    BY DEF IInv, TypeOK, Holder, SubmitCommit
  <1>2. mem'.records = Append(mem.records, NewRecord(t))
    BY <1>1, AppendRecord
  <1>3. /\ mem.records \in Seq(Record) /\ NewRecord(t) \in Record
        /\ NewRecord(t).tx = t
    BY <1>1 DEF LedgerType, NewRecord, Record
  <1> DEFINE n == Len(mem.records)
             old == Accepted(mem.records)
             new == Accepted(Append(mem.records, NewRecord(t)))
  <1>4. old \in Seq(Txs) /\ Len(old) = n
    BY <1>1, AcceptedType
  <1>5. new = [i \in 1..(n + 1) |-> IF i <= n THEN old[i] ELSE t]
    BY <1>3 DEF Accepted
  <1>6. Append(old, t) = [i \in 1..(n + 1) |-> IF i <= n THEN old[i] ELSE t]
    BY <1>1, <1>4
  <1> QED BY <1>1, <1>2, <1>5, <1>6 DEF IInv, KnownIsDurable

\* The reconciled ledger has the records and the payouts it was made of.
LEMMA ReconciledKeeps ==
  ASSUME mem \in LedgerType
  PROVE  Reconciled.records = mem.records /\ mem.payouts \subseteq Reconciled.payouts
  BY DEF Reconciled, LedgerType

\* The ledger in which the payout at hand is replaced by p.
LEMMA WithKeeps ==
  ASSUME mem \in LedgerType, NEW p
  PROVE  With(p).records = mem.records /\ With(p).payouts = (mem.payouts \ {cur}) \cup {p}
  BY DEF With, LedgerType

\* The follower saves a ledger only with the records it has in memory.
LEMMA FollowerSaves ==
  ASSUME IInv, Follower
  PROVE  disk' = disk \/ disk'.records = mem.records
  <1> USE DEF IInv, TypeOK
  <1>1. CASE Poll \/ Fetch \/ FetchFails \/ Lock \/ LockMoved \/ FollowerFailed
    BY <1>1 DEF Poll, Fetch, FetchFails, Lock, LockMoved, FollowerFailed, store
  <1>2. CASE Records
    BY <1>2 DEF Records, RecordIncluded, RecordConflicts, RecordRequeued, RecordFails, Classify
  <1>3. CASE Reconcile
    BY <1>3, ReconciledKeeps DEF Reconcile, Save
  <1>4. CASE \/ \E p \in todo : PayNext(p)
             \/ PayDone \/ BuildFails \/ RecheckFails \/ Recheck
             \/ NotInMempool \/ SendRejected \/ Send \/ SendReplyLost
    BY <1>4 DEF PayNext, PayDone, BuildFails, RecheckFails, Recheck, NotInMempool,
                SendRejected, Send, SendReplyLost, store
  <1>5. CASE \/ \E q \in PayTxs : Sign(q)
             \/ RecheckGone \/ RecheckExpired \/ InMempool \/ RecordSent
    BY <1>5, WithKeeps DEF Sign, RecheckGone, RecheckExpired, Block, InMempool,
                           RecordSent, Save
  <1> QED BY <1>1, <1>2, <1>3, <1>4, <1>5 DEF Follower, Payouts

\* No step takes an accepted transaction out of the database or moves it.
LEMMA AcceptedStep ==
  ASSUME IInv, [Next]_vars
  PROVE  IsPrefix(Accepted(disk.records), Accepted(disk'.records))
  <1>1. Accepted(disk.records) \in Seq(Txs)
    BY AcceptedType DEF IInv, TypeOK
  <1>2. CASE Accepted(disk'.records) = Accepted(disk.records)
    <2>1. IsPrefix(Accepted(disk.records), Accepted(disk.records))
      BY <1>1 DEF IsPrefix
    <2> QED BY <1>2, <2>1
  <1>3. CASE SubmitCommit
    BY <1>1, <1>3, CommitAppends, PrefixAppend
  <1>4. CASE Follower
    <2>1. Accepted(disk'.records) = Accepted(disk.records)
      BY <1>4, FollowerSaves DEF IInv, KnownIsDurable
    <2> QED BY <1>2, <2>1
  <1>5. CASE UNCHANGED disk
    BY <1>2, <1>5
  <1> QED BY <1>3, <1>4, <1>5
          DEF Next, Submission, Environment, SubmitBegin, SubmitVerified, SubmitDropped,
              SubmitRefused, SubmitSaveFails, NodeMove, Crash, vars, store

\* A receipt is for ever: no reorganisation, failure or restart takes an
\* accepted transaction out of the database or reorders it.
THEOREM ReceiptsKept == Spec => AcceptedForever
  <1>1. IInv /\ [Next]_vars
           => [IsPrefix(Accepted(disk.records), Accepted(disk'.records))]_vars
    BY AcceptedStep
  <1> QED BY <1>1, Invariance, PTL DEF Spec, AcceptedForever

----------------------------------------------------------------------------
(* Signed payouts.                                                          *)

\* Carries is reflexive, transitive and respects inclusion.
LEMMA CarriesOrder ==
  /\ \A S, T : S \subseteq T => Carries(S, T)
  /\ \A S, T, U : Carries(S, T) /\ Carries(T, U) => Carries(S, U)
  <1>1. \A S, T : S \subseteq T => Carries(S, T)
    BY DEF Carries
  <1>2. ASSUME NEW S, NEW T, NEW U, Carries(S, T), Carries(T, U)
        PROVE  Carries(S, U)
    <2> SUFFICES ASSUME NEW p \in S, p.raw # None
                 PROVE  \E r \in U :
                           /\ r.raw = p.raw /\ r.txs = p.txs /\ r.block = p.block
                           /\ p.status = "blocked" => r.status = "blocked"
      BY DEF Carries
    <2>1. PICK q \in T :
             /\ q.raw = p.raw /\ q.txs = p.txs /\ q.block = p.block
             /\ p.status = "blocked" => q.status = "blocked"
      BY <1>2 DEF Carries
    <2>2. PICK r \in U :
             /\ r.raw = q.raw /\ r.txs = q.txs /\ r.block = q.block
             /\ q.status = "blocked" => r.status = "blocked"
      BY <1>2, <2>1 DEF Carries
    <2> QED BY <2>1, <2>2
  <1> QED BY <1>1, <1>2

\* The control state Carried speaks of: what the follower works on is not set
\* aside.
WorksOnLive ==
  /\ \A p \in todo : p.status # "blocked"
  /\ pc \in Building => cur.status # "blocked"

\* A step whose new ledger in memory carries the payouts of the old one, and
\* that saves it or leaves the database alone.
LEMMA CarryStep ==
  ASSUME Carried, Carries(mem.payouts, mem'.payouts),
         disk'.payouts = disk.payouts \/ disk'.payouts = mem'.payouts,
         WorksOnLive'
  PROVE  Carried' /\ Carries(disk.payouts, disk'.payouts)
  <1>1. Carries(disk.payouts, mem'.payouts)
    BY CarriesOrder DEF Carried
  <1>2. Carries(disk.payouts, disk'.payouts) /\ Carries(disk'.payouts, mem'.payouts)
    BY <1>1, CarriesOrder
  <1> QED BY <1>2 DEF Carried, WorksOnLive, Building, Carries

\* Submissions change no payout, and the follower only in some steps.
LEMMA UntouchedStep ==
  ASSUME IInv, Carried,
         \/ UNCHANGED vars
         \/ Submission \/ Poll \/ Fetch \/ FetchFails \/ LockMoved \/ FollowerFailed \/ Records
         \/ Send \/ SendReplyLost
         \/ \E b \in Blocks : NodeMove(b)
  PROVE  Carried' /\ Carries(disk.payouts, disk'.payouts)
  <1>1. mem'.payouts = mem.payouts /\ disk'.payouts \in {disk.payouts, mem'.payouts}
    <2>1. CASE SubmitCommit
      BY <2>1 DEF SubmitCommit, IInv, TypeOK, LedgerType
    <2>2. CASE Records
      BY <2>2 DEF Records, RecordIncluded, RecordConflicts, RecordRequeued, RecordFails,
                  Classify, IInv, TypeOK, LedgerType
    <2>3. CASE UNCHANGED <<mem, disk>>
      BY <2>3
    <2> QED BY <2>1, <2>2, <2>3
            DEF vars, Submission, SubmitBegin, SubmitVerified, SubmitDropped, SubmitRefused,
                SubmitSaveFails, Poll, Fetch, FetchFails, LockMoved, FollowerFailed, Send,
                SendReplyLost, NodeMove, store
  <1>2. WorksOnLive'
    BY DEF Carried, WorksOnLive, Building, vars, Submission, SubmitBegin, SubmitVerified,
           SubmitDropped, SubmitRefused, SubmitCommit, SubmitSaveFails, Poll, Fetch, FetchFails,
           LockMoved, FollowerFailed, Records, RecordIncluded, RecordConflicts,
           RecordRequeued, RecordFails, AtRecord, Classify, Send, SendReplyLost, NodeMove,
           follower
  <1>3. Carries(mem.payouts, mem'.payouts)
    BY <1>1, CarriesOrder
  <1> QED BY <1>1, <1>2, <1>3, CarryStep

\* Settling carries the payouts over to the new chain.
LEMMA LockStep ==
  ASSUME IInv, Carried, Lock
  PROVE  Carried' /\ Carries(disk.payouts, disk'.payouts)
  <1>1. /\ mem.payouts \in SUBSET Payout
        /\ mem' = [mem EXCEPT !.payouts = Settle(@, chain)] /\ mem \in LedgerType
    BY DEF IInv, TypeOK, LedgerType, Lock
  <1>2. mem'.payouts = Settle(mem.payouts, chain)
    BY <1>1 DEF LedgerType
  <1>3. Carries(mem.payouts, mem'.payouts)
    BY <1>1, <1>2, SettleSigned DEF Carries
  <1>4. WorksOnLive'
    BY DEF Lock, Carried, WorksOnLive, Building
  <1> QED BY <1>3, <1>4, CarryStep DEF Lock

\* A reconciliation adds payouts and turns to the due ones.
LEMMA ReconcileCarries ==
  ASSUME IInv, Carried, Reconcile
  PROVE  Carried' /\ Carries(disk.payouts, disk'.payouts)
  <1>1. mem' = Reconciled /\ disk' \in {disk, mem'} /\ mem \in LedgerType
    BY DEF Reconcile, Save, IInv, TypeOK
  <1>2. Carries(mem.payouts, mem'.payouts)
    BY <1>1, ReconciledKeeps, CarriesOrder
  <1>3. WorksOnLive'
    <2>1. pc' \notin Building
      BY DEF Reconcile, Save, Building
    <2>2. todo' = todo \/ todo' = {p \in Reconciled.payouts : Due(p, snap)}
      BY DEF Reconcile
    <2>3. \A p \in todo' : p.status # "blocked"
      BY <2>2 DEF Due, Carried
    <2> QED BY <2>1, <2>3 DEF WorksOnLive
  <1> QED BY <1>1, <1>2, <1>3, CarryStep

\* The payout loop where it changes no ledger.
LEMMA PayControlCarries ==
  ASSUME IInv, Carried,
         \/ \E p \in todo : PayNext(p)
         \/ PayDone \/ BuildFails \/ RecheckFails \/ Recheck
         \/ NotInMempool \/ SendRejected
  PROVE  Carried' /\ Carries(disk.payouts, disk'.payouts)
  <1>1. UNCHANGED <<mem, disk>>
    BY DEF PayNext, PayDone, BuildFails, RecheckFails, Recheck, NotInMempool,
           SendRejected, store
  <1>2. WorksOnLive'
    BY DEF PayNext, PayDone, BuildFails, RecheckFails, Recheck, NotInMempool,
           SendRejected, Carried, WorksOnLive, Building
  <1>3. Carries(mem.payouts, mem'.payouts)
    BY <1>1, CarriesOrder
  <1> QED BY <1>1, <1>2, <1>3, CarryStep

\* Saving a ledger in which p stands for the payout at hand, with its bytes if
\* it has any.
LEMMA SaveCarries ==
  ASSUME IInv, Carried, pc \in Building,
         NEW p, p.txs = cur.txs, p.block = cur.block,
         cur.raw # None => p.raw = cur.raw,
         NEW next \in {"pay", "recheck"}, Save(With(p), next), todo' = todo,
         next = "recheck" => cur'.status # "blocked"
  PROVE  Carried' /\ Carries(disk.payouts, disk'.payouts)
  <1>1. /\ mem \in LedgerType /\ cur.status # "blocked"
        /\ mem' = With(p) /\ disk' \in {disk, mem'} /\ pc' \in {next, "failed"}
    BY DEF IInv, TypeOK, Carried, Building, Save
  <1>2. mem'.payouts = (mem.payouts \ {cur}) \cup {p}
    BY <1>1, WithKeeps
  <1>3. Carries(mem.payouts, mem'.payouts)
    BY <1>1, <1>2 DEF Carries
  <1>4. WorksOnLive'
    BY <1>1 DEF Carried, WorksOnLive, Building
  <1> QED BY <1>1, <1>3, <1>4, CarryStep

\* The payout loop where it saves the payout at hand.
LEMMA PaySaveCarries ==
  ASSUME IInv, Carried,
         \/ \E q \in PayTxs : Sign(q)
         \/ RecheckGone \/ RecheckExpired \/ InMempool \/ RecordSent
  PROVE  Carried' /\ Carries(disk.payouts, disk'.payouts)
  <1>1. pc \in Building
    BY DEF Sign, RecheckGone, RecheckExpired, InMempool, RecordSent, Building
  <1>2. cur \in Payout /\ cur.status # "blocked"
    BY <1>1 DEF IInv, Working, Building, TypeOK, LedgerType, Carried
  <1>3. ASSUME NEW q \in PayTxs, Sign(q)
        PROVE  Carried' /\ Carries(disk.payouts, disk'.payouts)
    <2> DEFINE p == [cur EXCEPT !.raw = q]
    <2>1. p.txs = cur.txs /\ p.block = cur.block /\ p.status = cur.status
      BY <1>2 DEF Payout
    <2>2. cur.raw = None /\ Save(With(p), "recheck") /\ cur' = p /\ todo' = todo
      BY <1>3 DEF Sign, IInv, Working
    <2> QED BY <1>1, <1>2, <2>1, <2>2, SaveCarries
  <1>4. CASE RecheckGone \/ RecheckExpired
    <2> DEFINE p == [cur EXCEPT !.status = "blocked"]
    <2>1. p.txs = cur.txs /\ p.block = cur.block /\ p.raw = cur.raw
      BY <1>2 DEF Payout
    <2>2. Save(With(p), "pay") /\ todo' = todo
      BY <1>4 DEF RecheckGone, RecheckExpired, Block
    <2> QED BY <1>1, <2>1, <2>2, SaveCarries
  <1>5. CASE InMempool \/ RecordSent
    <2> DEFINE p == [cur EXCEPT !.status = "broadcast"]
    <2>1. p.txs = cur.txs /\ p.block = cur.block /\ p.raw = cur.raw
      BY <1>2 DEF Payout
    <2>2. UNCHANGED <<todo, cur>>
      BY <1>5 DEF InMempool, RecordSent
    <2>3. CASE Save(With(p), "pay")
      BY <1>1, <2>1, <2>2, <2>3, SaveCarries
    <2>4. CASE pc' = "pay" /\ UNCHANGED <<mem, disk, budget>>
      <3>1. WorksOnLive'
        BY <2>2, <2>4 DEF Carried, WorksOnLive, Building
      <3>2. Carries(mem.payouts, mem'.payouts)
        BY <2>4, CarriesOrder
      <3> QED BY <2>4, <3>1, <3>2, CarryStep
    <2> QED BY <1>5, <2>3, <2>4 DEF InMempool, RecordSent
  <1> QED BY <1>3, <1>4, <1>5

\* After a crash memory is the database.
LEMMA CrashCarries ==
  ASSUME NEW b \in Blocks, Crash(b)
  PROVE  Carried' /\ Carries(disk.payouts, disk'.payouts)
  <1>1. mem' = disk /\ disk' = disk /\ todo' = {} /\ pc' = "idle"
    BY DEF Crash
  <1>2. Carries(disk.payouts, disk.payouts)
    BY CarriesOrder
  <1> QED BY <1>1, <1>2 DEF Carried, Carries, Building

\* Every step keeps Carried and the signed payouts of the database.
LEMMA SignedStep ==
  ASSUME IInv, Carried, [Next]_vars
  PROVE  Carried' /\ Carries(disk.payouts, disk'.payouts)
  BY UntouchedStep, LockStep, ReconcileCarries, PayControlCarries, PaySaveCarries,
     CrashCarries DEF Next, Follower, Payouts, Environment

\* What a half-done reconciliation has in memory carries the signed payouts of
\* the database.
THEOREM CarriedAlways == Spec => []Carried
  <1>1. Init => Carried
    BY DEF Init, Carried, Carries, EmptyLedger, Building
  <1>2. IInv /\ Carried /\ [Next]_vars => Carried'
    BY SignedStep
  <1> QED BY <1>1, <1>2, Invariance, PTL DEF Spec

\* The database neither drops nor re-signs a signed payout, and one that is set
\* aside stays aside, across reorganisations, failed saves and crashes.
THEOREM SignaturesKept == Spec => SignedForever
  <1>1. IInv /\ Carried /\ [Next]_vars => [Carries(disk.payouts, disk'.payouts)]_vars
    BY SignedStep
  <1> QED BY <1>1, Invariance, CarriedAlways, PTL DEF Spec, SignedForever

----------------------------------------------------------------------------
(* Covered is an invariant.                                                 *)

\* Settling covers what was covered.
LEMMA SettleCovers ==
  ASSUME NEW l \in LedgerType, NEW blocks, Covers(l)
  PROVE  \A p \in Settle(l.payouts, blocks) : p.txs \subseteq TxsOf(l.records)
  <1> SUFFICES ASSUME NEW p \in Settle(l.payouts, blocks) PROVE p.txs \subseteq TxsOf(l.records)
    OBVIOUS
  <1>1. PICK q \in l.payouts : p = [q EXCEPT !.status = SettledStatus(q, blocks)]
    BY DEF Settle
  <1>2. q \in Payout
    BY DEF LedgerType
  <1>3. p.txs = q.txs
    BY <1>1, <1>2 DEF Payout
  <1> QED BY <1>3 DEF Covers

\* New payouts are for records.
LEMMA NewPayoutsCover ==
  ASSUME NEW records, NEW payouts, NEW p \in NewPayouts(records, payouts)
  PROVE  p.txs \subseteq TxsOf(records)
  <1>1. PICK b \in Blocks : p = NewPayout(b, Group(records, payouts, b))
    BY DEF NewPayouts
  <1>2. p.txs = Group(records, payouts, b)
    BY <1>1 DEF NewPayout
  <1>3. Group(records, payouts, b) \subseteq TxsOf(records)
    BY DEF Group, TxsOf
  <1> QED BY <1>2, <1>3

\* Classifying a record keeps the transactions of the ledger.
LEMMA RecordsKeep ==
  ASSUME IInv, Records
  PROVE  TxsOf(mem'.records) = TxsOf(mem.records) /\ mem'.payouts = mem.payouts
         /\ disk' = disk
  <1> USE DEF IInv, TypeOK
  <1>1. PICK r : Classify(r) /\ idx \in DOMAIN mem.records /\ r.tx = mem.records[idx].tx
    <2>1. mem.records \in Seq(Record) /\ idx \in DOMAIN mem.records
      BY DEF Records, RecordIncluded, RecordConflicts, RecordRequeued, RecordFails, AtRecord,
             Working, LedgerType
    <2>2. mem.records[idx] \in Record
      BY <2>1
    <2>3. /\ \A b \in Blocks : Included(mem.records[idx], b).tx = mem.records[idx].tx
          /\ Lapsed(mem.records[idx]).tx = mem.records[idx].tx
          /\ Requeued(mem.records[idx]).tx = mem.records[idx].tx
      BY <2>2 DEF Included, Lapsed, Requeued, Record
    <2>4. CASE RecordIncluded
      BY <2>1, <2>3, <2>4 DEF RecordIncluded, Latest, MinedIn
    <2>5. CASE RecordConflicts
      BY <2>1, <2>3, <2>5 DEF RecordConflicts
    <2>6. CASE RecordRequeued
      BY <2>1, <2>3, <2>6 DEF RecordRequeued
    <2>7. CASE RecordFails
      BY <2>1, <2>3, <2>7 DEF RecordFails
    <2> QED BY <2>4, <2>5, <2>6, <2>7 DEF Records
  <1>2. /\ mem'.records = [mem.records EXCEPT ![idx] = r]
        /\ mem'.payouts = mem.payouts /\ disk' = disk
    BY <1>1 DEF Classify, LedgerType
  <1>3. mem.records \in Seq(Record)
    BY DEF LedgerType
  <1>4. /\ DOMAIN mem'.records = DOMAIN mem.records
        /\ \A i \in DOMAIN mem.records : mem'.records[i].tx = mem.records[i].tx
    BY <1>1, <1>2, <1>3
  <1> QED BY <1>2, <1>4 DEF TxsOf

\* The payout loop's saves keep Covered: the payout at hand is replaced by one
\* for the same transactions.
LEMMA SaveCovers ==
  ASSUME IInv, Covered, NEW p, p.txs = cur.txs, cur \in mem.payouts, NEW next,
         Save(With(p), next)
  PROVE  Covered'
  <1>1. /\ mem'.records = mem.records
        /\ mem'.payouts = (mem.payouts \ {cur}) \cup {p}
    BY WithKeeps DEF Save, IInv, TypeOK
  <1>2. disk' \in {disk, mem'}
    BY DEF Save
  <1>3. Covers(mem')
    BY <1>1 DEF Covered, Covers
  <1> QED BY <1>2, <1>3 DEF Covered, Covers

\* Every step keeps Covered.
LEMMA CoveredStep ==
  ASSUME IInv, Covered, [Next]_vars
  PROVE  Covered'
  <1> USE DEF IInv, TypeOK
  <1>1. CASE mem' \in {mem, disk} /\ disk' = disk
    BY <1>1 DEF Covered, Covers
  <1>2. CASE SubmitCommit
    <2>1. sub.tx \in Txs /\ sub.tx \notin TxsOf(mem.records)
      BY <1>2 DEF SubmitCommit, Holder
    <2>2. mem' = [mem EXCEPT !.records = Append(@, NewRecord(sub.tx))] /\ disk' = mem'
      BY <1>2 DEF SubmitCommit
    <2>3. /\ mem'.payouts = mem.payouts
          /\ mem'.records = Append(mem.records, NewRecord(sub.tx))
      BY <2>1, <2>2, AppendRecord
    <2>4. mem.records \in Seq(Record)
      BY DEF LedgerType
    <2>5. TxsOf(mem.records) \subseteq TxsOf(mem'.records)
      BY <2>3, <2>4 DEF TxsOf
    <2> QED BY <2>2, <2>3, <2>5 DEF Covered, Covers
  <1>3. CASE Lock
    <2>1. /\ mem'.payouts = Settle(mem.payouts, chain)
          /\ mem'.records = mem.records /\ disk' = disk
      BY <1>3 DEF Lock, LedgerType
    <2>2. mem \in LedgerType /\ Covers(mem)
      BY DEF Covered
    <2>3. \A p \in Settle(mem.payouts, chain) : p.txs \subseteq TxsOf(mem.records)
      BY <2>2, SettleCovers
    <2>4. Covers(mem)'
      BY <2>1, <2>3 DEF Covers
    <2> QED BY <2>1, <2>4 DEF Covered, Covers
  <1>4. CASE Records
    BY <1>4, RecordsKeep DEF Covered, Covers
  <1>5. CASE Reconcile
    <2>1. mem' = Reconciled /\ disk' \in {disk, Reconciled}
      BY <1>5 DEF Reconcile, Save
    <2>2. /\ Reconciled.records = mem.records
          /\ Reconciled.payouts = mem.payouts \cup NewPayouts(mem.records, mem.payouts)
      BY DEF Reconciled, LedgerType
    <2>3. Covers(Reconciled)
      BY <2>2, NewPayoutsCover DEF Covered, Covers
    <2> QED BY <2>1, <2>3 DEF Covered, Covers
  <1>6. CASE \/ \E q \in PayTxs : Sign(q)
             \/ RecheckGone \/ RecheckExpired \/ RecordSent \/ InMempool
    <2>1. cur \in mem.payouts /\ cur \in Payout
      BY <1>6 DEF Sign, RecheckGone, RecheckExpired, RecordSent, InMempool, Working,
                 LedgerType, Paying, Building
    <2>2. /\ \A q \in PayTxs : [cur EXCEPT !.raw = q].txs = cur.txs
          /\ [cur EXCEPT !.status = "blocked"].txs = cur.txs
          /\ [cur EXCEPT !.status = "broadcast"].txs = cur.txs
      BY <2>1 DEF Payout
    <2>3. ASSUME NEW q \in PayTxs, Sign(q) PROVE Covered'
      BY <2>1, <2>2, <2>3, SaveCovers DEF Sign
    <2>4. CASE RecheckGone \/ RecheckExpired
      BY <2>1, <2>2, <2>4, SaveCovers DEF RecheckGone, RecheckExpired, Block
    <2>5. CASE RecordSent \/ InMempool
      BY <1>1, <2>1, <2>2, <2>5, SaveCovers DEF RecordSent, InMempool
    <2> QED BY <1>6, <2>3, <2>4, <2>5
  <1> QED BY <1>1, <1>2, <1>3, <1>4, <1>5, <1>6
          DEF Next, Submission, SubmitBegin, SubmitVerified, SubmitDropped, SubmitRefused,
              SubmitSaveFails, Follower, Poll, Fetch, FetchFails, LockMoved, FollowerFailed, Payouts,
              PayNext, PayDone, BuildFails, RecheckFails, Recheck, NotInMempool, Send,
              SendReplyLost, SendRejected, Environment, NodeMove, Crash, vars, store

\* A payout is only ever for accepted transactions.
THEOREM CoveredAlways == Spec => []Covered
  <1>1. Init => Covered
    BY DEF Init, Covered, Covers, EmptyLedger
  <1>2. IInv /\ Covered /\ [Next]_vars => Covered'
    BY CoveredStep
  <1> QED BY <1>1, <1>2, Invariance, PTL DEF Spec

----------------------------------------------------------------------------
(* The refinement.                                                          *)

\* The receipts of a ledger are the transactions of its records.
LEMMA ReceiptsOf ==
  ASSUME NEW l \in LedgerType
  PROVE  P!ToSet(Accepted(l.records)) = TxsOf(l.records)
  BY DEF P!ToSet, Accepted, TxsOf

\* The snapshot of a ledger holds receipts in their order, one for each that is
\* pending.
LEMMA PendingLeft ==
  ASSUME NEW l \in LedgerType
  PROVE  /\ Accepted(l.records) \in Seq(Txs)
         /\ PendingAt(l.records) \in SUBSET DOMAIN Accepted(l.records)
         /\ l.tip # None =>
               /\ Subsequence(PendingOf(l).txs, Accepted(l.records))
               /\ PendingOf(l).txs \in Seq(Txs)
               /\ Len(PendingOf(l).txs) = Cardinality(PendingAt(l.records))
  <1>1. Accepted(l.records) \in Seq(Txs)
    BY AcceptedType
  <1>2. PendingAt(l.records) \in SUBSET DOMAIN Accepted(l.records)
    BY DEF PendingAt, Accepted
  <1>3. ASSUME l.tip # None
        PROVE  PendingOf(l).txs = Picked(Accepted(l.records), PendingAt(l.records))
    BY <1>3 DEF PendingOf
  <1> QED BY <1>1, <1>2, <1>3, PickedLeft

\* What miners are offered is drawn from the receipts.
LEMMA OffersReceipts ==
  ASSUME IInv
  PROVE  Offered = None \/ P!Subsequence(Offered, Accepted(disk.records))
  <1>1. CASE feed.tip = None
    BY <1>1 DEF Offered
  <1>2. CASE feed.tip # None
    <2>1. feed = PendingOf(disk) /\ disk.tip # None /\ disk \in LedgerType
      BY <1>2 DEF IInv, TypeOK, FeedIsDurable, PendingOf, NoSnapshot
    <2>2. Subsequence(Offered, Accepted(disk.records))
      BY <1>2, <2>1, PendingLeft DEF Offered
    <2> QED BY <2>2 DEF Subsequence, P!Subsequence
  <1> QED BY <1>1, <1>2

\* The initial state promises nothing.
LEMMA InitPromise == Init => P!Init
  BY DEF Init, P!Init, Offered, EmptyLedger, Accepted, NoSnapshot

\* A saved submission is an acceptance.
LEMMA CommitAccepts ==
  ASSUME IInv, SubmitCommit, IInv'
  PROVE  P!Accept(sub.tx) /\ sub.tx \in Txs
  <1> USE DEF IInv, TypeOK
  <1> DEFINE t == sub.tx
             I == PendingAt(mem'.records)
  <1>1. /\ t \in Txs /\ t \notin TxsOf(mem.records)
        /\ mem' = [mem EXCEPT !.records = Append(@, NewRecord(t))]
        /\ disk' = mem' /\ feed' = PendingOf(mem') /\ sent' = sent
        /\ tip = mem.tip
    BY DEF SubmitCommit, Holder, Affords, TipUnchanged, node
  <1>2. Accepted(disk'.records) = Append(Accepted(disk.records), t)
    BY CommitAppends
  <1>3. t \notin P!ToSet(Accepted(disk.records))
    BY <1>1, ReceiptsOf DEF KnownIsDurable
  <1>4. mem'.records = Append(mem.records, NewRecord(t)) /\ mem'.tip = mem.tip
    BY <1>1, AppendRecord
  <1>5. Len(Accepted(disk'.records)) \in I
    <2>1. mem.records \in Seq(Record)
      BY DEF LedgerType
    <2> DEFINE n == Len(mem.records) + 1
    <2>2. n \in DOMAIN mem'.records /\ mem'.records[n] = NewRecord(t)
          /\ DOMAIN mem'.records = 1..n /\ n \in Nat
      BY <1>4, <2>1
    <2>3. Len(Accepted(mem'.records)) = n
      BY <2>2 DEF Accepted
    <2> QED BY <1>1, <2>2, <2>3 DEF PendingAt, IsPending, NewRecord
  <1>6. /\ Offered' = Picked(Accepted(disk'.records), I)
        /\ P!Subsequence(Offered', Accepted(disk'.records))
    <2>1. mem'.tip # None
      BY <1>1, <1>4, ChainShape
    <2>2. PendingOf(mem') = [tip |-> mem'.tip, txs |-> Picked(Accepted(mem'.records), I)]
      BY <2>1 DEF PendingOf
    <2>3. feed'.tip # None /\ feed'.txs = Picked(Accepted(mem'.records), I)
      BY <1>1, <2>1, <2>2
    <2>4. Offered' = Picked(Accepted(disk'.records), I)
      BY <1>1, <2>3 DEF Offered
    <2>5. Subsequence(PendingOf(mem').txs, Accepted(mem'.records))
      BY <2>1, PendingLeft
    <2>6. Subsequence(Offered', Accepted(disk'.records))
      BY <1>1, <2>2, <2>4, <2>5
    <2> QED BY <2>4, <2>6 DEF Subsequence, P!Subsequence
  <1>7. Offered' # <<>> /\ P!Last(Offered') = t
    <2> DEFINE s == Accepted(disk'.records)
    <2>1. s \in Seq(Txs) /\ I \in SUBSET DOMAIN s
      BY <1>1, PendingLeft
    <2>2. Picked(s, I) # <<>> /\ Last(Picked(s, I)) = s[Len(s)]
      <3> HIDE DEF s, I
      <3> QED BY <1>5, <2>1, PickedLast DEF s
    <2>3. s[Len(s)] = t
      <3>1. Accepted(disk.records) \in Seq(Txs)
        BY PendingLeft
      <3> QED BY <1>1, <1>2, <3>1
    <2> QED BY <1>6, <2>2, <2>3 DEF P!Last, Last
  <1>8. /\ P!Subsequence(Offered', Accepted(disk'.records))
        /\ Offered' # <<>> /\ P!Last(Offered') = t
    BY <1>6, <1>7
  <1> HIDE DEF t
  <1>9. P!Accept(t)
    BY <1>1, <1>2, <1>3, <1>8 DEF P!Accept, Accepted
  <1> QED BY <1>1, <1>9 DEF t

\* Handing a payout to the node pays for fees that were never paid, or hands
\* over the same payout again.
LEMMA SendPays ==
  ASSUME IInv, Covered, Send \/ SendReplyLost
  PROVE  \/ \E q \in PayTxs, txs \in SUBSET Txs : P!Pay(q, txs)
         \/ UNCHANGED P!vars
  <1> USE DEF IInv, TypeOK
  <1> DEFINE q == cur.raw
             txs == cur.txs
  <1>1. /\ pc = "send" /\ UNCHANGED store
        /\ sent' = sent \cup {[raw |-> q, txs |-> txs]}
    BY DEF Send, SendReplyLost, Broadcast
  <1>2. /\ mem = disk /\ cur \in mem.payouts /\ q # None
    BY <1>1 DEF Working, Paying, Building
  <1>3. q \in PayTxs /\ txs \in SUBSET Txs /\ txs # {}
    BY <1>2 DEF LedgerType, Payout
  <1>4. UNCHANGED <<Accepted(disk.records), Offered>>
    BY <1>1 DEF store, Offered, Accepted
  <1>5. txs \subseteq P!ToSet(Accepted(disk.records))
    BY <1>2, ReceiptsOf DEF Covered, Covers
  <1>6. \A p \in sent : p.txs \cap txs # {} => p = [raw |-> q, txs |-> txs]
    <2> SUFFICES ASSUME NEW p \in sent, p.txs \cap txs # {}
                 PROVE  p = [raw |-> q, txs |-> txs]
      OBVIOUS
    <2>1. PICK r \in mem.payouts : r.raw = p.raw /\ r.txs = p.txs
      BY DEF SentIn
    <2>2. r = cur
      BY <1>2, <2>1 DEF FeeAssignedOnce, AssignedOnce
    <2> QED BY <2>1, <2>2
  <1>7. CASE [raw |-> q, txs |-> txs] \in sent
    BY <1>1, <1>4, <1>7 DEF P!vars
  <1>8. CASE [raw |-> q, txs |-> txs] \notin sent
    <2>1. \A p \in sent : p.txs \cap txs = {}
      BY <1>6, <1>8
    <2> HIDE DEF q, txs
    <2>2. P!Pay(q, txs)
      BY <1>1, <1>3, <1>4, <1>5, <2>1 DEF P!Pay
    <2> QED BY <1>3, <2>2
  <1> QED BY <1>7, <1>8

\* A step that leaves receipts and payouts alone is a new offer.
LEMMA QuietOffer ==
  ASSUME IInv', Accepted(disk'.records) = Accepted(disk.records), sent' = sent
  PROVE  P!Offer
  <1>1. (Offered = None \/ P!Subsequence(Offered, Accepted(disk.records)))'
    BY OffersReceipts, PTL
  <1>2. Offered' = None \/ P!Subsequence(Offered', Accepted(disk'.records))
    BY <1>1 DEF Accepted, P!Subsequence
  <1> QED BY <1>2 DEF P!Offer, Accepted

\* Every step of the service is a step of the promise, or none.
LEMMA NextPromise ==
  ASSUME IInv, Covered, [Next]_vars
  PROVE  [P!Next]_(P!vars)
  <1>1. IInv'
    BY NextIInv
  <1>2. CASE SubmitCommit
    BY <1>1, <1>2, CommitAccepts DEF P!Next
  <1>3. CASE Send \/ SendReplyLost
    BY <1>3, SendPays DEF P!Next
  <1>4. CASE sent' = sent /\ disk' = disk
    BY <1>1, <1>4, QuietOffer DEF P!Next
  <1>5. CASE Follower /\ sent' = sent
    <2>1. Accepted(disk'.records) = Accepted(disk.records)
      BY <1>5, FollowerSaves DEF IInv, KnownIsDurable
    <2> QED BY <1>1, <1>5, <2>1, QuietOffer DEF P!Next
  <1> QED BY <1>2, <1>3, <1>4, <1>5
          DEF Next, Submission, SubmitBegin, SubmitVerified, SubmitDropped, SubmitRefused,
              SubmitSaveFails, Follower, Poll, Fetch, FetchFails, Lock, LockMoved, FollowerFailed,
              Records, RecordIncluded, RecordConflicts, RecordRequeued, RecordFails, Classify,
              Reconcile, Payouts, PayNext, PayDone, Sign, BuildFails, RecheckFails,
              RecheckGone, RecheckExpired, Block, Recheck, InMempool, NotInMempool,
              RecordSent, SendRejected, Environment, NodeMove, Crash, vars, node, store

\* Whatever reorganises, fails or crashes, the service keeps its promise.
THEOREM Implementation == Spec => Promised
  <1>1. IInv /\ Covered /\ [Next]_vars => [P!Next]_(P!vars)
    BY NextPromise
  <1> QED BY <1>1, InitPromise, Invariance, CoveredAlways, PTL DEF Spec, Promised, P!Spec

=============================================================================
