--------------------------- MODULE ExplorerProofs ---------------------------
(***************************************************************************)
(* Proofs about Explorer: what the index commits is one branch of the chain *)
(* beside the ledger of its tip, for every chain whose tip only goes up     *)
(* while the node runs.  The invariant is EInv: an update either works on   *)
(* one branch or is bound to be given up.                                   *)
(***************************************************************************)
EXTENDS Explorer, TLAPS

\* A branch up to one of its blocks is the branch of that block.
LEMMA PathUpTo ==
  ASSUME NEW b \in Blocks, NEW c \in Path[b]
  PROVE  /\ c \in Blocks /\ Height[b] \in Nat /\ Height[c] \in Nat
         /\ Path[c] = {d \in Path[b] : Height[d] <= Height[c]}
  BY ChainShape, BranchShape

\* A row sequence that holds a branch ends in its block.
LEMMA Ends ==
  ASSUME TypeOK, Whole(db), db.rows # <<>>
  PROVE  /\ Len(db.rows) \in Nat /\ Len(db.rows) >= 1 /\ Top = db.rows[Len(db.rows)]
         /\ Top \in Blocks /\ Height[Top] = Len(db.rows) - 1
         /\ Hold(db, Top)
  <1>1. db.rows \in Seq(Blocks)
    BY DEF TypeOK, Tables
  <1>2. Len(db.rows) \in Nat /\ Len(db.rows) >= 1
    BY <1>1
  <1>3. Top = db.rows[Len(db.rows)]
    BY DEF Top, Last
  <1>4. Hold(db, Top)
    BY DEF Whole, Top
  <1>5. Top \in Blocks /\ Height[Top] = Len(db.rows) - 1
    BY <1>1, <1>2, <1>3, <1>4 DEF Hold, Stacked
  <1> QED BY <1>2, <1>3, <1>4, <1>5

LEMMA RollWhole ==
  ASSUME TypeOK, Whole(db), db.rows # <<>>
  PROVE  WithoutTop \in Tables /\ Whole(WithoutTop)
  <1> DEFINE s == db.rows  n == Len(s)  f == Front(s)
  <1>1. /\ s \in Seq(Blocks) /\ n \in Nat /\ n >= 1 /\ Top = s[n] /\ Top \in Blocks
        /\ Height[Top] = n - 1 /\ Hold(db, Top)
    BY Ends DEF TypeOK, Tables
  <1>2. f \in Seq(Blocks) /\ Len(f) = n - 1 /\ \A i \in 1 .. n - 1 : f[i] = s[i]
    BY <1>1 DEF Front
  <1>3. WithoutTop.rows = f
    BY DEF WithoutTop, TypeOK, Tables
  <1>4. WithoutTop.txs = {r \in db.txs : r.height # n - 1}
    BY <1>1 DEF WithoutTop, TypeOK, Tables
  <1>5. WithoutTop \in Tables
    BY <1>2 DEF WithoutTop, TypeOK, Tables
  <1>6. CASE n = 1
    <2>1. f = <<>>
      BY <1>2, <1>6
    <2>2. WithoutTop.txs = {}
      BY <1>1, <1>4, <1>6 DEF Hold, TxsDown
    <2> QED BY <1>3, <1>5, <2>1, <2>2 DEF Whole
  <1>7. CASE n > 1
    <2> DEFINE c == Last(f)
    <2>1. f # <<>> /\ c = s[n - 1]
      BY <1>1, <1>2, <1>7 DEF Last
    <2>2. Height[c] = n - 2 /\ c \in Path[Top]
      <3>1. n - 1 \in DOMAIN s
        BY <1>1, <1>7
      <3> QED BY <1>1, <2>1, <3>1 DEF Hold, Stacked, ToSet
    <2>3. c \in Blocks /\ Path[c] = {d \in Path[Top] : Height[d] <= n - 2}
      BY <1>1, <2>2, PathUpTo
    <2>4. ToSet(f) = Path[c]
      <3>1. \A i \in 1 .. n : s[i] \in Path[Top] /\ Height[s[i]] = i - 1
        BY <1>1 DEF Hold, Stacked, ToSet
      <3>2. \A d \in Path[Top] : \E i \in 1 .. n : d = s[i]
        BY <1>1 DEF Hold, Stacked, ToSet
      <3>3. ToSet(f) = {s[i] : i \in 1 .. n - 1}
        BY <1>1, <1>2 DEF ToSet
      <3>4. \A i \in 1 .. n - 1 : s[i] \in Path[c]
        BY <1>1, <2>3, <3>1
      <3>5. \A d \in Path[c] : \E i \in 1 .. n - 1 : d = s[i]
        <4> SUFFICES ASSUME NEW d \in Path[c] PROVE \E i \in 1 .. n - 1 : d = s[i]
          OBVIOUS
        <4>1. PICK i \in 1 .. n : d = s[i]
          BY <2>3, <3>2
        <4>2. i - 1 <= n - 2
          BY <2>3, <3>1, <4>1
        <4> QED BY <1>1, <4>1, <4>2
      <3> QED BY <3>3, <3>4, <3>5
    <2>5. \A i \in DOMAIN f : Height[f[i]] = i - 1
      <3>1. \A i \in 1 .. n : Height[s[i]] = i - 1
        BY <1>1 DEF Hold, Stacked
      <3>2. DOMAIN f = 1 .. n - 1
        BY <1>1, <1>2
      <3>3. \A i \in 1 .. n - 1 : i \in 1 .. n /\ f[i] = s[i]
        BY <1>1, <1>2
      <3> HIDE DEF f
      <3> QED BY <3>1, <3>2, <3>3
    <2>6. WithoutTop.txs = TxsDown(c)
      <3>1. WithoutTop.txs = {r \in TxsDown(Top) : r.height # n - 1}
        BY <1>1, <1>4 DEF Hold, Stacked
      <3>2. \A d \in Path[Top] : Height[d] \in Nat /\ Height[d] <= n - 1
        BY <1>1, ChainShape, BranchShape
      <3>3. \A r \in TxsDown(Top) : r.height # n - 1 => r \in TxsDown(c)
        BY <1>1, <2>2, <2>3, <3>2 DEF TxsDown
      <3>4. \A r \in TxsDown(c) : r \in TxsDown(Top) /\ r.height # n - 1
        BY <1>1, <2>2, <2>3, <3>2 DEF TxsDown
      <3> QED BY <3>1, <3>3, <3>4
    <2>7. Hold(WithoutTop, c)
      BY <1>3, <2>4, <2>5, <2>6 DEF Hold, Stacked
    <2>8. WithoutTop.rows # <<>> /\ Last(WithoutTop.rows) = c
      BY <1>3, <2>1
    <2>9. Whole(WithoutTop)
      BY <2>7, <2>8 DEF Whole
    <2> QED BY <1>5, <2>9
  <1>8. n = 1 \/ n > 1
    <2>1. n \in Nat /\ n >= 1
      BY <1>1
    <2> HIDE DEF n
    <2> QED BY <2>1
  <1> QED BY <1>6, <1>7, <1>8

LEMMA InsertWhole ==
  ASSUME TypeOK, Whole(db), db.rows # <<>> => Top \in Path[tip],
         NEW b \in Path[tip], Height[b] = Len(db.rows)
  PROVE  /\ Whole(WithBlock(b)) /\ WithBlock(b).rows # <<>>
         /\ Last(WithBlock(b).rows) = b
  <1> DEFINE s == db.rows  n == Len(s)  a == Append(s, b)
  <1>1. /\ tip \in Blocks /\ b \in Blocks /\ s \in Seq(Blocks) /\ n \in Nat
        /\ db.txs \subseteq TxRow
    BY PathUpTo DEF TypeOK, Tables
  <1>2. /\ a \in Seq(Blocks) /\ Len(a) = n + 1 /\ a[n + 1] = b
        /\ \A i \in 1 .. n : a[i] = s[i]
    BY <1>1
  <1>3. WithBlock(b).rows = a
    BY DEF WithBlock, TypeOK, Tables
  <1>4. a # <<>> /\ Last(a) = b
    <2>1. a # <<>>
      <3>1. Len(a) # 0
        BY <1>1, <1>2
      <3> HIDE DEF a
      <3> QED BY <3>1
    <2>2. Last(a) = a[Len(a)]
      BY DEF Last
    <2> QED BY <1>2, <2>1, <2>2
  <1>5. Path[b] = {d \in Path[tip] : Height[d] <= n}
    BY <1>1, PathUpTo
  <1>6. ToSet(s) = {d \in Path[tip] : Height[d] <= n - 1}
    <2>1. CASE s = <<>>
      <3>1. \A d \in Path[tip] : Height[d] \in Nat
        BY <1>1, ChainShape
      <3>2. n = 0 /\ ToSet(s) = {}
        BY <2>1 DEF ToSet
      <3> QED BY <3>1, <3>2
    <2>2. CASE s # <<>>
      <3>1. Hold(db, Top) /\ Height[Top] = n - 1
        BY <2>2, Ends
      <3> QED BY <1>1, <2>2, <3>1, PathUpTo DEF Hold
    <2> QED BY <2>1, <2>2
  <1>7. \A d \in Path[tip] : Height[d] \in Nat /\ (Height[d] = n <=> d = b)
    BY <1>1, ChainShape, BranchShape
  <1>8. ToSet(a) = Path[b]
    <2>1. ToSet(a) = ToSet(s) \cup {b}
      <3>1. ToSet(a) = {a[i] : i \in 1 .. n + 1} /\ ToSet(s) = {s[i] : i \in 1 .. n}
        BY <1>1, <1>2 DEF ToSet
      <3> QED BY <1>1, <1>2, <3>1
    <2> QED BY <1>1, <1>5, <1>6, <1>7, <2>1
  <1>9. \A i \in DOMAIN a : Height[a[i]] = i - 1
    <2>1. \A i \in 1 .. n : Height[s[i]] = i - 1
      <3>1. CASE s = <<>>  BY <3>1
      <3>2. CASE s # <<>>  BY <1>1, <3>2, Ends DEF Hold, Stacked
      <3> QED BY <3>1, <3>2
    <2> QED BY <1>1, <1>2, <2>1
  <1>10. WithBlock(b).txs = TxsDown(b)
    <2>1. db.txs = {r \in TxRow : \E c \in ToSet(s) : r.height = Height[c] /\ r.tx \in Body[c]}
      <3>1. CASE s = <<>>
        BY <3>1 DEF Whole, ToSet
      <3>2. CASE s # <<>>
        <4>1. Hold(db, Top) /\ Top \in Blocks
          BY <3>2, Ends
        <4>2. \A c \in Path[Top] : Height[c] \in 0 .. Height[Top]
          BY <4>1, ChainShape, BranchShape
        <4> QED BY <4>1, <4>2 DEF Hold, TxsDown, TxRow
      <3> QED BY <3>1, <3>2
    <2>2. \A c \in ToSet(s) : Body[c] \cap Body[b] = {}
      BY <1>1, <1>6, <1>7, BranchConsensus
    <2>3. {r \in db.txs : r.tx \notin Body[b]} = db.txs
      BY <2>1, <2>2
    <2>4. WithBlock(b).txs = db.txs \cup {[tx |-> t, height |-> n] : t \in Body[b]}
      BY <2>3 DEF WithBlock, TypeOK, Tables
    <2>5. \A c \in Path[b] : c \in ToSet(s) \/ c = b
      BY <1>1, <1>5, <1>6, <1>7
    <2>6. \A c \in Path[b] : Height[c] \in 0 .. n
      BY <1>1, <1>5, <1>7
    <2>7. \A r \in WithBlock(b).txs : r \in TxsDown(b)
      <3>1. \A r \in db.txs : r \in TxsDown(b)
        BY <1>1, <1>8, <1>5, <1>6, <2>1, <2>6 DEF TxsDown, TxRow
      <3>2. \A t \in Body[b] : t \in AllTxs
        BY <1>1, ChainShape
      <3>3. b \in Path[b]
        BY <1>1, BranchShape
      <3>4. \A t \in Body[b] : [tx |-> t, height |-> n] \in TxsDown(b)
        BY <1>1, <3>2, <3>3 DEF TxsDown
      <3> QED BY <2>4, <3>1, <3>4
    <2>8. \A r \in TxsDown(b) : r \in WithBlock(b).txs
      <3> SUFFICES ASSUME NEW r \in TxsDown(b) PROVE r \in WithBlock(b).txs
        OBVIOUS
      <3>1. PICK c \in Path[b] : r.height = Height[c] /\ r.tx \in Body[c]
        BY DEF TxsDown
      <3>2. r \in TxRow /\ r = [tx |-> r.tx, height |-> r.height]
        BY <1>1 DEF TxsDown, TxRow
      <3>3. CASE c \in ToSet(s)
        BY <2>1, <2>4, <3>1, <3>2, <3>3
      <3>4. CASE c = b
        BY <2>4, <3>1, <3>2, <3>4
      <3> QED BY <2>5, <3>3, <3>4
    <2> QED BY <2>7, <2>8
  <1> QED BY <1>3, <1>4, <1>8, <1>9, <1>10 DEF Whole, Hold, Stacked

LEMMA InsertStacked ==
  ASSUME TypeOK, Stacked(db), NEW b \in Path[tip], Height[b] = Len(db.rows)
  PROVE  /\ WithBlock(b) \in Tables /\ Stacked(WithBlock(b))
         /\ Len(WithBlock(b).rows) = Len(db.rows) + 1
  <1> DEFINE s == db.rows  n == Len(s)  a == Append(s, b)
  <1>1. /\ tip \in Blocks /\ b \in Blocks /\ s \in Seq(Blocks) /\ n \in Nat
        /\ db.txs \subseteq TxRow /\ Body[b] \subseteq AllTxs
    BY PathUpTo, ChainShape DEF TypeOK, Tables
  <1>2. /\ a \in Seq(Blocks) /\ Len(a) = n + 1 /\ a[n + 1] = b
        /\ \A i \in 1 .. n : a[i] = s[i]
    BY <1>1
  <1>3. WithBlock(b).rows = a
    BY DEF WithBlock, TypeOK, Tables
  <1>4. WithBlock(b) \in Tables
    <2>1. {[tx |-> t, height |-> Height[b]] : t \in Body[b]} \subseteq TxRow
      BY <1>1 DEF TxRow
    <2> QED BY <1>1, <1>2, <2>1 DEF WithBlock, TypeOK, Tables
  <1>5. \A i \in 1 .. n + 1 : Height[a[i]] = i - 1
    <2>1. \A i \in 1 .. n : Height[s[i]] = i - 1
      BY <1>1 DEF Stacked
    <2> QED BY <1>1, <1>2, <2>1
  <1> QED BY <1>1, <1>2, <1>3, <1>4, <1>5 DEF Stacked

LEMMA RollStacked ==
  ASSUME TypeOK, Stacked(db), db.rows # <<>>
  PROVE  Stacked(WithoutTop)
  <1> DEFINE s == db.rows  n == Len(s)  f == Front(s)
  <1>1. s \in Seq(Blocks) /\ n \in Nat /\ n >= 1
    BY DEF TypeOK, Tables
  <1>2. DOMAIN f = 1 .. n - 1 /\ \A i \in 1 .. n - 1 : f[i] = s[i]
    BY <1>1 DEF Front
  <1>3. WithoutTop.rows = f
    BY DEF WithoutTop, TypeOK, Tables
  <1>4. \A i \in 1 .. n : Height[s[i]] = i - 1
    BY <1>1 DEF Stacked
  <1>5. \A i \in 1 .. n - 1 : i \in 1 .. n /\ f[i] = s[i]
    BY <1>1, <1>2
  <1> HIDE DEF f
  <1> QED BY <1>2, <1>3, <1>4, <1>5 DEF Stacked

----------------------------------------------------------------------------
LEMMA InitEInv ==
  ASSUME Init
  PROVE  EInv
  <1>1. TypeOK
    BY ChainShape, ExplorerParams DEF Init, TypeOK, Tables, Empty
  <1>2. Whole(disk) /\ disk.ledger = TipOf(disk)
    BY DEF Init, Whole, TipOf, Empty
  <1>3. Indexing
    BY DEF Init, Indexing
  <1> QED BY <1>1, <1>2, <1>3 DEF EInv, IndexIsBranch

\* The steps that leave tables and tip alone keep what is said of them.
LEMMA SameTables ==
  ASSUME UNCHANGED <<db, disk>>
  PROVE  /\ IndexIsBranch => IndexIsBranch'
         /\ Whole(db) => Whole(db)'
         /\ Stacked(db) => Stacked(db)'
         /\ Top' = Top
  BY DEF IndexIsBranch, Whole, Hold, Stacked, TipOf, Top

\* The service's steps.
LEMMA ServiceStep ==
  ASSUME EInv,
         \/ \E b \in Blocks : NodeMove(b) \/ NodeRestarts(b)
         \/ Reconciles \/ Serves
  PROVE  EInv'
  <1> USE DEF EInv
  <1>1. UNCHANGED <<db, disk, state, error, count, got, faults>>
    BY DEF NodeMove, NodeRestarts, Reconciles, Serves, index
  <1>2. IndexIsBranch'
    BY <1>1, SameTables
  <1>3. ASSUME NEW b \in Blocks, NodeMove(b) PROVE TypeOK' /\ Indexing'
    <2>1. tip \in Blocks /\ Height[tip] \in Nat /\ Height[b] \in Nat /\ Height[tip] < Height[b]
      BY <1>3, ChainShape, ExplorerParams DEF NodeMove, TypeOK
    <2>2. TypeOK'
      BY <1>1, <1>3 DEF NodeMove, TypeOK
    <2>3. pc' = pc /\ tip' = b /\ count \in Nat
      BY <1>3 DEF NodeMove, TypeOK
    <2>4. pc \in {"roll", "insert", "check"} => Height[b] > count
      BY <2>1, <2>3 DEF Indexing
    <2>5. Indexing'
      BY <1>1, <2>1, <2>3, <2>4, SameTables DEF Indexing, OnOneBranch
    <2> QED BY <2>2, <2>5
  <1>4. ASSUME NEW b \in Blocks, NodeRestarts(b) PROVE TypeOK' /\ Indexing'
    <2>1. pc' \in {"sleep", "raised"} /\ (pc' = "sleep" => pc = "sleep")
      BY <1>4 DEF NodeRestarts
    <2>2. TypeOK'
      BY <1>1, <1>4, <2>1, ChainShape, ExplorerParams DEF NodeRestarts, TypeOK
    <2>3. Indexing'
      BY <1>1, <2>1 DEF Indexing
    <2> QED BY <2>2, <2>3
  <1>5. CASE Reconciles \/ Serves
    <2>1. UNCHANGED <<tip, pc>> /\ TypeOK'
      BY <1>1, <1>5 DEF Reconciles, Serves, TypeOK
    <2>2. Indexing'
      BY <1>1, <2>1, SameTables DEF Indexing, OnOneBranch
    <2> QED BY <1>2, <2>1, <2>2
  <1> QED BY <1>2, <1>3, <1>4, <1>5

\* The steps of an update that only look.
LEMMA LookStep ==
  ASSUME EInv,
         GetLedger \/ GetCount \/ RollStops \/ InsertDone \/ ViewChanged \/ RpcFails
  PROVE  EInv'
  <1> USE DEF EInv
  <1>1. UNCHANGED <<tip, db, disk, state, error>>
    BY DEF GetLedger, GetCount, RollStops, InsertDone, ViewChanged, RpcFails, index, service
  <1>2. IndexIsBranch'
    BY <1>1, SameTables
  <1>3. tip \in Blocks /\ Height[tip] \in Nat
    BY ChainShape DEF TypeOK
  <1>4. CASE GetLedger
    <2>1. TypeOK'
      BY <1>4 DEF GetLedger, TypeOK, index, service
    <2>2. Indexing'
      BY <1>4 DEF GetLedger, Indexing, index
    <2> QED BY <1>2, <2>1, <2>2
  <1>5. CASE GetCount
    <2>1. TypeOK'
      BY <1>3, <1>5 DEF GetCount, TypeOK, index, service
    <2>2. Whole(db) /\ Stacked(db)
      <3>1. db = disk /\ Whole(disk)
        BY <1>5 DEF GetCount, Indexing, IndexIsBranch
      <3> QED BY <3>1 DEF Whole, Hold, Stacked
    <2>3. Indexing'
      BY <1>1, <1>3, <1>5, <2>2, SameTables DEF GetCount, Indexing
    <2> QED BY <1>2, <2>1, <2>3
  <1>6. CASE RollStops
    <2>1. TypeOK'
      BY <1>6 DEF RollStops, TypeOK, index, service
    <2>2. Whole(db) /\ Stacked(db) /\ Height[tip] >= count /\ count \in Nat
      BY <1>6 DEF RollStops, Indexing, TypeOK
    <2>3. Len(db.rows) <= count + 1 /\ (db.rows # <<>> => Top \in Path[tip])
      <3>1. CASE db.rows = <<>>
        BY <2>2, <3>1
      <3>2. CASE db.rows # <<>>
        BY <1>6, <2>2, <3>2, Ends DEF RollStops, Orphaned
      <3> QED BY <3>1, <3>2
    <2>4. UNCHANGED count /\ pc' = "insert"
      BY <1>6 DEF RollStops
    <2>5. Indexing'
      BY <1>1, <1>3, <2>2, <2>3, <2>4, SameTables DEF Indexing, OnOneBranch
    <2> QED BY <1>2, <2>1, <2>5
  <1>7. CASE InsertDone
    <2>1. TypeOK'
      BY <1>7 DEF InsertDone, TypeOK, index, service
    <2>2. Len(db.rows) \in Nat /\ count \in Nat
      BY DEF TypeOK, Tables
    <2>3. Len(db.rows) = count + 1
      BY <1>7, <2>2 DEF InsertDone, Indexing
    <2>4. Indexing'
      BY <1>1, <1>7, <2>3, SameTables DEF InsertDone, Indexing, OnOneBranch
    <2> QED BY <1>2, <2>1, <2>4
  <1>8. CASE ViewChanged \/ RpcFails
    <2>1. pc' = "raised"
      BY <1>8 DEF ViewChanged, RpcFails
    <2>2. TypeOK'
      BY <1>8, ExplorerParams DEF ViewChanged, RpcFails, Fault, TypeOK, index, service
    <2>3. Indexing'
      BY <2>1 DEF Indexing
    <2> QED BY <1>2, <2>2, <2>3
  <1> QED BY <1>4, <1>5, <1>6, <1>7, <1>8

\* The steps that write, and those that undo.
LEMMA WriteStep ==
  ASSUME EInv,
         \/ RollBack \/ \E b \in Blocks : InsertBlock(b)
         \/ Commit \/ CommitFails \/ Recover \/ ExplorerRestarts
  PROVE  EInv'
  <1> USE DEF EInv
  <1>1. tip \in Blocks /\ Height[tip] \in Nat /\ count \in Nat /\ db.rows \in Seq(Blocks)
    BY ChainShape DEF TypeOK, Tables
  <1>2. ASSUME disk' = disk PROVE IndexIsBranch'
    BY <1>2 DEF IndexIsBranch, Whole, Hold, Stacked, TipOf
  <1>3. CASE RollBack
    <2>1. /\ pc = "roll" /\ pc' = "roll" /\ db.rows # <<>> /\ db' = WithoutTop
          /\ UNCHANGED <<tip, count, disk>>
      BY <1>3 DEF RollBack, Orphaned, service
    <2>2. Whole(db) /\ Stacked(db) /\ Height[tip] >= count
      BY <2>1 DEF Indexing
    <2>3. db' \in Tables /\ Whole(db') /\ Stacked(db')
      BY <2>1, <2>2, RollWhole, RollStacked
    <2>4. TypeOK'
      BY <1>3, <2>3 DEF RollBack, TypeOK, service
    <2>5. Indexing'
      BY <2>1, <2>2, <2>3 DEF Indexing
    <2> QED BY <1>2, <2>1, <2>4, <2>5
  <1>4. ASSUME NEW b \in Blocks, InsertBlock(b) PROVE EInv'
    <2>1. /\ pc = "insert" /\ pc' = "insert" /\ Len(db.rows) <= count
          /\ b \in Path[tip] /\ Height[b] = Len(db.rows) /\ db' = WithBlock(b)
          /\ UNCHANGED <<tip, count, disk>>
      BY <1>4 DEF InsertBlock, service
    <2>2. Height[tip] >= count /\ Stacked(db) /\ OnOneBranch
      BY <2>1 DEF Indexing
    <2>3. db' \in Tables /\ Stacked(db') /\ Len(db'.rows) = Len(db.rows) + 1
      BY <2>1, <2>2, InsertStacked
    <2>4. TypeOK'
      BY <1>4, <2>3 DEF InsertBlock, TypeOK, service
    <2>5. OnOneBranch'
      <3>1. CASE Height[tip] > count
        BY <2>1, <3>1 DEF OnOneBranch
      <3>2. CASE Height[tip] = count /\ Whole(db) /\ (db.rows # <<>> => Top \in Path[tip])
        <4>1. Whole(db') /\ Last(db'.rows) = b
          BY <2>1, <3>2, InsertWhole
        <4> QED BY <2>1, <3>2, <4>1 DEF OnOneBranch, Top
      <3> QED BY <2>2, <3>1, <3>2 DEF OnOneBranch
    <2>6. Len(db.rows) \in Nat
      BY <1>1
    <2>7. Len(db'.rows) <= count + 1
      BY <1>1, <2>1, <2>3, <2>6
    <2>8. Indexing'
      BY <2>1, <2>2, <2>3, <2>5, <2>7 DEF Indexing
    <2> QED BY <1>2, <2>1, <2>4, <2>8
  <1>5. CASE Commit \/ CommitFails
    <2>1. /\ pc = "check" /\ OneView /\ db' = [db EXCEPT !.ledger = got]
          /\ got \in Blocks \cup {None}
      BY <1>5 DEF Commit, CommitFails, TypeOK
    <2>2. /\ db' \in Tables /\ db'.rows = db.rows /\ db'.txs = db.txs
          /\ db'.ledger = got
      BY <2>1 DEF TypeOK, Tables
    <2>3. TypeOK'
      <3>1. /\ UNCHANGED <<tip, round, served, got, count, restarts>>
            /\ pc' \in {"sleep", "raised"} /\ state' = got
            /\ disk' \in {disk, db'} /\ error' \in {error, "none"}
        BY <1>5 DEF Commit, CommitFails, service
      <3>2. faults' \in 0 .. MaxFaults
        BY <1>5, ExplorerParams DEF Commit, CommitFails, Fault, TypeOK
      <3>3. db' \in Tables /\ disk' \in Tables
        BY <2>2, <3>1 DEF TypeOK
      <3> QED BY <2>1, <3>1, <3>2, <3>3 DEF TypeOK
    <2>4. CASE CommitFails
      <3>1. pc' = "raised" /\ disk' = disk
        BY <2>4 DEF CommitFails
      <3>2. Indexing'
        BY <3>1 DEF Indexing
      <3> QED BY <1>2, <2>3, <3>1, <3>2
    <2>5. CASE Commit
      <3>1. pc' = "sleep" /\ disk' = db'
        BY <2>5 DEF Commit
      <3>2. /\ Len(db.rows) = count + 1 /\ Stacked(db) /\ OnOneBranch
            /\ tip = db.rows[count + 1] /\ got = tip
        BY <2>1 DEF Indexing, OneView
      <3>3. Height[tip] = count
        BY <1>1, <3>2 DEF Stacked
      <3>4. Whole(db) /\ db.rows # <<>> /\ Last(db.rows) = tip
        BY <1>1, <3>2, <3>3 DEF OnOneBranch, Last
      <3>5. Whole(db')
        BY <2>2, <3>4 DEF Whole, Hold, Stacked
      <3>6. IndexIsBranch'
        BY <2>2, <3>1, <3>2, <3>4, <3>5 DEF IndexIsBranch, TipOf
      <3>7. Indexing'
        BY <3>1 DEF Indexing
      <3> QED BY <2>3, <3>6, <3>7
    <2> QED BY <1>5, <2>4, <2>5
  <1>6. CASE Recover \/ ExplorerRestarts
    <2>1. pc' = "sleep" /\ db' = disk /\ disk' = disk
      BY <1>6 DEF Recover, ExplorerRestarts
    <2>2. TypeOK'
      BY <1>6, ExplorerParams DEF Recover, ExplorerRestarts, TypeOK, Tables, service
    <2>3. Indexing'
      BY <2>1 DEF Indexing
    <2> QED BY <1>2, <2>1, <2>2, <2>3
  <1> QED BY <1>3, <1>4, <1>5, <1>6

LEMMA NextEInv ==
  ASSUME EInv, [Next]_vars
  PROVE  EInv'
  <1>1. CASE Next
    BY <1>1, ServiceStep, LookStep, WriteStep DEF Next, Updates
  <1>2. CASE UNCHANGED vars
    <2>1. UNCHANGED <<tip, round, served, pc, got, count, db, disk, state, error, faults, restarts>>
      BY <1>2 DEF vars, service, index
    <2>2. TypeOK'
      BY <2>1 DEF EInv, TypeOK
    <2>3. IndexIsBranch' /\ Indexing'
      BY <2>1, SameTables DEF EInv, Indexing, OnOneBranch
    <2> QED BY <2>2, <2>3 DEF EInv
  <1> QED BY <1>1, <1>2

----------------------------------------------------------------------------
\* The inductive invariant of the explorer (Index.update, Index.loop).
THEOREM IndexInvariance == Spec => []EInv
  BY InitEInv, NextEInv, PTL DEF Spec

\* What the explorer commits is one branch and the ledger of its tip, so that
\* every restart and every archive finds them to match.
THEOREM IndexAlwaysBranch == Spec => []IndexIsBranch
  <1>1. EInv => IndexIsBranch
    BY DEF EInv
  <1> QED BY <1>1, IndexInvariance, PTL

=============================================================================
