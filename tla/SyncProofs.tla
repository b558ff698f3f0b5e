----------------------------- MODULE SyncProofs -----------------------------
(***************************************************************************)
(* Proofs about ChainSync: the cache is one branch, and a call returns the  *)
(* best one, for every chain that only grows during a call and moves        *)
(* anywhere between two.  That condition is Growing; without it the cache   *)
(* may mix two branches (run ledger_torn), one block per height.            *)
(***************************************************************************)
EXTENDS ChainSync, TLAPS

\* During a call a tip is only left for one of its descendants.
Growing == \A m \in CallMoves : Path[m[1]] \subseteq Path[m[2]]

\* A branch up to one of its blocks is the branch of that block.
LEMMA PathUpTo ==
  ASSUME NEW b \in Blocks, NEW c \in Path[b]
  PROVE  /\ c \in Blocks /\ Height[b] \in Nat /\ Height[c] \in Nat
         /\ Path[c] = {d \in Path[b] : Height[d] <= Height[c]}
  BY ChainShape, BranchShape

\* The last of the blocks of a branch.
LEMMA BranchEnd ==
  ASSUME NEW s \in Seq(Blocks), s # <<>>, IsBranch(s, Last(s))
  PROVE  /\ Len(s) \in Nat /\ Len(s) >= 1 /\ Last(s) = s[Len(s)]
         /\ Last(s) \in Blocks /\ Height[Last(s)] = Len(s) - 1
         /\ \A i \in 1 .. Len(s) : s[i] \in Path[Last(s)] /\ Height[s[i]] = i - 1
         /\ \A d \in Path[Last(s)] : \E i \in 1 .. Len(s) : d = s[i]
  <1>1. Len(s) \in Nat /\ Len(s) >= 1 /\ Last(s) = s[Len(s)] /\ DOMAIN s = 1 .. Len(s)
    BY DEF Last
  <1>2. Last(s) \in Blocks
    BY <1>1
  <1>3. Range(s) = {s[i] : i \in 1 .. Len(s)}
    BY <1>1 DEF Range
  <1> QED BY <1>1, <1>2, <1>3 DEF IsBranch

\* A sequence without its last element.
LEMMA FrontOf ==
  ASSUME NEW s \in Seq(Blocks), Len(s) >= 1
  PROVE  /\ Front(s) \in Seq(Blocks) /\ Len(Front(s)) = Len(s) - 1
         /\ \A i \in 1 .. Len(s) - 1 : Front(s)[i] = s[i]
  <1>1. Len(s) \in Nat
    OBVIOUS
  <1>2. Front(s) \in Seq(Blocks)
    <2>1. \A i \in 1 .. Len(s) - 1 : s[i] \in Blocks
      BY <1>1
    <2> QED BY <1>1, <2>1 DEF Front
  <1>3. Len(Front(s)) = Len(s) - 1
    BY <1>1 DEF Front
  <1>4. \A i \in 1 .. Len(s) - 1 : Front(s)[i] = s[i]
    BY <1>1 DEF Front
  <1> QED BY <1>2, <1>3, <1>4

\* Without its newest block a branch is a branch.
LEMMA FrontIsBranch ==
  ASSUME NEW s \in Seq(Blocks), s # <<>>, IsBranch(s, Last(s))
  PROVE  /\ Front(s) \in Seq(Blocks)
         /\ Front(s) # <<>> => IsBranch(Front(s), Last(Front(s)))
  <1> DEFINE n == Len(s)  f == Front(s)  c == Last(f)  b == Last(s)
  <1>1. /\ s \in Seq(Blocks) /\ n \in Nat /\ n >= 1 /\ b \in Blocks
        /\ \A i \in 1 .. n : s[i] \in Path[b] /\ Height[s[i]] = i - 1
        /\ \A d \in Path[b] : \E i \in 1 .. n : d = s[i]
    BY BranchEnd
  <1>2. f \in Seq(Blocks) /\ Len(f) = n - 1 /\ \A i \in 1 .. n - 1 : f[i] = s[i]
    BY <1>1, FrontOf
  <1>3. ASSUME f # <<>> PROVE IsBranch(f, c)
    <2>1. n > 1 /\ c = s[n - 1] /\ DOMAIN f = 1 .. n - 1
      BY <1>1, <1>2, <1>3 DEF Last
    <2>2. c \in Path[b] /\ Height[c] = n - 2
      BY <1>1, <2>1
    <2>3. Path[c] = {d \in Path[b] : Height[d] <= n - 2}
      BY <1>1, <2>2, PathUpTo
    <2>4. \A i \in 1 .. n - 1 : f[i] \in Path[c] /\ Height[f[i]] = i - 1
      <3> HIDE DEF f, c, b
      <3>1. \A i \in 1 .. n - 1 : s[i] \in Path[c] /\ Height[s[i]] = i - 1
        BY <1>1, <2>3
      <3> QED BY <1>2, <3>1
    <2>5. ASSUME NEW d \in Path[c] PROVE \E i \in 1 .. n - 1 : d = f[i]
      <3>1. PICK i \in 1 .. n : d = s[i]
        BY <1>1, <2>3
      <3>2. i <= n - 1
        BY <1>1, <2>3, <3>1
      <3> QED BY <1>1, <1>2, <3>1, <3>2
    <2> HIDE DEF f, c
    <2>6. Range(f) = {f[i] : i \in 1 .. n - 1}
      BY <2>1 DEF Range
    <2> QED BY <2>1, <2>4, <2>5, <2>6 DEF IsBranch
  <1> QED BY <1>2, <1>3

\* A branch with the block of the next height on the same chain is a branch.
LEMMA AppendIsBranch ==
  ASSUME NEW s \in Seq(Blocks), s # <<>> => IsBranch(s, Last(s)),
         NEW t \in Blocks, s # <<>> => Last(s) \in Path[t],
         NEW b \in Path[t], Height[b] = Len(s)
  PROVE  /\ Append(s, b) \in Seq(Blocks) /\ Append(s, b) # <<>>
         /\ Last(Append(s, b)) = b /\ IsBranch(Append(s, b), b)
  <1> DEFINE n == Len(s)  a == Append(s, b)
  <1>1. b \in Blocks /\ n \in Nat /\ Path[b] = {d \in Path[t] : Height[d] <= n}
    BY PathUpTo
  <1>2. /\ a \in Seq(Blocks) /\ Len(a) = n + 1 /\ a[n + 1] = b
        /\ DOMAIN a = 1 .. n + 1 /\ \A i \in 1 .. n : a[i] = s[i]
    BY <1>1
  <1>3. a # <<>> /\ Last(a) = b
    <2> HIDE DEF a
    <2>1. a # <<>>
      BY <1>1, <1>2
    <2>2. Last(a) = a[Len(a)]
      BY DEF Last
    <2> QED BY <1>2, <2>1, <2>2
  <1>4. b \in Path[b] /\ \A d \in Path[b] : Height[d] \in Nat
    BY <1>1, ChainShape, BranchShape
  <1>5. \A i \in 1 .. n : s[i] \in Path[b] /\ Height[s[i]] = i - 1
    <2>1. CASE n = 0
      BY <2>1
    <2>2. CASE n > 0
      <3>1. s # <<>>
        BY <2>2
      <3>2. /\ Height[Last(s)] = n - 1
            /\ \A i \in 1 .. n : s[i] \in Path[Last(s)] /\ Height[s[i]] = i - 1
        BY <3>1, BranchEnd
      <3>3. Path[Last(s)] = {d \in Path[t] : Height[d] <= n - 1}
        BY <3>1, <3>2, PathUpTo
      <3> QED BY <1>1, <3>2, <3>3
    <2> QED BY <1>1, <2>1, <2>2
  <1>6. ASSUME NEW d \in Path[b], d # b PROVE \E i \in 1 .. n : d = s[i]
    <2>1. Height[d] \in Nat /\ Height[d] <= n /\ Height[d] # n
      BY <1>1, <1>4, <1>6, BranchShape
    <2>2. n > 0 /\ s # <<>>
      BY <1>1, <2>1
    <2>3. /\ Height[Last(s)] = n - 1
          /\ \A e \in Path[Last(s)] : \E i \in 1 .. n : e = s[i]
      BY <2>2, BranchEnd
    <2>4. Path[Last(s)] = {e \in Path[t] : Height[e] <= n - 1}
      BY <2>2, <2>3, PathUpTo
    <2> QED BY <1>1, <2>1, <2>3, <2>4
  <1>7. Range(a) = Path[b]
    <2> HIDE DEF a
    <2>1. Range(a) = {a[i] : i \in 1 .. n + 1}
      BY <1>2 DEF Range
    <2>2. \A i \in 1 .. n + 1 : a[i] \in Path[b]
      BY <1>1, <1>2, <1>4, <1>5
    <2>3. \A d \in Path[b] : \E i \in 1 .. n + 1 : d = a[i]
      <3> SUFFICES ASSUME NEW d \in Path[b] PROVE \E i \in 1 .. n + 1 : d = a[i]
        OBVIOUS
      <3>1. CASE d = b
        BY <1>1, <1>2, <3>1
      <3>2. CASE d # b
        <4>1. PICK i \in 1 .. n : d = s[i]
          BY <1>6, <3>2
        <4> QED BY <1>1, <1>2, <4>1
      <3> QED BY <3>1, <3>2
    <2> QED BY <2>1, <2>2, <2>3
  <1>8. \A i \in DOMAIN a : Height[a[i]] = i - 1
    <2> HIDE DEF a
    <2>1. \A i \in 1 .. n + 1 : Height[a[i]] = i - 1
      BY <1>1, <1>2, <1>5
    <2> QED BY <1>2, <2>1
  <1> QED BY <1>2, <1>3, <1>7, <1>8 DEF IsBranch

\* The cache is empty at first.
LEMMA InitSync == Init => SyncInv
  BY ChainShape DEF Init, SyncInv, TypeOK, CacheIsBranch, Fetching

\* A tip that grows during a call keeps what is fetched on its branch.
LEMMA TipStep ==
  ASSUME SyncInv, NEW b \in Blocks, TipMoves(b), pc # "idle" => Path[tip] \subseteq Path[b]
  PROVE  SyncInv'
  <1> USE DEF SyncInv
  <1>1. TypeOK' /\ CacheIsBranch'
    BY DEF TipMoves, TypeOK, CacheIsBranch, IsBranch
  <1>2. Fetching'
    BY DEF TipMoves, Fetching
  <1> QED BY <1>1, <1>2

\* The steps that leave cache and tip alone.
LEMMA QuietStep ==
  ASSUME SyncInv,
         Call \/ Error \/ Count \/ Keep \/ Fetched \/ Return \/ UNCHANGED vars
  PROVE  SyncInv'
  <1> USE DEF SyncInv, Call, Error, Count, Keep, Fetched, Return, vars
  <1>1. TypeOK'
    BY ChainShape DEF TypeOK
  <1>2. CacheIsBranch'
    BY DEF CacheIsBranch
  <1>3. Fetching'
    <2>1. CASE Keep
      BY <2>1 DEF Fetching, Surviving, BlockAt
    <2>2. CASE Call \/ Error \/ Count \/ Fetched \/ Return \/ UNCHANGED vars
      BY <2>2 DEF Fetching
    <2> QED BY <2>1, <2>2
  <1> QED BY <1>1, <1>2, <1>3

\* Dropping the newest block leaves a branch.
LEMMA DropStep ==
  ASSUME SyncInv, Drop
  PROVE  SyncInv'
  <1> USE DEF SyncInv
  <1>1. data # <<>> /\ data \in Seq(Blocks) /\ IsBranch(data, Last(data))
    BY DEF Drop, Surviving, TypeOK, CacheIsBranch
  <1>2. /\ data' \in Seq(Blocks)
        /\ data' # <<>> => IsBranch(data', Last(data'))
    BY <1>1, FrontIsBranch DEF Drop
  <1>3. TypeOK'
    BY <1>2 DEF Drop, TypeOK
  <1>4. CacheIsBranch'
    BY <1>2 DEF CacheIsBranch
  <1>5. Fetching'
    BY DEF Drop, Fetching
  <1> QED BY <1>3, <1>4, <1>5

\* The block fetched is the next one of the best chain.
LEMMA FetchStep ==
  ASSUME SyncInv, GetHash \/ GetBlock
  PROVE  SyncInv'
  <1> USE DEF SyncInv
  <1>1. CASE GetHash
    <2>1. want' \in Path[tip] /\ Height[want'] = Len(data) /\ want' \in Blocks
      BY <1>1, PathUpTo DEF GetHash, BlockAt, TypeOK
    <2>2. TypeOK'
      BY <1>1, <2>1 DEF GetHash, TypeOK
    <2>3. CacheIsBranch' /\ Fetching'
      BY <1>1, <2>1 DEF GetHash, CacheIsBranch, Fetching
    <2> QED BY <2>2, <2>3
  <1>2. CASE GetBlock
    <2>1. /\ data' \in Seq(Blocks) /\ data' # <<>>
          /\ Last(data') = want /\ IsBranch(data', want)
      BY <1>2, AppendIsBranch DEF GetBlock, TypeOK, CacheIsBranch, Fetching
    <2>2. TypeOK'
      BY <1>2, <2>1 DEF GetBlock, TypeOK
    <2>3. CacheIsBranch'
      BY <2>1 DEF CacheIsBranch
    <2>4. Fetching'
      BY <1>2, <2>1 DEF GetBlock, Fetching
    <2> QED BY <2>2, <2>3, <2>4
  <1> QED BY <1>1, <1>2

\* What the caller of wallet::chain does, whatever the chain did.
CallStep ==
  \/ Call \/ Count \/ Keep \/ Drop \/ GetHash \/ GetBlock \/ Fetched \/ Return
  \/ Error

LEMMA CallSync == SyncInv /\ CallStep => SyncInv'
  BY QuietStep, DropStep, FetchStep DEF CallStep

\* Every step keeps the invariant while the chain only grows during calls.
LEMMA NextSync ==
  ASSUME Growing, SyncInv, [Next]_vars
  PROVE  SyncInv'
  <1>1. ASSUME NEW b \in Blocks, TipMoves(b) PROVE SyncInv'
    <2>1. pc # "idle" => Path[tip] \subseteq Path[b]
      BY <1>1 DEF TipMoves, Growing
    <2> QED BY <1>1, <2>1, TipStep
  <1> QED BY <1>1, CallSync, QuietStep DEF Next, CallStep

\* The cache is one branch of the chain, whatever was orphaned between two calls
\* and wherever a call erred.
THEOREM CacheAlwaysBranch ==
  ASSUME Growing
  PROVE  Spec => []SyncInv
  <1>1. SyncInv /\ [Next]_vars => SyncInv'
    BY NextSync
  <1> QED BY <1>1, InitSync, PTL DEF Spec

\* What a call of wallet::chain returns is the branch of the best tip.
THEOREM AlwaysReturnsBest ==
  ASSUME Growing
  PROVE  Spec => ReturnsBestChain
  <1>1. SyncInv /\ [Next]_vars => [out' # out => IsBranch(out', tip)]_vars
    <2> SUFFICES ASSUME SyncInv, Next, out' # out PROVE IsBranch(out', tip)
      BY DEF vars
    <2>1. Return
      BY DEF Next, TipMoves, Call, Error, Count, Keep, Drop, GetHash, GetBlock, Fetched
    <2> QED BY <2>1 DEF Return, SameTip, SyncInv, CacheIsBranch
  <1> QED BY <1>1, CacheAlwaysBranch, PTL DEF Spec, ReturnsBestChain

----------------------------------------------------------------------------
(* However the chain moves.                                                 *)

\* Whatever was overtaken, the blocks stand one on another by their heights.
LEMMA NextStacked ==
  ASSUME Stacked, CallStep \/ \E b \in Blocks : TipMoves(b)
  PROVE  Stacked'
  <1> USE DEF Stacked
  <1>1. TypeOK /\ data \in Seq(Blocks) /\ Len(data) \in Nat /\ height \in Nat
    BY DEF TypeOK
  <1>2. CASE \E b \in Blocks : TipMoves(b)
    BY <1>2 DEF TipMoves, TypeOK
  <1>3. CASE Call \/ Count \/ Error \/ Return
    BY <1>3, ChainShape DEF Call, Count, Error, Return, TypeOK
  <1>4. CASE Keep
    <2>1. Len(data) <= height + 1
      BY <1>1, <1>4 DEF Keep, Surviving
    <2> QED BY <1>4, <2>1 DEF Keep, TypeOK
  <1>5. CASE Drop
    <2>1. data # <<>> /\ Len(data) >= 1
      BY <1>1, <1>5 DEF Drop, Surviving
    <2>2. /\ data' \in Seq(Blocks) /\ Len(data') = Len(data) - 1
          /\ \A i \in 1 .. Len(data) - 1 : data'[i] = data[i]
      BY <1>1, <1>5, <2>1, FrontOf DEF Drop
    <2>3. \A i \in DOMAIN data' : Height[data'[i]] = i - 1
      BY <1>1, <2>2
    <2> QED BY <1>5, <2>2, <2>3 DEF Drop, TypeOK
  <1>6. CASE GetHash
    <2>1. want' \in Blocks /\ Height[want'] = Len(data) /\ Len(data) <= height
      BY <1>1, <1>6, PathUpTo DEF GetHash, BlockAt, TypeOK
    <2> QED BY <1>6, <2>1 DEF GetHash, TypeOK
  <1>7. CASE GetBlock
    <2>1. /\ want \in Blocks /\ Height[want] = Len(data) /\ Len(data) <= height
          /\ data' = Append(data, want)
      BY <1>7 DEF GetBlock, TypeOK
    <2>2. /\ data' \in Seq(Blocks) /\ Len(data') = Len(data) + 1
          /\ \A i \in DOMAIN data' : Height[data'[i]] = i - 1
      BY <1>1, <2>1
    <2>3. Len(data') <= height + 1
      BY <1>1, <2>1, <2>2
    <2> QED BY <1>7, <2>2, <2>3 DEF GetBlock, TypeOK
  <1>8. CASE Fetched
    <2>1. Len(data) = height + 1
      BY <1>1, <1>8 DEF Fetched
    <2> QED BY <1>8, <2>1 DEF Fetched, TypeOK
  <1> QED BY <1>2, <1>3, <1>4, <1>5, <1>6, <1>7, <1>8 DEF CallStep

\* What a call is about to return has one block for each height up to the tip.
LEMMA CopyIsStack ==
  ASSUME Stacked, SameTip
  PROVE  IsStack(Range(data), tip) /\ Last(data) = tip
  <1> DEFINE n == Len(data)
  <1>1. /\ n \in Nat /\ DOMAIN data = 1 .. n /\ n >= 1 /\ Last(data) = tip /\ tip = data[n]
        /\ \A i \in 1 .. n : data[i] \in Blocks /\ Height[data[i]] = i - 1
    BY DEF Stacked, TypeOK, SameTip, Last
  <1>2. Range(data) = {data[i] : i \in 1 .. n} /\ Height[tip] = n - 1
    BY <1>1 DEF Range
  <1> HIDE DEF n
  <1>3. tip \in Range(data) /\ Range(data) \subseteq Blocks
    BY <1>1, <1>2
  <1>4. \A c \in Range(data) : Height[c] <= Height[tip]
    BY <1>1, <1>2
  <1>5. \A c, d \in Range(data) : Height[c] = Height[d] => c = d
    BY <1>1, <1>2
  <1>6. \A h \in 0 .. Height[tip] : \E c \in Range(data) : Height[c] = h
    <2> SUFFICES ASSUME NEW h \in 0 .. n - 1 PROVE \E c \in Range(data) : Height[c] = h
      BY <1>2
    <2>1. h + 1 \in 1 .. n /\ Height[data[h + 1]] = h
      BY <1>1
    <2> QED BY <1>2, <2>1
  <1> QED BY <1>1, <1>3, <1>4, <1>5, <1>6 DEF IsStack

\* A call that finds the tip as high as it counted ends well.
LEMMA StillThere ==
  ASSUME Stacked, SyncInv, height = Height[tip]
  PROVE  ~ ChainChanged
  <1>1. /\ tip \in Blocks /\ Height[tip] \in Nat /\ Len(data) \in Nat
        /\ data \in Seq(Blocks)
    BY ChainShape DEF Stacked, TypeOK
  <1>2. Height[tip] + 1 .. height = {}
    BY <1>1
  <1>3. ASSUME pc = "best" PROVE SameTip
    <2>1. Len(data) = height + 1 /\ data # <<>>
      BY <1>1, <1>3 DEF Stacked
    <2>2. Last(data) \in Path[tip] /\ Last(data) = data[Len(data)]
      BY <1>3, <2>1 DEF SyncInv, Fetching, Last
    <2>3. Height[Last(data)] = Height[tip]
      BY <1>1, <2>1, <2>2 DEF Stacked
    <2> QED BY <1>1, <2>1, <2>2, <2>3, BranchShape DEF SameTip
  <1> QED BY <1>2, <1>3 DEF ChainChanged

=============================================================================
