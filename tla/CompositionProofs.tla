-------------------------- MODULE CompositionProofs --------------------------
(***************************************************************************)
(* The service composed with the RPCs its follower makes, and with a miner, *)
(* for every block tree of each node, every set of transactions and any     *)
(* number of failures, crashes and restarts.  With its calls one by one the *)
(* follower implements Service, so what is proved of Service holds of it;   *)
(* and what a miner puts first is in the service's database, in the order   *)
(* the receipts were given in.                                              *)
(***************************************************************************)
EXTENDS Preconf, ServiceSync, AgreementProofs

USE DEF fetched

----------------------------------------------------------------------------
(* The follower with wallet::chain call by call.                            *)

\* What SyncProofs shows of the calls.
Y == INSTANCE SyncProofs WITH pc <- rpc

\* The two instances of ChainSync are the same.
LEMMA SameCalls ==
  /\ S!Stacked = Y!Stacked /\ S!SyncInv = Y!SyncInv
  /\ S!Stacked' = Y!Stacked' /\ S!SyncInv' = Y!SyncInv'
  /\ S!SameTip = Y!SameTip /\ S!ChainChanged = Y!ChainChanged
  BY DEF S!Stacked, Y!Stacked, S!TypeOK, Y!TypeOK, S!SyncInv, Y!SyncInv,
         S!CacheIsBranch, Y!CacheIsBranch, S!IsBranch, Y!IsBranch, S!Fetching, Y!Fetching,
         S!SameTip, Y!SameTip, S!ChainChanged, Y!ChainChanged,
         S!Last, Y!Last, S!Range, Y!Range

\* A call of wallet::chain keeps its copy in shape.
CallStep ==
  S!Call \/ S!Count \/ S!Keep \/ S!Drop \/ S!GetHash \/ S!GetBlock \/ S!Fetched
         \/ S!Return \/ S!Error

LEMMA CallKeeps ==
  ASSUME S!Stacked, CallStep
  PROVE  S!Stacked' /\ (S!SyncInv => S!SyncInv')
  <1>1. Y!CallStep
    BY DEF CallStep, Y!CallStep, S!Call, Y!Call, S!Count, Y!Count, S!Keep, Y!Keep,
           S!Surviving, Y!Surviving, S!BlockAt, Y!BlockAt, S!Drop, Y!Drop,
           S!GetHash, Y!GetHash, S!GetBlock, Y!GetBlock, S!Fetched, Y!Fetched,
           S!Return, Y!Return, S!SameTip, Y!SameTip, S!Error, Y!Error,
           S!Last, Y!Last, S!Front, Y!Front
  <1>2. Y!Stacked'
    BY <1>1, SameCalls, ChainShape, BranchShape, BranchConsensus, ServiceParams, Y!NextStacked
       DEF AllTxs, Y!AllTxs
  <1>3. Y!SyncInv => Y!SyncInv'
    BY <1>1, ChainShape, BranchShape, BranchConsensus, ServiceParams, Y!CallSync
       DEF AllTxs, Y!AllTxs
  <1> QED BY <1>2, <1>3, SameCalls

\* So does the chain when it grows; when it does not, only the heights are left.
LEMMA MoveKeeps ==
  ASSUME S!Stacked, NEW b \in Blocks, S!TipMoves(b)
  PROVE  /\ S!Stacked'
         /\ S!SyncInv /\ (rpc # "idle" => Path[tip] \subseteq Path[b]) => S!SyncInv'
  <1>1. Y!TipMoves(b)
    BY DEF S!TipMoves, Y!TipMoves
  <1>2. Y!Stacked'
    BY <1>1, SameCalls, ChainShape, BranchShape, BranchConsensus, ServiceParams,
       Y!NextStacked DEF AllTxs, Y!AllTxs
  <1>3. Y!SyncInv /\ (rpc # "idle" => Path[tip] \subseteq Path[b]) => Y!SyncInv'
    BY <1>1, ChainShape, BranchShape, BranchConsensus, ServiceParams, Y!TipStep
       DEF AllTxs, Y!AllTxs
  <1> QED BY <1>2, <1>3, SameCalls

\* A call that ends well returns one block for each height up to the tip, and the
\* branch of the tip if the cache is of one branch.
LEMMA CallReturns ==
  ASSUME S!Stacked, S!Return
  PROVE  /\ Last(out') = tip /\ IsStack(Range(out'), tip)
         /\ S!SyncInv => Range(out') = Path[tip]
  <1>1. S!SameTip /\ out' = data /\ tip \in Blocks
    BY DEF S!Return, S!Stacked, S!TypeOK
  <1>2. Y!IsStack(Y!Range(data), tip) /\ Y!Last(data) = tip
    BY <1>1, SameCalls, ChainShape, BranchShape, BranchConsensus, ServiceParams,
       Y!CopyIsStack DEF AllTxs, Y!AllTxs
  <1>3. Last(out') = tip /\ IsStack(Range(out'), tip)
    BY <1>1, <1>2 DEF Y!IsStack, IsStack, Y!Range, Range, Y!Last, Last
  <1>4. S!SyncInv => Range(out') = Path[tip]
    BY <1>1, <1>3 DEF S!SameTip, S!SyncInv, S!CacheIsBranch, S!IsBranch, S!Range, Range,
                      S!Last, Last
  <1> QED BY <1>3, <1>4

\* A call gives up for the chain's sake only if the tip is not where it began.
LEMMA GaveUpMoved ==
  ASSUME IInv, CallInv, pc = "fetch", S!ChainChanged
  PROVE  snap # tip \/ torn
  <1> SUFFICES ASSUME snap = tip, ~ torn PROVE FALSE
    OBVIOUS
  <1>1. tip \in Blocks /\ Height[tip] \in Nat /\ height \in Nat /\ rpc # "count"
    BY ChainShape DEF IInv, TypeOK, CallInv, S!Stacked, S!TypeOK, S!ChainChanged
  <1>2. height = Height[tip]
    BY <1>1 DEF CallInv, Counted
  <1> QED BY <1>2, SameCalls, ChainShape, BranchShape, BranchConsensus, ServiceParams,
             Y!StillThere DEF AllTxs, Y!AllTxs, CallInv

\* What the process and its clients do besides touches neither the follower's call
\* nor the tip.
LEMMA RestStep ==
  ASSUME Rest
  PROVE  /\ UNCHANGED <<tip, snap, chain, torn>>
         /\ pc' = pc \/ (pc # "fetch" /\ pc' # "fetch")
  BY DEF Rest, Submission, SubmitBegin, SubmitVerified, SubmitDropped, SubmitRefused,
         SubmitCommit, SubmitSaveFails, Lock, LockMoved, FollowerFailed, Records,
         RecordIncluded, RecordConflicts, RecordRequeued, RecordFails, Classify, AtRecord,
         Reconcile, Payouts, PayNext, PayDone, Sign, BuildFails, RecheckFails,
         RecheckGone, RecheckExpired, Block, Recheck, InMempool, NotInMempool, Send,
         SendReplyLost, Broadcast, RecordSent, SendRejected, Save, node, follower

\* Every step that is not an RPC of the call is one of Service, and so is the one
\* that ends it.
LEMMA SyncStep ==
  ASSUME IInv, CallInv, [SyncNext]_<<vars, cache>>
  PROVE  [Next]_vars
  <1>1. CASE Returns
    <2>1. /\ S!Return /\ snap' = Last(out') /\ chain' = Range(out')
          /\ torn' = (chain' # Path[snap']) /\ pc' = "lock"
          /\ UNCHANGED <<node, store, sub, idx, todo, cur, budget>>
      BY <1>1 DEF Returns
    <2>2. pc = "fetch"
      BY <2>1 DEF CallInv, S!Return
    <2>3. /\ snap' = tip /\ IsStack(chain', tip)
          /\ ~ torn => chain' = Path[tip]
      BY <2>1, CallReturns DEF CallInv
    <2>4. chain' \in Copies(tip, torn)
      BY <2>3 DEF Copies, IsStack
    <2> QED BY <2>1, <2>2, <2>3, <2>4 DEF Fetch, Next, Follower
  <1>2. CASE GivesUp
    <2>1. pc = "fetch"
      BY <1>2 DEF GivesUp, S!Error, CallInv
    <2> QED BY <1>2, <2>1, GaveUpMoved DEF GivesUp, FetchFails, Next, Follower
  <1>3. CASE Calls \/ Reads \/ UNCHANGED <<vars, cache>>
    BY <1>3 DEF Calls, Reads, Next, Follower
  <1>4. CASE Rest
    BY <1>4 DEF Rest, Next, Follower
  <1>5. CASE \E b \in Blocks : SyncMove(b) \/ SyncCrash(b)
    BY <1>5 DEF SyncMove, SyncCrash, Next, Environment
  <1> QED BY <1>1, <1>2, <1>3, <1>4, <1>5 DEF SyncNext

\* CallInv holds initially.
LEMMA InitCall == SyncInit => CallInv
  BY ChainShape DEF SyncInit, Init, S!Init, CallInv, S!Stacked, S!SyncInv, S!TypeOK,
                    S!CacheIsBranch, S!Fetching, Counted

\* Every step keeps CallInv.
LEMMA NextCall ==
  ASSUME IInv, CallInv, [SyncNext]_<<vars, cache>>
  PROVE  CallInv'
  <1>0. /\ S!Stacked /\ (rpc = "idle" <=> pc # "fetch")
        /\ ~ torn => S!SyncInv /\ Counted
        /\ tip \in Blocks /\ snap \in Blocks
    BY DEF CallInv, IInv, TypeOK
  <1>1. CASE Calls
    <2>1. /\ CallStep /\ rpc' = "count" /\ pc' = "fetch" /\ snap' = tip
          /\ UNCHANGED <<tip, torn>>
      BY <1>1 DEF Calls, CallStep, S!Call, Poll
    <2> QED BY <1>0, <2>1, CallKeeps DEF CallInv, Counted
  <1>2. CASE Reads
    <2>1. CallStep /\ UNCHANGED <<tip, torn, snap, pc>> /\ rpc # "idle" /\ rpc' # "idle"
      BY <1>2 DEF Reads, CallStep, S!Count, S!Keep, S!Drop, S!GetHash, S!GetBlock,
                  S!Fetched, vars, node, follower
    <2>2. \/ (rpc' = rpc \/ rpc # "count") /\ height' = height
          \/ height' = Height[tip]
      BY <1>2 DEF Reads, S!Count, S!Keep, S!Drop, S!GetHash, S!GetBlock, S!Fetched
    <2>3. Height[tip] \in Nat /\ Height[snap] \in Nat
      BY <1>0, ChainShape
    <2>4. Path[snap] \subseteq Path[tip] => Height[snap] <= Height[tip]
      BY <1>0, BranchShape
    <2>5. ~ torn => Counted'
      BY <1>0, <2>1, <2>2, <2>3, <2>4 DEF Counted
    <2> QED BY <1>0, <2>1, <2>5, CallKeeps DEF CallInv
  <1>3. CASE Returns
    <2>1. /\ CallStep /\ S!Return /\ rpc' = "idle" /\ pc' = "lock"
          /\ out' = data /\ data' = data /\ snap' = Last(out')
          /\ chain' = Range(out') /\ torn' = (chain' # Path[snap'])
      BY <1>3 DEF Returns, CallStep, S!Return
    <2>2. S!Stacked'
      BY <1>0, <2>1, CallKeeps
    <2>3. ~ torn' => S!SyncInv'
      BY <2>1, <2>2 DEF S!Stacked, S!SyncInv, S!CacheIsBranch, S!IsBranch, S!Fetching,
                        S!Range, Range, S!Last, Last
    <2> QED BY <2>1, <2>2, <2>3 DEF CallInv, Counted
  <1>4. CASE GivesUp
    <2>1. CallStep /\ rpc' = "idle" /\ pc' = "failed" /\ torn' = torn
      BY <1>4 DEF GivesUp, CallStep, S!Error
    <2> QED BY <1>0, <2>1, CallKeeps DEF CallInv, Counted
  <1>5. CASE UNCHANGED cache /\ (Rest \/ UNCHANGED vars)
    <2>1. /\ UNCHANGED <<tip, snap, torn>> /\ UNCHANGED <<rpc, data, height, want, out>>
          /\ pc' = pc \/ (pc # "fetch" /\ pc' # "fetch")
      BY <1>5, RestStep DEF vars, node, follower, cache
    <2>2. S!Stacked' /\ (S!SyncInv => S!SyncInv')
      BY <1>0, <2>1 DEF S!Stacked, S!TypeOK, S!SyncInv, S!CacheIsBranch, S!IsBranch,
                        S!Fetching
    <2>3. ~ torn => Counted'
      BY <1>0, <2>1 DEF Counted
    <2> QED BY <1>0, <2>1, <2>2, <2>3 DEF CallInv
  <1>6. ASSUME NEW b \in Blocks, SyncMove(b) PROVE CallInv'
    <2>1. /\ S!TipMoves(b) /\ UNCHANGED <<rpc, pc, snap, height>> /\ tip' = b
          /\ torn' = (torn \/ (pc = "fetch" /\ Reorganises(tip, b)))
      BY <1>6 DEF SyncMove, S!TipMoves, NodeMove
    <2>2. ~ torn' => ~ torn /\ (pc = "fetch" => Path[tip] \subseteq Path[b])
      BY <2>1 DEF Reorganises
    <2>3. Path[tip] \subseteq Path[b] => Height[tip] <= Height[b]
      BY <1>0, BranchShape
    <2>4. Height[tip] \in Nat /\ Height[b] \in Nat /\ Height[snap] \in Nat /\ height \in Nat
      BY <1>0, ChainShape DEF S!Stacked, S!TypeOK
    <2>5. ~ torn' => Counted'
      BY <1>0, <2>1, <2>2, <2>3, <2>4 DEF Counted
    <2> QED BY <1>0, <2>1, <2>2, <2>5, MoveKeeps DEF CallInv
  <1>7. ASSUME NEW b \in Blocks, SyncCrash(b) PROVE CallInv'
    BY <1>7, ChainShape, BranchShape
       DEF SyncCrash, Crash, CallInv, S!Stacked, S!SyncInv, S!TypeOK, S!CacheIsBranch,
           S!Fetching, Counted
  <1> QED BY <1>1, <1>2, <1>3, <1>4, <1>5, <1>6, <1>7 DEF SyncNext

\* Between the RPCs of a call the follower's place, the cache and what the call may
\* still return are related as CallInv says, wherever reorganisations, errors and
\* crashes fall.
THEOREM CallsAlways == SyncSpec => [](IInv /\ CallInv)
  <1>1. SyncInit => IInv /\ CallInv
    BY InitIInv, InitCall DEF SyncInit
  <1>2. IInv /\ CallInv /\ [SyncNext]_<<vars, cache>> => IInv' /\ CallInv'
    BY SyncStep, NextIInv, NextCall
  <1> QED BY <1>1, <1>2, PTL DEF SyncSpec

\* Call by call the follower does what Service says: every theorem about Service
\* is one about the follower with its RPCs.
THEOREM CallsImplement == SyncSpec => FollowsService
  <1>1. SyncInit => Init
    BY DEF SyncInit
  <1>2. IInv /\ CallInv /\ [SyncNext]_<<vars, cache>> => [Next]_vars
    BY SyncStep
  <1> QED BY <1>1, <1>2, CallsAlways, PTL DEF SyncSpec, Spec, FollowsService

\* The statuses in the database describe the branch of its tip, although the chain
\* is read RPC by RPC and moves in between, if it only grows during a call.
THEOREM CallsAgree ==
  ASSUME BestChain, CallGrows
  PROVE  SyncSpec => []LedgerAgrees
  <1>1. FollowsService <=> Spec
    BY DEF FollowsService
  <1> QED BY <1>1, CallsImplement, StatusesAgree, PTL

----------------------------------------------------------------------------
(* The service and a miner.                                                 *)

\* What the miner has is made of transactions.
MinerTypes ==
  /\ chosen \in Seq(Txs)
  /\ last # None => last.txs \in Seq(Txs)
  /\ template # None => template.txs \in Seq(Txs)

\* The inductive invariant of TemplateReceipted.
PInv == IInv /\ MinerTypes /\ Sifting /\ TemplateReceipted

\* The service's answer is drawn from the receipts.
LEMMA AnswerDrawn ==
  ASSUME IInv, Answer # None
  PROVE  Answer.txs \in Seq(Txs) /\ DrawnFrom(Answer.txs, disk.records)
  <1>1. Answer = feed /\ feed.tip # None
    BY DEF Answer
  <1>2. feed = PendingOf(disk) /\ disk.tip # None /\ disk \in LedgerType
    BY <1>1 DEF IInv, TypeOK, FeedIsDurable, PendingOf, NoSnapshot
  <1> QED BY <1>1, <1>2, PendingLeft DEF DrawnFrom

\* What was drawn from the receipts still is when receipts are added.
LEMMA StillDrawn ==
  ASSUME IInv, [Next]_vars, NEW s \in Seq(Txs), DrawnFrom(s, disk.records)
  PROVE  DrawnFrom(s, disk'.records)
  <1>1. IInv'
    BY NextIInv
  <1>2. Accepted(disk.records) \in Seq(Txs) /\ Accepted(disk'.records) \in Seq(Txs)
    BY <1>1, AcceptedType DEF IInv, TypeOK
  <1>3. IsPrefix(Accepted(disk.records), Accepted(disk'.records))
    BY AcceptedStep
  <1> QED BY <1>2, <1>3, LeftOfLonger DEF DrawnFrom

\* PInv holds initially.
LEMMA InitPInv == PreconfInit => PInv
  <1> SUFFICES ASSUME PreconfInit PROVE PInv
    OBVIOUS
  <1>1. IInv
    BY InitIInv DEF PreconfInit
  <1>2. /\ mpc = "sleep" /\ chosen = <<>> /\ last = None /\ template = None
    BY DEF PreconfInit, M!Init
  <1> QED BY <1>1, <1>2 DEF PInv, MinerTypes, Sifting, TemplateReceipted

\* The service goes on, and the miner's templates are as good as before.
LEMMA ServesStep ==
  ASSUME PInv, Serves
  PROVE  PInv'
  <1>1. [Next]_vars /\ UNCHANGED <<mtip, mpc, last, changed, parent, next, chosen, template>>
    BY DEF Serves, miner
  <1>2. IInv'
    BY <1>1, NextIInv DEF PInv
  <1>3. MinerTypes'
    BY <1>1 DEF PInv, MinerTypes
  <1>4. Sifting'
    BY <1>1 DEF PInv, Sifting
  <1>5. TemplateReceipted'
    BY <1>1, StillDrawn DEF PInv, TemplateReceipted, MinerTypes
  <1> QED BY <1>2, <1>3, <1>4, <1>5 DEF PInv

\* A miner that starts again has nothing.
LEMMA RestartsStep ==
  ASSUME PInv, NEW b \in Blocks, MinerRestarts(b)
  PROVE  PInv'
  <1>1. /\ crashes > 0 /\ crashes' = crashes - 1
        /\ UNCHANGED <<tip, mempool, sent, mem, disk, ready, recovering, feed, sub,
                       pc, fetched, idx, todo, cur, faults>>
        /\ mpc' = "sleep" /\ last' = None /\ chosen' = <<>> /\ template' = None
    BY DEF MinerRestarts, node, store, follower
  <1>2. TypeOK'
    BY <1>1, ServiceParams DEF PInv, IInv, TypeOK
  <1>3. IInv'
    BY <1>1, <1>2 DEF PInv, IInv, Holder, UniqueRecords, Working, KnownIsDurable, FeedIsDurable,
                      FeeAssignedOnce, AssignedOnce, SentIn
  <1> QED BY <1>1, <1>3 DEF PInv, MinerTypes, Sifting, TemplateReceipted

\* A step of the miner alone leaves the service as it is.
LEMMA ServiceStays ==
  ASSUME PInv, UNCHANGED vars
  PROVE  IInv' /\ disk' = disk
  BY NextIInv DEF PInv, vars, store

\* The miner's steps that choose nothing and install nothing.
LEMMA QuietStep ==
  ASSUME PInv, UNCHANGED vars,
         \/ \E b \in Blocks : M!TipMoves(b)
         \/ M!Tick \/ M!FetchSnapshot \/ M!FetchFails \/ M!Skip \/ M!Discard
  PROVE  PInv'
  <1> USE DEF M!TipMoves, M!Tick, M!FetchSnapshot, M!FetchFails, M!Skip, M!Discard
  <1>1. IInv' /\ disk' = disk
    BY ServiceStays
  <1>2. UNCHANGED <<next, chosen, template>>
    OBVIOUS
  <1>3. mpc' = "verify" => mpc = "verify" /\ last' = last
    OBVIOUS
  <1>4. last' = last \/ (last' = Answer /\ Answer # None)
    OBVIOUS
  <1>5. last' # None => last'.txs \in Seq(Txs) /\ DrawnFrom(last'.txs, disk.records)
    BY <1>4, AnswerDrawn DEF PInv, MinerTypes, TemplateReceipted
  <1>6. MinerTypes'
    BY <1>2, <1>5 DEF PInv, MinerTypes
  <1>7. Sifting'
    BY <1>2, <1>3 DEF PInv, Sifting
  <1>8. TemplateReceipted'
    BY <1>1, <1>2, <1>5 DEF PInv, TemplateReceipted
  <1> QED BY <1>1, <1>6, <1>7, <1>8 DEF PInv

\* A round starts with nothing chosen of nothing.
LEMMA BuildsStep ==
  ASSUME PInv, UNCHANGED vars, M!Build
  PROVE  PInv'
  <1>1. IInv' /\ disk' = disk
    BY ServiceStays
  <1>2. /\ UNCHANGED <<last, template>> /\ last # None
        /\ next' = 1 /\ chosen' = <<>>
    BY DEF M!Build
  <1>3. MinerTypes'
    BY <1>2 DEF PInv, MinerTypes
  <1>4. Sifting'
    <2>1. last.txs \in Seq(Txs)
      BY <1>2 DEF PInv, MinerTypes
    <2>2. 1 \in 1..Len(last.txs) + 1
      BY <2>1
    <2> QED BY <1>2, <2>2, NothingLeft DEF Sifting
  <1>5. TemplateReceipted'
    BY <1>1, <1>2 DEF PInv, TemplateReceipted
  <1> QED BY <1>1, <1>3, <1>4, <1>5 DEF PInv

\* A candidate is chosen behind those before it, or passed over.
LEMMA CandidateStep ==
  ASSUME PInv, UNCHANGED vars, M!Choose \/ M!PassOver
  PROVE  PInv'
  <1> DEFINE c == last.txs[next]
             seen == SubSeq(last.txs, 1, next - 1)
  <1>1. IInv' /\ disk' = disk
    BY ServiceStays
  <1>2. /\ UNCHANGED <<last, template>> /\ next' = next + 1
        /\ mpc = "verify" /\ next <= Len(last.txs)
        /\ chosen' = Append(chosen, c) \/ chosen' = chosen
    BY DEF M!Choose, M!PassOver, M!AtCandidate, M!Candidate
  <1>3. /\ last # None /\ last.txs \in Seq(Txs) /\ next \in 1..Len(last.txs)
        /\ chosen \in Seq(Txs) /\ Subsequence(chosen, seen)
    BY <1>2 DEF PInv, Sifting, MinerTypes
  <1>4. /\ c \in Txs /\ seen \in Seq(Txs) /\ next + 1 \in 1..Len(last.txs) + 1
        /\ SubSeq(last.txs, 1, (next + 1) - 1) = Append(seen, c)
    BY <1>3, UpTo
  <1> HIDE DEF c, seen
  <1>5. chosen' \in Seq(Txs) /\ Subsequence(chosen', Append(seen, c))
    <2>1. Subsequence(chosen, Append(seen, c))
      BY <1>3, <1>4, LeftOut
    <2>2. Append(chosen, c) \in Seq(Txs) /\ Subsequence(Append(chosen, c), Append(seen, c))
      BY <1>3, <1>4, TakenIn
    <2> QED BY <1>2, <1>3, <2>1, <2>2
  <1>6. MinerTypes'
    BY <1>2, <1>5 DEF PInv, MinerTypes
  <1>7. Sifting'
    BY <1>2, <1>3, <1>4, <1>5 DEF Sifting
  <1>8. TemplateReceipted'
    BY <1>1, <1>2 DEF PInv, TemplateReceipted
  <1> QED BY <1>1, <1>6, <1>7, <1>8 DEF PInv

\* A template is made of the whole snapshot, which is drawn from the receipts.
LEMMA InstallsStep ==
  ASSUME PInv, UNCHANGED vars, M!Install
  PROVE  PInv'
  <1>1. IInv' /\ disk' = disk
    BY ServiceStays
  <1>2. /\ mpc = "verify" /\ next > Len(last.txs) /\ mpc' = "sleep"
        /\ UNCHANGED <<last, next, chosen>> /\ template'.txs = chosen
    BY DEF M!Install, M!Verified
  <1>3. /\ last # None /\ last.txs \in Seq(Txs) /\ chosen \in Seq(Txs)
        /\ next \in 1..Len(last.txs) + 1
        /\ Subsequence(chosen, SubSeq(last.txs, 1, next - 1))
    BY <1>2 DEF PInv, Sifting, MinerTypes
  <1>4. SubSeq(last.txs, 1, next - 1) = last.txs
    <2>1. next - 1 = Len(last.txs)
      BY <1>2, <1>3
    <2> QED BY <1>3, <2>1
  <1>5. DrawnFrom(chosen, disk.records)
    <2>1. Accepted(disk.records) \in Seq(Txs)
      BY AcceptedType DEF PInv, IInv, TypeOK
    <2>2. Subsequence(last.txs, Accepted(disk.records))
      BY <1>3 DEF PInv, TemplateReceipted, DrawnFrom
    <2> QED BY <1>3, <1>4, <2>1, <2>2, LeftOfLeft DEF DrawnFrom
  <1>6. MinerTypes' /\ Sifting'
    BY <1>2, <1>3 DEF PInv, MinerTypes, Sifting
  <1>7. TemplateReceipted'
    BY <1>1, <1>2, <1>5 DEF PInv, TemplateReceipted
  <1> QED BY <1>1, <1>6, <1>7 DEF PInv

\* Every step of either process keeps PInv.
LEMMA NextPInv == PInv /\ [PreconfNext]_both => PInv'
  <1> SUFFICES ASSUME PInv, [PreconfNext]_both PROVE PInv'
    OBVIOUS
  <1>1. CASE UNCHANGED both
    <2>1. UNCHANGED vars /\ UNCHANGED <<mpc, last, next, chosen, template>>
      BY <1>1 DEF both, miner
    <2>2. IInv' /\ disk' = disk
      BY <2>1, ServiceStays
    <2> QED BY <2>1, <2>2 DEF PInv, MinerTypes, Sifting, TemplateReceipted
  <1>2. CASE Mines
    BY <1>2, QuietStep, BuildsStep, CandidateStep, InstallsStep DEF Mines, M!Round
  <1>3. ASSUME NEW b \in Blocks, MinerTipMoves(b) PROVE PInv'
    BY <1>3, QuietStep DEF MinerTipMoves
  <1> QED BY <1>1, <1>2, <1>3, ServesStep, RestartsStep DEF PreconfNext

\* What a miner puts first has a receipt, in the order of the receipts: across
\* failed saves, crashes of the service, restarts of the miner and stale snapshots.
THEOREM AlwaysReceipted == PreconfSpec => []TemplateReceipted
  <1>1. PInv => TemplateReceipted
    BY DEF PInv
  <1> QED BY <1>1, InitPInv, NextPInv, PTL DEF PreconfSpec

=============================================================================
