----------------------------- MODULE ChainSync -----------------------------
(***************************************************************************)
(* wallet::chain: the cached copy of the best chain that reconciliation and *)
(* the wallet work on, brought up to date over the node's RPC one call at a *)
(* time.  Each RPC is a step and the best tip moves between them.  The mutex *)
(* around the cache lets one caller in at a time, and an error keeps the    *)
(* cache as it is.  ServiceSync puts these calls under Service's follower.  *)
(***************************************************************************)
EXTENDS Chain, SequencesExt

CONSTANTS
    Moves,      \* the pairs <<a, b>> such that the tip may go from a to b
    CallMoves   \* those it may make during a call

VARIABLES
    tip,        \* the node's best tip
    data,       \* the cached blocks, the block of height 0 first
    pc,         \* the RPC that comes next
    height,     \* what getblockcount answered
    want,       \* what getblockhash answered
    out         \* what the last successful call returned

vars == <<tip, data, pc, height, want, out>>

TypeOK ==
    /\ tip \in Blocks
    /\ data \in Seq(Blocks)
    /\ pc \in {"idle", "count", "check", "hash", "block", "best"}
    /\ height \in Nat
    /\ want \in Blocks
    /\ out \in Seq(Blocks)

Init ==
    /\ tip = Genesis
    /\ data = <<>> /\ out = <<>>
    /\ pc = "idle" /\ height = 0 /\ want = Genesis

\* getblockhash h: the block of height h on the best chain, if there is one.
BlockAt(h) == {b \in Path[tip] : Height[b] = h}

TipMoves(b) ==
    /\ <<tip, b>> \in (IF pc = "idle" THEN Moves ELSE CallMoves)
    /\ tip' = b
    /\ UNCHANGED <<data, pc, height, want, out>>

Call ==
    /\ pc = "idle" /\ pc' = "count"
    /\ UNCHANGED <<tip, data, height, want, out>>

\* The node does not answer, or the chain changed.  What was fetched stays.
Error ==
    /\ pc # "idle" /\ pc' = "idle"
    /\ UNCHANGED <<tip, data, height, want, out>>

Count ==
    /\ pc = "count" /\ pc' = "check"
    /\ height' = Height[tip]
    /\ UNCHANGED <<tip, data, want, out>>

\* Fault: a block that is not too high is taken to be still there.
Surviving_Unread == data # <<>> => Len(data) - 1 <= height

\* The newest cached block is on the best chain.
Surviving ==
    data # <<>> => Len(data) - 1 <= height /\ Last(data) \in BlockAt(Len(data) - 1)

\* Cached blocks are dropped from the newest on, until one survives.
Keep ==
    /\ pc = "check" /\ Surviving
    /\ pc' = "hash"
    /\ UNCHANGED <<tip, data, height, want, out>>

Drop ==
    /\ pc = "check" /\ ~ Surviving
    /\ Len(data) - 1 <= height => BlockAt(Len(data) - 1) # {}
    /\ data' = Front(data)
    /\ UNCHANGED <<tip, pc, height, want, out>>

\* The missing heights are fetched in order: the hash, then the block.
GetHash ==
    /\ pc = "hash" /\ Len(data) <= height
    /\ want' \in BlockAt(Len(data))
    /\ pc' = "block"
    /\ UNCHANGED <<tip, data, height, out>>

GetBlock ==
    /\ pc = "block" /\ pc' = "hash"
    /\ data' = Append(data, want)
    /\ UNCHANGED <<tip, height, want, out>>

Fetched ==
    /\ pc = "hash" /\ Len(data) > height
    /\ pc' = "best"
    /\ UNCHANGED <<tip, data, height, want, out>>

\* Fault: the best block is not asked for again.
SameTip_Unasked == data # <<>>

\* getbestblockhash is the last block fetched.
SameTip == data # <<>> /\ Last(data) = tip

\* The node no longer has the block asked for, or has left the last one fetched.
ChainChanged ==
    \/ pc = "check" /\ data # <<>> /\ Len(data) - 1 \in Height[tip]+1..height
    \/ pc = "hash" /\ Len(data) \in Height[tip]+1..height
    \/ pc = "best" /\ ~ SameTip

Return ==
    /\ pc = "best" /\ SameTip
    /\ out' = data /\ pc' = "idle"
    /\ UNCHANGED <<tip, data, height, want>>

Next ==
    \/ \E b \in Blocks : TipMoves(b)
    \/ Call \/ Count \/ Keep \/ Drop \/ GetHash \/ GetBlock \/ Fetched \/ Return
    \/ Error

Spec == Init /\ [][Next]_vars

----------------------------------------------------------------------------
\* The blocks of b's branch, Genesis first.
IsBranch(blocks, b) ==
    /\ Range(blocks) = Path[b]
    /\ \A i \in DOMAIN blocks : Height[blocks[i]] = i - 1

\* The cache is a branch of the tree, whatever was orphaned between two calls
\* and wherever a call was given up.
CacheIsBranch == data # <<>> => IsBranch(data, Last(data))

\* What a call returns is the branch of the best tip at that moment.  The last
\* block is compared with the tip so that the chain cannot have changed during
\* the call; that is not enough when a reorganisation overtakes it.
ReturnsBestChain == [][out' # out => IsBranch(out', tip)]_vars

\* In every call: one block per height in the cache, whatever their branches.
Stacked ==
    /\ TypeOK
    /\ \A i \in DOMAIN data : Height[data[i]] = i - 1
    /\ pc = "hash" => Len(data) <= height + 1
    /\ pc = "block" => Len(data) <= height /\ Height[want] = Len(data)
    /\ pc = "best" => Len(data) = height + 1

\* In a call during which the chain only grows: what is fetched continues the
\* cache on the best chain.
Fetching ==
    /\ pc \in {"hash", "block", "best"} /\ data # <<>> => Last(data) \in Path[tip]
    /\ pc = "block" => want \in Path[tip] /\ Height[want] = Len(data)

SyncInv == TypeOK /\ CacheIsBranch /\ Fetching

=============================================================================
