---------------------------- MODULE ServiceSync ----------------------------
(***************************************************************************)
(* The follower of Service with wallet::chain call by call: what its Fetch  *)
(* does in one step are here the RPCs of ChainSync, between which the node  *)
(* moves and merchants submit.  The cache belongs to the process.           *)
(***************************************************************************)
EXTENDS Service

VARIABLES
    rpc,        \* the RPC of wallet::chain that comes next
    data, height, want, out     \* as in ChainSync

cache == <<rpc, data, height, want, out>>

S == INSTANCE ChainSync WITH pc <- rpc

SyncInit == Init /\ S!Init

----------------------------------------------------------------------------
Calls == Poll /\ S!Call

Reads ==
    /\ S!Count \/ S!Keep \/ S!Drop \/ S!GetHash \/ S!GetBlock \/ S!Fetched
    /\ UNCHANGED vars

\* The follower goes on with the copy it is given; its last block is the tip.
Returns ==
    /\ S!Return
    /\ snap' = Last(out') /\ chain' = Range(out') /\ torn' = (chain' # Path[snap'])
    /\ pc' = "lock"
    /\ UNCHANGED <<node, store, sub, idx, todo, cur, budget>>

\* `?` on any RPC, or the comparison at the end of the call.
GivesUp ==
    /\ S!Error
    /\ \/ S!ChainChanged /\ UNCHANGED budget
       \/ Fault("rpc")
    /\ pc' = "failed"
    /\ UNCHANGED <<node, store, sub, fetched, idx, todo, cur>>

\* All the process and its clients do besides.
Rest ==
    \/ Submission
    \/ Lock \/ LockMoved \/ FollowerFailed \/ Records \/ Reconcile \/ Payouts

SyncMove(b) == NodeMove(b) /\ S!TipMoves(b)

SyncCrash(b) ==
    /\ Crash(b)
    /\ rpc' = "idle" /\ data' = <<>> /\ height' = 0 /\ want' = Genesis /\ out' = <<>>

SyncNext ==
    \/ Calls \/ Reads \/ Returns \/ GivesUp
    \/ Rest /\ UNCHANGED cache
    \/ \E b \in Blocks : SyncMove(b) \/ SyncCrash(b)

SyncSpec == SyncInit /\ [][SyncNext]_<<vars, cache>>

----------------------------------------------------------------------------
\* However the chain moves between the RPCs, their calls end as Fetch says: a
\* call that no reorganisation has overtaken returns the branch of the best tip.
FollowsService == Spec

\* In a call that no reorganisation has overtaken the tip is still on top of the
\* one it began at, and the count was made in between.
Counted ==
    pc = "fetch" =>
        /\ Path[snap] \subseteq Path[tip]
        /\ rpc # "count" => Height[snap] <= height /\ height <= Height[tip]

\* Behind it: the cache holds one block per height, of one branch unless torn,
\* and the follower is in a call exactly while an RPC is under way.
CallInv ==
    /\ rpc = "idle" <=> pc # "fetch"
    /\ S!Stacked
    /\ ~ torn => S!SyncInv /\ Counted

=============================================================================
