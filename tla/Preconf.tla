------------------------------ MODULE Preconf ------------------------------
(***************************************************************************)
(* The whole path of a preconfirmed transaction: the service and a miner,   *)
(* two processes each with a node of its own, joined by the request frame   *)
(* of src/p2p.rs.  Service and Miner are taken as they are; a snapshot on   *)
(* offer is no longer the environment's choice but the answer the service   *)
(* gives from its feed.                                                     *)
(***************************************************************************)
EXTENDS Service

CONSTANT Timeouts   \* as in Miner

ASSUME PreconfParams == Timeouts \subseteq Txs

VARIABLES
    mtip,       \* the best tip of the miner's node
    mpc,        \* where the miner's loop is
    last, changed, parent, next, chosen, template   \* as in Miner

miner == <<mtip, mpc, last, changed, parent, next, chosen, template>>
both  == <<vars, miner>>

\* PendingService::request_frame: the published snapshot, or an error frame
\* when there is none yet or it does not fit.
Answer ==
    IF feed.tip = None \/ Len(feed.txs) > Cap THEN None ELSE feed

M == INSTANCE Miner WITH
        tip <- mtip, pc <- mpc, offer <- Answer,
        Snapshots <- [tip : Blocks, txs : Seq(Txs)]

PreconfInit == Init /\ M!Init

----------------------------------------------------------------------------
Serves == Next /\ UNCHANGED miner

\* The miner's node follows the same network on its own.
MinerTipMoves(b) == UNCHANGED vars /\ M!TipMoves(b)

Mines == UNCHANGED vars /\ M!Round

\* The miner's process stops, or its loop ends in an error, and starts again on
\* a block its node had finalized: neither snapshot nor template is kept.
MinerRestarts(b) ==
    /\ crashes > 0 /\ crashes' = crashes - 1
    /\ b \in Path[mtip] /\ mtip' = b
    /\ mpc' = "sleep" /\ last' = None /\ changed' = FALSE
    /\ parent' = Genesis /\ next' = 1 /\ chosen' = <<>> /\ template' = None
    /\ UNCHANGED <<node, store, sub, follower, faults>>

PreconfNext ==
    \/ Serves \/ Mines
    \/ \E b \in Blocks : MinerTipMoves(b) \/ MinerRestarts(b)

PreconfSpec == PreconfInit /\ [][PreconfNext]_both

\* Each process is scheduled as it is on its own.
FairPreconfSpec ==
    /\ PreconfSpec
    /\ SF_both(Follower /\ UNCHANGED miner)
    /\ WF_both(SubmissionEnds /\ UNCHANGED miner)
    /\ WF_both(Mines)
    /\ SF_both(UNCHANGED vars /\ M!FetchSnapshot)

----------------------------------------------------------------------------
\* s is drawn from the transactions of records, in the order of acceptance.
DrawnFrom(s, records) == Subsequence(s, Accepted(records))

\* A miner never puts first what has no receipt, nor in another order than the
\* receipts were given in: across a failed save, a crash of the service or a
\* stale snapshot, all that is in a template is in the service's database.
TemplateReceipted ==
    /\ template # None => DrawnFrom(template.txs, disk.records)
    /\ last # None => DrawnFrom(last.txs, disk.records)

\* Behind TemplateReceipted: what a round has chosen so far is taken, in order,
\* from the part of the snapshot it has been through.
Sifting ==
    mpc = "verify" =>
        /\ last # None /\ next \in 1..Len(last.txs) + 1
        /\ Subsequence(chosen, SubSeq(last.txs, 1, next - 1))

\* A merchant's receipt comes to something: when the best chain stands still,
\* known to both nodes, the miner's template is for it and holds every accepted
\* transaction that can be mined next.
ReceiptsServed ==
    \A b \in Blocks :
        <>[](tip = b /\ mtip = b /\ ~ Behind)
            => <>[](M!TemplateOf(Accepted(disk.records), b))

=============================================================================
