------------------------------- MODULE Chain -------------------------------
(***************************************************************************)
(* The block chain as the preconfirmation service sees it: the consensus    *)
(* layer is the embedded Zakura node (zakura-chain, zakura-consensus,       *)
(* zakura-state), none of which is in this repository.  It is modelled from *)
(* how src/p2p.rs and src/wallet.rs use it and marked external.             *)
(*                                                                          *)
(* The tree of all blocks that ever exist is a constant; what varies is     *)
(* which of them is the best tip, and that variable belongs to the modules  *)
(* that extend this one.  A block's hash is the block itself.               *)
(***************************************************************************)
EXTENDS Integers, FiniteSets

CONSTANTS
    Blocks,     \* every block of every branch
    Genesis,    \* the block all branches share
    Path,       \* Path[b]: b and its ancestors
    Height,     \* Height[b]: the height of b
    Body,       \* Body[b]: the transactions b contains
    Payees,     \* Payees[b]: the configured miners b's coinbase pays
    Txs,        \* merchants' transactions
    PayTxs,     \* payout transactions the service's wallet can build
    Spends,     \* Spends[t]: the Ironwood nullifiers t reveals
    Anchor,     \* Anchor[t]: the block whose note tree t proves against, if there is one
    Expiry,     \* Expiry[t]: the last height that may contain t, 0 for none
    None        \* an absent Option

AllTxs == Txs \cup PayTxs

Nullifiers == UNION {Spends[t] : t \in AllTxs}

ASSUME ChainShape ==
    /\ Genesis \in Blocks
    /\ None \notin Blocks \cup AllTxs
    /\ Txs \cap PayTxs = {}
    /\ Path \in [Blocks -> SUBSET Blocks]
    /\ Height \in [Blocks -> Nat]
    /\ Body \in [Blocks -> SUBSET AllTxs]
    /\ Anchor \in [AllTxs -> Blocks \cup {None}]
    /\ Expiry \in [AllTxs -> Nat]

\* A branch starts at Genesis, holds one block per height and contains the
\* branch of each of its blocks, each within that of the next.
ASSUME BranchShape ==
    \A b \in Blocks :
        /\ b \in Path[b]
        /\ Genesis \in Path[b]
        /\ \A c \in Path[b] : Path[c] \subseteq Path[b]
        /\ \A c, d \in Path[b] : Height[c] = Height[d] => c = d
        /\ \A c, d \in Path[b] : Height[c] <= Height[d] => c \in Path[d]
        /\ \A c \in Path[b] : Height[c] <= Height[b]

\* Consensus: on one branch a transaction is mined once and a nullifier is
\* revealed once.
ASSUME BranchConsensus ==
    \A b \in Blocks : \A c, d \in Path[b] :
        /\ Body[c] \cap Body[d] # {} => c = d
        /\ \A t \in Body[c], u \in Body[d] :
              Spends[t] \cap Spends[u] # {} => t = u

\* The transactions, and the nullifiers, of a set of blocks.
TxsIn(blocks) == UNION {Body[c] : c \in blocks}

SpentIn(blocks) == UNION {Spends[t] : t \in TxsIn(blocks)}

TxsOn(b) == TxsIn(Path[b])

SpentOn(b) == SpentIn(Path[b])

\* The blocks that mined t (on one branch a set of at most one).
MinedIn(t, blocks) == {c \in blocks : t \in Body[c]}

\* One block for each height up to b, which is the last of them.
IsStack(blocks, b) ==
    /\ b \in blocks /\ blocks \subseteq Blocks
    /\ \A c \in blocks : Height[c] <= Height[b]
    /\ \A c, d \in blocks : Height[c] = Height[d] => c = d
    /\ \A h \in 0..Height[b] : \E c \in blocks : Height[c] = h

\* The node goes from a to b by a reorganisation, not by mining on.
Reorganises(a, b) == ~ Path[a] \subseteq Path[b]

\* What a copy of the chain with tip b holds, read one block at a time: the
\* branch of b, or a mixture when the reading was overtaken.
Copies(b, overtaken) ==
    IF overtaken THEN {blocks \in SUBSET Blocks : IsStack(blocks, b)} ELSE {Path[b]}

\* p2p::verify with the node's tip at b: the consensus rules for a mempool
\* transaction of the next height.  A transaction without Ironwood spends, an
\* anchor that is not on the branch, a nullifier the branch has revealed or a
\* past expiry height is refused.
Valid(t, b) ==
    /\ Spends[t] # {}
    /\ Anchor[t] \in Path[b]
    /\ Spends[t] \cap SpentOn(b) = {}
    /\ Expiry[t] # 0 => Height[b] + 1 <= Expiry[t]

=============================================================================
