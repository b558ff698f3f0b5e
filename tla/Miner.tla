------------------------------- MODULE Miner -------------------------------
(***************************************************************************)
(* The miner's loop of src/p2p.rs (`miner`): every half second it fetches   *)
(* the service's snapshot, verifies its transactions again at the tip of    *)
(* its own node and hands the node the ones that go first into its block    *)
(* template.  The service and the network to it are the environment: the    *)
(* snapshot on offer changes, and a fetch may fail.                         *)
(***************************************************************************)
EXTENDS Chain, Subsequences, SequencesExt

CONSTANTS
    Moves,      \* the pairs <<a, b>> such that the miner's tip may go from a to b
    Snapshots,  \* what the service may offer: its tip and its transactions
    Timeouts    \* the transactions whose verification may fail although valid

\* The node leaves a tip only for one with more work; height stands for work.
ASSUME BestChain ==
    /\ Moves \subseteq Blocks \X Blocks
    /\ \A m \in Moves : Height[m[1]] < Height[m[2]]

ASSUME MinerParams ==
    /\ Snapshots \subseteq [tip : Blocks, txs : Seq(Txs)]
    /\ Timeouts \subseteq Txs

VARIABLES
    tip,        \* the best tip of the miner's node
    offer,      \* the service's snapshot
    pc,         \* where the loop is
    last,       \* the last snapshot fetched
    changed,    \* it differs from the one before
    parent,     \* the tip the template is built on
    next,       \* the transaction of `last` that is verified next
    chosen,     \* the transactions that passed, in order
    template    \* node.preconf: a parent and its priority transactions

vars == <<tip, offer, pc, last, changed, parent, next, chosen, template>>

TypeOK ==
    /\ tip \in Blocks
    /\ offer \in Snapshots \cup {None}
    /\ pc \in {"sleep", "fetch", "decide", "verify"}
    /\ last \in Snapshots \cup {None}
    /\ changed \in BOOLEAN
    /\ parent \in Blocks
    /\ next \in Nat
    /\ chosen \in Seq(Txs)
    /\ template \in [parent : Blocks, txs : Seq(Txs)] \cup {None}

Init ==
    /\ tip = Genesis /\ offer = None
    /\ pc = "sleep" /\ last = None /\ changed = FALSE
    /\ parent = Genesis /\ next = 1 /\ chosen = <<>>
    /\ template = None

----------------------------------------------------------------------------
(* The environment.                                                         *)

TipMoves(b) ==
    /\ <<tip, b>> \in Moves
    /\ tip' = b
    /\ UNCHANGED <<offer, pc, last, changed, parent, next, chosen, template>>

Offers(s) ==
    /\ offer' = s
    /\ UNCHANGED <<tip, pc, last, changed, parent, next, chosen, template>>

----------------------------------------------------------------------------
(* One round of the loop.                                                   *)

Tick ==
    /\ pc = "sleep" /\ pc' = "fetch"
    /\ changed' = FALSE
    /\ UNCHANGED <<tip, offer, last, parent, next, chosen, template>>

\* The server's peer answers with a snapshot.
FetchSnapshot ==
    /\ pc = "fetch" /\ pc' = "decide"
    /\ offer # None
    /\ changed' = (last # offer) /\ last' = offer
    /\ UNCHANGED <<tip, offer, parent, next, chosen, template>>

\* No peer, no answer in two seconds, or an error frame: the last snapshot
\* stays.
FetchFails ==
    /\ pc = "fetch" /\ pc' = "decide"
    /\ UNCHANGED <<tip, offer, last, changed, parent, next, chosen, template>>

\* Fault: only a new snapshot makes a new template.
UpToDate_Snapshot == ~ changed /\ template # None

\* Fault: only a new tip makes a new template.
UpToDate_Tip == template # None /\ template.parent = tip

\* The template is for this tip and the snapshot is no other than before.
UpToDate == ~ changed /\ template # None /\ template.parent = tip

Skip ==
    /\ pc = "decide"
    /\ last = None \/ UpToDate
    /\ pc' = "sleep"
    /\ UNCHANGED <<tip, offer, last, changed, parent, next, chosen, template>>

Build ==
    /\ pc = "decide"
    /\ last # None /\ ~ UpToDate
    /\ pc' = "verify" /\ parent' = tip
    /\ next' = 1 /\ chosen' = <<>>
    /\ UNCHANGED <<tip, offer, last, changed, template>>

Candidate == last.txs[next]

\* Fault: the transactions chosen before are not looked at.
Clashes_Never == FALSE

\* A transaction chosen before reveals a nullifier of the candidate.
Clashes == \E i \in DOMAIN chosen : Spends[chosen[i]] \cap Spends[Candidate] # {}

AtCandidate == pc = "verify" /\ next <= Len(last.txs)

Choose ==
    /\ AtCandidate /\ Valid(Candidate, tip) /\ ~ Clashes
    /\ chosen' = Append(chosen, Candidate) /\ next' = next + 1
    /\ UNCHANGED <<tip, offer, pc, last, changed, parent, template>>

PassOver ==
    /\ AtCandidate
    /\ ~ Valid(Candidate, tip) \/ Clashes \/ Candidate \in Timeouts
    /\ next' = next + 1
    /\ UNCHANGED <<tip, offer, pc, last, changed, parent, chosen, template>>

Verified == pc = "verify" /\ next > Len(last.txs)

\* Fault: the tip is not looked at again after the verification.
SameParent_Unread == TRUE

SameParent == tip = parent

Install ==
    /\ Verified /\ SameParent
    /\ template' = [parent |-> parent, txs |-> chosen]
    /\ pc' = "sleep"
    /\ UNCHANGED <<tip, offer, last, changed, parent, next, chosen>>

\* The tip moved: what was verified is of no use.
Discard ==
    /\ Verified /\ ~ SameParent
    /\ pc' = "sleep"
    /\ UNCHANGED <<tip, offer, last, changed, parent, next, chosen, template>>

Round ==
    \/ Tick \/ FetchSnapshot \/ FetchFails
    \/ Skip \/ Build \/ Choose \/ PassOver \/ Install \/ Discard

Next ==
    \/ \E b \in Blocks : TipMoves(b)
    \/ \E s \in Snapshots : Offers(s)
    \/ Round

\* The loop never stops, and an offer that stands is fetched some day.
Fairness == WF_vars(Round) /\ SF_vars(FetchSnapshot)

Spec == Init /\ [][Next]_vars

FairSpec == Spec /\ Fairness

----------------------------------------------------------------------------
\* Blocks on b can hold txs: each is valid there and no two spend the same note.
MinableOn(txs, b) ==
    /\ \A i \in DOMAIN txs : Valid(txs[i], b)
    /\ \A i, j \in DOMAIN txs : i # j => Spends[txs[i]] \cap Spends[txs[j]] = {}

\* What a template puts first can be mined on the template's parent, although
\* the tip moves while its transactions are verified one by one.
TemplateMinable ==
    template # None => MinableOn(template.txs, template.parent)

\* s is made of txs, in their order; one of txs that can be mined on b and is
\* not in s clashes with one that is, or could not be verified.
Fills(s, txs, b) ==
    /\ Subsequence(s, txs)
    /\ \A t \in ToSet(txs) \ Timeouts :
          Valid(t, b) => \E u \in ToSet(s) : t = u \/ Spends[t] \cap Spends[u] # {}

TemplateOf(txs, b) ==
    template # None /\ template.parent = b /\ Fills(template.txs, txs, b)

\* Between rounds, a template for the current tip is made of the last snapshot
\* fetched: one that differs from the template's refreshes it, also when the
\* tip moved while it was verified and the round was given up.
TemplateFresh ==
    pc = "sleep" /\ template # None /\ template.parent = tip =>
        TemplateOf(last.txs, tip)

\* Once the chain and the offer stand still, the template is the offer's.
Converges ==
    \A s \in Snapshots, b \in Blocks :
        <>[](offer = s /\ tip = b) => <>[]TemplateOf(s.txs, b)

\* Behind TemplateMinable and TemplateFresh: what is chosen so far can be mined
\* on the parent of this round and leaves out nothing it should hold, unless the
\* tip has left the parent, and then it is higher and so never comes back.
Choosing ==
    pc = "verify" =>
        /\ last # None /\ next \in 1..Len(last.txs) + 1
        /\ \/ /\ tip = parent /\ MinableOn(chosen, parent)
              /\ Fills(chosen, SubSeq(last.txs, 1, next - 1), parent)
           \/ Height[parent] < Height[tip]

\* The template is for a tip the node once had; a round under way is for that
\* tip or a later one.
Aging ==
    template # None =>
        /\ last # None
        /\ template.parent = tip \/ Height[template.parent] < Height[tip]
        /\ pc = "verify" => Height[template.parent] <= Height[parent]

\* Until a new snapshot is fetched, a template for the tip is made of the last.
Current ==
    /\ template # None /\ template.parent = tip
    /\ pc \in {"sleep", "fetch"} \/ (pc = "decide" /\ ~ changed)
    => TemplateOf(last.txs, tip)

MInv == TypeOK /\ Choosing /\ TemplateMinable /\ Aging /\ Current

=============================================================================
