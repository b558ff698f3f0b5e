------------------------------ MODULE Promise ------------------------------
(***************************************************************************)
(* What the preconfirmation service promises, without its chain, ledger,    *)
(* tasks, failures and restarts: a receipt is for ever, miners are offered  *)
(* accepted transactions in the order they were accepted, and the fee of an *)
(* accepted transaction is paid out by at most one payout transaction.      *)
(* Service implements this specification.                                   *)
(***************************************************************************)
EXTENDS Subsequences, SequencesExt

CONSTANTS
    Txs,        \* merchants' transactions
    PayTxs,     \* payout transactions
    None        \* no offer

VARIABLES
    accepted,   \* the transactions with a receipt, in order
    offered,    \* what a miner that asks now is given, or None
    paid        \* the payouts the node was given, with what they pay for

vars == <<accepted, offered, paid>>

Init == accepted = <<>> /\ offered = None /\ paid = {}

\* A receipt is given once, and its transaction is offered from then on.
Accept(t) ==
    /\ t \notin ToSet(accepted)
    /\ accepted' = Append(accepted, t)
    /\ Subsequence(offered', accepted')
    /\ offered' # <<>> /\ Last(offered') = t
    /\ UNCHANGED paid

\* The chain has moved, or the service has stopped.
Offer ==
    /\ offered' = None \/ Subsequence(offered', accepted)
    /\ UNCHANGED <<accepted, paid>>

\* Transactions no payout has paid for are paid for by one.
Pay(q, txs) ==
    /\ txs # {} /\ txs \subseteq ToSet(accepted)
    /\ \A p \in paid : p.txs \cap txs = {}
    /\ paid' = paid \cup {[raw |-> q, txs |-> txs]}
    /\ UNCHANGED <<accepted, offered>>

Next ==
    \/ \E t \in Txs : Accept(t)
    \/ Offer
    \/ \E q \in PayTxs, txs \in SUBSET Txs : Pay(q, txs)

Spec == Init /\ [][Next]_vars

=============================================================================
