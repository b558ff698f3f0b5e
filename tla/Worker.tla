------------------------------- MODULE Worker -------------------------------
(***************************************************************************)
(* The wallet worker of src/main.rs (`preconf wallet`): a process that      *)
(* reads a line of payment requests at a time, builds them one after the    *)
(* other on one chain over wallet::create, and answers each line with all   *)
(* of them or with an error.  A request may be for a conflict: two          *)
(* transactions of different fees that spend the same note.                 *)
(*                                                                          *)
(* It composes with Wallet by its own calls of Create.  All requests are of *)
(* one seed.                                                                *)
(***************************************************************************)
EXTENDS Wallet

CONSTANTS
    Lines,      \* the lines that may be read: sequences of requests
    Surcharge   \* what the conflicting transaction of a request pays on top

Request == [fee : Nat, amount : Nat, conflict : BOOLEAN]

ASSUME WorkerParams == Lines \subseteq Seq(Request) /\ Surcharge \in Nat

VARIABLES
    blocks,     \* the chain the line is built on
    line,       \* the line that was read
    results,    \* what was built for it
    reserved,   \* the notes its transactions spend
    first,      \* the note of the conflict at hand
    stage,      \* where the worker is
    reply       \* the last line written

worker == <<blocks, line, results, reserved, first, stage, reply>>
all == <<vars, worker>>

Stages == {"read", "fetch", "payment", "paying", "conflict", "conflicting", "write"}

WorkerTypeOK ==
    /\ blocks \in Blocks
    /\ line \in Lines \cup {<<>>}
    /\ results \in Seq([payment : Notes, conflict : Notes \cup {None}])
    /\ reserved \subseteq Notes
    /\ stage \in Stages
    /\ stage \in {"conflict", "conflicting"} => first \in Notes
    /\ reply \in {"none", "result", "error"}

WorkerInit ==
    /\ Init
    /\ blocks = Genesis /\ line = <<>> /\ results = <<>> /\ reserved = {}
    /\ first = None /\ stage = "read" /\ reply = "none"

----------------------------------------------------------------------------
Read(l) ==
    /\ stage = "read"
    /\ line' = l /\ results' = <<>> /\ reserved' = {} /\ stage' = "fetch"
    /\ UNCHANGED <<vars, blocks, first, reply>>

\* wallet::chain: every request of the line is built on what it returns.
Fetch(b) ==
    /\ stage = "fetch"
    /\ b = blocks \/ <<blocks, b>> \in Moves
    /\ blocks' = b /\ stage' = "payment"
    /\ UNCHANGED <<vars, line, results, reserved, first, reply>>

\* The request at hand.
Current == line[Len(results) + 1]

\* The more expensive version is built first, to select a note for both.
SelectionFee(r) == IF r.conflict THEN r.fee + Surcharge ELSE r.fee

Payment ==
    /\ stage = "payment" /\ Len(results) < Len(line)
    /\ Create(blocks, [fee |-> SelectionFee(Current), amount |-> Current.amount,
                       reserved |-> reserved, inputs |-> Notes])
    /\ stage' = "paying"
    /\ UNCHANGED <<blocks, line, results, reserved, first, reply>>

Paid ==
    /\ stage = "paying" /\ pc = "found" /\ ~ Current.conflict
    /\ results' = Append(results, [payment |-> input, conflict |-> None])
    /\ reserved' = reserved \cup {input}
    /\ stage' = "payment"
    /\ UNCHANGED <<vars, blocks, line, first, reply>>

PaidConflict ==
    /\ stage = "paying" /\ pc = "found" /\ Current.conflict
    /\ first' = input /\ stage' = "conflict"
    /\ UNCHANGED <<vars, blocks, line, results, reserved, reply>>

\* Fault: the note of the first transaction is reserved against the second.
Conflict_Reserved ==
    /\ stage = "conflict"
    /\ Create(blocks, [fee |-> Current.fee, amount |-> Current.amount,
                       reserved |-> reserved \cup {first}, inputs |-> {first}])
    /\ stage' = "conflicting"
    /\ UNCHANGED <<blocks, line, results, reserved, first, reply>>

\* Fault: the second transaction takes any free note.
Conflict_Any ==
    /\ stage = "conflict"
    /\ Create(blocks, [fee |-> Current.fee, amount |-> Current.amount,
                       reserved |-> reserved, inputs |-> Notes])
    /\ stage' = "conflicting"
    /\ UNCHANGED <<blocks, line, results, reserved, first, reply>>

\* The payment itself: the same note by its nullifier, at the ordinary fee.
Conflict ==
    /\ stage = "conflict"
    /\ Create(blocks, [fee |-> Current.fee, amount |-> Current.amount,
                       reserved |-> {}, inputs |-> {first}])
    /\ stage' = "conflicting"
    /\ UNCHANGED <<blocks, line, results, reserved, first, reply>>

\* Fault: a conflict reserves nothing.
PaidBoth_Unreserved ==
    /\ stage = "conflicting" /\ pc = "found"
    /\ results' = Append(results, [payment |-> input, conflict |-> first])
    /\ stage' = "payment"
    /\ UNCHANGED <<vars, blocks, line, reserved, first, reply>>

PaidBoth ==
    /\ stage = "conflicting" /\ pc = "found"
    /\ results' = Append(results, [payment |-> input, conflict |-> first])
    /\ reserved' = reserved \cup {first}
    /\ stage' = "payment"
    /\ UNCHANGED <<vars, blocks, line, first, reply>>

Reply(r) ==
    /\ reply' = r /\ stage' = "write"
    /\ UNCHANGED <<vars, blocks, line, results, reserved, first>>

AllPaid ==
    /\ stage = "payment" /\ Len(results) = Len(line)
    /\ Reply("result")

\* Fault: a payment that found no note is tried again.
Unfunded_Retried ==
    /\ stage \in {"paying", "conflicting"} /\ pc = "failed"
    /\ stage' = "payment"
    /\ UNCHANGED <<vars, blocks, line, results, reserved, first, reply>>

\* No note for one request: what was built for the line is dropped.
Unfunded ==
    /\ stage \in {"paying", "conflicting"} /\ pc = "failed"
    /\ Reply("error")

\* The RPC fails, a request is malformed, or a transaction cannot be built.
Fails ==
    /\ \/ stage \in {"fetch", "payment", "conflict"}
       \/ stage \in {"paying", "conflicting"} /\ pc = "found"
    /\ Reply("error")

Write ==
    /\ stage = "write" /\ stage' = "read"
    /\ UNCHANGED <<vars, blocks, line, results, reserved, first, reply>>

\* The wallet at work on the call at hand.
Building ==
    /\ stage \in {"paying", "conflicting"}
    /\ Sync /\ UNCHANGED worker

----------------------------------------------------------------------------
Works ==
    \/ \E b \in Blocks : Fetch(b)
    \/ Payment \/ Paid \/ PaidConflict \/ Conflict \/ PaidBoth
    \/ AllPaid \/ Unfunded \/ Write
    \/ Building

WorkerNext == (\E l \in Lines : Read(l)) \/ Works \/ Fails

WorkerSpec == WorkerInit /\ [][WorkerNext]_all

\* The worker does one thing at a time and goes on with it: RPCs and proofs
\* have an end.
FairWorkerSpec == WorkerSpec /\ WF_all(Works)

----------------------------------------------------------------------------
\* The transactions built for one line can all be mined in one block: no two
\* of its payments spend the same note, and none a note that is spent.
PaymentsApart ==
    \A i, j \in DOMAIN results :
        /\ results[i].payment \notin SpentOn(blocks)
        /\ results[i].payment = results[j].payment => i = j

\* A conflict is one: both of its transactions spend the same note.
ConflictsCompete ==
    \A i \in DOMAIN results :
        results[i].conflict \in {None, results[i].payment}

\* A conflict whose expensive version was funded never fails for its cheap one,
\* although the cheap one may make the wallet start over at a lower cutoff.
SecondFunded == stage = "conflicting" => pc # "failed"

\* Every line is answered.
LinesAnswered == stage = "fetch" ~> stage = "write"

----------------------------------------------------------------------------
(* The inductive invariant behind them.                                     *)

\* The note can be spent on the line's chain.
Spendable(n) ==
    n \in ToSet(Tree[blocks]) \ SpentOn(blocks) /\ Value[n] > 0

\* What is built so far spends reserved notes of the line's chain.
BuiltSoFar ==
    /\ stage = "fetch" => results = <<>>
    /\ stage = "payment" => Len(results) <= Len(line)
    /\ stage \in {"paying", "conflict", "conflicting"} => Len(results) < Len(line)
    /\ \A i \in DOMAIN results :
          results[i].payment \in reserved /\ results[i].payment \notin SpentOn(blocks)

\* The call the wallet works on is for the request at hand, on the line's chain.
CallAtHand ==
    /\ stage \notin {"paying", "conflicting"} => pc # "scan"
    /\ stage \in {"paying", "conflicting"} => pc # "idle" /\ chain = blocks
    /\ stage = "paying" =>
          call = [fee |-> SelectionFee(Current), amount |-> Current.amount,
                  reserved |-> reserved, inputs |-> Notes]
    /\ stage = "conflicting" =>
          call = [fee |-> Current.fee, amount |-> Current.amount,
                  reserved |-> {}, inputs |-> {first}]

\* The note that was selected for a conflict can pay for its cheap version.
FirstAtHand ==
    stage \in {"conflict", "conflicting"} =>
        /\ first \notin reserved /\ Spendable(first)
        /\ Value[first] >= Current.fee + Current.amount

WorkerInv ==
    /\ WInv /\ WorkerTypeOK
    /\ BuiltSoFar /\ CallAtHand /\ FirstAtHand
    /\ PaymentsApart /\ ConflictsCompete

=============================================================================
