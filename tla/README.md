# Verification of the Zcash preconfirmation service

TLA+ models of the service in `src/src`: merchants submit Ironwood-only
transactions with a fee for the service and get a signed receipt; miners fetch
the accepted transactions over P2P and put them first in their blocks; the
service follows the chain and pays 98 % of the fees to the miner of each block.
TLC checks the models on small instances, TLAPS proves the properties listed
under *Proofs* for every instance.

## The system

| Part | Code | State | Operations | What makes it correct |
| --- | --- | --- | --- | --- |
| Ledger store | `server.rs` 23-100 | ledger in memory, ledger row in SQLite, `ready`, `recovering` | `open`, `save` | what was answered or published is in the database |
| Merchant API | `server.rs` 126-269 | the submission that holds the mutex | `preconf_submit`, `preconf_get`, `preconf_info` | a receipt is for ever; a pending transaction reserves its notes; the published set fits the cap |
| Follower | `server.rs` 305-523 | fetched chain, position in the records | `reconcile` | statuses describe one chain; comes back to the best tip after every failure |
| Payouts | `server.rs` 407-431, 475-635 | payouts of the ledger | assign, sign, recheck, broadcast, settle | a fee is paid at most once, for a twice confirmed block, with bytes that were saved first |
| Pending snapshot | `server.rs` 103-117, `p2p.rs` 33-119 | watch channel | `publish`, `request_frame` | durable; tip and transactions of one chain view |
| Miner loop | `p2p.rs` 157-256 | last snapshot, template | poll, revalidate, install | a template can be mined and is up to date |
| Consensus check | `p2p.rs` 120-156 | none | `verify` | done by the embedded node, at its own tip |
| Cached chain | `wallet.rs` 65-99 | blocks per node | `chain` | one branch, the best one, unless a reorganisation overtakes the call |
| Wallet notes | `wallet.rs` 151-345 | hashes, note tree, owned notes | `sync`, `create` | spends only notes of the given chain, each once |
| Wallet worker | `main.rs` 111-175 | none between lines but the wallets | batch of payments | no note twice in a batch; a conflict is one; every line is answered |
| Process | `main.rs` 229-274 | node and application tasks | start, shut down | a restart continues from the database |
| Explorer | `scripts/explorer.py`, `web/` | SQLite index, ledger shown, events | index, serve | an indexed chain and its ledger are of one view; it catches up |
| Drivers, packaging | `scripts/live.py`, `scripts/demo.py`, `deploy/` | | | tests and builds |

How they interact: the server is one process with an embedded Zakura node. The
HTTP handlers and the follower are tasks that share the store behind one tokio
mutex; a submission holds it from its first check to its answer, also while the
node verifies the transaction. The follower gives it up while it sleeps, while
`wallet::chain` fetches blocks over the node's RPC and while a payout is proved.
After a successful save the pending set goes to a watch channel that P2P requests
read without the mutex. The node's best tip moves independently of all of them.
A miner is another process with its own node; it polls every half second. The
wallet worker is a process of its own too: it answers lines on stdin over the same
`wallet::chain` and `wallet::create` the service pays with. The explorer polls the
service's `/state` and its node every two seconds and answers HTTP requests from
threads that share its lock and its database connection.

What is hard here: the tip moves during every await; a save may fail after memory
was changed; the process stops between signing, saving, sending and recording a
payout; answers of RPCs are lost; chains reorganise below included transactions
and paid blocks; several blocks arrive at once after a restart. The full list
with lines is `hazards` in `PROJECT.json`.

## Modules

`Chain` - the tree of all blocks as constants (branches, heights, bodies,
coinbase payees; nullifiers, anchors and expiry of transactions), and `Valid`,
the check `p2p::verify` makes at a tip. The node itself (zakura crates) is not in
this repository: the module says what its callers rely on. Only the part of the
check that depends on the chain is modelled; proofs and signatures are given.

`Ledger` - records, payouts and the pure steps of `reconcile`: settling payouts,
classifying a record, grouping fees into payouts, which payouts are due, which
notes are reserved. The vector of payouts is a set: the code adds new ones in the
order of a `HashMap`'s iteration, and no property depends on the order they are
worked on, which the model leaves open.

`Service` - the state machine. Variables and code:

| Variables | Code |
| --- | --- |
| `tip`, `mempool`, `sent` | the node; `sent` remembers every payout it ever took |
| `mem`, `disk`, `ready`, `recovering`, `feed` | `Store`, the ledger row, the watch channel |
| `sub` | the submission holding the mutex (`dispatch` before and after `verify`) |
| `pc`, `idx`, `todo`, `cur` | where `reconcile` is: idle, fetch, lock, records, pay, build, recheck, mempool, send, sent, failed |
| `snap`, `chain` | the last block, and all blocks, that `wallet::chain` returned; during a call `snap` is the tip it began at |
| `torn` | whether the cache of `wallet::chain` may hold blocks of two branches |
| `faults`, `crashes` | bounds on failures and crashes |

An action is the code from one await to the next. `pc` in `Free` means that the
follower does not hold the mutex. A save and the assignments before it are one
action with two outcomes; when it fails the change stays in memory, as in the
code, and `FollowerFailed` clears `ready`. `Fetch` is the end of a call of
`wallet::chain`: its blocks end at the node's tip, one per height, and are the tip's
branch unless a reorganisation overtook this call or one whose blocks are still
in the cache; then they are any such mixture (`Copies`). `FetchFails` is the error
of an RPC or of the comparison at the end. Everything after works on `chain`, as the code does, never on
the tip's branch. A crash may come between any two steps;
the node restarts at an ancestor of its tip, since it only finds finalized blocks.

`Subsequences` - what a filter leaves of a sequence (`Picked`, the k-th position kept by
its rank) and the order it keeps (`Subsequence`), in a form that can be proved about
without recursion: `App::pending` is one, and so are the miner's choice and what
`Promise` offers.

`Invariants` - the inductive invariants of `Service`, which relate memory, database, feed
and node while a reconciliation, a submission or a payout is under way: `Inductive`, that
holds whatever the chain does, `Whole`, that needs calls no reorganisation overtakes,
and `Checked` and `Growing`, that need a tip which only goes up (see *Proofs*).

`ChainSync` - `wallet::chain`, an action per RPC, with the tip moving in between.
A call returns the best branch if the chain only grows during it (`SyncProofs`), and may
return a mixture of two branches otherwise.

`ServiceSync` - `Service` with its calls of `wallet::chain` made of `ChainSync`'s steps
(an `INSTANCE` that shares the node's tip): between two RPCs the node moves, merchants
submit, and the process may die with its cache. It implements `Service`
(`FollowsService`), so every theorem about `Service` is one about it:

| `ServiceSync` | `Service` |
| --- | --- |
| `Calls` | `Poll` |
| `Reads` | a stutter |
| `Returns` | `Fetch`, with the blocks returned as `chain` |
| `GivesUp` | `FetchFails` |
| `SyncMove`, `SyncCrash`, `Rest` | the same steps, the cache beside them |

`Miner` - the miner's loop against any sequence of snapshots and fetch failures.

`Promise` - what the service promises, without chain, ledger, failures and
restarts: a receipt is for ever, the offer is accepted transactions in the order of
acceptance and holds a transaction from the moment its receipt is given, a fee
is paid by at most one payout. `Service` implements it (`Promised`) under

| `Promise` | `Service` |
| --- | --- |
| `accepted` | `Accepted(disk.records)`: the transactions of the database's records |
| `offered` | `Offered`: the published snapshot's transactions, or `None` before the first |
| `paid` | `sent`: the payouts the node took |

so that a failed save, a crash, a reconciliation half-way or a reorganisation is a
stutter or a new `Offer`, a submission that was saved is `Accept` and the node's
taking a payout is `Pay`.

`Preconf` - the whole path: `Service` as it is, and an `INSTANCE` of `Miner` whose
offer is no longer the environment's choice but `Answer`, what `request_frame` makes
of the service's feed. Each process has a node and a tip of its own and may stop.

`Wallet` - `WalletState::sync` and the choice of an input in `create`. The mutex
around the wallets makes a call one piece; what varies is what a call comes
with: chain, fee, outputs, reservations, named input.

| Variables | Code |
| --- | --- |
| `cutoff`, `scanned`, `tree`, `notes` | `min_value`, the last of `hashes`, `tree`, `notes` of `WalletState` |
| `spent` | the nullifiers of the range to be scanned, collected before the scan |
| `chain`, `call`, `pc`, `input` | the arguments of the call, its progress, its result |

A step of the scan is one commitment. A witness is modelled by the tree it opens
into; a note, its commitment and its nullifier are one value.

`Worker` - the loop of `preconf wallet`: a line, its chain, its payments one
after the other over `Wallet`'s own `Create`, the reservations of the line, conflicts
built dear first and cheap second on one note, the answer.

`Explorer` - `Index.update` an RPC at a time, with the database as the connection
sees it (`db`) and as committed (`disk`), the ledger shown (`state`), the rollback as
the step of its own it is, the service's ledger
lagging behind its node, and restarts of either side. Between an exception and the
rollback (`pc = "raised"`) the lock is free and a request reads rows of the update that
failed; and a commit that fails leaves `state` ahead of the rows. Both windows are in the
model; the properties speak of what is committed.

`MCService`, `MCServiceSync`, `MCMiner`, `MCPreconf`, `MCWallet`, `MCWorker`,
`MCExplorer` - instances. `SubsequenceProofs`, `ServiceProofs`, `AgreementProofs`,
`SyncProofs`, `MinerProofs`, `WalletProofs` (with the worker's), `ExplorerProofs` and
`CompositionProofs` (of `ServiceSync` and `Preconf`) - theorems.
An operator whose comment starts with *Fault* is a plausible bug of the operator after
it; it takes no part in a specification and shows, listed under `mutants`, which
property would catch the bug.

Abstractions: reasons, addresses, wording and the events table are left out; a
transaction is its raw bytes, txid and receipt in one; amounts have no width;
the cap counts transactions, not bytes; `reconcile` reads the node's tip once at its
start; a commit that fails leaves the database as it was; the service's wallet
owns notes from the genesis block (the documentation asks for a prefunded
wallet); `wallet::create` anchors at the fetched tip, or, on a mixture of two branches,
possibly nowhere, since its tree may be of no branch (`Provable`). A miner is connected to the
service by one connection; the errors that end its process (a malformed
snapshot) are among what `MinerRestarts` stands for. The requests of a worker's line are of
one seed, as wallets of different seeds share nothing. Of a ledger the explorer's
model knows the tip.

## Runs

| Run | Instance | Shows |
| --- | --- | --- |
| `service_deep` | tree of 8 blocks with a branch that overtakes from genesis, 3 transactions (two spend one note, one expires), 2 wallet notes, 1 failure of any kind, 1 crash, cap 2 | durability of receipts and snapshots, statuses, payouts; calls of `wallet::chain` see the chain only grow |
| `service_calls` | `ServiceSync` on a tree of 6 blocks that forks at genesis, 1 transaction, 2 wallet notes, payouts built on mixtures, 1 failing RPC or save, 1 crash; reorganisations during a call, `invalidateblock` between calls | the RPCs of a call end as `Fetch` or `FetchFails`, the cache is one branch until a call is overtaken; what is saved matches what was fetched, included fees are covered and payouts confirmed on it, mixtures included |
| `ledger_torn` | `ServiceSync` on the tree of `service_deep`, 1 transaction, no failures | a call overtaken by a reorganisation makes the database name an inclusion block off its tip's branch (finding) |
| `service_restart` | a chain of 4 blocks, 4 transactions, 1 wallet note, 1 failure, 2 crashes, cap 2 | nothing is rewound by a node that restarted behind; reservations and cap hold without reorganisations and spurious verification failures |
| `service_live` | tree that forks above the paid block, 1 failure, 1 crash, fairness | the service catches up, payouts move, and two payouts signed side by side spend different notes |
| `reserve_lost` | one verification times out | two pending transactions spend one note (finding) |
| `feed_overflow` | no failures, one reorganisation | the snapshot exceeds the cap (finding) |
| `feed_torn` | no failures, the chain only grows | a snapshot misses a transaction valid at its tip (finding) |
| `miner_fresh` | 4 blocks, 3 transactions, 8 snapshots, failing fetches, verifications of one transaction that may fail, fairness | templates can be mined, are up to date and converge |
| `preconf` | 4 blocks, 2 transactions of which one is orphaned and the other anchored on the new branch, each node with its own tip, 1 failing save, 1 stop of either process, fairness of both | what a miner holds has a durable receipt and is in the order of receipts; templates end up holding every receipt that can be mined |
| `worker_lines` | 6 blocks, 4 notes of which one is spent on both branches and one received on both, all pairs of chains, lines of up to 3 requests, fairness | the note set is the chain's, the input can be spent, the cutoff hides nothing and is kept; payments of a line apart, conflicts compete and are funded, lines answered |
| `explorer_index` | 6 blocks, a transaction mined on both branches at different heights, 1 failing RPC or commit, 1 restart of node or explorer, fairness | what is committed is one branch and its ledger; it catches up |

Bounds. In `deep`, branch b mines again at height 3 what branch a mined at
height 1, so the paid block and the confirmation of its payout are both
orphaned, and the transaction that branch b does not mine expires: every branch of
the settlement and of the classification is taken. One block's coinbase pays two
miners and is not attributed. Payouts can be anchored at every block of height 2
and more, on either note; one note's payouts expire in time to be blocked. One
failure and one crash in any place, together with the reorganisation, are what it
takes to separate memory, disk, feed and node; the proofs cover any number. In
`restart` two crashes let the node fall behind the ledger twice.
In `worker_lines` the chain of a line may be any block's, so the wallet's newest hash may be
above, below, beside or on it; `n3` is received and spent within the range of one scan,
`n1` comes back when `a2` is orphaned, `n2` changes its place in the tree, `n4` is
below the higher cutoff. A surcharge of 3 makes `n1` the only note for a
dear conflict, so a line of two conflicts fails and a conflict with fee 0 lowers the
cutoff between its two versions. `preconf` has no payouts (no block pays a configured
miner): those are `service_*`'s. In `explorer_index` a failure and a restart may hit one
update that also sees a reorganisation of depth two; the proof covers any number.
The tip's moves (`Moves`, and `CallMoves` while `wallet::chain` is called) are `Extends`
(it grows, by several blocks at once too), `Overtakes` (to any higher block: height
stands for work, and a tip that was left never returns as the best tip), or
`Invalidates`, which adds a step down from `a2`, as `invalidateblock` does in
`demo.py:180-191`. In `service_calls` a call that has read `a1` or `a2` can end on `b2` or
`b3`, with the transaction mined in `a1` mined again at `b3`, or not at all, on the way; the mixture stays
in the cache, and a second call starts from it. `ledger_torn` does so on the tree of `service_deep`.

Fairness. `SF(Follower)`: tokio's mutex is FIFO, so the follower, once waiting,
is served however many submissions queue behind it; weak fairness would not do
since every submission disables it. That is assumed, not shown: no property would
notice a mutex that is not fair. `WF(SubmissionEnds)`: verification ends within
60 s. `WF` of the node's move: the network goes on mining. The last one matters for
payouts only: a payout becomes due with the next block. `Miner`: the loop never
stops, and a fetch that is possible again and again succeeds some day.
`Preconf` takes the fairness of both processes as it is, each under the other's stuttering.
`Worker`: it does one thing at a time and every RPC and proof ends; nothing is
assumed of the driver (`Read`). `Explorer`: the indexing thread goes on; nothing is assumed
of service, node or requests, which is why `IndexCatchesUp` starts from a service that is
level with its node.
`PayoutsMove` excepts payouts that cannot be funded and signed bytes the node
refuses; those are states the code reports and leaves to an operator.

Deadlock is not checked for `Service`: it stops legitimately when the chain has
reached its last block and everything is settled.

## Findings

1. `reserve_lost`: a verification error during reconciliation, its timeout
   included, drops the reservation of an accepted transaction (`server.rs:453`).
2. `feed_overflow`: the cap is checked at admission only (`server.rs:448`).
3. `feed_torn`: records are verified at the node's tip and published under the
   fetched one (`server.rs:448`).
4. `ledger_torn`: `wallet::chain` can return blocks of two branches (`wallet.rs:84-97`),
   and reconciliation saves inclusion blocks of one under a tip of the other
   (`server.rs:434`).

The details, with what the documentation promises, are in `PROJECT.json`.

## Proofs

`ServiceProofs` proves, from the assumptions `ChainShape`, `BranchShape`,
`FeeShape` and `ServiceParams` alone, and so for every block tree, every set of
transactions and any number of failures and crashes:

* `Invariance`: `IInv` is an invariant; `TypeCorrect`;
* `FeedDurable`, `KnownDurable`: what miners are offered and what the service
  answers for is in the database;
* `AssignedAtMostOnce`: no two payouts cover the same fee;
* `SentDurable`, `PaidAtMostOnce`: what the node took is in the database, and no
  fee is paid by two different transactions.

The argument. `PaidOnce` compares payouts that were sent at any time, so it needs
the ledger to remember every one of them (`SentIn`), in memory as well as on
disk: a crash replaces the first by the second, a save the second by the first.
Two sent payouts for one fee are then two payouts of one ledger that cover it,
which `AssignedOnce` excludes, for two reasons: new groups leave out what is
assigned, and settling drops a payout only if it was never signed. A signed
payout is never replaced by other bytes because the payout at hand is one of the
ledger's and unsigned exactly while it is built (`Working`), and because memory and
disk agree throughout the payout loop, so that signing and a crash cannot leave
different bytes behind. A submission that runs while a payout is proved only
appends a record: it holds the mutex only where the follower does not
(`Holder`), and the transaction it appends is new (`UniqueRecords`). `KnownIsDurable`
and `FeedIsDurable` are inductive with these. The step lemmas follow the
disjuncts of `Next`, grouped by what they change.

Two action properties follow on top of `IInv`:

* `ReceiptsKept`: no step takes an accepted transaction out of the database or
  reorders it. The follower saves only ledgers with the records it has in memory,
  and by `KnownIsDurable` those are the database's; a submission appends one.
* `SignaturesKept`: no step drops or re-signs a signed payout, or takes up one that
  was set aside. A reconciliation changes payouts in memory long before it saves
  them, and may fail in between, so the database is compared with memory by the
  invariant `Carried` (`CarriedAlways`): memory carries the signed payouts of the
  database, and `Carries` is transitive. That the payout at hand is not `blocked` is
  the other half: else recording a broadcast would take a blocked one up again.

The refinement (`Implementation`) is proved there too. The invariant is `IInv` with
`Covered`: every payout, in memory and on disk, is for accepted transactions, which is
what `Pay` demands and what a reconciliation, grouping records, maintains. Three kinds of
step are told apart. A saved submission is `Accept`: its transaction is new by the guard,
appended, and pending. The node taking a payout is `Pay`: one that was sent before is a
stutter, and a new one shares no fee with those, which are payouts of the ledger
(`SentIn`) that no other payout overlaps (`AssignedOnce`). Every other step keeps the
receipts and is `Offer`, since by `FeedIsDurable` what is on offer is drawn from the
database at all times.

`AgreementProofs` proves what relates the ledger to the chain. `Inductive` adds to the above
an invariant on half-done work (`Reconciling`), needed because a reconciliation changes
memory record by record and saves once, or fails in between. `Steady`: memory and database
agree while submissions are taken and while payouts are worked on. `Classified`: the record
loop has brought the records it passed to the fetched chain. `Standing` and `Ripened`: what
is to be paid was settled on that chain before, and has its two confirmations there. `Earned`,
`Shares`, `Apart`: a payout is for transactions of its block, covers each included fee, and
shares no note with another signed one; these hold in memory and on disk, since a crash replaces the
one by the other. From there, without any assumption on how the chain moves,

* `FeesCovered`, `NotesDisjoint`, `PaysWhatIsRipe`;
* `SavesWhatIsFetched`: the statuses that are saved describe the blocks that were
  fetched, a mixture of branches included.

With `CallGrows` (during a call of `wallet::chain` the tip moves only to descendants),

* `WholeAlways`: the blocks fetched are the branch of their last one.

With `BestChain` (the node's tip moves only to a higher block: a node changes its best chain
only for more work),

* `StatusesAgree`, with `CallGrows` too: every status of the database is right on the branch of
  the database's tip. `SavedAgrees` says so of what was fetched when it is saved,
  `Whole` that this is the branch; from then on the records change only by a
  submission. `ledger_torn` shows it false without `CallGrows`;
* `OnlyValidAccepted`: by `Checked` (`CheckedAlways`), a verification that ends with the tip still that of
  the ledger was made there, for a tip that was left is below the tip for ever.

With `NoFork` also (any two blocks are on one branch; a crash may still put the node back),

* `NeverRewinds`: `Onward` orders database, memory, fetched chain and node by height once
  the follower has seen that the node is as high as the ledger it recovered, and `Retained`
  keeps inclusions as they are while a reconciliation is half-way;

and if no verification fails for another reason than the transaction
(`"verify" \notin Faults`),

* `NotesReserved` and `FeedAlwaysFits`. A record stops being pending, and so gives up its notes
  and its place, only when its transaction is dead (`Dead`: a note spent, or expired), which
  on such a chain is for ever (`Lapses`); what is pending is alive (`Living`). So what a
  submission was not compared with can never come back to compete with it (`Exclusive`,
  `Reserving`), and the records still alive never outnumber the cap (`Bounded`), though the
  code looks at it only when it admits. That a transaction is anchored on the
  ledger's chain and spends a note (`Anchored`) comes from `Valid`: `p2p::verify` refuses
  one without Ironwood data.

These are not conveniences of the proof: `reserve_lost` shows the first failing after a
verification error, and `feed_overflow` the second after a reorganisation.

`MinerProofs` proves that a template can be mined (`AlwaysMinable`), from
`BestChain`: a tip is left only for a higher one. While a round verifies, either
the tip is still the round's parent and everything chosen was verified there, or
the tip is above the parent and stays there, so that `Install` is out of reach
(`Choosing`). `AlwaysFresh`: between rounds a template for the current tip is made of the
last snapshot fetched. A round that is given up keeps the snapshot but not its template; the
template that stays is for a tip the node has left, since it is no higher than the
round's parent (`Aging`), and while no new snapshot arrives it remains what it was (`Current`).
Any verification may fail. Without `BestChain` the properties are false: a tip that leaves and
returns within a round passes the check.

`SyncProofs` proves that the cache is one branch and that a call returns the best one, on
condition (`Growing`) that the tip only grows during a call; what is fetched then
continues the cache on the branch of the tip (`Fetching`). The condition is an assumption of
the theorems, not of the model: `ledger_torn` shows what happens without it. Without it
one block per height remains (`Stacked`).

`CompositionProofs` has the two compositions. `CallsImplement`: the follower with every RPC of
`wallet::chain` implements `Service`, for every tree and all moves of the tip. A call that returns
has one block per height up to the tip (`Stacked`), which is all `Fetch` says of a torn
copy; `CallInv` (`CallsAlways`) says what it needs for the others: as long as `torn` is
false the cache is one branch, and the tip is a descendant of the one the call began at
(`Counted`), so a call that gives up because the chain changed began at another tip, as `FetchFails`
demands. The lemmas of `SyncProofs` serve for every step of the cache. `CallsAgree` then carries `StatusesAgree`
over to the RPCs.

`AlwaysReceipted`, for the whole path: what a miner holds or puts first is in the
service's database, in the order of the receipts. `FeedIsDurable` says
so of the answer; afterwards the database only gains receipts at its end (`AcceptedStep`),
and a round takes from the snapshot in order (`Sifting`). `SubsequenceProofs` has the facts
about order: a subsequence of a subsequence is one, and stays one when the sequence goes on.

`WalletProofs` proves every safety property of `Wallet`, for any caller and with restarts,
from `WInv`: the tree is a prefix of
the chain's (`Progress`), the nullifiers of all blocks ahead are in `spent` (`Foreseen`),
and the notes are exactly those of that prefix which the chain leaves unspent and the
cutoff lets in (`NotesSoFar`); with `Served`, the cutoff is no higher than what the call
needs. The induction is over the single commitment: every witness grows by it, and
the tree of the prefix with it. It rests on `TreeShape`: branches share the commitments
of their common blocks, and a note is created once on a branch, not after its spend.

For the worker, `Wallet`'s step lemmas serve for every step of the worker
inside a call, and `WorkerInv` adds that the call at hand is for the request at hand. A
cheap version is always funded because the first note is spendable on the line's chain
and `NothingHidden` says that the wallet, even one that started over, finds it.

`ExplorerProofs` proves that what is committed is one branch (`EInv`). An update may
mix branches while the chain moves; what saves it is that the tip only goes up: either
the rows, so far, are of one branch the tip is on, or the chain has outgrown the height
the update indexes up to (`OnOneBranch`), and then the last check, which compares the
best tip with the row of that height, refuses. Since that check also compares the
ledger's tip, the ledger committed is that of the branch.

Only model-checked: liveness (`CatchesUp`, `PayoutsMove`, `Converges`,
`ReceiptsServed`, `LinesAnswered`, `IndexCatchesUp`), which TLAPS does not do, nor ENABLED.
Every other property a passing run checks is a theorem, those of `service_restart` under the
hypotheses that run's instance satisfies. `Wallet`'s own specification (any caller, restarts) is covered by the proof;
`worker_lines` runs the wallet under the worker, whose calls are the most varied ones.
So are `ChainSync`'s theorems, for a tip that goes anywhere between calls; `service_calls` runs
`ChainSync` under the follower.

## Not modelled

* Cryptography: receipts and `VerifyReceipt`, proofs, signatures, note encryption, the
  building of a transaction. That a receipt's record is kept unchanged is
  `AcceptedForever`.
* Encoding: JSON, frames, addresses, configuration and start-up order, metrics, logs.
* The zakura node and its block assembly from the template: what callers rely on is
  in `Chain` and in the actions marked external.
* Of the explorer, driver events, the archive mode and the rendering of answers; the
  web frontend.
* The drivers `live.py` and `demo.py` are tests: they start the processes and assert
  the service's promises. Packaging has no state.
* One window is left closed: `reconcile` reads the tip before it waits for the mutex and
  compares it after (`server.rs:344`), which can cost a round of half a second.
* What a mixture of two branches does to the wallet's notes: `Wallet` is given one branch.
  `Service` allows a payout built on a mixture to have no anchor; no node takes such a one.

## Plan

Everything planned is modelled, and every safety property a passing run checks is
proved. Open: `Wallet` on a mixture of two branches, whose tree is of no branch.
