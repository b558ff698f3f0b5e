------------------------------- MODULE Wallet -------------------------------
(***************************************************************************)
(* The wallet of src/wallet.rs: WalletState::sync, which carries one seed's *)
(* notes and their witnesses from one call to the next, and the choice of   *)
(* an input in `create`.  The mutex around the wallets makes a call one     *)
(* piece; what varies is the chain, the fee and the reservations each call  *)
(* comes with.  A step is one commitment of the scan.                       *)
(*                                                                          *)
(* A note, its commitment and its nullifier are one value, and a block's    *)
(* hash stands for its branch.  The vector of notes is in the order of      *)
(* their commitments, so it is a set of notes with positions.  Proving,     *)
(* signing and change are left out.                                         *)
(***************************************************************************)
EXTENDS Chain, SequencesExt

CONSTANTS
    Notes,      \* the notes that belong to the seed
    Value,      \* Value[n]: the value of n
    Tree,       \* Tree[b]: the note commitments of b's branch, in order
    Moves,      \* the pairs <<a, b>> such that a call with b may follow one with a
    Calls       \* what the wallet may be asked for

Leaves == UNION {ToSet(Tree[b]) : b \in Blocks}

Reveals(b) == UNION {Spends[t] : t \in Body[b]}

\* A call asks for a fee and a sum of outputs, paid from one of `inputs` that is
\* not reserved: an input_txid or nullifier that is named, or any note.
Call ==
    [fee : Nat, amount : Nat, reserved : SUBSET Notes, inputs : SUBSET Notes]

ASSUME WalletParams ==
    /\ Value \in [Notes -> Nat]
    /\ Tree \in [Blocks -> Seq(Leaves)]
    /\ Moves \subseteq Blocks \X Blocks
    /\ Calls \subseteq Call

\* Branches share the commitments of their common blocks; on a branch a note is
\* created once, and in no later block than the one that spends it.
ASSUME TreeShape ==
    \A b \in Blocks :
        /\ \A c \in Path[b] :
              /\ Len(Tree[c]) <= Len(Tree[b])
              /\ \A i \in DOMAIN Tree[c] : Tree[c][i] = Tree[b][i]
        /\ \A i, j \in DOMAIN Tree[b] :
              Tree[b][i] \in Notes /\ Tree[b][i] = Tree[b][j] => i = j
        /\ \A i \in DOMAIN Tree[b] : \A c \in Path[b] :
              Tree[b][i] \in Notes \cap Reveals(c) => i <= Len(Tree[c])

VARIABLES
    chain,      \* the last block of the chain the call came with
    cutoff,     \* min_value of the WalletState
    scanned,    \* the last of its hashes, or None
    tree,       \* its commitment tree
    notes,      \* its notes: position and the tree the witness opens into
    spent,      \* the nullifiers the blocks to be scanned reveal
    call,       \* what is asked for
    pc,         \* where the call is
    input       \* the note it found

state == <<cutoff, scanned, tree, notes, spent>>
vars == <<chain, state, call, pc, input>>

OwnedNote == [note : Notes, at : Nat, witness : Seq(Leaves)]

TypeOK ==
    /\ chain \in Blocks
    /\ cutoff \in Nat
    /\ scanned \in Blocks \cup {None}
    /\ tree \in Seq(Leaves)
    /\ notes \subseteq OwnedNote
    /\ spent \subseteq UNION {Reveals(b) : b \in Blocks}
    /\ pc \in {"idle", "scan", "found", "failed"}
    /\ pc # "idle" => call \in Call
    /\ pc = "found" => input \in Notes

Init ==
    /\ chain = Genesis
    /\ cutoff = 0 /\ scanned = None /\ tree = <<>> /\ notes = {} /\ spent = {}
    /\ call = None /\ pc = "idle" /\ input = None

----------------------------------------------------------------------------
(* sync: what is kept of the last call.                                     *)

\* The least value that can pay the fee and a positive output.
Least(fee, amount) == IF amount > 0 THEN fee + 1 ELSE fee

\* Fault: a lower cutoff does not count.
Stale_Reorged(b, least) == scanned # None /\ scanned \notin Path[b]

\* Fault: only a chain that got shorter counts.
Stale_Longer(b, least) ==
    \/ least < cutoff
    \/ scanned # None /\ Height[scanned] > Height[b]

\* Notes the new cutoff needs were passed over, or the newest block scanned is
\* not on the chain: everything is scanned again.
Stale(b, least) ==
    \/ least < cutoff
    \/ scanned # None /\ scanned \notin Path[b]

\* The blocks of b's branch that come after a.
After(a, b) == IF a = None THEN Path[b] ELSE Path[b] \ Path[a]

\* Fault: notes spent since the last call are kept.
Resume_All(b, least, from) ==
    /\ scanned' = from
    /\ cutoff' = IF from = None THEN least ELSE cutoff
    /\ tree' = IF from = None THEN <<>> ELSE tree
    /\ spent' = UNION {Reveals(c) : c \in After(from, b)}
    /\ notes' = IF from = None THEN {} ELSE notes

\* Fault: every call brings its own cutoff.
Resume_Cutoff(b, least, from) ==
    /\ scanned' = from
    /\ cutoff' = least
    /\ tree' = IF from = None THEN <<>> ELSE tree
    /\ spent' = UNION {Reveals(c) : c \in After(from, b)}
    /\ notes' = IF from = None THEN {} ELSE {n \in notes : n.note \notin spent'}

\* Continue after the block `from`, or start over when it is None; only a wallet
\* that starts over takes the call's cutoff.
Resume(b, least, from) ==
    /\ scanned' = from
    /\ cutoff' = IF from = None THEN least ELSE cutoff
    /\ tree' = IF from = None THEN <<>> ELSE tree
    /\ spent' = UNION {Reveals(c) : c \in After(from, b)}
    /\ notes' = IF from = None THEN {} ELSE {n \in notes : n.note \notin spent'}

\* create(blocks, ..) is called with the chain of b.
Create(b, c) ==
    /\ chain' = b
    /\ LET least == Least(c.fee, c.amount)
       IN  Resume(b, least, IF Stale(b, least) THEN None ELSE scanned)
    /\ call' = c /\ pc' = "scan" /\ input' = None

----------------------------------------------------------------------------
(* sync: the scan.                                                          *)

\* The next block to be scanned.
AtBlock(c) ==
    /\ c \in After(scanned, chain)
    /\ \A d \in After(scanned, chain) : Height[c] <= Height[d]

\* The note is the seed's, worth keeping and not spent further on.
Keeps(cm) ==
    cm \in Notes /\ Value[cm] > 0 /\ Value[cm] >= cutoff /\ cm \notin spent

Grown(n, cm) == [n EXCEPT !.witness = Append(@, cm)]

\* An output of the block: its commitment goes into the tree and into every
\* witness, then the note joins them with a witness of its own.
ScanOutput ==
    /\ pc = "scan"
    /\ \E c \in Path[chain] :
          /\ AtBlock(c) /\ Len(tree) < Len(Tree[c])
          /\ LET cm == Tree[c][Len(tree) + 1]
                 grown == {Grown(n, cm) : n \in notes}
                 new == [note |-> cm, at |-> Len(tree) + 1, witness |-> Append(tree, cm)]
             IN  /\ tree' = Append(tree, cm)
                 /\ notes' = IF Keeps(cm) THEN grown \cup {new} ELSE grown
    /\ UNCHANGED <<chain, cutoff, scanned, spent, call, pc, input>>

BlockDone ==
    /\ pc = "scan"
    /\ \E c \in Path[chain] :
          AtBlock(c) /\ Len(tree) = Len(Tree[c]) /\ scanned' = c
    /\ UNCHANGED <<chain, cutoff, tree, notes, spent, call, pc, input>>

----------------------------------------------------------------------------
(* create: the first note that can pay.                                     *)

Total == call.fee + call.amount

\* Fault: the reservations are not looked at.
Pays_Reserved(n) == Value[n] >= Total /\ n \in call.inputs

Pays(n) == Value[n] >= Total /\ n \notin call.reserved /\ n \in call.inputs

Found ==
    /\ pc = "scan" /\ scanned = chain
    /\ \E n \in notes :
          /\ Pays(n.note)
          /\ \A o \in notes : Pays(o.note) => n.at <= o.at
          /\ input' = n.note
    /\ pc' = "found"
    /\ UNCHANGED <<chain, state, call>>

\* No available confirmed note large enough.
NotFound ==
    /\ pc = "scan" /\ scanned = chain
    /\ \A n \in notes : ~ Pays(n.note)
    /\ pc' = "failed"
    /\ UNCHANGED <<chain, state, call, input>>

----------------------------------------------------------------------------
Sync == ScanOutput \/ BlockDone \/ Found \/ NotFound

\* The process dies and its wallets with it.
Restart ==
    /\ cutoff' = 0 /\ scanned' = None /\ tree' = <<>> /\ notes' = {} /\ spent' = {}
    /\ call' = None /\ pc' = "idle" /\ input' = None
    /\ UNCHANGED chain

\* Between two calls the chain may have moved.
Asked(b, c) ==
    /\ pc # "scan"
    /\ b = chain \/ <<chain, b>> \in Moves
    /\ Create(b, c)

Next ==
    \/ \E b \in Blocks, c \in Calls : Asked(b, c)
    \/ Sync
    \/ Restart

Spec == Init /\ [][Next]_vars

----------------------------------------------------------------------------
(* What the wallet owes its callers.                                        *)

\* What is worth keeping of a tree t: the notes that b's branch leaves unspent,
\* with witnesses that open into t.
Holdings(t, b) ==
    {[note |-> t[i], at |-> i, witness |-> t] :
        i \in {j \in DOMAIN t :
                  /\ t[j] \in Notes \ SpentOn(b)
                  /\ Value[t[j]] > 0 /\ Value[t[j]] >= cutoff}}

\* After every synchronisation the wallet is what a scan of this chain alone
\* would have found, whatever branches the calls before it were on: a note that
\* was spent on another branch is back, one that was received there is gone,
\* and every witness opens into the tree of this chain.
NotesAgree ==
    scanned = chain => tree = Tree[chain] /\ notes = Holdings(Tree[chain], chain)

\* The input can be spent on the chain the caller came with, pays what it asked
\* for, and is nobody else's.
InputSpendable ==
    pc = "found" =>
        /\ input \in ToSet(Tree[chain]) \ (SpentOn(chain) \cup call.reserved)
        /\ input \in call.inputs
        /\ Value[input] >= Total /\ Value[input] > 0

\* The cutoff, lowered or not, never hides a note: a call fails only if no
\* note of the chain could have paid.
NothingHidden ==
    pc = "failed" =>
        \A n \in Notes \cap ToSet(Tree[chain]) :
            Pays(n) /\ Value[n] > 0 => n \in SpentOn(chain)

\* "A higher-fee conflict must not evict notes and force the next ordinary
\* payment to rescan the whole chain": the cutoff only rises in a wallet that
\* had to start over, after a restart or a reorganisation.
CutoffKept ==
    [][cutoff' > cutoff => scanned = None \/ scanned \notin Path[chain']]_vars

----------------------------------------------------------------------------
(* The inductive invariant behind them.                                     *)

\* How far the scan is: between the last block it finished and the chain's end.
Progress ==
    /\ scanned # None =>
          scanned \in Path[chain] /\ Len(Tree[scanned]) <= Len(tree)
    /\ pc # "scan" => scanned \in {None, chain}
    /\ Len(tree) <= Len(Tree[chain])
    /\ \A i \in DOMAIN tree : tree[i] = Tree[chain][i]
    /\ \A c \in After(scanned, chain) : Len(tree) <= Len(Tree[c])

\* The nullifiers of the blocks ahead are known.
Foreseen ==
    /\ spent \subseteq SpentOn(chain)
    /\ pc = "scan" => \A c \in After(scanned, chain) : Reveals(c) \subseteq spent

\* The notes are those of the part of the tree that is scanned.
NotesSoFar == notes = Holdings(tree, chain)

\* A call that is served can be served by what the wallet keeps.
Served == pc # "idle" => cutoff <= Least(call.fee, call.amount)

WInv ==
    TypeOK /\ Progress /\ Foreseen /\ NotesSoFar /\ Served
    /\ InputSpendable /\ NothingHidden

=============================================================================
