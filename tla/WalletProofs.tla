---------------------------- MODULE WalletProofs ----------------------------
(***************************************************************************)
(* The wallet for every tree of blocks, every sequence of calls and every   *)
(* set of notes: after each synchronisation it is what a scan of the chain  *)
(* at hand would have found, and its choice of an input is sound and        *)
(* complete.  Then the worker, for every line and every set of notes: what  *)
(* it builds can be mined together, and its conflicts are conflicts.        *)
(***************************************************************************)
EXTENDS Worker, SequenceTheorems, TLAPS

----------------------------------------------------------------------------
(* Chains.                                                                  *)

\* What is spent on a branch is what its blocks reveal.
LEMMA RevealsOn ==
  ASSUME NEW b \in Blocks
  PROVE  SpentOn(b) = UNION {Reveals(c) : c \in Path[b]}
  BY DEF SpentOn, SpentIn, TxsOn, TxsIn, Reveals

\* A block is on its own branch, and all of a branch are blocks.
LEMMA Branch ==
  ASSUME NEW b \in Blocks
  PROVE  b \in Path[b] /\ Path[b] \subseteq Blocks
  BY ChainShape, BranchShape

\* Of two blocks of a branch, one that is not before the other comes after it.
LEMMA Later ==
  ASSUME NEW b \in Blocks, NEW c \in Path[b], NEW d \in Path[b], d \notin Path[c]
  PROVE  c \in Path[d] /\ Height[c] < Height[d]
  <1>1. Height[c] \in Nat /\ Height[d] \in Nat
    BY Branch, ChainShape
  <1>2. \/ Height[d] <= Height[c] /\ d \in Path[c]
        \/ Height[c] < Height[d] /\ c \in Path[d]
    BY <1>1, BranchShape
  <1> QED BY <1>2

\* The tree of a block begins with those of its ancestors.
LEMMA Grows ==
  ASSUME NEW b \in Blocks, NEW c \in Path[b]
  PROVE  /\ Tree[b] \in Seq(Leaves) /\ Tree[c] \in Seq(Leaves)
         /\ Len(Tree[c]) <= Len(Tree[b])
         /\ \A i \in DOMAIN Tree[c] : Tree[c][i] = Tree[b][i]
  BY Branch, WalletParams, TreeShape

\* A wallet that has scanned its chain has the chain's tree.
LEMMA WholeTree ==
  ASSUME TypeOK, Progress, scanned = chain
  PROVE  tree = Tree[chain]
  <1>1. tree \in Seq(Leaves) /\ Tree[chain] \in Seq(Leaves) /\ scanned # None
    BY Branch, Grows, ChainShape DEF TypeOK
  <1>2. Len(tree) = Len(Tree[chain])
    BY <1>1 DEF Progress
  <1> QED BY <1>1, <1>2 DEF Progress

----------------------------------------------------------------------------
(* WInv is inductive.                                                       *)

\* A new wallet satisfies the invariant.
LEMMA InitWInv == Init => WInv
  <1> SUFFICES ASSUME Init PROVE WInv
    OBVIOUS
  <1>1. chain \in Blocks
    BY ChainShape DEF Init
  <1>2. TypeOK
    BY <1>1 DEF Init, TypeOK
  <1>3. Progress
    <2>1. \A c \in Path[chain] : Tree[c] \in Seq(Leaves)
      BY <1>1, Grows
    <2> QED BY <1>1, <2>1, Grows, Branch DEF Init, Progress, After
  <1>4. Foreseen /\ NotesSoFar
    BY DEF Init, Foreseen, NotesSoFar, Holdings
  <1>5. Served /\ InputSpendable /\ NothingHidden
    BY DEF Init, Served, InputSpendable, NothingHidden
  <1> QED BY <1>2, <1>3, <1>4, <1>5 DEF WInv

\* A call that starts over preserves the invariant.
LEMMA StartOver ==
  ASSUME WInv, NEW b \in Blocks, NEW c \in Call,
         chain' = b, call' = c, pc' = "scan",
         Resume(b, Least(c.fee, c.amount), None)
  PROVE  WInv'
  <1>1. /\ scanned' = None /\ cutoff' = Least(c.fee, c.amount)
        /\ tree' = <<>> /\ notes' = {} /\ spent' = SpentOn(b)
    BY RevealsOn DEF Resume, After
  <1>2. TypeOK'
    <2>1. cutoff' \in Nat
      BY <1>1 DEF Least, Call
    <2>2. spent' \subseteq UNION {Reveals(d) : d \in Blocks}
      BY <1>1, RevealsOn, Branch
    <2> QED BY <1>1, <2>1, <2>2 DEF TypeOK
  <1>3. Progress'
    <2>1. \A d \in Path[b] : Tree[d] \in Seq(Leaves)
      BY Grows
    <2> QED BY <1>1, <2>1, Branch DEF Progress, After
  <1>4. Foreseen'
    BY <1>1, RevealsOn DEF Foreseen, After
  <1>5. NotesSoFar'
    BY <1>1 DEF NotesSoFar, Holdings
  <1>6. Served'
    BY <1>1 DEF Served, Least, Call
  <1>7. InputSpendable' /\ NothingHidden'
    BY DEF InputSpendable, NothingHidden
  <1> QED BY <1>2, <1>3, <1>4, <1>5, <1>6, <1>7 DEF WInv

\* A call that continues preserves the invariant: what is spent on the new
\* chain is what was spent on the old one and what the new blocks reveal.
LEMMA Continue ==
  ASSUME WInv, NEW b \in Blocks, NEW c \in Call, pc # "scan",
         chain' = b, call' = c, pc' = "scan",
         scanned # None, ~ Stale(b, Least(c.fee, c.amount)),
         Resume(b, Least(c.fee, c.amount), scanned)
  PROVE  WInv'
  <1> USE DEF WInv
  <1>1. scanned = chain /\ chain \in Blocks /\ chain \in Path[b] /\ tree = Tree[chain]
    BY WholeTree DEF Progress, TypeOK, Stale
  <1>2. /\ scanned' = chain /\ cutoff' = cutoff /\ tree' = tree
        /\ spent' = UNION {Reveals(d) : d \in Path[b] \ Path[chain]}
        /\ notes' = {n \in notes : n.note \notin spent'}
    BY <1>1 DEF Resume, After
  <1>3. SpentOn(b) = SpentOn(chain) \cup spent'
    <2>1. Path[chain] \subseteq Path[b]
      BY <1>1, BranchShape
    <2> QED BY <1>1, <1>2, <2>1, RevealsOn
  <1>4. TypeOK'
    <2>1. spent' \subseteq UNION {Reveals(d) : d \in Blocks}
      BY <1>2, Branch
    <2> QED BY <1>1, <1>2, <2>1 DEF TypeOK
  <1>5. Progress'
    <2>1. /\ Len(tree) <= Len(Tree[b]) /\ Len(Tree[chain]) <= Len(tree)
          /\ \A i \in DOMAIN tree : tree[i] = Tree[b][i]
      BY <1>1, Grows
    <2>2. ASSUME NEW d \in Path[b] \ Path[chain] PROVE Len(tree) <= Len(Tree[d])
      <3>1. d \in Blocks /\ chain \in Path[d]
        BY <1>1, <2>2, Branch, Later
      <3> QED BY <1>1, <3>1, Grows
    <2> QED BY <1>1, <1>2, <2>1, <2>2 DEF Progress, After
  <1>6. Foreseen'
    BY <1>1, <1>2, <1>3, ChainShape DEF Foreseen, After
  <1>7. NotesSoFar'
    <2>1. notes = Holdings(tree, chain)
      BY DEF NotesSoFar
    <2>2. notes' = {n \in Holdings(tree, chain) : n.note \notin spent'}
      BY <1>2, <2>1
    <2>3. notes' = {[note |-> tree[i], at |-> i, witness |-> tree] :
                      i \in {j \in DOMAIN tree :
                              /\ tree[j] \in Notes \ SpentOn(b)
                              /\ Value[tree[j]] > 0 /\ Value[tree[j]] >= cutoff}}
      BY <1>3, <2>2 DEF Holdings
    <2> QED BY <1>2, <2>3 DEF NotesSoFar, Holdings
  <1>8. Served'
    BY <1>2 DEF Served, Stale, Least, Call, TypeOK
  <1>9. InputSpendable' /\ NothingHidden'
    BY DEF InputSpendable, NothingHidden
  <1> QED BY <1>4, <1>5, <1>6, <1>7, <1>8, <1>9

\* A call preserves the invariant.
LEMMA AskedStep ==
  ASSUME WInv, NEW b \in Blocks, NEW c \in Call, pc # "scan", Create(b, c)
  PROVE  WInv'
  <1> DEFINE least == Least(c.fee, c.amount)
  <1>1. chain' = b /\ call' = c /\ pc' = "scan"
    BY DEF Create
  <1>2. CASE Stale(b, least) \/ scanned = None
    <2>1. Resume(b, least, None)
      BY <1>2 DEF Create
    <2> QED BY <1>1, <2>1, StartOver
  <1>3. CASE ~ Stale(b, least) /\ scanned # None
    <2>1. Resume(b, least, scanned)
      BY <1>3 DEF Create
    <2> QED BY <1>1, <1>3, <2>1, Continue
  <1> QED BY <1>2, <1>3

\* A witness that has grown opens into the tree that has grown.
LEMMA GrownWitness ==
  ASSUME NEW n, NEW i, NEW w, NEW cm
  PROVE  Grown([note |-> n, at |-> i, witness |-> w], cm)
            = [note |-> n, at |-> i, witness |-> Append(w, cm)]
  BY SMT DEF Grown

\* The scan of an output preserves the invariant.
LEMMA ScanOutputStep == WInv /\ ScanOutput => WInv'
  <1> SUFFICES ASSUME WInv, ScanOutput PROVE WInv'
    OBVIOUS
  <1> USE DEF WInv
  <1> DEFINE n == Len(tree) + 1
  <1>1. PICK c \in Path[chain] :
            /\ AtBlock(c) /\ Len(tree) < Len(Tree[c])
            /\ tree' = Append(tree, Tree[c][n])
            /\ LET cm == Tree[c][n]
                   grown == {Grown(o, cm) : o \in notes}
                   new == [note |-> cm, at |-> n, witness |-> Append(tree, cm)]
               IN  notes' = IF Keeps(cm) THEN grown \cup {new} ELSE grown
    BY DEF ScanOutput
  <1> DEFINE cm == Tree[c][n]
  <1>2. /\ pc = "scan" /\ UNCHANGED <<chain, cutoff, scanned, spent, call, pc, input>>
    BY DEF ScanOutput
  <1>3. /\ chain \in Blocks /\ c \in Blocks /\ Path[chain] \subseteq Blocks
        /\ tree \in Seq(Leaves) /\ Tree[c] \in Seq(Leaves) /\ Tree[chain] \in Seq(Leaves)
        /\ Len(Tree[c]) <= Len(Tree[chain])
        /\ \A i \in DOMAIN Tree[c] : Tree[c][i] = Tree[chain][i]
    BY <1>1, Branch, Grows DEF TypeOK
  <1>4. /\ n \in DOMAIN Tree[c] /\ cm \in Leaves /\ cm = Tree[chain][n]
        /\ n \in DOMAIN Tree[chain]
    BY <1>1, <1>3
  <1>5. /\ tree' \in Seq(Leaves) /\ Len(tree') = n
        /\ DOMAIN tree' = DOMAIN tree \cup {n} /\ n \notin DOMAIN tree
        /\ \A i \in DOMAIN tree : tree'[i] = tree[i]
        /\ tree'[n] = cm
    BY <1>1, <1>3, <1>4
  <1>6. Progress'
    <2>1. \A i \in DOMAIN tree' : tree'[i] = Tree[chain][i]
      BY <1>4, <1>5 DEF Progress
    <2>2. ASSUME NEW d \in After(scanned, chain) PROVE Len(tree') <= Len(Tree[d])
      <3>1. d \in Path[chain] /\ d \in Blocks /\ Height[c] <= Height[d]
        BY <1>1, <1>3, <2>2 DEF AtBlock, After
      <3>2. c \in Path[d]
        BY <1>3, <3>1, BranchShape
      <3>3. Len(Tree[c]) <= Len(Tree[d]) /\ Tree[d] \in Seq(Leaves)
        BY <3>1, <3>2, Grows
      <3> QED BY <1>1, <1>3, <1>5, <3>3
    <2>3. scanned # None => Len(Tree[scanned]) <= Len(tree')
      <3>1. ASSUME scanned # None PROVE Tree[scanned] \in Seq(Leaves)
        BY <1>3, <3>1, Grows DEF Progress
      <3> QED BY <1>3, <1>5, <3>1 DEF Progress
    <2>4. Len(tree') <= Len(Tree[chain])
      BY <1>1, <1>3, <1>5
    <2> QED BY <1>2, <2>1, <2>2, <2>3, <2>4 DEF Progress, After
  <1>7. Foreseen'
    BY <1>2 DEF Foreseen, After
  <1>8. cm \in Notes => (cm \in SpentOn(chain) <=> cm \in spent)
    <2> SUFFICES ASSUME cm \in Notes, cm \in SpentOn(chain) PROVE cm \in spent
      BY DEF Foreseen
    <2>1. PICK d \in Path[chain] : cm \in Reveals(d)
      BY <1>3, RevealsOn
    <2>2. n <= Len(Tree[d])
      BY <1>3, <1>4, <2>1, TreeShape
    <2>3. scanned # None => d \notin Path[scanned]
      <3> SUFFICES ASSUME scanned # None, d \in Path[scanned] PROVE FALSE
        OBVIOUS
      <3>1. scanned \in Blocks /\ Len(Tree[scanned]) <= Len(tree)
        BY <1>3 DEF Progress
      <3>2. Len(Tree[d]) <= Len(Tree[scanned]) /\ Tree[d] \in Seq(Leaves)
            /\ Tree[scanned] \in Seq(Leaves)
        BY <3>1, Grows
      <3> QED BY <1>3, <2>2, <3>1, <3>2
    <2> QED BY <1>2, <2>1, <2>3 DEF Foreseen, After
  <1>9. NotesSoFar'
    <2> DEFINE kept(t) == {j \in DOMAIN t : /\ t[j] \in Notes \ SpentOn(chain)
                                            /\ Value[t[j]] > 0 /\ Value[t[j]] >= cutoff}
               grown == {Grown(o, cm) : o \in notes}
               new == [note |-> cm, at |-> n, witness |-> tree']
    <2>1. notes = {[note |-> tree[i], at |-> i, witness |-> tree] : i \in kept(tree)}
      BY DEF NotesSoFar, Holdings
    <2> DEFINE held(i) == [note |-> tree[i], at |-> i, witness |-> tree']
    <2>2. \A i : Grown([note |-> tree[i], at |-> i, witness |-> tree], cm) = held(i)
      BY <1>1, GrownWitness
    <2>3. grown = {held(i) : i \in kept(tree)}
      BY <2>1, <2>2
    <2>4. kept(tree') = IF Keeps(cm) THEN kept(tree) \cup {n} ELSE kept(tree)
      BY <1>5, <1>8 DEF Keeps
    <2>5. notes' = IF Keeps(cm) THEN grown \cup {new} ELSE grown
      BY <1>1
    <2>6. \A i \in kept(tree) : [note |-> tree'[i], at |-> i, witness |-> tree'] = held(i)
      BY <1>5
    <2>7. [note |-> tree'[n], at |-> n, witness |-> tree'] = new
      BY <1>5
    <2>8. notes' = {[note |-> tree'[i], at |-> i, witness |-> tree'] : i \in kept(tree')}
      <3>1. CASE Keeps(cm)
        <4> HIDE DEF held, kept, new, grown
        <4> QED BY <2>3, <2>4, <2>5, <2>6, <2>7, <3>1
      <3>2. CASE ~ Keeps(cm)
        <4> HIDE DEF held, kept, new, grown
        <4> QED BY <2>3, <2>4, <2>5, <2>6, <3>2
      <3> QED BY <3>1, <3>2
    <2> QED BY <1>2, <2>8 DEF NotesSoFar, Holdings
  <1>10. TypeOK'
    <2>1. notes' \subseteq OwnedNote
      <3>1. n \in Nat /\ DOMAIN tree' \subseteq Nat
        BY <1>3, <1>5
      <3> QED BY <1>2, <1>5, <1>9, <3>1 DEF NotesSoFar, Holdings, OwnedNote
    <2> QED BY <1>2, <1>5, <2>1 DEF TypeOK
  <1>11. Served' /\ InputSpendable' /\ NothingHidden'
    BY <1>2 DEF Served, InputSpendable, NothingHidden
  <1> QED BY <1>6, <1>7, <1>9, <1>10, <1>11

\* Recording a block's hash preserves the invariant.
LEMMA BlockDoneStep == WInv /\ BlockDone => WInv'
  <1> SUFFICES ASSUME WInv, BlockDone PROVE WInv'
    OBVIOUS
  <1> USE DEF WInv
  <1>1. PICK c \in Path[chain] : AtBlock(c) /\ Len(tree) = Len(Tree[c]) /\ scanned' = c
    BY DEF BlockDone
  <1>2. /\ pc = "scan" /\ UNCHANGED <<chain, cutoff, tree, notes, spent, call, pc, input>>
    BY DEF BlockDone
  <1>3. chain \in Blocks /\ c \in Blocks /\ Path[chain] \subseteq Blocks
    BY Branch DEF TypeOK
  <1>4. After(c, chain) \subseteq After(scanned, chain)
    <2> SUFFICES ASSUME NEW d \in Path[chain] \ Path[c], scanned # None
                 PROVE  d \notin Path[scanned]
      BY <1>3, ChainShape DEF After
    <2>1. scanned \in Path[chain] /\ scanned \in Blocks /\ c \notin Path[scanned]
      BY <1>1, <1>3 DEF Progress, AtBlock, After
    <2>2. scanned \in Path[c]
      BY <1>3, <2>1, Later
    <2>3. Path[scanned] \subseteq Path[c]
      BY <1>3, <2>2, BranchShape
    <2> QED BY <2>3
  <1>5. Progress'
    BY <1>1, <1>2, <1>4, Grows, <1>3 DEF Progress, TypeOK
  <1>6. Foreseen' /\ NotesSoFar'
    BY <1>1, <1>2, <1>4 DEF Foreseen, NotesSoFar, Holdings
  <1>7. TypeOK' /\ Served' /\ InputSpendable' /\ NothingHidden'
    BY <1>1, <1>2, <1>3 DEF TypeOK, Served, InputSpendable, NothingHidden
  <1> QED BY <1>5, <1>6, <1>7

\* The end of a call preserves the invariant: the input it found is one the
\* chain leaves unspent, and if it found none there is none.
LEMMA FoundStep == WInv /\ (Found \/ NotFound) => WInv'
  <1> SUFFICES ASSUME WInv, Found \/ NotFound PROVE WInv'
    OBVIOUS
  <1> USE DEF WInv
  <1>1. /\ scanned = chain /\ pc = "scan" /\ pc' \in {"found", "failed"}
        /\ UNCHANGED <<chain, state, call>>
    BY DEF Found, NotFound
  <1>2. chain \in Blocks /\ tree = Tree[chain] /\ tree \in Seq(Leaves)
    BY <1>1, WholeTree DEF TypeOK
  <1>3. pc' = "found" => \E n \in notes : Pays(n.note) /\ input' = n.note
    BY DEF Found, NotFound
  <1>4. \A n \in notes : \E i \in DOMAIN tree :
            /\ n.note = tree[i] /\ tree[i] \in Notes \ SpentOn(chain)
            /\ Value[tree[i]] > 0
    BY DEF NotesSoFar, Holdings
  <1>5. TypeOK'
    BY <1>1, <1>3, <1>4 DEF TypeOK, state
  <1>6. Progress' /\ Foreseen' /\ NotesSoFar' /\ Served'
    BY <1>1 DEF Progress, Foreseen, NotesSoFar, Holdings, Served, state, After
  <1>7. InputSpendable'
    <2> SUFFICES ASSUME pc' = "found" PROVE InputSpendable'
      BY DEF InputSpendable
    <2>1. PICK n \in notes : Pays(n.note) /\ input' = n.note
      BY <1>3
    <2>2. PICK i \in DOMAIN tree :
            n.note = tree[i] /\ tree[i] \in Notes \ SpentOn(chain) /\ Value[tree[i]] > 0
      BY <1>4
    <2>3. n.note \in ToSet(Tree[chain])
      BY <1>2, <2>2 DEF ToSet
    <2> QED BY <1>1, <2>1, <2>2, <2>3 DEF InputSpendable, Pays, Total
  <1>8. NothingHidden'
    <2> SUFFICES ASSUME pc' = "failed", NEW n \in Notes \cap ToSet(Tree[chain]),
                        Pays(n), Value[n] > 0, n \notin SpentOn(chain)
                 PROVE  FALSE
      BY <1>1 DEF NothingHidden, Pays, Total
    <2>1. \A o \in notes : ~ Pays(o.note)
      BY DEF Found, NotFound
    <2>2. PICK i \in DOMAIN tree : n = tree[i]
      BY <1>2 DEF ToSet
    <2>3. Value[n] >= cutoff
      <3>1. /\ call.fee \in Nat /\ call.amount \in Nat /\ Value[n] \in Nat
            /\ cutoff \in Nat
        BY <1>1, WalletParams DEF TypeOK, Call
      <3>2. cutoff <= Least(call.fee, call.amount)
        BY <1>1 DEF Served
      <3> QED BY <3>1, <3>2 DEF Least, Pays, Total
    <2>4. [note |-> tree[i], at |-> i, witness |-> tree] \in notes
      BY <2>2, <2>3 DEF NotesSoFar, Holdings
    <2>5. [note |-> tree[i], at |-> i, witness |-> tree].note = n
      BY <2>2
    <2> QED BY <2>1, <2>4, <2>5
  <1> QED BY <1>5, <1>6, <1>7, <1>8

\* A restart preserves the invariant.
LEMMA RestartStep == WInv /\ Restart => WInv'
  <1> SUFFICES ASSUME WInv, Restart PROVE WInv'
    OBVIOUS
  <1> USE DEF WInv
  <1>1. chain \in Blocks
    BY DEF TypeOK
  <1>2. TypeOK'
    BY DEF Restart, TypeOK
  <1>3. Progress'
    <2>1. \A c \in Path[chain] : Tree[c] \in Seq(Leaves)
      BY <1>1, Grows
    <2> QED BY <1>1, <2>1, Grows, Branch DEF Restart, Progress, After
  <1>4. Foreseen' /\ NotesSoFar'
    BY DEF Restart, Foreseen, NotesSoFar, Holdings
  <1>5. Served' /\ InputSpendable' /\ NothingHidden'
    BY DEF Restart, Served, InputSpendable, NothingHidden
  <1> QED BY <1>2, <1>3, <1>4, <1>5

\* Every step preserves the invariant.
LEMMA NextWInv == WInv /\ [Next]_vars => WInv'
  <1>1. ASSUME WInv, UNCHANGED vars PROVE WInv'
    BY <1>1 DEF vars, state, WInv, TypeOK, Progress, After, Foreseen, NotesSoFar, Holdings,
                Served, InputSpendable, NothingHidden, Pays, Total
  <1>2. ASSUME WInv, NEW b \in Blocks, NEW c \in Calls, Asked(b, c) PROVE WInv'
    BY <1>2, AskedStep, WalletParams DEF Asked
  <1> QED BY <1>1, <1>2, ScanOutputStep, BlockDoneStep, FoundStep, RestartStep DEF Next, Sync

----------------------------------------------------------------------------
(* What the wallet owes its callers.                                        *)

\* The wallet always satisfies its inductive invariant.
THEOREM WalletInvariance == Spec => []WInv
  BY InitWInv, NextWInv, PTL DEF Spec

\* Whatever branches the calls before it were on, a wallet that is level with a
\* chain has this chain's tree and its unspent notes, with witnesses that open
\* into that tree.
THEOREM NotesAgreeAlways == Spec => []NotesAgree
  <1>1. WInv => NotesAgree
    BY WholeTree DEF WInv, NotesAgree, NotesSoFar
  <1> QED BY <1>1, WalletInvariance, PTL

\* The input of a payment is unspent on the caller's chain, unreserved and large
\* enough.
THEOREM InputAlwaysSpendable == Spec => []InputSpendable
  <1>1. WInv => InputSpendable
    BY DEF WInv
  <1> QED BY <1>1, WalletInvariance, PTL

\* A payment fails only if no note of the chain could fund it, however the
\* cutoffs of the calls before it went up and down.
THEOREM NothingEverHidden == Spec => []NothingHidden
  <1>1. WInv => NothingHidden
    BY DEF WInv
  <1> QED BY <1>1, WalletInvariance, PTL

\* The cutoff only rises in a wallet that starts over.
THEOREM CutoffAlwaysKept == Spec => CutoffKept
  <1>1. ASSUME WInv, [Next]_vars, cutoff' > cutoff
        PROVE  scanned = None \/ scanned \notin Path[chain']
    <2>1. CASE \E b \in Blocks, c \in Calls : Asked(b, c)
      <3>1. PICK b \in Blocks, c \in Calls : Create(b, c)
        BY <2>1 DEF Asked
      <3> DEFINE least == Least(c.fee, c.amount)
      <3>2. least \in Nat /\ cutoff \in Nat
        <4>1. c \in Call
          BY WalletParams
        <4>2. c.fee \in Nat
          BY <4>1 DEF Call
        <4> QED BY <1>1, <4>2 DEF Least, WInv, TypeOK
      <3>3. chain' = b /\ Resume(b, least, IF Stale(b, least) THEN None ELSE scanned)
        BY <3>1 DEF Create
      <3>4. CASE Stale(b, least)
        <4>1. cutoff' = least
          BY <3>3, <3>4 DEF Resume
        <4> QED BY <1>1, <3>2, <3>3, <3>4, <4>1 DEF Stale
      <3>5. CASE ~ Stale(b, least)
        BY <1>1, <3>2, <3>3, <3>5 DEF Resume
      <3> QED BY <3>4, <3>5
    <2>2. CASE Sync \/ Restart \/ UNCHANGED vars
      <3>1. cutoff' = cutoff \/ cutoff' = 0
        BY <2>2 DEF Sync, ScanOutput, BlockDone, Found, NotFound, Restart, vars, state
      <3> QED BY <1>1, <3>1 DEF WInv, TypeOK
    <2> QED BY <1>1, <2>1, <2>2 DEF Next
  <1>2. WInv /\ [Next]_vars
          => [cutoff' > cutoff => scanned = None \/ scanned \notin Path[chain']]_vars
    BY <1>1
  <1> QED BY <1>2, WalletInvariance, PTL DEF Spec, CutoffKept

----------------------------------------------------------------------------
(* The worker: WorkerInv is inductive.                                      *)

\* The request at hand is a request.
LEMMA CurrentType ==
  ASSUME WorkerTypeOK, Len(results) < Len(line)
  PROVE  /\ Current \in Request
         /\ SelectionFee(Current) \in Nat /\ SelectionFee(Current) >= Current.fee
  <1>1. line \in Seq(Request) /\ results \in Seq([payment : Notes, conflict : Notes \cup {None}])
    BY WorkerParams DEF WorkerTypeOK
  <1>2. Current \in Request
    BY <1>1 DEF Current
  <1> QED BY <1>2, WorkerParams DEF Request, SelectionFee

\* The initial state satisfies the invariant.
LEMMA InitWorkerInv == WorkerInit => WorkerInv
  <1> SUFFICES ASSUME WorkerInit PROVE WorkerInv
    OBVIOUS
  <1>1. WInv
    BY InitWInv DEF WorkerInit
  <1>2. WorkerTypeOK
    BY ChainShape DEF WorkerInit, WorkerTypeOK, Stages
  <1>3. BuiltSoFar /\ CallAtHand /\ FirstAtHand /\ PaymentsApart /\ ConflictsCompete
    BY DEF WorkerInit, Init, BuiltSoFar, CallAtHand, FirstAtHand, PaymentsApart,
           ConflictsCompete
  <1> QED BY <1>1, <1>2, <1>3 DEF WorkerInv

\* Reading a line, fetching the chain and answering preserve the invariant.
LEMMA ControlStep ==
  ASSUME WorkerInv,
         \/ \E l \in Lines : Read(l)
         \/ \E b \in Blocks : Fetch(b)
         \/ AllPaid \/ Unfunded \/ Fails \/ Write
  PROVE  WorkerInv'
  <1> USE DEF WorkerInv
  <1>1. UNCHANGED vars /\ WInv'
    BY NextWInv DEF Read, Fetch, AllPaid, Unfunded, Fails, Write, Reply
  <1>2. ASSUME NEW l \in Lines, Read(l) PROVE WorkerInv'
    <2>1. WorkerTypeOK'
      BY <1>2 DEF Read, WorkerTypeOK, Stages
    <2>2. BuiltSoFar' /\ CallAtHand' /\ FirstAtHand'
      BY <1>1, <1>2 DEF Read, BuiltSoFar, CallAtHand, FirstAtHand, vars
    <2>3. PaymentsApart' /\ ConflictsCompete'
      BY <1>2 DEF Read, PaymentsApart, ConflictsCompete
    <2> QED BY <1>1, <2>1, <2>2, <2>3
  <1>3. ASSUME NEW b \in Blocks, Fetch(b) PROVE WorkerInv'
    <2>1. WorkerTypeOK'
      BY <1>3 DEF Fetch, WorkerTypeOK, Stages
    <2>2. results = <<>> /\ results' = <<>> /\ Len(results') <= Len(line')
      <3>1. line \in Seq(Request)
        <4>1. CASE line \in Lines  BY <4>1, WorkerParams
        <4>2. CASE line = <<>>  BY <4>2
        <4> QED BY <4>1, <4>2 DEF WorkerTypeOK
      <3>2. results = <<>> /\ results' = <<>>
        BY <1>3 DEF Fetch, BuiltSoFar
      <3>3. Len(results') = 0 /\ Len(line') \in Nat
        BY <3>1, <3>2, <1>3 DEF Fetch
      <3> QED BY <3>2, <3>3
    <2>3. BuiltSoFar' /\ CallAtHand' /\ FirstAtHand'
      BY <1>1, <1>3, <2>2 DEF Fetch, BuiltSoFar, CallAtHand, FirstAtHand, vars
    <2>4. PaymentsApart' /\ ConflictsCompete'
      BY <2>2 DEF PaymentsApart, ConflictsCompete
    <2> QED BY <1>1, <2>1, <2>3, <2>4
  <1>4. CASE AllPaid \/ Unfunded \/ Fails \/ Write
    <2>1. /\ UNCHANGED <<blocks, line, results, reserved, first>>
          /\ stage' \in {"write", "read"} /\ reply' \in {"none", "result", "error"}
          /\ stage \in {"paying", "conflicting"} => pc # "scan"
      BY <1>4 DEF AllPaid, Unfunded, Fails, Write, Reply, WorkerTypeOK
    <2>2. WorkerTypeOK'
      BY <2>1 DEF WorkerTypeOK, Stages
    <2>3. BuiltSoFar' /\ CallAtHand' /\ FirstAtHand'
      BY <1>1, <2>1 DEF BuiltSoFar, CallAtHand, FirstAtHand, vars
    <2>4. PaymentsApart' /\ ConflictsCompete'
      BY <2>1 DEF PaymentsApart, ConflictsCompete
    <2> QED BY <1>1, <2>2, <2>3, <2>4
  <1> QED BY <1>2, <1>3, <1>4

\* A call of the wallet preserves the invariant.
LEMMA CallStep ==
  ASSUME WorkerInv, Payment \/ Conflict
  PROVE  WorkerInv'
  <1> USE DEF WorkerInv
  <1>1. Len(results) < Len(line) /\ pc # "scan" /\ blocks \in Blocks
    BY DEF Payment, Conflict, BuiltSoFar, CallAtHand, WorkerTypeOK
  <1>2. /\ Current \in Request
        /\ SelectionFee(Current) \in Nat /\ Current.fee \in Nat /\ Current.amount \in Nat
    BY <1>1, CurrentType DEF Request
  <1> DEFINE paying == [fee |-> SelectionFee(Current), amount |-> Current.amount,
                        reserved |-> reserved, inputs |-> Notes]
             conflicting == [fee |-> Current.fee, amount |-> Current.amount,
                             reserved |-> {}, inputs |-> {first}]
  <1>3. /\ UNCHANGED <<blocks, line, results, reserved, first, reply>>
        /\ Current' = Current
    BY DEF Payment, Conflict, Current
  <1>4. CASE Payment
    <2>1. paying \in Call
      BY <1>2 DEF Call, WorkerTypeOK
    <2>2. Create(blocks, paying) /\ stage' = "paying"
      BY <1>4 DEF Payment
    <2>3. WInv'
      BY <1>1, <2>1, <2>2, AskedStep
    <2>4. chain' = blocks /\ call' = paying /\ pc' = "scan"
      BY <2>2 DEF Create
    <2>5. WorkerTypeOK' /\ BuiltSoFar' /\ FirstAtHand'
      BY <1>1, <1>3, <2>2 DEF WorkerTypeOK, Stages, BuiltSoFar, FirstAtHand
    <2>6. CallAtHand'
      BY <1>3, <2>2, <2>4 DEF CallAtHand, SelectionFee
    <2> QED BY <1>3, <2>3, <2>5, <2>6 DEF PaymentsApart, ConflictsCompete
  <1>5. CASE Conflict
    <2>1. conflicting \in Call
      BY <1>2, <1>5 DEF Call, WorkerTypeOK, Conflict
    <2>2. Create(blocks, conflicting) /\ stage = "conflict" /\ stage' = "conflicting"
      BY <1>5 DEF Conflict
    <2>3. WInv'
      BY <1>1, <2>1, <2>2, AskedStep
    <2>4. chain' = blocks /\ call' = conflicting /\ pc' = "scan"
      BY <2>2 DEF Create
    <2>5. WorkerTypeOK' /\ BuiltSoFar' /\ FirstAtHand'
      BY <1>1, <1>3, <2>2 DEF WorkerTypeOK, Stages, BuiltSoFar, FirstAtHand, Spendable
    <2>6. CallAtHand'
      BY <1>3, <2>2, <2>4 DEF CallAtHand
    <2> QED BY <1>3, <2>3, <2>5, <2>6 DEF PaymentsApart, ConflictsCompete
  <1> QED BY <1>4, <1>5

\* The wallet's work preserves the invariant.
LEMMA BuildingStep == WorkerInv /\ Building => WorkerInv'
  <1> SUFFICES ASSUME WorkerInv, Building PROVE WorkerInv'
    OBVIOUS
  <1> USE DEF WorkerInv
  <1>1. WInv'
    BY NextWInv DEF Building, Next
  <1>2. /\ UNCHANGED worker /\ UNCHANGED <<chain, call>> /\ pc' # "idle"
        /\ stage \in {"paying", "conflicting"}
    BY DEF Building, Sync, ScanOutput, BlockDone, Found, NotFound, CallAtHand
  <1>3. WorkerTypeOK' /\ BuiltSoFar' /\ CallAtHand' /\ FirstAtHand'
    BY <1>2 DEF WorkerTypeOK, BuiltSoFar, CallAtHand, FirstAtHand, Spendable, Current,
                SelectionFee, worker
  <1>4. PaymentsApart' /\ ConflictsCompete'
    BY <1>2 DEF PaymentsApart, ConflictsCompete, worker
  <1> QED BY <1>1, <1>3, <1>4

\* What a call found for the request at hand.
LEMMA InputAtHand ==
  ASSUME WorkerInv, pc = "found", stage \in {"paying", "conflicting"}
  PROVE  /\ input \in Notes /\ Spendable(input)
         /\ input \in call.inputs /\ input \notin call.reserved
         /\ Value[input] >= call.fee + call.amount
  BY DEF WorkerInv, WInv, TypeOK, InputSpendable, CallAtHand, Spendable, Total

\* Going on to the cheap version of a conflict preserves the invariant.
LEMMA PaidConflictStep == WorkerInv /\ PaidConflict => WorkerInv'
  <1> SUFFICES ASSUME WorkerInv, PaidConflict PROVE WorkerInv'
    OBVIOUS
  <1> USE DEF WorkerInv
  <1>1. /\ stage = "paying" /\ pc = "found" /\ first' = input /\ stage' = "conflict"
        /\ UNCHANGED <<vars, blocks, line, results, reserved, reply>>
    BY DEF PaidConflict
  <1>2. WInv'
    BY <1>1, NextWInv
  <1>3. /\ input \in Notes /\ Spendable(input) /\ input \notin reserved
        /\ Value[input] >= SelectionFee(Current) + Current.amount
    BY <1>1, InputAtHand DEF CallAtHand
  <1>4. Value[input] >= Current.fee + Current.amount
    <2>1. /\ Current \in Request
          /\ SelectionFee(Current) \in Nat /\ SelectionFee(Current) >= Current.fee
      BY <1>1, CurrentType DEF BuiltSoFar
    <2>2. Current.fee \in Nat /\ Current.amount \in Nat /\ Value[input] \in Nat
      BY <1>3, <2>1, WalletParams DEF Request
    <2> QED BY <1>3, <2>1, <2>2
  <1>5. Current' = Current /\ Spendable(input)'
    BY <1>1, <1>3 DEF Current, Spendable, vars
  <1>6. FirstAtHand'
    BY <1>1, <1>3, <1>4, <1>5 DEF FirstAtHand, Spendable
  <1>7. WorkerTypeOK' /\ BuiltSoFar' /\ CallAtHand'
    BY <1>1, <1>3 DEF WorkerTypeOK, Stages, BuiltSoFar, CallAtHand, vars
  <1> QED BY <1>1, <1>2, <1>6, <1>7 DEF PaymentsApart, ConflictsCompete

\* Adding what was built for a request preserves the invariant: its note is not
\* among those of the requests before it.
LEMMA PaidStep ==
  ASSUME WorkerInv, Paid \/ PaidBoth
  PROVE  WorkerInv'
  <1> USE DEF WorkerInv
  <1> DEFINE second == IF stage = "paying" THEN None ELSE first
             built == [payment |-> input, conflict |-> second]
             n == Len(results) + 1
  <1>1. /\ stage \in {"paying", "conflicting"} /\ pc = "found" /\ stage' = "payment"
        /\ results' = Append(results, built)
        /\ UNCHANGED <<vars, blocks, line, first, reply>>
    BY DEF Paid, PaidBoth
  <1>2. WInv'
    BY <1>1, NextWInv
  <1>3. /\ input \in Notes /\ Spendable(input) /\ input \notin reserved
        /\ second \in {None, input}
    BY <1>1, InputAtHand DEF CallAtHand, FirstAtHand
  <1>4. reserved' = reserved \cup {input}
    BY <1>1, <1>3, InputAtHand DEF Paid, PaidBoth, CallAtHand
  <1>5. results \in Seq([payment : Notes, conflict : Notes \cup {None}])
    BY DEF WorkerTypeOK
  <1>6. built \in [payment : Notes, conflict : Notes \cup {None}]
    BY <1>3
  <1>7. /\ results' \in Seq([payment : Notes, conflict : Notes \cup {None}])
        /\ DOMAIN results' = DOMAIN results \cup {n} /\ n \notin DOMAIN results
        /\ Len(results') = n
        /\ \A i \in DOMAIN results : results'[i] = results[i]
        /\ results'[n].payment = input /\ results'[n].conflict = second
    BY <1>1, <1>5, <1>6
  <1>8. WorkerTypeOK'
    BY <1>1, <1>3, <1>4, <1>7 DEF WorkerTypeOK, Stages
  <1>9. BuiltSoFar'
    <2>1. Len(results') <= Len(line')
      <3>1. line \in Seq(Request) /\ Len(results) < Len(line)
        BY <1>1, WorkerParams DEF WorkerTypeOK, BuiltSoFar
      <3> QED BY <1>1, <1>5, <1>7, <3>1
    <2> QED BY <1>1, <1>3, <1>4, <1>7, <2>1 DEF BuiltSoFar, Spendable
  <1>10. CallAtHand' /\ FirstAtHand'
    BY <1>1 DEF CallAtHand, FirstAtHand, vars
  <1>11. PaymentsApart'
    BY <1>1, <1>3, <1>7 DEF PaymentsApart, BuiltSoFar, Spendable
  <1>12. ConflictsCompete'
    BY <1>3, <1>7 DEF ConflictsCompete
  <1> QED BY <1>2, <1>8, <1>9, <1>10, <1>11, <1>12

\* Every step preserves the invariant.
LEMMA NextWorkerInv == WorkerInv /\ [WorkerNext]_all => WorkerInv'
  <1>1. ASSUME WorkerInv, UNCHANGED all PROVE WorkerInv'
    <2>1. UNCHANGED vars /\ UNCHANGED worker
      BY <1>1 DEF all
    <2>2. WInv'
      BY <1>1, <2>1, NextWInv DEF WorkerInv
    <2> QED BY <1>1, <2>1, <2>2
            DEF vars, worker, WorkerInv, WorkerTypeOK, BuiltSoFar, CallAtHand, FirstAtHand,
                Spendable, Current, SelectionFee, PaymentsApart, ConflictsCompete
  <1> QED BY <1>1, ControlStep, CallStep, BuildingStep, PaidConflictStep, PaidStep
          DEF WorkerNext, Works

----------------------------------------------------------------------------
(* What the worker owes the driver.                                         *)

\* The worker always satisfies its inductive invariant.
THEOREM WorkerInvariance == WorkerSpec => []WorkerInv
  BY InitWorkerInv, NextWorkerInv, PTL DEF WorkerSpec

\* The payments of a line spend different notes, none of them spent.
THEOREM PaymentsAlwaysApart == WorkerSpec => []PaymentsApart
  <1>1. WorkerInv => PaymentsApart
    BY DEF WorkerInv
  <1> QED BY <1>1, WorkerInvariance, PTL

\* Both transactions of a conflict spend the same note.
THEOREM ConflictsAlwaysCompete == WorkerSpec => []ConflictsCompete
  <1>1. WorkerInv => ConflictsCompete
    BY DEF WorkerInv
  <1> QED BY <1>1, WorkerInvariance, PTL

\* The cheap version of a conflict never fails for want of a note: what was
\* selected for the expensive one is still there, at any cutoff.
THEOREM SecondAlwaysFunded == WorkerSpec => []SecondFunded
  <1>1. WorkerInv => SecondFunded
    <2> SUFFICES ASSUME WorkerInv, stage = "conflicting", pc = "failed" PROVE FALSE
      BY DEF SecondFunded
    <2> USE DEF WorkerInv
    <2>1. /\ chain = blocks
          /\ call = [fee |-> Current.fee, amount |-> Current.amount,
                     reserved |-> {}, inputs |-> {first}]
      BY DEF CallAtHand
    <2>2. /\ first \in Notes /\ Spendable(first)
          /\ Value[first] >= Current.fee + Current.amount
      BY DEF FirstAtHand, WorkerTypeOK
    <2>3. Pays(first)
      BY <2>1, <2>2 DEF Pays, Total
    <2> QED BY <2>1, <2>2, <2>3 DEF WInv, NothingHidden, Spendable
  <1> QED BY <1>1, WorkerInvariance, PTL

=============================================================================
