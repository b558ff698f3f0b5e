---------------------------- MODULE MinerProofs ----------------------------
(***************************************************************************)
(* Proof that a miner's template can be mined and is made of the last       *)
(* snapshot fetched, for every chain, every sequence of snapshots and any   *)
(* number of failing fetches and verifications.  It needs BestChain: a tip  *)
(* that was left never comes back while the snapshot is verified.           *)
(***************************************************************************)
EXTENDS Miner, SubsequenceProofs, TLAPS

----------------------------------------------------------------------------
(* What is chosen of a snapshot.                                            *)

\* Nothing is chosen of nothing.
LEMMA FillsNothing ==
    ASSUME NEW b \in Blocks
    PROVE  Fills(<<>>, <<>>, b)
<1>1. Subsequence(<<>>, <<>>)
  BY NothingLeft
<1>2. ToSet(<<>>) = {}
  BY DEF ToSet
<1> QED BY <1>1, <1>2 DEF Fills

\* What a sequence with one more element holds.
LEMMA OneMore ==
    ASSUME NEW s \in Seq(Txs), NEW x \in Txs
    PROVE  ToSet(Append(s, x)) = ToSet(s) \cup {x} /\ Append(s, x) \in Seq(Txs)
<1>1. /\ DOMAIN Append(s, x) = DOMAIN s \cup {Len(s) + 1}
      /\ \A i \in DOMAIN s : Append(s, x)[i] = s[i]
      /\ Append(s, x)[Len(s) + 1] = x
  OBVIOUS
<1> QED BY <1>1 DEF ToSet

\* A transaction that cannot be put first is rightly passed over.
LEMMA FillsPassing ==
    ASSUME NEW s \in Seq(Txs), NEW t \in Seq(Txs), NEW x \in Txs, NEW b \in Blocks,
           Fills(s, t, b),
           \/ x \in Timeouts \/ ~ Valid(x, b)
           \/ \E i \in DOMAIN s : Spends[s[i]] \cap Spends[x] # {}
    PROVE  Fills(s, Append(t, x), b)
<1>1. Subsequence(s, Append(t, x))
  BY LeftOut DEF Fills
<1>2. ToSet(Append(t, x)) = ToSet(t) \cup {x}
  BY OneMore
<1>3. x \notin Timeouts /\ Valid(x, b) => \E u \in ToSet(s) : Spends[x] \cap Spends[u] # {}
  BY DEF ToSet
<1> QED BY <1>1, <1>2, <1>3 DEF Fills

\* A transaction that is put first is one of those of the snapshot.
LEMMA FillsChoosing ==
    ASSUME NEW s \in Seq(Txs), NEW t \in Seq(Txs), NEW x \in Txs, NEW b \in Blocks,
           Fills(s, t, b)
    PROVE  Fills(Append(s, x), Append(t, x), b)
<1>1. Subsequence(Append(s, x), Append(t, x))
  BY TakenIn DEF Fills
<1>2. /\ ToSet(Append(t, x)) = ToSet(t) \cup {x}
      /\ ToSet(Append(s, x)) = ToSet(s) \cup {x}
  BY OneMore
<1> QED BY <1>1, <1>2 DEF Fills

----------------------------------------------------------------------------
(* MInv is inductive.                                                       *)

\* The snapshot at hand, and what is chosen of it.
LEMMA MinerTypes ==
    ASSUME MInv
    PROVE  /\ tip \in Blocks /\ parent \in Blocks /\ chosen \in Seq(Txs) /\ next \in Nat
           /\ Height[tip] \in Int /\ Height[parent] \in Int
           /\ last # None => last \in Snapshots /\ last.txs \in Seq(Txs)
           /\ template # None =>
                 template.parent \in Blocks /\ Height[template.parent] \in Int
BY ChainShape, MinerParams DEF MInv, TypeOK

\* MInv holds initially.
LEMMA InitMInv == Init => MInv
<1> SUFFICES ASSUME Init PROVE MInv
  OBVIOUS
<1>1. Genesis \in Blocks /\ <<>> \in Seq(Txs)
  BY ChainShape
<1>2. TypeOK
  BY <1>1 DEF Init, TypeOK
<1>3. Choosing /\ TemplateMinable /\ Aging /\ Current
  BY DEF Init, Choosing, TemplateMinable, Aging, Current
<1> QED BY <1>2, <1>3 DEF MInv

\* The tip only goes up: a parent it has left stays below it.
LEMMA TipStep ==
    ASSUME MInv, NEW b \in Blocks, TipMoves(b)
    PROVE  MInv'
<1>1. Height[tip] < Height[b] /\ Height[tip] \in Int /\ Height[b] \in Int /\ tip' = b
  BY ChainShape, BestChain DEF TipMoves, MInv, TypeOK
<1>2. TypeOK'
  BY DEF TipMoves, MInv, TypeOK
<1>3. Choosing'
  BY <1>1, MinerTypes DEF TipMoves, MInv, Choosing
<1>4. TemplateMinable'
  BY DEF TipMoves, MInv, TemplateMinable, MinableOn
<1>5. template # None => Height[template.parent] < Height[b]
  BY <1>1, MinerTypes DEF MInv, Aging
<1>6. Aging'
  BY <1>1, <1>5 DEF TipMoves, MInv, Aging
<1>7. Current'
  BY <1>1, <1>5, MinerTypes DEF TipMoves, Current
<1> QED BY <1>2, <1>3, <1>4, <1>6, <1>7 DEF MInv

\* The steps that change neither what is chosen nor the template.
LEMMA IdleStep ==
    ASSUME MInv,
           \/ UNCHANGED vars
           \/ \E s \in Snapshots : Offers(s)
           \/ Tick \/ FetchSnapshot \/ FetchFails \/ Skip
    PROVE  MInv'
<1> USE DEF vars, Offers, Tick, FetchSnapshot, FetchFails, Skip
<1>1. TypeOK'
  BY DEF MInv, TypeOK
<1>2. UNCHANGED <<tip, parent, next, chosen, template>>
  OBVIOUS
<1>3. pc' = "verify" => pc = "verify" /\ last' = last
  OBVIOUS
<1>4. last # None => last' # None
  <2>1. offer # None => offer \in Snapshots
    BY DEF MInv, TypeOK
  <2> QED BY <2>1
<1>5. Choosing'
  BY <1>2, <1>3 DEF MInv, Choosing, MinableOn, Fills
<1>6. TemplateMinable'
  BY <1>2 DEF MInv, TemplateMinable, MinableOn
<1>7. Aging'
  BY <1>2, <1>3, <1>4 DEF MInv, Aging
<1>8. Current'
  <2> SUFFICES ASSUME template # None, template.parent = tip,
                      pc' \in {"sleep", "fetch"} \/ (pc' = "decide" /\ ~ changed')
               PROVE  TemplateOf(last.txs, tip) /\ last' = last
    BY <1>2 DEF Current, TemplateOf, Fills
  <2>1. last # None
    BY DEF MInv, Aging
  <2>2. CASE FetchSnapshot
    <3>1. pc' = "decide" /\ ~ changed'
      BY <2>2
    <3>2. last' = last /\ pc = "fetch"
      BY <2>2, <3>1
    <3> QED BY <3>2 DEF MInv, Current
  <2>3. CASE ~ FetchSnapshot
    <3>1. last' = last
      BY <2>3
    <3>2. pc \in {"sleep", "fetch"} \/ (pc = "decide" /\ ~ changed)
      BY <2>1, <2>3 DEF UpToDate
    <3> QED BY <3>1, <3>2 DEF MInv, Current
  <2> QED BY <2>2, <2>3
<1> QED BY <1>1, <1>5, <1>6, <1>7, <1>8 DEF MInv

\* A round that is given up leaves a template for a tip that was left.
LEMMA DiscardStep ==
    ASSUME MInv, Discard
    PROVE  MInv'
<1>1. TypeOK'
  BY DEF Discard, MInv, TypeOK
<1>2. Choosing' /\ TemplateMinable' /\ Aging'
  BY DEF Discard, MInv, Choosing, TemplateMinable, MinableOn, Aging
<1>3. template # None => template.parent # tip
  <2>1. Height[parent] < Height[tip]
    BY DEF Discard, Verified, SameParent, MInv, Choosing
  <2>2. template # None => Height[template.parent] <= Height[parent]
    BY DEF Discard, Verified, MInv, Aging
  <2> QED BY <2>1, <2>2, MinerTypes
<1>4. Current'
  BY <1>3 DEF Discard, Current
<1> QED BY <1>1, <1>2, <1>4 DEF MInv

\* A round starts with nothing chosen, on the tip it finds.
LEMMA BuildStep ==
    ASSUME MInv, Build
    PROVE  MInv'
<1>1. TypeOK'
  BY DEF Build, MInv, TypeOK
<1>2. Choosing'
  <2>1. last # None /\ last.txs \in Seq(Txs) /\ tip \in Blocks
    BY MinerTypes DEF Build
  <2>2. SubSeq(last.txs, 1, 1 - 1) = <<>> /\ 1 \in 1..Len(last.txs) + 1
    BY <2>1
  <2>3. Fills(<<>>, SubSeq(last.txs, 1, 1 - 1), tip)
    BY <2>1, <2>2, FillsNothing
  <2>4. MinableOn(<<>>, tip)
    BY DEF MinableOn
  <2>5. /\ tip' = tip /\ parent' = tip /\ last' = last
        /\ next' = 1 /\ chosen' = <<>>
    BY DEF Build
  <2> QED BY <2>1, <2>2, <2>3, <2>4, <2>5 DEF Choosing, MinableOn, Fills
<1>3. TemplateMinable'
  BY DEF Build, MInv, TemplateMinable, MinableOn
<1>4. Aging'
  BY MinerTypes DEF Build, MInv, Aging
<1>5. Current'
  BY DEF Build, Current
<1> QED BY <1>1, <1>2, <1>3, <1>4, <1>5 DEF MInv

\* A candidate is a transaction of the last snapshot, the next of those looked at.
LEMMA CandidateType ==
    ASSUME MInv, AtCandidate
    PROVE  /\ Candidate \in Txs /\ next + 1 \in 1..Len(last.txs) + 1
           /\ SubSeq(last.txs, 1, next - 1) \in Seq(Txs)
           /\ SubSeq(last.txs, 1, (next + 1) - 1)
                 = Append(SubSeq(last.txs, 1, next - 1), Candidate)
<1>1. last.txs \in Seq(Txs) /\ next \in 1..Len(last.txs)
  BY MinerTypes DEF MInv, Choosing, AtCandidate
<1> QED BY <1>1, UpTo DEF Candidate

\* A candidate that is verified at the parent and clashes with nothing chosen
\* can be mined with it.
LEMMA ChooseStep ==
    ASSUME MInv, Choose
    PROVE  MInv'
<1> DEFINE c == Candidate
           seen == SubSeq(last.txs, 1, next - 1)
<1>1. /\ c \in Txs /\ next \in Nat /\ next + 1 \in 1..Len(last.txs) + 1
      /\ seen \in Seq(Txs) /\ SubSeq(last.txs, 1, (next + 1) - 1) = Append(seen, c)
  BY CandidateType, MinerTypes DEF Choose
<1>2. chosen \in Seq(Txs) /\ chosen' = Append(chosen, c)
  BY DEF Choose, MInv, TypeOK
<1>3. TypeOK'
  BY <1>1, <1>2 DEF Choose, MInv, TypeOK
<1>4. TemplateMinable' /\ Aging' /\ Current'
  BY DEF Choose, AtCandidate, MInv, TemplateMinable, MinableOn, Aging, Current
<1>5. ASSUME MinableOn(chosen, parent), tip = parent
      PROVE  MinableOn(chosen', parent)
  <2>1. Valid(c, parent) /\ \A i \in DOMAIN chosen : Spends[chosen[i]] \cap Spends[c] = {}
    BY <1>5 DEF Choose, Clashes
  <2>2. /\ DOMAIN chosen' = DOMAIN chosen \cup {Len(chosen) + 1}
        /\ \A i \in DOMAIN chosen : chosen'[i] = chosen[i]
        /\ chosen'[Len(chosen) + 1] = c
    BY <1>1, <1>2
  <2>3. \A i \in DOMAIN chosen' : Valid(chosen'[i], parent)
    BY <2>1, <2>2, <1>5 DEF MinableOn
  <2>4. \A i, j \in DOMAIN chosen' :
           i # j => Spends[chosen'[i]] \cap Spends[chosen'[j]] = {}
    BY <2>1, <2>2, <1>5 DEF MinableOn
  <2> QED BY <2>3, <2>4 DEF MinableOn
<1>6. ASSUME Fills(chosen, seen, parent)
      PROVE  Fills(chosen', SubSeq(last.txs, 1, (next + 1) - 1), parent)
  <2>1. Fills(Append(chosen, c), Append(seen, c), parent)
    BY <1>1, <1>2, <1>6, MinerTypes, FillsChoosing
  <2> QED BY <1>1, <1>2, <2>1
<1>7. Choosing'
  <2>1. /\ tip' = tip /\ parent' = parent /\ last' = last /\ next' = next + 1
        /\ pc = "verify"
    BY DEF Choose, AtCandidate
  <2>2. \/ /\ tip = parent /\ MinableOn(chosen', parent)
           /\ Fills(chosen', SubSeq(last.txs, 1, (next + 1) - 1), parent)
        \/ Height[parent] < Height[tip]
    BY <1>5, <1>6, <2>1 DEF MInv, Choosing
  <2>3. last # None
    BY <2>1 DEF MInv, Choosing
  <2> QED BY <1>1, <2>1, <2>2, <2>3 DEF Choosing, MinableOn, Fills
<1> QED BY <1>3, <1>4, <1>7 DEF MInv

\* A candidate that is passed over leaves what is chosen as it is.
LEMMA PassOverStep ==
    ASSUME MInv, PassOver
    PROVE  MInv'
<1> DEFINE c == Candidate
           seen == SubSeq(last.txs, 1, next - 1)
<1>1. /\ c \in Txs /\ next \in Nat /\ next + 1 \in 1..Len(last.txs) + 1
      /\ seen \in Seq(Txs) /\ SubSeq(last.txs, 1, (next + 1) - 1) = Append(seen, c)
  BY CandidateType, MinerTypes DEF PassOver
<1>2. TypeOK'
  BY <1>1 DEF PassOver, MInv, TypeOK
<1>3. TemplateMinable' /\ Aging' /\ Current'
  BY DEF PassOver, AtCandidate, MInv, TemplateMinable, MinableOn, Aging, Current
<1>4. ASSUME Fills(chosen, seen, parent), tip = parent
      PROVE  Fills(chosen, SubSeq(last.txs, 1, (next + 1) - 1), parent)
  <2>1. Fills(chosen, Append(seen, c), parent)
    BY <1>1, <1>4, MinerTypes, FillsPassing DEF PassOver, Clashes
  <2> QED BY <1>1, <2>1
<1>5. Choosing'
  <2>1. /\ UNCHANGED <<tip, parent, last, chosen>> /\ next' = next + 1
        /\ pc = "verify"
    BY DEF PassOver, AtCandidate
  <2>2. \/ /\ tip = parent /\ MinableOn(chosen, parent)
           /\ Fills(chosen, SubSeq(last.txs, 1, (next + 1) - 1), parent)
        \/ Height[parent] < Height[tip]
    BY <1>4, <2>1 DEF MInv, Choosing
  <2>3. last # None
    BY <2>1 DEF MInv, Choosing
  <2> QED BY <1>1, <2>1, <2>2, <2>3 DEF Choosing, MinableOn, Fills
<1> QED BY <1>2, <1>3, <1>5 DEF MInv

\* The template is replaced only while the tip is the parent of the round, and
\* then by what was chosen of the whole snapshot.
LEMMA InstallStep ==
    ASSUME MInv, Install
    PROVE  MInv'
<1>1. /\ MinableOn(chosen, parent) /\ last # None /\ tip = parent
      /\ next \in 1..Len(last.txs) + 1
      /\ Fills(chosen, SubSeq(last.txs, 1, next - 1), parent)
  BY MinerTypes DEF Install, Verified, SameParent, MInv, Choosing
<1>2. TypeOK'
  BY DEF Install, MInv, TypeOK
<1>3. Choosing'
  BY DEF Install, Choosing
<1>4. TemplateMinable'
  BY <1>1 DEF Install, TemplateMinable, MinableOn
<1>5. Aging'
  BY <1>1 DEF Install, Aging
<1>6. Current'
  <2>1. last.txs \in Seq(Txs) /\ next > Len(last.txs) /\ next \in Nat
    BY <1>1, MinerTypes DEF Install, Verified
  <2>2. next - 1 = Len(last.txs)
    BY <1>1, <2>1
  <2>3. SubSeq(last.txs, 1, next - 1) = last.txs
    BY <2>1, <2>2
  <2>4. Fills(chosen, last.txs, tip)
    BY <1>1, <2>3
  <2> QED BY <1>1, <2>4 DEF Install, Current, TemplateOf, Fills
<1> QED BY <1>2, <1>3, <1>4, <1>5, <1>6 DEF MInv

\* Every step of the loop and of its environment keeps MInv.
LEMMA NextMInv == MInv /\ [Next]_vars => MInv'
BY TipStep, IdleStep, DiscardStep, BuildStep, ChooseStep, PassOverStep, InstallStep
   DEF Next, Round

\* MInv is an invariant of the loop.
THEOREM MinerInvariance == Spec => []MInv
BY InitMInv, NextMInv, PTL DEF Spec

\* Whatever is put first in a template can be mined on the template's parent.
THEOREM AlwaysMinable == Spec => []TemplateMinable
<1>1. MInv => TemplateMinable
  BY DEF MInv
<1> QED BY <1>1, MinerInvariance, PTL

\* Between rounds, a template for the current tip is made of the last snapshot
\* fetched, also after a round that was given up.
THEOREM AlwaysFresh == Spec => []TemplateFresh
<1>1. MInv => TemplateFresh
  BY DEF MInv, Current, TemplateFresh
<1> QED BY <1>1, MinerInvariance, PTL

=============================================================================
