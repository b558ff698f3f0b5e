----------------------------- MODULE MCService -----------------------------
(***************************************************************************)
(* Instances of Service for TLC, over three block trees:                    *)
(*                                                                          *)
(*   line   g - a1 - a2 - a3              a chain that only grows           *)
(*   deep   g - a1 - a2 - a3              branch a loses to branch b        *)
(*           \- b1 - b2 - b3 - b4         with everything it has mined      *)
(*   late   g - a1 - a2 - a3              ... with the confirmations of     *)
(*                 \- b2 - b3 - b4        the transaction mined in a1       *)
(*                                                                          *)
(* t1 and t2 spend the same note.  t3 spends another and expires at height  *)
(* 3: in the deep tree branch b does not mine it.  t4 is never mined.  The  *)
(* coinbase of a2 pays two miners, so nobody.                               *)
(***************************************************************************)
EXTENDS Invariants

CONSTANTS t1, t2, t3, t4,   \* transactions
          k1, k2            \* notes of the service's wallet, spendable from g on

LineBlocks == {"g", "a1", "a2", "a3"}
LateBlocks == LineBlocks \cup {"b2", "b3", "b4"}
DeepBlocks == LateBlocks \cup {"b1"}

ParentOf(fork) == [b \in Blocks \ {"g"} |->
    CASE b = "a1" -> "g"
      [] b = "a2" -> "a1"
      [] b = "a3" -> "a2"
      [] b = "b1" -> "g"
      [] b = "b2" -> fork
      [] b = "b3" -> "b2"
      [] b = "b4" -> "b3"]

PathFrom(parent) ==
    LET path[b \in Blocks] == IF b = "g" THEN {b} ELSE {b} \cup path[parent[b]]
    IN  path

DeepPath == PathFrom(ParentOf("b1"))
LatePath == PathFrom(ParentOf("a1"))

MCHeight == [b \in Blocks |-> Cardinality(Path[b]) - 1]

\* A payout is the note it spends and the block it is anchored at, None for one
\* that was built on a torn chain.
MCPayTxs == {k1, k2} \X (Blocks \ {"g", "a1", "b1"})
TornPayTxs == {k1, k2} \X ({None} \cup (Blocks \ {"g", "a1", "b1"}))
OneNotePayTxs == {k1} \X (Blocks \ {"g", "a1", "b1"})

MCBody == [b \in Blocks |->
    (CASE b = "a1" -> {t1}
       [] b = "a2" -> {t3}
       [] b = "a3" -> {<<k1, "a2">>}
       [] b = "b2" /\ "a1" \in Path[b] -> {t3}
       [] b = "b3" /\ "b1" \in Path[b] -> {t1}
       [] b = "b4" /\ "a1" \in Path[b] -> {<<k1, "b3">>}
       [] OTHER -> {}) \cap AllTxs]

MCPayees == [b \in Blocks |->
    CASE b = "a2" -> {"m1", "m2"}
      [] b = "g" -> {}
      [] OTHER -> {"m1"}]

AllPayees == [b \in Blocks |-> {"m1"}]

MCSpends == [t \in AllTxs |->
    IF t \in PayTxs THEN {t[1]}
    ELSE CASE t \in {t1, t2} -> {"n1"} [] t = t3 -> {"n3"} [] t = t4 -> {"n4"}]

MCAnchor == [t \in AllTxs |-> IF t \in PayTxs THEN t[2] ELSE "g"]

MCExpiry == [t \in AllTxs |->
    IF t \in PayTxs
    THEN (IF t[2] = None THEN 3 ELSE Height[t[2]]) + (IF t[1] = k1 THEN 1 ELSE 2)
    ELSE IF t = t3 THEN 3 ELSE 0]

MCFee == [t \in Txs |-> 51]

\* The best chain only grows, or is overtaken by one with more work.
Extends == {m \in Blocks \X Blocks : m[1] \in Path[m[2]] /\ m[1] # m[2]}
Overtakes == {m \in Blocks \X Blocks : Height[m[1]] < Height[m[2]]}
\* ... or invalidateblock takes the node off a2.
Invalidates == Overtakes \cup {<<"a2", "a1">>}
=============================================================================
