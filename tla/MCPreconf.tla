----------------------------- MODULE MCPreconf -----------------------------
(***************************************************************************)
(* Instances of Preconf for TLC: a1 mines t1 and loses to b1 - b2, which    *)
(* does not.  t2 is anchored at b2, so a miner whose node is not there yet  *)
(* passes it over.  No block pays a configured miner: the payouts, which    *)
(* Service's own runs are about, do not occur.                              *)
(***************************************************************************)
EXTENDS Preconf

CONSTANTS t1, t2

MCBlocks == {"g", "a1", "b1", "b2"}
MCPath == [b \in MCBlocks |->
    CASE b = "g" -> {"g"}
      [] b = "a1" -> {"g", "a1"}
      [] b = "b1" -> {"g", "b1"}
      [] b = "b2" -> {"g", "b1", "b2"}]
MCHeight == [b \in Blocks |-> Cardinality(Path[b]) - 1]
MCBody == [b \in Blocks |-> IF b = "a1" THEN {t1} ELSE {}]
MCPayees == [b \in Blocks |-> {}]
MCSpends == [t \in Txs |-> {t}]
MCAnchor == [t \in Txs |-> IF t = t2 THEN "b2" ELSE "g"]
MCExpiry == [t \in Txs |-> 0]
MCFee == [t \in Txs |-> 51]

\* b1 and b2 come to a node together.
Overtakes == {m \in {"g", "a1", "b2"} \X {"g", "a1", "b2"} : Height[m[1]] < Height[m[2]]}
Extends == {m \in Overtakes : m[1] \in Path[m[2]]}
=============================================================================
