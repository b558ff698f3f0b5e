----------------------------- MODULE MCExplorer -----------------------------
(***************************************************************************)
(* Instances of Explorer for TLC: a1 - a2 loses to b1 - b2 - b3.  t1 is     *)
(* mined on both branches at different heights, t2 on one.                  *)
(***************************************************************************)
EXTENDS Explorer

CONSTANTS t1, t2

MCBlocks == {"g", "a1", "a2", "b1", "b2", "b3"}
MCPath == [b \in MCBlocks |->
    CASE b = "g" -> {"g"}
      [] b = "a1" -> {"g", "a1"}
      [] b = "a2" -> {"g", "a1", "a2"}
      [] b = "b1" -> {"g", "b1"}
      [] b = "b2" -> {"g", "b1", "b2"}
      [] b = "b3" -> {"g", "b1", "b2", "b3"}]
MCHeight == [b \in Blocks |-> Cardinality(Path[b]) - 1]
MCBody == [b \in Blocks |->
    CASE b = "a1" -> {t1} [] b = "b2" -> {t1} [] b = "a2" -> {t2} [] OTHER -> {}]
MCPayees == [b \in Blocks |-> {}]
MCSpends == [t \in Txs |-> IF t = t1 THEN {"n1"} ELSE {"n2"}]
MCAnchor == [t \in Txs |-> "g"]
MCExpiry == [t \in Txs |-> 0]
Overtakes == {m \in Blocks \X Blocks : Height[m[1]] < Height[m[2]]}
=============================================================================
