------------------------------ MODULE MCMiner ------------------------------
(***************************************************************************)
(* Instances of Miner for TLC: a1 mines t1 and loses to b1 - b2, which      *)
(* mines t3.  t1 and t2 spend the same note.                                *)
(***************************************************************************)
EXTENDS Miner

CONSTANTS t1, t2, t3

MCBlocks == {"g", "a1", "b1", "b2"}
MCPath == [b \in MCBlocks |->
    CASE b = "g" -> {"g"}
      [] b = "a1" -> {"g", "a1"}
      [] b = "b1" -> {"g", "b1"}
      [] b = "b2" -> {"g", "b1", "b2"}]
MCHeight == [b \in Blocks |-> Cardinality(Path[b]) - 1]
MCBody == [b \in Blocks |->
    CASE b = "a1" -> {t1} [] b = "b2" -> {t3} [] OTHER -> {}]
MCPayees == [b \in Blocks |-> {}]
MCSpends == [t \in Txs |-> IF t = t3 THEN {"n3"} ELSE {"n1"}]
MCAnchor == [t \in Txs |-> "g"]
MCExpiry == [t \in Txs |-> 0]
Overtakes == {m \in Blocks \X Blocks : Height[m[1]] < Height[m[2]]}
MCSnapshots == [tip : {"g", "b2"}, txs : {<<>>, <<t1, t3>>, <<t2, t1>>, <<t3, t2>>}]
=============================================================================
