------------------------------ MODULE MCWallet ------------------------------
(***************************************************************************)
(* Instances of Wallet and Worker for TLC: a1 - a2 loses to b1 - b2 - b3.   *)
(* n1 is spent in a2 and in b3; n2 is received in a1 and in b2, behind a    *)
(* stranger's output; n3 is received and spent on branch b only, within the *)
(* range of one scan; n4, of lowest value, is there from the beginning.     *)
(***************************************************************************)
EXTENDS Wallet

CONSTANTS n1, n2, n3, n4, x,   \* notes, a stranger's output
          s1, s3               \* what spends n1, n3

MCBlocks == {"g", "a1", "a2", "b1", "b2", "b3"}
MCPath == [b \in MCBlocks |->
    CASE b = "g" -> {"g"}
      [] b = "a1" -> {"g", "a1"}
      [] b = "a2" -> {"g", "a1", "a2"}
      [] b = "b1" -> {"g", "b1"}
      [] b = "b2" -> {"g", "b1", "b2"}
      [] b = "b3" -> {"g", "b1", "b2", "b3"}]
MCHeight == [b \in Blocks |-> Cardinality(Path[b]) - 1]
MCBody == [b \in Blocks |->
    CASE b = "a2" -> {s1} [] b = "b2" -> {s3} [] b = "b3" -> {s1} [] OTHER -> {}]
MCPayees == [b \in Blocks |-> {}]
MCSpends == [t \in Txs |-> IF t = s1 THEN {n1} ELSE {n3}]
MCAnchor == [t \in Txs |-> "g"]
MCExpiry == [t \in Txs |-> 0]

MCTree == [b \in Blocks |->
    CASE b = "g" -> <<n4, n1>>
      [] b = "a1" -> <<n4, n1, n2>>
      [] b = "a2" -> <<n4, n1, n2, x>>
      [] b = "b1" -> <<n4, n1, n3>>
      [] b = "b2" -> <<n4, n1, n3, x, n2>>
      [] b = "b3" -> <<n4, n1, n3, x, n2>>]
MCValue == [n \in Notes |->
    CASE n = n1 -> 5 [] n = n2 -> 4 [] n = n3 -> 3 [] n = n4 -> 2]
MCCalls ==
    [fee : {1, 3}, amount : {0, 2}, reserved : {{}, {n1}, {n2, n4}}, inputs : {Notes, {n2}}]
Overtakes == {m \in Blocks \X Blocks : Height[m[1]] < Height[m[2]]}
Anywhere == Blocks \X Blocks
=============================================================================
