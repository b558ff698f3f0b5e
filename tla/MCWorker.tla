------------------------------ MODULE MCWorker ------------------------------
(***************************************************************************)
(* Instances of Worker for TLC, over the chains and notes of MCWallet.      *)
(* With a surcharge of 3 only n1 can fund a dear conflict, and an ordinary  *)
(* payment may have taken it.                                               *)
(***************************************************************************)
EXTENDS MCWallet, Worker

MCRequests == [fee : {0, 1}, amount : {1}, conflict : BOOLEAN]
MCLines == UNION {[1..k -> MCRequests] : k \in 1..2}
           \cup {<<r, r, r>> : r \in MCRequests}
=============================================================================
