--------------------------- MODULE MCServiceSync ---------------------------
(***************************************************************************)
(* Instances of ServiceSync for TLC, over the trees of MCService and        *)
(*                                                                          *)
(*   fork   g - a1 - a2               a call that has read branch a is      *)
(*           \- b1 - b2 - b3          overtaken by branch b                 *)
(***************************************************************************)
EXTENDS MCService, ServiceSync

ForkBlocks == {"g", "a1", "a2", "b1", "b2", "b3"}
=============================================================================
