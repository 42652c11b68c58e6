---------------------------- MODULE MCChainState -----------------------------
(***************************************************************************)
(* ChainState on the tree of MCTree.                                       *)
(***************************************************************************)
EXTENDS ChainState, MCTree
=============================================================================
