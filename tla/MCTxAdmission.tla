---------------------------- MODULE MCTxAdmission ----------------------------
(***************************************************************************)
(* TxAdmission on the transactions of MCPool.                              *)
(***************************************************************************)
EXTENDS TxAdmission, MCPool
=============================================================================
