-------------------------- MODULE MCListTransactions --------------------------
(***************************************************************************)
(* Instances of ListTransactions for TLC.  Ids are not symmetric: they are  *)
(* ordered.                                                                *)
(***************************************************************************)
EXTENDS ListTransactions

MCTransactions == 1..4

MCTimes == 1..2

MCLimits == 1..3
===============================================================================
