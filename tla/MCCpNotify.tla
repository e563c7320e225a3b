----------------------------- MODULE MCCpNotify -----------------------------
(***************************************************************************)
(* CpNotify for TLC: the sessions of the pool are interchangeable. The     *)
(* subscriptions are not made so: NoMsg names one of them.                 *)
(***************************************************************************)
EXTENDS CpNotify, TLC

PoolSymmetry == Permutations(Sessions)
=============================================================================
