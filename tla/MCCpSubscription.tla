-------------------------- MODULE MCCpSubscription --------------------------
(***************************************************************************)
(* CpSubscription for TLC: the threads of a pool are interchangeable.      *)
(***************************************************************************)
EXTENDS CpSubscriptionProofs, TLC

PoolSymmetry == Permutations(Threads) \cup Permutations(Sessions)
=============================================================================
