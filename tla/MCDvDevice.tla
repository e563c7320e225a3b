----------------------------- MODULE MCDvDevice -----------------------------
(***************************************************************************)
(* DvDevice for TLC: the invoking sessions are interchangeable.            *)
(***************************************************************************)
EXTENDS DvDevice, TLC

SessionSymmetry == Permutations(Sessions)
=============================================================================
