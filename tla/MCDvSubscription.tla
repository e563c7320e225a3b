-------------------------- MODULE MCDvSubscription --------------------------
(* Symmetry sets for the model checker.                                     *)
EXTENDS DvSubscription, TLC

LifeSymmetry == Permutations(Subs) \union Permutations(Publishers) \union Permutations(Sessions)
=============================================================================
