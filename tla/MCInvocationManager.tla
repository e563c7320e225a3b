------------------------ MODULE MCInvocationManager ------------------------
(* A service that is invoked once beside one whose callbacks invoke too.    *)
EXTENDS InvocationManager, TLC

CONSTANTS s1, s2

OneAndTwo == [s \in Services |-> IF s = s1 THEN 1 ELSE 2]
=============================================================================
