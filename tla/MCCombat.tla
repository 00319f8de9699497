----------------------------- MODULE MCCombat ------------------------------
(* Two creatures that call for help and come back together, on one of two  *)
(* maps.                                                                   *)
EXTENDS Combat

CONSTANTS n1, n2, p1, p2, field, town

MCLeader == [n \in {n1, n2} |-> n1]
=============================================================================
