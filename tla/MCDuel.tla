------------------------------- MODULE MCDuel -------------------------------
(* Duel for TLC.  Guids are numbers because duels are keyed by the lower   *)
(* one of a pair, so no symmetry applies.                                   *)
EXTENDS Duel

MCGuid == 1 .. 3
=============================================================================
