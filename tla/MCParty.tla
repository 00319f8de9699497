------------------------------ MODULE MCParty -------------------------------
(* Party for TLC: players and party ids are interchangeable.                 *)
EXTENDS Party

MCSymmetry == Permutations(Player) \cup Permutations(PartyId)
=============================================================================
