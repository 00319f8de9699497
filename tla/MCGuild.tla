------------------------------ MODULE MCGuild -------------------------------
(* Guild for TLC: characters and guild ids are interchangeable.              *)
EXTENDS Guild, TLC

MCSymmetry == Permutations(Character) \cup Permutations(GuildId)
=============================================================================
