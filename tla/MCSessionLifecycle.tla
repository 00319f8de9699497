------------------------ MODULE MCSessionLifecycle ------------------------
(* Instances of SessionLifecycle for TLC. *)
EXTENDS SessionLifecycle, TLC

\* Sound for the safety runs: no definition names a particular session,
\* account or character.
Symmetry == Permutations(SessionId) \cup Permutations(Account)
                \cup Permutations(Char)
=============================================================================
