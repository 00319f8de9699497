----------------------------- MODULE DuelPairs ------------------------------
(***************************************************************************)
(* What DuelManager promises, without its maps: a set of duels being       *)
(* counted down and a set of duels being fought, each a pair of players,   *)
(* and no player in more than one of them.                                 *)
(***************************************************************************)
CONSTANT Player

VARIABLES counting, fighting

Pair == {q \in SUBSET Player : \E a, b \in Player : a # b /\ q = {a, b}}

Engaged == UNION (counting \cup fighting)

Init == counting = {} /\ fighting = {}

\* An accepted duel is between two players who are both free.
Accept(q) ==
    /\ q \cap Engaged = {}
    /\ counting' = counting \cup {q}
    /\ UNCHANGED fighting

\* Duels end, and countdowns become fights; several may do so together.
Proceed(begun, ended) ==
    /\ counting' = counting \ (begun \cup ended)
    /\ fighting' = (fighting \cup begun) \ ended

Next ==
    \/ \E q \in Pair : Accept(q)
    \/ \E begun \in SUBSET counting :
         \E ended \in SUBSET ((counting \cup fighting) \ begun) : Proceed(begun, ended)

Spec == Init /\ [][Next]_<<counting, fighting>>

-----------------------------------------------------------------------------

\* Nobody is in two duels, nor in one alone.
OneDuelEach ==
    /\ counting \cup fighting \subseteq Pair
    /\ counting \cap fighting = {}
    /\ \A q, r \in counting \cup fighting : q # r => q \cap r = {}
=============================================================================
