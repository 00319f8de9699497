---------------------------- MODULE PartyGroups -----------------------------
(***************************************************************************)
(* What PartyManager promises, without its maps, its offers or its         *)
(* leaders: the players are partitioned into parties and loners, and a     *)
(* party gains or loses one player at a time.                              *)
(***************************************************************************)
EXTENDS FiniteSets, Naturals

CONSTANTS Player, MaxPartySize

VARIABLES online, groups

Loners == online \ UNION groups

\* The groups once p has gone: a party of one is no party.
GroupsWithout(p) == {g \in {h \ {p} : h \in groups} : Cardinality(g) > 1}

Init == online = {} /\ groups = {}

Arrive(p) ==
    /\ online' = online \cup {p}
    /\ UNCHANGED groups

\* Two loners found a party.
Found(p, q) ==
    /\ p # q
    /\ groups' = groups \cup {{p, q}}
    /\ UNCHANGED online

\* A loner joins a party with room.
Join(p, g) ==
    /\ Cardinality(g) < MaxPartySize
    /\ groups' = (groups \ {g}) \cup {g \cup {p}}
    /\ UNCHANGED online

\* A player leaves, is kicked, or goes offline; only online players group.
Part(p, stays) ==
    /\ groups' = GroupsWithout(p)
    /\ online' = IF stays THEN online ELSE online \ {p}

Next ==
    \/ \E p \in Player \ online : Arrive(p)
    \/ \E p, q \in Loners : Found(p, q)
    \/ \E p \in Loners, g \in groups : Join(p, g)
    \/ \E p \in online, stays \in BOOLEAN : Part(p, stays)

Spec == Init /\ [][Next]_<<online, groups>>
=============================================================================
