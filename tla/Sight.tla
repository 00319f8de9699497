-------------------------------- MODULE Sight --------------------------------
(***************************************************************************)
(* Who is in the world, on which map, and who sees whom: the pointers the  *)
(* player objects hold to each other, which must not outlive a player, and *)
(* what their clients were told.                                           *)
(*                                                                         *)
(* The view distance is the one the server is built with: none, that is,   *)
(* everybody on a map is in view of everybody on it (WORLD_VIEW_DISTANCE). *)
(***************************************************************************)
EXTENDS Naturals, FiniteSets

CONSTANTS
    Player,
    Map

VARIABLES
    place,      \* the map of each player of m_players, Nowhere for the others
    onMap,      \* m_playersByMap
    canSee,     \* m_canSee
    visibleTo,  \* m_visibleTo
    shown       \* the other players each client was sent and not told to destroy

sightVars == <<place, onMap, canSee, visibleTo, shown>>

Nowhere == "nowhere"

ASSUME NowhereAssumption == Nowhere \notin Map

SightTypeOK ==
    /\ place \in [Player -> Map \cup {Nowhere}]
    /\ onMap \in [Map -> SUBSET Player]
    /\ canSee \in [Player -> SUBSET Player]
    /\ visibleTo \in [Player -> SUBSET Player]
    /\ shown \in [Player -> SUBSET Player]

SightInit ==
    /\ place = [p \in Player |-> Nowhere]
    /\ onMap = [m \in Map |-> {}]
    /\ canSee = [p \in Player |-> {}]
    /\ visibleTo = [p \in Player |-> {}]
    /\ shown = [p \in Player |-> {}]

-----------------------------------------------------------------------------

\* Relation rel when p and the others have come into view of each other.
Met(rel, p, others) ==
    [q \in Player |-> IF q = p THEN rel[p] \cup others
                      ELSE IF q \in others THEN rel[q] \cup {p}
                      ELSE rel[q]]

\* Faulty variant: p forgets the others, and they are not told.
FaultyForgotten(rel, p, others) == [rel EXCEPT ![p] = {}]

\* Relation rel when p has forgotten everybody and the others p.
Forgotten(rel, p, others) ==
    [q \in Player |-> IF q = p THEN {}
                      ELSE IF q \in others THEN rel[q] \ {p}
                      ELSE rel[q]]

\* spawnPlayer, when a character enters the world.
SpawnPlayer(p, m) ==
    LET others == onMap[m] \ {p}
    IN  /\ place[p] = Nowhere
        /\ place' = [place EXCEPT ![p] = m]
        /\ onMap' = [onMap EXCEPT ![m] = @ \cup {p}]
        /\ canSee' = Met(canSee, p, others)
        /\ visibleTo' = Met(visibleTo, p, others)
        /\ shown' = Met(shown, p, others)

\* despawnPlayer: those who see the player forget him, those he sees forget
\* that he does, and the viewers' clients are told.
DespawnPlayer(p) ==
    /\ place[p] # Nowhere
    /\ place' = [place EXCEPT ![p] = Nowhere]
    /\ onMap' = [onMap EXCEPT ![place[p]] = @ \ {p}]
    /\ canSee' = Forgotten(canSee, p, visibleTo[p])
    /\ visibleTo' = Forgotten(visibleTo, p, canSee[p])
    /\ shown' = Forgotten(shown, p, visibleTo[p])

\* changePlayerMap: out of sight on one map, into sight on the other.  The new
\* world empties the client of the traveller.
ChangePlayerMap(p, m) ==
    LET others == onMap[m] \ {p}
    IN  /\ place[p] \notin {Nowhere, m}
        /\ place' = [place EXCEPT ![p] = m]
        /\ onMap' = [n \in Map |-> IF n = m THEN onMap[n] \cup {p} ELSE onMap[n] \ {p}]
        /\ canSee' = Met(Forgotten(canSee, p, visibleTo[p]), p, others)
        /\ visibleTo' = Met(Forgotten(visibleTo, p, canSee[p]), p, others)
        /\ shown' = Met(Forgotten(shown, p, visibleTo[p]), p, others)

\* onPlayerMoved and updateVisibility: whoever is on the map and not in sight
\* comes into sight.
UpdateVisibility(p) ==
    LET others == (onMap[place[p]] \ {p}) \ canSee[p]
    IN  /\ place[p] # Nowhere
        /\ canSee' = Met(canSee, p, others)
        /\ visibleTo' = Met(visibleTo, p, others)
        /\ shown' = Met(shown, p, others)
        /\ UNCHANGED <<place, onMap>>

-----------------------------------------------------------------------------

Neighbours(p) == {q \in Player \ {p} : place[q] = place[p] /\ place[p] # Nowhere}

\* Everybody sees, is seen by, and is shown exactly the others on his map: no
\* pointer to a player outlives his visit, no client keeps one who has left or
\* misses one who has come, whoever enters, leaves and travels in between.
SightIsExact ==
    /\ \A p \in Player :
         /\ canSee[p] = Neighbours(p)
         /\ visibleTo[p] = Neighbours(p)
         /\ shown[p] = Neighbours(p)
    /\ \A m \in Map : onMap[m] = {q \in Player : place[q] = m}
=============================================================================
