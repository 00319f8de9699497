---------------------------- MODULE Combat_proof ----------------------------
(***************************************************************************)
(* Proofs about Combat, for any players, creatures, groups and durations,  *)
(* and about Duel, for any guids, health and countdown.                    *)
(*                                                                         *)
(* Sound is inductive once it is read creature by creature: GoodCreature   *)
(* says of one creature what CreaturesTypeOK and TargetMatchesState say of *)
(* all, and there is one lemma for each thing that can happen to one.      *)
(*                                                                         *)
(* Who sees whom comes first: each operation of Sight leaves everybody     *)
(* seeing exactly the others on his map.  The three relations of Sight are *)
(* then one and the same, so that it is enough to follow what an operation *)
(* makes of Neighbours.                                                    *)
(*                                                                         *)
(* Duels come last, and use nothing of Combat.                             *)
(***************************************************************************)
EXTENDS Combat, Duel, TLAPS

-----------------------------------------------------------------------------
(* Sight.                                                                  *)

\* Everything is of its type, and everybody sees whom he should.
GoodSight == SightTypeOK /\ SightIsExact

\* The relation that all three ought to be.
Exact == [q \in Player |-> Neighbours(q)]

\* Good sight, as one relation.
LEMMA GoodSightIsExact ==
    GoodSight <=>
        /\ place \in [Player -> Map \cup {Nowhere}]
        /\ onMap = [m \in Map |-> {q \in Player : place[q] = m}]
        /\ canSee = Exact /\ visibleTo = Exact /\ shown = Exact
<1>1. ASSUME GoodSight
      PROVE  onMap = [m \in Map |-> {q \in Player : place[q] = m}]
  BY <1>1 DEF GoodSight, SightTypeOK, SightIsExact
<1>2. ASSUME GoodSight
      PROVE  canSee = Exact /\ visibleTo = Exact /\ shown = Exact
  BY <1>2 DEF GoodSight, SightTypeOK, SightIsExact, Exact
<1>3. ASSUME /\ place \in [Player -> Map \cup {Nowhere}]
             /\ onMap = [m \in Map |-> {q \in Player : place[q] = m}]
             /\ canSee = Exact /\ visibleTo = Exact /\ shown = Exact
      PROVE  GoodSight
  <2>1. Exact \in [Player -> SUBSET Player] /\ \A q \in Player : Exact[q] = Neighbours(q)
    BY DEF Exact, Neighbours
  <2>2. onMap \in [Map -> SUBSET Player] /\ \A m \in Map : onMap[m] = {q \in Player : place[q] = m}
    BY <1>3
  <2>3. QED
    BY <1>3, <2>1, <2>2 DEF GoodSight, SightTypeOK, SightIsExact
<1>4. GoodSight => place \in [Player -> Map \cup {Nowhere}]
  BY DEF GoodSight, SightTypeOK
<1>5. QED
  BY <1>1, <1>2, <1>3, <1>4

\* The same of the next state.
LEMMA ThenExact ==
    ASSUME place' \in [Player -> Map \cup {Nowhere}],
           onMap' = [m \in Map |-> {q \in Player : place'[q] = m}],
           canSee' = Exact', visibleTo' = Exact', shown' = Exact'
    PROVE  GoodSight'
<1>1. Exact' \in [Player -> SUBSET Player] /\ \A q \in Player : Exact'[q] = Neighbours(q)'
  BY DEF Exact, Neighbours
<1>2. onMap' \in [Map -> SUBSET Player] /\ \A m \in Map : onMap'[m] = {q \in Player : place'[q] = m}
  OBVIOUS
<1>3. QED
  BY <1>1, <1>2 DEF GoodSight, SightTypeOK, SightIsExact

-----------------------------------------------------------------------------
(* One relation.                                                           *)

\* Forgetting his neighbours, and being forgotten by them, takes a player out
\* of the relation.
LEMMA Forgetting ==
    ASSUME NEW p \in Player
    PROVE  Forgotten(Exact, p, Neighbours(p)) =
             [q \in Player |-> {r \in Neighbours(q) : p \notin {q, r}}]
<1>1. ASSUME NEW q \in Player
      PROVE  (IF q = p THEN {} ELSE IF q \in Neighbours(p) THEN Exact[q] \ {p} ELSE Exact[q])
               = {r \in Neighbours(q) : p \notin {q, r}}
  BY DEF Exact, Neighbours
<1>2. QED
  BY <1>1 DEF Forgotten

\* Meeting those on map m puts a player who is in nobody's sight there.
LEMMA Meeting ==
    ASSUME NEW p \in Player, NEW m \in Map, NEW rel,
           place \in [Player -> Map \cup {Nowhere}],
           place' = [place EXCEPT ![p] = m],
           rel = [q \in Player |-> {r \in Neighbours(q) : p \notin {q, r}}]
    PROVE  Met(rel, p, {q \in Player : place[q] = m} \ {p}) = Exact'
<1> DEFINE others == {q \in Player : place[q] = m} \ {p}
<1>1. m # Nowhere
  BY NowhereAssumption
<1>2. \A q \in Player : place'[q] = IF q = p THEN m ELSE place[q]
  OBVIOUS
<1>3. ASSUME NEW q \in Player
      PROVE  (IF q = p THEN rel[p] \cup others
              ELSE IF q \in others THEN rel[q] \cup {p} ELSE rel[q]) = Neighbours(q)'
  <2>1. CASE q = p
    <3>1. rel[p] = {}
      OBVIOUS
    <3>2. Neighbours(p)' = {r \in Player \ {p} : place'[r] = place'[p] /\ place'[p] # Nowhere}
      BY DEF Neighbours
    <3>3. Neighbours(p)' = others
      BY <1>1, <1>2, <3>2
    <3>4. QED
      BY <2>1, <3>1, <3>3
  <2>2. CASE q # p
    <3>1. rel[q] = {r \in Player \ {q, p} : place[r] = place[q] /\ place[q] # Nowhere}
      BY <2>2 DEF Neighbours
    <3>2. Neighbours(q)' = {r \in Player \ {q} : place'[r] = place'[q] /\ place'[q] # Nowhere}
      BY DEF Neighbours
    <3>3. Neighbours(q)' = IF place[q] = m THEN rel[q] \cup {p} ELSE rel[q]
      BY <1>1, <1>2, <2>2, <3>1, <3>2
    <3>4. q \in others <=> place[q] = m
      BY <2>2
    <3>5. QED
      BY <2>2, <3>3, <3>4
  <2>3. QED
    BY <2>1, <2>2
<1>4. QED
  BY <1>3 DEF Met, Exact

-----------------------------------------------------------------------------
(* The operations.                                                         *)

\* spawnPlayer.
LEMMA SpawnKeeps ==
    ASSUME GoodSight, NEW p \in Player, NEW m \in Map, SpawnPlayer(p, m)
    PROVE  GoodSight'
<1> DEFINE others == {q \in Player : place[q] = m} \ {p}
<1>1. /\ place \in [Player -> Map \cup {Nowhere}]
      /\ onMap = [n \in Map |-> {q \in Player : place[q] = n}]
      /\ canSee = Exact /\ visibleTo = Exact /\ shown = Exact
  BY GoodSightIsExact
<1>2. place[p] = Nowhere /\ place' = [place EXCEPT ![p] = m]
  BY DEF SpawnPlayer
<1>3. \A n \in Map : n # Nowhere
  BY NowhereAssumption
<1>4. onMap[m] \ {p} = others
  BY <1>1
<1>5. /\ canSee' = Met(Exact, p, others)
      /\ visibleTo' = Met(Exact, p, others)
      /\ shown' = Met(Exact, p, others)
  BY <1>1, <1>4 DEF SpawnPlayer
<1>6. Exact = [q \in Player |-> {r \in Neighbours(q) : p \notin {q, r}}]
  <2>1. ASSUME NEW q \in Player
        PROVE  Neighbours(q) = {r \in Neighbours(q) : p \notin {q, r}}
    BY <1>2 DEF Neighbours
  <2>2. QED
    BY <2>1 DEF Exact
<1>7. Met(Exact, p, others) = Exact'
  BY <1>1, <1>2, <1>6, Meeting
<1>8. place' \in [Player -> Map \cup {Nowhere}]
  BY <1>1, <1>2
<1>9. onMap' = [n \in Map |-> {q \in Player : place'[q] = n}]
  <2>1. onMap' = [onMap EXCEPT ![m] = @ \cup {p}]
    BY DEF SpawnPlayer
  <2>2. ASSUME NEW n \in Map
        PROVE  onMap'[n] = {q \in Player : place'[q] = n}
    BY <1>1, <1>2, <1>3, <2>1
  <2>3. QED
    BY <1>1, <2>1, <2>2
<1>10. QED
  BY <1>5, <1>7, <1>8, <1>9, ThenExact

\* despawnPlayer.
LEMMA DespawnKeeps ==
    ASSUME GoodSight, NEW p \in Player, DespawnPlayer(p)
    PROVE  GoodSight'
<1>1. /\ place \in [Player -> Map \cup {Nowhere}]
      /\ onMap = [n \in Map |-> {q \in Player : place[q] = n}]
      /\ canSee = Exact /\ visibleTo = Exact /\ shown = Exact
  BY GoodSightIsExact
<1>2. place[p] # Nowhere /\ place' = [place EXCEPT ![p] = Nowhere]
  BY DEF DespawnPlayer
<1>3. Exact[p] = Neighbours(p)
  BY DEF Exact
<1>4. /\ canSee' = Forgotten(Exact, p, Neighbours(p))
      /\ visibleTo' = Forgotten(Exact, p, Neighbours(p))
      /\ shown' = Forgotten(Exact, p, Neighbours(p))
  BY <1>1, <1>3 DEF DespawnPlayer
<1>5. Forgotten(Exact, p, Neighbours(p)) = Exact'
  <2>1. ASSUME NEW q \in Player
        PROVE  {r \in Neighbours(q) : p \notin {q, r}} = Neighbours(q)'
    BY <1>1, <1>2 DEF Neighbours
  <2>2. QED
    BY <2>1, Forgetting DEF Exact
<1>6. place' \in [Player -> Map \cup {Nowhere}]
  BY <1>1, <1>2
<1>7. onMap' = [n \in Map |-> {q \in Player : place'[q] = n}]
  <2>1. onMap' = [onMap EXCEPT ![place[p]] = @ \ {p}]
    BY DEF DespawnPlayer
  <2>2. ASSUME NEW n \in Map
        PROVE  onMap'[n] = {q \in Player : place'[q] = n}
    BY <1>1, <1>2, <2>1, NowhereAssumption
  <2>3. QED
    BY <1>1, <2>1, <2>2
<1>8. QED
  BY <1>4, <1>5, <1>6, <1>7, ThenExact

\* changePlayerMap.
LEMMA ChangeMapKeeps ==
    ASSUME GoodSight, NEW p \in Player, NEW m \in Map, ChangePlayerMap(p, m)
    PROVE  GoodSight'
<1> DEFINE others == {q \in Player : place[q] = m} \ {p}
           rel == Forgotten(Exact, p, Neighbours(p))
<1>1. /\ place \in [Player -> Map \cup {Nowhere}]
      /\ onMap = [n \in Map |-> {q \in Player : place[q] = n}]
      /\ canSee = Exact /\ visibleTo = Exact /\ shown = Exact
  BY GoodSightIsExact
<1>2. place' = [place EXCEPT ![p] = m]
  BY DEF ChangePlayerMap
<1>3. Exact[p] = Neighbours(p) /\ onMap[m] \ {p} = others
  BY <1>1 DEF Exact
<1>4. canSee' = Met(rel, p, others) /\ visibleTo' = Met(rel, p, others) /\ shown' = Met(rel, p, others)
  BY <1>1, <1>3 DEF ChangePlayerMap
<1>5. rel = [q \in Player |-> {r \in Neighbours(q) : p \notin {q, r}}]
  BY Forgetting
<1> HIDE DEF rel
<1>6. Met(rel, p, others) = Exact'
  BY <1>1, <1>2, <1>5, Meeting
<1>7. place' \in [Player -> Map \cup {Nowhere}]
  BY <1>1, <1>2
<1>8. onMap' = [n \in Map |-> {q \in Player : place'[q] = n}]
  <2>1. onMap' = [n \in Map |-> IF n = m THEN onMap[n] \cup {p} ELSE onMap[n] \ {p}]
    BY DEF ChangePlayerMap
  <2>2. ASSUME NEW n \in Map
        PROVE  onMap'[n] = {q \in Player : place'[q] = n}
    BY <1>1, <1>2, <2>1
  <2>3. QED
    BY <2>1, <2>2
<1>9. QED
  BY <1>4, <1>6, <1>7, <1>8, ThenExact

\* updateVisibility: there is nobody left to come into sight.
LEMMA VisibilityKeeps ==
    ASSUME GoodSight, NEW p \in Player, UpdateVisibility(p)
    PROVE  UNCHANGED sightVars
<1>1. /\ place \in [Player -> Map \cup {Nowhere}]
      /\ onMap = [n \in Map |-> {q \in Player : place[q] = n}]
      /\ canSee = Exact /\ visibleTo = Exact /\ shown = Exact
  BY GoodSightIsExact
<1>2. place[p] \in Map /\ UNCHANGED <<place, onMap>>
  BY <1>1 DEF UpdateVisibility
<1>3. (onMap[place[p]] \ {p}) \ canSee[p] = {}
  BY <1>1, <1>2, NowhereAssumption DEF Exact, Neighbours
<1>4. Met(Exact, p, {}) = Exact
  <2>1. Met(Exact, p, {}) = [q \in Player |-> Exact[q]]
    BY DEF Met
  <2>2. QED
    BY <2>1 DEF Exact
<1>5. canSee' = Exact /\ visibleTo' = Exact /\ shown' = Exact
  BY <1>1, <1>3, <1>4 DEF UpdateVisibility
<1>6. QED
  BY <1>1, <1>2, <1>5 DEF sightVars

\* Nothing else changes what they see.
LEMMA SightStays ==
    ASSUME GoodSight, UNCHANGED sightVars
    PROVE  GoodSight'
  BY DEF GoodSight, SightTypeOK, SightIsExact, Neighbours, sightVars

LEMMA InitSight ==
    ASSUME SightInit
    PROVE  GoodSight
  BY NowhereAssumption DEF SightInit, GoodSight, SightTypeOK, SightIsExact, Neighbours

-----------------------------------------------------------------------------
(* Creatures.                                                              *)

\* What the invariants say of creature n in state c.
GoodCreature(c, n) ==
    /\ c \in Creature
    /\ c.ai = "Combat" <=> c.target # None
    /\ c.ai = "Combat" => c.target \in c.threat /\ (c.called \/ n \notin CanCall)
    /\ c.ai # "Evading"

\* All creatures are good, and whoever is dead has a timer.
GoodCreatures ==
    /\ npc \in [Npc -> Creature]
    /\ timer \in [Npc -> 0 .. RespawnTicks]
    /\ \A n \in Npc : GoodCreature(npc[n], n)
    /\ \A n \in Npc : npc[n].ai = "Dead" => timer[n] > 0

-----------------------------------------------------------------------------
(* What can happen to one creature.                                        *)

\* A threat from a player leaves a creature good, and nobody dies or rises by it.
LEMMA Threatened ==
    ASSUME NEW n, NEW c, GoodCreature(c, n), NEW p \in Player
    PROVE  /\ GoodCreature(AddThreat(c, p), n)
           /\ AddThreat(c, p).ai = "Dead" => c.ai = "Dead"
  BY NoneAssumption DEF GoodCreature, AddThreat, SetTarget, Creature

\* A dead creature is good, also one that is then given a threat.
LEMMA Killed ==
    ASSUME NEW n, NEW c \in Creature
    PROVE  GoodCreature(Died(c), n)
<1>1. 0 \in 0 .. BurnTicks
  BY TicksAssumption
<1>2. Died(c) \in Creature
  BY <1>1 DEF Died, Creature
<1>3. QED
  BY <1>2 DEF GoodCreature, Died, Creature

\* So is one that respawns, and it is not dead.
LEMMA Risen ==
    ASSUME NEW n, NEW c \in Creature
    PROVE  GoodCreature(Respawned(c), n) /\ Respawned(c).ai = "Idle"
<1>1. 0 \in 0 .. BurnTicks
  BY TicksAssumption
<1>2. Respawned(c) \in Creature
  BY <1>1 DEF Respawned, Creature
<1>3. QED
  BY <1>2 DEF GoodCreature, Respawned, Creature

\* Giving up a fight ends in idleness: it had a target to lose.
LEMMA GivesUp ==
    ASSUME NEW n, NEW c, GoodCreature(c, n), c.ai = "Combat"
    PROVE  GoodCreature(GiveUp(c), n) /\ GiveUp(c).ai = "Idle"
  BY DEF GoodCreature, GiveUp, SetTarget, Creature

-----------------------------------------------------------------------------
(* What one creature does to the others.                                   *)

\* A creature in a fight that may still have to call for help.
Angry(c) ==
    c \in Creature /\ c.ai = "Combat" /\ c.target # None /\ c.target \in c.threat

\* A call for help leaves everybody good, the caller for having called, and
\* neither kills nor raises anybody.
LEMMA Helped ==
    ASSUME NEW cs \in [Npc -> Creature], NEW n \in Npc, NEW p \in Player, NEW near,
           Angry(cs[n]),
           \A m \in Npc \ {n} : GoodCreature(cs[m], m)
    PROVE  /\ CallForHelp(cs, n, p, near) \in [Npc -> Creature]
           /\ \A m \in Npc : GoodCreature(CallForHelp(cs, n, p, near)[m], m)
           /\ \A m \in Npc : CallForHelp(cs, n, p, near)[m].ai = "Dead" => cs[m].ai = "Dead"
<1>1. CASE n \notin CanCall
  BY <1>1 DEF CallForHelp, Angry, GoodCreature
<1>2. CASE n \in CanCall
  <2> DEFINE result == CallForHelp(cs, n, p, near)
  <2>1. result = [m \in Npc |->
                    IF m = n THEN [cs[n] EXCEPT !.called = TRUE]
                    ELSE IF m \in near /\ cs[m].ai = "Idle" THEN AddThreat(cs[m], p)
                    ELSE cs[m]]
    BY <1>2 DEF CallForHelp
  <2> HIDE DEF result
  <2>2. GoodCreature(result[n], n) /\ result[n].ai = "Combat"
    BY <2>1 DEF Angry, GoodCreature, Creature
  <2>3. ASSUME NEW m \in Npc \ {n}
        PROVE  GoodCreature(result[m], m) /\ (result[m].ai = "Dead" => cs[m].ai = "Dead")
    <3>1. CASE m \in near /\ cs[m].ai = "Idle"
      <4>1. result[m] = AddThreat(cs[m], p)
        BY <2>1, <3>1
      <4>2. QED
        BY <4>1, Threatened
    <3>2. CASE ~ (m \in near /\ cs[m].ai = "Idle")
      BY <2>1, <3>2
    <3>3. QED
      BY <3>1, <3>2
  <2>4. \A m \in Npc : GoodCreature(result[m], m)
    BY <2>2, <2>3
  <2>5. \A m \in Npc : result[m] \in Creature
    BY <2>4 DEF GoodCreature
  <2>6. result \in [Npc -> Creature]
    BY <2>1, <2>5
  <2>7. \A m \in Npc : result[m].ai = "Dead" => cs[m].ai = "Dead"
    BY <2>2, <2>3
  <2>8. QED
    BY <2>4, <2>6, <2>7 DEF result
<1>3. QED
  BY <1>1, <1>2

\* Turning on a player whom it has come to hate, a creature is in a fight.
LEMMA Turned ==
    ASSUME NEW c \in Creature, NEW p \in Player, NEW threat \in SUBSET Player, p \in threat,
           c.target = None \/ c.ai = "Combat"
    PROVE  Angry([SetTarget(c, p) EXCEPT !.threat = threat])
  BY NoneAssumption DEF Angry, SetTarget, Creature

\* Going on with a fight keeps all creatures good.
LEMMA Fought ==
    ASSUME NEW cs \in [Npc -> Creature], NEW n \in Npc, NEW p \in Player, NEW near,
           NEW threat \in SUBSET Player, p \in threat,
           \A m \in Npc : GoodCreature(cs[m], m),
           cs[n].ai = "Combat"
    PROVE  /\ Fight(cs, n, p, threat, near) \in [Npc -> Creature]
           /\ \A m \in Npc : GoodCreature(Fight(cs, n, p, threat, near)[m], m)
           /\ \A m \in Npc : Fight(cs, n, p, threat, near)[m].ai = "Dead" => cs[m].ai = "Dead"
<1> DEFINE c == [SetTarget(cs[n], p) EXCEPT !.threat = threat]
           facing == [cs EXCEPT ![n] = c]
<1>1. Angry(c)
  BY Turned
<1>2. c.called = cs[n].called
  BY DEF SetTarget, Creature
<1>3. Fight(cs, n, p, threat, near) =
        IF cs[n].called THEN facing ELSE CallForHelp(facing, n, p, near)
  BY DEF Fight
<1> HIDE DEF c
<1>4. /\ facing \in [Npc -> Creature]
      /\ facing[n] = c
      /\ \A m \in Npc \ {n} : facing[m] = cs[m]
  BY <1>1 DEF Angry
<1> HIDE DEF facing
<1>5. \A m \in Npc \ {n} : GoodCreature(facing[m], m)
  BY <1>4
<1>6. \A m \in Npc : facing[m].ai = "Dead" => cs[m].ai = "Dead"
  BY <1>1, <1>4 DEF Angry
<1>7. CASE cs[n].called
  <2>1. GoodCreature(facing[n], n)
    BY <1>1, <1>2, <1>4, <1>7 DEF Angry, GoodCreature
  <2>2. QED
    BY <1>3, <1>4, <1>5, <1>6, <1>7, <2>1
<1>8. CASE ~ cs[n].called
  <2>1. Angry(facing[n])
    BY <1>1, <1>4
  <2>2. /\ CallForHelp(facing, n, p, near) \in [Npc -> Creature]
        /\ \A m \in Npc : GoodCreature(CallForHelp(facing, n, p, near)[m], m)
        /\ \A m \in Npc : CallForHelp(facing, n, p, near)[m].ai = "Dead" => facing[m].ai = "Dead"
    BY <1>4, <1>5, <2>1, Helped
  <2>3. QED
    BY <1>3, <1>6, <1>8, <2>2
<1>9. QED
  BY <1>7, <1>8

\* So does taking up a fight.
LEMMA Provoked ==
    ASSUME NEW cs \in [Npc -> Creature], NEW n \in Npc, NEW p \in Player, NEW near,
           \A m \in Npc : GoodCreature(cs[m], m),
           cs[n].ai = "Idle"
    PROVE  /\ Aggro(cs, n, p, near) \in [Npc -> Creature]
           /\ \A m \in Npc : GoodCreature(Aggro(cs, n, p, near)[m], m)
           /\ \A m \in Npc : Aggro(cs, n, p, near)[m].ai = "Dead" => cs[m].ai = "Dead"
<1> DEFINE c == [SetTarget(cs[n], p) EXCEPT !.ai = "Combat", !.threat = @ \cup {p}]
           angry == [cs EXCEPT ![n] = c]
<1>1. Angry(c)
  BY NoneAssumption DEF Angry, SetTarget, Creature, GoodCreature
<1>2. Aggro(cs, n, p, near) = CallForHelp(angry, n, p, near)
  BY DEF Aggro
<1> HIDE DEF c
<1>3. /\ angry \in [Npc -> Creature]
      /\ angry[n] = c
      /\ \A m \in Npc \ {n} : angry[m] = cs[m]
  BY <1>1 DEF Angry
<1> HIDE DEF angry
<1>4. \A m \in Npc : angry[m].ai = "Dead" => cs[m].ai = "Dead"
  BY <1>1, <1>3 DEF Angry
<1>5. Angry(angry[n]) /\ \A m \in Npc \ {n} : GoodCreature(angry[m], m)
  BY <1>1, <1>3
<1>6. /\ CallForHelp(angry, n, p, near) \in [Npc -> Creature]
      /\ \A m \in Npc : GoodCreature(CallForHelp(angry, n, p, near)[m], m)
      /\ \A m \in Npc : CallForHelp(angry, n, p, near)[m].ai = "Dead" => angry[m].ai = "Dead"
  BY <1>3, <1>5, Helped
<1>7. QED
  BY <1>2, <1>4, <1>6

-----------------------------------------------------------------------------
(* Timers.                                                                 *)

\* A death raises a member of a linked group exactly when it raises its leader.
LEMMA RaisedTogether ==
    ASSUME NEW d \in Npc, NEW n \in Linked
    PROVE  n \in RaisedWith(d) <=> Leader[n] \in RaisedWith(d)
<1>1. n \in Npc /\ Leader[n] \in Npc /\ Leader[Leader[n]] = Leader[n]
  BY GroupAssumption
<1> DEFINE linked == {m \in Linked : Leader[m] = Leader[d]}
<1>2. RaisedWith(d) = {d} \cup linked \cup (IF linked # {} THEN {Leader[d]} ELSE {})
  BY DEF RaisedWith
<1>3. n \in linked <=> Leader[n] = Leader[d]
  OBVIOUS
<1>4. Leader[n] \in linked => Leader[n] = Leader[d]
  BY <1>1
<1>5. ASSUME n \in RaisedWith(d)
      PROVE  Leader[n] \in RaisedWith(d)
  <2>1. Leader[n] = Leader[d]
    <3>1. CASE n = d
      BY <3>1
    <3>2. CASE n # d
      BY <1>2, <1>3, <1>5, <3>2, GroupAssumption
    <3>3. QED
      BY <3>1, <3>2
  <2>2. QED
    BY <1>2, <1>3, <2>1
<1>6. ASSUME Leader[n] \in RaisedWith(d)
      PROVE  n \in RaisedWith(d)
  <2>1. Leader[n] = Leader[d]
    BY <1>1, <1>2, <1>4, <1>6
  <2>2. QED
    BY <1>2, <1>3, <2>1
<1>7. QED
  BY <1>5, <1>6

\* Deaths set the timers of the dead, stop none, and keep groups together.
LEMMA DeathsSetTimers ==
    ASSUME timer \in [Npc -> 0 .. RespawnTicks], NEW fallen \in SUBSET Npc
    PROVE  /\ TimersAfter(fallen) \in [Npc -> 0 .. RespawnTicks]
           /\ \A n \in fallen : TimersAfter(fallen)[n] > 0
           /\ \A n \in Npc : timer[n] > 0 => TimersAfter(fallen)[n] > 0
           /\ GroupsRiseTogether =>
                \A n \in Linked : TimersAfter(fallen)[n] = TimersAfter(fallen)[Leader[n]]
<1>1. RespawnTicks \in 0 .. RespawnTicks /\ RespawnTicks > 0
  BY TicksAssumption
<1>2. \A n \in Npc : n \in RaisedWith(n)
  BY DEF RaisedWith
<1>3. TimersAfter(fallen) \in [Npc -> 0 .. RespawnTicks]
  BY <1>1 DEF TimersAfter
<1>4. \A n \in fallen : TimersAfter(fallen)[n] > 0
  BY <1>1, <1>2 DEF TimersAfter
<1>5. \A n \in Npc : timer[n] > 0 => TimersAfter(fallen)[n] > 0
  BY <1>1 DEF TimersAfter
<1>6. ASSUME GroupsRiseTogether, NEW n \in Linked
      PROVE  TimersAfter(fallen)[n] = TimersAfter(fallen)[Leader[n]]
  <2>1. n \in Npc /\ Leader[n] \in Npc
    BY GroupAssumption
  <2>2. timer[n] = timer[Leader[n]]
    BY <1>6 DEF GroupsRiseTogether
  <2>3. (\E d \in fallen : n \in RaisedWith(d)) <=> (\E d \in fallen : Leader[n] \in RaisedWith(d))
    BY RaisedTogether
  <2>4. QED
    BY <2>1, <2>2, <2>3 DEF TimersAfter
<1>7. QED
  BY <1>3, <1>4, <1>5, <1>6

-----------------------------------------------------------------------------
(* What the actions do to the creatures.                                   *)

\* Creatures of which each is left good, some of them killed, some given a
\* threat, are good with the timers their deaths set.
LEMMA Slaughter ==
    ASSUME GoodCreatures, GroupsRiseTogether,
           NEW killed \in SUBSET Npc,
           npc' \in [Npc -> Creature],
           \A n \in Npc : GoodCreature(npc'[n], n),
           \A n \in Npc \ killed : npc'[n].ai = "Dead" => npc[n].ai = "Dead",
           timer' = TimersAfter(killed)
    PROVE  GoodCreatures' /\ GroupsRiseTogether'
<1>1. timer' \in [Npc -> 0 .. RespawnTicks]
  BY DeathsSetTimers DEF GoodCreatures
<1>2. \A n \in Npc : npc'[n].ai = "Dead" => timer'[n] > 0
  BY DeathsSetTimers DEF GoodCreatures
<1>3. \A n \in Linked : timer'[n] = timer'[Leader[n]]
  BY DeathsSetTimers DEF GoodCreatures
<1>4. QED
  BY <1>1, <1>2, <1>3 DEF GoodCreatures, GoodCreature, GroupsRiseTogether

\* The same for a step in which nobody dies.
LEMMA Commotion ==
    ASSUME GoodCreatures, GroupsRiseTogether,
           npc' \in [Npc -> Creature],
           \A n \in Npc : GoodCreature(npc'[n], n),
           \A n \in Npc : npc'[n].ai = "Dead" => npc[n].ai = "Dead",
           UNCHANGED timer
    PROVE  GoodCreatures' /\ GroupsRiseTogether'
  BY DEF GoodCreatures, GoodCreature, GroupsRiseTogether

LEMMA NothingHappens ==
    ASSUME GoodCreatures, GroupsRiseTogether, UNCHANGED <<npc, timer>>
    PROVE  GoodCreatures' /\ GroupsRiseTogether'
  BY DEF GoodCreatures, GoodCreature, GroupsRiseTogether

\* Blows.
LEMMA StrikeKeeps ==
    ASSUME GoodCreatures, GroupsRiseTogether,
           NEW p \in Player, NEW struck, NEW killed \in SUBSET Npc,
           Strike(p, struck, killed)
    PROVE  GoodCreatures' /\ GroupsRiseTogether'
<1>1. ASSUME NEW n \in Npc
      PROVE  /\ GoodCreature(npc'[n], n)
             /\ n \notin killed /\ npc'[n].ai = "Dead" => npc[n].ai = "Dead"
  <2>1. GoodCreature(npc[n], n) /\ npc[n] \in Creature
    BY DEF GoodCreatures
  <2>2. CASE n \in killed
    <3>1. npc'[n] = AddThreat(Died(npc[n]), p) \/ npc'[n] = Died(npc[n])
      BY <2>2 DEF Strike
    <3>2. GoodCreature(Died(npc[n]), n)
      BY <2>1, Killed
    <3>3. QED
      BY <2>2, <3>1, <3>2, Threatened
  <2>3. CASE n \notin killed /\ n \in struck
    <3>1. npc'[n] = AddThreat(npc[n], p)
      BY <2>3 DEF Strike
    <3>2. QED
      BY <2>1, <3>1, Threatened
  <2>4. CASE n \notin killed /\ n \notin struck
    BY <2>1, <2>4 DEF Strike
  <2>5. QED
    BY <2>2, <2>3, <2>4
<1>2. npc' \in [Npc -> Creature]
  <2>1. \A n \in Npc : npc'[n] \in Creature
    BY <1>1 DEF GoodCreature
  <2>2. QED
    BY <2>1 DEF Strike
<1>3. timer' = TimersAfter(killed)
  BY DEF Strike
<1>4. QED
  BY <1>1, <1>2, <1>3, Slaughter

\* Auras.
LEMMA BurnKeeps ==
    ASSUME GoodCreatures, GroupsRiseTogether, NEW struck, Burn(struck)
    PROVE  GoodCreatures' /\ GroupsRiseTogether'
<1>1. BurnTicks \in 0 .. BurnTicks
  BY TicksAssumption
<1>2. npc' \in [Npc -> Creature]
  BY <1>1 DEF Burn, GoodCreatures, Creature
<1>3. \A m \in Npc : GoodCreature(npc'[m], m) /\ (npc'[m].ai = "Dead" => npc[m].ai = "Dead")
  BY <1>1, <1>2 DEF Burn, GoodCreatures, GoodCreature, Creature
<1>4. UNCHANGED timer
  BY DEF Burn
<1>5. QED
  BY <1>2, <1>3, <1>4, Commotion

\* Healing.
LEMMA MendKeeps ==
    ASSUME GoodCreatures, GroupsRiseTogether, NEW p \in Player, NEW healed, Mend(p, healed)
    PROVE  GoodCreatures' /\ GroupsRiseTogether'
<1>1. ASSUME NEW n \in Npc
      PROVE  GoodCreature(npc'[n], n) /\ (npc'[n].ai = "Dead" => npc[n].ai = "Dead")
  <2>1. GoodCreature(npc[n], n)
    BY DEF GoodCreatures
  <2>2. npc'[n] = AddThreat(npc[n], p) \/ npc'[n] = npc[n]
    BY DEF Mend
  <2>3. QED
    BY <2>1, <2>2, Threatened
<1>2. npc' \in [Npc -> Creature]
  <2>1. \A n \in Npc : npc'[n] \in Creature
    BY <1>1 DEF GoodCreature
  <2>2. QED
    BY <2>1 DEF Mend
<1>3. UNCHANGED timer
  BY DEF Mend
<1>4. QED
  BY <1>1, <1>2, <1>3, Commotion

\* Players who are killed or stunned are still characters.
LEMMA StillCharacters ==
    ASSUME NEW players \in [Player -> Character], NEW reached
    PROVE  /\ Hurt(players, reached) \in [Player -> Character]
           /\ Stunned(players, reached) \in [Player -> Character]
<1>1. Hurt(players, reached) \in [Player -> Character]
  <2>1. \A q \in Player : [players[q] EXCEPT !.alive = FALSE, !.stunned = FALSE] \in Character
    BY DEF Character
  <2>2. QED
    BY <2>1 DEF Hurt
<1>2. Stunned(players, reached) \in [Player -> Character]
  <2>1. \A q \in Player : [players[q] EXCEPT !.stunned = TRUE] \in Character
    BY DEF Character
  <2>2. QED
    BY <2>1 DEF Stunned
<1>3. QED
  BY <1>1, <1>2

\* Whatever a spell does, and whoever is provoked by it.
LEMMA PerformKeeps ==
    ASSUME GoodCreatures, GroupsRiseTogether,
           NEW p \in Player, NEW at, NEW players \in [Player -> Character], NEW provokes,
           Perform(p, at, players, provokes)
    PROVE  GoodCreatures' /\ GroupsRiseTogether' /\ pl' \in [Player -> Character]
<1>1. CASE \E struck \in SUBSET Aimed(at) :
             \E killed \in SUBSET struck, slain \in SUBSET {q \in Reach(p) : pl[q].alive} :
               /\ Strike(p, IF provokes THEN struck ELSE {}, killed)
               /\ pl' = Hurt(players, slain)
  <2>1. PICK struck \in SUBSET Aimed(at) :
          \E killed \in SUBSET struck, slain \in SUBSET {q \in Reach(p) : pl[q].alive} :
            /\ Strike(p, IF provokes THEN struck ELSE {}, killed)
            /\ pl' = Hurt(players, slain)
    BY <1>1
  <2>2. PICK killed \in SUBSET struck, slain \in SUBSET {q \in Reach(p) : pl[q].alive} :
          /\ Strike(p, IF provokes THEN struck ELSE {}, killed)
          /\ pl' = Hurt(players, slain)
    BY <2>1
  <2>3. killed \in SUBSET Npc
    BY DEF Aimed
  <2>4. GoodCreatures' /\ GroupsRiseTogether'
    BY <2>2, <2>3, StrikeKeeps
  <2>5. QED
    BY <2>2, <2>4, StillCharacters
<1>2. CASE \E healed \in SUBSET Reach(p) :
             /\ Mend(p, IF provokes THEN healed ELSE {})
             /\ pl' = players
  BY <1>2, MendKeeps
<1>3. CASE \E burnt \in SUBSET Aimed(at), stunned \in SUBSET Reach(p) :
             /\ Burn(burnt)
             /\ pl' = Stunned(players, stunned)
  BY <1>3, BurnKeeps, StillCharacters
<1>4. QED
  BY <1>1, <1>2, <1>3 DEF Perform

\* The respawn timers.
LEMMA SpawnerKeeps ==
    ASSUME GoodCreatures, GroupsRiseTogether, SpawnerUpdate
    PROVE  GoodCreatures' /\ GroupsRiseTogether'
<1>1. ASSUME NEW n \in Npc
      PROVE  GoodCreature(npc'[n], n) /\ (npc'[n].ai = "Dead" => npc[n].ai = "Dead" /\ timer[n] # 1)
  <2>1. GoodCreature(npc[n], n) /\ npc[n] \in Creature
    BY DEF GoodCreatures
  <2>2. npc'[n] = IF timer[n] = 1 THEN Respawned(npc[n]) ELSE npc[n]
    BY DEF SpawnerUpdate
  <2>3. QED
    BY <2>1, <2>2, Risen
<1>2. npc' \in [Npc -> Creature]
  <2>1. \A n \in Npc : npc'[n] \in Creature
    BY <1>1 DEF GoodCreature
  <2>2. QED
    BY <2>1 DEF SpawnerUpdate
<1>3. ASSUME NEW n \in Npc
      PROVE  /\ timer'[n] \in 0 .. RespawnTicks
             /\ timer'[n] = IF timer[n] > 0 THEN timer[n] - 1 ELSE 0
  <2>1. timer[n] \in 0 .. RespawnTicks
    BY DEF GoodCreatures
  <2>2. timer'[n] = IF timer[n] > 0 THEN timer[n] - 1 ELSE 0
    BY DEF SpawnerUpdate
  <2>3. QED
    BY <2>1, <2>2, TicksAssumption
<1>4. timer' \in [Npc -> 0 .. RespawnTicks]
  BY <1>3 DEF SpawnerUpdate
<1>5. ASSUME NEW n \in Npc, npc'[n].ai = "Dead"
      PROVE  timer'[n] > 0
  <2>1. timer[n] \in 0 .. RespawnTicks /\ timer[n] > 0 /\ timer[n] # 1
    BY <1>1, <1>5 DEF GoodCreatures
  <2>2. QED
    BY <1>3, <2>1
<1>6. ASSUME NEW n \in Linked
      PROVE  timer'[n] = timer'[Leader[n]]
  <2>1. n \in Npc /\ Leader[n] \in Npc /\ timer[n] = timer[Leader[n]]
    BY GroupAssumption DEF GroupsRiseTogether
  <2>2. QED
    BY <1>3, <2>1
<1>7. QED
  BY <1>1, <1>2, <1>4, <1>5, <1>6 DEF GoodCreatures, GoodCreature, GroupsRiseTogether

\* A creature's own update, up to its turn of the state machine: one tick less
\* of the aura that burns it.
LEMMA Cooled ==
    ASSUME GoodCreatures, NEW n \in Npc
    PROVE  /\ Burnt(n) \in [Npc -> Creature]
           /\ \A m \in Npc : GoodCreature(Burnt(n)[m], m) /\ Burnt(n)[m].ai = npc[m].ai
           /\ Burnt(n)[n].threat = npc[n].threat
           /\ \A m \in Npc \ {n} : Burnt(n)[m] = npc[m]
           /\ Burnt(n)[n].called = npc[n].called
<1> DEFINE cs == Burnt(n)
<1>1. npc \in [Npc -> Creature] /\ GoodCreature(npc[n], n)
  BY DEF GoodCreatures
<1>0. cs = [npc EXCEPT ![n].burn = IF @ > 0 THEN @ - 1 ELSE 0]
  BY DEF Burnt
<1> HIDE DEF cs
<1>2. PICK b \in 0 .. BurnTicks : cs[n] = [npc[n] EXCEPT !.burn = b]
  <2>1. npc[n].burn \in 0 .. BurnTicks
    BY <1>1 DEF Creature
  <2>2. (IF npc[n].burn > 0 THEN npc[n].burn - 1 ELSE 0) \in 0 .. BurnTicks
    BY <2>1, TicksAssumption
  <2>3. cs[n] = [npc[n] EXCEPT !.burn = IF npc[n].burn > 0 THEN npc[n].burn - 1 ELSE 0]
    BY <1>0, <1>1
  <2>4. QED
    BY <2>2, <2>3
<1>3. GoodCreature(cs[n], n) /\ cs[n].ai = npc[n].ai /\ cs[n].threat = npc[n].threat
  BY <1>1, <1>2 DEF GoodCreature, Creature
<1>4. cs[n].called = npc[n].called
  BY <1>1, <1>2 DEF Creature
<1>5. \A m \in Npc \ {n} : cs[m] = npc[m]
  BY <1>0, <1>1
<1>6. \A m \in Npc : GoodCreature(cs[m], m) /\ cs[m].ai = npc[m].ai
  BY <1>3, <1>5 DEF GoodCreatures
<1>7. cs \in [Npc -> Creature]
  BY <1>0, <1>1, <1>6 DEF GoodCreature
<1>8. QED
  BY <1>3, <1>4, <1>5, <1>6, <1>7 DEF cs

\* Whom a creature fights is a player of what is left of its table.
LEMMA ActKeeps ==
    ASSUME GoodCreatures, GroupsRiseTogether, NEW n \in Npc, NEW cs \in [Npc -> Creature],
           \A m \in Npc : GoodCreature(cs[m], m) /\ cs[m].ai = npc[m].ai,
           npc[n].ai = "Combat", Act(n, cs), UNCHANGED timer
    PROVE  GoodCreatures' /\ GroupsRiseTogether'
<1>1. CASE npc' = [cs EXCEPT ![n] = GiveUp(@)]
  <2>1. GoodCreature(GiveUp(cs[n]), n) /\ GiveUp(cs[n]).ai = "Idle"
    BY GivesUp
  <2>2. npc'[n] = GiveUp(cs[n]) /\ \A m \in Npc \ {n} : npc'[m] = cs[m]
    BY <1>1
  <2>3. \A m \in Npc : GoodCreature(npc'[m], m) /\ (npc'[m].ai = "Dead" => npc[m].ai = "Dead")
    BY <2>1, <2>2
  <2>4. npc' \in [Npc -> Creature]
    BY <1>1, <2>3 DEF GoodCreature
  <2>5. QED
    BY <2>3, <2>4, Commotion
<1>2. CASE \E p \in Present(cs[n].threat), near \in SUBSET (Npc \ {n}),
            gone \in {{}} \cup {{q} : q \in Alive(cs[n].threat) \ Present(cs[n].threat)} :
              npc' = Fight(cs, n, p, cs[n].threat \ gone, near)
  <2>1. PICK p \in Present(cs[n].threat), near \in SUBSET (Npc \ {n}),
             gone \in {{}} \cup {{q} : q \in Alive(cs[n].threat) \ Present(cs[n].threat)} :
               npc' = Fight(cs, n, p, cs[n].threat \ gone, near)
    BY <1>2
  <2>2. cs[n].threat \in SUBSET Player
    BY DEF Creature
  <2>3. p \in Player /\ p \in cs[n].threat \ gone /\ cs[n].threat \ gone \in SUBSET Player
    BY <2>1, <2>2 DEF Present, Alive
  <2>4. cs[n].ai = "Combat" /\ \A m \in Npc : GoodCreature(cs[m], m)
    OBVIOUS
  <2> DEFINE threat == cs[n].threat \ gone
  <2>5. /\ Fight(cs, n, p, threat, near) \in [Npc -> Creature]
        /\ \A m \in Npc : GoodCreature(Fight(cs, n, p, threat, near)[m], m)
        /\ \A m \in Npc : Fight(cs, n, p, threat, near)[m].ai = "Dead" => cs[m].ai = "Dead"
    <3> HIDE DEF threat
    <3>1. p \in Player /\ threat \in SUBSET Player /\ p \in threat
      BY <2>3 DEF threat
    <3>2. QED
      BY <2>4, <3>1, Fought
  <2>6. /\ npc' \in [Npc -> Creature]
        /\ \A m \in Npc : GoodCreature(npc'[m], m)
        /\ \A m \in Npc : npc'[m].ai = "Dead" => npc[m].ai = "Dead"
    BY <2>1, <2>5
  <2>7. QED
    BY <2>6, Commotion
<1>3. QED
  BY <1>1, <1>2 DEF Act

\* Npc::update.
LEMMA UpdateNpcKeeps ==
    ASSUME GoodCreatures, GroupsRiseTogether, NEW n \in Npc, UpdateNpc(n)
    PROVE  GoodCreatures' /\ GroupsRiseTogether'
<1> DEFINE cs == Burnt(n)
<1>1. /\ cs \in [Npc -> Creature]
      /\ \A m \in Npc : GoodCreature(cs[m], m) /\ cs[m].ai = npc[m].ai
  BY Cooled
<1>2. CASE UNCHANGED <<npc, timer>>
  BY <1>2, NothingHappens
<1>3. CASE npc' = [npc EXCEPT ![n] = Died(@)] /\ timer' = TimersAfter({n})
  <2>1. GoodCreature(Died(npc[n]), n)
    BY Killed DEF GoodCreatures
  <2>2. npc'[n] = Died(npc[n]) /\ \A m \in Npc \ {n} : npc'[m] = npc[m]
    BY <1>3 DEF GoodCreatures
  <2>3. \A m \in Npc : GoodCreature(npc'[m], m) /\ (m \notin {n} => npc'[m] = npc[m])
    BY <2>1, <2>2 DEF GoodCreatures
  <2>4. npc' \in [Npc -> Creature]
    BY <1>3, <2>3 DEF GoodCreatures, GoodCreature
  <2>5. QED
    BY <1>3, <2>3, <2>4, Slaughter
<1>4. CASE npc[n].ai = "Idle" /\ UNCHANGED timer /\ npc' = cs
  BY <1>1, <1>4, Commotion
<1>5. CASE /\ npc[n].ai = "Idle" /\ UNCHANGED timer
           /\ \E p \in Player, near \in SUBSET (Npc \ {n}) : npc' = Aggro(cs, n, p, near)
  <2>1. PICK p \in Player, near \in SUBSET (Npc \ {n}) : npc' = Aggro(cs, n, p, near)
    BY <1>5
  <2>2. cs[n].ai = "Idle" /\ \A m \in Npc : GoodCreature(cs[m], m)
    BY <1>1, <1>5
  <2>3. /\ Aggro(cs, n, p, near) \in [Npc -> Creature]
        /\ \A m \in Npc : GoodCreature(Aggro(cs, n, p, near)[m], m)
        /\ \A m \in Npc : Aggro(cs, n, p, near)[m].ai = "Dead" => cs[m].ai = "Dead"
    BY <1>1, <2>2, Provoked
  <2>4. /\ npc' \in [Npc -> Creature]
        /\ \A m \in Npc : GoodCreature(npc'[m], m)
        /\ \A m \in Npc : npc'[m].ai = "Dead" => npc[m].ai = "Dead"
    BY <1>1, <2>1, <2>3
  <2>5. QED
    BY <1>5, <2>4, Commotion
<1>6. CASE npc[n].ai = "Combat" /\ Act(n, cs) /\ UNCHANGED timer
  BY <1>1, <1>6, ActKeeps
<1>7. QED
  BY <1>2, <1>3, <1>4, <1>5, <1>6 DEF UpdateNpc

-----------------------------------------------------------------------------
(* The inductive invariant.                                                *)

Players == pl \in [Player -> Character] /\ due \subseteq Player \cup Npc \cup {"spawner"}

IInv == GoodSight /\ GoodCreatures /\ GroupsRiseTogether /\ Players

LEMMA InitIInv ==
    ASSUME Init
    PROVE  IInv
<1>1. 0 \in 0 .. BurnTicks /\ 0 \in 0 .. RespawnTicks /\ MaxMana \in 0 .. MaxMana
  BY TicksAssumption, CombatAssumption
<1>2. Fresh \in Creature /\ \A n : GoodCreature(Fresh, n)
  BY <1>1 DEF Fresh, Creature, GoodCreature
<1>3. GoodCreatures
  BY <1>1, <1>2 DEF Init, CreaturesInit, GoodCreatures, Fresh
<1>4. GroupsRiseTogether
  BY GroupAssumption DEF Init, CreaturesInit, GroupsRiseTogether
<1>5. Players
  BY <1>1 DEF Init, Players, Character, PendingCast
<1>6. GoodSight
  BY InitSight DEF Init
<1>7. QED
  BY <1>3, <1>4, <1>5, <1>6 DEF IInv

\* Whoever has the mana can pay and is still a character.
LEMMA Pays ==
    ASSUME NEW players \in [Player -> Character], NEW p \in Player, NEW cost \in 0 .. 1,
           players[p].mana >= cost
    PROVE  Paid(players, p, cost) \in [Player -> Character]
<1>1. players[p] \in Character /\ players[p].mana \in 0 .. MaxMana
  BY DEF Character
<1>2. players[p].mana - cost \in 0 .. MaxMana
  BY <1>1, CombatAssumption
<1>3. [players[p] EXCEPT !.mana = players[p].mana - cost] \in Character
  BY <1>1, <1>2 DEF Character
<1>4. QED
  BY <1>3 DEF Paid

\* Casts that are over leave their casters characters with the mana they had.
LEMMA Ends ==
    ASSUME Players, NEW p \in Player
    PROVE  /\ [pl EXCEPT ![p].cast = None] \in [Player -> Character]
           /\ [pl EXCEPT ![p].cast = None][p].mana = pl[p].mana
<1>1. pl[p] \in Character /\ None \in PendingCast
  BY DEF Players, PendingCast
<1>2. [pl[p] EXCEPT !.cast = None] \in Character /\ [pl[p] EXCEPT !.cast = None].mana = pl[p].mana
  BY <1>1 DEF Character
<1>3. [pl EXCEPT ![p].cast = None] = [pl EXCEPT ![p] = [pl[p] EXCEPT !.cast = None]]
  BY ZenonT(30)
<1>4. QED
  BY <1>2, <1>3 DEF Players

\* A cast that completes leaves its caster a character who has paid or has not.
LEMMA CompletesCast ==
    ASSUME GoodCreatures, GroupsRiseTogether, Players, NEW p \in Player, CompleteCast(p)
    PROVE  GoodCreatures' /\ GroupsRiseTogether' /\ pl' \in [Player -> Character]
<1> DEFINE over == [pl EXCEPT ![p].cast = None]
           at == pl[p].cast
<1>1. over \in [Player -> Character] /\ over[p].mana = pl[p].mana
  BY Ends
<1>2. \/ \E cost \in 0 .. 1 : ValidCast(p, at, cost) /\ Perform(p, at, Paid(over, p, cost), TRUE)
      \/ pl' = over /\ UNCHANGED <<npc, timer>>
  BY DEF CompleteCast
<1> HIDE DEF over, at
<1>3. CASE \E cost \in 0 .. 1 : ValidCast(p, at, cost) /\ Perform(p, at, Paid(over, p, cost), TRUE)
  <2>1. PICK cost \in 0 .. 1 : ValidCast(p, at, cost) /\ Perform(p, at, Paid(over, p, cost), TRUE)
    BY <1>3
  <2>2. over[p].mana >= cost
    BY <1>1, <2>1 DEF ValidCast
  <2>3. Paid(over, p, cost) \in [Player -> Character]
    BY <1>1, <2>2, Pays
  <2>4. QED
    BY <2>1, <2>3, PerformKeeps
<1>4. CASE pl' = over /\ UNCHANGED <<npc, timer>>
  BY <1>1, <1>4, NothingHappens
<1>5. QED
  BY <1>2, <1>3, <1>4

\* What creatures do to players leaves them characters.
LEMMA Harms ==
    ASSUME Players, Harm
    PROVE  pl' \in [Player -> Character]
<1>1. PICK stunned, killed : pl' = Hurt(Stunned(pl, stunned), killed)
  BY DEF Harm
<1>2. Stunned(pl, stunned) \in [Player -> Character]
  BY StillCharacters DEF Players
<1>3. QED
  BY <1>1, <1>2, StillCharacters

\* handleCastSpell, handleUseItem and handleCancelCast.
LEMMA CastKeeps ==
    ASSUME IInv, NEW p \in Player, Cast(p)
    PROVE  IInv'
<1>1. GoodCreatures /\ GroupsRiseTogether /\ Players
  BY DEF IInv
<1>2. GoodSight'
  BY SightStays DEF IInv, Cast
<1>3. UNCHANGED due
  BY DEF Cast, CastInstant, UseItem, BeginCast, CancelCast
<1>4. ASSUME GoodCreatures' /\ GroupsRiseTogether' /\ pl' \in [Player -> Character]
      PROVE  IInv'
  BY <1>1, <1>2, <1>3, <1>4 DEF IInv, Players
<1>5. ASSUME NEW at, CastInstant(p, at)
      PROVE  IInv'
  <2>1. PICK cost \in 0 .. 1 : ValidCast(p, at, cost) /\ Perform(p, at, Paid(pl, p, cost), TRUE)
    BY <1>5 DEF CastInstant
  <2>2. Paid(pl, p, cost) \in [Player -> Character]
    BY <1>1, <2>1, Pays DEF ValidCast, Players
  <2>3. QED
    BY <1>1, <1>4, <2>1, <2>2, PerformKeeps
<1>6. ASSUME NEW at, UseItem(p, at)
      PROVE  IInv'
  BY <1>1, <1>4, <1>6, PerformKeeps DEF UseItem, Players
<1>7. ASSUME NEW at \in Aim, BeginCast(p, at)
      PROVE  IInv'
  <2>1. GoodCreatures' /\ GroupsRiseTogether'
    BY <1>1, <1>7, NothingHappens DEF BeginCast
  <2>2. pl' \in [Player -> Character]
    BY <1>1, <1>7 DEF BeginCast, Players, Character, PendingCast
  <2>3. QED
    BY <1>4, <2>1, <2>2
<1>8. ASSUME CancelCast(p)
      PROVE  IInv'
  <2>1. GoodCreatures' /\ GroupsRiseTogether'
    BY <1>1, <1>8, NothingHappens DEF CancelCast
  <2>2. pl' \in [Player -> Character]
    BY <1>1, <1>8, Ends DEF CancelCast
  <2>3. QED
    BY <1>4, <2>1, <2>2
<1>9. QED
  BY <1>5, <1>6, <1>7, <1>8 DEF Cast

\* Release, and coming and going.
LEMMA MovesKeep ==
    ASSUME IInv, NEW p \in Player, ComeAndGo(p)
    PROVE  IInv'
<1>1. GoodSight /\ GoodCreatures /\ GroupsRiseTogether /\ Players
  BY DEF IInv
<1>2. UNCHANGED <<npc, timer, due>>
  BY DEF ComeAndGo, Release, Enter, Travel, Stop, Leave
<1>3. GoodCreatures' /\ GroupsRiseTogether'
  BY <1>1, <1>2, NothingHappens
<1>4. GoodSight'
  <2>1. ASSUME NEW m \in Map, Enter(p, m) \/ Travel(p, m)
        PROVE  GoodSight'
    BY <1>1, <2>1, SpawnKeeps, ChangeMapKeeps DEF Enter, Travel
  <2>2. ASSUME Leave(p)
        PROVE  GoodSight'
    BY <1>1, <2>2, DespawnKeeps DEF Leave
  <2>3. ASSUME Stop(p) \/ Release(p)
        PROVE  GoodSight'
    BY <1>1, <2>3, VisibilityKeeps, SightStays DEF Stop, Release, sightVars
  <2>4. QED
    BY <2>1, <2>2, <2>3 DEF ComeAndGo
<1>5. MaxMana \div 2 \in 0 .. MaxMana
  BY CombatAssumption
<1>6. ASSUME Release(p)
      PROVE  pl' \in [Player -> Character]
  <2>1. HalfMana(p) \in 0 .. MaxMana
    BY <1>1, <1>5 DEF HalfMana, Players, Character
  <2>2. [pl[p] EXCEPT !.alive = TRUE, !.mana = HalfMana(p)] \in Character
    BY <1>1, <2>1 DEF Players, Character
  <2>3. pl' = [pl EXCEPT ![p] = [pl[p] EXCEPT !.alive = TRUE, !.mana = HalfMana(p)]]
    BY <1>6, ZenonT(30) DEF Release
  <2> QED
    BY <1>1, <2>2, <2>3 DEF Players
<1>7. ASSUME Leave(p)
      PROVE  pl' \in [Player -> Character]
  <2> DEFINE gone == [pl[p] EXCEPT !.stunned = FALSE, !.cast = None]
  <2>1. pl[p] \in Character /\ None \in PendingCast
    BY <1>1 DEF Players, PendingCast
  <2>2. gone \in Character
    BY <2>1 DEF Character
  <2>3. pl' = [pl EXCEPT ![p] = gone]
    BY <1>7, ZenonT(30) DEF Leave
  <2> HIDE DEF gone
  <2>4. QED
    BY <1>1, <2>2, <2>3 DEF Players
<1>8. pl' \in [Player -> Character]
  <2>1. Release(p) \/ Leave(p) \/ UNCHANGED pl
    BY DEF ComeAndGo, Enter, Travel, Stop
  <2>2. QED
    BY <1>1, <1>6, <1>7, <2>1 DEF Players
<1>9. QED
  BY <1>1, <1>2, <1>3, <1>4, <1>8 DEF IInv, Players

\* Player::update.
LEMMA UpdatePlayerKeeps ==
    ASSUME IInv, NEW p \in Player, UpdatePlayer(p)
    PROVE  IInv'
<1>1. GoodCreatures /\ GroupsRiseTogether /\ Players
  BY DEF IInv
<1>0. GoodSight'
  <2>1. UpdateVisibility(p) \/ UNCHANGED sightVars
    BY DEF UpdatePlayer
  <2>2. QED
    BY <2>1, VisibilityKeeps, SightStays DEF IInv
<1>2. due' \subseteq Player \cup Npc \cup {"spawner"}
  BY <1>1 DEF UpdatePlayer, Players
<1>3. CASE UNCHANGED <<npc, timer, pl>>
  BY <1>0, <1>1, <1>2, <1>3, NothingHappens DEF IInv, Players
<1>4. CASE CompleteCast(p)
  <2>1. GoodCreatures' /\ GroupsRiseTogether' /\ pl' \in [Player -> Character]
    BY <1>1, <1>4, CompletesCast
  <2>2. QED
    BY <1>0, <1>2, <2>1 DEF IInv, Players
<1>5. QED
  BY <1>3, <1>4 DEF UpdatePlayer

\* Every step keeps the invariant.
LEMMA NextKeepsIInv ==
    ASSUME IInv, [Next]_vars
    PROVE  IInv'
<1>1. GoodSight /\ GoodCreatures /\ GroupsRiseTogether /\ Players
  BY DEF IInv
<1>2. CASE BeginTick
  <2>1. GoodSight' /\ GoodCreatures' /\ GroupsRiseTogether'
    BY <1>1, <1>2, NothingHappens, SightStays DEF BeginTick
  <2>2. QED
    BY <1>1, <1>2, <2>1 DEF BeginTick, IInv, Players
<1>3. ASSUME NEW p \in Player, UpdatePlayer(p)
      PROVE  IInv'
  BY <1>3, UpdatePlayerKeeps
<1>4. ASSUME NEW n \in Npc, UpdateNpc(n)
      PROVE  IInv'
  <2>1. GoodCreatures' /\ GroupsRiseTogether'
    BY <1>1, <1>4, UpdateNpcKeeps
  <2>2. due' \subseteq Player \cup Npc \cup {"spawner"}
    BY <1>1, <1>4 DEF UpdateNpc, Players
  <2>3. UNCHANGED pl \/ Harm
    BY <1>4 DEF UpdateNpc, Act
  <2>4. pl' \in [Player -> Character]
    BY <1>1, <2>3, Harms DEF Players
  <2>5. GoodSight'
    BY <1>1, <1>4, SightStays DEF UpdateNpc
  <2>6. QED
    BY <2>1, <2>2, <2>4, <2>5 DEF IInv, Players
<1>5. CASE UpdateSpawner
  <2>1. SpawnerUpdate /\ UNCHANGED pl /\ due' = {}
    BY <1>5 DEF UpdateSpawner
  <2>2. GoodCreatures' /\ GroupsRiseTogether'
    BY <1>1, <2>1, SpawnerKeeps
  <2>3. GoodSight'
    BY <1>1, <1>5, SightStays DEF UpdateSpawner
  <2>4. QED
    BY <1>1, <2>1, <2>2, <2>3 DEF IInv, Players
<1>6. ASSUME NEW p \in Caster, Cast(p)
      PROVE  IInv'
  <2>1. p \in Player
    BY CombatAssumption
  <2>2. QED
    BY <1>6, <2>1, CastKeeps
<1>7. ASSUME NEW p \in Player, ComeAndGo(p)
      PROVE  IInv'
  BY <1>7, MovesKeep
<1>8. CASE UNCHANGED vars
  <2>1. GoodSight' /\ GoodCreatures' /\ GroupsRiseTogether'
    BY <1>1, <1>8, NothingHappens, SightStays DEF vars
  <2>2. QED
    BY <1>1, <1>8, <2>1 DEF vars, IInv, Players
<1>9. QED
  BY <1>2, <1>3, <1>4, <1>5, <1>6, <1>7, <1>8 DEF Next, Tick

\* The invariant holds always.
THEOREM Invariance == Spec => []IInv
<1>1. Init => IInv
  BY InitIInv
<1>2. IInv /\ [Next]_vars => IInv'
  BY NextKeepsIInv
<1>3. QED
  BY <1>1, <1>2, PTL DEF Spec

-----------------------------------------------------------------------------
(* The theorems.                                                           *)

\* Through any casts, deaths, ticks and departures, and for any number of
\* players and creatures: a creature's state, target and threat table belong
\* together, whoever is dead has a timer, and no mana below zero is spent.
THEOREM AlwaysSound == Spec => []Sound
<1>1. IInv => Sound
  BY DEF IInv, GoodSight, GoodCreatures, GoodCreature, Players, Sound, TypeOK, CreaturesTypeOK,
         TargetMatchesState, DeadHaveATimer
<1>2. QED
  BY <1>1, Invariance, PTL

\* The members of a linked group are always due at the same time, however many
\* groups there are and whoever of them dies when (NpcSpawner::onNpcDeath).
THEOREM GroupsAlwaysRiseTogether == Spec => []GroupsRiseTogether
<1>1. IInv => GroupsRiseTogether
  BY DEF IInv
<1>2. QED
  BY <1>1, Invariance, PTL

\* Everybody sees, is seen by and is shown exactly the others on his map, for
\* any number of players and maps: whoever is deleted when he logs out, or
\* travels, is in no set of another player (WorldManager).
THEOREM SightIsAlwaysExact == Spec => []SightIsExact
<1>1. IInv => SightIsExact
  BY DEF IInv, GoodSight
<1>2. QED
  BY <1>1, Invariance, PTL

\* The update of a creature that is in a fight draws no other into one: it has
\* called for help when it was drawn in or when it attacked (Npc::addThreat).
THEOREM NeverCascades == Spec => NoCascade
<1>1. ASSUME IInv, NEW n \in Npc, NEW m \in Npc, m # n,
             npc[m].ai = "Idle", npc[n].ai = "Combat", UpdateNpc(n)
      PROVE  npc'[m] = npc[m]
  <2>1. GoodCreatures /\ npc \in [Npc -> Creature]
    BY <1>1 DEF IInv, GoodCreatures
  <2> DEFINE cs == Burnt(n)
  <2>2. /\ cs \in [Npc -> Creature]
        /\ cs[n].called = npc[n].called
        /\ \A k \in Npc \ {n} : cs[k] = npc[k]
    BY <2>1, Cooled
  <2>3. npc[n].called \/ n \notin CanCall
    BY <1>1, <2>1 DEF GoodCreatures, GoodCreature
  <2>4. \/ npc' = [npc EXCEPT ![n] = Died(@)]
        \/ Act(n, cs)
    BY <1>1 DEF UpdateNpc
  <2> HIDE DEF cs
  <2>5. CASE npc' = [npc EXCEPT ![n] = Died(@)]
    BY <1>1, <2>1, <2>5
  <2>6. CASE npc' = [cs EXCEPT ![n] = GiveUp(@)]
    BY <1>1, <2>2, <2>6
  <2>7. ASSUME NEW p, NEW threat, NEW near, npc' = Fight(cs, n, p, threat, near)
        PROVE  npc'[m] = npc[m]
    <3>1. npc' = [cs EXCEPT ![n] = [SetTarget(cs[n], p) EXCEPT !.threat = threat]]
      BY <2>2, <2>3, <2>7 DEF Fight, CallForHelp
    <3>2. QED
      BY <1>1, <2>2, <3>1
  <2>8. QED
    BY <2>4, <2>5, <2>6, <2>7 DEF Act
<1>2. IInv /\ [Next]_vars =>
        [\A n, m \in Npc :
           (npc[m].ai = "Idle" /\ npc'[m].ai = "Combat" /\ m # n /\ npc[n].ai = "Combat")
             => ~ UpdateNpc(n)]_vars
  BY <1>1
<1>3. QED
  BY <1>2, Invariance, PTL DEF Spec, NoCascade

\* A cast that completes after its caster was killed, stunned, drained or moved
\* away does nothing to any creature (executePendingCast validates anew).  A
\* spell at a player reaches creatures through those who fight the players it
\* heals, who are on the caster's map.
THEOREM HelplessNeverAct == Spec => HelplessDoNothing
<1>1. ASSUME NEW p \in Player, UpdatePlayer(p), npc' # npc, IInv
      PROVE  Able(p) /\ Here(p)
  <2> DEFINE at == pl[p].cast
             over == [pl EXCEPT ![p].cast = None]
  <2>1. npc \in [Npc -> Creature]
    BY <1>1 DEF IInv, GoodCreatures
  <2>2. PICK cost \in 0 .. 1 : ValidCast(p, at, cost) /\ Perform(p, at, Paid(over, p, cost), TRUE)
    BY <1>1 DEF UpdatePlayer, CompleteCast
  <2> HIDE DEF at, over
  <2>3. Able(p) /\ (at \in Npc \/ at \in Player)
    BY <2>2 DEF ValidCast
  <2>4. ASSUME NEW struck \in SUBSET Aimed(at), NEW killed \in SUBSET struck,
               Strike(p, struck, killed)
        PROVE  at \in Npc
    <3>1. struck # {}
      <4>1. ASSUME struck = {}
            PROVE  npc' = npc
        BY <2>1, <2>4, <4>1 DEF Strike
      <4>2. QED
        BY <1>1, <4>1
    <3>2. QED
      BY <3>1 DEF Aimed
  <2>5. ASSUME NEW burnt \in SUBSET Aimed(at), Burn(burnt)
        PROVE  at \in Npc
    <3>1. burnt # {}
      <4>1. ASSUME burnt = {}
            PROVE  npc' = npc
        BY <2>1, <2>5, <4>1 DEF Burn
      <4>2. QED
        BY <1>1, <4>1
    <3>2. QED
      BY <3>1 DEF Aimed
  <2>6. ASSUME NEW healed \in SUBSET Reach(p), Mend(p, healed)
        PROVE  Here(p)
    <3>1. \E q \in healed : Here(q)
      <4>1. ASSUME \A q \in healed : ~ Here(q)
            PROVE  npc' = npc
        BY <2>1, <2>6, <4>1 DEF Mend
      <4>2. QED
        BY <1>1, <4>1
    <3>2. QED
      BY <3>1 DEF Reach, Here
  <2>7. at \in Npc \/ Here(p)
    BY <2>2, <2>4, <2>5, <2>6 DEF Perform
  <2>8. QED
    BY <2>2, <2>3, <2>7, CombatAssumption DEF ValidCast
<1>2. IInv /\ [Next]_vars =>
        [npc' # npc => \A p \in Player : UpdatePlayer(p) => Able(p) /\ Here(p)]_vars
  BY <1>1
<1>3. QED
  BY <1>2, Invariance, PTL DEF Spec, HelplessDoNothing

-----------------------------------------------------------------------------
(* Duels.  The maps of the manager agree in every reachable state because  *)
(* each of its operations erases, or creates, an entry of m_duels together *)
(* with both keys that lead to it; lemma ForgottenByKey says so for        *)
(* erasing, and the re-check at the answer (MayStart) for creating.        *)

USE GuidAssumption, HealthAssumption, CountdownAssumption DEF Nobody

\* A running countdown has not reached zero: with it DuelTypeOK is inductive.
CountingDown ==
    \A k \in Guid : duels[k].state = "Countdown" => duels[k].countdown > 0

\* No offer is to oneself: with it a duel that starts has two fighters.
OffersAreToOthers == \A t \in Guid : invite[t] # t

DuelInv ==
    DuelTypeOK /\ DuelMapsAgree /\ CountingDown /\ OffersHaveATarget /\ OffersAreToOthers

\* What every action must show of the maps; the rest is players and offers.
MapsOK ==
    /\ DuelMapsAgree /\ CountingDown
    /\ duels \in [Guid -> DuelRecord]
    /\ keyOf \in [Guid -> Guid \cup {Nobody}]

-----------------------------------------------------------------------------

\* The lower of two guids is one of them, whichever is named first.
LEMMA LowerIsOne ==
    ASSUME NEW a \in Guid, NEW b \in Guid
    PROVE  /\ Lower(a, b) \in {a, b}
           /\ Lower(a, b) \in Guid
           /\ Lower(a, b) = Lower(b, a)
  BY DEF Lower

\* NoDuel is not a duel of any pair.
LEMMA NoDuelIsNone == NoDuel \in DuelRecord /\ NoDuel.state = "None"
  BY DEF NoDuel, DuelRecord

\* One second of a countdown: the pair stays, and it becomes a fight at zero.
LEMMA CountedDuel ==
    ASSUME NEW d \in DuelRecord, d.state = "Countdown", d.countdown > 0
    PROVE  /\ Counted(d) \in DuelRecord
           /\ Counted(d).player1 = d.player1 /\ Counted(d).player2 = d.player2
           /\ Counted(d).countdown = d.countdown - 1
           /\ Counted(d).state \in {"Countdown", "Active"}
           /\ Counted(d).state = "Active" <=> Counted(d).countdown = 0
  <1> DEFINE left == d.countdown - 1
             now == IF left <= 0 THEN "Active" ELSE d.state
  <1>1. left \in 0 .. DUEL_COUNTDOWN_S /\ now \in {"Countdown", "Active"}
    BY DEF DuelRecord
  <1> HIDE DEF left, now
  <1>2. [d EXCEPT !.countdown = left, !.state = now] \in DuelRecord
    BY <1>1 DEF DuelRecord
  <1>3. Counted(d) \in DuelRecord
    BY <1>2 DEF Counted, left, now
  <1> QED
    BY <1>3 DEF DuelRecord, Counted

\* A stored duel is keyed and found as DuelEntryOK says.
LEMMA StoredDuel ==
    ASSUME DuelInv, NEW k \in Guid, duels[k] # NoDuel
    PROVE  /\ duels[k] \in DuelRecord
           /\ duels[k].player1 \in Guid /\ duels[k].player2 \in Guid
           /\ duels[k].player1 # duels[k].player2
           /\ duels[k].state \in {"Countdown", "Active"}
           /\ Fighters(duels[k]) \subseteq online
           /\ Key(duels[k]) = k /\ k \in Fighters(duels[k])
           /\ \A p \in Fighters(duels[k]) : keyOf[p] = k
  <1>1. DuelEntryOK(k) /\ duels[k] \in DuelRecord
    BY DEF DuelInv, DuelMapsAgree, DuelTypeOK
  <1>2. duels[k].player1 \in Guid /\ duels[k].player2 \in Guid
    BY <1>1 DEF DuelEntryOK, Fighters, DuelInv, DuelTypeOK
  <1>3. k \in Fighters(duels[k])
    BY <1>1, <1>2 DEF DuelEntryOK, Key, Lower, Fighters
  <1> QED
    BY <1>1, <1>2, <1>3 DEF DuelEntryOK

\* A player whose key is set is found in the duel it names.
LEMMA FoundDuel ==
    ASSUME DuelInv, NEW p \in Guid
    PROVE  /\ keyOf[p] = Nobody => FindDuel(p) = NoDuel
           /\ keyOf[p] # Nobody => /\ keyOf[p] \in Guid
                                   /\ FindDuel(p) = duels[keyOf[p]]
                                   /\ duels[keyOf[p]] # NoDuel
                                   /\ p \in Fighters(duels[keyOf[p]])
           /\ IsInDuel(p) <=> keyOf[p] # Nobody
  <1>1. CASE keyOf[p] = Nobody
    BY <1>1, NoDuelIsNone DEF FindDuel, IsInDuel
  <1>2. CASE keyOf[p] # Nobody
    <2>1. keyOf[p] \in Guid
      BY <1>2 DEF DuelInv, DuelTypeOK
    <2>2. /\ duels[keyOf[p]] # NoDuel
          /\ p \in Fighters(duels[keyOf[p]])
      BY <1>2 DEF DuelInv, DuelMapsAgree
    <2>3. duels[keyOf[p]].state \in {"Countdown", "Active"}
      BY <2>1, <2>2, StoredDuel
    <2> QED
      BY <1>2, <2>1, <2>2, <2>3 DEF FindDuel, IsInDuel
  <1> QED
    BY <1>1, <1>2

\* Forgetting the duels stored under K clears exactly those entries, and
\* exactly the keys that lead to them.
LEMMA ForgottenByKey ==
    ASSUME DuelInv, NEW K \in SUBSET Guid, \A k \in K : duels[k] # NoDuel
    PROVE  LET D == {duels[k] : k \in K}
           IN  /\ DuelsWithout(D) = [g \in Guid |-> IF g \in K THEN NoDuel ELSE duels[g]]
               /\ KeysWithout(D) = [g \in Guid |-> IF keyOf[g] \in K THEN Nobody ELSE keyOf[g]]
  <1> DEFINE D == {duels[k] : k \in K}
  <1>1. \A g \in Guid : (\E d \in D : g = Key(d)) <=> g \in K
    BY StoredDuel
  <1>2. ASSUME NEW g \in Guid
        PROVE  (\E d \in D : g \in Fighters(d)) <=> keyOf[g] \in K
    <2>1. ASSUME NEW k \in K, g \in Fighters(duels[k])  PROVE keyOf[g] = k
      BY <2>1, StoredDuel
    <2>2. ASSUME keyOf[g] \in K  PROVE g \in Fighters(duels[keyOf[g]])
      BY <2>2, FoundDuel
    <2> QED
      BY <2>1, <2>2
  <1> HIDE DEF D
  <1>3. DuelsWithout(D) = [g \in Guid |-> IF g \in K THEN NoDuel ELSE duels[g]]
    BY <1>1 DEF DuelsWithout
  <1>4. KeysWithout(D) = [g \in Guid |-> IF keyOf[g] \in K THEN Nobody ELSE keyOf[g]]
    BY <1>2 DEF KeysWithout
  <1> QED
    BY <1>3, <1>4 DEF D

\* Clearing the entries of K and the keys to them keeps the maps in agreement,
\* as long as nobody in a duel that stays has left.
LEMMA ForgettingKeepsMaps ==
    ASSUME DuelInv, NEW K \in SUBSET Guid,
           duels' = [g \in Guid |-> IF g \in K THEN NoDuel ELSE duels[g]],
           keyOf' = [g \in Guid |-> IF keyOf[g] \in K THEN Nobody ELSE keyOf[g]],
           \A k \in Guid \ K : duels[k] # NoDuel => Fighters(duels[k]) \subseteq online'
    PROVE  MapsOK'
  <1>1. ASSUME NEW k \in Guid, duels'[k] # NoDuel
        PROVE  DuelEntryOK(k)'
    <2>1. k \notin K /\ duels'[k] = duels[k]
      BY <1>1
    <2>2. \A p \in Fighters(duels[k]) : p \in Guid /\ keyOf'[p] = k
      BY <2>1, <1>1, StoredDuel DEF Fighters
    <2>3. Fighters(duels[k]) \subseteq online'
      BY <2>1, <1>1
    <2> QED
      BY <2>1, <2>2, <2>3, <1>1, StoredDuel DEF DuelEntryOK, Key, Lower, Fighters
  <1>2. ASSUME NEW p \in Guid, keyOf'[p] # Nobody
        PROVE  duels'[keyOf'[p]] # NoDuel /\ p \in Fighters(duels'[keyOf'[p]])
    BY <1>2, FoundDuel
  <1>3. CountingDown'
    BY NoDuelIsNone DEF CountingDown, DuelInv
  <1>4. /\ duels' \in [Guid -> DuelRecord]
        /\ keyOf' \in [Guid -> Guid \cup {Nobody}]
    BY NoDuelIsNone DEF DuelInv, DuelTypeOK
  <1> QED
    BY <1>1, <1>2, <1>3, <1>4 DEF MapsOK, DuelMapsAgree, Fighters

-----------------------------------------------------------------------------
(* The invariant, action by action.                                        *)

\* What an offer, an answer that starts nothing, or the clock leaves alone.
LEMMA SameMaps ==
    ASSUME DuelInv, UNCHANGED <<duels, keyOf>>, online \subseteq online'
    PROVE  MapsOK'
  <1>1. \A k \in Guid : duels'[k] # NoDuel => DuelEntryOK(k)'
    BY DEF DuelInv, DuelMapsAgree, DuelEntryOK, Key, Fighters
  <1> QED
    BY <1>1 DEF DuelInv, DuelTypeOK, MapsOK, DuelMapsAgree, CountingDown, Fighters

\* startCountdown: both players are free, so neither their keys nor the entry
\* under the lower guid is in use, and creating all three keeps the maps agreed.
LEMMA StartKeepsMaps ==
    ASSUME DuelInv, NEW t \in Guid, AcceptDuel(t)
    PROVE  /\ MapsOK'
           /\ duels[Lower(invite[t], t)] = NoDuel
  <1> DEFINE c == invite[t]
             key == Lower(c, t)
             new == [player1 |-> c, player2 |-> t, state |-> "Countdown",
                     countdown |-> DUEL_COUNTDOWN_S]
  <1>1. c \in Guid /\ {c, t} \subseteq online
    BY DEF AcceptDuel, TakeInvite, MayStart, DuelInv, DuelTypeOK
  <1>2. keyOf[c] = Nobody /\ keyOf[t] = Nobody
    BY <1>1, FoundDuel DEF AcceptDuel, MayStart
  <1>3. key \in {c, t} /\ key \in Guid
    BY <1>1, LowerIsOne
  <1>4. duels[key] = NoDuel
    BY <1>1, <1>2, <1>3, StoredDuel
  <1>5. c # t
    BY DEF DuelInv, OffersAreToOthers
  <1>6. /\ duels' = [duels EXCEPT ![key] = new]
        /\ keyOf' = [keyOf EXCEPT ![c] = key, ![t] = key]
        /\ online' = online
    BY DEF AcceptDuel
  <1>7. new \in DuelRecord /\ new # NoDuel /\ Fighters(new) = {c, t} /\ Key(new) = key
    BY <1>1 DEF DuelRecord, NoDuel, Fighters, Key
  <1> HIDE DEF c, key
  <1>8. /\ duels' \in [Guid -> DuelRecord]
        /\ keyOf' \in [Guid -> Guid \cup {Nobody}]
    BY <1>3, <1>6, <1>7 DEF DuelInv, DuelTypeOK
  <1>9. /\ \A g \in Guid : duels'[g] = IF g = key THEN new ELSE duels[g]
        /\ \A g \in Guid : keyOf'[g] = IF g \in {c, t} THEN key ELSE keyOf[g]
    BY <1>1, <1>3, <1>6 DEF DuelInv, DuelTypeOK
  <1>10. ASSUME NEW k \in Guid, duels'[k] # NoDuel
         PROVE  DuelEntryOK(k)'
    <2>1. CASE k = key
      <3>1. duels'[k] = new
        BY <2>1, <1>9
      <3>2. /\ new.player1 = c /\ new.player2 = t /\ new.state = "Countdown"
            /\ Lower(c, t) = key /\ keyOf'[c] = key /\ keyOf'[t] = key
        BY <1>1, <1>7, <1>9 DEF Key
      <3> QED
        BY <2>1, <3>1, <3>2, <1>1, <1>5, <1>6 DEF DuelEntryOK, Fighters, Key, Lower
    <2>2. CASE k # key
      <3>1. duels'[k] = duels[k] /\ duels[k] # NoDuel
        BY <2>2, <1>9, <1>10
      <3>2. /\ duels[k].player1 \in Guid /\ duels[k].player2 \in Guid
            /\ keyOf[duels[k].player1] = k /\ keyOf[duels[k].player2] = k
            /\ duels[k].player1 \in online /\ duels[k].player2 \in online
            /\ duels[k].player1 # duels[k].player2
            /\ Lower(duels[k].player1, duels[k].player2) = k
            /\ duels[k].state \in {"Countdown", "Active"}
        BY <3>1, StoredDuel DEF Fighters, Key
      <3>3. keyOf'[duels[k].player1] = k /\ keyOf'[duels[k].player2] = k
        BY <3>2, <1>2, <1>9
      <3> QED
        BY <3>1, <3>2, <3>3, <1>6 DEF DuelEntryOK, Fighters, Key, Lower
    <2> QED
      BY <2>1, <2>2
  <1>11. ASSUME NEW p \in Guid, keyOf'[p] # Nobody
         PROVE  duels'[keyOf'[p]] # NoDuel /\ p \in Fighters(duels'[keyOf'[p]])
    <2>1. CASE p \in {c, t}
      BY <2>1, <1>3, <1>7, <1>9
    <2>2. CASE p \notin {c, t}
      <3>1. keyOf'[p] = keyOf[p] /\ keyOf[p] # Nobody
        BY <2>2, <1>9, <1>11
      <3>2. /\ keyOf[p] \in Guid /\ duels[keyOf[p]] # NoDuel
            /\ p \in Fighters(duels[keyOf[p]])
        BY <3>1, FoundDuel
      <3>3. duels'[keyOf[p]] = duels[keyOf[p]]
        BY <3>2, <1>4, <1>9
      <3> QED
        BY <3>1, <3>2, <3>3
    <2> QED
      BY <2>1, <2>2
  <1>12. CountingDown'
    BY <1>7, <1>9 DEF CountingDown, DuelInv
  <1>13. DuelMapsAgree'
    BY <1>10, <1>11 DEF DuelMapsAgree, Fighters
  <1> QED
    BY <1>4, <1>8, <1>12, <1>13 DEF MapsOK, c, key

\* endDuel forgets the duel p is found in, and heals within bounds.
LEMMA EndKeepsMaps ==
    ASSUME DuelInv, NEW p \in Guid, FindDuel(p) # NoDuel, EndDuel(FindDuel(p)),
           online' = online
    PROVE  /\ MapsOK'
           /\ health' \in [Guid -> 0 .. MaxHealth]
           /\ health'[p] \in {health[p], MaxHealth}
  <1> DEFINE K == {keyOf[p]}
  <1>1. /\ K \in SUBSET Guid
        /\ \A k \in K : duels[k] # NoDuel
        /\ {FindDuel(p)} = {duels[k] : k \in K}
    BY FoundDuel
  <1>2. /\ duels' = [g \in Guid |-> IF g \in K THEN NoDuel ELSE duels[g]]
        /\ keyOf' = [g \in Guid |-> IF keyOf[g] \in K THEN Nobody ELSE keyOf[g]]
    BY <1>1, ForgottenByKey DEF EndDuel, CancelDuels
  <1>3. \A k \in Guid \ K : duels[k] # NoDuel => Fighters(duels[k]) \subseteq online'
    BY StoredDuel
  <1>4. health' \in [Guid -> 0 .. MaxHealth] /\ health'[p] \in {health[p], MaxHealth}
    BY DEF EndDuel, DuelInv, DuelTypeOK
  <1> HIDE DEF K
  <1> QED
    BY <1>1, <1>2, <1>3, <1>4, ForgettingKeepsMaps

\* Every duel an update cancels is stored, and stays consistent if it is not
\* cancelled; a countdown that moves keeps its pair.
LEMMA UpdateKeepsMaps ==
    ASSUME DuelInv, NEW strayed \in SUBSET Guid, NEW second \in BOOLEAN,
           Update(strayed, second)
    PROVE  /\ MapsOK'
           /\ \A k \in Guid :
                \/ duels'[k] = duels[k]
                \/ duels[k] # NoDuel /\ duels'[k] = NoDuel
                \/ duels[k].state = "Countdown" /\ duels'[k] = Counted(duels[k])
  <1> DEFINE stopped == {k \in Guid : /\ duels[k].state = "Active"
                                      /\ k \in strayed \/ ~ BothOnline(duels[k])}
             counting == {k \in Guid : second /\ duels[k].state = "Countdown"}
             lost == {k \in counting : ~ BothOnline(duels[k])}
             K == stopped \cup lost
             D == {duels[k] : k \in K}
  <1>1. K \in SUBSET Guid /\ \A k \in K : duels[k] # NoDuel
    BY NoDuelIsNone
  <1>2. lost = {}
    BY StoredDuel, NoDuelIsNone DEF BothOnline
  <1>3. /\ DuelsWithout(D) = [g \in Guid |-> IF g \in K THEN NoDuel ELSE duels[g]]
        /\ KeysWithout(D) = [g \in Guid |-> IF keyOf[g] \in K THEN Nobody ELSE keyOf[g]]
    BY <1>1, ForgottenByKey
  <1>4. /\ duels' = [k \in Guid |-> IF k \in counting \ lost THEN Counted(duels[k])
                                    ELSE DuelsWithout(D)[k]]
        /\ keyOf' = KeysWithout(D)
        /\ online' = online
    BY DEF Update
  <1>5. counting \cap K = {}
    BY <1>2
  <1> HIDE DEF D, K
  <1>6. \A k \in Guid : duels'[k] = IF k \in counting THEN Counted(duels[k])
                                    ELSE IF k \in K THEN NoDuel ELSE duels[k]
    BY <1>2, <1>3, <1>4
  <1>7. ASSUME NEW k \in Guid, duels[k].state = "Countdown"
        PROVE  LET e == Counted(duels[k])
               IN  /\ e \in DuelRecord /\ e # NoDuel
                   /\ e.player1 = duels[k].player1 /\ e.player2 = duels[k].player2
                   /\ e.state \in {"Countdown", "Active"}
                   /\ e.state = "Countdown" => e.countdown > 0
    <2>1. /\ duels[k] \in DuelRecord /\ duels[k].countdown > 0
      BY <1>7 DEF DuelInv, DuelTypeOK, CountingDown
    <2>2. Counted(duels[k]).countdown \in 0 .. DUEL_COUNTDOWN_S
      BY <2>1, <1>7, CountedDuel DEF DuelRecord
    <2> QED
      BY <2>1, <2>2, <1>7, CountedDuel, NoDuelIsNone
  <1>8. duels' \in [Guid -> DuelRecord] /\ keyOf' \in [Guid -> Guid \cup {Nobody}]
    <2>1. \A k \in Guid : duels'[k] \in DuelRecord
      BY <1>6, <1>7, NoDuelIsNone DEF DuelInv, DuelTypeOK
    <2> QED
      BY <2>1, <1>3, <1>4 DEF DuelInv, DuelTypeOK
  <1>9. ASSUME NEW k \in Guid, duels'[k] # NoDuel
        PROVE  DuelEntryOK(k)'
    <2>1. /\ k \notin K /\ duels[k] # NoDuel
          /\ duels'[k].player1 = duels[k].player1 /\ duels'[k].player2 = duels[k].player2
          /\ duels'[k].state \in {"Countdown", "Active"}
      BY <1>5, <1>6, <1>7, <1>9, NoDuelIsNone, StoredDuel
    <2>2. /\ duels[k].player1 \in Guid /\ duels[k].player2 \in Guid
          /\ keyOf[duels[k].player1] = k /\ keyOf[duels[k].player2] = k
          /\ duels[k].player1 \in online /\ duels[k].player2 \in online
          /\ duels[k].player1 # duels[k].player2
          /\ Lower(duels[k].player1, duels[k].player2) = k
      BY <2>1, StoredDuel DEF Fighters, Key
    <2>3. keyOf'[duels[k].player1] = k /\ keyOf'[duels[k].player2] = k
      BY <2>1, <2>2, <1>3, <1>4
    <2> QED
      BY <2>1, <2>2, <2>3, <1>4 DEF DuelEntryOK, Fighters, Key, Lower
  <1>10. ASSUME NEW p \in Guid, keyOf'[p] # Nobody
         PROVE  duels'[keyOf'[p]] # NoDuel /\ p \in Fighters(duels'[keyOf'[p]])
    <2>1. keyOf'[p] = keyOf[p] /\ keyOf[p] \notin K /\ keyOf[p] # Nobody
      BY <1>3, <1>4, <1>10
    <2> QED
      <3>1. /\ keyOf[p] \in Guid /\ duels[keyOf[p]] # NoDuel
            /\ p \in Fighters(duels[keyOf[p]])
        BY <2>1, FoundDuel
      <3>2. /\ duels'[keyOf[p]].player1 = duels[keyOf[p]].player1
            /\ duels'[keyOf[p]].player2 = duels[keyOf[p]].player2
            /\ duels'[keyOf[p]] # NoDuel
        BY <2>1, <3>1, <1>6, <1>7
      <3> QED
        BY <2>1, <3>1, <3>2 DEF Fighters
  <1>11. CountingDown'
    BY <1>6, <1>7, NoDuelIsNone DEF CountingDown, DuelInv
  <1>12. DuelMapsAgree'
    BY <1>9, <1>10 DEF DuelMapsAgree, Fighters
  <1>13. \A k \in Guid : \/ duels'[k] = duels[k]
                         \/ duels[k] # NoDuel /\ duels'[k] = NoDuel
                         \/ duels[k].state = "Countdown" /\ duels'[k] = Counted(duels[k])
    BY <1>1, <1>6
  <1> QED
    BY <1>8, <1>11, <1>12, <1>13 DEF MapsOK

\* clearPlayer forgets the leaver's duel first, so that every duel that stays
\* is between players who do.
LEMMA DisconnectKeepsMaps ==
    ASSUME DuelInv, NEW p \in Guid, Disconnect(p)
    PROVE  MapsOK'
  <1> DEFINE K == {k \in Guid : k = keyOf[p]}
  <1>1. K \in SUBSET Guid /\ \A k \in K : duels[k] # NoDuel
    BY FoundDuel
  <1>2. /\ duels' = [g \in Guid |-> IF g \in K THEN NoDuel ELSE duels[g]]
        /\ keyOf' = [g \in Guid |-> IF keyOf[g] \in K THEN Nobody ELSE keyOf[g]]
    <2>1. CASE keyOf[p] = Nobody
      <3>1. K = {} /\ UNCHANGED <<duels, keyOf>>
        BY <2>1, FoundDuel DEF Disconnect
      <3> QED
        BY <3>1 DEF DuelInv, DuelTypeOK
    <2>2. CASE keyOf[p] # Nobody
      <3>1. {FindDuel(p)} = {duels[k] : k \in K} /\ CancelDuels({FindDuel(p)})
        BY <2>2, FoundDuel DEF Disconnect
      <3> QED
        BY <3>1, <1>1, ForgottenByKey DEF CancelDuels
    <2> QED
      BY <2>1, <2>2
  <1>3. ASSUME NEW k \in Guid \ K, duels[k] # NoDuel
        PROVE  Fighters(duels[k]) \subseteq online'
    <2>1. p \notin Fighters(duels[k])
      BY <1>3, StoredDuel
    <2> QED
      BY <2>1, <1>3, StoredDuel DEF Disconnect
  <1> HIDE DEF K
  <1> QED
    BY <1>1, <1>2, <1>3, ForgettingKeepsMaps DEF MapsOK

-----------------------------------------------------------------------------

LEMMA DuelInitInv == DuelInit => DuelInv
  BY DEF DuelInit, DuelInv, DuelTypeOK, DuelMapsAgree, CountingDown, OffersHaveATarget,
         OffersAreToOthers, DuelRecord, NoDuel

LEMMA DuelNextInv == DuelInv /\ [DuelNext]_duelVars => DuelInv'
  <1> SUFFICES ASSUME DuelInv, [DuelNext]_duelVars  PROVE DuelInv'
    OBVIOUS
  <1> DEFINE RestOK == /\ online \subseteq Guid /\ stale \subseteq Guid /\ dead \subseteq Guid
                       /\ invite \in [Guid -> Guid \cup {Nobody}]
                       /\ health \in [Guid -> 0 .. MaxHealth]
                       /\ OffersHaveATarget /\ OffersAreToOthers
  <1>0. RestOK /\ (MapsOK' /\ RestOK' => DuelInv')
    BY DEF DuelInv, DuelTypeOK, MapsOK
  <1> USE DEF MapsOK, OffersHaveATarget, OffersAreToOthers
  <1>1. ASSUME NEW c \in Guid, NEW t \in Guid, RequestDuel(c, t)
        PROVE  MapsOK' /\ RestOK'
    BY <1>0, <1>1, SameMaps DEF RequestDuel
  <1>2. ASSUME NEW t \in Guid, DeclineDuel(t) \/ AcceptTooLate(t)
        PROVE  MapsOK' /\ RestOK'
    <2>1. /\ invite' = [invite EXCEPT ![t] = Nobody] /\ stale' = stale \ {t}
          /\ UNCHANGED <<online, duels, keyOf, health, dead>>
      BY <1>2 DEF DeclineDuel, AcceptTooLate, TakeInvite
    <2> QED
      BY <1>0, <2>1, SameMaps
  <1>3. ASSUME NEW t \in Guid, AcceptDuel(t)
        PROVE  MapsOK' /\ RestOK'
    BY <1>0, <1>3, StartKeepsMaps DEF AcceptDuel, TakeInvite
  <1>4. ASSUME NEW t \in Guid, InviteAges(t)
        PROVE  MapsOK' /\ RestOK'
    BY <1>0, <1>4, SameMaps DEF InviteAges
  <1>5. ASSUME NEW p \in Guid, YieldDuel(p)
        PROVE  MapsOK' /\ RestOK'
    <2>1. FindDuel(p) # NoDuel
      BY <1>5, NoDuelIsNone DEF YieldDuel
    <2> QED
      BY <1>0, <1>5, <2>1, EndKeepsMaps DEF YieldDuel
  <1>6. ASSUME NEW p \in Guid, Respawn(p)
        PROVE  MapsOK' /\ RestOK'
    <2>1. Floor(MaxHealth \div 2, 1) \in 0 .. MaxHealth
      BY DEF Floor
    <2> QED
      BY <1>0, <1>6, <2>1, SameMaps DEF Respawn
  <1>7. ASSUME NEW p \in Guid, Login(p)
        PROVE  MapsOK' /\ RestOK'
    BY <1>0, <1>7, SameMaps DEF Login
  <1>8. ASSUME NEW p \in Guid, Disconnect(p)
        PROVE  MapsOK' /\ RestOK'
    <2>1. MapsOK'
      BY <1>8, DisconnectKeepsMaps
    <2>2. RestOK'
      BY <1>0, <1>8 DEF Disconnect, ForgetInvite
    <2> QED
      BY <2>1, <2>2
  <1>9. ASSUME NEW p \in Guid, NEW a \in Guid, NEW n \in 1 .. MaxHealth, OpponentHits(p, a, n)
        PROVE  MapsOK' /\ RestOK'
    <2> DEFINE left == HealthAfterDuelHit(p, n)
    <2>1. FindDuel(p) # NoDuel /\ left \in DUEL_MIN_HEALTH .. MaxHealth
      BY <1>0, <1>9, NoDuelIsNone DEF OpponentHits, AreDueling, HealthAfterDuelHit, Floor
    <2> HIDE DEF left
    <2>2. CASE left <= DUEL_MIN_HEALTH
      BY <1>0, <1>9, <2>1, <2>2, EndKeepsMaps DEF OpponentHits, left
    <2>3. CASE ~ (left <= DUEL_MIN_HEALTH)
      <3>1. /\ health' = [health EXCEPT ![p] = left] /\ left \in 0 .. MaxHealth
            /\ UNCHANGED <<online, invite, stale, duels, keyOf, dead>>
        BY <1>9, <2>1, <2>3 DEF OpponentHits, left
      <3> QED
        BY <1>0, <3>1, SameMaps
    <2> QED
      BY <2>2, <2>3
  <1>10. ASSUME NEW p \in Guid, NEW n \in 1 .. MaxHealth, OtherHits(p, n)
         PROVE  MapsOK' /\ RestOK'
    <2>1. Floor(health[p] - n, 0) \in 0 .. MaxHealth
      BY <1>0 DEF Floor
    <2> QED
      BY <1>0, <1>10, <2>1, SameMaps DEF OtherHits
  <1>11. ASSUME NEW p \in Guid, NEW n \in 1 .. MaxHealth, Heal(p, n)
         PROVE  MapsOK' /\ RestOK'
    <2>1. health[p] + n \in 0 .. MaxHealth
      BY <1>0, <1>11 DEF Heal
    <2> QED
      BY <1>0, <1>11, <2>1, SameMaps DEF Heal
  <1>12. ASSUME NEW strayed \in SUBSET Guid, NEW second \in BOOLEAN, Update(strayed, second)
         PROVE  MapsOK' /\ RestOK'
    <2>1. MapsOK'
      BY <1>12, UpdateKeepsMaps
    <2>2. RestOK'
      BY <1>0, <1>12 DEF Update, Expired
    <2> QED
      BY <2>1, <2>2
  <1>13. CASE UNCHANGED duelVars
    BY <1>0, <1>13, SameMaps DEF duelVars
  <1> QED
    BY <1>0, <1>1, <1>2, <1>3, <1>4, <1>5, <1>6, <1>7, <1>8, <1>9, <1>10, <1>11,
       <1>12, <1>13 DEF DuelNext

\* The invariant holds in every reachable state.
THEOREM DuelInvariance == DuelSpec => []DuelInv
  BY DuelInitInv, DuelNextInv, PTL DEF DuelSpec

\* Every variable keeps its type.
THEOREM DuelTypeCorrect == DuelSpec => []DuelTypeOK
  BY DuelInvariance, PTL DEF DuelInv

\* The three maps of DuelManager always agree: nobody is in two duels, no key
\* dangles, and both fighters of every stored duel are online, so the erasure
\* during iteration in update is never reached.
THEOREM MapsAlwaysAgree == DuelSpec => []DuelMapsAgree
  BY DuelInvariance, PTL DEF DuelInv

\* An offer never outlives the visit of the player it was made to.
THEOREM OffersAlwaysHaveATarget == DuelSpec => []OffersHaveATarget
  BY DuelInvariance, PTL DEF DuelInv

\* All three together: the manager is sound in every state, for every set of
\* players and every range of health values and countdowns.
THEOREM ManagerAlwaysSound == DuelSpec => []ManagerIsSound
  BY DuelTypeCorrect, MapsAlwaysAgree, OffersAlwaysHaveATarget, PTL DEF ManagerIsSound

-----------------------------------------------------------------------------
(* What a step may do.                                                     *)

\* The blow of a duel opponent leaves its victim alive, at the threshold or
\* above, in every step of every behaviour.
LEMMA HitSpares ==
    ASSUME DuelInv, NEW p \in Guid, NEW a \in Guid, NEW n \in 1 .. MaxHealth,
           OpponentHits(p, a, n)
    PROVE  p \notin dead' /\ health'[p] >= DUEL_MIN_HEALTH
  <1> DEFINE left == HealthAfterDuelHit(p, n)
  <1>1. left >= DUEL_MIN_HEALTH /\ left \in Int
    BY DEF HealthAfterDuelHit, Floor, DuelInv, DuelTypeOK
  <1>2. p \notin dead /\ p \in online
    BY DEF OpponentHits, IsDead
  <1>3. FindDuel(p) # NoDuel /\ p \in Fighters(FindDuel(p))
    BY NoDuelIsNone DEF OpponentHits, AreDueling, Fighters
  <1> HIDE DEF left
  <1>4. CASE left <= DUEL_MIN_HEALTH
    <2>1. EndDuel(FindDuel(p)) /\ dead' = IF left <= 0 THEN dead \cup {p} ELSE dead
      BY <1>4 DEF OpponentHits, left
    <2>2. health'[p] = MaxHealth
      BY <2>1, <1>2, <1>3 DEF EndDuel
    <2> QED
      BY <2>1, <2>2, <1>1, <1>2
  <1>5. CASE ~ (left <= DUEL_MIN_HEALTH)
    <2>1. health' = [health EXCEPT ![p] = left] /\ dead' = dead
      BY <1>5 DEF OpponentHits, left
    <2> QED
      BY <2>1, <1>1, <1>2 DEF DuelInv, DuelTypeOK
  <1> QED
    BY <1>4, <1>5

THEOREM OpponentNeverKillsAlways == DuelSpec => OpponentNeverKills
  <1>1. DuelInv /\ [DuelNext]_duelVars =>
          [\A p, a \in Guid, n \in 1 .. MaxHealth :
             OpponentHits(p, a, n) => /\ p \notin dead'
                                      /\ health'[p] >= DUEL_MIN_HEALTH]_duelVars
    BY HitSpares
  <1> QED
    BY <1>1, DuelInvariance, PTL DEF DuelSpec, OpponentNeverKills

\* What a step other than an accepted offer may do to the entry of k.
Moves(k) ==
    \/ duels'[k] = duels[k]
    \/ duels[k] # NoDuel /\ duels'[k] = NoDuel
    \/ duels[k].state = "Countdown" /\ duels'[k] = Counted(duels[k])

LEMMA CancelMoves ==
    ASSUME DuelInv, NEW D, CancelDuels(D)
    PROVE  \A k \in Guid : Moves(k)
  BY DEF CancelDuels, DuelsWithout, Moves

LEMMA StepMoves ==
    ASSUME DuelInv, [DuelNext]_duelVars
    PROVE  (\E t \in Guid : AcceptDuel(t)) \/ (\A k \in Guid : Moves(k))
  <1>1. ASSUME UNCHANGED duels  PROVE \A k \in Guid : Moves(k)
    BY <1>1 DEF Moves
  <1>2. ASSUME NEW p \in Guid, YieldDuel(p)  PROVE \A k \in Guid : Moves(k)
    BY <1>2, CancelMoves DEF YieldDuel, EndDuel
  <1>3. ASSUME NEW p \in Guid, Disconnect(p)  PROVE \A k \in Guid : Moves(k)
    BY <1>1, <1>3, CancelMoves DEF Disconnect
  <1>4. ASSUME NEW p \in Guid, NEW a \in Guid, NEW n \in 1 .. MaxHealth,
               OpponentHits(p, a, n)
        PROVE  \A k \in Guid : Moves(k)
    BY <1>1, <1>4, CancelMoves DEF OpponentHits, EndDuel
  <1>5. ASSUME NEW strayed \in SUBSET Guid, NEW second \in BOOLEAN,
               Update(strayed, second)
        PROVE  \A k \in Guid : Moves(k)
    BY <1>5, UpdateKeepsMaps DEF Moves
  <1> HIDE DEF Moves
  <1> QED
    BY <1>1, <1>2, <1>3, <1>4, <1>5
       DEF DuelNext, duelVars, RequestDuel, DeclineDuel, AcceptTooLate, InviteAges, Respawn,
           Login, OtherHits, Heal

\* Only an accepted offer fills an entry, and only one that was empty.
LEMMA CourseStep ==
    ASSUME DuelInv, [DuelNext]_duelVars, NEW k \in Guid, duels'[k] # duels[k]
    PROVE  \/ duels'[k] = NoDuel
           \/ /\ duels[k] = NoDuel /\ duels'[k].state = "Countdown"
              /\ duels'[k].countdown = DUEL_COUNTDOWN_S
           \/ /\ duels[k].state = "Countdown"
              /\ Fighters(duels'[k]) = Fighters(duels[k])
              /\ duels'[k].countdown = duels[k].countdown - 1
              /\ duels'[k].state = "Active" <=> duels'[k].countdown = 0
  <1>1. CASE \E t \in Guid : AcceptDuel(t)
    <2>1. PICK t \in Guid : AcceptDuel(t)
      BY <1>1
    <2>2. k = Lower(invite[t], t) /\ duels[k] = NoDuel
      BY <2>1, StartKeepsMaps DEF AcceptDuel, DuelInv, DuelTypeOK
    <2>3. duels'[k].state = "Countdown" /\ duels'[k].countdown = DUEL_COUNTDOWN_S
      BY <2>1, <2>2 DEF AcceptDuel, DuelInv, DuelTypeOK
    <2> QED
      BY <2>2, <2>3
  <1>2. CASE Moves(k)
    <2>1. /\ duels[k] \in DuelRecord
          /\ duels[k].state = "Countdown" => duels[k].countdown > 0
      BY DEF DuelInv, DuelTypeOK, CountingDown
    <2>2. CASE duels[k].state = "Countdown" /\ duels'[k] = Counted(duels[k])
      <3> DEFINE d == duels[k]
      <3>1. /\ Counted(d).player1 = d.player1 /\ Counted(d).player2 = d.player2
            /\ Counted(d).countdown = d.countdown - 1
            /\ Counted(d).state = "Active" <=> Counted(d).countdown = 0
        BY <2>1, <2>2, CountedDuel
      <3> QED
        BY <2>2, <3>1 DEF Fighters
    <2> QED
      BY <1>2, <2>2 DEF Moves
  <1> QED
    BY <1>1, <1>2, StepMoves

\* A stored duel is never overwritten, keeps its pair, and reaches the fight
\* only through a full countdown.
THEOREM DuelAlwaysRunsItsCourse == DuelSpec => DuelRunsItsCourse
  <1>1. DuelInv /\ [DuelNext]_duelVars =>
          [\A k \in Guid :
             LET d == duels[k] e == duels'[k]
             IN  e # d =>
                   \/ e = NoDuel
                   \/ d = NoDuel /\ e.state = "Countdown" /\ e.countdown = DUEL_COUNTDOWN_S
                   \/ /\ d.state = "Countdown"
                      /\ Fighters(e) = Fighters(d)
                      /\ e.countdown = d.countdown - 1
                      /\ e.state = "Active" <=> e.countdown = 0]_duelVars
    BY CourseStep
  <1> QED
    BY <1>1, DuelInvariance, PTL DEF DuelSpec, DuelRunsItsCourse

-----------------------------------------------------------------------------
(* The manager implements DuelPairs.                                       *)

\* Two stored duels that share a fighter are the same duel.
LEMMA FightersApart ==
    ASSUME DuelInv, NEW j \in Guid, NEW k \in Guid, duels[j] # NoDuel, duels[k] # NoDuel,
           NEW p \in Fighters(duels[j]), p \in Fighters(duels[k])
    PROVE  j = k
  BY StoredDuel

LEMMA StoredIffState ==
    ASSUME DuelInv, NEW k \in Guid
    PROVE  duels[k] = NoDuel <=> duels[k].state \notin {"Countdown", "Active"}
  BY StoredDuel, NoDuelIsNone

\* Entries that move as Moves allows are, seen as pairs, a Proceed step.
LEMMA MovesProceed ==
    ASSUME DuelInv, \A k \in Guid : Moves(k)
    PROVE  Promise!Next
  <1> DEFINE Stored == {k \in Guid : duels[k] # NoDuel}
             Was(st) == {k \in Guid : duels[k].state = st}
             Is(st) == {k \in Guid : duels'[k].state = st}
             F(k) == Fighters(duels[k])
             B == {k \in Guid : duels[k].state = "Countdown" /\ duels'[k].state = "Active"}
             E == {k \in Guid : duels[k] # NoDuel /\ duels'[k] = NoDuel}
             begun == {F(k) : k \in B}
             ended == {F(k) : k \in E}
             counting == PairsIn("Countdown")
             fighting == PairsIn("Active")
  <1>1. \A j, k \in Stored : F(j) = F(k) => j = k
    BY StoredDuel
  <1>2. ASSUME NEW k \in Guid
        PROVE  /\ duels'[k] # NoDuel => k \in Stored /\ Fighters(duels'[k]) = F(k)
               /\ duels[k].state \in {"Countdown", "Active"} => k \in Stored
               /\ duels'[k].state \in {"Countdown", "Active"} => duels'[k] # NoDuel
               /\ k \in Stored => duels[k].state \in {"Countdown", "Active"}
               /\ k \in Stored /\ k \notin E => duels'[k].state \in {"Countdown", "Active"}
               /\ duels[k].state = "Active" => duels'[k].state # "Countdown"
    <2>1. CASE duels'[k] = duels[k]
      BY <2>1, StoredIffState, NoDuelIsNone
    <2>2. CASE duels[k] # NoDuel /\ duels'[k] = NoDuel
      BY <2>2, StoredIffState, NoDuelIsNone
    <2>3. CASE duels[k].state = "Countdown" /\ duels'[k] = Counted(duels[k])
      <3>1. /\ duels[k] \in DuelRecord /\ duels[k].countdown > 0
        BY <2>3 DEF DuelInv, DuelTypeOK, CountingDown
      <3>2. /\ Counted(duels[k]).player1 = duels[k].player1
            /\ Counted(duels[k]).player2 = duels[k].player2
            /\ Counted(duels[k]).state \in {"Countdown", "Active"}
        BY <2>3, <3>1, CountedDuel
      <3> QED
        BY <2>3, <3>2, NoDuelIsNone, StoredIffState DEF Fighters
    <2> QED
      BY <2>1, <2>2, <2>3 DEF Moves
  <1>3. /\ counting = {F(k) : k \in Was("Countdown")}
        /\ fighting = {F(k) : k \in Was("Active")}
    BY DEF PairsIn
  <1>4. /\ counting' = {F(k) : k \in Is("Countdown")}
        /\ fighting' = {F(k) : k \in Is("Active")}
    <2>1. \A k \in Guid : duels'[k].state \in {"Countdown", "Active"} =>
                            Fighters(duels'[k]) = F(k)
      BY <1>2
    <2>2. /\ counting' = {Fighters(duels'[k]) : k \in Is("Countdown")}
          /\ fighting' = {Fighters(duels'[k]) : k \in Is("Active")}
      BY DEF PairsIn, Fighters
    <2> QED
      BY <2>1, <2>2
  <1>5. /\ Is("Countdown") = Was("Countdown") \ (B \cup E)
        /\ Is("Active") = (Was("Active") \cup B) \ E
        /\ B \subseteq Was("Countdown")
        /\ E \subseteq (Was("Countdown") \cup Was("Active")) \ B
        /\ Was("Countdown") \subseteq Stored /\ Was("Active") \subseteq Stored
    BY <1>2, NoDuelIsNone
  <1> HIDE DEF Was, Is, B, E, counting, fighting, Stored, F
  <1>6. /\ counting' = counting \ (begun \cup ended)
        /\ fighting' = (fighting \cup begun) \ ended
        /\ begun \in SUBSET counting
        /\ ended \in SUBSET ((counting \cup fighting) \ begun)
    BY <1>1, <1>3, <1>4, <1>5
  <1> HIDE DEF begun, ended
  <1>7. Promise!Proceed(begun, ended)
    BY <1>6 DEF Promise!Proceed, counting, fighting
  <1> QED
    BY <1>6, <1>7 DEF Promise!Next, counting, fighting

\* An accepted duel pairs two players that no stored duel involves.
LEMMA StartAccepts ==
    ASSUME DuelInv, NEW t \in Guid, AcceptDuel(t)
    PROVE  Promise!Next
  <1> DEFINE c == invite[t]
             key == Lower(c, t)
             q == {c, t}
  <1>1. c \in Guid /\ c # t /\ key \in Guid /\ duels[key] = NoDuel
    BY LowerIsOne, StartKeepsMaps
       DEF AcceptDuel, TakeInvite, MayStart, DuelInv, DuelTypeOK, OffersAreToOthers
  <1>2. keyOf[c] = Nobody /\ keyOf[t] = Nobody
    BY <1>1, FoundDuel DEF AcceptDuel, MayStart
  <1>3. \A k \in Guid : duels[k].state \in {"Countdown", "Active"} =>
                          q \cap Fighters(duels[k]) = {}
    BY <1>2, StoredDuel, NoDuelIsNone
  <1>4. q \in Promise!Pair
    BY <1>1 DEF Promise!Pair
  <1>5. q \cap Promise!Engaged = {}
    BY <1>3 DEF Promise!Engaged, PairsIn
  <1>6. \A k \in Guid : IF k = key
                        THEN duels'[k].state = "Countdown" /\ Fighters(duels'[k]) = q
                        ELSE duels'[k] = duels[k]
    BY <1>1 DEF AcceptDuel, DuelInv, DuelTypeOK, Fighters
  <1>7. duels[key].state = "None"
    BY <1>1, NoDuelIsNone
  <1> HIDE DEF q, key
  <1>8. {Fighters(duels'[k]) : k \in {g \in Guid : duels'[g].state = "Countdown"}}
          = PairsIn("Countdown") \cup {q}
    BY <1>1, <1>6, <1>7 DEF PairsIn
  <1>9. {Fighters(duels'[k]) : k \in {g \in Guid : duels'[g].state = "Active"}}
          = PairsIn("Active")
    BY <1>1, <1>6, <1>7 DEF PairsIn
  <1>10. Promise!Accept(q)
    BY <1>5, <1>8, <1>9 DEF Promise!Accept, PairsIn, Fighters
  <1> QED
    BY <1>4, <1>10 DEF Promise!Next

\* DuelManager implements DuelPairs: through its three maps, only free players
\* are ever paired, whatever the order of offers, answers, departures and ticks.
THEOREM ImplementsPairs == DuelSpec => PairsKept
  <1>1. DuelInit => Promise!Init
    BY DEF DuelInit, Promise!Init, PairsIn, NoDuel
  <1>2. DuelInv /\ [DuelNext]_duelVars =>
          [Promise!Next]_<<PairsIn("Countdown"), PairsIn("Active")>>
    BY StepMoves, MovesProceed, StartAccepts
  <1> QED
    BY <1>1, <1>2, DuelInvariance, PTL DEF DuelSpec, PairsKept, Promise!Spec

\* Disjointness survives both kinds of step of DuelPairs.
LEMMA StepKeepsOneDuelEach ==
    ASSUME Promise!OneDuelEach, [Promise!Next]_<<PairsIn("Countdown"), PairsIn("Active")>>
    PROVE  Promise!OneDuelEach'
  <1> DEFINE counting == PairsIn("Countdown")
             fighting == PairsIn("Active")
  <1>1. ASSUME NEW q \in Promise!Pair, Promise!Accept(q)  PROVE Promise!OneDuelEach'
    <2>1. \A r \in counting \cup fighting : q \cap r = {}
      BY <1>1 DEF Promise!Accept, Promise!Engaged
    <2>2. q # {}
      BY <1>1 DEF Promise!Pair
    <2>3. q \notin counting \cup fighting
      BY <2>1, <2>2
    <2>4. counting' = counting \cup {q} /\ fighting' = fighting
      BY <1>1 DEF Promise!Accept
    <2> HIDE DEF counting, fighting
    <2> QED
      BY <1>1, <2>1, <2>3, <2>4 DEF Promise!OneDuelEach, Promise!Pair, counting, fighting
  <1>2. ASSUME NEW begun \in SUBSET counting,
               NEW ended \in SUBSET ((counting \cup fighting) \ begun),
               Promise!Proceed(begun, ended)
        PROVE  Promise!OneDuelEach'
    BY <1>2 DEF Promise!Proceed, Promise!OneDuelEach, Promise!Pair
  <1>3. CASE UNCHANGED <<counting, fighting>>
    BY <1>3 DEF Promise!OneDuelEach, Promise!Pair
  <1> QED
    BY <1>1, <1>2, <1>3 DEF Promise!Next

\* Nobody is ever in two duels, counted down or fought, nor in one alone.
THEOREM OneDuelEachAlways == DuelSpec => []Promise!OneDuelEach
  <1>1. Promise!Init => Promise!OneDuelEach
    BY DEF Promise!Init, Promise!OneDuelEach
  <1>2. Promise!OneDuelEach /\ [Promise!Next]_<<PairsIn("Countdown"), PairsIn("Active")>>
          => Promise!OneDuelEach'
    BY StepKeepsOneDuelEach
  <1> QED
    BY <1>1, <1>2, ImplementsPairs, PTL DEF PairsKept, Promise!Spec
=============================================================================
