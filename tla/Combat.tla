------------------------------- MODULE Combat -------------------------------
(***************************************************************************)
(* Players and creatures at war: casting, with and without cast time,      *)
(* auras, death and release, and the world's tick, which updates every     *)
(* player, then every creature, then the respawn timers.  Packets are      *)
(* handled between ticks.  Players enter and leave the world and travel    *)
(* between maps, of which one has creatures.                               *)
(*                                                                         *)
(* Health is being alive: whether a blow kills is a free choice.  Distance *)
(* and line of sight are free as well, among those on a map, and so are    *)
(* what a spell does, whom of those on the map it reaches, how many ticks  *)
(* it takes and whether it costs mana.                                     *)
(***************************************************************************)
EXTENDS Creatures

CONSTANTS
    Caster,         \* bound: the players who cast
    Aim,            \* bound: at whom they cast spells that take time
    MaxMana,        \* casts with full mana
    Field           \* the map the creatures are on

VARIABLES
    pl,         \* players: alive, stunned, m_pendingCast, mana
    due         \* whom WorldManager::update has still to update in this tick

vars == <<sightVars, npc, timer, pl, due>>

ASSUME CombatAssumption ==
    /\ Npc \cap Player = {}
    /\ Caster \subseteq Player /\ Aim \subseteq Npc \cup Player
    /\ MaxMana \in Nat /\ Field \in Map

\* m_pendingCast: at whom.
PendingCast == Aim \cup {None}

Character == [alive : BOOLEAN, stunned : BOOLEAN, cast : PendingCast, mana : 0 .. MaxMana]

TypeOK ==
    /\ SightTypeOK
    /\ CreaturesTypeOK
    /\ pl \in [Player -> Character]
    /\ due \subseteq Player \cup Npc \cup {"spawner"}

Init ==
    /\ SightInit
    /\ CreaturesInit
    /\ pl = [p \in Player |-> [alive |-> TRUE, stunned |-> FALSE, cast |-> None,
                               mana |-> MaxMana]]
    /\ due = {}

Here(p) == place[p] = Field

Able(p) == pl[p].alive /\ ~ pl[p].stunned

-----------------------------------------------------------------------------
(* What a spell does.                                                      *)

\* Faulty variant: what was true when the cast began is not looked at again.
FaultyValidCast(p, at, cost) == TRUE

\* validateCast.  A spell without a target counts as one at the caster.
ValidCast(p, at, cost) ==
    /\ Able(p)
    /\ pl[p].mana >= cost
    /\ \/ at \in Npc /\ Here(p) /\ npc[at].ai # "Dead"
       \/ at \in Player /\ place[at] = place[p] /\ place[p] # Nowhere /\ pl[at].alive

Paid(players, p, cost) == [players EXCEPT ![p].mana = @ - cost]

\* takeDamage, of the players it kills: death ends their auras.
Hurt(players, killed) ==
    [q \in Player |-> IF q \in killed
                      THEN [players[q] EXCEPT !.alive = FALSE, !.stunned = FALSE]
                      ELSE players[q]]

Stunned(players, struck) ==
    [q \in Player |-> IF q \in struck THEN [players[q] EXCEPT !.stunned = TRUE]
                      ELSE players[q]]

\* Blows: a creature that p has struck is angry at him even when it is dead.
Strike(p, struck, killed) ==
    /\ npc' = [n \in Npc |->
                 LET c == IF n \in killed THEN Died(npc[n]) ELSE npc[n]
                 IN  IF n \in struck THEN AddThreat(c, p) ELSE c]
    /\ timer' = TimersAfter(killed)

\* Healing draws those who fight one of the healed, or have fought him, to p.
Mend(p, healed) ==
    /\ npc' = [n \in Npc |->
                 IF /\ npc[n].ai = "Combat"
                    /\ \E q \in healed : Here(q) /\ (npc[n].target = q \/ q \in npc[n].threat)
                 THEN AddThreat(npc[n], p) ELSE npc[n]]
    /\ UNCHANGED timer

\* Auras that do periodic damage provoke nobody.
Burn(struck) ==
    /\ npc' = [n \in Npc |-> IF n \in struck THEN [npc[n] EXCEPT !.burn = BurnTicks]
                             ELSE npc[n]]
    /\ UNCHANGED timer

\* getTargets, in two parts: of the creatures only the one aimed at, and of the
\* players any on the map, dead ones too.
Aimed(at) == {at} \cap Npc
Reach(p) == {q \in Player : place[q] = place[p]}

\* The effects on the targets: blows, of which some or all may miss, healing, or
\* an aura.  "players" are as they are once the spell is paid for; with an item
\* nobody is provoked.
Perform(p, at, players, provokes) ==
    \/ \E struck \in SUBSET Aimed(at) :
         \E killed \in SUBSET struck, slain \in SUBSET {q \in Reach(p) : pl[q].alive} :
           /\ Strike(p, IF provokes THEN struck ELSE {}, killed)
           /\ pl' = Hurt(players, slain)
    \/ \E healed \in SUBSET Reach(p) :
         /\ Mend(p, IF provokes THEN healed ELSE {})
         /\ pl' = players
    \/ \E burnt \in SUBSET Aimed(at), stunned \in SUBSET Reach(p) :
         /\ Burn(burnt)
         /\ pl' = Stunned(players, stunned)

-----------------------------------------------------------------------------
(* Packets.                                                                *)

\* handleCastSpell, instant spells.
CastInstant(p, at) ==
    /\ due = {}
    /\ \E cost \in 0 .. 1 :
         /\ ValidCast(p, at, cost)
         /\ Perform(p, at, Paid(pl, p, cost), TRUE)
    /\ UNCHANGED due

\* handleCastSpell and startCast: nothing is paid yet, and an earlier cast is
\* replaced.
BeginCast(p, at) ==
    /\ due = {}
    /\ ValidCast(p, at, 0)
    /\ pl' = [pl EXCEPT ![p].cast = at]
    /\ UNCHANGED <<npc, timer, due>>

\* handleCancelCast.
CancelCast(p) ==
    /\ due = {}
    /\ pl[p].cast # None
    /\ pl' = [pl EXCEPT ![p].cast = None]
    /\ UNCHANGED <<npc, timer, due>>

\* handleUseItem: the mana is looked for and not spent, and nobody is provoked.
UseItem(p, at) ==
    /\ due = {}
    /\ ValidCast(p, at, 0)
    /\ Perform(p, at, pl, FALSE)
    /\ UNCHANGED due

\* Of those who do not cast the mana is not followed.
HalfMana(p) == IF p \in Caster THEN MaxMana \div 2 ELSE pl[p].mana

\* handleRequestRespawn: half the mana, and the cast is not forgotten.
Release(p) ==
    /\ due = {}
    /\ place[p] # Nowhere /\ ~ pl[p].alive
    /\ pl' = [pl EXCEPT ![p].alive = TRUE, ![p].mana = HalfMana(p)]
    /\ UNCHANGED <<sightVars, npc, timer, due>>

\* handleEnterWorld.
Enter(p, m) ==
    /\ due = {}
    /\ SpawnPlayer(p, m)
    /\ UNCHANGED <<npc, timer, pl, due>>

\* handleActivateWaypoint: nothing ever says that a player is in combat.
Travel(p, m) ==
    /\ due = {}
    /\ ChangePlayerMap(p, m)
    /\ UNCHANGED <<npc, timer, pl, due>>

\* handleRequestStop: the last stretch that the client has walked ahead.
Stop(p) ==
    /\ due = {}
    /\ UpdateVisibility(p)
    /\ UNCHANGED <<npc, timer, pl, due>>

\* Leaving the world: casts and auras are not saved.
Leave(p) ==
    /\ due = {}
    /\ DespawnPlayer(p)
    /\ pl' = [pl EXCEPT ![p].stunned = FALSE, ![p].cast = None]
    /\ UNCHANGED <<npc, timer, due>>

-----------------------------------------------------------------------------
(* The tick.                                                               *)

BeginTick ==
    /\ due = {}
    /\ due' = {p \in Player : place[p] # Nowhere} \cup Npc \cup {"spawner"}
    /\ UNCHANGED <<sightVars, npc, timer, pl>>

\* completeCast and executePendingCast: the cast is over whatever comes of it,
\* and is validated anew.
CompleteCast(p) ==
    LET over == [pl EXCEPT ![p].cast = None]
    IN  \/ \E cost \in 0 .. 1 :
             /\ ValidCast(p, pl[p].cast, cost)
             /\ Perform(p, pl[p].cast, Paid(over, p, cost), TRUE)
        \/ /\ pl' = over
           /\ UNCHANGED <<npc, timer>>

\* Player::update: whoever can walk may walk, and the cast goes on or has taken
\* its time, but the player's auras do not go on.
UpdatePlayer(p) ==
    /\ p \in due
    /\ due' = due \ {p}
    /\ \/ Able(p) /\ UpdateVisibility(p)
       \/ UNCHANGED sightVars
    /\ \/ pl[p].cast # None /\ CompleteCast(p)
       \/ UNCHANGED <<npc, timer, pl>>

\* What the melee and the spells of a creature do to players on the map: stun
\* some, dead ones too, and kill some.
Harm ==
    \E stunned \in SUBSET {q \in Player : Here(q)},
       killed \in SUBSET {q \in Player : Here(q) /\ pl[q].alive} :
        pl' = Hurt(Stunned(pl, stunned), killed)

\* getHighestThreat may be any living player of the table who is in the world;
\* one who is elsewhere may be in the world or not.
Alive(threat) == {p \in threat : pl[p].alive}
Present(threat) == {p \in Alive(threat) : Here(p)}

\* updateCombat: if the highest is not on the map he is struck from the table
\* and the next one has to be.
Act(n, cs) ==
    \/ /\ npc' = [cs EXCEPT ![n] = GiveUp(@)]
       /\ UNCHANGED pl
    \/ \E p \in Present(cs[n].threat), near \in SUBSET (Npc \ {n}),
          gone \in {{}} \cup {{q} : q \in Alive(cs[n].threat) \ Present(cs[n].threat)} :
         /\ npc' = Fight(cs, n, p, cs[n].threat \ gone, near)
         /\ Harm

\* AuraManager::update, on a creature that survives it.
Burnt(n) == [npc EXCEPT ![n].burn = IF @ > 0 THEN @ - 1 ELSE 0]

\* Npc::update: periodic damage, which may kill and then has no killer; the
\* state machine of whoever is still alive.  Death empties the list of auras that
\* AuraManager::update is still going through, which C++ leaves undefined: unless
\* the process ends there, what is left of the list is auras of a dead creature,
\* whom neither their damage nor their healing touches.
UpdateNpc(n) ==
    /\ n \in due
    /\ due \cap Player = {}
    /\ due' = due \ {n}
    /\ UNCHANGED sightVars
    /\ \/ /\ npc[n].ai = "Dead"
          /\ UNCHANGED <<npc, timer, pl>>
       \/ /\ npc[n].ai # "Dead" /\ npc[n].burn > 0
          /\ npc' = [npc EXCEPT ![n] = Died(@)]
          /\ timer' = TimersAfter({n})
          /\ UNCHANGED pl
       \/ /\ npc[n].ai = "Idle"
          /\ UNCHANGED <<timer, pl>>
          /\ \/ npc' = Burnt(n)
             \/ \E p \in Player, near \in SUBSET (Npc \ {n}) :
                  /\ Here(p) /\ pl[p].alive
                  /\ npc' = Aggro(Burnt(n), n, p, near)
       \/ /\ npc[n].ai = "Combat"
          /\ Act(n, Burnt(n))
          /\ UNCHANGED timer

UpdateSpawner ==
    /\ due = {"spawner"}
    /\ due' = {}
    /\ SpawnerUpdate
    /\ UNCHANGED <<sightVars, pl>>

Tick ==
    \/ BeginTick
    \/ \E p \in Player : UpdatePlayer(p)
    \/ \E n \in Npc : UpdateNpc(n)
    \/ UpdateSpawner

Cast(p) ==
    /\ UNCHANGED sightVars
    /\ \/ \E at \in Npc \cup Player : CastInstant(p, at) \/ UseItem(p, at)
       \/ \E at \in Aim : BeginCast(p, at)
       \/ CancelCast(p)

ComeAndGo(p) ==
    \/ \E m \in Map : Enter(p, m) \/ Travel(p, m)
    \/ Leave(p) \/ Stop(p) \/ Release(p)

Next ==
    \/ Tick
    \/ \E p \in Caster : Cast(p)
    \/ \E p \in Player : ComeAndGo(p)

Spec == Init /\ [][Next]_vars

\* The main loop ticks on.
FairSpec == Spec /\ WF_vars(Tick)

-----------------------------------------------------------------------------

\* Types, creatures whose state, target and threat belong together, and for
\* each dead one a timer, in whatever order casts, ticks, deaths and departures
\* come.  No mana is spent that is not there: two casts overlap.
Sound == TypeOK /\ TargetMatchesState /\ DeadHaveATimer

\* "Mark as already having called for help to prevent cascade" (Npc::addThreat):
\* a creature that is already in a fight brings nobody else into it.
NoCascade ==
    [][\A n, m \in Npc :
         (npc[m].ai = "Idle" /\ npc'[m].ai = "Combat" /\ m # n /\ npc[n].ai = "Combat")
           => ~ UpdateNpc(n)]_vars

\* A player who is dead, stunned or elsewhere does nothing to a creature, not even
\* by a cast he began before, be it at a creature or at another player.
HelplessDoNothing ==
    [][npc' # npc => \A p \in Player : UpdatePlayer(p) => Able(p) /\ Here(p)]_vars

\* "Update all auras (call each tick)" (AuraManager::update): a stun does not
\* last for ever once no creature is fighting.
StunsEnd ==
    \A p \in Player : []<>(~ pl[p].stunned \/ \E n \in Npc : npc[n].ai = "Combat")
=============================================================================
