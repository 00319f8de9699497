------------------------------ MODULE Creatures ------------------------------
(***************************************************************************)
(* The creatures (NPCs) of one map: their state machine, whom they hold a  *)
(* grudge against, the calls that bring their neighbours into a fight, and *)
(* the timers that bring them back from the dead, alone or in groups.      *)
(*                                                                         *)
(* A threat table is the set of players in it: which of them has most is   *)
(* any choice, and so is who stands near whom.  Every creature is hostile. *)
(***************************************************************************)
EXTENDS Sight

CONSTANTS
    Npc,            \* spawns
    CanCall,        \* spawns with call_for_help set
    Leader,         \* m_spawnToGroupLeader: a spawn without a group leads itself
    Linked,         \* members of groups with linkedRespawn set
    RespawnTicks,   \* respawnSeconds
    BurnTicks       \* how long a periodic damage aura lasts

ASSUME GroupAssumption ==
    /\ CanCall \subseteq Npc
    /\ Leader \in [Npc -> Npc]
    /\ \A n \in Npc : Leader[Leader[n]] = Leader[n]
    /\ Linked \subseteq Npc

ASSUME TicksAssumption == RespawnTicks \in Nat \ {0} /\ BurnTicks \in Nat

VARIABLES
    npc,        \* AI state, target, threat table, m_calledForHelp, auras
    timer       \* m_respawnTimers: ticks until the spawn is (re)spawned, 0 for none

None == "none"

ASSUME NoneAssumption == None \notin Player

Creature == [ai     : {"Idle", "Combat", "Evading", "Dead"},
             target : Player \cup {None},
             threat : SUBSET Player,
             called : BOOLEAN,
             burn   : 0 .. BurnTicks]

\* A creature as it is spawned.
Fresh == [ai |-> "Idle", target |-> None, threat |-> {}, called |-> FALSE, burn |-> 0]

-----------------------------------------------------------------------------
(* One creature.                                                           *)

\* setTarget: having a target is being in combat, having none is idling.
SetTarget(c, p) ==
    IF c.target = p THEN c
    ELSE [c EXCEPT !.target = p, !.ai = IF p = None THEN "Idle" ELSE "Combat"]

\* Faulty variant: a creature that was called will call others in turn.
FaultyAddThreat(c, p) ==
    LET angry == [c EXCEPT !.threat = @ \cup {p}]
    IN  IF c.ai = "Idle" THEN SetTarget([angry EXCEPT !.ai = "Combat"], p) ELSE angry

\* Npc::addThreat.  The dead get angry as well, but stay dead.
AddThreat(c, p) ==
    LET angry == [c EXCEPT !.threat = @ \cup {p}]
    IN  IF c.ai = "Idle"
        THEN [SetTarget([angry EXCEPT !.ai = "Combat"], p) EXCEPT !.called = TRUE]
        ELSE angry

\* Faulty variant: a creature that loses its prey remembers it.
FaultyGiveUp(c) == [c EXCEPT !.ai = "Evading", !.threat = {}]

\* updateCombat, too far from home or with nobody left: it is set to evade, and
\* then losing its target makes it idle.
GiveUp(c) == [SetTarget([c EXCEPT !.ai = "Evading"], None) EXCEPT !.threat = {}]

\* Npc::respawn and NpcSpawner::respawnSpawn: the threat table is left alone.
Respawned(c) == [c EXCEPT !.ai = "Idle", !.target = None, !.called = FALSE, !.burn = 0]

\* Npc::onDeath, but for its loot, its quest credit and its timer.
Died(c) == [c EXCEPT !.ai = "Dead", !.target = None, !.threat = {}, !.burn = 0]

-----------------------------------------------------------------------------
(* Several creatures.                                                      *)

\* callForHelp: the idle creatures near by, of the caller's faction, come too.
CallForHelp(cs, n, p, near) ==
    IF n \notin CanCall THEN cs
    ELSE [m \in Npc |->
            IF m = n THEN [cs[n] EXCEPT !.called = TRUE]
            ELSE IF m \in near /\ cs[m].ai = "Idle" THEN AddThreat(cs[m], p)
            ELSE cs[m]]

\* updateIdle, when a player came too close.
Aggro(cs, n, p, near) ==
    LET angry == [SetTarget(cs[n], p) EXCEPT !.ai = "Combat", !.threat = @ \cup {p}]
    IN  CallForHelp([cs EXCEPT ![n] = angry], n, p, near)

\* updateCombat, against the player on top of what is left of the threat table.
Fight(cs, n, p, threat, near) ==
    LET facing == [cs EXCEPT ![n] = [SetTarget(@, p) EXCEPT !.threat = threat]]
    IN  IF cs[n].called THEN facing ELSE CallForHelp(facing, n, p, near)

\* Faulty variant: the leader of a linked group is left out.
FaultyRaisedWith(n) ==
    {n} \cup {m \in Linked : Leader[m] = Leader[n]}

\* onNpcDeath: the spawns whose timers the death of n sets.
RaisedWith(n) ==
    LET linked == {m \in Linked : Leader[m] = Leader[n]}
    IN  {n} \cup linked \cup (IF linked # {} THEN {Leader[n]} ELSE {})

TimersAfter(dead) ==
    [m \in Npc |-> IF \E n \in dead : m \in RaisedWith(n) THEN RespawnTicks ELSE timer[m]]

\* NpcSpawner::update: a spawn that is due is respawned, alive or dead.
SpawnerUpdate ==
    /\ timer' = [n \in Npc |-> IF timer[n] > 0 THEN timer[n] - 1 ELSE 0]
    /\ npc' = [n \in Npc |-> IF timer[n] = 1 THEN Respawned(npc[n]) ELSE npc[n]]

-----------------------------------------------------------------------------

CreaturesInit ==
    /\ npc = [n \in Npc |-> Fresh]
    /\ timer = [n \in Npc |-> 0]

CreaturesTypeOK ==
    /\ npc \in [Npc -> Creature]
    /\ timer \in [Npc -> 0 .. RespawnTicks]

\* A creature fights exactly when it has a target, the target is one it has
\* reason to fight, and it has called for the help it may call for.
TargetMatchesState ==
    \A n \in Npc :
        /\ npc[n].ai = "Combat" <=> npc[n].target # None
        /\ npc[n].ai = "Combat" => /\ npc[n].target \in npc[n].threat
                                   /\ npc[n].called \/ n \notin CanCall
        /\ npc[n].ai # "Evading"

\* Whoever is dead has a timer that will bring it back.
DeadHaveATimer == \A n \in Npc : npc[n].ai = "Dead" => timer[n] > 0

\* A linked group comes back as one: whenever its members die, and whoever of
\* it died with its timer already running, all of it is due at the same time.
GroupsRiseTogether == \A n \in Linked : timer[n] = timer[Leader[n]]
=============================================================================
