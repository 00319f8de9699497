-------------------------------- MODULE Duel --------------------------------
(***************************************************************************)
(* DuelManager and the part of Entity's combat code it hooks into: offers, *)
(* answers, the countdown, the fight, yielding, leaving the area, and      *)
(* players who disconnect with an offer or a duel pending.                 *)
(*                                                                         *)
(* The manager keeps three maps that must agree: the offers by target, the *)
(* duels by the lower guid of the pair, and each duelist's duel key.       *)
(* Positions are abstracted: an offer may find its target in range or not, *)
(* and each update is given the set of duels whose fighters have strayed.  *)
(***************************************************************************)
EXTENDS Integers, FiniteSets

CONSTANTS
    Guid,               \* character guids
    MaxHealth,          \* every player's maximum health
    DUEL_MIN_HEALTH,    \* a duel ends when health reaches this
    DUEL_COUNTDOWN_S    \* seconds of countdown before the fight

\* 0 is the guid of nobody; a fighter can hold more than the threshold.
ASSUME GuidAssumption == Guid \subseteq Nat \ {0}
ASSUME HealthAssumption ==
    /\ MaxHealth \in Nat
    /\ DUEL_MIN_HEALTH \in Nat \ {0}
    /\ DUEL_MIN_HEALTH <= MaxHealth
ASSUME CountdownAssumption == DUEL_COUNTDOWN_S \in Nat \ {0}

VARIABLES
    online,     \* players sWorldManager.getPlayer finds
    invite,     \* m_pendingInvites: target -> challenger, 0 for none
    stale,      \* targets whose offer is older than DUEL_INVITE_TIMEOUT_S
    duels,      \* m_duels, by the lower guid of the pair
    keyOf,      \* m_playerToDuelKey, 0 for none
    health,     \* Variable::Health; saved and reloaded across logins
    dead        \* players whose Variable::IsDead is set; not saved

duelVars == <<online, invite, stale, duels, keyOf, health, dead>>

Nobody == 0
NoDuel == [player1 |-> Nobody, player2 |-> Nobody, state |-> "None", countdown |-> 0]

DuelRecord == [player1   : Guid \cup {Nobody},
               player2   : Guid \cup {Nobody},
               state     : {"None", "Countdown", "Active"},
               countdown : 0 .. DUEL_COUNTDOWN_S]

DuelTypeOK ==
    /\ online \subseteq Guid
    /\ invite \in [Guid -> Guid \cup {Nobody}]
    /\ stale \subseteq Guid
    /\ duels \in [Guid -> DuelRecord]
    /\ keyOf \in [Guid -> Guid \cup {Nobody}]
    /\ health \in [Guid -> 0 .. MaxHealth]
    /\ dead \subseteq Guid

DuelInit ==
    /\ online = {}
    /\ invite = [g \in Guid |-> Nobody]
    /\ stale = {}
    /\ duels = [g \in Guid |-> NoDuel]
    /\ keyOf = [g \in Guid |-> Nobody]
    /\ health = [g \in Guid |-> MaxHealth]
    /\ dead = {}

-----------------------------------------------------------------------------
(* Look-ups.                                                               *)

Lower(a, b) == IF a <= b THEN a ELSE b

Key(d) == Lower(d.player1, d.player2)

Fighters(d) == {d.player1, d.player2}

\* findDuel: the key may be missing, and so may the duel it names.
FindDuel(p) == IF keyOf[p] = Nobody THEN NoDuel ELSE duels[keyOf[p]]

IsInDuel(p) == FindDuel(p).state \in {"Countdown", "Active"}

AreDueling(a, b) ==
    /\ FindDuel(a).state = "Active"
    /\ \/ FindDuel(a).player1 = a /\ FindDuel(a).player2 = b
       \/ FindDuel(a).player1 = b /\ FindDuel(a).player2 = a

IsDead(p) == p \in dead \/ health[p] <= 0

BothOnline(d) == Fighters(d) \subseteq online

-----------------------------------------------------------------------------
(* The common ends of a duel.                                              *)

\* Faulty variant: only the challenger's key is erased.
FaultyKeysWithout(D) ==
    [g \in Guid |-> IF \E d \in D : g = d.player1 THEN Nobody ELSE keyOf[g]]

KeysWithout(D) ==
    [g \in Guid |-> IF \E d \in D : g \in Fighters(d) THEN Nobody ELSE keyOf[g]]

DuelsWithout(D) ==
    [g \in Guid |-> IF \E d \in D : g = Key(d) THEN NoDuel ELSE duels[g]]

\* cancelDuel, for every duel of D.
CancelDuels(D) ==
    /\ duels' = DuelsWithout(D)
    /\ keyOf' = KeysWithout(D)

\* endDuel: both fighters still online are restored to full health, whatever
\* happened to them.  IsDead is not touched.
EndDuel(d) ==
    /\ health' = [g \in Guid |-> IF g \in Fighters(d) \cap online
                                 THEN MaxHealth ELSE health[g]]
    /\ CancelDuels({d})

-----------------------------------------------------------------------------
(* Offers.                                                                 *)

\* The OfferDuel spell.  Its handler asks only that the target is not dead;
\* the range test is the choice between this step and no step.
RequestDuel(c, t) ==
    /\ {c, t} \subseteq online
    /\ ~ IsDead(t)
    /\ c # t
    /\ ~ IsInDuel(c)
    /\ ~ IsInDuel(t)
    /\ invite' = [invite EXCEPT ![t] = c]
    /\ stale' = stale \ {t}
    /\ UNCHANGED <<online, duels, keyOf, health, dead>>

TakeInvite(t) ==
    /\ t \in online
    /\ invite[t] # Nobody
    /\ invite' = [invite EXCEPT ![t] = Nobody]
    /\ stale' = stale \ {t}

\* Faulty variant: the checks made at the request are trusted at the answer.
FaultyMayStart(c, t) == c \in online

\* The answer re-checks that the challenger is there and both are free.
MayStart(c, t) ==
    /\ c \in online
    /\ ~ IsInDuel(t)
    /\ ~ IsInDuel(c)

DeclineDuel(t) ==
    /\ TakeInvite(t)
    /\ UNCHANGED <<online, duels, keyOf, health, dead>>

\* Accepting an offer that no longer stands only consumes it.
AcceptTooLate(t) ==
    /\ TakeInvite(t)
    /\ ~ MayStart(invite[t], t)
    /\ UNCHANGED <<online, duels, keyOf, health, dead>>

\* startCountdown.
AcceptDuel(t) ==
    LET c == invite[t]
        key == Lower(c, t)
    IN  /\ TakeInvite(t)
        /\ MayStart(c, t)
        /\ duels' = [duels EXCEPT ![key] =
                       [player1 |-> c, player2 |-> t, state |-> "Countdown",
                        countdown |-> DUEL_COUNTDOWN_S]]
        /\ keyOf' = [keyOf EXCEPT ![c] = key, ![t] = key]
        /\ UNCHANGED <<online, health, dead>>

\* The clock passes DUEL_INVITE_TIMEOUT_S for the offer made to t.
InviteAges(t) ==
    /\ invite[t] # Nobody
    /\ stale' = stale \cup {t}
    /\ UNCHANGED <<online, invite, duels, keyOf, health, dead>>

-----------------------------------------------------------------------------
(* The fight.                                                              *)

YieldDuel(p) ==
    /\ p \in online
    /\ FindDuel(p).state = "Active"
    /\ EndDuel(FindDuel(p))
    /\ UNCHANGED <<online, invite, stale, dead>>

Floor(n, least) == IF n < least THEN least ELSE n

\* Faulty variant: the opponent's hit is not held at the threshold.
FaultyHealthAfterDuelHit(p, n) == Floor(health[p] - n, 0)

HealthAfterDuelHit(p, n) == Floor(health[p] - n, DUEL_MIN_HEALTH)

\* takeDamage from the duel opponent, and onDuelDamage: the blow that reaches
\* the threshold ends the duel instead of the victim.
OpponentHits(p, a, n) ==
    /\ {p, a} \subseteq online
    /\ ~ IsDead(p)
    /\ AreDueling(p, a)
    /\ LET left == HealthAfterDuelHit(p, n)
       IN  IF left <= DUEL_MIN_HEALTH
           THEN /\ EndDuel(FindDuel(p))
                /\ dead' = IF left <= 0 THEN dead \cup {p} ELSE dead
           ELSE /\ health' = [health EXCEPT ![p] = left]
                /\ UNCHANGED <<duels, keyOf, dead>>
    /\ UNCHANGED <<online, invite, stale>>

\* takeDamage from anyone else: an NPC, another player, or an aura, whose
\* ticks carry no attacker even when a duel opponent cast it.
OtherHits(p, n) ==
    /\ p \in online
    /\ ~ IsDead(p)
    /\ health' = [health EXCEPT ![p] = Floor(@ - n, 0)]
    /\ dead' = IF health'[p] <= 0 THEN dead \cup {p} ELSE dead
    /\ UNCHANGED <<online, invite, stale, duels, keyOf>>

Heal(p, n) ==
    /\ p \in online
    /\ ~ IsDead(p)
    /\ health[p] + n <= MaxHealth
    /\ health' = [health EXCEPT ![p] = @ + n]
    /\ UNCHANGED <<online, invite, stale, duels, keyOf, dead>>

\* respawn: half health, at least 1.  The teleport that follows may take the
\* player out of the duel area, which an update then notices.
Respawn(p) ==
    /\ p \in online
    /\ IsDead(p)
    /\ dead' = dead \ {p}
    /\ health' = [health EXCEPT ![p] = Floor(MaxHealth \div 2, 1)]
    /\ UNCHANGED <<online, invite, stale, duels, keyOf>>

-----------------------------------------------------------------------------
(* The tick.                                                               *)

\* Faulty variant: the countdown is announced but never moves.
FaultyCounted(d) == d

Counted(d) ==
    [d EXCEPT !.countdown = @ - 1,
              !.state = IF d.countdown - 1 <= 0 THEN "Active" ELSE @]

\* Faulty variant: the sweep skips the offers.
FaultyExpired(second) == {}

\* The sweep of expired offers runs with the countdown, once a second.
Expired(second) == IF second THEN stale ELSE {}

\* update: every call checks the areas of the active duels; once the
\* accumulator holds a second it also moves the countdowns and expires offers.
\* Cancelling a countdown inside that loop would erase from the map being
\* iterated; DuelMapsAgree shows its condition never holds.
Update(strayed, second) ==
    LET stopped  == {k \in Guid : /\ duels[k].state = "Active"
                                  /\ k \in strayed \/ ~ BothOnline(duels[k])}
        counting == {k \in Guid : second /\ duels[k].state = "Countdown"}
        lost     == {k \in counting : ~ BothOnline(duels[k])}
        over     == {duels[k] : k \in stopped \cup lost}
    IN  /\ duels' = [k \in Guid |->
                       IF k \in counting \ lost THEN Counted(duels[k])
                       ELSE DuelsWithout(over)[k]]
        /\ keyOf' = KeysWithout(over)
        /\ invite' = [t \in Guid |-> IF t \in Expired(second) THEN Nobody
                                     ELSE invite[t]]
        /\ stale' = stale \ Expired(second)
        /\ UNCHANGED <<online, health, dead>>

-----------------------------------------------------------------------------
(* Coming and going.                                                       *)

\* A Player is built from its row: the health it was saved with, IsDead clear.
Login(p) ==
    /\ p \notin online
    /\ online' = online \cup {p}
    /\ UNCHANGED <<invite, stale, duels, keyOf, health, dead>>

ForgetInvite(p) ==
    /\ invite' = [invite EXCEPT ![p] = Nobody]
    /\ stale' = stale \ {p}

\* clearPlayer: onPlayerDisconnect drops the offer made TO the player, not
\* those the player made, and cancels the duel; then the Player is deleted.
Disconnect(p) ==
    /\ p \in online
    /\ ForgetInvite(p)
    /\ IF FindDuel(p) # NoDuel THEN CancelDuels({FindDuel(p)})
                               ELSE UNCHANGED <<duels, keyOf>>
    /\ online' = online \ {p}
    /\ dead' = dead \ {p}
    /\ UNCHANGED health

DuelNext ==
    \/ \E c, t \in Guid : RequestDuel(c, t)
    \/ \E t \in Guid : \/ DeclineDuel(t) \/ AcceptTooLate(t) \/ AcceptDuel(t)
                       \/ InviteAges(t)
    \/ \E p \in Guid : YieldDuel(p) \/ Respawn(p) \/ Login(p) \/ Disconnect(p)
    \/ \E p, a \in Guid, n \in 1 .. MaxHealth : OpponentHits(p, a, n)
    \/ \E p \in Guid, n \in 1 .. MaxHealth : OtherHits(p, n) \/ Heal(p, n)
    \/ \E strayed \in SUBSET Guid, second \in BOOLEAN : Update(strayed, second)

DuelSpec == DuelInit /\ [][DuelNext]_duelVars

\* The clock advances and the world loop keeps calling update.
Fairness ==
    /\ WF_duelVars(\E strayed \in SUBSET Guid : Update(strayed, TRUE))
    /\ \A t \in Guid : WF_duelVars(InviteAges(t))

FairDuelSpec == DuelSpec /\ Fairness

-----------------------------------------------------------------------------
(* Properties.                                                             *)

\* A stored duel is between two different online players, is kept under the
\* lower of their guids, and both players' keys lead to it.
DuelEntryOK(k) ==
    LET d == duels[k]
    IN  /\ d.state \in {"Countdown", "Active"}
        /\ d.player1 # d.player2
        /\ Fighters(d) \subseteq online
        /\ Key(d) = k
        /\ \A p \in Fighters(d) : keyOf[p] = k

\* Hence nobody is in two duels, no key dangles, and a countdown never finds
\* a fighter missing (the case in which update would erase while iterating).
DuelMapsAgree ==
    /\ \A k \in Guid : duels[k] # NoDuel => DuelEntryOK(k)
    /\ \A p \in Guid : keyOf[p] # Nobody => /\ duels[keyOf[p]] # NoDuel
                                            /\ p \in Fighters(duels[keyOf[p]])

\* Offers are only held for players who are there to answer them, so a login
\* never finds an offer made to an earlier visit of the same character.  Of the
\* challenger nothing is said: his offers outlive his visit.
OffersHaveATarget ==
    \A t \in Guid : invite[t] # Nobody => t \in online

\* The manager's state is well formed, its maps agree, and every offer is to a
\* player who is online, in whatever order offers, answers, deaths, departures
\* and ticks come.
ManagerIsSound == DuelTypeOK /\ DuelMapsAgree /\ OffersHaveATarget

\* A duel, once stored, is never overwritten by another, keeps its pair, and
\* counts down one second at a time to the fight; it starts with a full count.
DuelRunsItsCourse ==
    [][\A k \in Guid :
         LET d == duels[k] e == duels'[k]
         IN  e # d =>
               \/ e = NoDuel
               \/ d = NoDuel /\ e.state = "Countdown" /\ e.countdown = DUEL_COUNTDOWN_S
               \/ /\ d.state = "Countdown"
                  /\ Fighters(e) = Fighters(d)
                  /\ e.countdown = d.countdown - 1
                  /\ e.state = "Active" <=> e.countdown = 0]_duelVars

\* The purpose of the damage hook: no blow of the duel opponent kills, or
\* leaves a fighter below the threshold.
OpponentNeverKills ==
    [][\A p, a \in Guid, n \in 1 .. MaxHealth :
         OpponentHits(p, a, n) =>
            /\ p \notin dead'
            /\ health'[p] >= DUEL_MIN_HEALTH]_duelVars

\* Every accepted duel begins, or is called off.
CountdownEnds == \A k \in Guid : []<>(duels[k].state # "Countdown")

\* An offer stands for ever only if it is renewed for ever.
OfferGoesUnlessRenewed ==
    \A t \in Guid : \/ []<>(invite[t] = Nobody)
                     \/ []<><<\E c \in Guid : RequestDuel(c, t)>>_duelVars

\* The maps of the manager, seen as the two sets of pairs of DuelPairs.
PairsIn(state) ==
    {Fighters(duels[k]) : k \in {g \in Guid : duels[g].state = state}}

Promise == INSTANCE DuelPairs WITH
    Player <- Guid, counting <- PairsIn("Countdown"), fighting <- PairsIn("Active")

\* The manager implements what DuelPairs promises: whatever the order of
\* offers, answers, departures and ticks, only free players are paired.
PairsKept == Promise!Spec
=============================================================================
