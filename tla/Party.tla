------------------------------- MODULE Party --------------------------------
(***************************************************************************)
(* PartyManager: offers to join, answers, leaving, kicking, promoting, and *)
(* players who disconnect with an offer or a party pending.                *)
(*                                                                         *)
(* The manager keeps the parties by id and, apart from them, the party id  *)
(* of each member; both are only ever changed together.  The offers carry  *)
(* an expiry time that only PartyManager::update reads, and nothing calls  *)
(* update, so an offer stands until it is answered or one of its two       *)
(* players goes.                                                           *)
(***************************************************************************)
EXTENDS SequencesExt

CONSTANTS
    Player,         \* character guids
    Nobody,         \* the guid of nobody
    PartyId,        \* party ids, enough that one is always unused
    NoParty,        \* no party, or no party list
    MAX_PARTY_SIZE

PartyData == [leader : Player, members : Seq(Player)]

ASSUME NobodyAssumption == Nobody \notin Player
ASSUME PartyAssumption ==
    /\ NoParty \notin PartyId \cup PartyData
    /\ MAX_PARTY_SIZE \in Nat
    /\ MAX_PARTY_SIZE >= 2

VARIABLES
    online,         \* players sWorldManager.getPlayer finds
    invite,         \* m_pendingInvites: target -> inviter
    parties,        \* m_parties: id -> leader and members, in joining order
    partyOf,        \* m_playerPartyMap: player -> party id
    shown           \* the last party list each online player was sent

vars == <<online, invite, parties, partyOf, shown>>

TypeOK ==
    /\ online \subseteq Player
    /\ invite \in [Player -> Player \cup {Nobody}]
    /\ parties \in [PartyId -> PartyData \cup {NoParty}]
    /\ partyOf \in [Player -> PartyId \cup {NoParty}]
    /\ shown \in [Player -> PartyData \cup {NoParty}]

Init ==
    /\ online = {}
    /\ invite = [p \in Player |-> Nobody]
    /\ parties = [id \in PartyId |-> NoParty]
    /\ partyOf = [p \in Player |-> NoParty]
    /\ shown = [p \in Player |-> NoParty]

-----------------------------------------------------------------------------

GetParty(p) == IF partyOf[p] = NoParty THEN NoParty ELSE parties[partyOf[p]]

IsLeader(p) == GetParty(p) # NoParty /\ GetParty(p).leader = p

IsFull(party) == Len(party.members) >= MAX_PARTY_SIZE

\* m_nextPartyId never comes back: an id nothing refers to.
Unused(id) == parties[id] = NoParty /\ \A p \in Player : partyOf[p] # id

\* The players of ps who are online are sent the list, the rest miss it.
SendList(lists, ps, list) ==
    [p \in Player |-> IF p \in ps \cap online THEN list ELSE lists[p]]

\* Faulty variant: the new leader is the one who joined last.
FaultyLeaderWithout(party, p, members) ==
    IF party.leader = p THEN Last(members) ELSE party.leader

\* The leader of a party that p has left with the given members behind.
LeaderWithout(party, p, members) ==
    IF party.leader = p THEN Head(members) ELSE party.leader

\* removeFromParty and, when at most one member is left, disbandParty.
\* alsoTold are the players the caller then sends an empty list.
RemoveFromParty(p, alsoTold) ==
    LET id   == partyOf[p]
        left == RemoveFirst(parties[id].members, p)
        gone == {p} \cup ToSet(left)
        rest == [leader  |-> LeaderWithout(parties[id], p, left), members |-> left]
    IN  IF Len(left) <= 1
        THEN /\ parties' = [parties EXCEPT ![id] = NoParty]
             /\ partyOf' = [q \in Player |-> IF q \in gone THEN NoParty ELSE partyOf[q]]
             /\ shown' = SendList(shown, ToSet(left) \cup alsoTold, NoParty)
        ELSE /\ parties' = [parties EXCEPT ![id] = rest]
             /\ partyOf' = [partyOf EXCEPT ![p] = NoParty]
             /\ shown' = SendList(SendList(shown, ToSet(left), rest), alsoTold, NoParty)

\* createParty and addToParty: the party with its new members, told to all.
StoreParty(id, party) ==
    /\ parties' = [parties EXCEPT ![id] = party]
    /\ partyOf' = [p \in Player |-> IF p \in ToSet(party.members) THEN id ELSE partyOf[p]]
    /\ shown' = SendList(shown, ToSet(party.members), party)

-----------------------------------------------------------------------------

EnterWorld(p) ==
    /\ p \notin online
    /\ online' = online \cup {p}
    /\ UNCHANGED <<invite, parties, partyOf, shown>>

InvitePlayer(inviter, target) ==
    /\ {inviter, target} \subseteq online
    /\ target # inviter
    /\ partyOf[target] = NoParty
    /\ GetParty(inviter) # NoParty => IsLeader(inviter) /\ ~IsFull(GetParty(inviter))
    /\ invite[target] = Nobody
    /\ invite' = [invite EXCEPT ![target] = inviter]
    /\ UNCHANGED <<online, parties, partyOf, shown>>

\* The answer uses the offer up, whatever comes of it.
TakeInvite(target) ==
    /\ target \in online
    /\ invite[target] # Nobody
    /\ invite' = [invite EXCEPT ![target] = Nobody]
    /\ UNCHANGED online

\* Faulty variant: does not ask again whether the target is still without a party.
FaultyMayJoin(target) ==
    /\ invite[target] \in online
    /\ GetParty(invite[target]) # NoParty => ~IsFull(GetParty(invite[target]))

\* Faulty variant: joins a party that filled up since the offer.
FaultyFullParty(target) ==
    /\ invite[target] \in online
    /\ partyOf[target] = NoParty

\* The inviter's party may have filled up, and the target may have founded a
\* party of his own with somebody he invited.
MayJoin(target) ==
    /\ invite[target] \in online
    /\ partyOf[target] = NoParty
    /\ GetParty(invite[target]) # NoParty => ~IsFull(GetParty(invite[target]))

DeclineInvite(target) ==
    /\ TakeInvite(target)
    /\ UNCHANGED <<parties, partyOf, shown>>

AcceptTooLate(target) ==
    /\ ~MayJoin(target)
    /\ TakeInvite(target)
    /\ UNCHANGED <<parties, partyOf, shown>>

AddToParty(target) ==
    LET party == GetParty(invite[target])
    IN  /\ TakeInvite(target)
        /\ MayJoin(target)
        /\ party # NoParty
        /\ StoreParty(partyOf[invite[target]],
                      [party EXCEPT !.members = Append(@, target)])

CreateParty(target, id) ==
    /\ TakeInvite(target)
    /\ MayJoin(target)
    /\ GetParty(invite[target]) = NoParty
    /\ Unused(id)
    /\ StoreParty(id, [leader |-> invite[target], members |-> <<invite[target], target>>])

LeaveParty(p) ==
    /\ p \in online
    /\ GetParty(p) # NoParty
    /\ RemoveFromParty(p, {p})
    /\ UNCHANGED <<online, invite>>

\* Faulty variant: kicks without telling the kicked player.
FaultyKickMember(leader, p) ==
    /\ leader \in online
    /\ IsLeader(leader)
    /\ p # leader
    /\ p \in ToSet(GetParty(leader).members)
    /\ RemoveFromParty(p, {})
    /\ UNCHANGED <<online, invite>>

KickMember(leader, p) ==
    /\ leader \in online
    /\ IsLeader(leader)
    /\ p # leader
    /\ p \in ToSet(GetParty(leader).members)
    /\ RemoveFromParty(p, {p})
    /\ UNCHANGED <<online, invite>>

PromoteLeader(leader, p) ==
    LET promoted == [GetParty(leader) EXCEPT !.leader = p]
    IN  /\ leader \in online
        /\ IsLeader(leader)
        /\ p # leader
        /\ p \in ToSet(GetParty(leader).members)
        /\ parties' = [parties EXCEPT ![partyOf[leader]] = promoted]
        /\ shown' = SendList(shown, ToSet(promoted.members), promoted)
        /\ UNCHANGED <<online, invite, partyOf>>

\* The offers to p and the offers p made.
ForgetInvites(p) ==
    [t \in Player |-> IF p \in {t, invite[t]} THEN Nobody ELSE invite[t]]

\* Session::clearPlayer: the party is left while p is still in the world,
\* then p is despawned.  The next visit starts from an empty list.
Disconnect(p) ==
    /\ p \in online
    /\ online' = online \ {p}
    /\ invite' = ForgetInvites(p)
    /\ IF GetParty(p) = NoParty
       THEN UNCHANGED <<parties, partyOf, shown>>
       ELSE RemoveFromParty(p, {p})

Next ==
    \/ \E p \in Player :
         \/ EnterWorld(p)
         \/ DeclineInvite(p)
         \/ AcceptTooLate(p)
         \/ AddToParty(p)
         \/ \E id \in PartyId : CreateParty(p, id)
         \/ LeaveParty(p)
         \/ Disconnect(p)
    \/ \E p, q \in Player :
         \/ InvitePlayer(p, q)
         \/ KickMember(p, q)
         \/ PromoteLeader(p, q)

Spec == Init /\ [][Next]_vars

-----------------------------------------------------------------------------

\* Nobody who is offline holds or is named by an offer: an accepted offer
\* always finds its inviter, which is what respondToInvite tests again.
OffersAreBetweenOnline ==
    \A t \in Player : invite[t] # Nobody =>
        /\ {t, invite[t]} \subseteq online
        /\ invite[t] # t

\* The maps agree in every state: a member's entry leads to a party that
\* lists him, a party lists exactly those whose entry leads to it, once each;
\* a party has a leader among its members and between two and the most
\* members (PartyManager changes either map in five functions); and offers
\* are between players who are there.
MapsAgree ==
    /\ TypeOK
    /\ OffersAreBetweenOnline
    /\ \A p \in Player : partyOf[p] # NoParty => parties[partyOf[p]] # NoParty
    /\ \A id \in PartyId : parties[id] # NoParty =>
         /\ ToSet(parties[id].members) = {p \in Player : partyOf[p] = id}
         /\ IsInjective(parties[id].members)
         /\ Len(parties[id].members) \in 2 .. MAX_PARTY_SIZE
         /\ parties[id].leader \in ToSet(parties[id].members)

\* What a client was last shown is the party its player is in now: no join,
\* leave, kick, promotion, disconnect or disbanding leaves an online member
\* with an old list (broadcastPartyList and sendPartyList after each change).
ListsAreCurrent == \A p \in online : shown[p] = GetParty(p)

\* Through late answers, kicks, promotions and disconnects the manager's two
\* maps agree with each other and with what every client was last shown.
PartiesAreSound == MapsAgree /\ ListsAreCurrent

\* What a party may become while it goes on: a member that stays moves up by
\* those who left ahead of him, and a leader who left is followed by the
\* longest-standing member.
PassesOn(before, after) ==
    LET leavers  == ToSet(before.members) \ ToSet(after.members)
        ahead(i) == {j \in 1 .. i : before.members[j] \in leavers}
    IN  /\ \A i \in DOMAIN before.members :
             before.members[i] \notin leavers =>
               after.members[i - Cardinality(ahead(i))] = before.members[i]
        /\ before.leader \in leavers => after.leader = Head(after.members)
        /\ leavers # {} /\ before.leader \notin leavers => after.leader = before.leader

\* A party that goes on passes to another leader only when its leader
\* promotes a member or goes, and when he goes to the longest-standing
\* member left; the members that stay keep their places.
SuccessionIsOrderly ==
    [][\A id \in PartyId : parties[id] # NoParty /\ parties'[id] # NoParty =>
         PassesOn(parties[id], parties'[id])]_vars

\* The parties of the manager, seen as the sets of PartyGroups.
Groups == {ToSet(parties[id].members) : id \in {i \in PartyId : parties[i] # NoParty}}

Promise == INSTANCE PartyGroups WITH groups <- Groups, MaxPartySize <- MAX_PARTY_SIZE

\* The manager implements PartyGroups: through its maps only loners join or
\* found a party, parties gain and lose one player at a time, and one that is
\* left with a single member is dissolved.
GroupsKept == Promise!Spec

=============================================================================
