------------------------------- MODULE Guild --------------------------------
(***************************************************************************)
(* GuildManager: guilds kept in memory and, row by row, in the database;   *)
(* offers, answers, leaving, kicking, ranks, disbanding, members who log   *)
(* in and out or delete their character, and a server that is stopped and  *)
(* started, also between two statements of one handler.                    *)
(*                                                                         *)
(* Every handler issues its statements one by one, each committed when it  *)
(* returns.  Names, messages of the day and levels are left out: nothing   *)
(* here depends on them.                                                   *)
(***************************************************************************)
EXTENDS Integers, Sequences, FiniteSets

CONSTANTS
    Character,          \* character guids
    GuildId,            \* guild ids, enough that one is always unused
    NoGuild,            \* no guild
    MAX_GUILD_MEMBERS

ASSUME SizeAssumption == MAX_GUILD_MEMBERS \in Nat \ {0}

VARIABLES
    online,     \* characters in the world
    deleted,    \* characters.is_deleted
    guilds,     \* m_guilds by id
    guildOf,    \* m_playerToGuild
    invite,     \* m_pendingInvites: target -> guild id
    flagged,    \* members whose GuildMember::online is set
    db          \* the guilds and guild_members tables, by guild id

vars == <<online, deleted, guilds, guildOf, invite, flagged, db>>

\* Rank, below it one that stands for no entry in the guild.
NotIn   == -1
Member  == 0
Officer == 1
Leader  == 2

GuildData == [leader : Character, rank : [Character -> NotIn .. Leader]]

ASSUME GuildAssumption == NoGuild \notin GuildId \cup GuildData

TypeOK ==
    /\ online \subseteq Character
    /\ deleted \subseteq Character
    /\ guilds \in [GuildId -> GuildData \cup {NoGuild}]
    /\ guildOf \in [Character -> GuildId \cup {NoGuild}]
    /\ invite \in [Character -> GuildId \cup {NoGuild}]
    /\ flagged \subseteq Character
    /\ db \in [GuildId -> GuildData \cup {NoGuild}]

Init ==
    /\ online = {}
    /\ deleted = {}
    /\ guilds = [id \in GuildId |-> NoGuild]
    /\ guildOf = [c \in Character |-> NoGuild]
    /\ invite = [c \in Character |-> NoGuild]
    /\ flagged = {}
    /\ db = [id \in GuildId |-> NoGuild]

-----------------------------------------------------------------------------

MembersOf(guild) == {c \in Character : guild.rank[c] # NotIn}

Founded(c) == [leader |-> c, rank |-> [d \in Character |-> NotIn]]

WithRank(guild, c, r) == [guild EXCEPT !.rank[c] = r]

WithLeader(guild, c) == [guild EXCEPT !.leader = c]

GuildByPlayer(c) == IF guildOf[c] = NoGuild THEN NoGuild ELSE guilds[guildOf[c]]

\* The acting player is in the world and in a guild.
InGuild(c) == c \in online /\ GuildByPlayer(c) # NoGuild

IsLeader(c) == InGuild(c) /\ GuildByPlayer(c).leader = c

\* canInvite and canKick.
IsOfficer(c) == InGuild(c) /\ GuildByPlayer(c).rank[c] >= Officer

\* AUTOINCREMENT never gives an id out again: an id nothing refers to.
Unused(id) ==
    /\ db[id] = NoGuild
    /\ guilds[id] = NoGuild
    /\ \A c \in Character : id \notin {guildOf[c], invite[c]}

\* loadGuildsFromDatabase: each member row names its guild.
GuildInDatabase(tables, c) ==
    LET ids == {id \in GuildId : tables[id] # NoGuild /\ tables[id].rank[c] # NotIn}
    IN  IF ids = {} THEN NoGuild ELSE CHOOSE id \in ids : TRUE

\* The process ends and starts again from the tables; no one is in the world.
StartFrom(tables) ==
    /\ online' = {}
    /\ guilds' = tables
    /\ guildOf' = [c \in Character |-> GuildInDatabase(tables, c)]
    /\ invite' = [c \in Character |-> NoGuild]
    /\ flagged' = {}
    /\ db' = tables
    /\ UNCHANGED deleted

\* A handler writes rows[1], rows[2], ... to guild id, one statement each,
\* and leaves guild in memory; or the process ends after one of them.
Written(id, rows, guild) ==
    /\ db' = [db EXCEPT ![id] = rows[Len(rows)]]
    /\ guilds' = [guilds EXCEPT ![id] = guild]

Interrupted(id, rows) ==
    \E n \in 1 .. Len(rows) : StartFrom([db EXCEPT ![id] = rows[n]])

-----------------------------------------------------------------------------

CreateGuild(c, id) ==
    LET rows  == <<Founded(c), WithRank(Founded(c), c, Leader)>>
    IN  /\ c \in online
        /\ guildOf[c] = NoGuild
        /\ Unused(id)
        /\ \/ /\ Written(id, rows, WithRank(Founded(c), c, Leader))
              /\ guildOf' = [guildOf EXCEPT ![c] = id]
              /\ flagged' = flagged \cup {c}
              /\ UNCHANGED <<online, deleted, invite>>
           \/ Interrupted(id, rows)

\* Faulty variant: the player map keeps the members of the guild.
FaultyDisband(c) ==
    /\ IsLeader(c)
    /\ \/ /\ Written(guildOf[c], <<NoGuild>>, NoGuild)
          /\ flagged' = flagged \ MembersOf(GuildByPlayer(c))
          /\ UNCHANGED <<online, deleted, invite, guildOf>>
       \/ Interrupted(guildOf[c], <<NoGuild>>)

\* Offers to join the guild stay; the rows of the members go by cascade.
DisbandGuild(c) ==
    /\ IsLeader(c)
    /\ \/ /\ Written(guildOf[c], <<NoGuild>>, NoGuild)
          /\ guildOf' = [d \in Character |->
                           IF d \in MembersOf(GuildByPlayer(c)) THEN NoGuild ELSE guildOf[d]]
          /\ flagged' = flagged \ MembersOf(GuildByPlayer(c))
          /\ UNCHANGED <<online, deleted, invite>>
       \/ Interrupted(guildOf[c], <<NoGuild>>)

\* A second offer takes the place of the first; neither ever expires, and
\* both outlive the visits of the two players.
InvitePlayer(inviter, target) ==
    /\ IsOfficer(inviter)
    /\ Cardinality(MembersOf(GuildByPlayer(inviter))) < MAX_GUILD_MEMBERS
    /\ target \in online
    /\ guildOf[target] = NoGuild
    /\ invite' = [invite EXCEPT ![target] = guildOf[inviter]]
    /\ UNCHANGED <<online, deleted, guilds, guildOf, flagged, db>>

\* The answer names a guild; any answer uses the offer up.
TakeInvite(target) ==
    /\ target \in online
    /\ invite[target] # NoGuild
    /\ invite' = [invite EXCEPT ![target] = NoGuild]

\* Declined, for another guild than the one offered, or too late.
DeclineInvite(target) ==
    /\ TakeInvite(target)
    /\ UNCHANGED <<online, deleted, guilds, guildOf, flagged, db>>

\* Faulty variant: the size tested at the offer is trusted at the answer.
FaultyMayJoin(target) ==
    /\ guildOf[target] = NoGuild
    /\ guilds[invite[target]] # NoGuild

MayJoin(target) ==
    /\ guildOf[target] = NoGuild
    /\ guilds[invite[target]] # NoGuild
    /\ Cardinality(MembersOf(guilds[invite[target]])) < MAX_GUILD_MEMBERS

AcceptInvite(target) ==
    LET id == invite[target]
        rows == <<WithRank(db[id], target, Member)>>
    IN  /\ target \in online
        /\ id # NoGuild
        /\ MayJoin(target)
        /\ \/ /\ Written(id, rows, WithRank(guilds[id], target, Member))
              /\ TakeInvite(target)
              /\ guildOf' = [guildOf EXCEPT ![target] = id]
              /\ flagged' = flagged \cup {target}
              /\ UNCHANGED <<online, deleted>>
           \/ Interrupted(id, rows)

\* removeMemberFromDatabase, the entry in memory and the player map.
Remove(c, id) ==
    LET rows == <<WithRank(db[id], c, NotIn)>>
    IN  \/ /\ Written(id, rows, WithRank(guilds[id], c, NotIn))
           /\ guildOf' = [guildOf EXCEPT ![c] = NoGuild]
           /\ flagged' = flagged \ {c}
           /\ UNCHANGED <<online, deleted, invite>>
        \/ Interrupted(id, rows)

\* Faulty variant: the leader leaves like anyone else.
FaultyLeaveGuild(c) == InGuild(c) /\ Remove(c, guildOf[c])

\* A leader leaves only as the last member, and takes the guild with him.
LeaveGuild(c) ==
    /\ InGuild(c)
    /\ \/ /\ IsLeader(c)
          /\ Cardinality(MembersOf(GuildByPlayer(c))) <= 1
          /\ DisbandGuild(c)
       \/ /\ ~IsLeader(c)
          /\ Remove(c, guildOf[c])

KickMember(kicker, target) ==
    LET guild == GuildByPlayer(kicker)
    IN  /\ IsOfficer(kicker)
        /\ guild.leader # target
        /\ target \in MembersOf(guild)
        /\ IsLeader(kicker) \/ guild.rank[target] < Officer
        /\ Remove(target, guildOf[kicker])

\* Member to Officer.
PromoteMember(leader, target) ==
    LET id == guildOf[leader]
    IN  /\ IsLeader(leader)
        /\ guilds[id].rank[target] = Member
        /\ \/ /\ Written(id, <<WithRank(db[id], target, Officer)>>,
                         WithRank(guilds[id], target, Officer))
              /\ UNCHANGED <<online, deleted, invite, guildOf, flagged>>
           \/ Interrupted(id, <<WithRank(db[id], target, Officer)>>)

\* What transferring the leadership makes of a guild, statement by statement.
Transfer(guild, leader, target) ==
    LET stepped == WithRank(guild, leader, Officer)
        raised  == WithRank(stepped, target, Leader)
    IN  <<stepped, raised, WithLeader(raised, target)>>

\* Promoting an officer hands the leadership over.
TransferLeadership(leader, target) ==
    LET id == guildOf[leader]
    IN  /\ IsLeader(leader)
        /\ guilds[id].rank[target] = Officer
        /\ \/ /\ Written(id, Transfer(db[id], leader, target),
                         Transfer(guilds[id], leader, target)[3])
              /\ UNCHANGED <<online, deleted, invite, guildOf, flagged>>
           \/ Interrupted(id, Transfer(db[id], leader, target))

\* Faulty variant: the new rank is not written to the database.
FaultyDemoteMember(leader, target) ==
    LET id    == guildOf[leader]
        lower == guilds[id].rank[target] - 1
    IN  /\ IsLeader(leader)
        /\ guilds[id].leader # target
        /\ guilds[id].rank[target] > Member
        /\ guilds' = [guilds EXCEPT ![id] = WithRank(guilds[id], target, lower)]
        /\ UNCHANGED <<online, deleted, invite, guildOf, flagged, db>>

DemoteMember(leader, target) ==
    LET id    == guildOf[leader]
        lower == guilds[id].rank[target] - 1
    IN  /\ IsLeader(leader)
        /\ guilds[id].leader # target
        /\ guilds[id].rank[target] > Member
        /\ \/ /\ Written(id, <<WithRank(db[id], target, lower)>>,
                         WithRank(guilds[id], target, lower))
              /\ UNCHANGED <<online, deleted, invite, guildOf, flagged>>
           \/ Interrupted(id, <<WithRank(db[id], target, lower)>>)

\* onPlayerLogin, for a member.
EnterWorld(c) ==
    /\ c \notin online \cup deleted
    /\ online' = online \cup {c}
    /\ flagged' = IF GuildByPlayer(c) # NoGuild THEN flagged \cup {c} ELSE flagged
    /\ UNCHANGED <<deleted, guilds, guildOf, invite, db>>

\* onPlayerLogout; a pending offer stays.
LeaveWorld(c) ==
    /\ c \in online
    /\ online' = online \ {c}
    /\ flagged' = flagged \ {c}
    /\ UNCHANGED <<deleted, guilds, guildOf, invite, db>>

\* The row of the character is only marked, so no member row goes with it.
DeleteCharacter(c) ==
    /\ c \notin online \cup deleted
    /\ deleted' = deleted \cup {c}
    /\ UNCHANGED <<online, guilds, guildOf, invite, flagged, db>>

Restart == StartFrom(db)

Next ==
    \/ \E c \in Character :
         \/ \E id \in GuildId : CreateGuild(c, id)
         \/ DisbandGuild(c)
         \/ DeclineInvite(c)
         \/ AcceptInvite(c)
         \/ LeaveGuild(c)
         \/ EnterWorld(c)
         \/ LeaveWorld(c)
         \/ DeleteCharacter(c)
    \/ \E c, d \in Character :
         \/ InvitePlayer(c, d)
         \/ KickMember(c, d)
         \/ PromoteMember(c, d)
         \/ TransferLeadership(c, d)
         \/ DemoteMember(c, d)
    \/ Restart

Spec == Init /\ [][Next]_vars

-----------------------------------------------------------------------------

\* A character is in the guild the player map names and in no other: the map
\* and the member lists are changed by six handlers and rebuilt at the start.
MapsAgree ==
    /\ TypeOK
    /\ \A c \in Character, id \in GuildId :
         guildOf[c] = id <=> guilds[id] # NoGuild /\ guilds[id].rank[c] # NotIn

\* What the server holds in memory is what a restart would read back, in the
\* same guild and the same rank, wherever the last one cut a handler short.
MemoryIsDatabase == guilds = db

\* The members the guild sends its messages to are those in the world; the
\* mark is kept by login and logout, by joining, and reset by a restart.
MarkedAreOnline ==
    flagged = {c \in online : guildOf[c] # NoGuild}

\* The player map, the member lists and the marks agree, across eight
\* handlers, visits, late answers and restarts.
IndexesAgree == MapsAgree /\ MarkedAreOnline

\* A guild with members has its leader among them, of rank enough to lead it
\* again after a crash in the middle of a transfer or a creation; a guild
\* without members is a creation that was cut short.
GuildIsLed ==
    \A id \in GuildId : guilds[id] # NoGuild /\ MembersOf(guilds[id]) # {} =>
        guilds[id].rank[guilds[id].leader] >= Officer

\* Offers accepted late never take a guild over the limit.
GuildFits ==
    \A id \in GuildId :
        guilds[id] # NoGuild => Cardinality(MembersOf(guilds[id])) <= MAX_GUILD_MEMBERS
=============================================================================
