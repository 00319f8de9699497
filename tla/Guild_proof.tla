---------------------------- MODULE Guild_proof -----------------------------
(***************************************************************************)
(* The invariants of Guild hold for any characters, any guild ids and any  *)
(* size limit, the server being stopped after any statement.               *)
(*                                                                         *)
(* A handler changes one row of the tables at a time.  Sound says what a   *)
(* restart needs of the tables: no character in two guilds, and every      *)
(* guild with members led.  Each single statement keeps the tables sound,  *)
(* so a start from any of them restores the invariant (StartRestores), and *)
(* so does the completed handler (WriteKeeps).                             *)
(***************************************************************************)
EXTENDS Guild, FiniteSetTheorems, TLAPS

Tables == [GuildId -> GuildData \cup {NoGuild}]

IsIn(c, guild) == guild # NoGuild /\ guild.rank[c] # NotIn

Led(guild) ==
    guild # NoGuild /\ (\E c \in Character : IsIn(c, guild)) =>
        guild.rank[guild.leader] >= Officer

Sound(tables) ==
    /\ tables \in Tables
    /\ \A c \in Character, i, j \in GuildId :
         IsIn(c, tables[i]) /\ IsIn(c, tables[j]) => i = j
    /\ \A id \in GuildId : Led(tables[id])

\* An offer is for a guild that has members, or has been disbanded since: the
\* one who accepts is not the leader of an empty guild, left by a creation that
\* was cut short.
OffersHaveMembers ==
    \A c \in Character, id \in GuildId :
        invite[c] = id /\ guilds[id] # NoGuild => \E d \in Character : IsIn(d, guilds[id])

IInv ==
    /\ MapsAgree
    /\ MemoryIsDatabase
    /\ MarkedAreOnline
    /\ GuildIsLed
    /\ OffersHaveMembers

-----------------------------------------------------------------------------

\* In a state of the invariant the tables are sound.
LEMMA TablesAreSound == ASSUME IInv PROVE Sound(db)
  BY DEF IInv, TypeOK, MapsAgree, MemoryIsDatabase, GuildIsLed, Sound, Tables,
         IsIn, Led, MembersOf

\* A start from sound tables establishes the invariant.
LEMMA StartRestores ==
    ASSUME NEW tables, Sound(tables), TypeOK, StartFrom(tables)
    PROVE  IInv'
  <1> DEFINE Ids(c) == {id \in GuildId : tables[id] # NoGuild /\ tables[id].rank[c] # NotIn}
  <1>1. ASSUME NEW c \in Character
        PROVE  /\ GuildInDatabase(tables, c) \in GuildId \cup {NoGuild}
               /\ \A id \in GuildId :
                    GuildInDatabase(tables, c) = id <=> IsIn(c, tables[id])
    <2>1. CASE Ids(c) = {}
      BY <2>1, GuildAssumption DEF GuildInDatabase, IsIn
    <2>2. CASE Ids(c) # {}
      <3>1. GuildInDatabase(tables, c) = (CHOOSE i \in Ids(c) : TRUE)
        BY <2>2 DEF GuildInDatabase
      <3>2. GuildInDatabase(tables, c) \in Ids(c)
        BY <3>1, <2>2
      <3> QED
        BY <3>2 DEF Sound, IsIn
    <2> QED
      BY <2>1, <2>2
  <1>2. guildOf' \in [Character -> GuildId \cup {NoGuild}]
    BY <1>1 DEF StartFrom
  <1>3. TypeOK'
    BY <1>2 DEF TypeOK, StartFrom, Sound, Tables
  <1>4. MapsAgree'
    BY <1>1, <1>3 DEF MapsAgree, StartFrom, IsIn
  <1>5. MemoryIsDatabase' /\ MarkedAreOnline'
    BY DEF MemoryIsDatabase, MarkedAreOnline, StartFrom
  <1>6. GuildIsLed'
    BY DEF GuildIsLed, StartFrom, Sound, Led, IsIn, MembersOf
  <1>7. OffersHaveMembers'
    BY GuildAssumption DEF OffersHaveMembers, StartFrom
  <1> QED
    BY <1>3, <1>4, <1>5, <1>6, <1>7 DEF IInv

\* One row of sound tables is replaced by a led guild whose members are in
\* no other.
LEMMA RowKeepsSound ==
    ASSUME NEW tables, Sound(tables),
           NEW id \in GuildId, NEW row \in GuildData \cup {NoGuild},
           Led(row),
           \A c \in Character, j \in GuildId \ {id} :
               IsIn(c, row) => ~ IsIn(c, tables[j])
    PROVE  Sound([tables EXCEPT ![id] = row])
  BY DEF Sound, Tables

\* The same step completed, with the player map and the marks to match.
LEMMA WriteKeeps ==
    ASSUME IInv, TypeOK',
           NEW id \in GuildId, NEW row \in GuildData \cup {NoGuild},
           Led(row),
           guilds' = [guilds EXCEPT ![id] = row],
           db' = [db EXCEPT ![id] = row],
           \A c \in Character : guildOf'[c] = id <=> IsIn(c, row),
           \A c \in Character : guildOf'[c] # guildOf[c] =>
               {guildOf[c], guildOf'[c]} \subseteq {id, NoGuild},
           row # NoGuild => \E c \in Character : IsIn(c, row),
           \A c \in Character : invite'[c] \in {invite[c], NoGuild},
           MarkedAreOnline'
    PROVE  IInv'
  <1>1. ASSUME NEW c \in Character, NEW j \in GuildId
        PROVE  guildOf'[c] = j <=> IsIn(c, guilds'[j])
    <2>1. CASE j = id
      BY <2>1 DEF IInv, MapsAgree, TypeOK
    <2>2. CASE j # id
      BY <2>2, GuildAssumption DEF IInv, TypeOK, MapsAgree, IsIn
    <2> QED
      BY <2>1, <2>2
  <1>2. MapsAgree'
    BY <1>1 DEF MapsAgree, IsIn
  <1>3. MemoryIsDatabase'
    BY DEF IInv, MemoryIsDatabase
  <1>4. GuildIsLed'
    BY DEF IInv, MapsAgree, TypeOK, GuildIsLed, Led, IsIn, MembersOf
  <1>5. ASSUME NEW c \in Character, NEW j \in GuildId, invite'[c] = j, guilds'[j] # NoGuild
        PROVE  \E d \in Character : IsIn(d, guilds'[j])
    <2>1. CASE j = id
      BY <1>5, <2>1 DEF IInv, MapsAgree, TypeOK
    <2>2. CASE j # id
      BY <1>5, <2>2, GuildAssumption DEF IInv, MapsAgree, TypeOK, OffersHaveMembers
    <2> QED
      BY <2>1, <2>2
  <1>6. OffersHaveMembers'
    BY <1>5 DEF OffersHaveMembers, IsIn
  <1> QED
    BY <1>2, <1>3, <1>4, <1>6 DEF IInv

\* What WithRank, Founded and WithLeader make of a guild.
LEMMA RankedGuild ==
    ASSUME NEW guild \in GuildData, NEW c \in Character, NEW r \in NotIn .. Leader
    PROVE  /\ WithRank(guild, c, r) \in GuildData
           /\ WithRank(guild, c, r).leader = guild.leader
           /\ \A d \in Character : WithRank(guild, c, r).rank[d] =
                                     IF d = c THEN r ELSE guild.rank[d]
  BY DEF WithRank, GuildData

LEMMA NewGuild ==
    ASSUME NEW c \in Character
    PROVE  /\ Founded(c) \in GuildData
           /\ Founded(c).leader = c
           /\ \A d \in Character : Founded(c).rank[d] = NotIn
  BY DEF Founded, GuildData, NotIn, Leader

LEMMA LedGuild ==
    ASSUME NEW guild \in GuildData, NEW c \in Character
    PROVE  /\ WithLeader(guild, c) \in GuildData
           /\ WithLeader(guild, c).leader = c
           /\ WithLeader(guild, c).rank = guild.rank
  BY DEF WithLeader, GuildData

\* A handler that may write row for guild id, seen from the tables.
MayWrite(id, row) ==
    /\ row \in GuildData \cup {NoGuild}
    /\ Led(row)
    /\ \A c \in Character, j \in GuildId \ {id} : IsIn(c, row) => ~ IsIn(c, db[j])

\* A handler cut short after any of its statements leaves sound tables.
LEMMA InterruptedKeeps ==
    ASSUME IInv, NEW id \in GuildId, NEW rows,
           \A n \in 1 .. Len(rows) : MayWrite(id, rows[n]),
           Interrupted(id, rows)
    PROVE  IInv'
  <1>1. PICK n \in 1 .. Len(rows) : StartFrom([db EXCEPT ![id] = rows[n]])
    BY DEF Interrupted
  <1>2. Sound([db EXCEPT ![id] = rows[n]])
    BY TablesAreSound, RowKeepsSound DEF MayWrite
  <1> QED
    BY <1>1, <1>2, StartRestores DEF IInv, MapsAgree

-----------------------------------------------------------------------------

LEMMA CreateGuildKeeps ==
    ASSUME IInv, NEW c \in Character, NEW id \in GuildId, CreateGuild(c, id)
    PROVE  IInv'
  <1> DEFINE row  == WithRank(Founded(c), c, Leader)
             rows == <<Founded(c), row>>
  <1>1. /\ row \in GuildData
        /\ row.leader = c
        /\ \A d \in Character : row.rank[d] = IF d = c THEN Leader ELSE NotIn
    <2>1. Leader \in NotIn .. Leader
      BY DEF Leader, NotIn
    <2>2. Founded(c) \in GuildData
      BY NewGuild
    <2>3. \A d \in Character : Founded(c).rank[d] = NotIn
      BY NewGuild
    <2>4. /\ row \in GuildData
          /\ row.leader = Founded(c).leader
          /\ \A d \in Character : row.rank[d] = IF d = c THEN Leader ELSE Founded(c).rank[d]
      BY <2>1, <2>2, RankedGuild
    <2> QED
      BY <2>3, <2>4, NewGuild
  <1>2. \A d \in Character : IsIn(d, row) <=> d = c
    BY <1>1, GuildAssumption DEF IsIn, Leader, NotIn
  <1>3. \A j \in GuildId : ~ IsIn(c, db[j])
    BY GuildAssumption DEF IInv, MapsAgree, MemoryIsDatabase, IsIn, CreateGuild
  <1>4. MayWrite(id, row)
    BY <1>1, <1>2, <1>3 DEF MayWrite, Led, Leader, Officer
  <1>5. MayWrite(id, Founded(c))
    BY NewGuild DEF MayWrite, Led, IsIn
  <1> HIDE DEF row
  <1>6. CASE Interrupted(id, rows)
    <2>1. \A n \in 1 .. Len(rows) : MayWrite(id, rows[n])
      BY <1>4, <1>5
    <2> QED
      BY <1>6, <2>1, InterruptedKeeps
  <1>7. CASE /\ Written(id, rows, row)
             /\ guildOf' = [guildOf EXCEPT ![c] = id]
             /\ flagged' = flagged \cup {c}
             /\ UNCHANGED <<online, deleted, invite>>
    <2>1. guilds' = [guilds EXCEPT ![id] = row] /\ db' = [db EXCEPT ![id] = row]
      BY <1>7 DEF Written
    <2>2. TypeOK'
      BY <1>1, <1>7, <2>1 DEF IInv, MapsAgree, TypeOK, CreateGuild
    <2>3. \A d \in Character : guildOf'[d] = id <=> IsIn(d, row)
      BY <1>2, <1>7 DEF IInv, MapsAgree, TypeOK, CreateGuild, Unused
    <2>4. \A d \in Character : guildOf'[d] # guildOf[d] =>
             {guildOf[d], guildOf'[d]} \subseteq {id, NoGuild}
      BY <1>7 DEF IInv, MapsAgree, TypeOK, CreateGuild
    <2>5. MarkedAreOnline'
      BY <1>7, GuildAssumption DEF IInv, MapsAgree, TypeOK, MarkedAreOnline, CreateGuild
    <2>6. IsIn(c, row)
      BY <1>2
    <2> QED
      BY <1>1, <1>4, <1>7, <2>1, <2>2, <2>3, <2>4, <2>5, <2>6, WriteKeeps DEF MayWrite
  <1> QED
    BY <1>6, <1>7 DEF CreateGuild, row

\* What acting as a member or as a leader says of the player's guild.
LEMMA OwnGuild ==
    ASSUME IInv, NEW c \in Character, InGuild(c)
    PROVE  /\ c \in online
           /\ guildOf[c] \in GuildId
           /\ guilds[guildOf[c]] \in GuildData
           /\ GuildByPlayer(c) = guilds[guildOf[c]]
           /\ db[guildOf[c]] = guilds[guildOf[c]]
           /\ IsIn(c, guilds[guildOf[c]])
  BY GuildAssumption
  DEF IInv, TypeOK, MapsAgree, MemoryIsDatabase, InGuild, GuildByPlayer, IsIn

\* A character is in the guild his map entry names and in no other.
LEMMA InOneGuild ==
    ASSUME IInv, NEW c \in Character, NEW id \in GuildId
    PROVE  /\ IsIn(c, guilds[id]) <=> guildOf[c] = id
           /\ IsIn(c, db[id]) <=> guildOf[c] = id
  BY DEF IInv, MapsAgree, MemoryIsDatabase, IsIn

LEMMA DisbandGuildKeeps ==
    ASSUME IInv, NEW c \in Character, DisbandGuild(c)
    PROVE  IInv'
  <1> DEFINE id == guildOf[c]
             rows == <<NoGuild>>
  <1>1. id \in GuildId /\ GuildByPlayer(c) = guilds[id] /\ guilds[id] \in GuildData
    BY OwnGuild DEF DisbandGuild, IsLeader
  <1>2. MayWrite(id, NoGuild)
    BY DEF MayWrite, Led, IsIn
  <1>3. CASE Interrupted(id, rows)
    <2>1. \A n \in 1 .. Len(rows) : MayWrite(id, rows[n])
      BY <1>2
    <2> QED
      BY <1>1, <1>3, <2>1, InterruptedKeeps
  <1>4. CASE /\ Written(id, rows, NoGuild)
             /\ guildOf' = [d \in Character |->
                              IF d \in MembersOf(GuildByPlayer(c)) THEN NoGuild ELSE guildOf[d]]
             /\ flagged' = flagged \ MembersOf(GuildByPlayer(c))
             /\ UNCHANGED <<online, deleted, invite>>
    <2>1. guilds' = [guilds EXCEPT ![id] = NoGuild] /\ db' = [db EXCEPT ![id] = NoGuild]
      BY <1>4 DEF Written
    <2>2. TypeOK'
      BY <1>1, <1>4, <2>1 DEF IInv, MapsAgree, TypeOK
    <2>3. \A d \in Character : d \in MembersOf(GuildByPlayer(c)) <=> guildOf[d] = id
      BY <1>1, InOneGuild, GuildAssumption DEF MembersOf, IsIn
    <2>4. \A d \in Character : guildOf'[d] = IF guildOf[d] = id THEN NoGuild ELSE guildOf[d]
      BY <1>4, <2>3
    <2>5. MarkedAreOnline'
      BY <1>4, <2>3, <2>4 DEF IInv, MapsAgree, TypeOK, MarkedAreOnline
    <2>6. \A d \in Character : guildOf'[d] = id <=> IsIn(d, NoGuild)
      BY <1>1, <2>4, GuildAssumption DEF IsIn
    <2>7. \A d \in Character : guildOf'[d] # guildOf[d] =>
             {guildOf[d], guildOf'[d]} \subseteq {id, NoGuild}
      BY <2>4
    <2> HIDE DEF id
    <2> QED
      BY <1>1, <1>2, <1>4, <2>1, <2>2, <2>5, <2>6, <2>7, WriteKeeps DEF MayWrite
  <1> QED
    BY <1>3, <1>4 DEF DisbandGuild

-----------------------------------------------------------------------------
(* Handlers that change one member of a guild.                             *)

\* Giving a character a rank in the guild, or another rank, or none.
LEMMA RankRow ==
    ASSUME IInv, NEW id \in GuildId, guilds[id] \in GuildData,
           NEW c \in Character, NEW r \in NotIn .. Leader,
           r # NotIn => guildOf[c] \in {id, NoGuild},
           guilds[id].leader = c => r >= Officer,
           r # NotIn /\ guildOf[c] = NoGuild =>
               \E d \in Character : IsIn(d, guilds[id])
    PROVE  /\ MayWrite(id, WithRank(guilds[id], c, r))
           /\ WithRank(guilds[id], c, r) \in GuildData
           /\ \A d \in Character : IsIn(d, WithRank(guilds[id], c, r)) <=>
                                    IF d = c THEN r # NotIn ELSE guildOf[d] = id
  <1> DEFINE row == WithRank(guilds[id], c, r)
  <1>1. /\ row \in GuildData
        /\ row.leader = guilds[id].leader
        /\ \A d \in Character : row.rank[d] = IF d = c THEN r ELSE guilds[id].rank[d]
    BY RankedGuild
  <1> HIDE DEF row
  <1>2. row # NoGuild /\ guilds[id] # NoGuild
    BY <1>1, GuildAssumption
  <1>3. \A d \in Character : IsIn(d, row) <=> IF d = c THEN r # NotIn ELSE guildOf[d] = id
    BY <1>1, <1>2, InOneGuild DEF IsIn
  <1>4. ASSUME NEW d \in Character, IsIn(d, row)
        PROVE  row.rank[row.leader] >= Officer
    <2>1. row.leader \in Character
      BY <1>1 DEF GuildData
    <2>2. CASE row.leader = c
      BY <1>1, <2>1, <2>2
    <2>3. CASE row.leader # c
      <3>1. \E e \in Character : IsIn(e, guilds[id])
        BY <1>3, <1>4, InOneGuild, GuildAssumption
      <3>2. guilds[id].rank[guilds[id].leader] >= Officer
        BY <1>2, <3>1 DEF IInv, GuildIsLed, MembersOf, IsIn
      <3> QED
        BY <1>1, <2>1, <2>3, <3>2
    <2> QED
      BY <2>2, <2>3
  <1>5. Led(row)
    BY <1>4 DEF Led
  <1>6. \A d \in Character, j \in GuildId \ {id} : IsIn(d, row) => ~ IsIn(d, db[j])
    BY <1>3, InOneGuild, GuildAssumption
  <1> QED
    BY <1>1, <1>3, <1>5, <1>6 DEF MayWrite, row

\* A completed statement on a member's row, with the map and the marks.
LEMMA RankKeeps ==
    ASSUME IInv, NEW id \in GuildId, guilds[id] \in GuildData,
           NEW row \in GuildData, MayWrite(id, row),
           guilds' = [guilds EXCEPT ![id] = row],
           db' = [db EXCEPT ![id] = row],
           NEW c \in Character, guildOf[c] = id,
           \A d \in Character : IsIn(d, row) <=> guildOf[d] = id,
           UNCHANGED <<online, deleted, invite, guildOf, flagged>>
    PROVE  IInv'
  <1>1. TypeOK'
    BY DEF IInv, MapsAgree, TypeOK
  <1>2. MarkedAreOnline'
    BY DEF IInv, MarkedAreOnline
  <1> QED
    BY <1>1, <1>2, WriteKeeps DEF MayWrite

\* Rank changes of one statement, whether they are completed or cut short.
LEMMA NewRankKeeps ==
    ASSUME IInv, NEW id \in GuildId, guilds[id] \in GuildData,
           NEW c \in Character, guildOf[c] = id,
           NEW r \in NotIn .. Leader, r # NotIn,
           guilds[id].leader = c => r >= Officer,
           \/ /\ Written(id, <<WithRank(db[id], c, r)>>, WithRank(guilds[id], c, r))
              /\ UNCHANGED <<online, deleted, invite, guildOf, flagged>>
           \/ Interrupted(id, <<WithRank(db[id], c, r)>>)
    PROVE  IInv'
  <1> DEFINE row  == WithRank(guilds[id], c, r)
             rows == <<row>>
  <1>1. db[id] = guilds[id]
    BY DEF IInv, MemoryIsDatabase
  <1>2. /\ MayWrite(id, row)
        /\ row \in GuildData
        /\ \A d \in Character : IsIn(d, row) <=> guildOf[d] = id
    BY RankRow, GuildAssumption
  <1>3. \/ /\ Written(id, rows, row)
           /\ UNCHANGED <<online, deleted, invite, guildOf, flagged>>
        \/ Interrupted(id, rows)
    BY <1>1
  <1> HIDE DEF row
  <1>4. CASE Interrupted(id, rows)
    <2>1. \A n \in 1 .. Len(rows) : MayWrite(id, rows[n])
      BY <1>2
    <2> QED
      BY <1>4, <2>1, InterruptedKeeps
  <1>5. CASE /\ Written(id, rows, row)
             /\ UNCHANGED <<online, deleted, invite, guildOf, flagged>>
    <2>1. guilds' = [guilds EXCEPT ![id] = row] /\ db' = [db EXCEPT ![id] = row]
      BY <1>5 DEF Written
    <2> QED
      BY <1>2, <1>5, <2>1, RankKeeps
  <1> QED
    BY <1>3, <1>4, <1>5

LEMMA PromoteMemberKeeps ==
    ASSUME IInv, NEW c \in Character, NEW d \in Character, PromoteMember(c, d)
    PROVE  IInv'
  <1>1. guildOf[c] \in GuildId /\ guilds[guildOf[c]] \in GuildData
    BY OwnGuild DEF PromoteMember, IsLeader
  <1>2. guildOf[d] = guildOf[c]
    BY <1>1, InOneGuild, GuildAssumption DEF PromoteMember, IsIn, Member, NotIn
  <1>3. Officer \in NotIn .. Leader /\ Officer # NotIn /\ Officer >= Officer
    BY DEF NotIn, Officer, Leader
  <1> QED
    BY <1>1, <1>2, <1>3, NewRankKeeps DEF PromoteMember

LEMMA DemoteMemberKeeps ==
    ASSUME IInv, NEW c \in Character, NEW d \in Character, DemoteMember(c, d)
    PROVE  IInv'
  <1> DEFINE id    == guildOf[c]
             lower == guilds[id].rank[d] - 1
  <1>1. id \in GuildId /\ guilds[id] \in GuildData
    BY OwnGuild DEF DemoteMember, IsLeader
  <1>2. guilds[id].rank[d] \in NotIn .. Leader
    BY <1>1 DEF GuildData
  <1>3. guildOf[d] = id
    BY <1>1, <1>2, InOneGuild, GuildAssumption DEF DemoteMember, IsIn, Member, NotIn
  <1>4. lower \in NotIn .. Leader /\ lower # NotIn
    BY <1>2 DEF DemoteMember, NotIn, Member, Leader
  <1>5. guilds[id].leader # d
    BY DEF DemoteMember
  <1>6. \/ /\ Written(id, <<WithRank(db[id], d, lower)>>, WithRank(guilds[id], d, lower))
           /\ UNCHANGED <<online, deleted, invite, guildOf, flagged>>
        \/ Interrupted(id, <<WithRank(db[id], d, lower)>>)
    BY DEF DemoteMember
  <1> HIDE DEF id, lower
  <1> QED
    BY <1>1, <1>3, <1>4, <1>5, <1>6, NewRankKeeps

\* Leaving and being kicked, for anyone but the leader.
LEMMA RemoveKeeps ==
    ASSUME IInv, NEW c \in Character, NEW id \in GuildId,
           guilds[id] \in GuildData, guildOf[c] = id, guilds[id].leader # c,
           Remove(c, id)
    PROVE  IInv'
  <1> DEFINE row  == WithRank(guilds[id], c, NotIn)
             rows == <<row>>
  <1>1. db[id] = guilds[id]
    BY DEF IInv, MemoryIsDatabase
  <1>2. NotIn \in NotIn .. Leader
    BY DEF NotIn, Leader
  <1>3. /\ MayWrite(id, row)
        /\ row \in GuildData
        /\ \A d \in Character : IsIn(d, row) <=> d # c /\ guildOf[d] = id
    BY <1>2, RankRow
  <1>4. \/ /\ Written(id, rows, row)
           /\ guildOf' = [guildOf EXCEPT ![c] = NoGuild]
           /\ flagged' = flagged \ {c}
           /\ UNCHANGED <<online, deleted, invite>>
        \/ Interrupted(id, rows)
    BY <1>1 DEF Remove
  <1> HIDE DEF row
  <1>5. CASE Interrupted(id, rows)
    <2>1. \A n \in 1 .. Len(rows) : MayWrite(id, rows[n])
      BY <1>3
    <2> QED
      BY <1>5, <2>1, InterruptedKeeps
  <1>6. CASE /\ Written(id, rows, row)
             /\ guildOf' = [guildOf EXCEPT ![c] = NoGuild]
             /\ flagged' = flagged \ {c}
             /\ UNCHANGED <<online, deleted, invite>>
    <2>1. guilds' = [guilds EXCEPT ![id] = row] /\ db' = [db EXCEPT ![id] = row]
      BY <1>6 DEF Written
    <2>2. TypeOK'
      BY <1>3, <1>6, <2>1 DEF IInv, MapsAgree, TypeOK
    <2>3. \A d \in Character : guildOf'[d] = IF d = c THEN NoGuild ELSE guildOf[d]
      BY <1>6 DEF IInv, MapsAgree, TypeOK
    <2>4. MarkedAreOnline'
      BY <1>6, <2>3 DEF IInv, MapsAgree, TypeOK, MarkedAreOnline
    <2>5. \A d \in Character : guildOf'[d] = id <=> IsIn(d, row)
      BY <1>3, <2>3, GuildAssumption
    <2>6. \A d \in Character : guildOf'[d] # guildOf[d] =>
             {guildOf[d], guildOf'[d]} \subseteq {id, NoGuild}
      BY <2>3
    <2>7. \E d \in Character : IsIn(d, row)
      <3>1. guilds[id].leader \in Character /\ guilds[id] # NoGuild /\ IsIn(c, guilds[id])
        BY InOneGuild, GuildAssumption DEF GuildData
      <3>2. guilds[id].rank[guilds[id].leader] >= Officer
        BY <3>1 DEF IInv, GuildIsLed, MembersOf, IsIn
      <3>3. guildOf[guilds[id].leader] = id
        BY <3>1, <3>2, InOneGuild DEF IsIn, Officer, NotIn
      <3> QED
        BY <1>3, <3>1, <3>3
    <2> QED
      BY <1>3, <1>6, <2>7, <2>1, <2>2, <2>4, <2>5, <2>6, WriteKeeps DEF MayWrite
  <1> QED
    BY <1>4, <1>5, <1>6

LEMMA LeaveGuildKeeps ==
    ASSUME IInv, NEW c \in Character, LeaveGuild(c)
    PROVE  IInv'
  <1>1. /\ guildOf[c] \in GuildId
        /\ guilds[guildOf[c]] \in GuildData
        /\ GuildByPlayer(c) = guilds[guildOf[c]]
    BY OwnGuild DEF LeaveGuild
  <1>2. CASE DisbandGuild(c)
    BY <1>2, DisbandGuildKeeps
  <1>3. CASE ~ IsLeader(c) /\ Remove(c, guildOf[c])
    BY <1>1, <1>3, RemoveKeeps DEF LeaveGuild, IsLeader
  <1> QED
    BY <1>2, <1>3 DEF LeaveGuild

LEMMA KickMemberKeeps ==
    ASSUME IInv, NEW c \in Character, NEW d \in Character, KickMember(c, d)
    PROVE  IInv'
  <1>1. /\ guildOf[c] \in GuildId
        /\ guilds[guildOf[c]] \in GuildData
        /\ GuildByPlayer(c) = guilds[guildOf[c]]
    BY OwnGuild DEF KickMember, IsOfficer
  <1>2. guildOf[d] = guildOf[c]
    BY <1>1, InOneGuild, GuildAssumption DEF KickMember, MembersOf, IsIn
  <1> QED
    BY <1>1, <1>2, RemoveKeeps DEF KickMember

\* A row with the members the guild has, and a leader of rank.
LEMMA SameMembers ==
    ASSUME IInv, NEW id \in GuildId, NEW row \in GuildData,
           \A d \in Character : IsIn(d, row) <=> guildOf[d] = id,
           row.rank[row.leader] >= Officer
    PROVE  MayWrite(id, row)
  BY InOneGuild DEF MayWrite, Led

\* The three rows of a transfer; the leader a creation or a transfer cut
\* short has left behind may be the one promoted.
LEMMA TransferRows ==
    ASSUME NEW guild \in GuildData, NEW c \in Character, NEW d \in Character,
           guild.leader = c, guild.rank[c] # NotIn, guild.rank[d] # NotIn
    PROVE  \A n \in 1 .. 3 :
               LET row == Transfer(guild, c, d)[n]
               IN  /\ row \in GuildData
                   /\ row.rank[row.leader] >= Officer
                   /\ \A e \in Character : row.rank[e] = NotIn <=> guild.rank[e] = NotIn
  <1> DEFINE stepped == WithRank(guild, c, Officer)
             raised  == WithRank(stepped, d, Leader)
             handed  == WithLeader(raised, d)
  <1>0. /\ Officer \in NotIn .. Leader
        /\ Leader \in NotIn .. Leader
        /\ Officer # NotIn
        /\ Leader # NotIn
        /\ Officer >= Officer
        /\ Leader >= Officer
    BY DEF NotIn, Officer, Leader
  <1>1. /\ stepped \in GuildData
        /\ stepped.leader = guild.leader
        /\ \A e \in Character : stepped.rank[e] = IF e = c THEN Officer ELSE guild.rank[e]
    BY <1>0, RankedGuild
  <1> HIDE DEF stepped
  <1>2. /\ raised \in GuildData
        /\ raised.leader = stepped.leader
        /\ \A e \in Character : raised.rank[e] = IF e = d THEN Leader ELSE stepped.rank[e]
    <2>1. Leader \in NotIn .. Leader
      BY DEF NotIn, Leader
    <2>2. stepped \in GuildData
      BY <1>1
    <2>3. WithRank(stepped, d, Leader) \in GuildData
      BY <2>1, <2>2, RankedGuild
    <2>4. WithRank(stepped, d, Leader).leader = stepped.leader
      BY <2>1, <2>2, RankedGuild
    <2>5. \A e \in Character : WithRank(stepped, d, Leader).rank[e] =
                              IF e = d THEN Leader ELSE stepped.rank[e]
      BY <2>1, <2>2, RankedGuild
    <2> QED
      BY <2>3, <2>4, <2>5
  <1> HIDE DEF raised
  <1>3. /\ handed \in GuildData
        /\ handed.leader = d
        /\ handed.rank = raised.rank
    BY <1>2, LedGuild
  <1> HIDE DEF handed
  <1>4. Transfer(guild, c, d) = <<stepped, raised, handed>>
    BY DEF Transfer, stepped, raised, handed
  <1>5. /\ stepped.rank[stepped.leader] >= Officer
        /\ raised.rank[raised.leader] >= Officer
        /\ handed.rank[handed.leader] >= Officer
    BY <1>0, <1>1, <1>2, <1>3
  <1>6. \A e \in Character : /\ stepped.rank[e] = NotIn <=> guild.rank[e] = NotIn
                             /\ raised.rank[e] = NotIn <=> guild.rank[e] = NotIn
                             /\ handed.rank[e] = NotIn <=> guild.rank[e] = NotIn
    BY <1>0, <1>1, <1>2, <1>3
  <1>7. ASSUME NEW n \in 1 .. 3
        PROVE  Transfer(guild, c, d)[n] \in {stepped, raised, handed}
    BY <1>4
  <1> QED
    BY <1>1, <1>2, <1>3, <1>5, <1>6, <1>7

LEMMA TransferLeadershipKeeps ==
    ASSUME IInv, NEW c \in Character, NEW d \in Character, TransferLeadership(c, d)
    PROVE  IInv'
  <1> DEFINE id   == guildOf[c]
             rows == Transfer(guilds[id], c, d)
  <1>1. /\ id \in GuildId
        /\ guilds[id] \in GuildData
        /\ db[id] = guilds[id]
        /\ guilds[id].leader = c
        /\ guilds[id].rank[c] # NotIn
        /\ guilds[id].rank[d] # NotIn
    BY OwnGuild DEF TransferLeadership, IsLeader, IsIn, Officer, NotIn
  <1>2. Len(rows) = 3
    BY DEF Transfer
  <1>3. \/ /\ Written(id, rows, rows[3])
           /\ UNCHANGED <<online, deleted, invite, guildOf, flagged>>
        \/ Interrupted(id, rows)
    BY <1>1 DEF TransferLeadership
  <1>4. \A n \in 1 .. 3 : /\ rows[n] \in GuildData
                          /\ rows[n].rank[rows[n].leader] >= Officer
                          /\ \A e \in Character : rows[n].rank[e] = NotIn <=>
                                                  guilds[id].rank[e] = NotIn
    BY <1>1, TransferRows
  <1>c. guildOf[c] = id
    OBVIOUS
  <1> HIDE DEF rows, id
  <1>5. ASSUME NEW n \in 1 .. 3
        PROVE  /\ MayWrite(id, rows[n])
               /\ \A e \in Character : IsIn(e, rows[n]) <=> guildOf[e] = id
    <2>1. rows[n] # NoGuild /\ guilds[id] # NoGuild
      BY <1>1, <1>4, GuildAssumption
    <2>2. \A e \in Character : IsIn(e, rows[n]) <=> guildOf[e] = id
      BY <1>1, <1>4, <2>1, InOneGuild DEF IsIn
    <2> QED
      BY <1>1, <1>4, <2>2, SameMembers
  <1>6. CASE Interrupted(id, rows)
    BY <1>1, <1>2, <1>5, <1>6, InterruptedKeeps
  <1>7. CASE /\ Written(id, rows, rows[3])
             /\ UNCHANGED <<online, deleted, invite, guildOf, flagged>>
    <2>1. guilds' = [guilds EXCEPT ![id] = rows[3]] /\ db' = [db EXCEPT ![id] = rows[3]]
      BY <1>2, <1>7 DEF Written
    <2>2. 3 \in 1 .. 3
      OBVIOUS
    <2>3. /\ rows[3] \in GuildData
          /\ MayWrite(id, rows[3])
          /\ \A e \in Character : IsIn(e, rows[3]) <=> guildOf[e] = id
      BY <1>4, <1>5, <2>2
    <2> QED
      BY <1>1, <1>c, <1>7, <2>1, <2>3, RankKeeps
  <1> QED
    BY <1>3, <1>6, <1>7

\* The one who accepts is in no guild, so he is not the leader of this one,
\* who is a member since the guild has members.
LEMMA AcceptInviteKeeps ==
    ASSUME IInv, NEW c \in Character, AcceptInvite(c)
    PROVE  IInv'
  <1> DEFINE id   == invite[c]
             row  == WithRank(guilds[id], c, Member)
             rows == <<row>>
  <1>1. /\ id \in GuildId
        /\ guilds[id] \in GuildData
        /\ db[id] = guilds[id]
        /\ guildOf[c] = NoGuild
        /\ c \in online
    BY DEF IInv, MapsAgree, TypeOK, MemoryIsDatabase, AcceptInvite, MayJoin
  <1>2. \E d \in Character : IsIn(d, guilds[id])
    BY <1>1, GuildAssumption DEF IInv, OffersHaveMembers
  <1>3. guilds[id].leader # c
    <2>1. guilds[id] # NoGuild /\ guilds[id].rank[guilds[id].leader] >= Officer
      BY <1>1, <1>2, GuildAssumption DEF IInv, GuildIsLed, MembersOf, IsIn
    <2>2. ~ IsIn(c, guilds[id])
      BY <1>1, InOneGuild, GuildAssumption
    <2> QED
      BY <2>1, <2>2 DEF IsIn, Officer, NotIn
  <1>4. Member \in NotIn .. Leader /\ Member # NotIn
    BY DEF Member, NotIn, Leader
  <1>5. /\ MayWrite(id, row)
        /\ row \in GuildData
        /\ \A d \in Character : IsIn(d, row) <=> d = c \/ guildOf[d] = id
    BY <1>1, <1>2, <1>3, <1>4, RankRow
  <1>6. \/ /\ Written(id, rows, row)
           /\ TakeInvite(c)
           /\ guildOf' = [guildOf EXCEPT ![c] = id]
           /\ flagged' = flagged \cup {c}
           /\ UNCHANGED <<online, deleted>>
        \/ Interrupted(id, rows)
    BY <1>1 DEF AcceptInvite
  <1> HIDE DEF row, id
  <1>7. CASE Interrupted(id, rows)
    <2>1. \A n \in 1 .. Len(rows) : MayWrite(id, rows[n])
      BY <1>5
    <2> QED
      BY <1>1, <1>7, <2>1, InterruptedKeeps
  <1>8. CASE /\ Written(id, rows, row)
             /\ TakeInvite(c)
             /\ guildOf' = [guildOf EXCEPT ![c] = id]
             /\ flagged' = flagged \cup {c}
             /\ UNCHANGED <<online, deleted>>
    <2>1. guilds' = [guilds EXCEPT ![id] = row] /\ db' = [db EXCEPT ![id] = row]
      BY <1>8 DEF Written
    <2>2. invite' = [invite EXCEPT ![c] = NoGuild]
      BY <1>8 DEF TakeInvite
    <2>3. TypeOK'
      BY <1>1, <1>5, <1>8, <2>1, <2>2 DEF IInv, MapsAgree, TypeOK
    <2>4. \A d \in Character : guildOf'[d] = IF d = c THEN id ELSE guildOf[d]
      BY <1>8 DEF IInv, MapsAgree, TypeOK
    <2>5. MarkedAreOnline'
      BY <1>1, <1>8, <2>4, GuildAssumption DEF IInv, MapsAgree, TypeOK, MarkedAreOnline
    <2>6. \A d \in Character : guildOf'[d] = id <=> IsIn(d, row)
      BY <1>5, <2>4
    <2>7. \A d \in Character : guildOf'[d] # guildOf[d] =>
             {guildOf[d], guildOf'[d]} \subseteq {id, NoGuild}
      BY <1>1, <2>4
    <2>8. \A d \in Character : invite'[d] \in {invite[d], NoGuild}
      BY <2>2 DEF IInv, MapsAgree, TypeOK
    <2>9. \E d \in Character : IsIn(d, row)
      BY <1>5
    <2> QED
      BY <1>1, <1>5, <2>1, <2>3, <2>5, <2>6, <2>7, <2>8, <2>9, WriteKeeps DEF MayWrite
  <1> QED
    BY <1>6, <1>7, <1>8

-----------------------------------------------------------------------------
(* Steps that leave the guilds alone, and the start of the server.         *)

LEMMA InvitePlayerKeeps ==
    ASSUME IInv, NEW c \in Character, NEW d \in Character, InvitePlayer(c, d)
    PROVE  IInv'
  <1>1. guildOf[c] \in GuildId /\ IsIn(c, guilds[guildOf[c]])
    BY OwnGuild DEF InvitePlayer, IsOfficer
  <1>2. TypeOK'
    BY <1>1 DEF IInv, MapsAgree, TypeOK, InvitePlayer
  <1>3. OffersHaveMembers'
    BY <1>1 DEF IInv, MapsAgree, TypeOK, OffersHaveMembers, InvitePlayer, IsIn
  <1>4. MapsAgree' /\ MemoryIsDatabase' /\ MarkedAreOnline' /\ GuildIsLed'
    BY <1>2 DEF IInv, MapsAgree, MemoryIsDatabase, MarkedAreOnline, GuildIsLed, InvitePlayer
  <1> QED
    BY <1>2, <1>3, <1>4 DEF IInv

LEMMA DeclineInviteKeeps ==
    ASSUME IInv, NEW c \in Character, DeclineInvite(c)
    PROVE  IInv'
  <1>1. TypeOK'
    BY DEF IInv, MapsAgree, TypeOK, DeclineInvite, TakeInvite
  <1>2. OffersHaveMembers'
    BY GuildAssumption DEF IInv, MapsAgree, TypeOK, OffersHaveMembers, DeclineInvite, TakeInvite, IsIn
  <1>3. MapsAgree' /\ MemoryIsDatabase' /\ MarkedAreOnline' /\ GuildIsLed'
    BY <1>1 DEF IInv, MapsAgree, MemoryIsDatabase, MarkedAreOnline, GuildIsLed,
           DeclineInvite, TakeInvite
  <1> QED
    BY <1>1, <1>2, <1>3 DEF IInv

\* Logging in and out and deleting a character touch the marks only.
LEMMA VisitKeeps ==
    ASSUME IInv, NEW c \in Character,
           EnterWorld(c) \/ LeaveWorld(c) \/ DeleteCharacter(c)
    PROVE  IInv'
  <1>1. UNCHANGED <<guilds, guildOf, invite, db>>
    BY DEF EnterWorld, LeaveWorld, DeleteCharacter
  <1>2. GuildByPlayer(c) # NoGuild <=> guildOf[c] # NoGuild
    BY GuildAssumption DEF IInv, TypeOK, MapsAgree, GuildByPlayer
  <1>3. MarkedAreOnline' /\ online' \subseteq Character /\ deleted' \subseteq Character
    <2>1. CASE EnterWorld(c)
      BY <1>2, <2>1 DEF IInv, MapsAgree, TypeOK, MarkedAreOnline, EnterWorld
    <2>2. CASE LeaveWorld(c)
      BY <2>2 DEF IInv, MapsAgree, TypeOK, MarkedAreOnline, LeaveWorld
    <2>3. CASE DeleteCharacter(c)
      BY <2>3 DEF IInv, MapsAgree, TypeOK, MarkedAreOnline, DeleteCharacter
    <2> QED
      BY <2>1, <2>2, <2>3
  <1>4. TypeOK'
    BY <1>1, <1>3 DEF IInv, MapsAgree, TypeOK, MarkedAreOnline
  <1>5. MapsAgree' /\ MemoryIsDatabase' /\ GuildIsLed' /\ OffersHaveMembers'
    BY <1>1, <1>4 DEF IInv, MapsAgree, MemoryIsDatabase, GuildIsLed, OffersHaveMembers, IsIn
  <1> QED
    BY <1>3, <1>4, <1>5 DEF IInv

LEMMA RestartKeeps == ASSUME IInv, Restart PROVE IInv'
  BY TablesAreSound, StartRestores DEF IInv, MapsAgree, Restart

LEMMA InitEstablishes == Init => IInv
  <1> SUFFICES ASSUME Init PROVE IInv
    OBVIOUS
  <1>1. TypeOK
    BY DEF Init, TypeOK
  <1>2. MapsAgree /\ MemoryIsDatabase /\ MarkedAreOnline /\ GuildIsLed /\ OffersHaveMembers
    BY <1>1, GuildAssumption
    DEF Init, MapsAgree, MemoryIsDatabase, MarkedAreOnline, GuildIsLed, OffersHaveMembers
  <1> QED
    BY <1>1, <1>2 DEF IInv

\* Every step of Guild keeps the invariant.
LEMMA NextKeeps == IInv /\ [Next]_vars => IInv'
  <1> SUFFICES ASSUME IInv, [Next]_vars PROVE IInv'
    OBVIOUS
  <1>1. CASE UNCHANGED vars
    BY <1>1 DEF vars, IInv, MapsAgree, TypeOK, MemoryIsDatabase, MarkedAreOnline,
                GuildIsLed, OffersHaveMembers, IsIn
  <1>2. ASSUME NEW c \in Character, NEW id \in GuildId, CreateGuild(c, id) PROVE IInv'
    BY <1>2, CreateGuildKeeps
  <1>3. ASSUME NEW c \in Character, DisbandGuild(c) PROVE IInv'
    BY <1>3, DisbandGuildKeeps
  <1>4. ASSUME NEW c \in Character, DeclineInvite(c) PROVE IInv'
    BY <1>4, DeclineInviteKeeps
  <1>5. ASSUME NEW c \in Character, AcceptInvite(c) PROVE IInv'
    BY <1>5, AcceptInviteKeeps
  <1>6. ASSUME NEW c \in Character, LeaveGuild(c) PROVE IInv'
    BY <1>6, LeaveGuildKeeps
  <1>7. ASSUME NEW c \in Character, EnterWorld(c) \/ LeaveWorld(c) \/ DeleteCharacter(c)
        PROVE  IInv'
    BY <1>7, VisitKeeps
  <1>8. ASSUME NEW c \in Character, NEW d \in Character, InvitePlayer(c, d) PROVE IInv'
    BY <1>8, InvitePlayerKeeps
  <1>9. ASSUME NEW c \in Character, NEW d \in Character, KickMember(c, d) PROVE IInv'
    BY <1>9, KickMemberKeeps
  <1>10. ASSUME NEW c \in Character, NEW d \in Character, PromoteMember(c, d) PROVE IInv'
    BY <1>10, PromoteMemberKeeps
  <1>11. ASSUME NEW c \in Character, NEW d \in Character, TransferLeadership(c, d)
         PROVE  IInv'
    BY <1>11, TransferLeadershipKeeps
  <1>12. ASSUME NEW c \in Character, NEW d \in Character, DemoteMember(c, d) PROVE IInv'
    BY <1>12, DemoteMemberKeeps
  <1>13. CASE Restart
    BY <1>13, RestartKeeps
  <1> QED
    BY <1>1, <1>2, <1>3, <1>4, <1>5, <1>6, <1>7, <1>8, <1>9, <1>10, <1>11, <1>12, <1>13
    DEF Next

\* The inductive invariant holds in every reachable state.
THEOREM Invariant == Spec => []IInv
  BY InitEstablishes, NextKeeps, PTL DEF Spec

\* The player map and the member lists of the guilds say the same of every
\* character, whatever handlers, logins and restarts came before.
THEOREM MapsAlwaysAgree == Spec => []MapsAgree
  <1>1. IInv => MapsAgree
    BY DEF IInv
  <1> QED
    BY <1>1, Invariant, PTL

\* A restart finds in the tables the guilds as they were in memory.
THEOREM RestartFindsEverything == Spec => []MemoryIsDatabase
  <1>1. IInv => MemoryIsDatabase
    BY DEF IInv
  <1> QED
    BY <1>1, Invariant, PTL

\* Guild messages go to the members in the world and to nobody else.
THEOREM MarkedAlwaysOnline == Spec => []MarkedAreOnline
  <1>1. IInv => MarkedAreOnline
    BY DEF IInv
  <1> QED
    BY <1>1, Invariant, PTL

\* Map, lists and marks agree in every state, for any characters and guilds.
THEOREM IndexesAlwaysAgree == Spec => []IndexesAgree
  BY MapsAlwaysAgree, MarkedAlwaysOnline, PTL DEF IndexesAgree

\* A guild that has members is led by one of them of rank enough to lead it,
\* also when a creation or a transfer was cut short by the end of the process.
THEOREM GuildsAlwaysLed == Spec => []GuildIsLed
  <1>1. IInv => GuildIsLed
    BY DEF IInv
  <1> QED
    BY <1>1, Invariant, PTL

-----------------------------------------------------------------------------
(* The size of the guilds.                                                 *)

\* A guild has finitely many members, however many characters there are, and
\* not too many.
Fitting(guild) ==
    guild # NoGuild =>
        /\ IsFiniteSet(MembersOf(guild))
        /\ Cardinality(MembersOf(guild)) <= MAX_GUILD_MEMBERS

AllFit == \A id \in GuildId : Fitting(guilds[id])

\* Giving a character a rank, or none, makes him a member, or removes him.
LEMMA MembersAfter ==
    ASSUME NEW guild \in GuildData, NEW c \in Character, NEW r \in NotIn .. Leader
    PROVE  MembersOf(WithRank(guild, c, r)) =
             IF r = NotIn THEN MembersOf(guild) \ {c} ELSE MembersOf(guild) \cup {c}
  BY RankedGuild DEF MembersOf

\* A guild that gains nobody fits as it did.
LEMMA SmallerFits ==
    ASSUME NEW guild \in GuildData, Fitting(guild), NEW row,
           MembersOf(row) \subseteq MembersOf(guild)
    PROVE  Fitting(row)
  <1>1. IsFiniteSet(MembersOf(guild)) /\ Cardinality(MembersOf(guild)) <= MAX_GUILD_MEMBERS
    BY GuildAssumption DEF Fitting
  <1>2. IsFiniteSet(MembersOf(row)) /\ Cardinality(MembersOf(row)) <= Cardinality(MembersOf(guild))
    BY <1>1, FS_Subset
  <1>3. Cardinality(MembersOf(row)) \in Nat /\ Cardinality(MembersOf(guild)) \in Nat
    BY <1>1, <1>2, FS_CardinalityType
  <1>4. Cardinality(MembersOf(row)) <= MAX_GUILD_MEMBERS
    BY <1>1, <1>2, <1>3, SizeAssumption
  <1> QED
    BY <1>2, <1>4 DEF Fitting

\* A guild with room for one more fits when one joins.
LEMMA JoinedFits ==
    ASSUME NEW guild \in GuildData, Fitting(guild), NEW row, NEW c,
           Cardinality(MembersOf(guild)) < MAX_GUILD_MEMBERS,
           MembersOf(row) = MembersOf(guild) \cup {c}
    PROVE  Fitting(row)
  <1>1. IsFiniteSet(MembersOf(guild))
    BY GuildAssumption DEF Fitting
  <1>2. /\ IsFiniteSet(MembersOf(row))
        /\ Cardinality(MembersOf(row)) \in
             {Cardinality(MembersOf(guild)), Cardinality(MembersOf(guild)) + 1}
    BY <1>1, FS_AddElement
  <1>3. Cardinality(MembersOf(guild)) \in Nat
    BY <1>1, FS_CardinalityType
  <1>4. Cardinality(MembersOf(row)) <= MAX_GUILD_MEMBERS
    BY <1>2, <1>3, SizeAssumption
  <1> QED
    BY <1>2, <1>4 DEF Fitting

\* A handler whose statements all leave a guild that fits, completed or not.
LEMMA WritingFits ==
    ASSUME TypeOK, MemoryIsDatabase, AllFit, NEW id \in GuildId, NEW rows, NEW row,
           Fitting(row), \A n \in 1 .. Len(rows) : Fitting(rows[n]),
           Written(id, rows, row) \/ Interrupted(id, rows)
    PROVE  AllFit'
  <1>1. CASE Written(id, rows, row)
    BY <1>1 DEF Written, AllFit, TypeOK, Fitting, MembersOf
  <1>2. CASE Interrupted(id, rows)
    <2>1. PICK n \in 1 .. Len(rows) : guilds' = [db EXCEPT ![id] = rows[n]]
      BY <1>2 DEF Interrupted, StartFrom
    <2> QED
      BY <2>1 DEF AllFit, TypeOK, MemoryIsDatabase, Fitting, MembersOf
  <1> QED
    BY <1>1, <1>2

LEMMA CreateGuildFits ==
    ASSUME IInv, AllFit, NEW c \in Character, NEW id \in GuildId, CreateGuild(c, id)
    PROVE  AllFit'
  <1> DEFINE row  == WithRank(Founded(c), c, Leader)
             rows == <<Founded(c), row>>
  <1>1. Leader \in NotIn .. Leader /\ Leader # NotIn
    BY DEF Leader, NotIn
  <1>2. MembersOf(Founded(c)) = {}
    BY NewGuild DEF MembersOf
  <1>3. Founded(c) \in GuildData
    BY NewGuild
  <1>4. MembersOf(row) = {c}
    BY <1>1, <1>2, <1>3, MembersAfter
  <1>5. Fitting(Founded(c))
    BY <1>2, FS_EmptySet, SizeAssumption DEF Fitting
  <1>7. Written(id, rows, row) \/ Interrupted(id, rows)
    BY DEF CreateGuild
  <1> HIDE DEF row
  <1>6. Fitting(row)
    <2>1. IsFiniteSet({c}) /\ Cardinality({c}) = 1
      BY FS_Singleton
    <2>2. 1 <= MAX_GUILD_MEMBERS
      BY SizeAssumption
    <2> QED
      BY <1>4, <2>1, <2>2 DEF Fitting
  <1>8. \A n \in 1 .. Len(rows) : Fitting(rows[n])
    BY <1>5, <1>6
  <1> HIDE DEF rows
  <1> QED
    BY <1>6, <1>7, <1>8, WritingFits DEF IInv, MapsAgree

LEMMA DisbandGuildFits ==
    ASSUME IInv, AllFit, NEW c \in Character, DisbandGuild(c)
    PROVE  AllFit'
  <1> DEFINE rows == <<NoGuild>>
  <1>1. guildOf[c] \in GuildId
    BY OwnGuild DEF DisbandGuild, IsLeader
  <1>2. Fitting(NoGuild)
    BY DEF Fitting
  <1>3. \A n \in 1 .. Len(rows) : Fitting(rows[n])
    BY <1>2
  <1>4. Written(guildOf[c], rows, NoGuild) \/ Interrupted(guildOf[c], rows)
    BY DEF DisbandGuild
  <1> HIDE DEF rows
  <1> QED
    BY <1>1, <1>2, <1>3, <1>4, WritingFits DEF IInv, MapsAgree

\* One statement that gives a member another rank, or none.
LEMMA RankFits ==
    ASSUME IInv, AllFit, NEW id \in GuildId, guilds[id] \in GuildData,
           NEW c \in Character, NEW r \in NotIn .. Leader,
           r # NotIn => c \in MembersOf(guilds[id]),
           \/ Written(id, <<WithRank(db[id], c, r)>>, WithRank(guilds[id], c, r))
           \/ Interrupted(id, <<WithRank(db[id], c, r)>>)
    PROVE  AllFit'
  <1> DEFINE row  == WithRank(guilds[id], c, r)
             rows == <<row>>
  <1>1. db[id] = guilds[id]
    BY DEF IInv, MemoryIsDatabase
  <1>2. Written(id, rows, row) \/ Interrupted(id, rows)
    BY <1>1
  <1>3. MembersOf(row) \subseteq MembersOf(guilds[id])
    BY MembersAfter
  <1> HIDE DEF row
  <1>4. Fitting(row)
    BY <1>3, SmallerFits DEF AllFit
  <1>5. \A n \in 1 .. Len(rows) : Fitting(rows[n])
    BY <1>4
  <1> HIDE DEF rows
  <1> QED
    BY <1>2, <1>4, <1>5, WritingFits DEF IInv, MapsAgree

LEMMA PromoteMemberFits ==
    ASSUME IInv, AllFit, NEW c \in Character, NEW d \in Character, PromoteMember(c, d)
    PROVE  AllFit'
  <1>1. guildOf[c] \in GuildId /\ guilds[guildOf[c]] \in GuildData
    BY OwnGuild DEF PromoteMember, IsLeader
  <1>2. Officer \in NotIn .. Leader
    BY DEF NotIn, Officer, Leader
  <1>3. d \in MembersOf(guilds[guildOf[c]])
    BY DEF PromoteMember, MembersOf, Member, NotIn
  <1> QED
    BY <1>1, <1>2, <1>3, RankFits DEF PromoteMember

LEMMA DemoteMemberFits ==
    ASSUME IInv, AllFit, NEW c \in Character, NEW d \in Character, DemoteMember(c, d)
    PROVE  AllFit'
  <1> DEFINE id    == guildOf[c]
             lower == guilds[id].rank[d] - 1
  <1>1. id \in GuildId /\ guilds[id] \in GuildData
    BY OwnGuild DEF DemoteMember, IsLeader
  <1>2. guilds[id].rank[d] \in NotIn .. Leader
    BY <1>1 DEF GuildData
  <1>3. lower \in NotIn .. Leader
    BY <1>2 DEF DemoteMember, NotIn, Member, Leader
  <1>4. d \in MembersOf(guilds[id])
    BY <1>2 DEF DemoteMember, MembersOf, Member, NotIn
  <1>5. \/ Written(id, <<WithRank(db[id], d, lower)>>, WithRank(guilds[id], d, lower))
        \/ Interrupted(id, <<WithRank(db[id], d, lower)>>)
    BY DEF DemoteMember
  <1> HIDE DEF id, lower
  <1> QED
    BY <1>1, <1>3, <1>4, <1>5, RankFits

LEMMA RemoveFits ==
    ASSUME IInv, AllFit, NEW c \in Character, NEW id \in GuildId,
           guilds[id] \in GuildData, Remove(c, id)
    PROVE  AllFit'
  <1>1. NotIn \in NotIn .. Leader
    BY DEF NotIn, Leader
  <1> QED
    BY <1>1, RankFits DEF Remove

LEMMA TransferLeadershipFits ==
    ASSUME IInv, AllFit, NEW c \in Character, NEW d \in Character,
           TransferLeadership(c, d)
    PROVE  AllFit'
  <1> DEFINE id   == guildOf[c]
             rows == Transfer(guilds[id], c, d)
  <1>1. /\ id \in GuildId
        /\ guilds[id] \in GuildData
        /\ db[id] = guilds[id]
        /\ guilds[id].leader = c
        /\ guilds[id].rank[c] # NotIn
        /\ guilds[id].rank[d] # NotIn
    BY OwnGuild DEF TransferLeadership, IsLeader, IsIn, Officer, NotIn
  <1>2. Len(rows) = 3
    BY DEF Transfer
  <1>3. Written(id, rows, rows[3]) \/ Interrupted(id, rows)
    BY <1>1 DEF TransferLeadership
  <1>4. \A n \in 1 .. 3, e \in Character : rows[n].rank[e] = NotIn <=>
                                           guilds[id].rank[e] = NotIn
    BY <1>1, TransferRows
  <1> HIDE DEF rows, id
  <1>5. ASSUME NEW n \in 1 .. 3  PROVE Fitting(rows[n])
    <2>1. MembersOf(rows[n]) = MembersOf(guilds[id])
      BY <1>4 DEF MembersOf
    <2> QED
      BY <1>1, <2>1, SmallerFits DEF AllFit
  <1>6. 3 \in 1 .. 3
    OBVIOUS
  <1>7. Fitting(rows[3]) /\ \A n \in 1 .. Len(rows) : Fitting(rows[n])
    BY <1>2, <1>5, <1>6
  <1> QED
    BY <1>1, <1>3, <1>7, WritingFits DEF IInv, MapsAgree

\* The size is tested again at the answer, against the guild of that moment.
LEMMA AcceptInviteFits ==
    ASSUME IInv, AllFit, NEW c \in Character, AcceptInvite(c)
    PROVE  AllFit'
  <1> DEFINE id   == invite[c]
             row  == WithRank(guilds[id], c, Member)
             rows == <<row>>
  <1>1. /\ id \in GuildId
        /\ guilds[id] \in GuildData
        /\ db[id] = guilds[id]
        /\ Cardinality(MembersOf(guilds[id])) < MAX_GUILD_MEMBERS
    BY DEF IInv, MapsAgree, TypeOK, MemoryIsDatabase, AcceptInvite, MayJoin
  <1>2. Member \in NotIn .. Leader /\ Member # NotIn
    BY DEF Member, NotIn, Leader
  <1>3. MembersOf(row) = MembersOf(guilds[id]) \cup {c}
    BY <1>1, <1>2, MembersAfter
  <1>4. Written(id, rows, row) \/ Interrupted(id, rows)
    BY <1>1 DEF AcceptInvite
  <1> HIDE DEF row, id
  <1>5. Fitting(row)
    BY <1>1, <1>3, JoinedFits DEF AllFit
  <1>6. \A n \in 1 .. Len(rows) : Fitting(rows[n])
    BY <1>5
  <1> HIDE DEF rows
  <1> QED
    BY <1>1, <1>4, <1>5, <1>6, WritingFits DEF IInv, MapsAgree

LEMMA StepFits ==
    ASSUME IInv, AllFit, [Next]_vars
    PROVE  AllFit'
  <1>1. ASSUME NEW c \in Character,
               LeaveGuild(c) \/ \E d \in Character : KickMember(d, c)
        PROVE  AllFit'
    <2>1. CASE LeaveGuild(c)
      <3>1. CASE DisbandGuild(c)
        BY <3>1, DisbandGuildFits
      <3>2. CASE Remove(c, guildOf[c])
        BY <2>1, <3>2, OwnGuild, RemoveFits DEF LeaveGuild
      <3> QED
        BY <2>1, <3>1, <3>2 DEF LeaveGuild
    <2>2. ASSUME NEW d \in Character, KickMember(d, c)  PROVE AllFit'
      BY <2>2, OwnGuild, RemoveFits DEF KickMember, IsOfficer
    <2> QED
      BY <1>1, <2>1, <2>2
  <1>2. CASE UNCHANGED guilds
    BY <1>2 DEF AllFit, Fitting, MembersOf
  <1>3. CASE Restart
    BY <1>3 DEF Restart, StartFrom, IInv, MemoryIsDatabase, AllFit, Fitting, MembersOf
  <1>4. ASSUME NEW c \in Character,
               \/ EnterWorld(c) \/ LeaveWorld(c) \/ DeleteCharacter(c) \/ DeclineInvite(c)
               \/ \E d \in Character : InvitePlayer(c, d)
        PROVE  UNCHANGED guilds
    BY <1>4 DEF EnterWorld, LeaveWorld, DeleteCharacter, DeclineInvite, InvitePlayer
  <1> QED
    BY <1>1, <1>2, <1>3, <1>4, CreateGuildFits, DisbandGuildFits, AcceptInviteFits,
       PromoteMemberFits, TransferLeadershipFits, DemoteMemberFits DEF Next, vars

\* No guild ever has more than MAX_GUILD_MEMBERS members, whatever offers were
\* made and answered in between.
THEOREM GuildsAlwaysFit == Spec => []GuildFits
  <1>1. Init => AllFit
    BY DEF Init, AllFit, Fitting
  <1>2. IInv /\ AllFit /\ [Next]_vars => AllFit'
    BY StepFits
  <1>3. AllFit => GuildFits
    BY DEF AllFit, Fitting, GuildFits
  <1> QED
    BY <1>1, <1>2, <1>3, Invariant, PTL DEF Spec
=============================================================================
