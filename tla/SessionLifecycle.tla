-------------------------- MODULE SessionLifecycle --------------------------
(***************************************************************************)
(* The life of a client session: the accept gate, the state machine of     *)
(* Session, the state gate of PacketRouter, login with its duplicate-login *)
(* kick, character selection, entering and leaving the world, the three    *)
(* timeouts, removal, and the shutdown sequence.                           *)
(*                                                                         *)
(* The server runs all of this on one thread.  An iteration of its loop    *)
(* accepts connections, lets every session receive and handle packets,     *)
(* removes the sessions found closed, and perhaps ticks; "pc" says where   *)
(* in the iteration it is.  What interleaves is the clients: which packet  *)
(* is next, when a socket fails, and how much time passes.                 *)
(***************************************************************************)
EXTENDS Naturals, FiniteSets

CONSTANTS
    SessionId,              \* session objects that may exist at a time
    Account,                \* rows of the accounts table
    Char,                   \* character guids, never reused (AUTOINCREMENT)
    NoSession, NoAccount, NoChar,
    MaxConnections,         \* config value, the accept gate
    MaxCharacters,          \* MAX_CHARACTERS_PER_ACCOUNT
    AUTH_TIMEOUT_SECONDS, CHAR_SELECT_TIMEOUT, INWORLD_PING_TIMEOUT,
    MaxProgress             \* bound: in-memory changes made to a character

ASSUME SessionAssumption ==
    /\ NoSession \notin SessionId
    /\ NoAccount \notin Account
    /\ NoChar \notin Char
    /\ MaxConnections \in Nat
    /\ MaxCharacters \in Nat
    /\ MaxProgress \in Nat

\* The code's 30 s, 120 s and 300 s, in whatever unit a run counts.
ASSUME TimeoutAssumption ==
    /\ AUTH_TIMEOUT_SECONDS \in Nat
    /\ CHAR_SELECT_TIMEOUT \in Nat
    /\ INWORLD_PING_TIMEOUT \in Nat
    /\ AUTH_TIMEOUT_SECONDS <= INWORLD_PING_TIMEOUT
    /\ INWORLD_PING_TIMEOUT <= CHAR_SELECT_TIMEOUT

VARIABLES
    pc,         \* phase of the main loop
    state,      \* m_state of each session, "None" when it does not exist
    conn,       \* Session::isConnected(), the server's view of the socket
    account,    \* m_accountId
    player,     \* the character of m_player
    mem,        \* the progress held in that Player object
    idle,       \* now - m_lastActivity, capped
    pingAge,    \* now - m_lastPing, capped
    batch,      \* whose received packets are being handled, if anybody's
    toRemove,   \* sessionsToRemove of the current receive pass
    world,      \* WorldManager::m_players: guid -> the session of its Player
    row,        \* the characters table
    latest      \* history: the newest progress any Player of a guid held

vars == <<pc, state, conn, account, player, mem, idle, pingAge, batch,
          toRemove, world, row, latest>>

Phase == {"accept", "receive", "tick", "closing", "closed"}
Live  == {"Connected", "Authenticated", "InWorld", "Disconnecting"}

\* Every timeout is a ">" test, so ages beyond this cap behave alike.
AgeCap == CHAR_SELECT_TIMEOUT + 1
Age    == 0 .. AgeCap

Row == [status : {"unused", "live", "deleted"},
        owner  : Account \cup {NoAccount},
        progress : Nat]

TypeOK ==
    /\ pc \in Phase
    /\ state \in [SessionId -> Live \cup {"None"}]
    /\ conn \in [SessionId -> BOOLEAN]
    /\ account \in [SessionId -> Account \cup {NoAccount}]
    /\ player \in [SessionId -> Char \cup {NoChar}]
    /\ mem \in [SessionId -> Nat]
    /\ idle \in [SessionId -> Age]
    /\ pingAge \in [SessionId -> Age]
    /\ batch \in SessionId \cup {NoSession}
    /\ toRemove \subseteq SessionId
    /\ world \in [Char -> SessionId \cup {NoSession}]
    /\ row \in [Char -> Row]
    /\ latest \in [Char -> Nat]

Init ==
    /\ pc = "accept"
    /\ state = [s \in SessionId |-> "None"]
    /\ conn = [s \in SessionId |-> FALSE]
    /\ account = [s \in SessionId |-> NoAccount]
    /\ player = [s \in SessionId |-> NoChar]
    /\ mem = [s \in SessionId |-> 0]
    /\ idle = [s \in SessionId |-> 0]
    /\ pingAge = [s \in SessionId |-> 0]
    /\ batch = NoSession
    /\ toRemove = {}
    /\ world = [c \in Char |-> NoSession]
    /\ row = [c \in Char |->
                [status |-> "unused", owner |-> NoAccount, progress |-> 0]]
    /\ latest = [c \in Char |-> 0]

-----------------------------------------------------------------------------
(* Helpers shared by the handlers.                                         *)

Sessions == {s \in SessionId : state[s] # "None"}

\* Faulty variant: sessions at character select are not looked at.
FaultySessionsOf(a) ==
    {s \in Sessions : account[s] = a /\ state[s] = "InWorld"}

\* getSessionByAccountId / the search in kickDuplicateLogin.
SessionsOf(a) ==
    {s \in Sessions : account[s] = a /\ state[s] \in {"Authenticated", "InWorld"}}

\* The guids whose Player objects go away when the sessions of R lose theirs.
Leaving(R) == {player[s] : s \in R} \ {NoChar}

\* Faulty variant: the Player is deleted without being saved.
FaultySavedRow(R) == row

\* Session::clearPlayer for every session of R: the Player is despawned by
\* its guid, saved, and deleted.  What it does to chat, party, guild, duel and
\* trade is modelled in the modules of those systems.
SavedRow(R) ==
    [c \in Char |->
       IF c \in Leaving(R)
       THEN [row[c] EXCEPT !.progress = mem[CHOOSE s \in R : player[s] = c]]
       ELSE row[c]]

\* Faulty variant: the world keeps its entry when the Player is deleted.
FaultyClearPlayers(R) ==
    /\ player' = [s \in SessionId |-> IF s \in R THEN NoChar ELSE player[s]]
    /\ mem' = [s \in SessionId |-> IF s \in R THEN 0 ELSE mem[s]]
    /\ UNCHANGED world

ClearPlayers(R) ==
    /\ player' = [s \in SessionId |-> IF s \in R THEN NoChar ELSE player[s]]
    /\ mem' = [s \in SessionId |-> IF s \in R THEN 0 ELSE mem[s]]
    /\ world' = [c \in Char |-> IF c \in Leaving(R) THEN NoSession ELSE world[c]]

\* removeSession: the destructor clears the player, the socket goes with it.
RemoveSessions(R) ==
    /\ state' = [s \in SessionId |-> IF s \in R THEN "None" ELSE state[s]]
    /\ conn' = [s \in SessionId |-> IF s \in R THEN FALSE ELSE conn[s]]
    /\ account' = [s \in SessionId |-> IF s \in R THEN NoAccount ELSE account[s]]
    /\ idle' = [s \in SessionId |-> IF s \in R THEN 0 ELSE idle[s]]
    /\ pingAge' = [s \in SessionId |-> IF s \in R THEN 0 ELSE pingAge[s]]
    /\ ClearPlayers(R)

\* dispatch(): nothing is handled for a disconnecting session.  The socket is
\* looked at before a batch and not in it: when a send closes it, the rest of
\* the batch is handled all the same.
CanDispatch(s) ==
    /\ pc = "receive"
    /\ batch = s
    /\ state[s] # "Disconnecting"

\* checkState with allowHigherStates = FALSE.
ExactState(s, st) == CanDispatch(s) /\ state[s] = st

-----------------------------------------------------------------------------
(* The accept loop.                                                        *)

Accept(s) ==
    /\ pc = "accept"
    /\ Cardinality(Sessions) < MaxConnections
    /\ state[s] = "None"
    /\ state' = [state EXCEPT ![s] = "Connected"]
    /\ conn' = [conn EXCEPT ![s] = TRUE]
    /\ idle' = [idle EXCEPT ![s] = 0]
    /\ pingAge' = [pingAge EXCEPT ![s] = 0]
    /\ UNCHANGED <<pc, account, player, mem, batch, toRemove, world, row,
                   latest>>

StartReceive ==
    /\ pc = "accept"
    /\ pc' = "receive"
    /\ UNCHANGED <<state, conn, account, player, mem, idle, pingAge, batch,
                   toRemove, world, row, latest>>

-----------------------------------------------------------------------------
(* The receive pass: packet handlers.                                      *)

\* receive() on an open socket: what has arrived is handled next.
Receive(s) ==
    /\ pc = "receive"
    /\ s \in Sessions \ toRemove
    /\ conn[s]
    /\ batch' = s
    /\ UNCHANGED <<pc, state, conn, account, player, mem, idle, pingAge, toRemove,
                   world, row, latest>>

\* A packet whose handling changes nothing here but the activity stamp: a
\* failed login, a character list, a rejected request.
OtherPacket(s) ==
    /\ CanDispatch(s)
    /\ idle' = [idle EXCEPT ![s] = 0]
    /\ UNCHANGED <<pc, state, conn, account, player, mem, pingAge, batch,
                   toRemove, world, row, latest>>

\* handlePing: allowed from Connected upwards.
Ping(s) ==
    /\ CanDispatch(s)
    /\ idle' = [idle EXCEPT ![s] = 0]
    /\ pingAge' = [pingAge EXCEPT ![s] = 0]
    /\ UNCHANGED <<pc, state, conn, account, player, mem, batch, toRemove,
                   world, row, latest>>

\* Faulty variant: nobody is kicked.
FaultyKickDuplicateLogin(a, kicked) == kicked = {}

\* kickDuplicateLogin: the first match is disconnected and loses its Player;
\* its socket is left open.
KickDuplicateLogin(a, kicked) ==
    IF SessionsOf(a) = {} THEN kicked = {}
    ELSE \E e \in SessionsOf(a) : kicked = {e}

\* handleAuthenticate with valid credentials.
Authenticate(s, a) ==
    /\ ExactState(s, "Connected")
    /\ \E kicked \in SUBSET SessionId :
         /\ KickDuplicateLogin(a, kicked)
         /\ row' = SavedRow(kicked)
         /\ ClearPlayers(kicked)
         /\ state' = [t \in SessionId |-> IF t = s THEN "Authenticated"
                                          ELSE IF t \in kicked THEN "Disconnecting"
                                          ELSE state[t]]
         /\ idle' = [t \in SessionId |-> IF t \in kicked \cup {s} THEN 0
                                                                  ELSE idle[t]]
    /\ account' = [account EXCEPT ![s] = a]
    /\ UNCHANGED <<pc, conn, pingAge, batch, toRemove, latest>>

CharactersOf(a) == {c \in Char : row[c].owner = a /\ row[c].status = "live"}

\* handleCharCreate with a valid, free name; the insert takes an unused guid.
CreateCharacter(s, c) ==
    /\ ExactState(s, "Authenticated")
    /\ Cardinality(CharactersOf(account[s])) < MaxCharacters
    /\ row[c].status = "unused"
    /\ row' = [row EXCEPT ![c] = [status |-> "live", owner |-> account[s],
                                  progress |-> 0]]
    /\ idle' = [idle EXCEPT ![s] = 0]
    /\ UNCHANGED <<pc, state, conn, account, player, mem, pingAge, batch,
                   toRemove, world, latest>>

\* handleDeleteCharacter: deleteCharacter() verifies the owner.
DeleteCharacter(s, c) ==
    /\ ExactState(s, "Authenticated")
    /\ c \in CharactersOf(account[s])
    /\ row' = [row EXCEPT ![c].status = "deleted"]
    /\ idle' = [idle EXCEPT ![s] = 0]
    /\ UNCHANGED <<pc, state, conn, account, player, mem, pingAge, batch,
                   toRemove, world, latest>>

\* handleEnterWorld for a character of the session's own account: the Player
\* is loaded from its row and takes its guid's place in the world.
EnterWorld(s, c) ==
    /\ ExactState(s, "Authenticated")
    /\ c \in CharactersOf(account[s])
    /\ player' = [player EXCEPT ![s] = c]
    /\ mem' = [mem EXCEPT ![s] = row[c].progress]
    /\ world' = [world EXCEPT ![c] = s]
    /\ state' = [state EXCEPT ![s] = "InWorld"]
    /\ idle' = [idle EXCEPT ![s] = 0]
    /\ UNCHANGED <<pc, conn, account, pingAge, batch, toRemove, row, latest>>

\* Any world packet that changes the Player in memory.
Play(s) ==
    /\ ExactState(s, "InWorld")
    /\ mem[s] < MaxProgress
    /\ mem' = [mem EXCEPT ![s] = @ + 1]
    /\ latest' = [latest EXCEPT ![player[s]] = mem[s] + 1]
    /\ idle' = [idle EXCEPT ![s] = 0]
    /\ UNCHANGED <<pc, state, conn, account, player, pingAge, batch, toRemove,
                   world, row>>

-----------------------------------------------------------------------------
(* The receive pass: sockets found closed, and its end.                    *)

\* receive() hits end of file or an error: the socket is closed and the
\* session listed; bytes read in the same call are not handled.
ReceiveClosed(s) ==
    /\ pc = "receive"
    /\ s \in Sessions \ toRemove
    /\ conn' = [conn EXCEPT ![s] = FALSE]
    /\ batch' = NoSession
    /\ toRemove' = toRemove \cup {s}
    /\ UNCHANGED <<pc, state, account, player, mem, idle, pingAge, world, row,
                   latest>>

\* A send to s, by any handler or by the tick, fails and closes the socket.
\* The session is not listed until somebody looks at it.
SendFails(s) ==
    /\ pc \in {"receive", "tick"}
    /\ s \in Sessions
    /\ conn[s]
    /\ state[s] # "Disconnecting"
    /\ conn' = [conn EXCEPT ![s] = FALSE]
    /\ UNCHANGED <<pc, state, account, player, mem, idle, pingAge, batch,
                   toRemove, world, row, latest>>

EndReceive ==
    /\ pc = "receive"
    /\ pc' = "tick"
    /\ row' = SavedRow(toRemove)
    /\ RemoveSessions(toRemove)
    /\ batch' = NoSession
    /\ toRemove' = {}
    /\ UNCHANGED latest

-----------------------------------------------------------------------------
(* The tick: SessionManager::update, then the periodic saves of the world. *)

\* Faulty variant: a session the server itself disconnected is not removed.
FaultyShouldRemove(s) == ~conn[s] /\ state[s] # "Disconnecting"

ShouldRemove(s) == ~conn[s]

\* Faulty variant: no timeout at character select.
FaultyIsTimedOut(s) ==
    CASE state[s] = "Connected" -> idle[s] > AUTH_TIMEOUT_SECONDS
      [] state[s] = "InWorld"   -> pingAge[s] > INWORLD_PING_TIMEOUT
      [] OTHER                  -> FALSE

IsTimedOut(s) ==
    CASE state[s] = "Connected"     -> idle[s] > AUTH_TIMEOUT_SECONDS
      [] state[s] = "Authenticated" -> idle[s] > CHAR_SELECT_TIMEOUT
      [] state[s] = "InWorld"       -> pingAge[s] > INWORLD_PING_TIMEOUT
      [] OTHER                      -> FALSE

Expired == {s \in Sessions : ShouldRemove(s) \/ IsTimedOut(s)}

\* Player::update saves a Player whose 30 s are up and that needs saving.
SavedByUpdate(S, r) ==
    [c \in Char |-> IF world[c] \in S
                    THEN [r[c] EXCEPT !.progress = mem[world[c]]]
                    ELSE r[c]]

Tick ==
    /\ pc = "tick"
    /\ pc' = "accept"
    /\ RemoveSessions(Expired)
    /\ \E due \in SUBSET (Sessions \ Expired) :
         row' = SavedByUpdate(due, SavedRow(Expired))
    /\ UNCHANGED <<batch, toRemove, latest>>

\* GameClock::tick() says it is not time yet.
SkipTick ==
    /\ pc = "tick"
    /\ pc' = "accept"
    /\ UNCHANGED <<state, conn, account, player, mem, idle, pingAge, batch,
                   toRemove, world, row, latest>>

Older(s, age) == IF s \in Sessions /\ age < AgeCap THEN age + 1 ELSE age

\* The wall clock moves while the loop sleeps.
TimePasses ==
    /\ pc = "accept"
    /\ idle' = [s \in SessionId |-> Older(s, idle[s])]
    /\ pingAge' = [s \in SessionId |-> Older(s, pingAge[s])]
    /\ UNCHANGED <<pc, state, conn, account, player, mem, batch, toRemove,
                   world, row, latest>>

-----------------------------------------------------------------------------
(* Shutdown: the loop ends, sessions lose their Players, the database      *)
(* closes.  Session objects outlive it and are destroyed with the process. *)

DisconnectAll ==
    /\ pc = "accept"
    /\ pc' = "closing"
    /\ LET hit == {s \in Sessions : state[s] # "Disconnecting"} IN
         /\ row' = SavedRow(hit)
         /\ ClearPlayers(hit)
         /\ state' = [s \in SessionId |-> IF s \in hit THEN "Disconnecting"
                                                      ELSE state[s]]
         /\ conn' = [s \in SessionId |-> IF s \in hit THEN FALSE ELSE conn[s]]
    /\ UNCHANGED <<account, idle, pingAge, batch, toRemove, latest>>

CloseDatabase ==
    /\ pc = "closing"
    /\ pc' = "closed"
    /\ UNCHANGED <<state, conn, account, player, mem, idle, pingAge, batch,
                   toRemove, world, row, latest>>

-----------------------------------------------------------------------------
(* The specification.                                                      *)

Packet(s) ==
    \/ OtherPacket(s)
    \/ Ping(s)
    \/ Play(s)
    \/ \E a \in Account : Authenticate(s, a)
    \/ \E c \in Char : CreateCharacter(s, c)
    \/ \E c \in Char : DeleteCharacter(s, c)
    \/ \E c \in Char : EnterWorld(s, c)

Network(s) == Accept(s) \/ Receive(s) \/ ReceiveClosed(s) \/ SendFails(s)

\* The steps the main loop takes whatever the clients do.
Loop == StartReceive \/ EndReceive \/ Tick \/ SkipTick

Next ==
    \/ \E s \in SessionId : Packet(s) \/ Network(s)
    \/ Loop
    \/ TimePasses
    \/ DisconnectAll
    \/ CloseDatabase

\* The loop never stops by itself, it ticks again and again, and time passes;
\* no client has to do anything.
Fairness ==
    /\ WF_vars(StartReceive)
    /\ WF_vars(EndReceive)
    /\ WF_vars(Tick \/ SkipTick)
    /\ SF_vars(Tick)
    /\ SF_vars(TimePasses)

Spec == Init /\ [][Next]_vars

FairSpec == Spec /\ Fairness

-----------------------------------------------------------------------------
(* Safety.                                                                 *)

\* An account plays from one place: MAX_SESSIONS_PER_ACCOUNT is 1, and the
\* login handler kicks before it authenticates.
OneSessionPerAccount ==
    \A s, t \in Sessions :
        /\ account[s] # NoAccount /\ account[s] = account[t]
        /\ state[s] # "Disconnecting" /\ state[t] # "Disconnecting"
        => s = t

\* A character in the world still has its row, and the row belongs to the
\* account that plays it: nobody deletes a character that is being played.
PlayedCharacterExists ==
    \A c \in Char : world[c] # NoSession =>
        /\ row[c].status = "live"
        /\ row[c].owner = account[world[c]]

\* Sessions, Players, WorldManager::m_players and the rows agree: exactly the
\* InWorld sessions hold a Player, and the world's entry for a guid is the one
\* session that holds it, so a lookup by guid never yields a deleted Player,
\* and what is played exists.
WorldMatchesSessions ==
    /\ TypeOK
    /\ \A s \in SessionId : (state[s] = "InWorld") <=> (player[s] # NoChar)
    /\ \A s \in SessionId, c \in Char : (player[s] = c) <=> (world[c] = s)
    /\ PlayedCharacterExists

\* Whatever way a Player leaves the world (kick, timeout, lost connection,
\* shutdown), its row then holds its newest progress; the Player of a
\* character in the world is the newest there is; and once the database is
\* closed there is no Player left that a destructor might want to save.
NoLostProgress ==
    /\ \A c \in Char :
         IF world[c] = NoSession THEN row[c].progress = latest[c]
                                 ELSE mem[world[c]] = latest[c]
    /\ pc = "closed" => \A s \in SessionId : player[s] = NoChar

-----------------------------------------------------------------------------
(* Action properties.                                                      *)

\* A character changes hands only through the database: the session that
\* enters it finds it out of the world.
HandoverThroughDatabase ==
    [][\A c \in Char : world[c] # NoSession =>
          world'[c] \in {world[c], NoSession}]_vars

-----------------------------------------------------------------------------
(* Liveness.                                                               *)

ShuttingDown == pc \in {"closing", "closed"}

\* A session whose socket the server has closed is removed: its slot is
\* counted by the accept gate, and its Player is still in the world.
ClosedIsRemoved ==
    \A s \in SessionId :
        (s \in Sessions /\ ~conn[s]) ~> (s \notin Sessions \/ ShuttingDown)

\* A client that handles no more packets is removed by the timeout of its
\* state, unless a duplicate login kicked it first.
SilentIsRemoved ==
    \A s \in SessionId :
        <>[][~Packet(s)]_vars =>
            []<>(s \notin Sessions \/ state[s] = "Disconnecting" \/ ShuttingDown)
=============================================================================
