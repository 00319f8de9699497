---------------------------- MODULE Session_proof ----------------------------
(***************************************************************************)
(* Proofs about SessionLifecycle, for any sessions, accounts, characters,  *)
(* limits and timeouts, and about AsyncSaver, for any save operations.     *)
(*                                                                         *)
(* The safety properties of the sessions need each other: that an account  *)
(* plays from one place is why nobody enters or deletes a character in     *)
(* play, which is why the world's entry and the session's pointer agree,   *)
(* which is why a save writes the newest progress.  They are proved as one *)
(* invariant.                                                              *)
(*                                                                         *)
(* In the saver a save moves from the queue to the hand of one thread and  *)
(* from there to the log.  Each step takes it out of one place and puts it *)
(* into the next, so that it is in one place only and is performed once.   *)
(* That stop leaves nothing behind needs to know besides which thread may  *)
(* be where: InPlace says so.                                              *)
(***************************************************************************)
EXTENDS SessionLifecycle, AsyncSaver, SequenceTheorems, TLAPS

LoggedInState == {"Authenticated", "InWorld"}

\* A session has an account from login on.
AccountMatchesState ==
    \A s \in SessionId :
        /\ state[s] \in {"None", "Connected"} => account[s] = NoAccount
        /\ state[s] \in LoggedInState => account[s] # NoAccount

\* OneSessionPerAccount, without the sessions that have no account.
OneEach ==
    \A s, t \in SessionId :
        state[s] \in LoggedInState /\ state[t] \in LoggedInState /\ account[s] = account[t]
          => s = t

\* Sessions and the world agree on who is played.
Agree ==
    /\ \A s \in SessionId : (state[s] = "InWorld") <=> (player[s] # NoChar)
    /\ \A s \in SessionId, c \in Char : (player[s] = c) <=> (world[c] = s)

Progress ==
    \A c \in Char :
        /\ world[c] = NoSession => row[c].progress = latest[c]
        /\ world[c] # NoSession => mem[world[c]] = latest[c]

\* A guid that was never used has no progress behind it.
UnusedIsFresh == \A c \in Char : row[c].status = "unused" => latest[c] = 0

\* Nobody plays once the shutdown has begun.
NobodyAfterShutdown == pc \in {"closing", "closed"} => \A s \in SessionId : player[s] = NoChar

IInv ==
    /\ TypeOK
    /\ AccountMatchesState
    /\ OneEach
    /\ Agree
    /\ PlayedCharacterExists
    /\ Progress
    /\ UnusedIsFresh
    /\ NobodyAfterShutdown

LEMMA InitIInv ==
    ASSUME Init
    PROVE  IInv
<1>1. TypeOK
  <2>1. 0 \in Age
    BY TimeoutAssumption DEF Age, AgeCap
  <2>2. QED
    BY <2>1 DEF Init, TypeOK, Phase, Live, Row
<1>2. AccountMatchesState /\ OneEach
  BY DEF Init, AccountMatchesState, OneEach, LoggedInState
<1>3. Agree /\ PlayedCharacterExists
  BY SessionAssumption DEF Init, Agree, PlayedCharacterExists
<1>4. Progress /\ UnusedIsFresh /\ NobodyAfterShutdown
  BY DEF Init, Progress, UnusedIsFresh, NobodyAfterShutdown
<1>5. QED
  BY <1>1, <1>2, <1>3, <1>4 DEF IInv

-----------------------------------------------------------------------------
(* Players that are cleared, and rows that are saved.                      *)

\* The guids that leave the world are those whose entry is a session of R.
LEMMA LeavingIs ==
    ASSUME TypeOK, Agree, NEW R \in SUBSET SessionId, NEW c \in Char
    PROVE  c \in Leaving(R) <=> world[c] \in R
<1>1. c # NoChar
  BY SessionAssumption
<1>2. ASSUME c \in Leaving(R)
      PROVE  world[c] \in R
  <2>1. PICK s \in R : player[s] = c
    BY <1>2 DEF Leaving
  <2>2. QED
    BY <2>1 DEF Agree
<1>3. ASSUME world[c] \in R
      PROVE  c \in Leaving(R)
  <2>1. player[world[c]] = c
    BY <1>3 DEF Agree
  <2>2. QED
    BY <1>1, <1>3, <2>1 DEF Leaving
<1>4. QED
  BY <1>2, <1>3

\* What saving the players of R does to the rows.
Saves(R) ==
    /\ row' \in [Char -> Row]
    /\ \A c \in Char :
         /\ row'[c].status = row[c].status
         /\ row'[c].owner = row[c].owner
         /\ world[c] \in R => row'[c].progress = mem[world[c]]
         /\ world[c] = NoSession => row'[c].progress = row[c].progress

\* The rows clearPlayer writes hold what the players of R held.
LEMMA SavedRowIs ==
    ASSUME TypeOK, Agree, NEW R \in SUBSET SessionId
    PROVE  SavedRow(R) = [c \in Char |->
             IF world[c] \in R THEN [row[c] EXCEPT !.progress = mem[world[c]]] ELSE row[c]]
<1> DEFINE Holder(c) == CHOOSE s \in R : player[s] = c
<1>1. ASSUME NEW c \in Char, c \in Leaving(R)
      PROVE  Holder(c) = world[c]
  <2>1. world[c] \in R
    BY <1>1, LeavingIs
  <2>2. player[world[c]] = c
    BY <2>1 DEF Agree
  <2>3. \A s \in R : player[s] = c => s = world[c]
    BY DEF Agree
  <2>4. QED
    BY <2>1, <2>2, <2>3
<1>2. SavedRow(R) = [c \in Char |->
        IF c \in Leaving(R) THEN [row[c] EXCEPT !.progress = mem[Holder(c)]] ELSE row[c]]
  BY DEF SavedRow
<1> HIDE DEF Holder
<1>3. ASSUME NEW c \in Char
      PROVE  (IF c \in Leaving(R)
              THEN [row[c] EXCEPT !.progress = mem[Holder(c)]]
              ELSE row[c])
             = IF world[c] \in R THEN [row[c] EXCEPT !.progress = mem[world[c]]] ELSE row[c]
  BY <1>1, LeavingIs
<1>4. QED
  BY <1>2, <1>3

LEMMA ClearingSaves ==
    ASSUME TypeOK, Agree, NEW R \in SUBSET SessionId, row' = SavedRow(R)
    PROVE  Saves(R)
<1> DEFINE Saved(c) ==
        IF world[c] \in R THEN [row[c] EXCEPT !.progress = mem[world[c]]] ELSE row[c]
<1>1. row' = [c \in Char |-> Saved(c)]
  BY SavedRowIs
<1>2. NoSession \notin R
  BY SessionAssumption
<1>3. ASSUME NEW c \in Char
      PROVE  /\ Saved(c) \in Row
             /\ Saved(c).status = row[c].status
             /\ Saved(c).owner = row[c].owner
             /\ world[c] \in R => Saved(c).progress = mem[world[c]]
             /\ world[c] = NoSession => Saved(c).progress = row[c].progress
  BY <1>2 DEF TypeOK, Row
<1> HIDE DEF Saved
<1>4. [c \in Char |-> Saved(c)] \in [Char -> Row]
  BY <1>3
<1>5. QED
  BY <1>1, <1>3, <1>4 DEF Saves

\* So does the tick, which saves some of the players that stay as well.
LEMMA TickSaves ==
    ASSUME TypeOK, Agree, NEW R \in SUBSET SessionId, NEW due \in SUBSET SessionId,
           row' = SavedByUpdate(due, SavedRow(R))
    PROVE  Saves(R)
<1> DEFINE Saved(c) ==
        IF world[c] \in R THEN [row[c] EXCEPT !.progress = mem[world[c]]] ELSE row[c]
<1> DEFINE Ticked(c) ==
        IF world[c] \in due THEN [Saved(c) EXCEPT !.progress = mem[world[c]]] ELSE Saved(c)
<1>1. SavedRow(R) = [c \in Char |-> Saved(c)]
  BY SavedRowIs
<1>2. NoSession \notin R /\ NoSession \notin due
  BY SessionAssumption
<1>3. ASSUME NEW c \in Char
      PROVE  /\ Saved(c) \in Row
             /\ Saved(c).status = row[c].status
             /\ Saved(c).owner = row[c].owner
             /\ world[c] \in R => Saved(c).progress = mem[world[c]]
             /\ world[c] = NoSession => Saved(c).progress = row[c].progress
  BY <1>2 DEF TypeOK, Row
<1> HIDE DEF Saved
<1>4. row' = [c \in Char |-> Ticked(c)]
  BY <1>1 DEF SavedByUpdate
<1>5. ASSUME NEW c \in Char
      PROVE  /\ Ticked(c) \in Row
             /\ Ticked(c).status = row[c].status
             /\ Ticked(c).owner = row[c].owner
             /\ world[c] \in R => Ticked(c).progress = mem[world[c]]
             /\ world[c] = NoSession => Ticked(c).progress = row[c].progress
  BY <1>2, <1>3 DEF TypeOK, Row
<1> HIDE DEF Ticked
<1>6. [c \in Char |-> Ticked(c)] \in [Char -> Row]
  BY <1>5
<1>7. QED
  BY <1>4, <1>5, <1>6 DEF Saves

\* When the players of R are saved and cleared, the world still agrees with the
\* sessions, and whatever has left it is in its row.
LEMMA Clears ==
    ASSUME TypeOK, Agree, Progress, UnusedIsFresh, NEW R \in SUBSET SessionId,
           ClearPlayers(R), Saves(R), UNCHANGED latest
    PROVE  /\ player' \in [SessionId -> Char \cup {NoChar}]
           /\ mem' \in [SessionId -> Nat]
           /\ world' \in [Char -> SessionId \cup {NoSession}]
           /\ \A s \in SessionId : player'[s] = IF s \in R THEN NoChar ELSE player[s]
           /\ \A c \in Char : world'[c] = IF world[c] \in R THEN NoSession ELSE world[c]
           /\ \A s \in SessionId, c \in Char : (player'[s] = c) <=> (world'[c] = s)
           /\ Progress'
           /\ UnusedIsFresh'
<1>1. \A s \in SessionId : player'[s] = IF s \in R THEN NoChar ELSE player[s]
  BY DEF ClearPlayers
<1>2. \A s \in SessionId : mem'[s] = IF s \in R THEN 0 ELSE mem[s]
  BY DEF ClearPlayers
<1>3. \A c \in Char : world'[c] = IF world[c] \in R THEN NoSession ELSE world[c]
  BY LeavingIs DEF ClearPlayers
<1>4. player' \in [SessionId -> Char \cup {NoChar}] /\ mem' \in [SessionId -> Nat]
  BY DEF ClearPlayers, TypeOK
<1>5. world' \in [Char -> SessionId \cup {NoSession}]
  BY DEF ClearPlayers, TypeOK
<1>6. ASSUME NEW s \in SessionId, NEW c \in Char
      PROVE  (player'[s] = c) <=> (world'[c] = s)
  BY <1>1, <1>3, SessionAssumption DEF Agree
<1>7. ASSUME NEW c \in Char
      PROVE  /\ world'[c] = NoSession => row'[c].progress = latest'[c]
             /\ world'[c] # NoSession => mem'[world'[c]] = latest'[c]
  <2>1. CASE world[c] = NoSession
    BY <1>3, <2>1, SessionAssumption DEF Saves, Progress
  <2>2. CASE world[c] \in R
    <3>1. world[c] # NoSession
      BY <2>2, SessionAssumption
    <3>2. mem[world[c]] = latest[c]
      BY <3>1 DEF Progress
    <3>3. QED
      BY <1>3, <2>2, <3>2 DEF Saves
  <2>3. CASE world[c] # NoSession /\ world[c] \notin R
    <3>1. world[c] \in SessionId /\ mem[world[c]] = latest[c]
      BY <2>3 DEF TypeOK, Progress
    <3>2. QED
      BY <1>2, <1>3, <2>3, <3>1
  <2>4. QED
    BY <2>1, <2>2, <2>3
<1>8. UnusedIsFresh'
  BY DEF Saves, UnusedIsFresh
<1>9. Progress'
  BY <1>7 DEF Progress
<1>10. QED
  BY <1>1, <1>3, <1>4, <1>5, <1>6, <1>8, <1>9

-----------------------------------------------------------------------------
(* The steps.                                                              *)

\* A step that only touches sockets, clocks, the phase and the list of
\* sessions to remove.
LEMMA Quiet ==
    ASSUME IInv, UNCHANGED <<state, account, player, mem, world, row, latest>>,
           pc' \in Phase, conn' \in [SessionId -> BOOLEAN],
           idle' \in [SessionId -> Age], pingAge' \in [SessionId -> Age],
           batch' \in SessionId \cup {NoSession}, toRemove' \subseteq SessionId,
           pc' \in {"closing", "closed"} => pc \in {"closing", "closed"}
    PROVE  IInv'
<1>1. TypeOK'
  BY DEF IInv, TypeOK
<1>2. AccountMatchesState' /\ OneEach'
  BY DEF IInv, AccountMatchesState, OneEach
<1>3. Agree' /\ PlayedCharacterExists'
  BY DEF IInv, Agree, PlayedCharacterExists
<1>4. Progress' /\ UnusedIsFresh' /\ NobodyAfterShutdown'
  BY DEF IInv, Progress, UnusedIsFresh, NobodyAfterShutdown
<1>5. QED
  BY <1>1, <1>2, <1>3, <1>4 DEF IInv

LEMMA ZeroIsAge == 0 \in Age
BY TimeoutAssumption DEF Age, AgeCap

\* Time only grows older what exists, up to the cap.
LEMMA OlderIsAge ==
    ASSUME NEW s \in SessionId, NEW age \in Age
    PROVE  Older(s, age) \in Age
BY TimeoutAssumption DEF Older, Age, AgeCap

LEMMA QuietSteps ==
    ASSUME IInv,
           \/ \E s \in SessionId :
                \/ OtherPacket(s) \/ Ping(s)
                \/ Receive(s) \/ ReceiveClosed(s) \/ SendFails(s)
           \/ StartReceive \/ SkipTick \/ TimePasses \/ CloseDatabase
           \/ UNCHANGED vars
    PROVE  IInv'
<1>1. TypeOK
  BY DEF IInv
<1>2. ASSUME NEW s \in SessionId, OtherPacket(s)
      PROVE  IInv'
  <2>1. idle' \in [SessionId -> Age]
    BY <1>1, <1>2, ZeroIsAge DEF OtherPacket, TypeOK
  <2>2. QED
    BY <1>1, <1>2, <2>1, Quiet DEF OtherPacket, TypeOK
<1>3. ASSUME NEW s \in SessionId, Ping(s)
      PROVE  IInv'
  <2>1. idle' \in [SessionId -> Age] /\ pingAge' \in [SessionId -> Age]
    BY <1>1, <1>3, ZeroIsAge DEF Ping, TypeOK
  <2>2. QED
    BY <1>1, <1>3, <2>1, Quiet DEF Ping, TypeOK
<1>4. ASSUME NEW s \in SessionId, ReceiveClosed(s)
      PROVE  IInv'
  <2>1. conn' \in [SessionId -> BOOLEAN] /\ toRemove' \subseteq SessionId
    BY <1>1, <1>4 DEF ReceiveClosed, TypeOK
  <2>2. QED
    BY <1>1, <1>4, <2>1, Quiet DEF ReceiveClosed, TypeOK
<1>5. ASSUME NEW s \in SessionId, SendFails(s)
      PROVE  IInv'
  <2>1. conn' \in [SessionId -> BOOLEAN]
    BY <1>1, <1>5 DEF SendFails, TypeOK
  <2>2. QED
    BY <1>1, <1>5, <2>1, Quiet DEF SendFails, TypeOK
<1>6. CASE StartReceive
  BY <1>1, <1>6, Quiet DEF StartReceive, TypeOK, Phase
<1>7. CASE SkipTick
  BY <1>1, <1>7, Quiet DEF SkipTick, TypeOK, Phase
<1>8. CASE TimePasses
  <2>1. \A s \in SessionId : idle[s] \in Age /\ pingAge[s] \in Age
    BY <1>1 DEF TypeOK
  <2>2. idle' \in [SessionId -> Age]
    BY <1>8, <2>1, OlderIsAge DEF TimePasses
  <2>3. pingAge' \in [SessionId -> Age]
    BY <1>8, <2>1, OlderIsAge DEF TimePasses
  <2>4. QED
    BY <1>1, <1>8, <2>2, <2>3, Quiet DEF TimePasses, TypeOK
<1>9. CASE CloseDatabase
  BY <1>1, <1>9, Quiet DEF CloseDatabase, TypeOK, Phase
<1>10. CASE UNCHANGED vars
  BY <1>1, <1>10, Quiet DEF vars, TypeOK
<1>11. ASSUME NEW s \in SessionId, Receive(s)
       PROVE  IInv'
  BY <1>1, <1>11, Quiet DEF Receive, TypeOK
<1>12. QED
  BY <1>2, <1>3, <1>4, <1>5, <1>6, <1>7, <1>8, <1>9, <1>10, <1>11

\* A new session has no account and no Player.
LEMMA AcceptKeepsIInv ==
    ASSUME IInv, NEW s \in SessionId, Accept(s)
    PROVE  IInv'
<1>1. state[s] = "None" /\ \A t \in SessionId :
        state'[t] = IF t = s THEN "Connected" ELSE state[t]
  BY DEF Accept, IInv, TypeOK
<1>2. TypeOK'
  <2>1. state' \in [SessionId -> Live \cup {"None"}] /\ conn' \in [SessionId -> BOOLEAN]
    BY DEF Accept, IInv, TypeOK, Live
  <2>2. idle' \in [SessionId -> Age] /\ pingAge' \in [SessionId -> Age]
    BY ZeroIsAge DEF Accept, IInv, TypeOK
  <2>3. QED
    BY <2>1, <2>2 DEF Accept, IInv, TypeOK
<1>3. AccountMatchesState' /\ OneEach'
  BY <1>1 DEF Accept, IInv, AccountMatchesState, OneEach, LoggedInState
<1>4. Agree'
  BY <1>1 DEF Accept, IInv, Agree
<1>5. PlayedCharacterExists'
  BY DEF Accept, IInv, PlayedCharacterExists
<1>6. Progress' /\ UnusedIsFresh' /\ NobodyAfterShutdown'
  BY DEF Accept, IInv, Progress, UnusedIsFresh, NobodyAfterShutdown
<1>7. QED
  BY <1>2, <1>3, <1>4, <1>5, <1>6 DEF IInv

\* The kick leaves nobody else who is logged in to the account.
LEMMA AuthenticateKeepsIInv ==
    ASSUME IInv, NEW s \in SessionId, NEW a \in Account, Authenticate(s, a)
    PROVE  IInv'
<1>1. PICK kicked \in SUBSET SessionId :
         /\ KickDuplicateLogin(a, kicked)
         /\ row' = SavedRow(kicked)
         /\ ClearPlayers(kicked)
         /\ state' = [t \in SessionId |-> IF t = s THEN "Authenticated"
                                          ELSE IF t \in kicked THEN "Disconnecting"
                                          ELSE state[t]]
         /\ idle' = [t \in SessionId |-> IF t \in kicked \cup {s} THEN 0
                                                                  ELSE idle[t]]
  BY DEF Authenticate
<1>2. /\ state[s] = "Connected" /\ pc = "receive" /\ account' = [account EXCEPT ![s] = a]
      /\ UNCHANGED <<pc, conn, pingAge, batch, toRemove, latest>>
  BY DEF Authenticate, ExactState, CanDispatch
<1>3. TypeOK /\ Agree /\ Progress /\ UnusedIsFresh /\ AccountMatchesState /\ OneEach
      /\ PlayedCharacterExists
  BY DEF IInv
<1>4. Saves(kicked)
  BY <1>1, <1>3, ClearingSaves
<1>5. /\ player' \in [SessionId -> Char \cup {NoChar}]
      /\ mem' \in [SessionId -> Nat]
      /\ world' \in [Char -> SessionId \cup {NoSession}]
      /\ \A t \in SessionId : player'[t] = IF t \in kicked THEN NoChar ELSE player[t]
      /\ \A c \in Char : world'[c] = IF world[c] \in kicked THEN NoSession ELSE world[c]
      /\ \A t \in SessionId, c \in Char : (player'[t] = c) <=> (world'[c] = t)
      /\ Progress'
      /\ UnusedIsFresh'
  BY <1>1, <1>2, <1>3, <1>4, Clears
<1>6. \A t \in SessionId :
        /\ state'[t] = IF t = s THEN "Authenticated"
                       ELSE IF t \in kicked THEN "Disconnecting" ELSE state[t]
        /\ account'[t] = IF t = s THEN a ELSE account[t]
  BY <1>1, <1>2, <1>3 DEF TypeOK
<1>7. \A t \in kicked : t # s /\ state[t] \in LoggedInState /\ account[t] = a
  BY <1>1, <1>2 DEF KickDuplicateLogin, SessionsOf, LoggedInState
<1>8. ASSUME NEW t \in SessionId \ kicked, state[t] \in LoggedInState
      PROVE  account[t] # a
  <2>1. SUFFICES ASSUME account[t] = a
                 PROVE  FALSE
    OBVIOUS
  <2>2. t \in SessionsOf(a)
    BY <1>8, <2>1 DEF SessionsOf, Sessions, LoggedInState
  <2>3. PICK e \in SessionsOf(a) : kicked = {e}
    BY <1>1, <2>2 DEF KickDuplicateLogin
  <2>4. e \in SessionId /\ state[e] \in LoggedInState /\ account[e] = a
    BY <2>3 DEF SessionsOf, Sessions, LoggedInState
  <2>5. e = t
    BY <1>3, <1>8, <2>1, <2>4 DEF OneEach
  <2>6. QED
    BY <1>8, <2>3, <2>5
<1>9. TypeOK'
  <2>1. state' \in [SessionId -> Live \cup {"None"}]
    BY <1>1, <1>3 DEF TypeOK, Live
  <2>2. idle' \in [SessionId -> Age]
    BY <1>1, <1>3, ZeroIsAge DEF TypeOK
  <2>3. account' \in [SessionId -> Account \cup {NoAccount}]
    BY <1>2, <1>3 DEF TypeOK
  <2>4. row' \in [Char -> Row] /\ latest' \in [Char -> Nat]
    BY <1>2, <1>3, <1>4 DEF Saves, TypeOK
  <2>5. QED
    BY <1>2, <1>3, <1>5, <2>1, <2>2, <2>3, <2>4 DEF TypeOK
<1>10. AccountMatchesState'
  BY <1>3, <1>6, <1>7, SessionAssumption DEF AccountMatchesState, LoggedInState
<1>11. OneEach'
  BY <1>3, <1>6, <1>8 DEF OneEach, LoggedInState
<1>12. Agree'
  BY <1>2, <1>3, <1>5, <1>6, <1>7 DEF Agree
<1>13. PlayedCharacterExists'
  <2>1. ASSUME NEW c \in Char, world'[c] # NoSession
        PROVE  /\ row'[c].status = "live"
               /\ row'[c].owner = account'[world'[c]]
    <3>1. world'[c] = world[c] /\ world[c] \in SessionId
      BY <1>3, <1>5, <2>1 DEF TypeOK
    <3>2. world[c] # s
      BY <1>2, <1>3, SessionAssumption DEF Agree
    <3>3. QED
      BY <1>3, <1>4, <1>6, <2>1, <3>1, <3>2 DEF Saves, PlayedCharacterExists
  <2>2. QED
    BY <2>1 DEF PlayedCharacterExists
<1>14. NobodyAfterShutdown'
  BY <1>2 DEF NobodyAfterShutdown
<1>15. QED
  BY <1>5, <1>9, <1>10, <1>11, <1>12, <1>13, <1>14 DEF IInv

\* A guid nobody ever used comes without progress.
LEMMA CreateKeepsIInv ==
    ASSUME IInv, NEW s \in SessionId, NEW c \in Char, CreateCharacter(s, c)
    PROVE  IInv'
<1>1. state[s] = "Authenticated" /\ row[c].status = "unused"
  BY DEF CreateCharacter, ExactState
<1>2. account[s] \in Account
  BY <1>1 DEF IInv, TypeOK, AccountMatchesState, LoggedInState
<1>3. world[c] = NoSession
  BY <1>1 DEF IInv, PlayedCharacterExists
<1>4. \A d \in Char : row'[d] =
        IF d = c THEN [status |-> "live", owner |-> account[s], progress |-> 0] ELSE row[d]
  BY DEF CreateCharacter, IInv, TypeOK
<1>5. TypeOK'
  <2>1. row' \in [Char -> Row]
    BY <1>2 DEF CreateCharacter, IInv, TypeOK, Row
  <2>2. idle' \in [SessionId -> Age]
    BY ZeroIsAge DEF CreateCharacter, IInv, TypeOK
  <2>3. QED
    BY <2>1, <2>2 DEF CreateCharacter, IInv, TypeOK
<1>6. AccountMatchesState' /\ OneEach' /\ Agree' /\ NobodyAfterShutdown'
  BY DEF CreateCharacter, IInv, AccountMatchesState, OneEach, Agree, NobodyAfterShutdown
<1>7. PlayedCharacterExists'
  BY <1>3, <1>4 DEF CreateCharacter, IInv, PlayedCharacterExists
<1>8. latest[c] = 0
  BY <1>1 DEF IInv, UnusedIsFresh
<1>9. Progress'
  BY <1>3, <1>4, <1>8 DEF CreateCharacter, IInv, Progress
<1>10. UnusedIsFresh'
  BY <1>4, <1>8 DEF CreateCharacter, IInv, UnusedIsFresh
<1>11. QED
  BY <1>5, <1>6, <1>7, <1>9, <1>10 DEF IInv

\* At character select nobody else is logged in to the account: none of its
\* characters is in the world.
LEMMA NotInPlay ==
    ASSUME IInv, NEW s \in SessionId, state[s] = "Authenticated",
           NEW c \in CharactersOf(account[s])
    PROVE  c \in Char /\ row[c].status = "live" /\ row[c].owner = account[s]
           /\ world[c] = NoSession
<1>1. c \in Char /\ row[c].status = "live" /\ row[c].owner = account[s]
  BY DEF CharactersOf
<1>2. ASSUME world[c] # NoSession
      PROVE  FALSE
  <2>1. world[c] \in SessionId /\ account[world[c]] = account[s]
    BY <1>1, <1>2 DEF IInv, TypeOK, PlayedCharacterExists
  <2>2. state[world[c]] = "InWorld"
    BY <1>1, <2>1, SessionAssumption DEF IInv, Agree
  <2>3. world[c] = s
    BY <2>1, <2>2 DEF IInv, OneEach, LoggedInState
  <2>4. QED
    BY <2>2, <2>3
<1>3. QED
  BY <1>1, <1>2

LEMMA DeleteKeepsIInv ==
    ASSUME IInv, NEW s \in SessionId, NEW c \in Char, DeleteCharacter(s, c)
    PROVE  IInv'
<1>1. state[s] = "Authenticated" /\ c \in CharactersOf(account[s])
  BY DEF DeleteCharacter, ExactState
<1>2. world[c] = NoSession
  BY <1>1, NotInPlay
<1>3. \A d \in Char : /\ row'[d] \in Row
                      /\ row'[d].owner = row[d].owner
                      /\ row'[d].progress = row[d].progress
                      /\ row'[d].status = IF d = c THEN "deleted" ELSE row[d].status
  BY DEF DeleteCharacter, IInv, TypeOK, Row
<1>4. TypeOK'
  <2>1. row' \in [Char -> Row]
    BY DEF DeleteCharacter, IInv, TypeOK, Row
  <2>2. idle' \in [SessionId -> Age]
    BY ZeroIsAge DEF DeleteCharacter, IInv, TypeOK
  <2>3. QED
    BY <2>1, <2>2 DEF DeleteCharacter, IInv, TypeOK
<1>5. AccountMatchesState' /\ OneEach' /\ Agree' /\ NobodyAfterShutdown'
  BY DEF DeleteCharacter, IInv, AccountMatchesState, OneEach, Agree, NobodyAfterShutdown
<1>6. PlayedCharacterExists'
  BY <1>2, <1>3 DEF DeleteCharacter, IInv, PlayedCharacterExists
<1>7. Progress' /\ UnusedIsFresh'
  BY <1>2, <1>3 DEF DeleteCharacter, IInv, Progress, UnusedIsFresh
<1>8. QED
  BY <1>4, <1>5, <1>6, <1>7 DEF IInv

LEMMA EnterKeepsIInv ==
    ASSUME IInv, NEW s \in SessionId, NEW c \in Char, EnterWorld(s, c)
    PROVE  IInv'
<1>1. state[s] = "Authenticated" /\ pc = "receive" /\ c \in CharactersOf(account[s])
  BY DEF EnterWorld, ExactState, CanDispatch
<1>2. row[c].status = "live" /\ row[c].owner = account[s] /\ world[c] = NoSession
  BY <1>1, NotInPlay
<1>3. player[s] = NoChar
  BY <1>1 DEF IInv, Agree
<1>4. \A t \in SessionId :
        /\ state'[t] = IF t = s THEN "InWorld" ELSE state[t]
        /\ player'[t] = IF t = s THEN c ELSE player[t]
        /\ mem'[t] = IF t = s THEN row[c].progress ELSE mem[t]
  BY DEF EnterWorld, IInv, TypeOK
<1>5. \A d \in Char : world'[d] = IF d = c THEN s ELSE world[d]
  BY DEF EnterWorld, IInv, TypeOK
<1>6. TypeOK'
  <2>1. state' \in [SessionId -> Live \cup {"None"}]
    BY DEF EnterWorld, IInv, TypeOK, Live
  <2>2. idle' \in [SessionId -> Age]
    BY ZeroIsAge DEF EnterWorld, IInv, TypeOK
  <2>3. player' \in [SessionId -> Char \cup {NoChar}]
        /\ world' \in [Char -> SessionId \cup {NoSession}]
    BY DEF EnterWorld, IInv, TypeOK
  <2>4. mem' \in [SessionId -> Nat]
    BY DEF EnterWorld, IInv, TypeOK, Row
  <2>5. QED
    BY <2>1, <2>2, <2>3, <2>4 DEF EnterWorld, IInv, TypeOK
<1>7. AccountMatchesState' /\ OneEach'
  BY <1>1, <1>4 DEF EnterWorld, IInv, AccountMatchesState, OneEach, LoggedInState
<1>8. Agree'
  <2>1. ASSUME NEW t \in SessionId
        PROVE  (state'[t] = "InWorld") <=> (player'[t] # NoChar)
    BY <1>4, SessionAssumption DEF IInv, Agree
  <2>2. ASSUME NEW t \in SessionId, NEW d \in Char
        PROVE  (player'[t] = d) <=> (world'[d] = t)
    BY <1>2, <1>3, <1>4, <1>5, SessionAssumption DEF IInv, Agree
  <2>3. QED
    BY <2>1, <2>2 DEF Agree
<1>9. PlayedCharacterExists'
  BY <1>2, <1>5 DEF EnterWorld, IInv, PlayedCharacterExists
<1>10. Progress'
  <2>1. ASSUME NEW d \in Char
        PROVE  /\ world'[d] = NoSession => row'[d].progress = latest'[d]
               /\ world'[d] # NoSession => mem'[world'[d]] = latest'[d]
    <3>1. CASE d = c
      BY <1>2, <1>4, <1>5, <3>1, SessionAssumption DEF EnterWorld, IInv, Progress
    <3>2. CASE d # c /\ world[d] = NoSession
      BY <1>5, <3>2 DEF EnterWorld, IInv, Progress
    <3>3. CASE d # c /\ world[d] # NoSession
      <4>1. world[d] \in SessionId
        BY <3>3 DEF IInv, TypeOK
      <4>2. world[d] # s
        BY <1>3, SessionAssumption DEF IInv, Agree
      <4>3. QED
        BY <1>4, <1>5, <3>3, <4>1, <4>2 DEF EnterWorld, IInv, Progress
    <3>4. QED
      BY <3>1, <3>2, <3>3
  <2>2. QED
    BY <2>1 DEF Progress
<1>11. UnusedIsFresh' /\ NobodyAfterShutdown'
  BY <1>1 DEF EnterWorld, IInv, UnusedIsFresh, NobodyAfterShutdown
<1>12. QED
  BY <1>6, <1>7, <1>8, <1>9, <1>10, <1>11 DEF IInv

\* Only the session that holds a character makes progress with it.
LEMMA PlayKeepsIInv ==
    ASSUME IInv, NEW s \in SessionId, Play(s)
    PROVE  IInv'
<1>1. state[s] = "InWorld"
  BY DEF Play, ExactState
<1>2. player[s] \in Char /\ world[player[s]] = s
  BY <1>1 DEF IInv, Agree, TypeOK
<1>3. mem[s] \in Nat
  BY DEF IInv, TypeOK
<1>4. \A t \in SessionId : mem'[t] = IF t = s THEN mem[s] + 1 ELSE mem[t]
  BY DEF Play, IInv, TypeOK
<1>5. \A c \in Char : latest'[c] = IF c = player[s] THEN mem[s] + 1 ELSE latest[c]
  BY DEF Play, IInv, TypeOK
<1>6. TypeOK'
  <2>1. idle' \in [SessionId -> Age]
    BY ZeroIsAge DEF Play, IInv, TypeOK
  <2>2. mem' \in [SessionId -> Nat]
    BY <1>3 DEF Play, IInv, TypeOK
  <2>3. latest' \in [Char -> Nat]
    <3>1. mem[s] + 1 \in Nat
      BY <1>3
    <3>2. latest \in [Char -> Nat] /\ latest' = [latest EXCEPT ![player[s]] = mem[s] + 1]
      BY DEF Play, IInv, TypeOK
    <3>3. QED
      BY <3>1, <3>2, ZenonT(30)
  <2>4. QED
    BY <2>1, <2>2, <2>3 DEF Play, IInv, TypeOK
<1>7. AccountMatchesState' /\ OneEach' /\ Agree' /\ NobodyAfterShutdown'
  BY DEF Play, IInv, AccountMatchesState, OneEach, Agree, NobodyAfterShutdown
<1>8. PlayedCharacterExists'
  BY DEF Play, IInv, PlayedCharacterExists
<1>9. Progress'
  <2>1. ASSUME NEW c \in Char
        PROVE  /\ world'[c] = NoSession => row'[c].progress = latest'[c]
               /\ world'[c] # NoSession => mem'[world'[c]] = latest'[c]
    <3>1. CASE c = player[s]
      BY <1>2, <1>4, <1>5, <3>1, SessionAssumption DEF Play
    <3>2. CASE c # player[s]
      <4>1. world[c] # s
        BY <3>2 DEF IInv, Agree
      <4>2. world[c] \in SessionId \cup {NoSession}
        BY DEF IInv, TypeOK
      <4>3. QED
        BY <1>4, <1>5, <3>2, <4>1, <4>2 DEF Play, IInv, Progress
    <3>3. QED
      BY <3>1, <3>2
  <2>2. QED
    BY <2>1 DEF Progress
<1>10. UnusedIsFresh'
  <2>1. row[player[s]].status = "live"
    BY <1>2, SessionAssumption DEF IInv, PlayedCharacterExists
  <2>2. QED
    BY <1>5, <2>1 DEF Play, IInv, UnusedIsFresh
<1>11. QED
  BY <1>6, <1>7, <1>8, <1>9, <1>10 DEF IInv

\* What PlayedCharacterExists needs of a step that saves and clears.
LEMMA ClearedStillExist ==
    ASSUME IInv, NEW R \in SUBSET SessionId, Saves(R),
           \A c \in Char : world'[c] = IF world[c] \in R THEN NoSession ELSE world[c],
           \A s \in SessionId \ R : account'[s] = account[s]
    PROVE  PlayedCharacterExists'
<1>1. ASSUME NEW c \in Char, world'[c] # NoSession
      PROVE  /\ row'[c].status = "live"
             /\ row'[c].owner = account'[world'[c]]
  <2>1. world'[c] = world[c] /\ world[c] \in SessionId \ R
    BY <1>1 DEF IInv, TypeOK
  <2>2. QED
    BY <1>1, <2>1 DEF Saves, IInv, PlayedCharacterExists
<1>2. QED
  BY <1>1 DEF PlayedCharacterExists

\* Sessions that are removed take their Players with them.
LEMMA RemovalKeepsIInv ==
    ASSUME IInv, NEW R \in SUBSET SessionId, RemoveSessions(R), Saves(R),
           UNCHANGED latest, pc' \in {"accept", "receive", "tick"},
           batch' \in SessionId \cup {NoSession}, toRemove' \subseteq SessionId
    PROVE  IInv'
<1>1. TypeOK /\ Agree /\ Progress /\ UnusedIsFresh /\ ClearPlayers(R)
  BY DEF IInv, RemoveSessions
<1>2. /\ player' \in [SessionId -> Char \cup {NoChar}]
      /\ mem' \in [SessionId -> Nat]
      /\ world' \in [Char -> SessionId \cup {NoSession}]
      /\ \A s \in SessionId : player'[s] = IF s \in R THEN NoChar ELSE player[s]
      /\ \A c \in Char : world'[c] = IF world[c] \in R THEN NoSession ELSE world[c]
      /\ \A s \in SessionId, c \in Char : (player'[s] = c) <=> (world'[c] = s)
      /\ Progress'
      /\ UnusedIsFresh'
  BY <1>1, Clears
<1>3. \A s \in SessionId :
        /\ state'[s] = IF s \in R THEN "None" ELSE state[s]
        /\ account'[s] = IF s \in R THEN NoAccount ELSE account[s]
  BY DEF RemoveSessions
<1>4. TypeOK'
  <2>1. state' \in [SessionId -> Live \cup {"None"}]
    BY <1>1 DEF RemoveSessions, TypeOK
  <2>2. conn' \in [SessionId -> BOOLEAN]
    BY <1>1 DEF RemoveSessions, TypeOK
  <2>3. account' \in [SessionId -> Account \cup {NoAccount}]
    BY <1>1 DEF RemoveSessions, TypeOK
  <2>4. idle' \in [SessionId -> Age] /\ pingAge' \in [SessionId -> Age]
    BY <1>1, ZeroIsAge DEF RemoveSessions, TypeOK
  <2>5. row' \in [Char -> Row] /\ latest' \in [Char -> Nat] /\ pc' \in Phase
    BY <1>1 DEF Saves, TypeOK, Phase
  <2>6. QED
    BY <1>2, <2>1, <2>2, <2>3, <2>4, <2>5 DEF TypeOK
<1>5. AccountMatchesState' /\ OneEach'
  BY <1>3 DEF IInv, AccountMatchesState, OneEach, LoggedInState
<1>6. Agree'
  BY <1>1, <1>2, <1>3 DEF Agree
<1>7. PlayedCharacterExists'
  BY <1>2, <1>3, ClearedStillExist
<1>8. NobodyAfterShutdown'
  BY DEF NobodyAfterShutdown
<1>9. QED
  BY <1>2, <1>4, <1>5, <1>6, <1>7, <1>8 DEF IInv

LEMMA EndReceiveKeepsIInv ==
    ASSUME IInv, EndReceive
    PROVE  IInv'
<1>1. TypeOK /\ Agree /\ toRemove \in SUBSET SessionId
  BY DEF IInv, TypeOK
<1>2. Saves(toRemove)
  BY <1>1, ClearingSaves DEF EndReceive
<1>3. QED
  BY <1>1, <1>2, RemovalKeepsIInv DEF EndReceive

LEMMA TickKeepsIInv ==
    ASSUME IInv, Tick
    PROVE  IInv'
<1>1. /\ TypeOK /\ Agree /\ Expired \in SUBSET SessionId
      /\ toRemove \subseteq SessionId /\ batch \in SessionId \cup {NoSession}
  BY DEF IInv, TypeOK, Expired, Sessions
<1>2. PICK due \in SUBSET (Sessions \ Expired) :
        row' = SavedByUpdate(due, SavedRow(Expired))
  BY DEF Tick
<1>3. due \in SUBSET SessionId
  BY DEF Sessions
<1>4. Saves(Expired)
  BY <1>1, <1>2, <1>3, TickSaves
<1>5. QED
  BY <1>1, <1>4, RemovalKeepsIInv DEF Tick

\* The shutdown clears every Player there is.
LEMMA DisconnectKeepsIInv ==
    ASSUME IInv, DisconnectAll
    PROVE  IInv'
<1> DEFINE hit == {s \in Sessions : state[s] # "Disconnecting"}
<1>1. /\ row' = SavedRow(hit)
      /\ ClearPlayers(hit)
      /\ state' = [s \in SessionId |-> IF s \in hit THEN "Disconnecting" ELSE state[s]]
      /\ conn' = [s \in SessionId |-> IF s \in hit THEN FALSE ELSE conn[s]]
      /\ pc' = "closing"
      /\ UNCHANGED <<account, idle, pingAge, batch, toRemove, latest>>
  BY DEF DisconnectAll
<1>2. hit \in SUBSET SessionId
  BY DEF Sessions
<1>3. \A s \in SessionId : state[s] \in LoggedInState => s \in hit
  BY DEF Sessions, LoggedInState
<1>4. \A s \in hit : state[s] # "None"
  BY DEF Sessions
<1> HIDE DEF hit
<1>5. TypeOK /\ Agree /\ Progress /\ UnusedIsFresh
  BY DEF IInv
<1>6. Saves(hit)
  BY <1>1, <1>2, <1>5, ClearingSaves
<1>7. /\ player' \in [SessionId -> Char \cup {NoChar}]
      /\ mem' \in [SessionId -> Nat]
      /\ world' \in [Char -> SessionId \cup {NoSession}]
      /\ \A s \in SessionId : player'[s] = IF s \in hit THEN NoChar ELSE player[s]
      /\ \A c \in Char : world'[c] = IF world[c] \in hit THEN NoSession ELSE world[c]
      /\ \A s \in SessionId, c \in Char : (player'[s] = c) <=> (world'[c] = s)
      /\ Progress'
      /\ UnusedIsFresh'
  BY <1>1, <1>2, <1>5, <1>6, Clears
<1>8. \A s \in SessionId : state'[s] = IF s \in hit THEN "Disconnecting" ELSE state[s]
  BY <1>1
<1>9. \A s \in SessionId : player'[s] = NoChar
  BY <1>3, <1>5, <1>7 DEF Agree, LoggedInState
<1>10. TypeOK'
  <2>1. state' \in [SessionId -> Live \cup {"None"}]
    BY <1>1, <1>5 DEF TypeOK, Live
  <2>2. conn' \in [SessionId -> BOOLEAN]
    <3>1. \A s \in SessionId : conn[s] \in BOOLEAN
      BY <1>5 DEF TypeOK
    <3>2. QED
      BY <1>1, <3>1, ZenonT(30)
  <2>3. row' \in [Char -> Row] /\ pc' \in Phase
    BY <1>1, <1>6 DEF Saves, Phase
  <2>4. QED
    BY <1>1, <1>5, <1>7, <2>1, <2>2, <2>3 DEF TypeOK
<1>11. AccountMatchesState' /\ OneEach'
  BY <1>1, <1>4, <1>8 DEF IInv, AccountMatchesState, OneEach, LoggedInState
<1>12. Agree'
  <2>1. \A s \in SessionId : state'[s] # "InWorld"
    BY <1>3, <1>8 DEF LoggedInState
  <2>2. QED
    BY <1>7, <1>9, <2>1 DEF Agree
<1>13. PlayedCharacterExists'
  BY <1>1, <1>2, <1>6, <1>7, ClearedStillExist
<1>14. NobodyAfterShutdown'
  BY <1>9 DEF NobodyAfterShutdown
<1>15. QED
  BY <1>7, <1>10, <1>11, <1>12, <1>13, <1>14 DEF IInv

-----------------------------------------------------------------------------
(* The theorems.                                                           *)

LEMMA NextKeepsIInv ==
    ASSUME IInv, [Next]_vars
    PROVE  IInv'
<1>1. ASSUME NEW s \in SessionId, Packet(s)
      PROVE  IInv'
  <2>1. CASE OtherPacket(s) \/ Ping(s)
    BY <2>1, QuietSteps
  <2>2. CASE Play(s)
    BY <2>2, PlayKeepsIInv
  <2>3. CASE \E a \in Account : Authenticate(s, a)
    BY <2>3, AuthenticateKeepsIInv
  <2>4. CASE \E c \in Char : CreateCharacter(s, c)
    BY <2>4, CreateKeepsIInv
  <2>5. CASE \E c \in Char : DeleteCharacter(s, c)
    BY <2>5, DeleteKeepsIInv
  <2>6. CASE \E c \in Char : EnterWorld(s, c)
    BY <2>6, EnterKeepsIInv
  <2>7. QED
    BY <1>1, <2>1, <2>2, <2>3, <2>4, <2>5, <2>6 DEF Packet
<1>2. ASSUME NEW s \in SessionId, Network(s)
      PROVE  IInv'
  <2>1. CASE Accept(s)
    BY <2>1, AcceptKeepsIInv
  <2>2. CASE Receive(s) \/ ReceiveClosed(s) \/ SendFails(s)
    BY <2>2, QuietSteps
  <2>3. QED
    BY <1>2, <2>1, <2>2 DEF Network
<1>3. CASE Loop
  <2>1. CASE EndReceive
    BY <2>1, EndReceiveKeepsIInv
  <2>2. CASE Tick
    BY <2>2, TickKeepsIInv
  <2>3. CASE StartReceive \/ SkipTick
    BY <2>3, QuietSteps
  <2>4. QED
    BY <1>3, <2>1, <2>2, <2>3 DEF Loop
<1>4. CASE TimePasses \/ CloseDatabase \/ UNCHANGED vars
  BY <1>4, QuietSteps
<1>5. CASE DisconnectAll
  BY <1>5, DisconnectKeepsIInv
<1>6. QED
  BY <1>1, <1>2, <1>3, <1>4, <1>5 DEF Next

\* The invariant that carries the properties below.
LEMMA Invariance == Spec => []IInv
<1>1. Init => IInv
  BY InitIInv
<1>2. IInv /\ [Next]_vars => IInv'
  BY NextKeepsIInv
<1>3. QED
  BY <1>1, <1>2, PTL DEF Spec

\* An account plays from one place, however many clients log in to it: the
\* kick of handleAuthenticate leaves at most one session that may act.
THEOREM AccountPlaysOnce == Spec => []OneSessionPerAccount
<1>1. IInv => OneSessionPerAccount
  <2>1. SUFFICES ASSUME IInv, NEW s \in Sessions, NEW t \in Sessions,
                        account[s] # NoAccount, account[s] = account[t],
                        state[s] # "Disconnecting", state[t] # "Disconnecting"
                 PROVE  s = t
    BY DEF OneSessionPerAccount
  <2>2. s \in SessionId /\ t \in SessionId
    BY DEF Sessions
  <2>3. state[s] \in LoggedInState /\ state[t] \in LoggedInState
    BY <2>1, <2>2 DEF IInv, TypeOK, Live, AccountMatchesState, LoggedInState
  <2>4. QED
    BY <2>1, <2>2, <2>3 DEF IInv, OneEach
<1>2. QED
  BY <1>1, Invariance, PTL

\* The world's entry for a guid, the Player of the session and the row it came
\* from agree, through kicks, lost sockets, timeouts and the shutdown.
THEOREM WorldAndSessionsAgree == Spec => []WorldMatchesSessions
<1>1. IInv => WorldMatchesSessions
  BY DEF IInv, Agree, WorldMatchesSessions
<1>2. QED
  BY <1>1, Invariance, PTL

\* What a player has gained is in the Player or in the row, whichever way the
\* Player leaves, and no Player outlives the database.
THEOREM ProgressIsKept == Spec => []NoLostProgress
<1>1. IInv => NoLostProgress
  BY DEF IInv, Progress, NobodyAfterShutdown, NoLostProgress
<1>2. QED
  BY <1>1, Invariance, PTL

\* A character that is in the world leaves it before another session enters
\* it: the next Player is loaded from the row the last one was saved to.
THEOREM HandsOverThroughDatabase == Spec => HandoverThroughDatabase
<1> DEFINE Step == \A c \in Char : world[c] # NoSession => world'[c] \in {world[c], NoSession}
<1>1. IInv /\ [Next]_vars => [Step]_vars
  <2>1. SUFFICES ASSUME IInv, Next, NEW c \in Char, world[c] # NoSession
                 PROVE  world'[c] \in {world[c], NoSession}
    OBVIOUS
  <2>2. ASSUME NEW s \in SessionId, NEW d \in Char, EnterWorld(s, d)
        PROVE  world'[c] = world[c]
    <3>1. world[d] = NoSession
      BY <2>1, <2>2, NotInPlay DEF EnterWorld, ExactState
    <3>2. QED
      BY <2>1, <2>2, <3>1 DEF EnterWorld, IInv, TypeOK
  <2>3. ASSUME NEW R, ClearPlayers(R)
        PROVE  world'[c] \in {world[c], NoSession}
    BY <2>3 DEF ClearPlayers
  <2>4. ASSUME NEW s \in SessionId, NEW a \in Account, Authenticate(s, a)
        PROVE  world'[c] \in {world[c], NoSession}
    BY <2>3, <2>4 DEF Authenticate
  <2>5. CASE EndReceive \/ Tick \/ DisconnectAll
    BY <2>3, <2>5 DEF EndReceive, Tick, DisconnectAll, RemoveSessions
  <2>6. ASSUME NEW s \in SessionId, Packet(s)
        PROVE  world'[c] \in {world[c], NoSession}
    BY <2>2, <2>4, <2>6 DEF Packet, OtherPacket, Ping, Play, CreateCharacter, DeleteCharacter
  <2>7. ASSUME NEW s \in SessionId, Network(s)
        PROVE  world'[c] \in {world[c], NoSession}
    BY <2>7 DEF Network, Accept, Receive, ReceiveClosed, SendFails
  <2>8. CASE StartReceive \/ SkipTick \/ TimePasses \/ CloseDatabase
    BY <2>8 DEF StartReceive, SkipTick, TimePasses, CloseDatabase
  <2>9. QED
    BY <2>1, <2>5, <2>6, <2>7, <2>8 DEF Next, Loop
<1>2. QED
  BY <1>1, Invariance, PTL DEF Spec, HandoverThroughDatabase

-----------------------------------------------------------------------------
(* The background saver.                                                   *)

USE OpAssumption

\* What a thread holds, and where it is while it does; a request to stop stands
\* as long as the main thread waits in stop; the worker leaves an empty queue.
InPlace ==
    /\ mainOp # NoOp => main = "flush"
    /\ workerOp # NoOp => worker \in {"top", "drain"}
    /\ m_running <=> worker # "none"
    /\ m_stopRequested /\ m_running => main = "stop"
    /\ worker \in {"drain", "exited"} => m_stopRequested
    /\ worker = "exited" => m_saveQueue = <<>>

SaverIInv == SavesAccountedFor /\ InPlace

-----------------------------------------------------------------------------
(* Queues without repetitions.                                             *)

\* What is left of a queue when its head is taken.
LEMMA HeadTaken ==
    ASSUME NEW S, NEW q \in Seq(S), q # <<>>, IsInjective(q)
    PROVE  /\ Head(q) \in S
           /\ Rest(q) \in Seq(S)
           /\ ToSet(Rest(q)) = ToSet(q) \ {Head(q)}
           /\ Head(q) \in ToSet(q)
           /\ IsInjective(Rest(q))
  <1>1. Len(q) \in Nat /\ Len(q) > 0 /\ DOMAIN q = 1 .. Len(q) /\ Head(q) = q[1]
    OBVIOUS
  <1>2. /\ Rest(q) \in Seq(S)
        /\ DOMAIN Rest(q) = 1 .. Len(q) - 1
        /\ \A i \in 1 .. Len(q) - 1 : Rest(q)[i] = q[i + 1]
    BY <1>1 DEF Rest
  <1>3. Head(q) \in S /\ Head(q) \in ToSet(q)
    BY <1>1 DEF ToSet
  <1>4. IsInjective(Rest(q))
    <2> SUFFICES ASSUME NEW i \in 1 .. Len(q) - 1, NEW j \in 1 .. Len(q) - 1,
                        q[i + 1] = q[j + 1]
                 PROVE  i = j
      BY <1>2 DEF IsInjective
    <2>1. i + 1 \in 1 .. Len(q) /\ j + 1 \in 1 .. Len(q)
      BY <1>1
    <2>2. i + 1 = j + 1
      BY <1>1, <2>1 DEF IsInjective
    <2> QED
      BY <2>2
  <1>5. ASSUME NEW x \in ToSet(Rest(q))  PROVE x \in ToSet(q) \ {Head(q)}
    <2>1. PICK i \in 1 .. Len(q) - 1 : x = q[i + 1]
      BY <1>2 DEF ToSet
    <2>2. i + 1 \in 1 .. Len(q) /\ i + 1 # 1 /\ 1 \in 1 .. Len(q)
      BY <1>1
    <2> QED
      BY <1>1, <2>1, <2>2 DEF ToSet, IsInjective
  <1>6. ASSUME NEW x \in ToSet(q), x # Head(q)  PROVE x \in ToSet(Rest(q))
    <2>1. PICK i \in 1 .. Len(q) : x = q[i]
      BY <1>1 DEF ToSet
    <2>2. i - 1 \in 1 .. Len(q) - 1 /\ q[(i - 1) + 1] = x
      BY <1>1, <1>6, <2>1
    <2>3. Rest(q)[i - 1] = x
      BY <1>2, <2>2
    <2> QED
      BY <1>2, <2>2, <2>3 DEF ToSet
  <1>7. ToSet(Rest(q)) = ToSet(q) \ {Head(q)}
    BY <1>5, <1>6
  <1> QED
    BY <1>2, <1>3, <1>4, <1>7

\* Appending adds what is appended.
LEMMA Appended ==
    ASSUME NEW S, NEW q \in Seq(S), NEW x \in S
    PROVE  /\ Append(q, x) \in Seq(S)
           /\ ToSet(Append(q, x)) = ToSet(q) \cup {x}
           /\ IsInjective(q) /\ x \notin ToSet(q) => IsInjective(Append(q, x))
  <1>1. /\ Append(q, x) \in Seq(S)
        /\ Len(q) \in Nat
        /\ DOMAIN q = 1 .. Len(q)
        /\ DOMAIN Append(q, x) = 1 .. Len(q) + 1
        /\ \A i \in 1 .. Len(q) : Append(q, x)[i] = q[i]
        /\ Append(q, x)[Len(q) + 1] = x
    OBVIOUS
  <1> DEFINE after == Append(q, x)
  <1> HIDE DEF after
  <1>2. ToSet(after) = ToSet(q) \cup {x}
    <2>1. ASSUME NEW y \in ToSet(after)  PROVE y \in ToSet(q) \cup {x}
      <3>1. PICK i \in 1 .. Len(q) + 1 : y = after[i]
        BY <1>1 DEF ToSet, after
      <3>2. i \in 1 .. Len(q) \/ i = Len(q) + 1
        BY <1>1
      <3> QED
        BY <1>1, <3>1, <3>2 DEF ToSet, after
    <2>2. ASSUME NEW y \in ToSet(q)  PROVE y \in ToSet(after)
      <3>1. PICK i \in 1 .. Len(q) : y = q[i]
        BY <1>1 DEF ToSet
      <3>2. i \in 1 .. Len(q) + 1 /\ after[i] = y
        BY <1>1, <3>1 DEF after
      <3> QED
        BY <1>1, <3>2 DEF ToSet, after
    <2>3. Len(q) + 1 \in DOMAIN after /\ after[Len(q) + 1] = x
      BY <1>1 DEF after
    <2> QED
      BY <2>1, <2>2, <2>3 DEF ToSet
  <1>3. ASSUME IsInjective(q), x \notin ToSet(q)  PROVE IsInjective(after)
    <2> SUFFICES ASSUME NEW i \in 1 .. Len(q) + 1, NEW j \in 1 .. Len(q) + 1,
                        after[i] = after[j]
                 PROVE  i = j
      BY <1>1 DEF IsInjective, after
    <2>1. \A k \in 1 .. Len(q) : after[k] # x
      BY <1>1, <1>3 DEF ToSet, after
    <2>2. after[Len(q) + 1] = x
      BY <1>1 DEF after
    <2>3. CASE i \in 1 .. Len(q) /\ j \in 1 .. Len(q)
      BY <1>1, <1>3, <2>3 DEF IsInjective, after
    <2>4. CASE i = Len(q) + 1 \/ j = Len(q) + 1
      BY <1>1, <2>1, <2>2, <2>4
    <2> QED
      BY <1>1, <2>3, <2>4
  <1> QED
    BY <1>1, <1>2, <1>3 DEF after

\* The log lists the performed operations.
LEMMA PerformedIsLogged == log \in Seq(Op) => Promise!Performed = ToSet(log)
  BY DEF Promise!Performed, ToSet

\* Performing an operation adds it to the performed ones.
LEMMA PerformAdds ==
    ASSUME SaverTypeOK, NEW op \in Op, Perform(op)
    PROVE  log' \in Seq(Op) /\ Promise!Performed' = Promise!Performed \cup {op}
  <1>1. log' = Append(log, op) /\ log \in Seq(Op)
    BY DEF Perform, SaverTypeOK
  <1>2. log' \in Seq(Op) /\ ToSet(log') = ToSet(log) \cup {op}
    BY <1>1, Appended
  <1>3. Promise!Performed = ToSet(log)
    BY <1>1, PerformedIsLogged
  <1>4. Promise!Performed' = ToSet(log')
    BY <1>2 DEF Promise!Performed, ToSet
  <1> QED
    BY <1>2, <1>3, <1>4

-----------------------------------------------------------------------------
(* The invariant.                                                          *)

\* Where the saves are, in a form that names the three places.
Accounted(queue, taken, done) ==
    /\ ToSet(accepted) = ToSet(queue) \cup taken \cup done
    /\ ToSet(queue) \cap (taken \cup done) = {}
    /\ taken \cap done = {}
    /\ IsInjective(queue)

LEMMA SavesAre ==
    SavesAccountedFor <=>
      /\ SaverTypeOK
      /\ QueueInOrder
      /\ Accounted(m_saveQueue, Taken, Promise!Performed)
      /\ mainOp = workerOp => mainOp = NoOp
  BY DEF SavesAccountedFor, Accounted

\* Taking its head leaves a queue in order.
LEMMA TakenInOrder ==
    ASSUME SaverTypeOK, QueueInOrder, m_saveQueue # <<>>,
           m_saveQueue' = Rest(m_saveQueue), UNCHANGED accepted
    PROVE  QueueInOrder'
  <1> DEFINE q == m_saveQueue
             a == accepted
  <1>1. q \in Seq(Op) /\ a \in Seq(Op) /\ Len(q) \in Nat \ {0} /\ Len(a) \in Nat
    BY DEF SaverTypeOK
  <1>2. /\ m_saveQueue' = Tail(q)
        /\ Len(Tail(q)) = Len(q) - 1
        /\ \A i \in 1 .. Len(q) - 1 : Tail(q)[i] = q[i + 1]
    BY <1>1 DEF Rest
  <1>3. Ahead' = (Len(a) - Len(q)) + 1 /\ Ahead' \in Nat
    BY <1>1, <1>2 DEF Ahead, QueueInOrder
  <1>4. ASSUME NEW i \in 1 .. Len(q) - 1  PROVE Tail(q)[i] = a[Ahead' + i]
    <2>1. i + 1 \in 1 .. Len(q) /\ (Len(a) - Len(q)) + (i + 1) = Ahead' + i
      BY <1>1, <1>3
    <2>2. q[i + 1] = a[(Len(a) - Len(q)) + (i + 1)]
      BY <2>1 DEF QueueInOrder, Ahead
    <2> QED
      BY <1>2, <2>1, <2>2
  <1> QED
    BY <1>1, <1>2, <1>3, <1>4 DEF QueueInOrder

\* What a thread holds overtakes nothing but what the other one holds.
LEMMA HeldIsInTurn ==
    ASSUME SavesAccountedFor, NEW op \in Op, op = mainOp \/ op = workerOp
    PROVE  \E i \in 1 .. Len(accepted) :
              accepted[i] = op /\ Promise!AtMostOneBehind(i)
  <1> DEFINE q == m_saveQueue
             a == accepted
             n == Len(a) - Len(q)
  <1>1. /\ q \in Seq(Op) /\ a \in Seq(Op) /\ Len(q) \in Nat /\ Len(a) \in Nat
        /\ DOMAIN a = 1 .. Len(a) /\ DOMAIN q = 1 .. Len(q)
        /\ n \in Nat
        /\ IsInjective(a)
        /\ \A i \in 1 .. Len(q) : q[i] = a[n + i]
    BY DEF SavesAccountedFor, SaverTypeOK, QueueInOrder, Ahead
  <1>2. op \in Taken /\ op \in ToSet(a) /\ op \notin ToSet(q)
    BY DEF SavesAccountedFor, Taken
  <1>3. PICK i \in 1 .. Len(a) : a[i] = op
    BY <1>1, <1>2 DEF ToSet
  <1>4. i <= n
    <2> SUFFICES ASSUME ~ i <= n  PROVE FALSE
      OBVIOUS
    <2>1. i - n \in 1 .. Len(q) /\ n + (i - n) = i
      BY <1>1
    <2>2. q[i - n] = op
      BY <1>1, <1>3, <2>1
    <2> QED
      BY <1>1, <1>2, <2>1, <2>2 DEF ToSet
  <1>5. ASSUME NEW j \in 1 .. i - 1, a[j] \notin Promise!Performed
        PROVE  a[j] \in Taken \ {op}
    <2>1. j \in 1 .. Len(a) /\ j # i
      BY <1>1
    <2>2. a[j] \in ToSet(a) /\ a[j] # op
      BY <1>1, <1>3, <2>1 DEF ToSet, IsInjective
    <2>3. a[j] \notin ToSet(q)
      <3> SUFFICES ASSUME NEW k \in 1 .. Len(q), q[k] = a[j]  PROVE FALSE
        BY <1>1 DEF ToSet
      <3>1. n + k \in 1 .. Len(a) /\ a[n + k] = a[j]
        BY <1>1
      <3>2. n + k = j
        BY <1>1, <2>1, <3>1 DEF IsInjective
      <3> QED
        BY <1>1, <1>4, <3>2
    <2> QED
      BY <1>5, <2>2, <2>3 DEF SavesAccountedFor
  <1>6. ASSUME NEW j \in 1 .. i - 1, NEW k \in 1 .. i - 1,
               a[j] \notin Promise!Performed, a[k] \notin Promise!Performed
        PROVE  j = k
    <2>1. a[j] \in Taken \ {op} /\ a[k] \in Taken \ {op}
      BY <1>5, <1>6
    <2>2. a[j] = a[k]
      BY <2>1 DEF Taken
    <2>3. j \in 1 .. Len(a) /\ k \in 1 .. Len(a)
      BY <1>1
    <2> QED
      BY <1>1, <2>2, <2>3 DEF IsInjective
  <1>7. Promise!AtMostOneBehind(i)
    BY <1>6 DEF Promise!AtMostOneBehind
  <1> QED
    BY <1>3, <1>7

\* Taking the head of the queue into a hand that is empty.
LEMMA TakeKeeps ==
    ASSUME SaverIInv, m_saveQueue # <<>>,
           m_saveQueue' = Rest(m_saveQueue),
           \/ mainOp = NoOp /\ mainOp' = Head(m_saveQueue) /\ workerOp' = workerOp
           \/ workerOp = NoOp /\ workerOp' = Head(m_saveQueue) /\ mainOp' = mainOp,
           UNCHANGED <<m_running, m_stopRequested, main, worker, accepted, log>>
    PROVE  SavesAccountedFor'
  <1> DEFINE op == Head(m_saveQueue)
  <1>1. /\ op \in Op
        /\ Rest(m_saveQueue) \in Seq(Op)
        /\ ToSet(Rest(m_saveQueue)) = ToSet(m_saveQueue) \ {op}
        /\ op \in ToSet(m_saveQueue)
        /\ IsInjective(Rest(m_saveQueue))
    BY HeadTaken DEF SaverIInv, SavesAccountedFor, SaverTypeOK
  <1>2. SaverTypeOK'
    BY <1>1 DEF SaverIInv, SavesAccountedFor, SaverTypeOK
  <1>3. Promise!Performed' = Promise!Performed
    BY DEF Promise!Performed
  <1> HIDE DEF op
  <1>4. op # NoOp /\ Taken' = Taken \cup {op}
    BY <1>1 DEF Taken, op
  <1>5. op \notin Taken \cup Promise!Performed
    BY <1>1 DEF SaverIInv, SavesAccountedFor
  <1>6. (mainOp = workerOp => mainOp = NoOp)'
    BY <1>4, <1>5 DEF Taken, op
  <1>7. Accounted(m_saveQueue, Taken, Promise!Performed)
    BY SavesAre DEF SaverIInv
  <1>8. Accounted(m_saveQueue, Taken, Promise!Performed)'
    BY <1>1, <1>3, <1>4, <1>5, <1>7 DEF Accounted
  <1>9. QueueInOrder'
    BY TakenInOrder DEF SaverIInv, SavesAccountedFor
  <1> QED
    BY <1>2, <1>6, <1>8, <1>9 DEF SavesAccountedFor, Accounted

\* Performing what one hand holds, and emptying it.
LEMMA PerformKeeps ==
    ASSUME SaverIInv, NEW op \in Op, Perform(op),
           \/ mainOp = op /\ mainOp' = NoOp /\ workerOp' = workerOp
           \/ workerOp = op /\ workerOp' = NoOp /\ mainOp' = mainOp,
           UNCHANGED <<m_saveQueue, m_running, m_stopRequested, main, worker, accepted>>
    PROVE  /\ SavesAccountedFor'
           /\ op \notin Promise!Performed
           /\ \E i \in 1 .. Len(accepted) :
                 accepted[i] = op /\ Promise!AtMostOneBehind(i)
  <1>1. log' \in Seq(Op) /\ Promise!Performed' = Promise!Performed \cup {op}
    BY PerformAdds DEF SaverIInv, SavesAccountedFor
  <1>2. SaverTypeOK'
    BY <1>1 DEF SaverIInv, SavesAccountedFor, SaverTypeOK
  <1>3. mainOp = workerOp => mainOp = NoOp
    BY DEF SaverIInv, SavesAccountedFor
  <1>4. op \in Taken /\ Taken' = Taken \ {op}
    BY <1>3 DEF Taken
  <1>5. (mainOp = workerOp => mainOp = NoOp)'
    OBVIOUS
  <1>6. Accounted(m_saveQueue, Taken, Promise!Performed)
    BY SavesAre DEF SaverIInv
  <1>7. Accounted(m_saveQueue, Taken, Promise!Performed)'
    BY <1>1, <1>4, <1>6 DEF Accounted
  <1>8. op \notin Promise!Performed
    BY <1>4, <1>6 DEF Accounted
  <1>9. QueueInOrder'
    BY DEF SaverIInv, SavesAccountedFor, QueueInOrder, Ahead
  <1>10. SavesAccountedFor'
    BY <1>2, <1>5, <1>7, <1>9 DEF SavesAccountedFor, Accounted
  <1>11. \E i \in 1 .. Len(accepted) :
           accepted[i] = op /\ Promise!AtMostOneBehind(i)
    BY HeldIsInTurn DEF SaverIInv
  <1> QED
    BY <1>8, <1>10, <1>11

\* Whatever touches neither queue nor hands nor log.
LEMMA OthersKeep ==
    ASSUME SavesAccountedFor, SaverTypeOK',
           UNCHANGED <<m_saveQueue, mainOp, workerOp, accepted, log>>
    PROVE  SavesAccountedFor'
  <1>1. /\ Taken' = Taken
        /\ Promise!Performed' = Promise!Performed
        /\ (mainOp = workerOp => mainOp = NoOp)'
    BY DEF SavesAccountedFor, Taken, Promise!Performed
  <1>2. QueueInOrder'
    BY DEF SavesAccountedFor, QueueInOrder, Ahead
  <1>3. Accounted(m_saveQueue, Taken, Promise!Performed)'
    BY <1>1, SavesAre DEF Accounted
  <1> QED
    BY <1>1, <1>2, <1>3 DEF SavesAccountedFor, Accounted

LEMMA QueueKeeps ==
    ASSUME SaverIInv, NEW op \in Op, QueueSave(op)
    PROVE  SavesAccountedFor'
  <1>1. op \notin ToSet(m_saveQueue)
    BY DEF QueueSave, SaverIInv, SavesAccountedFor
  <1>2. accepted \in Seq(Op) /\ m_saveQueue \in Seq(Op)
    BY DEF SaverIInv, SavesAccountedFor, SaverTypeOK
  <1>3. /\ accepted' \in Seq(Op)
        /\ ToSet(accepted') = ToSet(accepted) \cup {op}
        /\ IsInjective(accepted')
    BY <1>2, Appended DEF QueueSave, SaverIInv, SavesAccountedFor, QueueInOrder
  <1>4. /\ m_saveQueue' \in Seq(Op)
        /\ ToSet(m_saveQueue') = ToSet(m_saveQueue) \cup {op}
        /\ IsInjective(m_saveQueue')
    BY <1>1, <1>2, Appended DEF QueueSave, Queued, SaverIInv, SavesAccountedFor
  <1>5. SaverTypeOK'
    BY <1>4, <1>3 DEF SaverIInv, SavesAccountedFor, SaverTypeOK, QueueSave, Notify, Notified
  <1>6. Taken' = Taken /\ Promise!Performed' = Promise!Performed
    BY DEF Taken, Promise!Performed, QueueSave
  <1>7. Accounted(m_saveQueue, Taken, Promise!Performed)
    BY SavesAre DEF SaverIInv
  <1>8. Accounted(m_saveQueue, Taken, Promise!Performed)'
    <2>1. op \notin Taken \cup Promise!Performed
      BY <1>7 DEF Accounted, QueueSave
    <2> QED
      BY <1>4, <1>6, <1>7, <1>3, <2>1 DEF Accounted
  <1>9. (mainOp = workerOp => mainOp = NoOp)'
    BY DEF SaverIInv, SavesAccountedFor, QueueSave
  <1>10. QueueInOrder'
    <2> DEFINE q == m_saveQueue
               a == accepted
               n == Len(a) - Len(q)
    <2>1. /\ Len(q) \in Nat /\ Len(a) \in Nat /\ n \in Nat
          /\ \A i \in 1 .. Len(q) : q[i] = a[n + i]
      BY <1>2 DEF SaverIInv, SavesAccountedFor, QueueInOrder, Ahead
    <2>2. /\ m_saveQueue' = Append(q, op) /\ accepted' = Append(a, op)
          /\ Len(m_saveQueue') = Len(q) + 1 /\ Len(accepted') = Len(a) + 1
          /\ \A i \in 1 .. Len(q) : m_saveQueue'[i] = q[i]
          /\ \A i \in 1 .. Len(a) : accepted'[i] = a[i]
          /\ m_saveQueue'[Len(q) + 1] = op /\ accepted'[Len(a) + 1] = op
      BY <1>2 DEF QueueSave, Queued
    <2>3. Ahead' = n
      BY <2>1, <2>2 DEF Ahead
    <2>4. ASSUME NEW i \in 1 .. Len(q) + 1  PROVE m_saveQueue'[i] = accepted'[n + i]
      <3>1. CASE i = Len(q) + 1
        <4>1. n + i = Len(a) + 1
          BY <2>1, <3>1
        <4> QED
          BY <2>2, <3>1, <4>1
      <3>2. CASE i \in 1 .. Len(q)
        <4>1. n + i \in 1 .. Len(a)
          BY <2>1, <3>2
        <4> QED
          BY <2>1, <2>2, <3>2, <4>1
      <3> QED
        BY <2>1, <3>1, <3>2
    <2>5. \A i \in 1 .. Len(m_saveQueue') : m_saveQueue'[i] = accepted'[Ahead' + i]
      BY <2>2, <2>3, <2>4
    <2> QED
      BY <1>3, <2>1, <2>3, <2>5 DEF QueueInOrder
  <1> QED
    BY <1>5, <1>8, <1>9, <1>10 DEF SavesAccountedFor, Accounted

\* One step of either thread keeps every save in its one place.
LEMMA StepKeepsSaves ==
    ASSUME SaverIInv, [SaverNext]_saverVars
    PROVE  SavesAccountedFor'
  <1> USE DEF SaverIInv
  <1>1. SaverTypeOK
    BY DEF SavesAccountedFor
  <1>2. CASE UNCHANGED saverVars
    BY <1>1, <1>2, OthersKeep DEF saverVars, SaverTypeOK
  <1>3. ASSUME NEW op \in Op, QueueSave(op)  PROVE SavesAccountedFor'
    BY <1>3, QueueKeeps
  <1>4. CASE Start \/ Flush \/ Stop
    <2>1. SaverTypeOK'
      BY <1>1, <1>4 DEF SaverTypeOK, Start, Flush, Stop, Notify, Notified
    <2> QED
      BY <1>4, <2>1, OthersKeep DEF Start, Flush, Stop
  <1>5. CASE FlushReturn \/ StopReturn
    <2>1. SaverTypeOK'
      BY <1>1, <1>5 DEF SaverTypeOK, FlushReturn, StopReturn
    <2> QED
      BY <1>5, <2>1, OthersKeep DEF FlushReturn, StopReturn
  <1>6. CASE WorkerWaits \/ WorkerBreaks \/ WorkerExits \/ SpuriousWakeup
    <2>1. SaverTypeOK'
      BY <1>1, <1>6 DEF SaverTypeOK, WorkerWaits, WorkerBreaks, WorkerExits, SpuriousWakeup
    <2> QED
      BY <1>6, <2>1, OthersKeep DEF WorkerWaits, WorkerBreaks, WorkerExits, SpuriousWakeup
  <1>7. CASE FlushTake
    BY <1>7, TakeKeeps DEF FlushTake
  <1>8. CASE WorkerTakes
    BY <1>8, TakeKeeps DEF WorkerTakes
  <1>9. CASE FlushPerform
    BY <1>1, <1>9, PerformKeeps DEF FlushPerform, SaverTypeOK
  <1>10. CASE WorkerPerforms
    BY <1>1, <1>10, PerformKeeps DEF WorkerPerforms, SaverTypeOK
  <1> QED
    BY <1>2, <1>3, <1>4, <1>5, <1>6, <1>7, <1>8, <1>9, <1>10
    DEF SaverNext, Call, MainProceeds, WorkerProceeds

\* Nobody is where he should not be.
LEMMA StepKeepsPlaces ==
    ASSUME SaverIInv, [SaverNext]_saverVars
    PROVE  InPlace'
  <1> USE DEF SaverIInv, SavesAccountedFor, SaverTypeOK, InPlace
  <1>1. CASE UNCHANGED saverVars
    BY <1>1 DEF saverVars
  <1>2. CASE Call
    <2>1. ASSUME NEW op \in Op, QueueSave(op)  PROVE InPlace'
      BY <2>1 DEF QueueSave, Notify, Notified
    <2>2. CASE Start
      BY <2>2 DEF Start
    <2>3. CASE Flush
      BY <2>3 DEF Flush
    <2>4. CASE Stop
      BY <2>4 DEF Stop, Notify, Notified
    <2> QED
      BY <1>2, <2>1, <2>2, <2>3, <2>4 DEF Call
  <1>3. CASE MainProceeds
    <2>1. CASE FlushTake
      BY <2>1 DEF FlushTake
    <2>2. CASE FlushPerform
      BY <2>2 DEF FlushPerform
    <2>3. CASE FlushReturn
      BY <2>3 DEF FlushReturn
    <2>4. CASE StopReturn
      BY <2>4 DEF StopReturn, Joined
    <2> QED
      BY <1>3, <2>1, <2>2, <2>3, <2>4 DEF MainProceeds
  <1>4. CASE WorkerProceeds \/ SpuriousWakeup
    <2>1. CASE WorkerWaits
      BY <2>1 DEF WorkerWaits
    <2>2. CASE WorkerTakes
      BY <2>2 DEF WorkerTakes
    <2>3. CASE WorkerPerforms
      BY <2>3 DEF WorkerPerforms
    <2>4. CASE WorkerBreaks
      BY <2>4 DEF WorkerBreaks
    <2>5. CASE WorkerExits
      BY <2>5 DEF WorkerExits
    <2>6. CASE SpuriousWakeup
      BY <2>6 DEF SpuriousWakeup
    <2> QED
      BY <1>4, <2>1, <2>2, <2>3, <2>4, <2>5, <2>6 DEF WorkerProceeds
  <1> QED
    BY <1>1, <1>2, <1>3, <1>4 DEF SaverNext

LEMMA SaverInvariance == SaverSpec => []SaverIInv
  <1>1. SaverInit => SaverIInv
    <2> SUFFICES ASSUME SaverInit  PROVE SaverIInv
      OBVIOUS
    <2>1. SaverTypeOK
      <3>1. <<>> \in Seq(Op)
        BY EmptySeq
      <3> QED
        BY <3>1 DEF SaverInit, SaverTypeOK
    <2>2. ToSet(<<>>) = {} /\ IsInjective(<<>>)
      BY DEF ToSet, IsInjective
    <2>3. Promise!Performed = {}
      BY DEF SaverInit, Promise!Performed
    <2>4. QueueInOrder
      BY <2>2 DEF SaverInit, QueueInOrder, Ahead
    <2>5. SavesAccountedFor
      BY <2>1, <2>2, <2>3, <2>4 DEF SaverInit, SavesAccountedFor, Taken
    <2> QED
      BY <2>5 DEF SaverIInv, InPlace, SaverInit
  <1>2. SaverIInv /\ [SaverNext]_saverVars => SaverIInv'
    BY StepKeepsSaves, StepKeepsPlaces DEF SaverIInv
  <1> QED
    BY <1>1, <1>2, PTL DEF SaverSpec

\* Every accepted save is in one place only: in the queue, in the hands of one
\* thread, or in the log.
THEOREM SavesAlwaysAccountedFor == SaverSpec => []SavesAccountedFor
  BY SaverInvariance, PTL DEF SaverIInv

-----------------------------------------------------------------------------
(* What a caller may rely on.                                              *)

\* One step of the saver is a step of SaveLog, or of none of its concern.
LEMMA StepPerformsOnceInTurn ==
    ASSUME SaverIInv, [SaverNext]_saverVars
    PROVE  [Promise!Next]_<<accepted, log>>
  <1>1. SaverTypeOK
    BY DEF SaverIInv, SavesAccountedFor
  <1>2. ASSUME NEW op \in Op, QueueSave(op)  PROVE Promise!Next
    <2>1. op \notin Promise!Handed
      BY <1>1, <1>2 DEF QueueSave, Promise!Handed, ToSet, SaverTypeOK
    <2> QED
      BY <1>2, <2>1 DEF QueueSave, Promise!Next, Promise!Accept
  <1>3. CASE FlushPerform
    <2>1. /\ mainOp \in Op /\ mainOp \notin Promise!Performed
          /\ \E i \in 1 .. Len(accepted) :
                accepted[i] = mainOp /\ Promise!AtMostOneBehind(i)
      BY <1>1, <1>3, PerformKeeps DEF FlushPerform, SaverTypeOK
    <2> QED
      BY <1>3, <2>1 DEF FlushPerform, Perform, Promise!Next, Promise!Perform
  <1>4. CASE WorkerPerforms
    <2>1. /\ workerOp \in Op /\ workerOp \notin Promise!Performed
          /\ \E i \in 1 .. Len(accepted) :
                accepted[i] = workerOp /\ Promise!AtMostOneBehind(i)
      BY <1>1, <1>4, PerformKeeps DEF WorkerPerforms, SaverTypeOK
    <2> QED
      BY <1>4, <2>1 DEF WorkerPerforms, Perform, Promise!Next, Promise!Perform
  <1>5. CASE UNCHANGED saverVars
    BY <1>5 DEF saverVars
  <1>6. CASE Start \/ Flush \/ Stop \/ FlushTake \/ FlushReturn \/ StopReturn
    BY <1>6 DEF Start, Flush, Stop, FlushTake, FlushReturn, StopReturn
  <1>7. CASE \/ WorkerWaits \/ WorkerTakes \/ WorkerBreaks \/ WorkerExits
             \/ SpuriousWakeup
    BY <1>7 DEF WorkerWaits, WorkerTakes, WorkerBreaks, WorkerExits, SpuriousWakeup
  <1> QED
    BY <1>2, <1>3, <1>4, <1>5, <1>6, <1>7 DEF SaverNext, Call, MainProceeds, WorkerProceeds

\* The saver implements SaveLog: whichever thread takes a save performs it, no
\* other does, and no save overtakes two older ones.
THEOREM ImplementsSaveLog == SaverSpec => PerformedOnceInTurn
  <1>1. SaverInit => Promise!Init
    BY DEF SaverInit, Promise!Init
  <1>2. SaverIInv /\ [SaverNext]_saverVars => [Promise!Next]_<<accepted, log>>
    BY StepPerformsOnceInTurn
  <1> QED
    BY <1>1, <1>2, SaverInvariance, PTL DEF SaverSpec, PerformedOnceInTurn, Promise!Spec

\* When stop comes back, nothing is queued and nothing is half done, in either
\* thread: what was accepted has been performed.
THEOREM NothingIsLeftAtStop == SaverSpec => NothingLeftAtStop
  <1>1. SaverIInv /\ [SaverNext]_saverVars => [StopReturn => Promise!Performed = ToSet(accepted)]_saverVars
    <2> SUFFICES ASSUME SaverIInv, StopReturn  PROVE Promise!Performed = ToSet(accepted)
      OBVIOUS
    <2>1. mainOp = NoOp /\ workerOp = NoOp /\ m_saveQueue = <<>>
      BY DEF SaverIInv, InPlace, StopReturn, Joined
    <2>2. Taken = {} /\ ToSet(m_saveQueue) = {}
      BY <2>1 DEF Taken, ToSet
    <2> QED
      BY <2>2 DEF SaverIInv, SavesAccountedFor
  <1> QED
    BY <1>1, SaverInvariance, PTL DEF SaverSpec, NothingLeftAtStop
=============================================================================
