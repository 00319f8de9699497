----------------------------- MODULE TradeCrash ------------------------------
(***************************************************************************)
(* Trade with what the database holds: each player is saved on their own,  *)
(* periodically and at logout, and a crash of the server leaves only what  *)
(* was saved.  Nothing is used up or spent in this module, so that items   *)
(* can only change hands.                                                  *)
(***************************************************************************)
EXTENDS Trade

VARIABLE saved      \* saved[p]: the rows of p in the database

crashVars == <<vars, saved>>

CrashInit ==
    /\ Init
    /\ saved = [p \in Player |-> [inv |-> inv[p], gold |-> gold[p]]]

\* One transaction per player.
Save(p) == saved' = [saved EXCEPT ![p] = [inv |-> inv[p], gold |-> gold[p]]]

\* Any step of a player marks them as needing the next periodic save.
PeriodicSave(p) ==
    /\ p \in online
    /\ Save(p)
    /\ UNCHANGED vars

LogoutSaved(p) == Logout(p) /\ Save(p)

\* The players log in again with what the database holds.
Crash ==
    /\ online # {}
    /\ online' = {}
    /\ inv' = [p \in Player |-> saved[p].inv]
    /\ gold' = [p \in Player |-> saved[p].gold]
    /\ sessionOf' = [p \in Player |-> NoPlayer]
    /\ target' = [p \in Player |-> NoPlayer]
    /\ offer' = [p \in Player |-> NoOffer]
    /\ UNCHANGED saved

CrashNext ==
    \/ \E p \in Player :
         \/ (TradeStep(p) \/ Login(p)) /\ UNCHANGED saved
         \/ PeriodicSave(p)
         \/ LogoutSaved(p)
    \/ Crash

CrashSpec == CrashInit /\ [][CrashNext]_crashVars

-----------------------------------------------------------------------------

\* "This prevents partial saves and item duplication on crash": a crash may lose
\* what was gained since the last save, but it leaves no more of an item than
\* there was.
CrashDuplicatesNothing ==
    [][Crash => \A x \in Item : Owned(x, inv') <= Owned(x, inv)]_crashVars
=============================================================================
