---------------------------- MODULE Market_proof -----------------------------
(***************************************************************************)
(* Theorems about Market, for any quests, items, prices, stock and drops:  *)
(* the quest log follows the inventory; what the player has stays within   *)
(* its limits; a quest pays exactly; nothing that is sold or looted is     *)
(* lost.  What is in an inventory, in a list or on a corpse is computed by *)
(* folds, which the lemmas of Inventory_proof take step by step.           *)
(***************************************************************************)
EXTENDS Market, Inventory_proof, SequenceTheorems

\* A record with the fields of QuestState.
Shaped(state) ==
    state = [status |-> state.status, items |-> state.items, deeds |-> state.deeds]

\* What StatusFollowsTally says of one quest.
Faithful(q, state) ==
    /\ Shaped(state)
    /\ state.status = "InProgress" => ~ AreObjectivesComplete(q, state)
    /\ state.status = "Complete" => AreObjectivesComplete(q, state)

\* All quests of a log.
FaithfulLog(l) ==
    /\ l = [q \in DOMAIN l |-> l[q]]
    /\ \A q \in DOMAIN l : Faithful(q, l[q])

\* All active quests of a log count the items of an inventory.
Tallied(l, v) == \A q \in DOMAIN l : IsActive(l[q]) => l[q].items = ItemTally(q, v)

-----------------------------------------------------------------------------
(* Operations on a log.                                                    *)

\* updateQuestCompletion makes the status right, whatever it was.
LEMMA Updated ==
    ASSUME NEW q, NEW state, Shaped(state)
    PROVE  /\ Faithful(q, UpdateQuestCompletion(q, state))
           /\ UpdateQuestCompletion(q, state).items = state.items
           /\ IsActive(state) => IsActive(UpdateQuestCompletion(q, state))
<1> DEFINE s == IF AreObjectivesComplete(q, state) THEN "Complete"
                ELSE IF state.status = "Complete" THEN "InProgress" ELSE state.status
           u == [status |-> s, items |-> state.items, deeds |-> state.deeds]
<1>1. UpdateQuestCompletion(q, state) = u
  BY DEF UpdateQuestCompletion, Shaped
<1>2. AreObjectivesComplete(q, u) <=> AreObjectivesComplete(q, state)
  BY DEF AreObjectivesComplete
<1>3. Faithful(q, u)
  BY <1>2 DEF Faithful, Shaped
<1>4. IsActive(state) => IsActive(u)
  BY DEF IsActive
<1>5. QED
  BY <1>1, <1>3, <1>4

\* A change of one quest's state leaves the others.
LEMMA Changed ==
    ASSUME NEW l, FaithfulLog(l), NEW q \in DOMAIN l, NEW state, Faithful(q, state)
    PROVE  FaithfulLog([l EXCEPT ![q] = state])
  BY DEF FaithfulLog

\* Quests come and go.
LEMMA Added ==
    ASSUME NEW l, FaithfulLog(l), NEW q, NEW state, Faithful(q, state)
    PROVE  FaithfulLog(WithQuest(l, q, state))
  BY DEF FaithfulLog, WithQuest

LEMMA Removed ==
    ASSUME NEW l, FaithfulLog(l), NEW q
    PROVE  /\ FaithfulLog(WithoutQuest(l, q))
           /\ \A v : Tallied(l, v) => Tallied(WithoutQuest(l, q), v)
  BY DEF FaithfulLog, WithoutQuest, Tallied

\* onInventoryChanged keeps the statuses right and makes the tallies right.
LEMMA Notified ==
    ASSUME NEW l, FaithfulLog(l), NEW v
    PROVE  /\ FaithfulLog(OnInventoryChanged(l, v))
           /\ DOMAIN OnInventoryChanged(l, v) = DOMAIN l
           /\ Tallied(OnInventoryChanged(l, v), v)
<1> DEFINE after == OnInventoryChanged(l, v)
<1>1. after = [q \in DOMAIN l |->
                 IF IsActive(l[q]) /\ l[q].items # ItemTally(q, v)
                 THEN UpdateQuestCompletion(q, [l[q] EXCEPT !.items = ItemTally(q, v)])
                 ELSE l[q]]
  BY DEF OnInventoryChanged
<1> HIDE DEF after
<1>2. ASSUME NEW q \in DOMAIN l
      PROVE  Faithful(q, after[q]) /\ (IsActive(after[q]) => after[q].items = ItemTally(q, v))
  <2>1. Faithful(q, l[q]) /\ Shaped(l[q])
    BY DEF FaithfulLog, Faithful
  <2> DEFINE counted == [l[q] EXCEPT !.items = ItemTally(q, v)]
  <2>2. CASE IsActive(l[q]) /\ l[q].items # ItemTally(q, v)
    <3>1. after[q] = UpdateQuestCompletion(q, counted)
      BY <1>1, <2>2
    <3>2. counted = [status |-> l[q].status, items |-> ItemTally(q, v), deeds |-> l[q].deeds]
      BY <2>1 DEF Shaped
    <3>3. Shaped(counted) /\ counted.items = ItemTally(q, v)
      BY <3>2 DEF Shaped
    <3> HIDE DEF counted
    <3>4. QED
      BY <3>1, <3>3, Updated
  <2>3. CASE ~ (IsActive(l[q]) /\ l[q].items # ItemTally(q, v))
    BY <1>1, <2>1, <2>3
  <2>4. QED
    BY <2>2, <2>3
<1>3. DOMAIN after = DOMAIN l /\ after = [q \in DOMAIN after |-> after[q]]
  BY <1>1
<1>4. QED
  BY <1>2, <1>3 DEF FaithfulLog, Tallied, after

\* So does addItem, and when it changes the inventory the tallies are right.
LEMMA AddingNotifies ==
    ASSUME NEW l, FaithfulLog(l), NEW v, NEW w
    PROVE  /\ FaithfulLog(AfterAdding(l, v, w))
           /\ DOMAIN AfterAdding(l, v, w) = DOMAIN l
           /\ w # v => Tallied(AfterAdding(l, v, w), w)
  BY Notified DEF AfterAdding

\* Kills and casts.
LEMMA DeedCounted ==
    ASSUME NEW l, FaithfulLog(l), NEW d
    PROVE  FaithfulLog(OnDeed(l, d))
<1> DEFINE after == OnDeed(l, d)
<1>1. after = [q \in DOMAIN l |->
                 IF l[q].status = "InProgress" /\ l[q].deeds[d] < Template[q].deeds[d]
                 THEN UpdateQuestCompletion(q, [l[q] EXCEPT !.deeds[d] = @ + 1])
                 ELSE l[q]]
  BY DEF OnDeed
<1> HIDE DEF after
<1>2. ASSUME NEW q \in DOMAIN l
      PROVE  Faithful(q, after[q])
  <2>1. Faithful(q, l[q]) /\ Shaped(l[q])
    BY DEF FaithfulLog, Faithful
  <2> DEFINE counted == [l[q] EXCEPT !.deeds[d] = @ + 1]
  <2>2. Shaped(counted)
    BY <2>1 DEF Shaped
  <2>3. after[q] = UpdateQuestCompletion(q, counted) \/ after[q] = l[q]
    BY <1>1
  <2> HIDE DEF counted
  <2>4. QED
    BY <2>1, <2>2, <2>3, Updated
<1>3. after = [q \in DOMAIN after |-> after[q]] /\ DOMAIN after = DOMAIN l
  BY <1>1
<1>4. QED
  BY <1>2, <1>3 DEF FaithfulLog, after

-----------------------------------------------------------------------------
(* Actions.  Each of them leaves a faithful log, and right tallies when it *)
(* changes the inventory and notifies its owner.                           *)

Follows == FaithfulLog(log') /\ (inv' # inv => Tallied(log', inv'))

LEMMA FollowsAdding ==
    ASSUME FaithfulLog(log), log' = AfterAdding(log, inv, inv')
    PROVE  Follows
  BY AddingNotifies DEF Follows

LEMMA FollowsChange ==
    ASSUME FaithfulLog(log), log' = OnInventoryChanged(log, inv')
    PROVE  Follows
  BY Notified DEF Follows

LEMMA FollowsNothing ==
    ASSUME FaithfulLog(log), UNCHANGED <<inv, log>>
    PROVE  Follows
  BY DEF Follows

\* A quest as it is accepted.
LEMMA NewIsShaped == Shaped(NewQuest)
  BY DEF Shaped, NewQuest

\* The quest that hands something out is faithful only in the end: until its
\* completion is looked at it is in progress, whatever it asks for.
LEMMA Handed ==
    ASSUME NEW l, FaithfulLog(l), NEW q, NEW v, NEW w
    PROVE  LET given == AfterAdding(WithQuest(l, q, NewQuest), v, w)
           IN  /\ FaithfulLog(WithoutQuest(given, q))
               /\ w # v => Tallied(WithoutQuest(given, q), w)
               /\ FaithfulLog([given EXCEPT ![q] = UpdateQuestCompletion(q, @)])
               /\ w # v => Tallied([given EXCEPT ![q] = UpdateQuestCompletion(q, @)], w)
<1> DEFINE wide == WithQuest(l, q, NewQuest)
           given == AfterAdding(wide, v, w)
           done == [given EXCEPT ![q] = UpdateQuestCompletion(q, @)]
<1>1. /\ DOMAIN wide = DOMAIN l \cup {q}
      /\ wide = [p \in DOMAIN wide |-> wide[p]]
      /\ \A p \in DOMAIN wide : Shaped(wide[p])
      /\ \A p \in DOMAIN wide \ {q} : Faithful(p, wide[p])
      /\ IsActive(wide[q])
  BY NewIsShaped DEF WithQuest, FaithfulLog, Faithful, NewQuest, IsActive
<1> HIDE DEF wide
<1>2. /\ DOMAIN given = DOMAIN wide
      /\ given = [p \in DOMAIN given |-> given[p]]
      /\ \A p \in DOMAIN wide : given[p] = wide[p]
           \/ \E s : Shaped(s) /\ given[p] = UpdateQuestCompletion(p, s)
      /\ w # v => Tallied(given, w)
      /\ \A p \in DOMAIN wide : IsActive(wide[p]) => IsActive(given[p])
  <2>1. CASE w = v
    BY <1>1, <2>1 DEF AfterAdding
  <2>2. CASE w # v
    <3>1. given = [p \in DOMAIN wide |->
                     IF IsActive(wide[p]) /\ wide[p].items # ItemTally(p, w)
                     THEN UpdateQuestCompletion(p, [wide[p] EXCEPT !.items = ItemTally(p, w)])
                     ELSE wide[p]]
      BY <2>2 DEF AfterAdding, OnInventoryChanged
    <3> HIDE DEF given
    <3>2. ASSUME NEW p \in DOMAIN wide
          PROVE  /\ \/ given[p] = wide[p]
                    \/ \E s : Shaped(s) /\ given[p] = UpdateQuestCompletion(p, s)
                 /\ IsActive(given[p]) => given[p].items = ItemTally(p, w)
                 /\ IsActive(wide[p]) => IsActive(given[p])
      <4> DEFINE s == [wide[p] EXCEPT !.items = ItemTally(p, w)]
      <4>1. Shaped(s) /\ s.items = ItemTally(p, w)
        <5>1. Shaped(wide[p])
          BY <1>1
        <5>2. s = [status |-> wide[p].status, items |-> ItemTally(p, w), deeds |-> wide[p].deeds]
          BY <5>1 DEF Shaped
        <5>3. QED
          BY <5>2 DEF Shaped
      <4>2. CASE IsActive(wide[p]) /\ wide[p].items # ItemTally(p, w)
        <5>1. given[p] = UpdateQuestCompletion(p, s)
          BY <3>1, <4>2
        <5>2. IsActive(s)
          BY <4>2 DEF IsActive
        <5> HIDE DEF s
        <5>3. \E t : Shaped(t) /\ given[p] = UpdateQuestCompletion(p, t)
          BY <4>1, <5>1
        <5>4. given[p].items = ItemTally(p, w) /\ IsActive(given[p])
          BY <4>1, <5>1, <5>2, Updated
        <5>5. QED
          BY <4>2, <5>3, <5>4
      <4>3. CASE ~ (IsActive(wide[p]) /\ wide[p].items # ItemTally(p, w))
        BY <3>1, <4>3
      <4>4. QED
        BY <4>2, <4>3
    <3>3. DOMAIN given = DOMAIN wide /\ given = [p \in DOMAIN given |-> given[p]]
      BY <3>1
    <3>4. Tallied(given, w)
      BY <3>2, <3>3 DEF Tallied
    <3>5. QED
      BY <3>2, <3>3, <3>4
  <2>3. QED
    BY <2>1, <2>2
<1> HIDE DEF given
<1>3. /\ \A p \in DOMAIN given : Shaped(given[p])
      /\ \A p \in DOMAIN given \ {q} : Faithful(p, given[p])
  BY <1>1, <1>2, Updated DEF Faithful
<1>4. FaithfulLog(WithoutQuest(given, q))
  BY <1>3 DEF FaithfulLog, WithoutQuest
<1>5. w # v => Tallied(WithoutQuest(given, q), w)
  BY <1>2 DEF Tallied, WithoutQuest
<1>6. q \in DOMAIN given /\ IsActive(given[q])
  BY <1>1, <1>2
<1>7. /\ Faithful(q, UpdateQuestCompletion(q, given[q]))
      /\ UpdateQuestCompletion(q, given[q]).items = given[q].items
  BY <1>3, <1>6, Updated
<1>8. /\ DOMAIN done = DOMAIN given
      /\ done[q] = UpdateQuestCompletion(q, given[q])
      /\ \A p \in DOMAIN given \ {q} : done[p] = given[p]
      /\ done = [p \in DOMAIN done |-> done[p]]
  BY <1>2, <1>6
<1> HIDE DEF done
<1>9. FaithfulLog(done)
  BY <1>3, <1>7, <1>8 DEF FaithfulLog
<1>10. w # v => Tallied(done, w)
  BY <1>2, <1>6, <1>7, <1>8 DEF Tallied
<1>11. QED
  BY <1>4, <1>5, <1>9, <1>10 DEF done, given, wide

\* acceptQuest.
LEMMA AcceptFollows ==
    ASSUME FaithfulLog(log), NEW q, AcceptQuest(q) \/ AcceptWithItem(q)
    PROVE  Follows
<1>1. CASE AcceptQuest(q)
  <2>1. Faithful(q, UpdateQuestCompletion(q, NewQuest))
    BY NewIsShaped, Updated
  <2>2. log' = WithQuest(log, q, UpdateQuestCompletion(q, NewQuest)) /\ UNCHANGED inv
    BY <1>1 DEF AcceptQuest
  <2>3. QED
    BY <2>1, <2>2, Added DEF Follows
<1>2. CASE AcceptWithItem(q)
  <2> DEFINE given == AfterAdding(WithQuest(log, q, NewQuest), inv, inv')
  <2>1. \/ log' = WithoutQuest(given, q)
        \/ log' = [given EXCEPT ![q] = UpdateQuestCompletion(q, @)]
    BY <1>2 DEF AcceptWithItem
  <2>2. /\ FaithfulLog(WithoutQuest(given, q))
        /\ inv' # inv => Tallied(WithoutQuest(given, q), inv')
        /\ FaithfulLog([given EXCEPT ![q] = UpdateQuestCompletion(q, @)])
        /\ inv' # inv => Tallied([given EXCEPT ![q] = UpdateQuestCompletion(q, @)], inv')
    BY Handed
  <2> HIDE DEF given
  <2>3. QED
    BY <2>1, <2>2 DEF Follows
<1>3. QED
  BY <1>1, <1>2

\* completeQuest.
LEMMA CompleteFollows ==
    ASSUME FaithfulLog(log), NEW q, NEW c, CompleteQuest(q, c)
    PROVE  Follows
<1> DEFINE l == OnInventoryChanged(log, inv')
<1>1. FaithfulLog(l) /\ DOMAIN l = DOMAIN log /\ Tallied(l, inv')
  BY Notified
<1>2. log' = WithoutQuest(l, q) \/ log' = [l EXCEPT ![q].status = "Rewarded"]
  BY DEF CompleteQuest
<1>3. q \in DOMAIN log
  BY DEF CompleteQuest, CanComplete
<1> HIDE DEF l
<1>4. CASE log' = WithoutQuest(l, q)
  BY <1>1, <1>4, Removed DEF Follows
<1>5. CASE log' = [l EXCEPT ![q].status = "Rewarded"]
  <2> DEFINE paid == [l[q] EXCEPT !.status = "Rewarded"]
  <2>1. Shaped(l[q])
    BY <1>1, <1>3 DEF FaithfulLog, Faithful
  <2>2. paid = [status |-> "Rewarded", items |-> l[q].items, deeds |-> l[q].deeds]
    BY <2>1 DEF Shaped
  <2>3. Faithful(q, paid) /\ ~ IsActive(paid)
    BY <2>2 DEF Faithful, Shaped, IsActive
  <2>4. log' = [l EXCEPT ![q] = paid]
    BY <1>5, ZenonT(30)
  <2> HIDE DEF paid
  <2>5. FaithfulLog(log')
    BY <1>1, <1>3, <2>3, <2>4, Changed
  <2>6. Tallied(log', inv')
    BY <1>1, <1>3, <2>3, <2>4 DEF Tallied
  <2>7. QED
    BY <2>5, <2>6 DEF Follows
<1>6. QED
  BY <1>2, <1>4, <1>5

\* Every step but an exchange with the bank or the body.
LEMMA StepFollows ==
    ASSUME FaithfulLog(log), [Next]_vars
    PROVE  FaithfulLog(log') /\ (Follows \/ \E s \in Slot, x \in Item : SetItem(s, x))
<1>1. ASSUME NEW q, AcceptQuest(q) \/ AcceptWithItem(q) \/ AbandonQuest(q)
      PROVE  Follows
  <2>1. CASE AcceptQuest(q) \/ AcceptWithItem(q)
    BY <2>1, AcceptFollows
  <2>2. CASE AbandonQuest(q)
    BY <2>2, Removed DEF AbandonQuest, Follows
  <2>3. QED
    BY <1>1, <2>1, <2>2
<1>2. ASSUME NEW x, Gain(x, MaxBatch)
      PROVE  Follows
  BY <1>2, FollowsAdding DEF Gain
<1>3. ASSUME NEW s, NEW n, Lose(s, n)
      PROVE  Follows
  BY <1>3, FollowsChange DEF Lose
<1>4. ASSUME NEW s, NEW x, SetItem(s, x)
      PROVE  FaithfulLog(log')
  BY <1>4 DEF SetItem
<1>5. ASSUME NEW d, NEW amount, DoDeed(d, amount)
      PROVE  Follows
  BY <1>5, DeedCounted DEF DoDeed, Follows
<1>6. ASSUME NEW q, NEW c, Rewarded(q, c)
      PROVE  Follows
  BY <1>6, CompleteFollows DEF Rewarded
<1>7. ASSUME ComeBack
      PROVE  Follows
  <2>1. log' = OnInventoryChanged(log, inv) /\ UNCHANGED inv
    BY <1>7 DEF ComeBack, Reload
  <2>2. QED
    BY <2>1, Notified DEF Follows
<1>8. ASSUME NEW x, NEW n, Buy(x, n) \/ BuyOnTop(x, n)
      PROVE  Follows
  BY <1>8, FollowsAdding DEF Buy, BuyOnTop
<1>9. ASSUME NEW s, SellItem(s)
      PROVE  Follows
  BY <1>9, FollowsChange DEF SellItem
<1>10. ASSUME NEW i, Buyback(i)
       PROVE  Follows
  BY <1>10, FollowsAdding DEF Buyback
<1>11. ASSUME NEW i, LootItem(i)
       PROVE  Follows
  BY <1>11, FollowsAdding DEF LootItem
<1>12. ASSUME LootAll
       PROVE  Follows
  <2>1. log' = AfterAdding(log, inv, inv')
    BY <1>12 DEF LootAll
  <2>2. QED
    BY <2>1, FollowsAdding
<1>13. ASSUME NEW cost, LevelUp(cost)
       PROVE  Follows
  BY <1>13, FollowsNothing DEF LevelUp
<1>14. ASSUME NEW killer, NEW drop, Slain(killer, drop)
       PROVE  Follows
  BY <1>14, FollowsNothing DEF Slain, questVars
<1>15. ASSUME LootGold
       PROVE  Follows
  BY <1>15, FollowsNothing DEF LootGold, questVars
<1>16. ASSUME NEW amount, SpendGold(amount) \/ Repair(amount)
       PROVE  Follows
  BY <1>16, FollowsNothing DEF SpendGold, Repair
<1>17. ASSUME UNCHANGED vars
       PROVE  Follows
  BY <1>17, FollowsNothing DEF vars, questVars
<1>18. ASSUME QuestStep
       PROVE  FaithfulLog(log') /\ (Follows \/ \E s \in Slot, x \in Item : SetItem(s, x))
  BY <1>1, <1>2, <1>3, <1>4, <1>5, <1>13, <1>18 DEF QuestStep, Follows
<1>19. ASSUME Next
       PROVE  QuestStep \/ Follows
  BY <1>6, <1>7, <1>8, <1>9, <1>10, <1>11, <1>12, <1>14, <1>15, <1>16, <1>19 DEF Next
<1>20. QED
  BY <1>17, <1>18, <1>19 DEF Follows

-----------------------------------------------------------------------------
(* The theorems.                                                           *)

\* The log of a character is faithful always.
THEOREM LogAlwaysFaithful == Spec => []FaithfulLog(log)
<1>1. Init => FaithfulLog(log)
  BY DEF Init, QuestInit, FaithfulLog
<1>2. FaithfulLog(log) /\ [Next]_vars => FaithfulLog(log)'
  BY StepFollows
<1>3. QED
  BY <1>1, <1>2, PTL DEF Spec

\* For any quests, prices and drops, a quest is marked complete exactly while
\* its tallies are full, whatever is bought, sold, looted, rewarded or lost
\* (updateQuestCompletion is called wherever a tally changes).
THEOREM StatusAlwaysFollowsTally == Spec => []StatusFollowsTally
<1>1. FaithfulLog(log) => StatusFollowsTally
  BY DEF FaithfulLog, Faithful, StatusFollowsTally
<1>2. QED
  BY <1>1, LogAlwaysFaithful, PTL

\* For any quests, prices and drops, every change of the inventory but setItem
\* leaves every active quest counting what is carried (onInventoryChanged).
THEOREM ChangesAreAlwaysTallied == Spec => NotifiedChangesAreTallied
<1>1. FaithfulLog(log) /\ [Next]_vars =>
        [inv' # inv =>
           \/ \E s \in Slot, x \in Item : SetItem(s, x)
           \/ \A q \in DOMAIN log' : IsActive(log'[q]) => log'[q].items = ItemTally(q, inv')]_questVars
  BY StepFollows DEF Follows, Tallied
<1>2. QED
  BY <1>1, LogAlwaysFaithful, PTL DEF Spec, NotifiedChangesAreTallied

-----------------------------------------------------------------------------
(* Taking and granting.                                                    *)

Taking == [inv : [Slot -> Stack], left : Nat]

\* One visit: what the stack loses is what is left less.
LEMMA TakeFromIs ==
    ASSUME NEW call \in Taking, NEW s \in Slot, NEW x \in Item
    PROVE  LET r == TakeFrom(call, s, x)
           IN  /\ r \in Taking
               /\ \A t \in Slot \ {s} : r.inv[t] = call.inv[t]
               /\ r.left <= call.left
               /\ r.left > 0 => r.inv[s].itemId # x
               /\ IsEmpty(call.inv[s]) => IsEmpty(r.inv[s])
               /\ Holds(r.inv[s], x) + call.left = Holds(call.inv[s], x) + r.left
               /\ \A y \in Item \ {x} : Holds(r.inv[s], y) = Holds(call.inv[s], y)
  <1> DEFINE st == call.inv[s]
             k == Smaller(call.left, st.stackCount)
             w == RemoveItem(call.inv, s, k)
             r == TakeFrom(call, s, x)
  <1>1. /\ call.inv \in Slots /\ call.left \in Nat
        /\ st \in Stack /\ st.stackCount \in Nat
        /\ call = [inv |-> call.inv, left |-> call.left]
        /\ \A y : Holds(st, y) \in Nat
    BY StackCounts DEF Taking, Slots
  <1>2. CASE st.itemId # x \/ call.left = 0
    <2>1. r = call
      BY <1>2 DEF TakeFrom
    <2> QED
      BY <1>1, <1>2, <2>1
  <1>3. CASE ~ (st.itemId # x \/ call.left = 0)
    <2>1. r = [inv |-> w, left |-> call.left - k]
      BY <1>3 DEF TakeFrom
    <2>2. k \in Nat /\ k <= call.left /\ k <= st.stackCount /\ (k = call.left \/ k = st.stackCount)
      BY <1>1 DEF Smaller
    <2>3. st.itemId = x /\ x # 0 /\ ~ IsEmpty(st) /\ call.left > 0
      BY <1>1, <1>3, StackIs DEF IsEmpty
    <2> HIDE DEF k
    <2>4. /\ w \in Slots
          /\ \A t \in Slot \ {s} : w[t] = call.inv[t]
          /\ st.stackCount <= k => w[s] = EmptyStack
          /\ st.stackCount > k =>
               w[s].itemId = st.itemId /\ w[s].stackCount = st.stackCount - k
      BY <1>1, <2>2, RemoveIs
    <2>5. call.left - k \in Nat /\ call.left - k <= call.left
      BY <1>1, <2>2
    <2> HIDE DEF w
    <2>6. r \in Taking /\ r.inv = w /\ r.left = call.left - k
      BY <2>1, <2>4, <2>5 DEF Taking, Slots
    <2>7. EmptyStack.itemId = 0
      BY DEF EmptyStack
    <2>8. CASE st.stackCount <= k
      <3>1. k = st.stackCount /\ w[s] = EmptyStack
        BY <1>1, <2>2, <2>4, <2>8
      <3>2. Holds(w[s], x) = 0 /\ Holds(st, x) = k /\ w[s].itemId # x
        BY <2>3, <2>7, <3>1 DEF Holds
      <3>3. \A y \in Item \ {x} : Holds(w[s], y) = Holds(st, y)
        BY <2>3, <2>7, <3>1, StackIs DEF Holds
      <3>4. Holds(w[s], x) + call.left = Holds(st, x) + (call.left - k)
        BY <1>1, <2>2, <3>2
      <3> QED
        BY <2>3, <2>4, <2>5, <2>6, <3>2, <3>3, <3>4
    <2>9. CASE st.stackCount > k
      <3>1. k = call.left /\ w[s].itemId = x /\ w[s].stackCount = st.stackCount - k
        BY <1>1, <2>2, <2>3, <2>4, <2>9
      <3>2. Holds(w[s], x) = st.stackCount - k /\ Holds(st, x) = st.stackCount
        BY <2>3, <3>1 DEF Holds
      <3>3. \A y \in Item \ {x} : Holds(w[s], y) = Holds(st, y)
        BY <2>3, <3>1 DEF Holds
      <3>4. Holds(w[s], x) + call.left = Holds(st, x) + (call.left - k)
        BY <1>1, <2>2, <3>2
      <3>5. ~ (call.left - k > 0)
        BY <1>1, <3>1
      <3> QED
        BY <2>3, <2>4, <2>5, <2>6, <3>3, <3>4, <3>5
    <2> QED
      BY <1>1, <2>2, <2>8, <2>9
  <1> QED
    BY <1>2, <1>3

\* The fold of TakeItems: g goes through it, slot by slot.
LEMMA TakingOut ==
    ASSUME NEW call \in Taking, NEW x \in Item
    PROVE  \E g : /\ g[{}] = call
                  /\ \A k \in 1 .. MAX_SLOTS :
                       g[1 .. k] = TakeFrom(g[1 .. (k - 1)], SlotOrder[k], x)
                  /\ g[1 .. MAX_SLOTS] = FoldLeft(LAMBDA c, s : TakeFrom(c, s, x), call, SlotOrder)
  <1> DEFINE N == 1 .. MAX_SLOTS
             step == [p \in N \X Taking |-> TakeFrom(p[2], SlotOrder[p[1]], x)]
             Solves(f) == f = [s \in SUBSET N |->
                                 IF s = {} THEN call
                                 ELSE TakeFrom(f[s \ {Max(s)}], SlotOrder[Max(s)], x)]
             g == CHOOSE f : Solves(f)
  <1>1. step \in [N \X Taking -> Taking]
    BY SlotsInOrder, TakeFromIs
  <1>2. PICK f \in [SUBSET N -> Taking] : LeftFolds(f, MAX_SLOTS, call, step)
    <2> HIDE DEF step
    <2> QED
      BY <1>1, SlotsInOrder, FoldLeftSolved
  <1>3. Solves(f)
    BY <1>2, SlotsInOrder, LastIndex DEF LeftFolds
  <1>4. Solves(g)
    BY <1>3
  <1>5. g[N] = FoldLeft(LAMBDA c, s : TakeFrom(c, s, x), call, SlotOrder)
    BY SlotsInOrder DEF FoldLeft, MapThenFoldSet
  <1> HIDE DEF g
  <1>6. g[{}] = call
    BY <1>4
  <1>7. ASSUME NEW k \in N  PROVE g[1 .. k] = TakeFrom(g[1 .. (k - 1)], SlotOrder[k], x)
    <2>1. /\ 1 .. k \in SUBSET N /\ 1 .. k # {}
          /\ Max(1 .. k) = k
          /\ (1 .. k) \ {k} = 1 .. (k - 1)
      BY SlotsInOrder, PrefixOf
    <2> QED
      BY <1>4, <2>1
  <1> QED
    BY <1>5, <1>6, <1>7

\* What taking x out of call c, from the first k slots, has led to in call d.
Taken(c, d, k, x) ==
    /\ d \in Taking
    /\ d.left <= c.left
    /\ \A t \in Slot : d.left > 0 /\ t < k => d.inv[t].itemId # x
    /\ EmptySlots(c.inv) \subseteq EmptySlots(d.inv)
    /\ CountItem(d.inv, x) + c.left = CountItem(c.inv, x) + d.left
    /\ \A y \in Item \ {x} : CountItem(d.inv, y) = CountItem(c.inv, y)

LEMMA TakenStep ==
    ASSUME NEW c \in Taking, NEW d, NEW x \in Item, NEW k \in 1 .. MAX_SLOTS,
           Taken(c, d, k - 1, x)
    PROVE  Taken(c, TakeFrom(d, SlotOrder[k], x), k, x)
  <1> DEFINE s == k - 1
             r == TakeFrom(d, s, x)
  <1>1. SlotOrder[k] = s /\ s \in Slot
    BY SlotsAssumption DEF SlotOrder, Slot
  <1>2. d \in Taking /\ d.left \in Nat /\ d.inv \in Slots /\ c.left \in Nat /\ c.inv \in Slots
    BY DEF Taken, Taking, Slots
  <1>3. /\ r \in Taking
        /\ \A t \in Slot \ {s} : r.inv[t] = d.inv[t]
        /\ r.left <= d.left
        /\ r.left > 0 => r.inv[s].itemId # x
        /\ IsEmpty(d.inv[s]) => IsEmpty(r.inv[s])
        /\ Holds(r.inv[s], x) + d.left = Holds(d.inv[s], x) + r.left
        /\ \A y \in Item \ {x} : Holds(r.inv[s], y) = Holds(d.inv[s], y)
    BY <1>1, <1>2, TakeFromIs
  <1> HIDE DEF r
  <1>4. r.inv \in Slots /\ r.left \in Nat
    BY <1>3 DEF Taking, Slots
  <1>5. r.left <= c.left
    BY <1>2, <1>3, <1>4 DEF Taken
  <1>6. ASSUME NEW t \in Slot, r.left > 0, t < k  PROVE r.inv[t].itemId # x
    <2>1. CASE t = s
      BY <1>3, <1>6, <2>1
    <2>2. CASE t # s
      <3>1. t < s
        BY <1>6, <2>2, SlotsAssumption DEF Slot
      <3>2. d.left > 0
        BY <1>2, <1>3, <1>4, <1>6
      <3> QED
        BY <1>3, <2>2, <3>1, <3>2 DEF Taken
    <2> QED
      BY <2>1, <2>2
  <1>7. EmptySlots(c.inv) \subseteq EmptySlots(r.inv)
    BY <1>3 DEF Taken, EmptySlots
  <1>8. \A y \in Item : /\ CountItem(d.inv, y) \in Nat /\ CountItem(r.inv, y) \in Nat
                        /\ CountItem(c.inv, y) \in Nat
                        /\ CountItem(r.inv, y) + Holds(d.inv[s], y) =
                             CountItem(d.inv, y) + Holds(r.inv[s], y)
    BY <1>1, <1>2, <1>3, <1>4, CountPut, CountIsNat
  <1>9. \A y \in Item : Holds(d.inv[s], y) \in Nat /\ Holds(r.inv[s], y) \in Nat
    BY <1>1, <1>2, <1>4, StackCounts DEF Slots
  <1>10. CountItem(r.inv, x) + c.left = CountItem(c.inv, x) + r.left
    <2>1. CountItem(d.inv, x) + c.left = CountItem(c.inv, x) + d.left
      BY DEF Taken
    <2> QED
      BY <1>2, <1>3, <1>4, <1>8, <1>9, <2>1
  <1>11. ASSUME NEW y \in Item \ {x}  PROVE CountItem(r.inv, y) = CountItem(c.inv, y)
    <2>1. CountItem(d.inv, y) = CountItem(c.inv, y)
      BY DEF Taken
    <2> QED
      BY <1>3, <1>8, <1>9, <2>1
  <1>12. Taken(c, r, k, x)
    BY <1>3, <1>5, <1>6, <1>7, <1>10, <1>11 DEF Taken
  <1> QED
    BY <1>1, <1>12 DEF r

LEMMA TakenAll ==
    ASSUME NEW c \in Taking, NEW x \in Item
    PROVE  Taken(c, FoldLeft(LAMBDA d, s : TakeFrom(d, s, x), c, SlotOrder), MAX_SLOTS, x)
  <1> DEFINE good == [k \in 0 .. MAX_SLOTS |-> {d \in Taking : Taken(c, d, k, x)}]
             last == FoldLeft(LAMBDA d, s : TakeFrom(d, s, x), c, SlotOrder)
  <1>1. PICK g : /\ g[{}] = c
                 /\ \A k \in 1 .. MAX_SLOTS :
                      g[1 .. k] = TakeFrom(g[1 .. (k - 1)], SlotOrder[k], x)
                 /\ g[1 .. MAX_SLOTS] = last
    BY TakingOut
  <1> HIDE DEF last
  <1>2. \A k \in 0 .. MAX_SLOTS : \A d : d \in good[k] <=> Taken(c, d, k, x)
    BY DEF Taken
  <1>3. /\ MAX_SLOTS \in Nat
        /\ 0 \in 0 .. MAX_SLOTS /\ MAX_SLOTS \in 0 .. MAX_SLOTS
        /\ \A k \in 1 .. MAX_SLOTS : k \in 0 .. MAX_SLOTS /\ k - 1 \in 0 .. MAX_SLOTS
    BY SlotsAssumption
  <1>4. Taken(c, c, 0, x)
    <2>1. \A t \in Slot : ~ (t < 0)
      BY DEF Slot
    <2>2. c.left <= c.left
      BY DEF Taking
    <2> QED
      BY <2>1, <2>2 DEF Taken
  <1> HIDE DEF good
  <1>5. g[{}] \in good[0]
    BY <1>1, <1>2, <1>3, <1>4
  <1>6. \A k \in 1 .. MAX_SLOTS : g[1 .. (k - 1)] \in good[k - 1] => g[1 .. k] \in good[k]
    <2> SUFFICES ASSUME NEW k \in 1 .. MAX_SLOTS, g[1 .. (k - 1)] \in good[k - 1]
                 PROVE  g[1 .. k] \in good[k]
      OBVIOUS
    <2>1. Taken(c, g[1 .. (k - 1)], k - 1, x)
      BY <1>2, <1>3
    <2>2. Taken(c, TakeFrom(g[1 .. (k - 1)], SlotOrder[k], x), k, x)
      BY <2>1, TakenStep
    <2> QED
      BY <1>1, <1>2, <1>3, <2>2
  <1>7. g[1 .. MAX_SLOTS] \in good[MAX_SLOTS]
    BY <1>3, <1>5, <1>6, FoldLeftSteps
  <1>8. Taken(c, last, MAX_SLOTS, x)
    BY <1>1, <1>2, <1>3, <1>7
  <1> QED
    BY <1>8 DEF last

\* TakeItems takes what it is asked for, when it is there, and nothing else.
LEMMA TakeItemsIs ==
    ASSUME NEW v \in Slots, NEW x \in Item, NEW n \in Nat
    PROVE  LET w == TakeItems(v, x, n)
           IN  /\ w \in Slots
               /\ EmptySlots(v) \subseteq EmptySlots(w)
               /\ \A y \in Item \ {x} : CountItem(w, y) = CountItem(v, y)
               /\ n <= CountItem(v, x) => CountItem(w, x) + n = CountItem(v, x)
  <1> DEFINE c == [inv |-> v, left |-> n]
             last == FoldLeft(LAMBDA d, s : TakeFrom(d, s, x), c, SlotOrder)
  <1>1. c \in Taking /\ c.inv = v /\ c.left = n
    BY DEF Taking, Slots
  <1>2. Taken(c, last, MAX_SLOTS, x)
    <2> HIDE DEF c
    <2> QED
      BY <1>1, TakenAll
  <1>3. TakeItems(v, x, n) = last.inv
    BY DEF TakeItems
  <1> HIDE DEF last, c
  <1>4. last.inv \in Slots /\ last.left \in Nat
    BY <1>2 DEF Taken, Taking, Slots
  <1>5. /\ EmptySlots(v) \subseteq EmptySlots(last.inv)
        /\ \A y \in Item \ {x} : CountItem(last.inv, y) = CountItem(v, y)
        /\ CountItem(last.inv, x) + n = CountItem(v, x) + last.left
    BY <1>1, <1>2 DEF Taken
  <1>6. CountItem(last.inv, x) \in Nat /\ CountItem(v, x) \in Nat
    BY <1>4, CountIsNat
  <1>7. ASSUME n <= CountItem(v, x), last.left > 0  PROVE FALSE
    <2>1. \A t \in Slot : last.inv[t].itemId # x
      <3>1. \A t \in Slot : t < MAX_SLOTS
        BY SlotsAssumption DEF Slot
      <3> QED
        BY <1>2, <1>7, <3>1 DEF Taken
    <2>2. StacksOf(last.inv, x) = {}
      BY <2>1 DEF StacksOf
    <2>3. CountItem(last.inv, x) = 0
      <3> DEFINE counts == [t \in Slot |-> last.inv[t].stackCount]
      <3>1. SumFunctionOnSet(counts, {}) = 0
        BY FS_EmptySet, SumTake
      <3> QED
        BY <2>2, <3>1 DEF CountItem
    <2> QED
      BY <1>4, <1>5, <1>6, <1>7, <2>3
  <1>8. n <= CountItem(v, x) => CountItem(last.inv, x) + n = CountItem(v, x)
    BY <1>4, <1>5, <1>6, <1>7
  <1> QED
    BY <1>3, <1>4, <1>5, <1>8

\* The fold of RemoveRequiredItems.
LEMMA Removing ==
    ASSUME NEW v \in Slots, NEW q \in Quest
    PROVE  LET n == Cardinality(Item)
               order == Ascending(Item)
           IN  \E g : /\ g[{}] = v
                      /\ \A k \in 1 .. n :
                           g[1 .. k] = TakeItems(g[1 .. (k - 1)], order[k], Template[q].needs[order[k]])
                      /\ g[1 .. n] = RemoveRequiredItems(v, q)
  <1> DEFINE n == Cardinality(Item)
             N == 1 .. n
             order == Ascending(Item)
             needs == Template[q].needs
             step == [p \in N \X Slots |-> TakeItems(p[2], order[p[1]], needs[order[p[1]]])]
             Solves(f) == f = [s \in SUBSET N |->
                                 IF s = {} THEN v
                                 ELSE TakeItems(f[s \ {Max(s)}], order[Max(s)], needs[order[Max(s)]])]
             g == CHOOSE f : Solves(f)
  <1>1. n \in Nat /\ order \in [N -> Item] /\ DOMAIN order = N /\ needs \in [Item -> Nat]
    <2>1. IsFiniteSet(Item) /\ Item \subseteq Int
      BY GameAssumption, ItemAssumption
    <2> QED
      BY <2>1, AscendingIs, TemplateAssumption
  <1>a. n = Cardinality(Item)
    OBVIOUS
  <1> HIDE DEF needs, n
  <1>2. step \in [N \X Slots -> Slots]
    <2> HIDE DEF order
    <2> QED
      BY <1>1, TakeItemsIs
  <1>3. PICK f \in [SUBSET N -> Slots] : LeftFolds(f, n, v, step)
    <2> HIDE DEF step
    <2> QED
      BY <1>1, <1>2, FoldLeftSolved
  <1>4. Solves(f)
    <2> HIDE DEF order
    <2> QED
      BY <1>1, <1>3, LastIndex DEF LeftFolds
  <1>5. Solves(g)
    <2> HIDE DEF order
    <2> QED
      BY <1>4
  <1>6. g[N] = RemoveRequiredItems(v, q)
    <2> HIDE DEF order
    <2>1. RemoveRequiredItems(v, q) =
            FoldLeft(LAMBDA w, x : TakeItems(w, x, needs[x]), v, order)
      BY DEF RemoveRequiredItems, needs, order
    <2> QED
      BY <1>1, <2>1 DEF FoldLeft, MapThenFoldSet
  <1> HIDE DEF g, order
  <1>7. g[{}] = v
    BY <1>5
  <1>8. ASSUME NEW k \in N  PROVE g[1 .. k] = TakeItems(g[1 .. (k - 1)], order[k], needs[order[k]])
    <2>1. /\ 1 .. k \in SUBSET N /\ 1 .. k # {}
          /\ Max(1 .. k) = k
          /\ (1 .. k) \ {k} = 1 .. (k - 1)
      BY <1>1, PrefixOf
    <2> QED
      BY <1>5, <2>1
  <1> QED
    BY <1>6, <1>7, <1>8 DEF n, order, needs

\* What is carried is enough for a quest.
Enough(v, q) == \A x \in Item : Template[q].needs[x] <= CountItem(v, x)

\* RemoveRequiredItems takes what the quest needs of every item.
LEMMA RemovingIs ==
    ASSUME NEW v \in Slots, NEW q \in Quest
    PROVE  LET w == RemoveRequiredItems(v, q)
           IN  /\ w \in Slots
               /\ EmptySlots(v) \subseteq EmptySlots(w)
               /\ Enough(v, q) => \A x \in Item :
                                    CountItem(w, x) + Template[q].needs[x] = CountItem(v, x)
  <1> DEFINE n == Cardinality(Item)
             order == Ascending(Item)
             needs == Template[q].needs
             last == RemoveRequiredItems(v, q)
             Less(w, x) == CountItem(w, x) + needs[x] = CountItem(v, x)
             Good(w, k) ==
               /\ w \in Slots
               /\ EmptySlots(v) \subseteq EmptySlots(w)
               /\ Enough(v, q) =>
                    \A i \in 1 .. n : IF i <= k THEN Less(w, order[i])
                                      ELSE CountItem(w, order[i]) = CountItem(v, order[i])
             good == [k \in 0 .. n |-> {w \in Slots : Good(w, k)}]
  <1>1. PICK g : /\ g[{}] = v
                 /\ \A k \in 1 .. n :
                      g[1 .. k] = TakeItems(g[1 .. (k - 1)], order[k], needs[order[k]])
                 /\ g[1 .. n] = last
    BY Removing
  <1>2. /\ n \in Nat /\ needs \in [Item -> Nat]
        /\ order \in [1 .. n -> Item]
        /\ \A i, j \in 1 .. n : i # j => order[i] # order[j]
        /\ \A x \in Item : \E i \in 1 .. n : order[i] = x
    <2>1. IsFiniteSet(Item) /\ Item \subseteq Int
      BY GameAssumption, ItemAssumption
    <2> QED
      BY <2>1, AscendingIs, TemplateAssumption
  <1> HIDE DEF n, order, needs, last
  <1>3. 0 \in 0 .. n /\ n \in 0 .. n /\ \A k \in 1 .. n : k \in 0 .. n /\ k - 1 \in 0 .. n
    BY <1>2
  <1>4. \A k \in 0 .. n : \A w : w \in good[k] <=> Good(w, k)
    OBVIOUS
  <1>5. Good(v, 0)
    OBVIOUS
  <1>6. ASSUME NEW k \in 1 .. n, NEW w, Good(w, k - 1)
        PROVE  Good(TakeItems(w, order[k], needs[order[k]]), k)
    <2> DEFINE x == order[k]
               u == TakeItems(w, x, needs[x])
    <2>1. x \in Item /\ needs[x] \in Nat /\ w \in Slots
      BY <1>2, <1>6
    <2>2. /\ u \in Slots
          /\ EmptySlots(w) \subseteq EmptySlots(u)
          /\ \A y \in Item \ {x} : CountItem(u, y) = CountItem(w, y)
          /\ needs[x] <= CountItem(w, x) => CountItem(u, x) + needs[x] = CountItem(w, x)
      <3> HIDE DEF x
      <3> QED
        BY <2>1, TakeItemsIs
    <2> HIDE DEF u
    <2>3. ASSUME Enough(v, q), NEW i \in 1 .. n
          PROVE  IF i <= k THEN Less(u, order[i]) ELSE CountItem(u, order[i]) = CountItem(v, order[i])
      <3>1. IF i <= k - 1 THEN Less(w, order[i]) ELSE CountItem(w, order[i]) = CountItem(v, order[i])
        BY <1>6, <2>3
      <3>2. CASE i = k
        <4>1. CountItem(w, x) = CountItem(v, x)
          BY <3>1, <3>2
        <4>2. needs[x] <= CountItem(v, x)
          BY <2>1, <2>3 DEF Enough, needs
        <4>3. Less(u, x)
          BY <2>2, <4>1, <4>2
        <4> QED
          BY <3>2, <4>3
      <3>3. CASE i # k
        <4>1. order[i] \in Item \ {x}
          BY <1>2, <3>3
        <4>2. CountItem(u, order[i]) = CountItem(w, order[i])
          BY <2>2, <4>1
        <4>3. i <= k <=> i <= k - 1
          BY <1>2, <3>3
        <4> HIDE DEF x
        <4> QED
          BY <3>1, <4>2, <4>3
      <3> QED
        BY <3>2, <3>3
    <2>4. EmptySlots(v) \subseteq EmptySlots(u)
      BY <1>6, <2>2
    <2>5. Good(u, k)
      <3> HIDE DEF Less, x
      <3> QED
        BY <2>2, <2>3, <2>4
    <2> HIDE DEF Good
    <2> QED
      BY <2>5 DEF u
  <1> HIDE DEF good, Good
  <1>7. g[{}] \in good[0]
    BY <1>1, <1>3, <1>4, <1>5
  <1>8. \A k \in 1 .. n : g[1 .. (k - 1)] \in good[k - 1] => g[1 .. k] \in good[k]
    BY <1>1, <1>3, <1>4, <1>6
  <1>9. g[1 .. n] \in good[n]
    BY <1>2, <1>7, <1>8, FoldLeftSteps
  <1>10. Good(last, n)
    BY <1>1, <1>3, <1>4, <1>9
  <1>11. ASSUME Enough(v, q), NEW x \in Item  PROVE Less(last, x)
    <2>1. PICK i \in 1 .. n : order[i] = x
      BY <1>2
    <2>2. IF i <= n THEN Less(last, order[i]) ELSE CountItem(last, order[i]) = CountItem(v, order[i])
      BY <1>10, <1>11 DEF Good
    <2>3. i <= n
      BY <1>2
    <2> QED
      BY <2>1, <2>2, <2>3
  <1>12. last \in Slots /\ EmptySlots(v) \subseteq EmptySlots(last)
    BY <1>10 DEF Good
  <1> QED
    BY <1>11, <1>12 DEF needs, last

\* A reward fits in the slots that are counted for it.
LEMMA SlotsForIs ==
    ASSUME NEW r \in Batch
    PROVE  SlotsFor(r) \in Nat /\ r.count <= StackLimit[r.item] * SlotsFor(r)
  <1> DEFINE l == StackLimit[r.item]
             a == r.count + l - 1
             m == a \div l
  <1>1. r.count \in Nat /\ r.item \in Item /\ l \in Nat \ {0}
    BY StackIs DEF Batch
  <1>2. a \in Nat
    BY <1>1
  <1> HIDE DEF l, a
  <1>3. m \in Nat /\ a = (l * m) + (a % l) /\ a % l \in 0 .. l - 1
    BY <1>1, <1>2
  <1> HIDE DEF m
  <1>4. l * m \in Nat
    BY <1>1, <1>3
  <1>5. a = r.count + l - 1
    BY DEF a
  <1>6. r.count <= l * m
    BY <1>1, <1>3, <1>4, <1>5
  <1> QED
    BY <1>3, <1>6 DEF SlotsFor, l, a, m

\* The fold of CanReceiveRewards, with what it counts up to.
LEMMA CountingSlots ==
    ASSUME NEW rs \in Seq(Batch)
    PROVE  \E g : /\ g[{}] = 0
                  /\ \A k \in 1 .. Len(rs) : g[1 .. k] = g[1 .. (k - 1)] + SlotsFor(rs[k])
                  /\ g[1 .. Len(rs)] = FoldLeft(LAMBDA n, r : n + SlotsFor(r), 0, rs)
  <1> DEFINE N == 1 .. Len(rs)
             step == [p \in N \X Nat |-> p[2] + SlotsFor(rs[p[1]])]
             Solves(f) == f = [s \in SUBSET N |->
                                 IF s = {} THEN 0
                                 ELSE f[s \ {Max(s)}] + SlotsFor(rs[Max(s)])]
             g == CHOOSE f : Solves(f)
  <1>1. Len(rs) \in Nat /\ DOMAIN rs = N /\ \A k \in N : rs[k] \in Batch
    OBVIOUS
  <1>2. step \in [N \X Nat -> Nat]
    <2>1. \A p \in N \X Nat : p[2] \in Nat /\ SlotsFor(rs[p[1]]) \in Nat
      BY <1>1, SlotsForIs
    <2>2. \A p \in N \X Nat : p[2] + SlotsFor(rs[p[1]]) \in Nat
      BY <2>1
    <2> QED
      BY <2>2
  <1>3. PICK f \in [SUBSET N -> Nat] : LeftFolds(f, Len(rs), 0, step)
    <2> HIDE DEF step
    <2> QED
      BY <1>1, <1>2, FoldLeftSolved
  <1>4. Solves(f)
    BY <1>1, <1>3, LastIndex DEF LeftFolds
  <1>5. Solves(g)
    BY <1>4
  <1>6. g[N] = FoldLeft(LAMBDA n, r : n + SlotsFor(r), 0, rs)
    BY <1>1 DEF FoldLeft, MapThenFoldSet
  <1> HIDE DEF g
  <1>7. g[{}] = 0
    BY <1>5
  <1>8. ASSUME NEW k \in N  PROVE g[1 .. k] = g[1 .. (k - 1)] + SlotsFor(rs[k])
    <2>1. /\ 1 .. k \in SUBSET N /\ 1 .. k # {}
          /\ Max(1 .. k) = k
          /\ (1 .. k) \ {k} = 1 .. (k - 1)
      BY <1>1, PrefixOf
    <2> QED
      BY <1>5, <2>1
  <1> QED
    BY <1>6, <1>7, <1>8

\* What one batch adds to the count of item x.
Adds(e, x) == IF e.item = x THEN e.count ELSE 0

\* Batches, with whatever else their records have.
Batches(s) == \A k \in 1 .. Len(s) : s[k].count \in Nat

\* The fold of CountIn.
LEMMA Counting ==
    ASSUME NEW T, NEW s \in Seq(T), Batches(s), NEW x
    PROVE  \E g : /\ g[{}] = 0
                  /\ \A k \in 1 .. Len(s) : g[1 .. k] = g[1 .. (k - 1)] + Adds(s[k], x)
                  /\ \A k \in 0 .. Len(s) : g[1 .. k] \in Nat
                  /\ g[1 .. Len(s)] = CountIn(s, x)
  <1> DEFINE N == 1 .. Len(s)
             Step(n, e) == IF e.item = x THEN n + e.count ELSE n
             step == [p \in N \X Nat |-> Step(p[2], s[p[1]])]
             Solves(f) == f = [t \in SUBSET N |->
                                 IF t = {} THEN 0
                                 ELSE Step(f[t \ {Max(t)}], s[Max(t)])]
             g == CHOOSE f : Solves(f)
  <1>1. Len(s) \in Nat /\ DOMAIN s = N
    OBVIOUS
  <1>2. step \in [N \X Nat -> Nat]
    <2>1. \A p \in N \X Nat : p[2] \in Nat /\ s[p[1]].count \in Nat
      BY DEF Batches
    <2>2. \A p \in N \X Nat : Step(p[2], s[p[1]]) \in Nat
      BY <2>1
    <2> QED
      BY <2>2
  <1>3. PICK f \in [SUBSET N -> Nat] : LeftFolds(f, Len(s), 0, step)
    <2> HIDE DEF step
    <2> QED
      BY <1>1, <1>2, FoldLeftSolved
  <1>4. Solves(f)
    BY <1>1, <1>3, LastIndex DEF LeftFolds
  <1>5. Solves(g)
    BY <1>4
  <1>6. g[N] = CountIn(s, x)
    BY <1>1 DEF CountIn, FoldLeft, MapThenFoldSet
  <1> HIDE DEF g
  <1>7. g[{}] = 0
    BY <1>5
  <1>8. ASSUME NEW k \in N  PROVE g[1 .. k] = Step(g[1 .. (k - 1)], s[k])
    <2>1. /\ 1 .. k \in SUBSET N /\ 1 .. k # {}
          /\ Max(1 .. k) = k
          /\ (1 .. k) \ {k} = 1 .. (k - 1)
      BY <1>1, PrefixOf
    <2> HIDE DEF Step
    <2> QED
      BY <1>5, <2>1
  <1>9. ASSUME NEW k \in 0 .. Len(s)  PROVE g[1 .. k] \in Nat
    <2>1. \A i \in 1 .. k : i \in N /\ s[i].count \in Nat
      BY <1>1 DEF Batches
    <2>2. ASSUME NEW i \in 1 .. k, g[1 .. (i - 1)] \in Nat  PROVE g[1 .. i] \in Nat
      <3>1. g[1 .. i] = Step(g[1 .. (i - 1)], s[i])
        BY <1>8, <2>1
      <3>2. Step(g[1 .. (i - 1)], s[i]) \in Nat
        BY <2>1, <2>2
      <3> HIDE DEF Step
      <3> QED
        BY <3>1, <3>2
    <2>3. \A i \in 1 .. k : g[1 .. (i - 1)] \in Nat => g[1 .. i] \in Nat
      BY <2>2
    <2>4. k \in Nat /\ g[{}] \in Nat
      BY <1>1, <1>7
    <2> QED
      BY <2>3, <2>4, FoldLeftStays
  <1>10. ASSUME NEW k \in N  PROVE g[1 .. k] = g[1 .. (k - 1)] + Adds(s[k], x)
    <2>1. g[1 .. (k - 1)] \in Nat
      BY <1>1, <1>9
    <2>2. g[1 .. k] = Step(g[1 .. (k - 1)], s[k])
      BY <1>8
    <2> QED
      BY <2>1, <2>2 DEF Adds
  <1> QED
    BY <1>6, <1>7, <1>9, <1>10

\* The fold of GrantItems.
LEMMA Granting ==
    ASSUME NEW v \in Slots, NEW rs \in Seq(Batch)
    PROVE  \E g : /\ g[{}] = v
                  /\ \A k \in 1 .. Len(rs) :
                       g[1 .. k] = AddItem(g[1 .. (k - 1)], rs[k].item, rs[k].count)
                  /\ g[1 .. Len(rs)] = FoldLeft(LAMBDA w, r : AddItem(w, r.item, r.count), v, rs)
  <1> DEFINE N == 1 .. Len(rs)
             step == [p \in N \X Slots |-> AddItem(p[2], rs[p[1]].item, rs[p[1]].count)]
             Solves(f) == f = [s \in SUBSET N |->
                                 IF s = {} THEN v
                                 ELSE AddItem(f[s \ {Max(s)}], rs[Max(s)].item, rs[Max(s)].count)]
             g == CHOOSE f : Solves(f)
  <1>1. /\ Len(rs) \in Nat /\ DOMAIN rs = N
        /\ \A k \in N : rs[k].item \in Item /\ rs[k].count \in Nat
    <2>1. Len(rs) \in Nat /\ DOMAIN rs = N /\ \A k \in N : rs[k] \in Batch
      OBVIOUS
    <2> QED
      BY <2>1 DEF Batch
  <1>2. step \in [N \X Slots -> Slots]
    BY <1>1, AddItemIs
  <1>3. PICK f \in [SUBSET N -> Slots] : LeftFolds(f, Len(rs), v, step)
    <2> HIDE DEF step
    <2> QED
      BY <1>1, <1>2, FoldLeftSolved
  <1>4. Solves(f)
    BY <1>1, <1>3, LastIndex DEF LeftFolds
  <1>5. Solves(g)
    BY <1>4
  <1>6. g[N] = FoldLeft(LAMBDA w, r : AddItem(w, r.item, r.count), v, rs)
    BY <1>1 DEF FoldLeft, MapThenFoldSet
  <1> HIDE DEF g
  <1>7. g[{}] = v
    BY <1>5
  <1>8. ASSUME NEW k \in N
        PROVE  g[1 .. k] = AddItem(g[1 .. (k - 1)], rs[k].item, rs[k].count)
    <2>1. /\ 1 .. k \in SUBSET N /\ 1 .. k # {}
          /\ Max(1 .. k) = k
          /\ (1 .. k) \ {k} = 1 .. (k - 1)
      BY <1>1, PrefixOf
    <2> QED
      BY <1>5, <2>1
  <1> QED
    BY <1>6, <1>7, <1>8

\* A sum that only grows is at its end what it was anywhere, or more.
LEMMA SumsGrow ==
    ASSUME NEW n \in Nat, NEW g, NEW add, g[{}] = 0,
           \A k \in 1 .. n : add[k] \in Nat,
           \A k \in 1 .. n : g[1 .. k] = g[1 .. (k - 1)] + add[k]
    PROVE  \A k \in 0 .. n : g[1 .. k] \in Nat /\ g[1 .. k] <= g[1 .. n]
  <1>1. ASSUME NEW k \in 0 .. n  PROVE g[1 .. k] \in Nat
    <2>1. ASSUME NEW i \in 1 .. k, g[1 .. (i - 1)] \in Nat  PROVE g[1 .. i] \in Nat
      <3>1. i \in 1 .. n
        OBVIOUS
      <3>2. g[1 .. i] = g[1 .. (i - 1)] + add[i] /\ add[i] \in Nat
        BY <3>1
      <3> QED
        BY <2>1, <3>2
    <2>2. \A i \in 1 .. k : g[1 .. (i - 1)] \in Nat => g[1 .. i] \in Nat
      BY <2>1
    <2>3. k \in Nat /\ g[{}] \in Nat
      OBVIOUS
    <2> QED
      BY <2>2, <2>3, FoldLeftStays
  <1>2. ASSUME NEW k \in 0 .. n  PROVE g[1 .. k] <= g[1 .. n]
    <2> DEFINE good == [i \in 0 .. n |-> {m \in Nat : i >= k => g[1 .. k] <= m}]
    <2>1. \A i \in 0 .. n : \A m : m \in good[i] <=> m \in Nat /\ (i >= k => g[1 .. k] <= m)
      OBVIOUS
    <2>2. 0 \in 0 .. n /\ n \in 0 .. n /\ \A i \in 1 .. n : i \in 0 .. n /\ i - 1 \in 0 .. n
      OBVIOUS
    <2> HIDE DEF good
    <2>3. g[{}] \in good[0]
      <3>1. 1 .. 0 = {}
        OBVIOUS
      <3>2. 0 >= k => k = 0
        OBVIOUS
      <3>3. 0 >= k => g[1 .. k] <= g[{}]
        BY <3>1, <3>2
      <3> QED
        BY <2>1, <2>2, <3>3
    <2>4. ASSUME NEW i \in 1 .. n, g[1 .. (i - 1)] \in good[i - 1]  PROVE g[1 .. i] \in good[i]
      <3>1. g[1 .. i] = g[1 .. (i - 1)] + add[i] /\ add[i] \in Nat
        OBVIOUS
      <3>2. g[1 .. i] \in Nat /\ g[1 .. (i - 1)] \in Nat /\ g[1 .. k] \in Nat
        BY <1>1, <2>2
      <3>3. i - 1 >= k => g[1 .. k] <= g[1 .. (i - 1)]
        BY <2>1, <2>2, <2>4
      <3>4. CASE i - 1 >= k
        <4>1. g[1 .. k] <= g[1 .. i]
          BY <3>1, <3>2, <3>3, <3>4
        <4> QED
          BY <2>1, <2>2, <3>2, <4>1
      <3>5. CASE ~ (i - 1 >= k)
        <4>1. i >= k => i = k
          BY <3>5
        <4>2. i >= k => g[1 .. k] <= g[1 .. i]
          BY <3>2, <4>1
        <4> QED
          BY <2>1, <2>2, <3>2, <4>2
      <3> QED
        BY <3>4, <3>5
    <2>5. \A i \in 1 .. n : g[1 .. (i - 1)] \in good[i - 1] => g[1 .. i] \in good[i]
      BY <2>4
    <2>6. g[1 .. n] \in good[n]
      BY <2>3, <2>5, FoldLeftSteps
    <2> QED
      BY <2>1, <2>2, <2>6
  <1> QED
    BY <1>1, <1>2

Granted(v, rs) == FoldLeft(LAMBDA w, r : AddItem(w, r.item, r.count), v, rs)

SlotsNeeded(rs) == FoldLeft(LAMBDA n, r : n + SlotsFor(r), 0, rs)

LEMMA NeededIsNat ==
    ASSUME NEW rs \in Seq(Batch)
    PROVE  SlotsNeeded(rs) \in Nat
  <1> DEFINE n == Len(rs)
             add == [k \in 1 .. n |-> SlotsFor(rs[k])]
  <1>1. n \in Nat /\ \A k \in 1 .. n : rs[k] \in Batch
    OBVIOUS
  <1>2. PICK p : /\ p[{}] = 0
                 /\ \A k \in 1 .. n : p[1 .. k] = p[1 .. (k - 1)] + SlotsFor(rs[k])
                 /\ p[1 .. n] = SlotsNeeded(rs)
    BY CountingSlots DEF SlotsNeeded
  <1> HIDE DEF n
  <1>3. /\ \A k \in 1 .. n : add[k] \in Nat
        /\ \A k \in 1 .. n : p[1 .. k] = p[1 .. (k - 1)] + add[k]
    BY <1>1, <1>2, SlotsForIs
  <1> HIDE DEF add
  <1>4. \A k \in 0 .. n : p[1 .. k] \in Nat /\ p[1 .. k] <= p[1 .. n]
    BY <1>1, <1>2, <1>3, SumsGrow
  <1> QED
    BY <1>1, <1>2, <1>4

\* What is granted arrives, in full when the slots that are counted for it are
\* free: each reward finds the room that was counted for it and for those that
\* follow.
LEMMA GrantingIs ==
    ASSUME NEW v \in Slots, NEW rs \in Seq(Batch)
    PROVE  /\ Granted(v, rs) \in Slots
           /\ SlotsNeeded(rs) <= Cardinality(EmptySlots(v)) =>
                \A x \in Item : CountItem(Granted(v, rs), x) = CountItem(v, x) + CountIn(rs, x)
  <1> DEFINE n == Len(rs)
             last == Granted(v, rs)
             total == SlotsNeeded(rs)
             room(w) == Cardinality(EmptySlots(w))
  <1>1. n \in Nat /\ \A k \in 1 .. n : rs[k] \in Batch
    OBVIOUS
  <1>2. \A k \in 1 .. n : rs[k].item \in Item /\ rs[k].count \in Nat
    BY <1>1 DEF Batch
  <1>3. PICK g : /\ g[{}] = v
                 /\ \A k \in 1 .. n :
                      g[1 .. k] = AddItem(g[1 .. (k - 1)], rs[k].item, rs[k].count)
                 /\ g[1 .. n] = last
    BY Granting DEF Granted
  <1>4. PICK p : /\ p[{}] = 0
                 /\ \A k \in 1 .. n : p[1 .. k] = p[1 .. (k - 1)] + SlotsFor(rs[k])
                 /\ p[1 .. n] = total
    BY CountingSlots DEF SlotsNeeded
  <1> HIDE DEF n, last, total
  <1>5. last \in Slots
    <2>1. \A k \in 1 .. n : g[1 .. (k - 1)] \in Slots => g[1 .. k] \in Slots
      BY <1>2, <1>3, AddItemIs
    <2>2. g[1 .. n] \in Slots
      BY <1>1, <1>3, <2>1, FoldLeftStays
    <2> QED
      BY <1>3, <2>2
  <1>6. \A k \in 0 .. n : p[1 .. k] \in Nat /\ p[1 .. k] <= total
    <2> DEFINE add == [k \in 1 .. n |-> SlotsFor(rs[k])]
    <2>1. \A k \in 1 .. n : add[k] \in Nat
      BY <1>1, SlotsForIs
    <2>2. \A k \in 1 .. n : p[1 .. k] = p[1 .. (k - 1)] + add[k]
      BY <1>4
    <2> HIDE DEF add
    <2>3. \A k \in 0 .. n : p[1 .. k] \in Nat /\ p[1 .. k] <= p[1 .. n]
      BY <1>1, <1>4, <2>1, <2>2, SumsGrow
    <2> QED
      BY <1>4, <2>3
  <1>7. ASSUME total <= room(v), NEW x \in Item
        PROVE  CountItem(last, x) = CountItem(v, x) + CountIn(rs, x)
    <2>1. PICK c : /\ c[{}] = 0
                   /\ \A k \in 1 .. n : c[1 .. k] = c[1 .. (k - 1)] + Adds(rs[k], x)
                   /\ \A k \in 0 .. n : c[1 .. k] \in Nat
                   /\ c[1 .. n] = CountIn(rs, x)
      <3>1. Batches(rs)
        BY <1>2 DEF Batches, n
      <3> QED
        BY <3>1, Counting DEF n
    <2> DEFINE Good(w, k) == /\ w \in Slots
                             /\ total <= room(w) + p[1 .. k]
                             /\ CountItem(w, x) = CountItem(v, x) + c[1 .. k]
               good == [k \in 0 .. n |-> {w \in Slots : Good(w, k)}]
    <2>2. 0 \in 0 .. n /\ n \in 0 .. n /\ \A k \in 1 .. n : k \in 0 .. n /\ k - 1 \in 0 .. n
      BY <1>1
    <2>3. \A k \in 0 .. n : \A w : w \in good[k] <=> Good(w, k)
      OBVIOUS
    <2>4. Good(v, 0)
      <3>1. p[1 .. 0] = 0 /\ c[1 .. 0] = 0
        <4>1. 1 .. 0 = {}
          OBVIOUS
        <4> QED
          BY <1>4, <2>1, <4>1
      <3>2. room(v) \in Nat /\ CountItem(v, x) \in Nat
        BY SlotsFinite, FS_CardinalityType, CountIsNat
      <3> HIDE DEF room
      <3> QED
        BY <1>7, <3>1, <3>2
    <2>5. ASSUME NEW k \in 1 .. n, NEW w, Good(w, k - 1)
          PROVE  Good(AddItem(w, rs[k].item, rs[k].count), k)
      <3> DEFINE y == rs[k].item
                 m == SlotsFor(rs[k])
                 u == AddItem(w, y, rs[k].count)
      <3>1. /\ y \in Item /\ rs[k].count \in Nat
            /\ m \in Nat /\ rs[k].count <= StackLimit[y] * m
        BY <1>1, <1>2, SlotsForIs
      <3>2. /\ w \in Slots /\ room(w) \in Nat /\ u \in Slots /\ room(u) \in Nat
            /\ CountItem(w, x) \in Nat /\ CountItem(u, x) \in Nat /\ CountItem(v, x) \in Nat
        BY <2>5, <3>1, AddItemIs, SlotsFinite, FS_CardinalityType, CountIsNat
      <3>3. /\ total <= room(w) + p[1 .. (k - 1)]
            /\ CountItem(w, x) = CountItem(v, x) + c[1 .. (k - 1)]
        BY <2>5
      <3>4. /\ p[1 .. k] = p[1 .. (k - 1)] + m /\ p[1 .. k] <= total
            /\ p[1 .. k] \in Nat /\ p[1 .. (k - 1)] \in Nat /\ total \in Nat
        BY <1>4, <1>6, <2>2
      <3>5. m <= room(w)
        <4>1. m \in Nat
          BY <3>1
        <4> HIDE DEF m, room, u, y
        <4> QED
          BY <3>2, <3>3, <3>4, <4>1
      <3>6. /\ room(w) <= room(u) + m
            /\ CountItem(u, y) = CountItem(w, y) + rs[k].count
            /\ \A z \in Item \ {y} : CountItem(u, z) = CountItem(w, z)
        <4> HIDE DEF m, y
        <4> QED
          BY <3>1, <3>2, <3>5, AddingFits
      <3>7. CountItem(u, x) = CountItem(w, x) + Adds(rs[k], x)
        <4>1. CASE x = y
          BY <3>6, <4>1 DEF Adds
        <4>2. CASE x # y
          <5>1. Adds(rs[k], x) = 0 /\ CountItem(u, x) = CountItem(w, x)
            BY <3>6, <4>2 DEF Adds
          <5> HIDE DEF u
          <5> QED
            BY <3>2, <5>1
        <4> QED
          BY <4>1, <4>2
      <3>8. /\ c[1 .. k] = c[1 .. (k - 1)] + Adds(rs[k], x)
            /\ c[1 .. k] \in Nat /\ c[1 .. (k - 1)] \in Nat /\ Adds(rs[k], x) \in Nat
        BY <2>1, <2>2, <3>1 DEF Adds
      <3>9. total <= room(u) + p[1 .. k]
        <4>1. m \in Nat
          BY <3>1
        <4>2. room(w) <= room(u) + m
          BY <3>6
        <4> HIDE DEF m, room, u, y
        <4> QED
          BY <3>2, <3>3, <3>4, <4>1, <4>2
      <3>10. CountItem(u, x) = CountItem(v, x) + c[1 .. k]
        <4> HIDE DEF m, room, u, y
        <4> QED
          BY <3>2, <3>3, <3>7, <3>8
      <3> HIDE DEF room
      <3> QED
        BY <3>2, <3>9, <3>10
    <2> HIDE DEF good, Good
    <2>6. g[{}] \in good[0]
      BY <1>3, <2>2, <2>3, <2>4
    <2>7. \A k \in 1 .. n : g[1 .. (k - 1)] \in good[k - 1] => g[1 .. k] \in good[k]
      BY <1>3, <2>2, <2>3, <2>5
    <2>8. g[1 .. n] \in good[n]
      BY <1>1, <2>6, <2>7, FoldLeftSteps
    <2>9. Good(last, n)
      BY <1>3, <2>2, <2>3, <2>8
    <2> QED
      BY <2>1, <2>9 DEF Good
  <1> QED
    BY <1>5, <1>7 DEF last, total

LEMMA RewardsAre ==
    ASSUME NEW q \in Quest, NEW c \in RewardChoices(q)
    PROVE  Rewards(q, c) \in Seq(Batch)
  <1>1. Template[q].rewItem \in Seq(Batch) /\ Template[q].rewChoice \in Seq(Batch)
    BY TemplateAssumption
  <1> DEFINE fixed == Template[q].rewItem
             choice == Template[q].rewChoice
  <1>2. Rewards(q, c) = fixed \o IF choice = << >> THEN << >> ELSE <<choice[c]>>
    BY DEF Rewards
  <1>3. choice # << >> => c \in DOMAIN choice
    BY DEF RewardChoices
  <1>4. fixed \in Seq(Batch) /\ choice \in Seq(Batch)
    BY <1>1
  <1> HIDE DEF fixed, choice
  <1>5. (IF choice = << >> THEN << >> ELSE <<choice[c]>>) \in Seq(Batch)
    BY <1>3, <1>4
  <1> QED
    BY <1>2, <1>4, <1>5

\* completeQuest, of the inventory: what is asked for goes, and what is promised
\* comes.
LEMMA CompletingIs ==
    ASSUME inv \in Slots, NEW q \in Quest, NEW c \in RewardChoices(q), CompleteQuest(q, c)
    PROVE  /\ inv' \in Slots
           /\ \A x \in Item :
                CountItem(inv', x) =
                  CountItem(inv, x) - Template[q].needs[x] + CountIn(Rewards(q, c), x)
  <1> DEFINE rs == Rewards(q, c)
             u == RemoveRequiredItems(inv, q)
             w == Granted(u, rs)
  <1>1. rs \in Seq(Batch)
    BY RewardsAre
  <1>2. inv' = w
    BY DEF CompleteQuest, GrantItems, Granted
  <1>3. /\ Enough(inv, q)
        /\ SlotsNeeded(rs) <= Cardinality(EmptySlots(inv))
        /\ Template[q].needs \in [Item -> Nat]
    BY TemplateAssumption
    DEF CompleteQuest, CanComplete, HasItem, Enough, CanReceiveRewards, SlotsNeeded
  <1>4. /\ u \in Slots
        /\ EmptySlots(inv) \subseteq EmptySlots(u)
        /\ \A x \in Item : CountItem(u, x) + Template[q].needs[x] = CountItem(inv, x)
    BY <1>3, RemovingIs
  <1> HIDE DEF u, rs
  <1>5. SlotsNeeded(rs) <= Cardinality(EmptySlots(u))
    <2>1. /\ Cardinality(EmptySlots(inv)) \in Nat /\ Cardinality(EmptySlots(u)) \in Nat
          /\ Cardinality(EmptySlots(inv)) <= Cardinality(EmptySlots(u))
      BY <1>4, SlotsFinite, FS_CardinalityType, FS_Subset
    <2>2. SlotsNeeded(rs) \in Nat
      BY <1>1, NeededIsNat
    <2> QED
      BY <1>3, <2>1, <2>2
  <1>6. w \in Slots /\ \A x \in Item : CountItem(w, x) = CountItem(u, x) + CountIn(rs, x)
    BY <1>1, <1>4, <1>5, GrantingIs
  <1> HIDE DEF w
  <1>7. ASSUME NEW x \in Item
        PROVE  CountItem(w, x) = CountItem(inv, x) - Template[q].needs[x] + CountIn(rs, x)
    <2>1. /\ CountItem(u, x) \in Nat /\ CountItem(inv, x) \in Nat /\ CountItem(w, x) \in Nat
          /\ Template[q].needs[x] \in Nat
      BY <1>3, <1>4, <1>6, CountIsNat
    <2>2. CountItem(w, x) = CountItem(u, x) + CountIn(rs, x)
      BY <1>6
    <2>3. CountItem(u, x) + Template[q].needs[x] = CountItem(inv, x)
      BY <1>4
    <2>4. CountItem(u, x) = CountItem(inv, x) - Template[q].needs[x]
      BY <2>1, <2>3
    <2> QED
      BY <2>2, <2>4
  <1> QED
    BY <1>2, <1>6, <1>7 DEF rs

-----------------------------------------------------------------------------
(* The log, the gold and the level stay well formed.                       *)

LogTypeOK(l) == DOMAIN l \subseteq Quest /\ \A q \in DOMAIN l : l[q] \in QuestState

LEMMA UpdatedTyped ==
    ASSUME NEW q, NEW state \in QuestState
    PROVE  UpdateQuestCompletion(q, state) \in QuestState
  BY DEF UpdateQuestCompletion, QuestState

LEMMA TallyTyped ==
    ASSUME NEW q \in Quest, NEW v \in Slots
    PROVE  ItemTally(q, v) \in [Item -> Nat]
  <1>1. \A x \in Item : Template[q].needs[x] \in Nat /\ CountItem(v, x) \in Nat
    BY TemplateAssumption, CountIsNat
  <1> QED
    BY <1>1 DEF ItemTally, Smaller

LEMMA NotifiedTyped ==
    ASSUME NEW l, LogTypeOK(l), NEW v \in Slots
    PROVE  LogTypeOK(OnInventoryChanged(l, v))
  <1>1. ASSUME NEW q \in DOMAIN l
        PROVE  UpdateQuestCompletion(q, [l[q] EXCEPT !.items = ItemTally(q, v)]) \in QuestState
    <2>1. l[q] \in QuestState /\ ItemTally(q, v) \in [Item -> Nat]
      BY TallyTyped DEF LogTypeOK
    <2>2. [l[q] EXCEPT !.items = ItemTally(q, v)] \in QuestState
      BY <2>1 DEF QuestState
    <2> QED
      BY <2>2, UpdatedTyped
  <1> QED
    BY <1>1 DEF LogTypeOK, OnInventoryChanged

LEMMA AddingTyped ==
    ASSUME NEW l, LogTypeOK(l), NEW v, NEW w \in Slots
    PROVE  LogTypeOK(AfterAdding(l, v, w))
  BY NotifiedTyped DEF AfterAdding

LEMMA DeedTyped ==
    ASSUME NEW l, LogTypeOK(l), NEW d \in Deed
    PROVE  LogTypeOK(OnDeed(l, d))
  <1>1. ASSUME NEW q \in DOMAIN l
        PROVE  UpdateQuestCompletion(q, [l[q] EXCEPT !.deeds[d] = @ + 1]) \in QuestState
    <2>1. l[q] \in QuestState
      BY DEF LogTypeOK
    <2>2. [l[q] EXCEPT !.deeds[d] = @ + 1] \in QuestState
      BY <2>1 DEF QuestState
    <2> QED
      BY <2>2, UpdatedTyped
  <1> QED
    BY <1>1 DEF LogTypeOK, OnDeed

LEMMA NewTyped == NewQuest \in QuestState
  BY DEF NewQuest, QuestState

LEMMA ComingAndGoingTyped ==
    ASSUME NEW l, LogTypeOK(l), NEW q \in Quest
    PROVE  /\ \A state \in QuestState : LogTypeOK(WithQuest(l, q, state))
           /\ LogTypeOK(WithoutQuest(l, q))
           /\ \A state \in QuestState : LogTypeOK([l EXCEPT ![q] = state])
  BY DEF LogTypeOK, WithQuest, WithoutQuest

\* acceptQuest.
LEMMA AcceptTyped ==
    ASSUME LogTypeOK(log), inv \in Slots, NEW q \in Quest,
           AcceptQuest(q) \/ AcceptWithItem(q)
    PROVE  inv' \in Slots /\ LogTypeOK(log')
  <1>1. CASE AcceptQuest(q)
    <2>1. UpdateQuestCompletion(q, NewQuest) \in QuestState
      BY NewTyped, UpdatedTyped
    <2> QED
      BY <1>1, <2>1, ComingAndGoingTyped DEF AcceptQuest
  <1>2. CASE AcceptWithItem(q)
    <2> DEFINE x == Template[q].providedItem
               l == AfterAdding(WithQuest(log, q, NewQuest), inv, inv')
    <2>1. /\ inv' = AddItem(inv, x, 1)
          /\ \/ log' = WithoutQuest(l, q)
             \/ log' = [l EXCEPT ![q] = UpdateQuestCompletion(q, @)]
      BY <1>2 DEF AcceptWithItem
    <2>2. x \in Item
      BY <1>2, TemplateAssumption DEF AcceptWithItem
    <2>3. inv' \in Slots
      BY <2>1, <2>2, AddItemIs
    <2>4. LogTypeOK(l)
      BY <2>3, NewTyped, ComingAndGoingTyped, AddingTyped
    <2>5. q \in DOMAIN l
      BY DEF AfterAdding, OnInventoryChanged, WithQuest
    <2> HIDE DEF l
    <2>6. UpdateQuestCompletion(q, l[q]) \in QuestState
      BY <2>4, <2>5, UpdatedTyped DEF LogTypeOK
    <2>7. LogTypeOK([l EXCEPT ![q] = UpdateQuestCompletion(q, l[q])])
      BY <2>4, <2>6, ComingAndGoingTyped
    <2> QED
      BY <2>1, <2>3, <2>4, <2>7, ComingAndGoingTyped
  <1> QED
    BY <1>1, <1>2

\* completeQuest, of the log.
LEMMA CompleteTyped ==
    ASSUME LogTypeOK(log), inv' \in Slots, NEW q \in Quest, NEW c, CompleteQuest(q, c)
    PROVE  LogTypeOK(log')
  <1> DEFINE l == OnInventoryChanged(log, inv')
  <1>1. LogTypeOK(l)
    BY NotifiedTyped
  <1>2. log' = WithoutQuest(l, q) \/ log' = [l EXCEPT ![q].status = "Rewarded"]
    BY DEF CompleteQuest
  <1>3. q \in DOMAIN l
    BY DEF CompleteQuest, CanComplete, OnInventoryChanged
  <1> HIDE DEF l
  <1>4. [l[q] EXCEPT !.status = "Rewarded"] \in QuestState
    BY <1>1, <1>3 DEF LogTypeOK, QuestState
  <1>5. LogTypeOK([l EXCEPT ![q] = [l[q] EXCEPT !.status = "Rewarded"]])
    BY <1>1, <1>4, ComingAndGoingTyped
  <1> QED
    BY <1>1, <1>2, <1>5, ComingAndGoingTyped

-----------------------------------------------------------------------------
(* Counting what sequences of batches have.                                *)

LEMMA CountInIsNat ==
    ASSUME NEW T, NEW s \in Seq(T), Batches(s), NEW x
    PROVE  CountIn(s, x) \in Nat
  <1>1. PICK g : /\ \A k \in 0 .. Len(s) : g[1 .. k] \in Nat
                 /\ g[1 .. Len(s)] = CountIn(s, x)
    BY Counting
  <1> QED
    BY <1>1

LEMMA CountInNone ==
    ASSUME NEW x
    PROVE  CountIn(<< >>, x) = 0
  <1>1. << >> \in Seq(Batch) /\ Batches(<< >>) /\ Len(<< >>) = 0 /\ 1 .. 0 = {}
    BY DEF Batches
  <1>2. PICK g : g[{}] = 0 /\ g[1 .. Len(<< >>)] = CountIn(<< >>, x)
    <2> DEFINE s == << >>
    <2>1. s \in Seq(Batch) /\ Batches(s)
      BY <1>1
    <2> HIDE DEF s
    <2>2. \E g : g[{}] = 0 /\ g[1 .. Len(s)] = CountIn(s, x)
      BY <2>1, Counting
    <2> QED
      BY <2>2 DEF s
  <1> QED
    BY <1>1, <1>2

LEMMA CountInOne ==
    ASSUME NEW e, e.count \in Nat, NEW x
    PROVE  Batches(<<e>>) /\ CountIn(<<e>>, x) = Adds(e, x)
  <1> DEFINE s == <<e>>
  <1>1. s \in Seq({e}) /\ Len(s) = 1 /\ s[1] = e
    OBVIOUS
  <1> HIDE DEF s
  <1>2. Batches(s)
    BY <1>1 DEF Batches
  <1>3. PICK g : /\ g[{}] = 0
                 /\ \A k \in 1 .. Len(s) : g[1 .. k] = g[1 .. (k - 1)] + Adds(s[k], x)
                 /\ g[1 .. Len(s)] = CountIn(s, x)
    BY <1>1, <1>2, Counting
  <1>4. 1 .. (1 - 1) = {} /\ 1 \in 1 .. 1
    OBVIOUS
  <1>5. g[1 .. 1] = g[1 .. (1 - 1)] + Adds(e, x)
    BY <1>1, <1>3, <1>4
  <1>6. Adds(e, x) \in Nat
    BY DEF Adds
  <1>7. CountIn(s, x) = Adds(e, x)
    BY <1>1, <1>3, <1>4, <1>5, <1>6
  <1> QED
    BY <1>2, <1>7 DEF s

LEMMA CountInBoth ==
    ASSUME NEW T, NEW s \in Seq(T), NEW t \in Seq(T), Batches(s), Batches(t), NEW x
    PROVE  /\ Batches(s \o t)
           /\ CountIn(s \o t, x) = CountIn(s, x) + CountIn(t, x)
  <1> DEFINE r == s \o t
             m == Len(s)
             n == Len(t)
  <1>1. /\ m \in Nat /\ n \in Nat
        /\ r \in Seq(T) /\ Len(r) = m + n
        /\ \A k \in 1 .. m : r[k] = s[k]
        /\ \A k \in 1 .. m + n : k > m => r[k] = t[k - m] /\ k - m \in 1 .. n
    OBVIOUS
  <1> HIDE DEF r
  <1>2. Batches(r)
    <2> SUFFICES ASSUME NEW k \in 1 .. m + n  PROVE r[k].count \in Nat
      BY <1>1 DEF Batches
    <2>1. k \in 1 .. m \/ k > m
      BY <1>1
    <2> QED
      BY <1>1, <2>1 DEF Batches
  <1>3. PICK f : /\ f[{}] = 0
                 /\ \A k \in 1 .. m : f[1 .. k] = f[1 .. (k - 1)] + Adds(s[k], x)
                 /\ \A k \in 0 .. m : f[1 .. k] \in Nat
                 /\ f[1 .. m] = CountIn(s, x)
    BY Counting
  <1>4. PICK h : /\ h[{}] = 0
                 /\ \A k \in 1 .. n : h[1 .. k] = h[1 .. (k - 1)] + Adds(t[k], x)
                 /\ \A k \in 0 .. n : h[1 .. k] \in Nat
                 /\ h[1 .. n] = CountIn(t, x)
    BY Counting
  <1>5. PICK g : /\ g[{}] = 0
                 /\ \A k \in 1 .. Len(r) : g[1 .. k] = g[1 .. (k - 1)] + Adds(r[k], x)
                 /\ g[1 .. Len(r)] = CountIn(r, x)
    BY <1>1, <1>2, Counting
  <1> HIDE DEF m, n
  <1> DEFINE both(k) == f[1 .. Smaller(k, m)] + h[1 .. (k - m)]
             good == [k \in 0 .. m + n |-> {both(k)}]
  <1>6. both(0) = 0
    <2>1. Smaller(0, m) = 0 /\ 1 .. 0 = {} /\ 1 .. (0 - m) = {}
      BY <1>1 DEF Smaller
    <2>2. f[1 .. Smaller(0, m)] = 0 /\ h[1 .. (0 - m)] = 0
      BY <1>3, <1>4, <2>1
    <2> QED
      BY <2>2
  <1>7. ASSUME NEW k \in 1 .. m + n  PROVE both(k) = both(k - 1) + Adds(r[k], x)
    <2>1. CASE k <= m
      <3>1. /\ Smaller(k, m) = k /\ Smaller(k - 1, m) = k - 1
            /\ 1 .. (k - m) = {} /\ 1 .. (k - 1 - m) = {}
            /\ k \in 1 .. m /\ k \in 0 .. m /\ k - 1 \in 0 .. m
        BY <1>1, <2>1 DEF Smaller
      <3>2. r[k] = s[k] /\ f[1 .. k] = f[1 .. (k - 1)] + Adds(s[k], x)
        BY <1>1, <1>3, <3>1
      <3>3. f[1 .. k] \in Nat /\ f[1 .. (k - 1)] \in Nat
        BY <1>3, <3>1
      <3>4. both(k) = f[1 .. k] + 0 /\ both(k - 1) = f[1 .. (k - 1)] + 0
        BY <1>4, <3>1
      <3> HIDE DEF both
      <3> QED
        BY <3>2, <3>3, <3>4
    <2>2. CASE ~ (k <= m)
      <3>1. /\ Smaller(k, m) = m /\ Smaller(k - 1, m) = m
            /\ k - m \in 1 .. n /\ k - m \in 0 .. n /\ (k - m) - 1 \in 0 .. n
            /\ k - 1 - m = (k - m) - 1 /\ m \in 0 .. m
        BY <1>1, <2>2 DEF Smaller
      <3>2. r[k] = t[k - m] /\ h[1 .. (k - m)] = h[1 .. ((k - m) - 1)] + Adds(t[k - m], x)
        BY <1>1, <1>4, <2>2, <3>1
      <3>3. h[1 .. (k - m)] \in Nat /\ h[1 .. ((k - m) - 1)] \in Nat /\ f[1 .. m] \in Nat
        BY <1>3, <1>4, <3>1
      <3>4. /\ both(k) = f[1 .. m] + h[1 .. (k - m)]
            /\ both(k - 1) = f[1 .. m] + h[1 .. ((k - m) - 1)]
        BY <3>1
      <3>5. Adds(t[k - m], x) \in Nat
        BY <3>1 DEF Adds, Batches, n
      <3> HIDE DEF both
      <3> QED
        BY <3>2, <3>3, <3>4, <3>5
    <2> QED
      BY <2>1, <2>2
  <1>8. \A k \in 0 .. m + n : \A v : v \in good[k] <=> v = both(k)
    OBVIOUS
  <1>9. /\ 0 \in 0 .. m + n /\ m + n \in 0 .. m + n /\ m + n \in Nat
        /\ \A k \in 1 .. m + n : k \in 0 .. m + n /\ k - 1 \in 0 .. m + n
    BY <1>1
  <1> HIDE DEF good, both
  <1>10. g[{}] \in good[0]
    BY <1>5, <1>6, <1>8, <1>9
  <1>11. \A k \in 1 .. m + n : g[1 .. (k - 1)] \in good[k - 1] => g[1 .. k] \in good[k]
    BY <1>1, <1>5, <1>7, <1>8, <1>9
  <1>12. g[1 .. (m + n)] \in good[m + n]
    BY <1>9, <1>10, <1>11, FoldLeftSteps
  <1>13. g[1 .. (m + n)] = both(m + n)
    BY <1>8, <1>9, <1>12
  <1>14. both(m + n) = f[1 .. m] + h[1 .. n]
    <2>1. Smaller(m + n, m) = m /\ (m + n) - m = n
      BY <1>1 DEF Smaller
    <2> QED
      BY <2>1 DEF both
  <1> QED
    BY <1>1, <1>2, <1>3, <1>4, <1>5, <1>13, <1>14 DEF r

\* What is taken out of a sequence is what it has less.
LEMMA CountInWithout ==
    ASSUME NEW T, NEW s \in Seq(T), Batches(s), NEW i \in 1 .. Len(s), NEW x
    PROVE  /\ RemoveAt(s, i) \in Seq(T)
           /\ Len(RemoveAt(s, i)) = Len(s) - 1
           /\ CountIn(RemoveAt(s, i), x) + Adds(s[i], x) = CountIn(s, x)
  <1> DEFINE a == SubSeq(s, 1, i - 1)
             b == SubSeq(s, i + 1, Len(s))
             e == <<s[i]>>
             c == e \o b
  <1>1. /\ a \in Seq(T) /\ Len(a) = i - 1 /\ \A k \in 1 .. i - 1 : a[k] = s[k]
        /\ b \in Seq(T) /\ Len(b) = Len(s) - i /\ \A k \in 1 .. Len(s) - i : b[k] = s[i + k]
        /\ e \in Seq(T) /\ s[i] \in T
    <2>1. Len(s) \in Nat /\ i - 1 \in Nat /\ i - 1 <= Len(s) /\ i + 1 \in Nat \ {0}
      OBVIOUS
    <2>2. a \in Seq(T) /\ Len(a) = i - 1 /\ \A k \in 1 .. i - 1 : a[k] = s[k]
      BY <2>1
    <2>3. /\ b \in Seq(T) /\ Len(b) = Len(s) - i
          /\ \A k \in 1 .. Len(s) - i : b[k] = s[i + k]
      BY <2>1
    <2> QED
      BY <2>2, <2>3
  <1>2. Batches(a) /\ Batches(b) /\ s[i].count \in Nat
    <2>1. \A k \in 1 .. i - 1 : k \in 1 .. Len(s)
      OBVIOUS
    <2>2. \A k \in 1 .. Len(s) - i : i + k \in 1 .. Len(s)
      OBVIOUS
    <2> HIDE DEF a, b
    <2> QED
      BY <1>1, <2>1, <2>2 DEF Batches
  <1>3. s = a \o c
    <2>1. /\ c \in Seq(T) /\ Len(c) = 1 + Len(b)
          /\ c[1] = s[i] /\ \A k \in 1 .. Len(b) : c[k + 1] = b[k]
      <3>1. e \in Seq(T) /\ b \in Seq(T) /\ Len(e) = 1 /\ e[1] = s[i] /\ Len(b) \in Nat
        BY <1>1
      <3> HIDE DEF a, b, e
      <3>2. /\ c \in Seq(T) /\ Len(c) = Len(e) + Len(b)
            /\ \A k \in 1 .. Len(e) + Len(b) :
                 c[k] = IF k <= Len(e) THEN e[k] ELSE b[k - Len(e)]
        BY <3>1, ConcatProperties
      <3>3. ASSUME NEW k \in 1 .. Len(b)  PROVE c[k + 1] = b[k]
        <4>1. k + 1 \in 1 .. Len(e) + Len(b) /\ ~ (k + 1 <= Len(e)) /\ (k + 1) - Len(e) = k
          BY <3>1
        <4> QED
          BY <3>2, <4>1
      <3>4. 1 \in 1 .. Len(e) + Len(b) /\ 1 <= Len(e)
        BY <3>1
      <3> QED
        BY <3>1, <3>2, <3>3, <3>4
    <2> HIDE DEF a, b, c
    <2>2. /\ a \o c \in Seq(T) /\ Len(a \o c) = Len(a) + Len(c)
          /\ \A k \in 1 .. Len(a) + Len(c) :
               (a \o c)[k] = IF k <= Len(a) THEN a[k] ELSE c[k - Len(a)]
      <3>1. a \in Seq(T) /\ c \in Seq(T)
        BY <1>1, <2>1
      <3> QED
        BY <3>1, ConcatProperties
    <2>3. Len(a \o c) = Len(s) /\ Len(s) \in Nat /\ i \in Int
      BY <1>1, <2>1, <2>2
    <2>4. ASSUME NEW k \in 1 .. Len(s)  PROVE (a \o c)[k] = s[k]
      <3>1. k \in 1 .. Len(a) + Len(c)
        BY <2>2, <2>3
      <3>2. CASE k <= Len(a)
        <4>1. k \in 1 .. i - 1
          BY <1>1, <3>2
        <4> QED
          BY <1>1, <2>2, <3>1, <3>2, <4>1
      <3>3. CASE k = i
        <4>1. k - Len(a) = 1 /\ ~ (k <= Len(a))
          BY <1>1, <3>3
        <4> QED
          BY <2>1, <2>2, <3>1, <3>3, <4>1
      <3>4. CASE k > i
        <4>1. /\ k - i \in 1 .. Len(b) /\ k - Len(a) = (k - i) + 1 /\ ~ (k <= Len(a))
              /\ i + (k - i) = k
          BY <1>1, <3>4
        <4>2. (a \o c)[k] = c[(k - i) + 1]
          BY <2>2, <3>1, <4>1
        <4> QED
          BY <1>1, <2>1, <4>1, <4>2
      <3>5. k <= Len(a) \/ k = i \/ k > i
        <4>1. Len(a) = i - 1
          BY <1>1
        <4> QED
          BY <2>3, <4>1
      <3> QED
        BY <3>2, <3>3, <3>4, <3>5
    <2> QED
      BY <2>2, <2>3, <2>4, SeqEqual
  <1>4. RemoveAt(s, i) = a \o b
    BY DEF RemoveAt
  <1>5. Batches(e) /\ CountIn(e, x) = Adds(s[i], x)
    BY <1>2, CountInOne
  <1> HIDE DEF a, b, e
  <1>6. Batches(c) /\ c \in Seq(T) /\ CountIn(c, x) = CountIn(e, x) + CountIn(b, x)
    BY <1>1, <1>2, <1>5, CountInBoth
  <1> HIDE DEF c
  <1>7. CountIn(a \o c, x) = CountIn(a, x) + CountIn(c, x)
    BY <1>1, <1>2, <1>6, CountInBoth
  <1>8. CountIn(a \o b, x) = CountIn(a, x) + CountIn(b, x)
    BY <1>1, <1>2, CountInBoth
  <1>9. a \o b \in Seq(T) /\ Len(a \o b) = Len(s) - 1
    BY <1>1
  <1>10. CountIn(a, x) \in Nat /\ CountIn(b, x) \in Nat /\ CountIn(e, x) \in Nat
    BY <1>1, <1>2, <1>5, CountInIsNat
  <1>11. CountIn(a \o b, x) + CountIn(e, x) = CountIn(a \o c, x)
    BY <1>6, <1>7, <1>8, <1>10
  <1> QED
    BY <1>3, <1>4, <1>5, <1>9, <1>11

-----------------------------------------------------------------------------
(* Loot.                                                                   *)

Looting == [inv : [Slot -> Stack], left : Seq(Batch)]

\* What a call has of item x: in the inventory and on the corpse.
LootHas(call, x) == CountItem(call.inv, x) + CountIn(call.left, x)

LEMMA BatchesOf ==
    ASSUME NEW s \in Seq(Batch)
    PROVE  /\ Batches(s)
           /\ \A k \in 1 .. Len(s) : s[k] \in Batch /\ s[k].item \in Item /\ s[k].count \in Nat
  <1>1. \A k \in 1 .. Len(s) : s[k] \in Batch
    OBVIOUS
  <1> QED
    BY <1>1 DEF Batches, Batch

\* addItem that opens a slot for the last of it has added everything.
LEMMA AddedIsAll ==
    ASSUME NEW v \in Slots, NEW x \in Item, NEW n \in Nat
    PROVE  /\ AddItem(v, x, n) \in Slots
           /\ \A y \in Item : CountItem(AddItem(v, x, n), y) >= CountItem(v, y)
           /\ AddedSlot(v, x, n) # INVALID_SLOT =>
                CountItem(AddItem(v, x, n), x) = CountItem(v, x) + n
  <1> DEFINE a == Adding(v, x, n)
  <1>1. /\ a \in Call
        /\ a.left <= n
        /\ \A y \in Item \ {x} : CountItem(a.inv, y) = CountItem(v, y)
        /\ AddsRest(a, v, x, n)
    BY AddingIs
  <1>2. AddItem(v, x, n) = a.inv /\ (AddedSlot(v, x, n) # INVALID_SLOT => ~ (a.left > 0))
    BY DEF AddItem, AddedSlot
  <1> HIDE DEF a
  <1>3. a.inv \in Slots /\ a.left \in Nat
    BY <1>1 DEF Call, Slots
  <1>4. \A y \in Item : CountItem(a.inv, y) \in Nat /\ CountItem(v, y) \in Nat
    BY <1>3, CountIsNat
  <1>5. CountItem(a.inv, x) + a.left = CountItem(v, x) + n
    BY <1>1 DEF AddsRest
  <1>6. CountItem(a.inv, x) >= CountItem(v, x)
    BY <1>1, <1>3, <1>4, <1>5
  <1>7. \A y \in Item : CountItem(a.inv, y) >= CountItem(v, y)
    BY <1>1, <1>4, <1>6
  <1>8. ~ (a.left > 0) => CountItem(a.inv, x) = CountItem(v, x) + n
    BY <1>3, <1>4, <1>5
  <1> QED
    BY <1>2, <1>3, <1>7, <1>8

\* Of a drop either everything is taken or the corpse keeps all of it.
LEMMA TakeDropIs ==
    ASSUME NEW call \in Looting, NEW drop \in Batch
    PROVE  /\ TakeDrop(call, drop) \in Looting
           /\ \/ TakeDrop(call, drop).left = call.left
              \/ TakeDrop(call, drop).left = Append(call.left, drop)
           /\ \A x \in Item : LootHas(TakeDrop(call, drop), x) >= LootHas(call, x) + Adds(drop, x)
  <1> DEFINE v == call.inv
             w == AddItem(v, drop.item, drop.count)
             more == Append(call.left, drop)
             r == TakeDrop(call, drop)
  <1>1. /\ v \in Slots /\ call.left \in Seq(Batch)
        /\ drop.item \in Item /\ drop.count \in Nat
        /\ call = [inv |-> v, left |-> call.left]
    BY DEF Looting, Batch, Slots
  <1>2. /\ w \in Slots
        /\ \A y \in Item : CountItem(w, y) >= CountItem(v, y)
        /\ AddedSlot(v, drop.item, drop.count) # INVALID_SLOT =>
             CountItem(w, drop.item) = CountItem(v, drop.item) + drop.count
    BY <1>1, AddedIsAll
  <1>3. /\ more \in Seq(Batch)
        /\ \A x \in Item : CountIn(more, x) = CountIn(call.left, x) + Adds(drop, x)
    <2>1. more = call.left \o <<drop>> /\ <<drop>> \in Seq(Batch) /\ more \in Seq(Batch)
      BY <1>1
    <2> HIDE DEF more
    <2>2. Batches(call.left) /\ Batches(<<drop>>)
      BY <1>1, <2>1, BatchesOf
    <2>3. \A x \in Item : CountIn(<<drop>>, x) = Adds(drop, x)
      BY <1>1, CountInOne
    <2>4. \A x \in Item : CountIn(call.left \o <<drop>>, x) = CountIn(call.left, x) + CountIn(<<drop>>, x)
      BY <1>1, <2>1, <2>2, CountInBoth
    <2> QED
      BY <2>1, <2>3, <2>4
  <1>4. \A x \in Item : /\ CountItem(v, x) \in Nat /\ CountItem(w, x) \in Nat
                        /\ CountIn(call.left, x) \in Nat /\ Adds(drop, x) \in Nat
    BY <1>1, <1>2, CountIsNat, CountInIsNat, BatchesOf DEF Adds
  <1>5. CASE EmptySlots(v) = {}
    <2>1. r = [inv |-> v, left |-> more]
      BY <1>1, <1>5 DEF TakeDrop
    <2> HIDE DEF more, r
    <2>2. r.inv = v /\ r.left = more /\ r \in Looting
      BY <1>1, <1>3, <2>1 DEF Looting, Slots
    <2>3. ASSUME NEW x \in Item  PROVE LootHas(r, x) >= LootHas(call, x) + Adds(drop, x)
      <3> HIDE DEF v
      <3>1. LootHas(r, x) = CountItem(v, x) + (CountIn(call.left, x) + Adds(drop, x))
        BY <1>3, <2>2 DEF LootHas
      <3>2. LootHas(call, x) = CountItem(v, x) + CountIn(call.left, x)
        BY DEF LootHas, v
      <3> QED
        BY <1>4, <3>1, <3>2
    <2> QED
      BY <2>2, <2>3 DEF r, more
  <1>6. CASE EmptySlots(v) # {}
    <2> DEFINE taken == AddedSlot(v, drop.item, drop.count) # INVALID_SLOT
    <2>1. r = [inv |-> w, left |-> IF taken THEN call.left ELSE more]
      BY <1>6 DEF TakeDrop
    <2> HIDE DEF more, r, taken, w
    <2>2. r.inv = w /\ r.left = (IF taken THEN call.left ELSE more) /\ r \in Looting
      BY <1>1, <1>2, <1>3, <2>1 DEF Looting, Slots
    <2>3. ASSUME NEW x \in Item  PROVE LootHas(r, x) >= LootHas(call, x) + Adds(drop, x)
      <3> HIDE DEF v
      <3>1. LootHas(call, x) = CountItem(v, x) + CountIn(call.left, x)
        BY DEF LootHas, v
      <3>2. CASE ~ taken
        <4>1. LootHas(r, x) = CountItem(w, x) + (CountIn(call.left, x) + Adds(drop, x))
          BY <1>3, <2>2, <3>2 DEF LootHas
        <4>2. CountItem(w, x) >= CountItem(v, x)
          BY <1>2
        <4> QED
          BY <1>4, <3>1, <4>1, <4>2
      <3>3. CASE taken
        <4>1. LootHas(r, x) = CountItem(w, x) + CountIn(call.left, x)
          BY <2>2, <3>3 DEF LootHas
        <4>2. CountItem(w, x) >= CountItem(v, x) + Adds(drop, x)
          <5>1. CASE x = drop.item
            BY <1>2, <1>4, <3>3, <5>1 DEF taken, Adds
          <5>2. CASE x # drop.item
            <6>1. Adds(drop, x) = 0
              BY <5>2 DEF Adds
            <6> QED
              BY <1>2, <1>4, <6>1
          <5> QED
            BY <5>1, <5>2
        <4> QED
          BY <1>4, <3>1, <4>1, <4>2
      <3> QED
        BY <3>2, <3>3
    <2>4. r.left = call.left \/ r.left = more
      BY <2>2
    <2> QED
      BY <2>2, <2>3, <2>4 DEF r, more
  <1> QED
    BY <1>5, <1>6

\* The fold of lootAll.
LEMMA TakingAll ==
    ASSUME NEW call \in Looting, NEW drops \in Seq(Batch)
    PROVE  \E g : /\ g[{}] = call
                  /\ \A k \in 1 .. Len(drops) : g[1 .. k] = TakeDrop(g[1 .. (k - 1)], drops[k])
                  /\ g[1 .. Len(drops)] = FoldLeft(TakeDrop, call, drops)
  <1> DEFINE N == 1 .. Len(drops)
             step == [p \in N \X Looting |-> TakeDrop(p[2], drops[p[1]])]
             Solves(f) == f = [s \in SUBSET N |->
                                 IF s = {} THEN call
                                 ELSE TakeDrop(f[s \ {Max(s)}], drops[Max(s)])]
             g == CHOOSE f : Solves(f)
  <1>1. Len(drops) \in Nat /\ DOMAIN drops = N /\ \A k \in N : drops[k] \in Batch
    OBVIOUS
  <1>2. step \in [N \X Looting -> Looting]
    BY <1>1, TakeDropIs
  <1>3. PICK f \in [SUBSET N -> Looting] : LeftFolds(f, Len(drops), call, step)
    <2> HIDE DEF step
    <2> QED
      BY <1>1, <1>2, FoldLeftSolved
  <1>4. Solves(f)
    BY <1>1, <1>3, LastIndex DEF LeftFolds
  <1>5. Solves(g)
    BY <1>4
  <1>6. g[N] = FoldLeft(TakeDrop, call, drops)
    BY <1>1 DEF FoldLeft, MapThenFoldSet
  <1> HIDE DEF g
  <1>7. g[{}] = call
    BY <1>5
  <1>8. ASSUME NEW k \in N  PROVE g[1 .. k] = TakeDrop(g[1 .. (k - 1)], drops[k])
    <2>1. /\ 1 .. k \in SUBSET N /\ 1 .. k # {}
          /\ Max(1 .. k) = k
          /\ (1 .. k) \ {k} = 1 .. (k - 1)
      BY <1>1, PrefixOf
    <2> QED
      BY <1>5, <2>1
  <1> QED
    BY <1>6, <1>7, <1>8

\* lootAll leaves on the corpse what it has not taken.
LEMMA TakingAllIs ==
    ASSUME NEW call \in Looting, NEW drops \in Seq(Batch)
    PROVE  LET r == FoldLeft(TakeDrop, call, drops)
           IN  /\ r \in Looting
               /\ \A x \in Item : LootHas(r, x) >= LootHas(call, x) + CountIn(drops, x)
  <1> DEFINE n == Len(drops)
             r == FoldLeft(TakeDrop, call, drops)
  <1>1. n \in Nat /\ Batches(drops) /\ \A k \in 1 .. n : drops[k] \in Batch
    BY BatchesOf
  <1>2. PICK g : /\ g[{}] = call
                 /\ \A k \in 1 .. n : g[1 .. k] = TakeDrop(g[1 .. (k - 1)], drops[k])
                 /\ g[1 .. n] = r
    BY TakingAll
  <1> HIDE DEF r, n
  <1>3. r \in Looting
    <2>1. \A k \in 1 .. n : g[1 .. (k - 1)] \in Looting => g[1 .. k] \in Looting
      BY <1>1, <1>2, TakeDropIs
    <2>2. g[1 .. n] \in Looting
      BY <1>1, <1>2, <2>1, FoldLeftStays
    <2> QED
      BY <1>2, <2>2
  <1>4. ASSUME NEW x \in Item  PROVE LootHas(r, x) >= LootHas(call, x) + CountIn(drops, x)
    <2>1. PICK c : /\ c[{}] = 0
                   /\ \A k \in 1 .. n : c[1 .. k] = c[1 .. (k - 1)] + Adds(drops[k], x)
                   /\ \A k \in 0 .. n : c[1 .. k] \in Nat
                   /\ c[1 .. n] = CountIn(drops, x)
      BY <1>1, Counting DEF n
    <2> DEFINE Good(d, k) == d \in Looting /\ LootHas(d, x) >= LootHas(call, x) + c[1 .. k]
               good == [k \in 0 .. n |-> {d \in Looting : Good(d, k)}]
    <2>2. 0 \in 0 .. n /\ n \in 0 .. n /\ \A k \in 1 .. n : k \in 0 .. n /\ k - 1 \in 0 .. n
      BY <1>1
    <2>3. \A k \in 0 .. n : \A d : d \in good[k] <=> Good(d, k)
      OBVIOUS
    <2>4. \A d \in Looting : LootHas(d, x) \in Nat
      <3>1. ASSUME NEW d \in Looting  PROVE LootHas(d, x) \in Nat
        <4>1. d.inv \in Slots /\ d.left \in Seq(Batch) /\ Batches(d.left)
          BY BatchesOf DEF Looting, Slots
        <4>2. CountItem(d.inv, x) \in Nat /\ CountIn(d.left, x) \in Nat
          BY <4>1, CountIsNat, CountInIsNat
        <4> QED
          BY <4>2 DEF LootHas
      <3> QED
        BY <3>1
    <2>5. Good(call, 0)
      <3>1. 1 .. 0 = {}
        OBVIOUS
      <3>2. c[1 .. 0] = 0
        BY <2>1, <3>1
      <3> QED
        BY <2>4, <3>2
    <2>6. ASSUME NEW k \in 1 .. n, NEW d, Good(d, k - 1)
          PROVE  Good(TakeDrop(d, drops[k]), k)
      <3> DEFINE e == TakeDrop(d, drops[k])
      <3>1. d \in Looting /\ drops[k] \in Batch
        BY <1>1, <2>6
      <3>2. e \in Looting /\ LootHas(e, x) >= LootHas(d, x) + Adds(drops[k], x)
        BY <3>1, TakeDropIs
      <3>3. /\ c[1 .. k] = c[1 .. (k - 1)] + Adds(drops[k], x)
            /\ c[1 .. k] \in Nat /\ c[1 .. (k - 1)] \in Nat
        BY <2>1, <2>2
      <3>4. LootHas(d, x) \in Nat /\ LootHas(e, x) \in Nat /\ LootHas(call, x) \in Nat
        BY <2>4, <3>1, <3>2
      <3>5. Adds(drops[k], x) \in Nat
        BY <3>1 DEF Adds, Batch
      <3>6. LootHas(d, x) >= LootHas(call, x) + c[1 .. (k - 1)]
        BY <2>6
      <3> HIDE DEF e
      <3>7. LootHas(e, x) >= LootHas(call, x) + c[1 .. k]
        BY <3>2, <3>3, <3>4, <3>5, <3>6
      <3>8. Good(e, k)
        BY <3>2, <3>7
      <3> HIDE DEF Good
      <3> QED
        BY <3>8 DEF e
    <2> HIDE DEF good, Good
    <2>7. g[{}] \in good[0]
      BY <1>2, <2>2, <2>3, <2>5
    <2>8. \A k \in 1 .. n : g[1 .. (k - 1)] \in good[k - 1] => g[1 .. k] \in good[k]
      BY <1>2, <2>2, <2>3, <2>6
    <2>9. g[1 .. n] \in good[n]
      BY <1>1, <2>7, <2>8, FoldLeftSteps
    <2>10. Good(r, n)
      BY <1>2, <2>2, <2>3, <2>9
    <2> QED
      BY <2>1, <2>10 DEF Good
  <1> QED
    BY <1>3, <1>4 DEF r

-----------------------------------------------------------------------------
(* Levels.                                                                 *)

\* Experience between levels adds up.
LEMMA ExpBetweenIs ==
    ASSUME NEW l \in 1 .. MaxLevel, NEW m \in l .. MaxLevel
    PROVE  /\ ExpBetween(l, m) \in Nat
           /\ m = l => ExpBetween(l, m) = 0
           /\ m < MaxLevel => ExpBetween(l, m + 1) = ExpBetween(l, m) + ExpForLevel[m]
  <1>1. /\ MaxLevel \in Nat /\ ExpForLevel \in [1 .. MaxLevel - 1 -> Nat \ {0}]
        /\ l \in Nat /\ m \in Nat /\ 1 <= l /\ l <= m /\ m <= MaxLevel
    BY GameAssumption
  <1>2. \A x \in l .. m - 1 : ExpForLevel[x] \in Nat
    BY <1>1
  <1>3. IsFiniteSet(l .. m - 1)
    BY <1>1, FS_Interval
  <1>4. /\ SumFunctionOnSet(ExpForLevel, l .. m - 1) \in Nat
        /\ l .. m - 1 = {} => SumFunctionOnSet(ExpForLevel, l .. m - 1) = 0
    BY <1>2, <1>3, SumTake
  <1>5. m = l => l .. m - 1 = {}
    BY <1>1
  <1>6. ASSUME m < MaxLevel
        PROVE  ExpBetween(l, m + 1) = ExpBetween(l, m) + ExpForLevel[m]
    <2>1. (m + 1) - 1 = m
      BY <1>1
    <2>2. \A x \in l .. m : ExpForLevel[x] \in Nat
      BY <1>1, <1>6
    <2>3. IsFiniteSet(l .. m)
      BY <1>1, FS_Interval
    <2>4. m \in l .. m /\ (l .. m) \ {m} = l .. m - 1
      BY <1>1
    <2>5. SumFunctionOnSet(ExpForLevel, l .. m) =
            ExpForLevel[m] + SumFunctionOnSet(ExpForLevel, (l .. m) \ {m})
      BY <2>2, <2>3, <2>4, SumTake
    <2>6. ExpForLevel[m] \in Nat
      BY <2>2, <2>4
    <2>7. ExpBetween(l, m + 1) = ExpForLevel[m] + ExpBetween(l, m)
      BY <2>1, <2>4, <2>5 DEF ExpBetween
    <2>8. ExpBetween(l, m) \in Nat
      BY <1>4 DEF ExpBetween
    <2> QED
      BY <2>6, <2>7, <2>8
  <1> QED
    BY <1>4, <1>5, <1>6 DEF ExpBetween

\* giveExperience leaves no level unclaimed.
LEMMA ExperienceIs ==
    ASSUME exp \in 0 .. MaxExp, level \in 1 .. MaxLevel, LevelsAreClaimed,
           NEW amount \in Nat, GiveExperience(amount)
    PROVE  /\ exp' \in 0 .. MaxExp
           /\ level' \in 1 .. MaxLevel
           /\ level' < MaxLevel => exp' < ExpForLevel[level']
  <1> DEFINE x == exp + amount
             S == {m \in level .. MaxLevel : ExpBetween(level, m) <= x}
  <1>1. MaxLevel \in Nat /\ MaxExp \in Nat /\ x \in Nat
    BY GameAssumption
  <1>2. CASE amount = 0
    BY <1>2 DEF GiveExperience, LevelsAreClaimed
  <1>3. CASE amount # 0
    <2>1. /\ level' = Max(S)
          /\ exp' = x - ExpBetween(level, Max(S))
          /\ exp' <= MaxExp
      <3>1. LevelReached(level, exp + amount) = Max(S)
        BY DEF LevelReached
      <3> QED
        BY <1>3, <3>1 DEF GiveExperience
    <2>2. level \in S
      <3>1. level \in level .. MaxLevel
        BY <1>1
      <3>2. ExpBetween(level, level) = 0
        BY <3>1, ExpBetweenIs
      <3> QED
        BY <1>1, <3>1, <3>2
    <2>3. IsFiniteSet(level .. MaxLevel) /\ S \subseteq level .. MaxLevel
      BY <1>1, FS_Interval
    <2>4. IsFiniteSet(S) /\ S \subseteq Int /\ S # {}
      BY <1>1, <2>2, <2>3, FS_Subset
    <2>5. Max(S) \in S /\ \A y \in S : Max(S) >= y
      <3> HIDE DEF S
      <3> QED
        BY <2>4, GreatestOne
    <2> DEFINE top == Max(S)
    <2>6. /\ top \in level .. MaxLevel /\ ExpBetween(level, top) <= x
          /\ \A y \in level .. MaxLevel : ExpBetween(level, y) <= x => top >= y
      BY <2>5
    <2>7. level' = top /\ exp' = x - ExpBetween(level, top) /\ exp' <= MaxExp
      BY <2>1
    <2> HIDE DEF top, x, S
    <2>8. ExpBetween(level, top) \in Nat
      BY <2>6, ExpBetweenIs
    <2>9. exp' \in 0 .. MaxExp
      BY <1>1, <2>6, <2>7, <2>8
    <2>10. level' \in 1 .. MaxLevel
      BY <1>1, <2>6, <2>7
    <2>11. ASSUME top < MaxLevel
           PROVE  exp' < ExpForLevel[top]
      <3>1. top + 1 \in level .. MaxLevel /\ ~ top >= top + 1
        BY <1>1, <2>6, <2>11
      <3>2. ~ ExpBetween(level, top + 1) <= x
        BY <2>6, <3>1
      <3>3. ExpBetween(level, top + 1) = ExpBetween(level, top) + ExpForLevel[top]
        BY <2>6, <2>11, ExpBetweenIs
      <3>4. ExpForLevel[top] \in Nat
        <4>1. top \in 1 .. MaxLevel - 1
          BY <1>1, <2>6, <2>11
        <4> QED
          BY <4>1, GameAssumption
      <3> QED
        BY <1>1, <2>7, <2>8, <3>2, <3>3, <3>4
    <2> QED
      BY <2>7, <2>9, <2>10, <2>11
  <1> QED
    BY <1>2, <1>3

-----------------------------------------------------------------------------
(* The invariant, in the parts that actions disturb.                       *)

Carried == inv \in Slots /\ LogTypeOK(log)

Grown ==
    /\ gold \in 0 .. MaxGold
    /\ exp \in 0 .. MaxExp
    /\ level \in 1 .. MaxLevel
    /\ LevelsAreClaimed

Dealt ==
    /\ purse \in 0 .. MaxGold
    /\ stock \in [Item -> Nat \cup {Unlimited}]
    /\ \A x \in Item : stock[x] = Unlimited <=> Stock[x] = Unlimited

Entry == [item : Item, count : Nat, price : Nat]

Listed == buyback \in Seq(Entry) /\ Len(buyback) <= MAX_BUYBACK_SLOTS

Lying == loot \in [owner : {"nobody", "me", "other"}, gold : Nat, items : Seq(Batch)]

LEMMA InParts == LimitedStaysLimited <=> Carried /\ Grown /\ Dealt /\ Listed /\ Lying
  BY DEF LimitedStaysLimited, TypeOK, QuestTypeOK, Carried, Grown, Dealt, Listed, Lying,
         Slots, LogTypeOK, Entry

LEMMA InPartsNext == LimitedStaysLimited' <=> Carried' /\ Grown' /\ Dealt' /\ Listed' /\ Lying'
  BY DEF LimitedStaysLimited, TypeOK, QuestTypeOK, Carried, Grown, Dealt, Listed, Lying,
         Slots, LogTypeOK, Entry

\* The part of it that only quests change, and the one that they leave alone.
LEMMA MarketKept ==
    /\ Dealt /\ UNCHANGED <<purse, stock>> => Dealt'
    /\ Listed /\ UNCHANGED buyback => Listed'
    /\ Lying /\ UNCHANGED loot => Lying'
    /\ Grown /\ UNCHANGED <<gold, exp, level>> => Grown'
    /\ Carried /\ UNCHANGED <<inv, log>> => Carried'
  BY DEF Dealt, Listed, Lying, Grown, Carried, LevelsAreClaimed

LEMMA MarketUnchanged ==
    ASSUME Dealt, Listed, Lying, UNCHANGED marketVars
    PROVE  Dealt' /\ Listed' /\ Lying'
  BY MarketKept DEF marketVars

\* An inventory that changed, and the log that followed.
LEMMA CarriedAdding ==
    ASSUME Carried, inv' \in Slots, log' = AfterAdding(log, inv, inv')
    PROVE  Carried'
  BY AddingTyped DEF Carried

LEMMA CarriedChange ==
    ASSUME Carried, inv' \in Slots, log' = OnInventoryChanged(log, inv')
    PROVE  Carried'
  BY NotifiedTyped DEF Carried

\* The steps of the player that are no deals.
LEMMA QuestStepKeeps ==
    ASSUME Carried, Grown, QuestStep
    PROVE  Carried' /\ Grown'
  <1>1. /\ MaxBatch \in Nat /\ MaxExp \in Nat /\ MaxLevel \in Nat
        /\ ExpForLevel \in [1 .. MaxLevel - 1 -> Nat \ {0}]
    BY GameAssumption
  <1>2. ASSUME NEW q \in Quest, AcceptQuest(q) \/ AcceptWithItem(q)
        PROVE  Carried' /\ Grown'
    <2>1. inv' \in Slots /\ LogTypeOK(log')
      BY <1>2, AcceptTyped DEF Carried
    <2>2. UNCHANGED <<gold, exp, level>>
      BY <1>2 DEF AcceptQuest, AcceptWithItem
    <2> QED
      BY <2>1, <2>2, MarketKept DEF Carried
  <1>3. ASSUME NEW q \in Quest, AbandonQuest(q)
        PROVE  Carried' /\ Grown'
    <2>1. LogTypeOK(WithoutQuest(log, q))
      BY ComingAndGoingTyped DEF Carried
    <2> QED
      BY <1>3, <2>1, MarketKept DEF AbandonQuest, Carried
  <1>4. ASSUME NEW x \in Item, Gain(x, MaxBatch)
        PROVE  Carried' /\ Grown'
    <2>1. AddItem(inv, x, MaxBatch) \in Slots
      BY <1>1, AddItemIs DEF Carried
    <2> QED
      BY <1>4, <2>1, CarriedAdding, MarketKept DEF Gain
  <1>5. ASSUME NEW s \in Slot, NEW n \in 1 .. MaxBatch, Lose(s, n)
        PROVE  Carried' /\ Grown'
    <2>1. RemoveItem(inv, s, n) \in Slots
      BY <1>1, RemoveIs DEF Carried
    <2> QED
      BY <1>5, <2>1, CarriedChange, MarketKept DEF Lose
  <1>6. ASSUME NEW s \in Slot, NEW x \in Item, SetItem(s, x)
        PROVE  Carried' /\ Grown'
    <2>1. [itemId |-> x, stackCount |-> 1, mark |-> FALSE] \in Stack
      <3>1. 1 \in Nat /\ 1 \in 1 .. StackLimit[x]
        BY StackIs
      <3> QED
        BY <3>1, StackIs
    <2>2. inv' \in Slots
      BY <1>6, <2>1 DEF SetItem, Slots, Carried
    <2> QED
      BY <1>6, <2>2, MarketKept DEF SetItem, Carried
  <1>7. ASSUME NEW d \in Deed, NEW amount \in 0 .. MaxExp, DoDeed(d, amount)
        PROVE  Carried' /\ Grown'
    <2>1. LogTypeOK(OnDeed(log, d))
      BY DeedTyped DEF Carried
    <2>2. amount \in Nat
      BY <1>1
    <2>3. /\ exp' \in 0 .. MaxExp /\ level' \in 1 .. MaxLevel
          /\ level' < MaxLevel => exp' < ExpForLevel[level']
      BY <1>7, <2>2, ExperienceIs DEF DoDeed, Grown
    <2> QED
      BY <1>7, <2>1, <2>3 DEF DoDeed, Carried, Grown, LevelsAreClaimed
  <1>8. ASSUME NEW cost \in 1 .. MaxExp, LevelUp(cost)
        PROVE  Carried' /\ Grown'
    <2>1. Carried' /\ exp' = exp - cost /\ cost <= exp /\ UNCHANGED <<gold, level>>
      BY <1>8, MarketKept DEF LevelUp
    <2>2. level < MaxLevel => ExpForLevel[level] \in Nat
      BY <1>1 DEF Grown
    <2> QED
      BY <1>1, <2>1, <2>2 DEF Grown, LevelsAreClaimed
  <1> QED
    BY <1>2, <1>3, <1>4, <1>5, <1>6, <1>7, <1>8 DEF QuestStep

\* What an int32_t holds is a number.
LEMMA AsIntIs ==
    ASSUME NEW v \in Int
    PROVE  AsInt(v) \in Int
  <1> DEFINE span == 2 * (MAX_INT + 1)
             w == v + MAX_INT + 1
  <1>1. span \in Int /\ span > 0 /\ w \in Int /\ MAX_INT \in Int
    BY PriceAssumption
  <1>2. AsInt(v) = (w % span) - (MAX_INT + 1)
    BY DEF AsInt
  <1> HIDE DEF span, w
  <1>3. w % span \in Int
    BY <1>1
  <1> QED
    BY <1>1, <1>2, <1>3

\* What a vendor takes off a limited stock is there.
LEMMA BuyKeeps ==
    ASSUME Carried, Grown, Dealt, Listed, Lying, NEW x \in Item, NEW n \in 1 .. MaxBatch,
           Buy(x, n) \/ BuyOnTop(x, n)
    PROVE  Carried' /\ Grown' /\ Dealt' /\ Listed' /\ Lying'
  <1>1. n \in Nat
    BY GameAssumption
  <1>2. /\ AddItem(inv, x, n) \in Slots
        /\ inv' = AddItem(inv, x, n) /\ log' = AfterAdding(log, inv, inv')
        /\ UNCHANGED <<gold, exp, level>>
    BY <1>1, AddItemIs DEF Carried, Buy, BuyOnTop
  <1>3. Carried' /\ Grown'
    BY <1>2, CarriedAdding, MarketKept
  <1>4. CASE Buy(x, n)
    <2> DEFINE cost == TotalPrice(x, n)
    <2>1. cost \in Int
      <3>1. BuyPrice(x) \in Int
        <4>1. SellPrice[x] \in Nat /\ BuyCostRatio[x] \in Nat
          BY PriceAssumption
        <4> DEFINE ratio == IF BuyCostRatio[x] < 1 THEN 1 ELSE BuyCostRatio[x]
        <4>2. ratio \in Nat
          BY <4>1
        <4>3. BuyPrice(x) = AsInt(SellPrice[x] * ratio)
          BY DEF BuyPrice
        <4> HIDE DEF ratio
        <4>4. SellPrice[x] * ratio \in Int
          BY <4>1, <4>2
        <4> QED
          BY <4>3, <4>4, AsIntIs
      <3>2. BuyPrice(x) * n \in Int
        BY <1>1, <3>1
      <3> QED
        BY <3>2, AsIntIs DEF TotalPrice
    <2>2. cost <= purse /\ purse - cost <= MaxGold /\ purse' = purse - cost
      BY <1>4 DEF Buy
    <2> HIDE DEF cost
    <2>3. purse' \in 0 .. MaxGold
      BY <2>1, <2>2, GameAssumption DEF Dealt
    <2>4. CASE stock[x] = Unlimited
      BY <1>3, <1>4, <2>3, <2>4, MarketKept DEF Buy, Dealt
    <2>5. CASE stock[x] # Unlimited
      <3>1. stock' = [stock EXCEPT ![x] = stock[x] - n] /\ n <= stock[x]
        BY <1>4, <2>5 DEF Buy, InStock
      <3>2. stock[x] \in Nat
        BY <2>5 DEF Dealt
      <3>3. stock[x] - n \in Nat /\ stock[x] - n # Unlimited
        BY <1>1, <3>1, <3>2 DEF Unlimited
      <3>4. /\ stock' \in [Item -> Nat \cup {Unlimited}]
            /\ \A y \in Item : stock'[y] = Unlimited <=> stock[y] = Unlimited
        BY <2>5, <3>1, <3>3 DEF Dealt
      <3>5. Dealt'
        BY <2>3, <3>4 DEF Dealt
      <3> QED
        BY <1>3, <1>4, <3>5, MarketKept DEF Buy
    <2> QED
      BY <2>4, <2>5
  <1>5. CASE BuyOnTop(x, n)
    BY <1>3, <1>5, MarketUnchanged DEF BuyOnTop
  <1> QED
    BY <1>4, <1>5

\* addToBuyback: a list that is not full keeps everything.
LEMMA AddToBuybackIs ==
    ASSUME NEW list \in Seq(Entry), NEW entry \in Entry
    PROVE  /\ AddToBuyback(list, entry) \in Seq(Entry)
           /\ Len(AddToBuyback(list, entry)) <= MAX_BUYBACK_SLOTS
           /\ Len(list) < MAX_BUYBACK_SLOTS =>
                AddToBuyback(list, entry) = <<entry>> \o list
  <1> DEFINE longer == <<entry>> \o list
             n == Smaller(Len(longer), MAX_BUYBACK_SLOTS)
  <1>1. longer \in Seq(Entry) /\ Len(longer) = Len(list) + 1
    OBVIOUS
  <1>2. MAX_BUYBACK_SLOTS \in Nat /\ Len(list) \in Nat
    BY MarketAssumption
  <1>3. AddToBuyback(list, entry) = SubSeq(longer, 1, n)
    BY DEF AddToBuyback
  <1> HIDE DEF longer
  <1>4. n \in Nat /\ n <= Len(longer) /\ n <= MAX_BUYBACK_SLOTS
    BY <1>1, <1>2 DEF Smaller
  <1>5. Len(list) < MAX_BUYBACK_SLOTS => n = Len(longer)
    BY <1>1, <1>2 DEF Smaller
  <1> HIDE DEF n
  <1>6. \A i \in 1 .. n : longer[i] \in Entry
    BY <1>1, <1>4
  <1>7. /\ SubSeq(longer, 1, n) \in Seq(Entry)
        /\ Len(SubSeq(longer, 1, n)) = IF 1 <= n THEN n - 1 + 1 ELSE 0
    BY <1>4, <1>6, SubSeqProperties
  <1>8. SubSeq(longer, 1, Len(longer)) = longer
    BY <1>1, SubSeqFull
  <1> QED
    BY <1>3, <1>4, <1>5, <1>7, <1>8 DEF longer

\* What is sold, as it is listed.
SoldEntry(s) == [item  |-> inv[s].itemId,
                 count |-> inv[s].stackCount,
                 price |-> AsInt(SellPrice[inv[s].itemId] * inv[s].stackCount)]

LEMMA SellIs ==
    ASSUME Carried, NEW s \in Slot, SellItem(s)
    PROVE  /\ SoldEntry(s) \in Entry
           /\ buyback' = AddToBuyback(buyback, SoldEntry(s))
           /\ inv' = ClearSlot(inv, s) /\ inv' \in Slots
           /\ purse' = purse + SoldEntry(s).price /\ purse' <= MaxGold
           /\ log' = OnInventoryChanged(log, inv')
           /\ UNCHANGED <<gold, exp, level, stock, loot>>
  <1>1. inv \in [Slot -> Stack] /\ inv[s] \in Stack /\ ~ IsEmpty(inv[s])
    BY DEF Carried, Slots, SellItem
  <1>2. inv[s].itemId \in Item /\ inv[s].stackCount \in Nat
    BY <1>1, StackIs
  <1> DEFINE price == AsInt(SellPrice[inv[s].itemId] * inv[s].stackCount)
  <1>3. price \in Nat
    <2>1. SellPrice[inv[s].itemId] \in Nat
      BY <1>2, PriceAssumption
    <2>2. SellPrice[inv[s].itemId] * inv[s].stackCount \in Int
      BY <1>2, <2>1
    <2>3. price \in Int
      BY <2>2, AsIntIs
    <2>4. price > 0
      BY DEF SellItem
    <2> HIDE DEF price
    <2> QED
      BY <2>3, <2>4
  <1>4. SoldEntry(s) = [item |-> inv[s].itemId, count |-> inv[s].stackCount, price |-> price]
    BY DEF SoldEntry
  <1>5. /\ buyback' = AddToBuyback(buyback, SoldEntry(s))
        /\ inv' = ClearSlot(inv, s)
        /\ purse' = purse + price /\ purse + price <= MaxGold
        /\ log' = OnInventoryChanged(log, inv')
        /\ UNCHANGED <<gold, exp, level, stock, loot>>
    BY <1>4 DEF SellItem
  <1> HIDE DEF price
  <1>6. SoldEntry(s) \in Entry /\ SoldEntry(s).price = price
    BY <1>2, <1>3, <1>4 DEF Entry
  <1>7. ClearSlot(inv, s) \in Slots
    BY <1>1, StackIs DEF ClearSlot, Slots
  <1> QED
    BY <1>5, <1>6, <1>7

LEMMA SellKeeps ==
    ASSUME Carried, Grown, Dealt, Listed, Lying, NEW s \in Slot, SellItem(s)
    PROVE  Carried' /\ Grown' /\ Dealt' /\ Listed' /\ Lying'
  <1>1. SoldEntry(s) \in Entry /\ buyback' = AddToBuyback(buyback, SoldEntry(s))
    BY SellIs
  <1>2. Listed'
    BY <1>1, AddToBuybackIs DEF Listed
  <1>3. inv' \in Slots /\ log' = OnInventoryChanged(log, inv')
    BY SellIs
  <1>4. UNCHANGED <<gold, exp, level, stock, loot>>
    BY SellIs
  <1>5. purse' = purse + SoldEntry(s).price /\ purse' <= MaxGold /\ SoldEntry(s).price \in Nat
    BY <1>1, SellIs DEF Entry
  <1>6. purse' \in 0 .. MaxGold
    BY <1>5, GameAssumption DEF Dealt
  <1>7. Dealt'
    BY <1>4, <1>6 DEF Dealt
  <1> QED
    BY <1>2, <1>3, <1>4, <1>7, CarriedChange, MarketKept

LEMMA EntriesOf ==
    ASSUME NEW s \in Seq(Entry)
    PROVE  Batches(s)
  <1>1. ASSUME NEW k \in 1 .. Len(s)
        PROVE  s[k].count \in Nat
    <2>1. s[k] \in Entry
      OBVIOUS
    <2> QED
      BY <2>1 DEF Entry
  <1> QED
    BY <1>1 DEF Batches

LEMMA BuybackKeeps ==
    ASSUME Carried, Grown, Dealt, Listed, Lying, NEW i \in DOMAIN buyback, Buyback(i)
    PROVE  Carried' /\ Grown' /\ Dealt' /\ Listed' /\ Lying'
  <1> DEFINE entry == buyback[i]
  <1>1. i \in 1 .. Len(buyback) /\ buyback \in Seq(Entry) /\ entry \in Entry
    BY DEF Listed
  <1>2. entry.item \in Item /\ entry.count \in Nat /\ entry.price \in Nat
    BY <1>1 DEF Entry
  <1>3. /\ entry.price <= purse
        /\ inv' = AddItem(inv, entry.item, entry.count)
        /\ log' = AfterAdding(log, inv, inv')
        /\ purse' = purse - entry.price \/ purse' = purse
        /\ buyback' = RemoveAt(buyback, i) \/ buyback' = buyback
        /\ UNCHANGED <<gold, exp, level, stock, loot>>
    BY DEF Buyback
  <1> HIDE DEF entry
  <1>4. AddItem(inv, entry.item, entry.count) \in Slots
    BY <1>2, AddItemIs DEF Carried
  <1>5. purse' \in 0 .. MaxGold
    BY <1>2, <1>3, GameAssumption DEF Dealt
  <1>6. Dealt'
    BY <1>3, <1>5 DEF Dealt
  <1>7. Batches(buyback)
    BY <1>1, EntriesOf
  <1>8. RemoveAt(buyback, i) \in Seq(Entry) /\ Len(RemoveAt(buyback, i)) = Len(buyback) - 1
    BY <1>1, <1>7, CountInWithout
  <1>9. Listed'
    <2>1. Len(buyback) \in Nat /\ MAX_BUYBACK_SLOTS \in Nat
      BY <1>1, MarketAssumption
    <2> QED
      BY <1>3, <1>8, <2>1 DEF Listed
  <1> QED
    BY <1>3, <1>4, <1>6, <1>9, CarriedAdding, MarketKept

\* What is left of a corpse.
LEMMA RemainsIs ==
    ASSUME Lying, NEW amount \in Nat, NEW items \in Seq(Batch)
    PROVE  /\ Remains(amount, items).items = items
           /\ Remains(amount, items) \in
                [owner : {"nobody", "me", "other"}, gold : Nat, items : Seq(Batch)]
  <1>1. CASE amount = 0 /\ items = << >>
    BY <1>1 DEF Remains, NoLoot
  <1>2. CASE ~ (amount = 0 /\ items = << >>)
    BY <1>2 DEF Remains, Lying
  <1> QED
    BY <1>1, <1>2

LEMMA SlainKeeps ==
    ASSUME Carried, Grown, Dealt, Listed, Lying,
           NEW killer \in {"me", "other"}, NEW drop \in Drops, Slain(killer, drop)
    PROVE  Carried' /\ Grown' /\ Dealt' /\ Listed' /\ Lying'
  <1>1. drop.gold \in Nat /\ drop.items \in Seq(Batch)
    BY MarketAssumption
  <1>2. Lying'
    BY <1>1 DEF Slain, Lying
  <1> QED
    BY <1>2, MarketKept DEF Slain, questVars

\* The first of a kind that is looted.
LEMMA LootItemIs ==
    ASSUME Carried, Lying, NEW i \in DOMAIN loot.items, LootItem(i)
    PROVE  LET call == TakeDrop([inv |-> inv, left |-> << >>], loot.items[i])
           IN  /\ [inv |-> inv, left |-> << >>] \in Looting
               /\ loot.items \in Seq(Batch) /\ i \in 1 .. Len(loot.items)
               /\ loot.items[i] \in Batch
               /\ call \in Looting
               /\ inv' = call.inv
               /\ log' = AfterAdding(log, inv, inv')
               /\ \/ call.left = << >> /\ loot' = Remains(loot.gold, RemoveAt(loot.items, i))
                  \/ loot' = Remains(loot.gold, loot.items)
               /\ UNCHANGED <<gold, exp, level, purse, stock, buyback>>
  <1> DEFINE start == [inv |-> inv, left |-> << >>]
             call == TakeDrop(start, loot.items[i])
  <1>1. loot.items \in Seq(Batch) /\ i \in 1 .. Len(loot.items)
    BY DEF Lying
  <1>2. loot.items[i] \in Batch
    BY <1>1
  <1>3. start \in Looting
    BY DEF Looting, Carried, Slots
  <1>4. /\ inv' = call.inv
        /\ log' = AfterAdding(log, inv, inv')
        /\ loot' = Remains(loot.gold,
                           IF call.left = << >> THEN RemoveAt(loot.items, i) ELSE loot.items)
        /\ UNCHANGED <<gold, exp, level, purse, stock, buyback>>
    BY DEF LootItem
  <1> HIDE DEF start
  <1>5. call \in Looting
    BY <1>2, <1>3, TakeDropIs
  <1> HIDE DEF call
  <1>6. \/ call.left = << >> /\ loot' = Remains(loot.gold, RemoveAt(loot.items, i))
        \/ loot' = Remains(loot.gold, loot.items)
    BY <1>4
  <1> QED
    BY <1>1, <1>2, <1>3, <1>4, <1>5, <1>6 DEF call, start

LEMMA LootAllIs ==
    ASSUME Carried, Lying, LootAll
    PROVE  LET call == FoldLeft(TakeDrop, [inv |-> inv, left |-> << >>], loot.items)
           IN  /\ [inv |-> inv, left |-> << >>] \in Looting
               /\ loot.items \in Seq(Batch)
               /\ call \in Looting
               /\ purse + loot.gold <= MaxGold /\ purse' = purse + loot.gold
               /\ inv' = call.inv
               /\ log' = AfterAdding(log, inv, inv')
               /\ loot' = Remains(0, call.left)
               /\ UNCHANGED <<gold, exp, level, stock, buyback>>
  <1> DEFINE start == [inv |-> inv, left |-> << >>]
             call == FoldLeft(TakeDrop, start, loot.items)
  <1>1. loot.items \in Seq(Batch)
    BY DEF Lying
  <1>2. start \in Looting
    BY DEF Looting, Carried, Slots
  <1>3. /\ purse + loot.gold <= MaxGold /\ purse' = purse + loot.gold
        /\ inv' = call.inv
        /\ log' = AfterAdding(log, inv, inv')
        /\ loot' = Remains(0, call.left)
        /\ UNCHANGED <<gold, exp, level, stock, buyback>>
    BY DEF LootAll
  <1> HIDE DEF start
  <1>4. call \in Looting
    BY <1>1, <1>2, TakingAllIs
  <1> HIDE DEF call
  <1> QED
    BY <1>1, <1>2, <1>3, <1>4 DEF call, start

LEMMA LootKeeps ==
    ASSUME Carried, Grown, Dealt, Listed, Lying,
           LootGold \/ LootAll \/ \E i \in DOMAIN loot.items : LootItem(i)
    PROVE  Carried' /\ Grown' /\ Dealt' /\ Listed' /\ Lying'
  <1>1. loot.gold \in Nat /\ loot.items \in Seq(Batch) /\ 0 \in Nat /\ MaxGold \in Nat
    BY GameAssumption DEF Lying
  <1>2. ASSUME purse' = purse + loot.gold, purse + loot.gold <= MaxGold, UNCHANGED stock
        PROVE  Dealt'
    BY <1>1, <1>2 DEF Dealt
  <1>3. CASE LootGold
    <2>1. loot' = Remains(0, loot.items) /\ Dealt'
      BY <1>2, <1>3 DEF LootGold
    <2>2. Lying'
      BY <1>1, <2>1, RemainsIs DEF Lying
    <2> QED
      BY <1>3, <2>1, <2>2, MarketKept DEF LootGold, questVars
  <1>4. CASE LootAll
    <2> DEFINE call == FoldLeft(TakeDrop, [inv |-> inv, left |-> << >>], loot.items)
    <2>1. /\ call \in Looting /\ inv' = call.inv /\ log' = AfterAdding(log, inv, inv')
          /\ loot' = Remains(0, call.left)
      BY <1>4, LootAllIs
    <2>2. purse + loot.gold <= MaxGold /\ purse' = purse + loot.gold
      BY <1>4, LootAllIs
    <2>3. UNCHANGED <<gold, exp, level, stock, buyback>>
      BY <1>4, LootAllIs
    <2> HIDE DEF call
    <2>4. inv' \in Slots /\ call.left \in Seq(Batch)
      BY <2>1 DEF Looting, Slots
    <2>5. Lying'
      BY <1>1, <2>1, <2>4, RemainsIs DEF Lying
    <2> QED
      BY <1>2, <2>1, <2>2, <2>3, <2>4, <2>5, CarriedAdding, MarketKept
  <1>5. ASSUME NEW i \in DOMAIN loot.items, LootItem(i)
        PROVE  Carried' /\ Grown' /\ Dealt' /\ Listed' /\ Lying'
    <2> DEFINE call == TakeDrop([inv |-> inv, left |-> << >>], loot.items[i])
    <2>1. /\ call \in Looting /\ inv' = call.inv /\ log' = AfterAdding(log, inv, inv')
          /\ i \in 1 .. Len(loot.items)
      BY <1>5, LootItemIs
    <2>2. \/ loot' = Remains(loot.gold, RemoveAt(loot.items, i))
          \/ loot' = Remains(loot.gold, loot.items)
      BY <1>5, LootItemIs
    <2>3. UNCHANGED <<gold, exp, level, purse, stock, buyback>>
      BY <1>5, LootItemIs
    <2> HIDE DEF call
    <2>4. inv' \in Slots
      BY <2>1 DEF Looting, Slots
    <2>5. RemoveAt(loot.items, i) \in Seq(Batch)
      BY <1>1, <2>1, BatchesOf, CountInWithout
    <2>6. Lying'
      BY <1>1, <2>2, <2>5, RemainsIs DEF Lying
    <2> QED
      BY <2>1, <2>3, <2>4, <2>6, CarriedAdding, MarketKept
  <1> QED
    BY <1>3, <1>4, <1>5

\* Rewards, with the experience and the gold they bring.
LEMMA RewardedKeeps ==
    ASSUME Carried, Grown, Dealt, Listed, Lying,
           NEW q \in Quest, NEW c \in RewardChoices(q), Rewarded(q, c)
    PROVE  Carried' /\ Grown' /\ Dealt' /\ Listed' /\ Lying'
  <1>1. CompleteQuest(q, c)
    BY DEF Rewarded
  <1>2. inv' \in Slots
    BY <1>1, CompletingIs DEF Carried
  <1>3. Carried'
    BY <1>1, <1>2, CompleteTyped DEF Carried
  <1>4. Template[q].rewXp \in Nat /\ Template[q].rewMoney \in Nat /\ MaxGold \in Nat
    BY TemplateAssumption, GameAssumption
  <1>5. /\ gold' = gold + Template[q].rewMoney /\ gold + Template[q].rewMoney <= MaxGold
        /\ GiveExperience(Template[q].rewXp)
    BY <1>1 DEF CompleteQuest
  <1>6. /\ exp' \in 0 .. MaxExp /\ level' \in 1 .. MaxLevel
        /\ level' < MaxLevel => exp' < ExpForLevel[level']
    BY <1>4, <1>5, ExperienceIs DEF Grown
  <1>7. gold' \in 0 .. MaxGold
    BY <1>4, <1>5 DEF Grown
  <1>8. Grown'
    BY <1>6, <1>7 DEF Grown, LevelsAreClaimed
  <1>9. (purse' = gold' \/ purse' = purse) /\ UNCHANGED <<stock, buyback, loot>>
    BY DEF Rewarded
  <1>10. Dealt'
    BY <1>7, <1>9 DEF Dealt
  <1> QED
    BY <1>3, <1>8, <1>9, <1>10, MarketKept

\* Gold that is spent elsewhere, and the way back into the world.
LEMMA GoldKeeps ==
    ASSUME Carried, Grown, Dealt, Listed, Lying,
           ComeBack \/ \E amount \in 1 .. MaxGold : SpendGold(amount) \/ Repair(amount)
    PROVE  Carried' /\ Grown' /\ Dealt' /\ Listed' /\ Lying'
  <1>1. CASE ComeBack
    <2>1. /\ log' = OnInventoryChanged(log, inv') /\ UNCHANGED <<inv, gold, exp, level>>
          /\ purse' = gold /\ UNCHANGED <<stock, buyback, loot>>
      BY <1>1 DEF ComeBack, Reload
    <2>2. Carried'
      BY <2>1, CarriedChange DEF Carried
    <2>3. Dealt'
      BY <2>1 DEF Dealt, Grown
    <2> QED
      BY <2>1, <2>2, <2>3, MarketKept
  <1>2. ASSUME NEW amount \in 1 .. MaxGold, SpendGold(amount) \/ Repair(amount)
        PROVE  Carried' /\ Grown' /\ Dealt' /\ Listed' /\ Lying'
    <2>1. /\ amount <= gold /\ gold' = gold - amount
          /\ purse' = gold' \/ purse' = purse
          /\ UNCHANGED <<inv, log, exp, level, stock, buyback, loot>>
      BY <1>2 DEF SpendGold, Repair, marketVars
    <2>2. gold' \in 0 .. MaxGold
      BY <2>1, GameAssumption DEF Grown
    <2>3. Grown'
      BY <2>1, <2>2 DEF Grown, LevelsAreClaimed
    <2>4. Dealt'
      BY <2>1, <2>2 DEF Dealt
    <2> QED
      BY <2>1, <2>3, <2>4, MarketKept
  <1> QED
    BY <1>1, <1>2

LEMMA MarketStep ==
    ASSUME LimitedStaysLimited, [Next]_vars
    PROVE  LimitedStaysLimited'
  <1> SUFFICES Carried' /\ Grown' /\ Dealt' /\ Listed' /\ Lying'
    BY InPartsNext
  <1>1. Carried /\ Grown /\ Dealt /\ Listed /\ Lying
    BY InParts
  <1>2. CASE QuestStep /\ UNCHANGED marketVars
    BY <1>1, <1>2, QuestStepKeeps, MarketUnchanged
  <1>3. CASE \E q \in Quest : \E c \in RewardChoices(q) : Rewarded(q, c)
    BY <1>1, <1>3, RewardedKeeps
  <1>4. CASE \E x \in Item, n \in 1 .. MaxBatch : Buy(x, n) \/ BuyOnTop(x, n)
    BY <1>1, <1>4, BuyKeeps
  <1>5. CASE \E s \in Slot : SellItem(s)
    BY <1>1, <1>5, SellKeeps
  <1>6. CASE \E i \in DOMAIN buyback : Buyback(i)
    BY <1>1, <1>6, BuybackKeeps
  <1>7. CASE \E killer \in {"me", "other"}, drop \in Drops : Slain(killer, drop)
    BY <1>1, <1>7, SlainKeeps
  <1>8. CASE LootGold \/ LootAll \/ \E i \in DOMAIN loot.items : LootItem(i)
    BY <1>1, <1>8, LootKeeps
  <1>9. CASE ComeBack \/ \E amount \in 1 .. MaxGold : SpendGold(amount) \/ Repair(amount)
    BY <1>1, <1>9, GoldKeeps
  <1>10. CASE UNCHANGED vars
    BY <1>1, <1>10, MarketKept DEF vars, questVars, marketVars
  <1> QED
    BY <1>2, <1>3, <1>4, <1>5, <1>6, <1>7, <1>8, <1>9, <1>10 DEF Next

LEMMA MarketInit ==
    ASSUME Init
    PROVE  LimitedStaysLimited
  <1>1. inv \in Slots
    BY StackIs DEF Init, QuestInit, Slots
  <1>2. LogTypeOK(log)
    BY DEF Init, QuestInit, LogTypeOK
  <1>3. Grown
    <2>1. /\ MaxLevel \in Nat \ {0} /\ MaxGold \in Nat /\ MaxExp \in Nat
          /\ ExpForLevel \in [1 .. MaxLevel - 1 -> Nat \ {0}]
      BY GameAssumption
    <2>2. 1 < MaxLevel => ExpForLevel[1] \in Nat \ {0}
      BY <2>1
    <2>3. gold = 0 /\ exp = 0 /\ level = 1
      BY DEF Init, QuestInit
    <2> QED
      BY <2>1, <2>2, <2>3 DEF Grown, LevelsAreClaimed
  <1>4. Dealt
    BY GameAssumption, MarketAssumption DEF Init, Dealt, Unlimited
  <1>5. Listed
    BY MarketAssumption DEF Init, Listed
  <1>6. Lying
    BY DEF Init, Lying, NoLoot
  <1> QED
    BY <1>1, <1>2, <1>3, <1>4, <1>5, <1>6, InParts DEF Carried

-----------------------------------------------------------------------------
(* What is lost.                                                           *)

\* What each side has is a number.
LEMMA ReachTyped ==
    ASSUME Carried, Listed, Lying, NEW x
    PROVE  /\ CountItem(inv, x) \in Nat
           /\ CountIn(buyback, x) \in Nat
           /\ CountIn(loot.items, x) \in Nat
  <1>1. Batches(buyback) /\ buyback \in Seq(Entry)
    BY EntriesOf DEF Listed
  <1>2. loot.items \in Seq(Batch) /\ Batches(loot.items)
    BY BatchesOf DEF Lying
  <1>3. inv \in Slots
    BY DEF Carried
  <1> QED
    BY <1>1, <1>2, <1>3, CountIsNat, CountInIsNat

Grows == \A x \in Item : InReach(x)' >= InReach(x)

\* A sale: the entry in front of the list counts what the slot held.
LEMMA SellLosesNothing ==
    ASSUME Carried, Listed, Lying, NEW s \in Slot, SellItem(s),
           Len(buyback) < MAX_BUYBACK_SLOTS
    PROVE  Grows
  <1>1. /\ SoldEntry(s) \in Entry
        /\ buyback' = <<SoldEntry(s)>> \o buyback
    BY SellIs, AddToBuybackIs DEF Listed
  <1>2. inv' = ClearSlot(inv, s) /\ inv' \in Slots
    BY SellIs
  <1>3. loot' = loot
    BY SellIs
  <1>4. ASSUME NEW x \in Item
        PROVE  InReach(x)' = InReach(x)
    <2>1. Batches(<<SoldEntry(s)>>) /\ CountIn(<<SoldEntry(s)>>, x) = Adds(SoldEntry(s), x)
      <3>1. SoldEntry(s).count \in Nat
        BY <1>1 DEF Entry
      <3> QED
        BY <3>1, CountInOne
    <2>2. <<SoldEntry(s)>> \in Seq(Entry) /\ buyback \in Seq(Entry) /\ Batches(buyback)
      BY <1>1, EntriesOf DEF Listed
    <2>3. CountIn(buyback', x) = CountIn(<<SoldEntry(s)>>, x) + CountIn(buyback, x)
      BY <1>1, <2>1, <2>2, CountInBoth
    <2>4. inv \in Slots /\ inv'[s] = EmptyStack /\ \A t \in Slot \ {s} : inv'[t] = inv[t]
      BY <1>2 DEF Carried, Slots, ClearSlot
    <2>5. /\ CountItem(inv, x) \in Nat /\ CountItem(inv', x) \in Nat
          /\ CountItem(inv', x) + Holds(inv[s], x) = CountItem(inv, x) + Holds(inv'[s], x)
      BY <1>2, <2>4, CountPut
    <2>6. Holds(inv'[s], x) = 0
      BY <2>4 DEF Holds, EmptyStack
    <2>7. Holds(inv[s], x) = Adds(SoldEntry(s), x)
      BY DEF Holds, Adds, SoldEntry
    <2>8. Adds(SoldEntry(s), x) \in Nat
      BY <1>1 DEF Adds, Entry
    <2>9. CountIn(buyback, x) \in Nat /\ CountIn(loot.items, x) \in Nat
      BY ReachTyped
    <2>10. CountIn(buyback', x) = Adds(SoldEntry(s), x) + CountIn(buyback, x)
      BY <2>1, <2>3
    <2>11. CountItem(inv', x) + Adds(SoldEntry(s), x) = CountItem(inv, x)
      BY <2>5, <2>6, <2>7
    <2> QED
      BY <1>3, <2>5, <2>8, <2>9, <2>10, <2>11 DEF InReach
  <1>5. ASSUME NEW x \in Item
        PROVE  InReach(x) \in Nat
    BY ReachTyped DEF InReach
  <1> QED
    BY <1>4, <1>5 DEF Grows

\* An entry that leaves the list has been added in full.
LEMMA BuybackLosesNothing ==
    ASSUME Carried, Listed, Lying, NEW i \in DOMAIN buyback, Buyback(i)
    PROVE  Grows
  <1> DEFINE entry == buyback[i]
             paid == AddedSlot(inv, entry.item, entry.count) # INVALID_SLOT
  <1>1. i \in 1 .. Len(buyback) /\ buyback \in Seq(Entry) /\ Batches(buyback)
    BY EntriesOf DEF Listed
  <1>2. entry.item \in Item /\ entry.count \in Nat
    <2>1. buyback[i] \in Entry
      BY <1>1
    <2> QED
      BY <2>1 DEF Entry
  <1>3. /\ inv' = AddItem(inv, entry.item, entry.count)
        /\ buyback' = IF paid THEN RemoveAt(buyback, i) ELSE buyback
        /\ loot' = loot
    BY DEF Buyback
  <1>4. \A x : CountIn(RemoveAt(buyback, i), x) + Adds(entry, x) = CountIn(buyback, x)
    BY <1>1, CountInWithout
  <1> HIDE DEF entry
  <1>5. inv \in Slots
    BY DEF Carried
  <1>6. inv' \in Slots
    BY <1>2, <1>3, <1>5, AddItemIs
  <1>7. \A x \in Item : CountItem(inv', x) >= CountItem(inv, x)
    BY <1>2, <1>3, <1>5, AddedIsAll
  <1>8. paid => CountItem(inv', entry.item) = CountItem(inv, entry.item) + entry.count
    BY <1>2, <1>3, <1>5, AddedIsAll
  <1> HIDE DEF paid
  <1>9. ASSUME NEW x \in Item
        PROVE  InReach(x)' >= InReach(x)
    <2>1. /\ CountItem(inv, x) \in Nat
          /\ CountIn(buyback, x) \in Nat
          /\ CountIn(loot.items, x) \in Nat
      BY ReachTyped
    <2>2. CountItem(inv', x) \in Nat /\ CountItem(inv', x) >= CountItem(inv, x)
      BY <1>6, <1>7, CountIsNat
    <2>3. CASE ~ paid
      <3>1. buyback' = buyback
        BY <1>3, <2>3
      <3> QED
        BY <1>3, <2>1, <2>2, <3>1 DEF InReach
    <2>4. CASE paid
      <3>1. CountIn(buyback', x) + Adds(entry, x) = CountIn(buyback, x)
        BY <1>3, <1>4, <2>4
      <3>2. CountIn(buyback', x) \in Nat
        <4>1. Batches(RemoveAt(buyback, i)) /\ RemoveAt(buyback, i) \in Seq(Entry)
          BY <1>1, CountInWithout, EntriesOf
        <4>2. CountIn(RemoveAt(buyback, i), x) \in Nat
          BY <4>1, CountInIsNat
        <4> QED
          BY <1>3, <2>4, <4>2
      <3>3. CASE entry.item = x
        <4>1. Adds(entry, x) = entry.count
          BY <3>3 DEF Adds
        <4>2. CountItem(inv', x) = CountItem(inv, x) + entry.count
          BY <1>8, <2>4, <3>3
        <4> QED
          BY <1>2, <1>3, <2>1, <2>2, <3>1, <3>2, <4>1, <4>2 DEF InReach
      <3>4. CASE entry.item # x
        <4>1. Adds(entry, x) = 0
          BY <3>4 DEF Adds
        <4> QED
          BY <1>3, <2>1, <2>2, <3>1, <3>2, <4>1 DEF InReach
      <3> QED
        BY <3>3, <3>4
    <2> QED
      BY <2>3, <2>4
  <1> QED
    BY <1>9 DEF Grows

\* Loot that appears is more, and loot that an earlier death left is kept.
LEMMA SlainLosesNothing ==
    ASSUME Carried, Listed, Lying, NEW killer, NEW drop \in Drops, Slain(killer, drop)
    PROVE  Grows
  <1>1. UNCHANGED <<inv, buyback>>
    BY DEF Slain, questVars
  <1>2. ASSUME NEW x \in Item
        PROVE  InReach(x)' >= InReach(x)
    <2>1. /\ CountItem(inv, x) \in Nat
          /\ CountIn(buyback, x) \in Nat
          /\ CountIn(loot.items, x) \in Nat
      BY ReachTyped
    <2>2. CASE loot # NoLoot
      BY <1>1, <2>1, <2>2 DEF Slain, InReach
    <2>3. CASE loot = NoLoot
      <3>1. loot.items = << >> /\ loot'.items = drop.items
        BY <2>3 DEF Slain, NoLoot
      <3>2. CountIn(loot.items, x) = 0
        BY <3>1, CountInNone
      <3>3. CountIn(loot'.items, x) \in Nat
        <4>1. drop.items \in Seq(Batch)
          BY MarketAssumption
        <4>2. CountIn(drop.items, x) \in Nat
          BY <4>1, BatchesOf, CountInIsNat
        <4> QED
          BY <3>1, <4>2
      <3> QED
        BY <1>1, <2>1, <3>2, <3>3 DEF InReach
    <2> QED
      BY <2>2, <2>3
  <1> QED
    BY <1>2 DEF Grows

\* The gold of a corpse.
LEMMA LootGoldLosesNothing ==
    ASSUME Carried, Listed, Lying, LootGold
    PROVE  Grows
  <1>1. UNCHANGED <<inv, buyback>> /\ loot' = Remains(0, loot.items)
    BY DEF LootGold, questVars
  <1>2. loot'.items = loot.items
    <2>1. loot.items \in Seq(Batch) /\ 0 \in Nat
      BY DEF Lying
    <2> QED
      BY <1>1, <2>1, RemainsIs
  <1>3. ASSUME NEW x \in Item
        PROVE  InReach(x)' >= InReach(x)
    <2>1. /\ CountItem(inv, x) \in Nat
          /\ CountIn(buyback, x) \in Nat
          /\ CountIn(loot.items, x) \in Nat
      BY ReachTyped
    <2> QED
      BY <1>1, <1>2, <2>1 DEF InReach
  <1> QED
    BY <1>3 DEF Grows

\* One item of a corpse: it is struck off when all of it was added.
LEMMA LootItemLosesNothing ==
    ASSUME Carried, Listed, Lying, NEW i \in DOMAIN loot.items, LootItem(i)
    PROVE  Grows
  <1> DEFINE start == [inv |-> inv, left |-> << >>]
             drop == loot.items[i]
             call == TakeDrop(start, drop)
             without == RemoveAt(loot.items, i)
  <1>1. start \in Looting /\ drop \in Batch
    BY LootItemIs
  <1>2. loot.items \in Seq(Batch) /\ i \in 1 .. Len(loot.items) /\ Batches(loot.items)
    BY LootItemIs, BatchesOf
  <1>3. call \in Looting /\ inv' = call.inv
    BY LootItemIs
  <1>4. \/ call.left = << >> /\ loot' = Remains(loot.gold, without)
        \/ loot' = Remains(loot.gold, loot.items)
    BY LootItemIs
  <1>5. buyback' = buyback
    BY LootItemIs
  <1>6. /\ without \in Seq(Batch)
        /\ \A x : CountIn(without, x) + Adds(drop, x) = CountIn(loot.items, x)
    BY <1>2, CountInWithout
  <1>7. loot.gold \in Nat
    BY DEF Lying
  <1>8. start.inv = inv /\ start.left = << >>
    OBVIOUS
  <1> HIDE DEF start, drop, without
  <1>9. ASSUME NEW x \in Item
        PROVE  LootHas(call, x) >= LootHas(start, x) + Adds(drop, x)
    BY <1>1, TakeDropIs
  <1>10. call.left = start.left \/ call.left = Append(start.left, drop)
    BY <1>1, TakeDropIs
  <1> HIDE DEF call
  <1>11. ASSUME NEW x \in Item
         PROVE  InReach(x)' >= InReach(x)
    <2>1. /\ CountItem(inv, x) \in Nat
          /\ CountIn(buyback, x) \in Nat
          /\ CountIn(loot.items, x) \in Nat
      BY ReachTyped
    <2>2. CountItem(inv', x) \in Nat
      BY <1>3, CountIsNat DEF Looting, Slots
    <2>3. Adds(drop, x) \in Nat
      BY <1>1 DEF Adds, Batch
    <2>4. CountItem(inv', x) + CountIn(call.left, x)
            >= CountItem(inv, x) + CountIn(<< >>, x) + Adds(drop, x)
      BY <1>3, <1>8, <1>9 DEF LootHas
    <2>5. CountIn(<< >>, x) = 0
      BY CountInNone
    <2>6. CASE call.left = << >> /\ loot' = Remains(loot.gold, without)
      <3>1. loot'.items = without
        BY <1>6, <1>7, <2>6, RemainsIs
      <3>2. CountIn(without, x) \in Nat
        BY <1>6, BatchesOf, CountInIsNat
      <3>3. CountIn(without, x) + Adds(drop, x) = CountIn(loot.items, x)
        BY <1>6
      <3>4. CountItem(inv', x) >= CountItem(inv, x) + Adds(drop, x)
        BY <2>1, <2>2, <2>3, <2>4, <2>5, <2>6
      <3> QED
        BY <1>5, <2>1, <2>2, <2>3, <3>1, <3>2, <3>3, <3>4 DEF InReach
    <2>7. CASE loot' = Remains(loot.gold, loot.items)
      <3>1. loot'.items = loot.items
        BY <1>2, <1>7, <2>7, RemainsIs
      <3>2. CountItem(inv', x) >= CountItem(inv, x)
        <4>1. drop.item \in Item /\ drop.count \in Nat /\ inv \in Slots
          BY <1>1 DEF Batch, Carried
        <4>2. CountItem(AddItem(inv, drop.item, drop.count), x) >= CountItem(inv, x)
          BY <4>1, AddedIsAll
        <4>3. call.inv = inv \/ call.inv = AddItem(inv, drop.item, drop.count)
          BY <1>8 DEF call, TakeDrop
        <4> QED
          BY <1>3, <2>1, <4>2, <4>3
      <3> QED
        BY <1>5, <2>1, <2>2, <3>1, <3>2 DEF InReach
    <2> QED
      BY <1>4, <2>6, <2>7
  <1> QED
    BY <1>11 DEF Grows

\* A whole corpse.
LEMMA LootAllLosesNothing ==
    ASSUME Carried, Listed, Lying, LootAll
    PROVE  Grows
  <1> DEFINE start == [inv |-> inv, left |-> << >>]
             call == FoldLeft(TakeDrop, start, loot.items)
  <1>1. start \in Looting /\ loot.items \in Seq(Batch)
    BY LootAllIs
  <1>2. call \in Looting /\ inv' = call.inv /\ loot' = Remains(0, call.left)
    BY LootAllIs
  <1>3. buyback' = buyback
    BY LootAllIs
  <1>4. start.inv = inv /\ start.left = << >>
    OBVIOUS
  <1> HIDE DEF start
  <1>5. ASSUME NEW x \in Item
        PROVE  LootHas(call, x) >= LootHas(start, x) + CountIn(loot.items, x)
    BY <1>1, TakingAllIs
  <1> HIDE DEF call
  <1>6. call.left \in Seq(Batch) /\ loot'.items = call.left
    <2>1. call.left \in Seq(Batch) /\ 0 \in Nat
      BY <1>2 DEF Looting
    <2> QED
      BY <1>2, <2>1, RemainsIs
  <1>7. ASSUME NEW x \in Item
        PROVE  InReach(x)' >= InReach(x)
    <2>1. /\ CountItem(inv, x) \in Nat
          /\ CountIn(buyback, x) \in Nat
          /\ CountIn(loot.items, x) \in Nat
      BY ReachTyped
    <2>2. CountItem(inv', x) \in Nat /\ CountIn(call.left, x) \in Nat
      BY <1>2, <1>6, BatchesOf, CountIsNat, CountInIsNat DEF Looting, Slots
    <2>3. CountIn(<< >>, x) = 0
      BY CountInNone
    <2>4. CountItem(inv', x) + CountIn(call.left, x)
            >= CountItem(inv, x) + CountIn(<< >>, x) + CountIn(loot.items, x)
      BY <1>2, <1>4, <1>5 DEF LootHas
    <2> QED
      BY <1>3, <1>6, <2>1, <2>2, <2>3, <2>4 DEF InReach
  <1> QED
    BY <1>7 DEF Grows

\* Every step, but a sale to a full list.
LEMMA StepLosesNothing ==
    ASSUME LimitedStaysLimited, [Next]_vars, <<loot, buyback>>' # <<loot, buyback>>
    PROVE  \/ \A x \in Item : InReach(x)' >= InReach(x)
           \/ Len(buyback) = MAX_BUYBACK_SLOTS /\ \E s \in Slot : SellItem(s)
  <1>1. Carried /\ Listed /\ Lying
    BY InParts
  <1>2. ASSUME NEW s \in Slot, SellItem(s)
        PROVE  Grows \/ Len(buyback) = MAX_BUYBACK_SLOTS
    <2>1. Len(buyback) \in Nat /\ MAX_BUYBACK_SLOTS \in Nat /\ Len(buyback) <= MAX_BUYBACK_SLOTS
      BY <1>1, MarketAssumption DEF Listed
    <2> QED
      BY <1>1, <1>2, <2>1, SellLosesNothing
  <1>3. ASSUME NEW i \in DOMAIN buyback, Buyback(i)
        PROVE  Grows
    BY <1>1, <1>3, BuybackLosesNothing
  <1>4. ASSUME NEW killer, NEW drop \in Drops, Slain(killer, drop)
        PROVE  Grows
    BY <1>1, <1>4, SlainLosesNothing
  <1>5. ASSUME LootGold \/ LootAll
        PROVE  Grows
    BY <1>1, <1>5, LootGoldLosesNothing, LootAllLosesNothing
  <1>6. ASSUME NEW i \in DOMAIN loot.items, LootItem(i)
        PROVE  Grows
    BY <1>1, <1>6, LootItemLosesNothing
  <1>7. ASSUME NEW q, NEW c, Rewarded(q, c)
        PROVE  FALSE
    BY <1>7 DEF Rewarded
  <1>8. ~ ComeBack
    BY DEF ComeBack
  <1>9. ASSUME NEW amount, SpendGold(amount) \/ Repair(amount)
        PROVE  FALSE
    BY <1>9 DEF SpendGold, Repair, marketVars
  <1>10. ASSUME NEW x, NEW n, Buy(x, n) \/ BuyOnTop(x, n)
         PROVE  FALSE
    BY <1>10 DEF Buy, BuyOnTop, marketVars
  <1>11. ~ UNCHANGED marketVars /\ ~ UNCHANGED vars
    BY DEF marketVars, vars
  <1> QED
    BY <1>2, <1>3, <1>4, <1>5, <1>6, <1>7, <1>8, <1>9, <1>10, <1>11 DEF Next, Grows

-----------------------------------------------------------------------------

\* For any prices, stock and drops, a limited stock stays limited, no level is
\* left unclaimed, and every stack, tally and entry stays within its limits
\* (buyItem, giveExperience, addToBuyback).
THEOREM LimitedAlwaysStaysLimited == Spec => []LimitedStaysLimited
<1>1. Init => LimitedStaysLimited
  BY MarketInit
<1>2. LimitedStaysLimited /\ [Next]_vars => LimitedStaysLimited'
  BY MarketStep
<1>3. QED
  BY <1>1, <1>2, PTL DEF Spec

\* For any quests and rewards, a completed quest takes exactly what it asks for
\* and pays exactly what it promises: the free slots that canReceiveRewards
\* counts are enough for every addItem of completeQuest.
THEOREM RewardIsAlwaysExact == Spec => RewardIsExact
<1>1. LimitedStaysLimited /\ [Next]_vars =>
        [\A q \in Quest : \A c \in RewardChoices(q) :
           CompleteQuest(q, c) =>
             \A x \in Item :
               CountItem(inv', x) =
                 CountItem(inv, x) - Template[q].needs[x] + CountIn(Rewards(q, c), x)]_questVars
  BY InParts, CompletingIs DEF Carried
<1>2. QED
  BY <1>1, LimitedAlwaysStaysLimited, PTL DEF Spec, RewardIsExact

\* For any prices and drops, what leaves a corpse, or the list of what was sold,
\* arrives in the inventory in full, and the other way round, whatever room
\* addItem finds; only a sale to a full list drops something.
THEOREM NothingIsEverLost == Spec => NothingIsLost
<1>1. LimitedStaysLimited /\ [Next]_vars =>
        [<<loot, buyback>>' # <<loot, buyback>> =>
           \/ \A x \in Item : InReach(x)' >= InReach(x)
           \/ Len(buyback) = MAX_BUYBACK_SLOTS /\ \E s \in Slot : SellItem(s)]_vars
  BY StepLosesNothing
<1>2. QED
  BY <1>1, LimitedAlwaysStaysLimited, PTL DEF Spec, NothingIsLost
=============================================================================
