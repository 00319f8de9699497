------------------------------- MODULE Quests --------------------------------
(***************************************************************************)
(* One player's quest log: the tallies its inventory and its deeds keep,   *)
(* the pay of a finished quest, and the levels the pay leads to.           *)
(*                                                                         *)
(* A tally of items is not counted when it is asked for: it is a copy that *)
(* the inventory refreshes by notifying its owner, which most of its       *)
(* operations do and setItem does not.                                     *)
(*                                                                         *)
(* The templates come from the game database.  They are assumed to name an *)
(* item or a deed in at most one objective of a quest.                     *)
(***************************************************************************)
EXTENDS Inventory

CONSTANTS
    Deed,               \* what else a quest counts: kills of a kind, casts of a spell
    Quest,
    Template,           \* the QuestTemplate of a quest
    MAX_ACTIVE_QUESTS,
    MaxLevel,           \* sGameData.getMaxLevel()
    ExpForLevel,        \* experience that leads out of a level, above 0 in the data
    MaxBatch,           \* bound: the most of an item gained or lost at once
    MaxGold,            \* bound: gold a player gathers
    MaxExp              \* bound: experience a player gathers

\* So many of an item: a reward, or what a corpse holds.
Batch == [item : Item, count : Nat]

ASSUME TemplateAssumption ==
    \A q \in Quest :
        /\ Template[q].needs \in [Item -> Nat]
        /\ Template[q].deeds \in [Deed -> Nat]
        /\ Template[q].providedItem \in Item \cup {0}
        /\ Template[q].rewItem \in Seq(Batch)
        /\ Template[q].rewChoice \in Seq(Batch)
        /\ Template[q].rewMoney \in Nat
        /\ Template[q].rewXp \in Nat

ASSUME GameAssumption ==
    /\ IsFiniteSet(Item)
    /\ MaxLevel \in Nat \ {0}
    /\ ExpForLevel \in [1 .. MaxLevel - 1 -> Nat \ {0}]
    /\ MaxBatch \in Nat /\ MaxGold \in Nat /\ MaxExp \in Nat

VARIABLES
    inv,        \* m_inventory
    log,        \* m_questLog: a function from the quests in it to their states
    gold,       \* m_gold
    exp,        \* m_experience
    level       \* m_level

questVars == <<inv, log, gold, exp, level>>

QuestState ==
    [status : {"InProgress", "Complete", "Rewarded"},
     items  : [Item -> Nat],            \* progress of the item objectives
     deeds  : [Deed -> Nat]]            \* progress of the others

QuestTypeOK ==
    /\ inv \in [Slot -> Stack]
    /\ DOMAIN log \subseteq Quest
    /\ \A q \in DOMAIN log : log[q] \in QuestState
    /\ gold \in 0 .. MaxGold
    /\ exp \in 0 .. MaxExp
    /\ level \in 1 .. MaxLevel

\* A character that has just been created.
QuestInit ==
    /\ inv = [s \in Slot |-> EmptyStack]
    /\ log = << >>
    /\ gold = 0
    /\ exp = 0
    /\ level = 1

-----------------------------------------------------------------------------
(* Tallies.                                                                *)

IsActive(state) == state.status \in {"InProgress", "Complete"}

AreObjectivesComplete(q, state) ==
    /\ \A x \in Item : Template[q].needs[x] <= state.items[x]
    /\ \A d \in Deed : Template[q].deeds[d] <= state.deeds[d]

\* Faulty variant: a quest that was complete once stays so.
FaultyUpdateQuestCompletion(q, state) ==
    IF AreObjectivesComplete(q, state) THEN [state EXCEPT !.status = "Complete"] ELSE state

UpdateQuestCompletion(q, state) ==
    [state EXCEPT !.status =
        IF AreObjectivesComplete(q, state) THEN "Complete"
        ELSE IF @ = "Complete" THEN "InProgress" ELSE @]

ItemTally(q, v) == [x \in Item |-> Smaller(Template[q].needs[x], CountItem(v, x))]

\* Faulty variant: only unfinished quests follow the inventory.
FaultyOnInventoryChanged(l, v) ==
    [q \in DOMAIN l |->
        IF l[q].status = "InProgress" /\ l[q].items # ItemTally(q, v)
        THEN UpdateQuestCompletion(q, [l[q] EXCEPT !.items = ItemTally(q, v)])
        ELSE l[q]]

\* onInventoryChanged: the log when the owner of inventory v is notified.
OnInventoryChanged(l, v) ==
    [q \in DOMAIN l |->
        IF IsActive(l[q]) /\ l[q].items # ItemTally(q, v)
        THEN UpdateQuestCompletion(q, [l[q] EXCEPT !.items = ItemTally(q, v)])
        ELSE l[q]]

\* addItem notifies only when it changed something.
AfterAdding(l, v, w) == IF w = v THEN l ELSE OnInventoryChanged(l, w)

\* onNpcKilled and onSpellCast.
OnDeed(l, d) ==
    [q \in DOMAIN l |->
        IF l[q].status = "InProgress" /\ l[q].deeds[d] < Template[q].deeds[d]
        THEN UpdateQuestCompletion(q, [l[q] EXCEPT !.deeds[d] = @ + 1])
        ELSE l[q]]

-----------------------------------------------------------------------------
(* Accepting and abandoning.                                               *)

ActiveQuests == {q \in DOMAIN log : IsActive(log[q])}

IsQuestAvailable(q) ==
    /\ level >= Template[q].minLevel
    /\ q \notin DOMAIN log
    /\ \A p \in Template[q].prev : p \in DOMAIN log /\ log[p].status = "Rewarded"

NewQuest == [status |-> "InProgress",
             items  |-> [x \in Item |-> 0],
             deeds  |-> [d \in Deed |-> 0]]

WithQuest(l, q, state) == [p \in DOMAIN l \cup {q} |-> IF p = q THEN state ELSE l[p]]

WithoutQuest(l, q) == [p \in DOMAIN l \ {q} |-> l[p]]

CanAccept(q) ==
    /\ Cardinality(ActiveQuests) < MAX_ACTIVE_QUESTS
    /\ IsQuestAvailable(q)

\* acceptQuest of a quest that hands nothing out.  What the player already
\* carries is not counted.
AcceptQuest(q) ==
    /\ CanAccept(q)
    /\ Template[q].providedItem = 0
    /\ log' = WithQuest(log, q, UpdateQuestCompletion(q, NewQuest))
    /\ UNCHANGED <<inv, gold, exp, level>>

\* acceptQuest of a quest that hands out an item.  When addItem opens no slot
\* the quest is taken back, and what was put on top of a stack stays.
AcceptWithItem(q) ==
    /\ CanAccept(q)
    /\ Template[q].providedItem # 0
    /\ LET x == Template[q].providedItem
           w == AddItem(inv, x, 1)
           l == AfterAdding(WithQuest(log, q, NewQuest), inv, w)
       IN  /\ inv' = w
           /\ log' = IF AddedSlot(inv, x, 1) = INVALID_SLOT THEN WithoutQuest(l, q)
                     ELSE [l EXCEPT ![q] = UpdateQuestCompletion(q, @)]
    /\ UNCHANGED <<gold, exp, level>>

\* abandonQuest: of a quest in any state.
AbandonQuest(q) ==
    /\ q \in DOMAIN log
    /\ log' = WithoutQuest(log, q)
    /\ UNCHANGED <<inv, gold, exp, level>>

-----------------------------------------------------------------------------
(* Levels.                                                                 *)

\* Experience that leads from level l up to level m.
ExpBetween(l, m) == SumFunctionOnSet(ExpForLevel, l .. m - 1)

\* The level the loop of checkLevelUp ends in.
LevelReached(l, x) == Max({m \in l .. MaxLevel : ExpBetween(l, m) <= x})

\* giveExperience.
GiveExperience(amount) ==
    LET x == exp + amount
        m == LevelReached(level, x)
    IN  IF amount = 0 THEN UNCHANGED <<exp, level>>
        ELSE /\ level' = m
             /\ exp' = x - ExpBetween(level, m)
             /\ exp' <= MaxExp

\* handleLevelUp: experience is also the price of stat and spell points.
LevelUp(cost) ==
    /\ cost <= exp
    /\ exp' = exp - cost
    /\ UNCHANGED <<inv, log, gold, level>>

-----------------------------------------------------------------------------
(* Completing.                                                             *)

\* The reward items of a choice, and the choices there are; rewards are
\* records of an item and a count.
Rewards(q, c) ==
    Template[q].rewItem
        \o IF Template[q].rewChoice = << >> THEN << >> ELSE <<Template[q].rewChoice[c]>>

RewardChoices(q) ==
    IF Template[q].rewChoice = << >> THEN {0} ELSE DOMAIN Template[q].rewChoice

\* Slots that hold a reward of which nothing fits on a stack.
SlotsFor(reward) == (reward.count + StackLimit[reward.item] - 1) \div StackLimit[reward.item]

CanReceiveRewards(q, c) ==
    FoldLeft(LAMBDA n, reward : n + SlotsFor(reward), 0, Rewards(q, c))
        <= Cardinality(EmptySlots(inv))

HasItem(x, n) == CountItem(inv, x) >= n

TakeFrom(call, s, x) ==
    IF call.inv[s].itemId # x \/ call.left = 0 THEN call
    ELSE LET k == Smaller(call.left, call.inv[s].stackCount)
         IN  [inv |-> RemoveItem(call.inv, s, k), left |-> call.left - k]

\* Takes n of item x, in slot order.
TakeItems(v, x, n) ==
    FoldLeft(LAMBDA call, s : TakeFrom(call, s, x), [inv |-> v, left |-> n], SlotOrder).inv

RemoveRequiredItems(v, q) ==
    FoldLeft(LAMBDA w, x : TakeItems(w, x, Template[q].needs[x]), v,
             Ascending(Item))

GrantItems(v, q, c) ==
    FoldLeft(LAMBDA w, reward : AddItem(w, reward.item, reward.count), v, Rewards(q, c))

\* Faulty variant: the tally is taken for the items.
FaultyCanComplete(q, c) ==
    /\ q \in DOMAIN log
    /\ log[q].status = "Complete"
    /\ CanReceiveRewards(q, c)

CanComplete(q, c) ==
    /\ q \in DOMAIN log
    /\ log[q].status = "Complete"
    /\ CanReceiveRewards(q, c)
    /\ \A x \in Item : HasItem(x, Template[q].needs[x])

\* completeQuest.  The tallies follow each change of the inventory on the way;
\* what they end at depends on the last one only.
CompleteQuest(q, c) ==
    /\ CanComplete(q, c)
    /\ gold + Template[q].rewMoney <= MaxGold
    /\ LET w == GrantItems(RemoveRequiredItems(inv, q), q, c)
           l == OnInventoryChanged(log, w)
       IN  /\ inv' = w
           /\ log' = IF Template[q].repeatable THEN WithoutQuest(l, q)
                     ELSE [l EXCEPT ![q].status = "Rewarded"]
    /\ gold' = gold + Template[q].rewMoney
    /\ GiveExperience(Template[q].rewXp)

-----------------------------------------------------------------------------
(* What else happens to the player.                                        *)

\* addItem, of a trade.
Gain(x, n) ==
    /\ inv' = AddItem(inv, x, n)
    /\ log' = AfterAdding(log, inv, inv')
    /\ UNCHANGED <<gold, exp, level>>

\* removeItem and clearSlot: use, destruction, deposits.
Lose(s, n) ==
    /\ ~ IsEmpty(inv[s])
    /\ inv' = RemoveItem(inv, s, n)
    /\ log' = OnInventoryChanged(log, inv')
    /\ UNCHANGED <<gold, exp, level>>

\* setItem, of the handlers that exchange a slot with the bank or with worn
\* equipment: the owner is not notified.
SetItem(s, x) ==
    /\ inv' = [inv EXCEPT ![s] = [itemId |-> x, stackCount |-> 1, mark |-> FALSE]]
    /\ UNCHANGED <<log, gold, exp, level>>

\* A kill, with its experience, or a cast.
DoDeed(d, amount) ==
    /\ log' = OnDeed(log, d)
    /\ GiveExperience(amount)
    /\ UNCHANGED <<inv, gold>>

\* The character leaves, saved, and comes back: the constructor loads the log
\* and synchronises it with the inventory.
Reload ==
    /\ log' = OnInventoryChanged(log, inv)
    /\ UNCHANGED <<inv, gold, exp, level>>

\* The steps that leave gold alone.
QuestStep ==
    \/ \E q \in Quest : AcceptQuest(q) \/ AcceptWithItem(q) \/ AbandonQuest(q)
    \/ \E x \in Item : Gain(x, MaxBatch)
    \/ \E s \in Slot, n \in 1 .. MaxBatch : Lose(s, n)
    \/ \E s \in Slot, x \in Item : SetItem(s, x)
    \/ \E d \in Deed, amount \in 0 .. MaxExp : DoDeed(d, amount)
    \/ \E cost \in 1 .. MaxExp : LevelUp(cost)

-----------------------------------------------------------------------------

\* A quest in the log is Complete exactly while its stored tallies are full: no
\* step moves a tally without the mark.  The tally itself may be behind what is
\* carried, after setItem until the next notification; CanComplete looks again.
StatusFollowsTally ==
    \A q \in DOMAIN log :
        /\ log[q].status = "InProgress" => ~ AreObjectivesComplete(q, log[q])
        /\ log[q].status = "Complete" => AreObjectivesComplete(q, log[q])

\* Every change of the inventory but setItem leaves all tallies of items right,
\* those a silent change or an acceptance had left behind included.
NotifiedChangesAreTallied ==
    [][inv' # inv =>
         \/ \E s \in Slot, x \in Item : SetItem(s, x)
         \/ \A q \in DOMAIN log' : IsActive(log'[q]) => log'[q].items = ItemTally(q, inv')]_questVars

\* How many of item x a sequence of batches has.
CountIn(batches, x) ==
    FoldLeft(LAMBDA n, e : IF e.item = x THEN n + e.count ELSE n, 0, batches)

\* A completed quest takes exactly what it asks for and pays exactly what it
\* promises, however stale its tally and however full the inventory: the check
\* of the free slots is enough for addItem never to drop a reward.
RewardIsExact ==
    [][\A q \in Quest : \A c \in RewardChoices(q) :
         CompleteQuest(q, c) =>
           \A x \in Item :
             CountItem(inv', x) =
               CountItem(inv, x) - Template[q].needs[x] + CountIn(Rewards(q, c), x)]_questVars

\* No level is left unclaimed: what is left of the experience does not reach
\* the next one, through kills, rewards and spending.
LevelsAreClaimed == level < MaxLevel => exp < ExpForLevel[level]
=============================================================================
