------------------------------- MODULE Market --------------------------------
(***************************************************************************)
(* The player of Quests deals with a vendor and takes loot from a corpse.  *)
(*                                                                         *)
(* A player's gold is kept twice: m_gold, which is saved, shown and used by *)
(* quests, trades and repairs, and Variable::Gold, which vendors and loot  *)
(* read and write.  The first overwrites the second now and then, never    *)
(* the other way round.                                                    *)
(*                                                                         *)
(* VendorManager::update and LootManager::update have no caller: nothing   *)
(* is restocked, and only the owner of a corpse ever loots it.             *)
(***************************************************************************)
EXTENDS Quests

CONSTANTS
    SellPrice,          \* sellPrice of each item's template
    BuyCostRatio,       \* buyCostRatio of each item's template
    Stock,              \* maxCount of each item at the vendor, Unlimited for no limit
    Drops,              \* what a loot table can roll: gold and a sequence of items
    MAX_BUYBACK_SLOTS,
    MAX_INT             \* the greatest number of the type in which prices are computed

ASSUME PriceAssumption ==
    /\ SellPrice \in [Item -> Nat]
    /\ BuyCostRatio \in [Item -> Nat]
    /\ MAX_INT \in Nat /\ MaxGold <= MAX_INT

ASSUME MarketAssumption ==
    /\ Stock \in [Item -> Nat \cup {-1}]
    /\ \A drop \in Drops : drop.gold \in Nat /\ drop.items \in Seq(Batch)
    /\ MAX_BUYBACK_SLOTS \in Nat

VARIABLES
    purse,      \* Variable::Gold
    stock,      \* currentCount of each item at the vendor
    buyback,    \* m_buybackItems of the player
    loot        \* m_pendingLoot of the corpse

marketVars == <<purse, stock, buyback, loot>>
vars == <<questVars, marketVars>>

Unlimited == -1

NoLoot == [owner |-> "nobody", gold |-> 0, items |-> << >>]

\* A product as an int32_t holds it: too great a one comes out below zero, or low.
AsInt(v) == ((v + MAX_INT + 1) % (2 * (MAX_INT + 1))) - (MAX_INT + 1)

BuyPrice(x) == AsInt(SellPrice[x] * (IF BuyCostRatio[x] < 1 THEN 1 ELSE BuyCostRatio[x]))

TotalPrice(x, n) == AsInt(BuyPrice(x) * n)

Init ==
    /\ QuestInit
    /\ purse = 0
    /\ stock = Stock
    /\ buyback = << >>
    /\ loot = NoLoot

-----------------------------------------------------------------------------
(* The vendor.                                                             *)

\* Faulty variant: any stock above none suffices.
FaultyInStock(x, n) == stock[x] # 0

InStock(x, n) == stock[x] = Unlimited \/ n <= stock[x]

\* buyItem, when it goes through: addItem opened a slot.
Buy(x, n) ==
    /\ InStock(x, n)
    /\ TotalPrice(x, n) <= purse
    /\ purse - TotalPrice(x, n) <= MaxGold
    /\ EmptySlots(inv) # {}
    /\ AddedSlot(inv, x, n) # INVALID_SLOT
    /\ inv' = AddItem(inv, x, n)
    /\ log' = AfterAdding(log, inv, inv')
    /\ purse' = purse - TotalPrice(x, n)
    /\ stock' = IF stock[x] = Unlimited THEN stock ELSE [stock EXCEPT ![x] = @ - n]
    /\ UNCHANGED <<gold, exp, level, buyback, loot>>

\* buyItem, when addItem opened no slot: what went on top of stacks stays, and
\* nothing is paid.
BuyOnTop(x, n) ==
    /\ InStock(x, n)
    /\ TotalPrice(x, n) <= purse
    /\ EmptySlots(inv) # {}
    /\ AddedSlot(inv, x, n) = INVALID_SLOT
    /\ inv' = AddItem(inv, x, n)
    /\ log' = AfterAdding(log, inv, inv')
    /\ UNCHANGED <<gold, exp, level, marketVars>>

\* addToBuyback: the newest in front, the oldest dropped.
AddToBuyback(list, entry) ==
    LET longer == <<entry>> \o list
    IN  SubSeq(longer, 1, Smaller(Len(longer), MAX_BUYBACK_SLOTS))

SellItem(s) ==
    LET price == AsInt(SellPrice[inv[s].itemId] * inv[s].stackCount)
    IN  /\ ~ IsEmpty(inv[s])
        /\ price > 0
        /\ purse + price <= MaxGold
        /\ inv' = ClearSlot(inv, s)
        /\ log' = OnInventoryChanged(log, inv')
        /\ buyback' = AddToBuyback(buyback, [item  |-> inv[s].itemId,
                                             count |-> inv[s].stackCount,
                                             price |-> price])
        /\ purse' = purse + price
        /\ UNCHANGED <<gold, exp, level, stock, loot>>

\* buyback: like buyItem, an entry that only tops up stacks is not paid for and
\* stays in the list.
Buyback(i) ==
    LET entry == buyback[i]
        paid == AddedSlot(inv, entry.item, entry.count) # INVALID_SLOT
    IN  /\ entry.price <= purse
        /\ EmptySlots(inv) # {}
        /\ inv' = AddItem(inv, entry.item, entry.count)
        /\ log' = AfterAdding(log, inv, inv')
        /\ purse' = IF paid THEN purse - entry.price ELSE purse
        /\ buyback' = IF paid THEN RemoveAt(buyback, i) ELSE buyback
        /\ UNCHANGED <<gold, exp, level, stock, loot>>

-----------------------------------------------------------------------------
(* Loot.                                                                   *)

\* generateLoot, when the player or somebody else kills the creature: loot
\* that an earlier death left is kept, with its owner.
Slain(killer, drop) ==
    /\ loot' = IF loot # NoLoot THEN loot
               ELSE [owner |-> killer, gold |-> drop.gold, items |-> drop.items]
    /\ UNCHANGED <<questVars, purse, stock, buyback>>

CanLoot == loot.owner = "me"

\* What is left of a corpse, or nothing when that is nothing.
Remains(amount, items) ==
    IF amount = 0 /\ items = << >> THEN NoLoot
    ELSE [loot EXCEPT !.gold = amount, !.items = items]

\* lootItem, of the gold.
LootGold ==
    /\ CanLoot
    /\ purse + loot.gold <= MaxGold
    /\ purse' = purse + loot.gold
    /\ loot' = Remains(0, loot.items)
    /\ UNCHANGED <<questVars, stock, buyback>>

\* Faulty variant: what was added is not asked for.
FaultyTakeDrop(call, drop) ==
    IF EmptySlots(call.inv) = {} THEN [call EXCEPT !.left = Append(@, drop)]
    ELSE [call EXCEPT !.inv = AddItem(@, drop.item, drop.count)]

\* One item of the corpse goes to the inventory; it is marked as looted when
\* addItem opened a slot.
TakeDrop(call, drop) ==
    LET taken == AddedSlot(call.inv, drop.item, drop.count) # INVALID_SLOT
    IN  IF EmptySlots(call.inv) = {} THEN [call EXCEPT !.left = Append(@, drop)]
        ELSE [inv  |-> AddItem(call.inv, drop.item, drop.count),
              left |-> IF taken THEN call.left ELSE Append(call.left, drop)]

\* lootItem, of an item: the first of its kind.
LootItem(i) ==
    LET call == TakeDrop([inv |-> inv, left |-> << >>], loot.items[i])
    IN  /\ CanLoot
        /\ \A j \in 1 .. i - 1 : loot.items[j].item # loot.items[i].item
        /\ EmptySlots(inv) # {}
        /\ inv' = call.inv
        /\ log' = AfterAdding(log, inv, inv')
        /\ loot' = Remains(loot.gold,
                           IF call.left = << >> THEN RemoveAt(loot.items, i) ELSE loot.items)
        /\ UNCHANGED <<gold, exp, level, purse, stock, buyback>>

\* lootAll: the gold, then every item in order.
LootAll ==
    LET call == FoldLeft(TakeDrop, [inv |-> inv, left |-> << >>], loot.items)
    IN  /\ CanLoot
        /\ purse + loot.gold <= MaxGold
        /\ purse' = purse + loot.gold
        /\ inv' = call.inv
        /\ log' = AfterAdding(log, inv, inv')
        /\ loot' = Remains(0, call.left)
        /\ UNCHANGED <<gold, exp, level, stock, buyback>>

-----------------------------------------------------------------------------
(* Gold that vendors and loot do not know of.                              *)

\* spendGold, of a trade or a respecialisation.
SpendGold(amount) ==
    /\ amount <= gold
    /\ gold' = gold - amount
    /\ purse' = gold'
    /\ UNCHANGED <<inv, log, exp, level, stock, buyback, loot>>

\* handleRepair: setGold leaves the variable alone.
Repair(cost) ==
    /\ cost <= gold
    /\ gold' = gold - cost
    /\ UNCHANGED <<inv, log, exp, level, marketVars>>

\* addGold of a reward, and the constructor, copy m_gold to the variable.
Rewarded(q, c) ==
    /\ CompleteQuest(q, c)
    /\ purse' = IF Template[q].rewMoney > 0 THEN gold' ELSE purse
    /\ UNCHANGED <<stock, buyback, loot>>

ComeBack ==
    /\ Reload
    /\ purse' = gold
    /\ UNCHANGED <<stock, buyback, loot>>

Next ==
    \/ QuestStep /\ UNCHANGED marketVars
    \/ \E q \in Quest : \E c \in RewardChoices(q) : Rewarded(q, c)
    \/ ComeBack
    \/ \E x \in Item, n \in 1 .. MaxBatch : Buy(x, n) \/ BuyOnTop(x, n)
    \/ \E s \in Slot : SellItem(s)
    \/ \E i \in DOMAIN buyback : Buyback(i)
    \/ \E killer \in {"me", "other"}, drop \in Drops : Slain(killer, drop)
    \/ LootGold
    \/ \E i \in DOMAIN loot.items : LootItem(i)
    \/ LootAll
    \/ \E amount \in 1 .. MaxGold : SpendGold(amount) \/ Repair(amount)

Spec == Init /\ [][Next]_vars

-----------------------------------------------------------------------------

TypeOK ==
    /\ QuestTypeOK
    /\ purse \in 0 .. MaxGold
    /\ stock \in [Item -> Nat \cup {Unlimited}]
    /\ buyback \in Seq([item : Item, count : Nat, price : Nat])
    /\ Len(buyback) <= MAX_BUYBACK_SLOTS
    /\ loot \in [owner : {"nobody", "me", "other"}, gold : Nat, items : Seq(Batch)]

\* A limited stock, which is counted in the same number that marks an unlimited
\* one, never reaches the mark; no level is left unclaimed; and the rest of the
\* state is well formed, whatever is bought, looted, repaired and rewarded.
LimitedStaysLimited ==
    /\ TypeOK
    /\ LevelsAreClaimed
    /\ \A x \in Item : stock[x] = Unlimited <=> Stock[x] = Unlimited

\* How many of item x are in reach of the player: carried, at the vendor under
\* his name, or on the corpse.
InReach(x) == CountItem(inv, x) + CountIn(buyback, x) + CountIn(loot.items, x)

\* Whenever a corpse or the buyback list changes, what leaves one side arrives
\* on the other in full, whether or not addItem finds room; only a sale drops
\* something, the oldest entry of a full list.
NothingIsLost ==
    [][<<loot, buyback>>' # <<loot, buyback>> =>
         \/ \A x \in Item : InReach(x)' >= InReach(x)
         \/ Len(buyback) = MAX_BUYBACK_SLOTS /\ \E s \in Slot : SellItem(s)]_vars
=============================================================================
