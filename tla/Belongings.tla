----------------------------- MODULE Belongings ------------------------------
(***************************************************************************)
(* What one character owns: the inventory, the bank and the worn equipment *)
(* in memory, the rows of the three in the database, and the marks that    *)
(* tell a save which rows to write.                                        *)
(*                                                                         *)
(* A mark on a stack of the inventory stands for socketed gems, which      *)
(* neither the bank nor any row has room for.                              *)
(***************************************************************************)
EXTENDS Inventory

CONSTANTS
    BANK_SLOTS,     \* Bank::MAX_SLOTS
    EquipSlot,      \* equipment slots
    FitsIn,         \* canEquipInSlot: the slots each item may be worn in
    MaxBatch,       \* bound: the most of an item gained or used up at once
    MaxItems,       \* bound: how many items the character gathers
    MaxDurability   \* bound: deaths that wear a piece out

B == INSTANCE Inventory WITH MAX_SLOTS <- BANK_SLOTS

ASSUME WearableAssumption ==
    /\ FitsIn \in [Item -> SUBSET EquipSlot]
    /\ \A x \in Item : FitsIn[x] # {} => StackLimit[x] = 1

ASSUME SizesAssumption ==
    /\ BANK_SLOTS \in Nat \ {0}
    /\ IsFiniteSet(Item)
    /\ IsFiniteSet(EquipSlot)
    /\ MaxBatch \in Nat
    /\ MaxDurability \in Nat

VARIABLES
    inv,        \* m_inventory
    bank,       \* m_bank
    worn,       \* m_equipment
    dirty,      \* the containers whose m_dirty is set
    saved       \* the rows of character_inventory, _bank and _equipment

memory == <<inv, bank, worn>>
vars == <<memory, dirty, saved>>

Container == {"inv", "bank", "worn"}

NotWorn == [itemId |-> 0, durability |-> 0]

Piece == {NotWorn} \cup [itemId : {x \in Item : FitsIn[x] # {}}, durability : 0 .. MaxDurability]

\* What the rows of an array of stacks can hold.
Plain(stack) == [stack EXCEPT !.mark = FALSE]
Rows(slots) == [s \in DOMAIN slots |-> Plain(slots[s])]

TypeOK ==
    /\ inv \in [Slot -> Stack]
    /\ bank \in [B!Slot -> Stack]
    /\ worn \in [EquipSlot -> Piece]
    /\ dirty \subseteq Container
    /\ saved.inv \in [Slot -> Stack]
    /\ saved.bank \in [B!Slot -> Stack]
    /\ saved.worn \in [EquipSlot -> Piece]

\* A character that has just been created.
Init ==
    /\ inv = [s \in Slot |-> EmptyStack]
    /\ bank = [s \in B!Slot |-> EmptyStack]
    /\ worn = [e \in EquipSlot |-> NotWorn]
    /\ dirty = {}
    /\ saved = [inv |-> inv, bank |-> bank, worn |-> worn]

\* How many of item x the character has.
Owned(x) ==
    CountItem(inv, x) + B!CountItem(bank, x) + Cardinality({e \in EquipSlot : worn[e].itemId = x})

Mark(containers) == dirty' = dirty \cup containers

-----------------------------------------------------------------------------
(* The inventory.                                                          *)

\* addItem: loot, purchases, rewards, trades.
Gain(x, n) ==
    /\ UNCHANGED <<bank, worn, saved>>
    /\ inv' = AddItem(inv, x, n)
    /\ IF inv' = inv THEN UNCHANGED dirty ELSE Mark({"inv"})
    /\ SumFunctionOnSet([y \in Item |-> Owned(y)], Item) + n <= MaxItems

\* removeItem and clearSlot: use, sale, destruction.  More than there is takes
\* no more than all.
Lose(s, n) ==
    /\ n <= inv[s].stackCount
    /\ inv' = RemoveItem(inv, s, n)
    /\ Mark({"inv"})
    /\ UNCHANGED <<bank, worn, saved>>

\* handleMoveItem, handleSplitItemStack, handleSortInventory.
Move(from, to) ==
    /\ from # to
    /\ CanMove(inv, from)
    /\ inv' = MoveItem(inv, from, to)
    /\ Mark({"inv"})
    /\ UNCHANGED <<bank, worn, saved>>

Split(from, to, n) ==
    /\ CanSplit(inv, from, to, n)
    /\ inv' = SplitStack(inv, from, to, n)
    /\ Mark({"inv"})
    /\ UNCHANGED <<bank, worn, saved>>

Sort ==
    /\ inv' \in Sorted(inv)
    /\ Mark({"inv"})
    /\ UNCHANGED <<bank, worn, saved>>

\* handleSocketItem: any item is a gem for any other, and for itself.
Socket(target, gem) ==
    /\ ~ IsEmpty(inv[target])
    /\ ~ IsEmpty(inv[gem])
    /\ inv' = RemoveItem([inv EXCEPT ![target].mark = TRUE], gem, 1)
    /\ Mark({"inv"})
    /\ UNCHANGED <<bank, worn, saved>>

-----------------------------------------------------------------------------
(* The bank.                                                               *)

\* Faulty variant: the source of a pour is cleared, whatever did not fit.
FaultyTransfer(from, i, to, j) ==
    IF from[i].itemId = to[j].itemId
    THEN [from |-> [from EXCEPT ![i] = EmptyStack],
          to   |-> [to EXCEPT ![j].stackCount = @ + Smaller(StackLimit[from[i].itemId] - @,
                                                            from[i].stackCount)]]
    ELSE [from |-> [from EXCEPT ![i] = Plain(to[j])],
          to   |-> [to EXCEPT ![j] = Plain(from[i])]]

\* Slot i of one container goes to slot j of the other: it pours what fits on
\* a stack of the same item, and otherwise changes places, with an empty slot
\* as well.  Only what both kinds of slot have a field for comes along.
Transfer(from, i, to, j) ==
    IF from[i].itemId = to[j].itemId
    THEN LET k == Smaller(StackLimit[to[j].itemId] - to[j].stackCount, from[i].stackCount)
         IN  [from |-> RemoveItem(from, i, k),
              to   |-> [to EXCEPT ![j].stackCount = @ + k]]
    ELSE [from |-> [from EXCEPT ![i] = Plain(to[j])],
          to   |-> [to EXCEPT ![j] = Plain(from[i])]]

\* Faulty variant: a stack that grew in the other container is forgotten.
FaultyTransferMarks(to, j) == IF IsEmpty(to[j]) THEN {"inv", "bank"} ELSE {"inv"}

\* setItem marks both containers, and so does the handler when it pours.
TransferMarks(to, j) == {"inv", "bank"}

\* handleMoveInventoryToBank: a slot chosen for the player is an empty one.
Deposit(s, t) ==
    /\ ~ IsEmpty(inv[s])
    /\ inv' = Transfer(inv, s, bank, t).from
    /\ bank' = Transfer(inv, s, bank, t).to
    /\ <<inv, bank>>' # <<inv, bank>>
    /\ Mark(TransferMarks(bank, t))
    /\ UNCHANGED <<worn, saved>>

\* handleUnBankItem.
Withdraw(t, s) ==
    /\ ~ IsEmpty(bank[t])
    /\ inv' = Transfer(bank, t, inv, s).to
    /\ bank' = Transfer(bank, t, inv, s).from
    /\ <<inv, bank>>' # <<inv, bank>>
    /\ Mark(TransferMarks(inv, s))
    /\ UNCHANGED <<worn, saved>>

\* handleMoveBankToBank.
MoveInBank(from, to) ==
    /\ from # to
    /\ B!CanMove(bank, from)
    /\ bank' = B!MoveItem(bank, from, to)
    /\ Mark({"bank"})
    /\ UNCHANGED <<inv, worn, saved>>

\* Stacks of n of item x, all full but the last.
Stacks(x, n) ==
    [i \in 1 .. (n + StackLimit[x] - 1) \div StackLimit[x] |->
        [itemId     |-> x,
         stackCount |-> Smaller(StackLimit[x], n - (i - 1) * StackLimit[x]),
         mark       |-> FALSE]]

\* PlayerBank::sort: ascending ids, and every item in as few stacks as it needs.
BankSorted ==
    LET stacks == FoldLeft(LAMBDA before, x : before \o Stacks(x, B!CountItem(bank, x)),
                           << >>, Ascending(Item))
    IN  [s \in B!Slot |-> IF s < Len(stacks) THEN stacks[s + 1] ELSE EmptyStack]

\* handleSortBank.
SortBank ==
    /\ bank' = BankSorted
    /\ Mark({"bank"})
    /\ UNCHANGED <<inv, worn, saved>>

-----------------------------------------------------------------------------
(* Worn equipment.                                                         *)

OfPiece(piece) ==
    IF piece = NotWorn THEN EmptyStack
    ELSE [itemId |-> piece.itemId, stackCount |-> 1, mark |-> FALSE]

\* handleEquipItem: the piece worn before takes the slot of the new one, which
\* is as good as new.
Equip(s, e) ==
    /\ ~ IsEmpty(inv[s])
    /\ e \in FitsIn[inv[s].itemId]
    /\ worn' = [worn EXCEPT ![e] = [itemId |-> inv[s].itemId, durability |-> MaxDurability]]
    /\ inv' = [inv EXCEPT ![s] = OfPiece(worn[e])]
    /\ Mark({"inv", "worn"})
    /\ UNCHANGED <<bank, saved>>

\* handleUnequipItem: to the first empty slot.
Unequip(e) ==
    /\ worn[e] # NotWorn
    /\ EmptySlots(inv) # {}
    /\ worn' = [worn EXCEPT ![e] = NotWorn]
    /\ inv' = [inv EXCEPT ![Min(EmptySlots(inv))] = OfPiece(worn[e])]
    /\ Mark({"inv", "worn"})
    /\ UNCHANGED <<bank, saved>>

\* reduceDurabilityOnDeath.
Die ==
    /\ \E e \in EquipSlot : worn[e].durability > 0
    /\ worn' = [e \in EquipSlot |->
                  IF worn[e].durability > 0 THEN [worn[e] EXCEPT !.durability = @ - 1]
                  ELSE worn[e]]
    /\ Mark({"worn"})
    /\ UNCHANGED <<inv, bank, saved>>

\* repairAll, of handleRepair.
RepairAll ==
    /\ \E e \in EquipSlot : worn[e] # NotWorn /\ worn[e].durability < MaxDurability
    /\ worn' = [e \in EquipSlot |->
                  IF worn[e] = NotWorn THEN NotWorn
                  ELSE [worn[e] EXCEPT !.durability = MaxDurability]]
    /\ Mark({"worn"})
    /\ UNCHANGED <<inv, bank, saved>>

-----------------------------------------------------------------------------
(* The database.                                                           *)

\* Player::save, in one transaction: now and then after a handler called
\* markDirty, and always when the player leaves.
Save ==
    /\ saved' = [inv  |-> IF "inv" \in dirty THEN Rows(inv) ELSE saved.inv,
                 bank |-> IF "bank" \in dirty THEN bank ELSE saved.bank,
                 worn |-> IF "worn" \in dirty THEN worn ELSE saved.worn]
    /\ dirty' = {}
    /\ UNCHANGED memory

\* The character enters the world, after it left or after a crash.
Load ==
    /\ inv' = saved.inv
    /\ bank' = saved.bank
    /\ worn' = saved.worn
    /\ dirty' = {}
    /\ UNCHANGED saved

\* Steps that only rearrange.
Rearrange ==
    \/ \E s, t \in Slot : Move(s, t)
    \/ \E s, t \in Slot, n \in 1 .. MaxBatch : Split(s, t, n)
    \/ Sort
    \/ \E s \in Slot, t \in B!Slot : Deposit(s, t) \/ Withdraw(t, s)
    \/ \E s, t \in B!Slot : MoveInBank(s, t)
    \/ SortBank
    \/ \E s \in Slot, e \in EquipSlot : Equip(s, e)
    \/ \E e \in EquipSlot : Unequip(e)
    \/ Die
    \/ RepairAll

Next ==
    \/ \E x \in Item, n \in 1 .. MaxBatch : Gain(x, n)
    \/ \E s \in Slot, n \in 1 .. MaxBatch : Lose(s, n)
    \/ \E s, t \in Slot : Socket(s, t)
    \/ Rearrange
    \/ Save
    \/ Load

Spec == Init /\ [][Next]_vars

-----------------------------------------------------------------------------

\* A container that is not marked is in the database as it is in memory, but
\* for its gems: a save that skips it skips nothing, so what is saved is one
\* state of all three and neither a save nor a crash duplicates anything.
CleanIsSaved ==
    /\ TypeOK
    /\ "inv" \notin dirty => Rows(inv) = saved.inv
    /\ "bank" \notin dirty => bank = saved.bank
    /\ "worn" \notin dirty => worn = saved.worn

\* However an item wanders between inventory, bank and body, in full stacks or
\* in part, over empty slots or in exchange, none appears and none is lost.
RearrangingConserves ==
    [][(\E x \in Item : Owned(x)' # Owned(x)) => ~ Rearrange]_vars

\* addItem adds exactly what it was asked to, or fills every place the item
\* could go; it touches no other item.
AddTakesAllThatFits ==
    [][\A x \in Item, n \in 1 .. MaxBatch :
         Gain(x, n) =>
           /\ \A y \in Item \ {x} : CountItem(inv', y) = CountItem(inv, y)
           /\ \/ CountItem(inv', x) = CountItem(inv, x) + n
              \/ /\ CountItem(inv', x) \in CountItem(inv, x) .. CountItem(inv, x) + n
                 /\ EmptySlots(inv') = {}
                 /\ \A s \in StacksOf(inv', x) : inv'[s].stackCount = StackLimit[x]]_vars

\* Slots 0 .. last in order: no gap, ascending ids, and at most one stack of
\* each item that is not full.
InOrder(slots, last) ==
    /\ \A s, t \in 0 .. last : s < t /\ ~ IsEmpty(slots[t]) =>
         ~ IsEmpty(slots[s]) /\ slots[s].itemId <= slots[t].itemId
    /\ \A x \in Item :
         Cardinality({s \in 0 .. last : slots[s].itemId = x /\ slots[s].stackCount < StackLimit[x]})
           <= 1

\* Sorting leaves an inventory or a bank in order.
SortLeavesOrder ==
    [][/\ InOrder(inv', MAX_SLOTS - 1) \/ ~ Sort
       /\ InOrder(bank', BANK_SLOTS - 1) \/ ~ SortBank]_vars
=============================================================================
