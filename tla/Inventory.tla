----------------------------- MODULE Inventory ------------------------------
(***************************************************************************)
(* The slot arrays behind PlayerInventory, as operators: where an added    *)
(* item goes, and how stacks are removed, moved, split and sorted.  An     *)
(* array is a function from slots to stacks.  A stack is marked when it is *)
(* not like a fresh one: in this array, when gems are socketed in it.      *)
(***************************************************************************)
EXTENDS Integers, FiniteSets, Sequences, SequencesExt

CONSTANTS
    MAX_SLOTS,      \* slots of an inventory
    Item,           \* item template ids
    StackLimit      \* stackCount of each item's template

ASSUME SlotsAssumption == MAX_SLOTS \in Nat \ {0}
ASSUME ItemAssumption ==
    /\ Item \subseteq Nat \ {0}
    /\ StackLimit \in [Item -> Nat \ {0}]

INVALID_SLOT == -1

Slot == 0 .. MAX_SLOTS - 1

EmptyStack == [itemId |-> 0, stackCount |-> 0, mark |-> FALSE]

\* Every state of a slot that loading and the operations below can leave.
Stack ==
    {EmptyStack} \cup
    UNION {[itemId : {x}, stackCount : 1 .. StackLimit[x], mark : BOOLEAN] : x \in Item}

IsEmpty(stack) == stack.itemId = 0

EmptySlots(inv) == {s \in Slot : IsEmpty(inv[s])}

StacksOf(inv, x) == {s \in Slot : inv[s].itemId = x}

\* countItem.
CountItem(inv, x) ==
    SumFunctionOnSet([s \in Slot |-> inv[s].stackCount], StacksOf(inv, x))

Smaller(a, b) == IF a <= b THEN a ELSE b

\* A finite set of numbers as a sequence.
Ascending(S) ==
    CHOOSE f \in [1 .. Cardinality(S) -> S] :
        \A i, j \in 1 .. Cardinality(S) : i < j => f[i] < f[j]

-----------------------------------------------------------------------------
(* addItem: existing stacks are topped up in slot order, then empty slots  *)
(* take what is left.  What fits is added even when not everything does.   *)
(* A call is a record of the array so far, what is left to add, and the    *)
(* slot it opened last.                                                    *)

SlotOrder == [i \in 1 .. MAX_SLOTS |-> i - 1]

\* Faulty variant: topping up a stack uses up nothing of what is added.
FaultyTopUp(call, s, x) ==
    IF call.inv[s].itemId # x THEN call
    ELSE [call EXCEPT !.inv[s].stackCount = @ + Smaller(StackLimit[x] - @, call.left)]

TopUp(call, s, x) ==
    IF call.inv[s].itemId # x THEN call
    ELSE LET k == Smaller(StackLimit[x] - call.inv[s].stackCount, call.left)
         IN  [call EXCEPT !.inv[s].stackCount = @ + k, !.left = @ - k]

\* Faulty variant: the remainder that opens a stack is not cut to its limit.
FaultyNewStack(left, limit) == left

NewStack(left, limit) == Smaller(left, limit)

OpenStack(call, s, x) ==
    IF ~ IsEmpty(call.inv[s]) \/ call.left = 0 THEN call
    ELSE LET k == NewStack(call.left, StackLimit[x])
         IN  [inv  |-> [call.inv EXCEPT ![s] =
                          [itemId |-> x, stackCount |-> k, mark |-> FALSE]],
              left |-> call.left - k,
              slot |-> s]

Adding(inv, x, n) ==
    FoldLeft(LAMBDA call, s : OpenStack(call, s, x),
             FoldLeft(LAMBDA call, s : TopUp(call, s, x),
                      [inv |-> inv, left |-> n, slot |-> INVALID_SLOT], SlotOrder),
             SlotOrder)

AddItem(inv, x, n) == Adding(inv, x, n).inv

\* The slot addItem returns: the last one it opened, and none when nothing was
\* opened or something did not fit.
AddedSlot(inv, x, n) ==
    IF Adding(inv, x, n).left > 0 THEN INVALID_SLOT ELSE Adding(inv, x, n).slot

-----------------------------------------------------------------------------
(* Taking out and rearranging.  Each operator is the array after a call    *)
(* that returns true; the Can operators say when it does.                  *)

\* removeItem: n or more takes the whole stack.
RemoveItem(inv, s, n) ==
    [inv EXCEPT ![s] = IF @.stackCount <= n THEN EmptyStack
                       ELSE [@ EXCEPT !.stackCount = inv[s].stackCount - n]]

ClearSlot(inv, s) == [inv EXCEPT ![s] = EmptyStack]

\* n of the stack in "from" join the stack of the same item in "to".
Pour(inv, from, to, n) ==
    [RemoveItem(inv, from, n) EXCEPT ![to].stackCount = @ + n]

Swap(inv, from, to) == [inv EXCEPT ![from] = inv[to], ![to] = inv[from]]

\* How many of "from" fit on top of "to".
Pourable(inv, from, to) ==
    Smaller(StackLimit[inv[to].itemId] - inv[to].stackCount, inv[from].stackCount)

\* moveItem: on the same item it pours what fits, and swaps when nothing does;
\* otherwise it swaps, with an empty slot as well.
MoveItem(inv, from, to) ==
    IF /\ from # to
       /\ inv[from].itemId = inv[to].itemId
       /\ Pourable(inv, from, to) > 0
    THEN Pour(inv, from, to, Pourable(inv, from, to))
    ELSE Swap(inv, from, to)

CanMove(inv, from) == ~ IsEmpty(inv[from])

CanSplit(inv, from, to, n) ==
    /\ from # to
    /\ ~ IsEmpty(inv[from])
    /\ 0 < n /\ n < inv[from].stackCount
    /\ \/ IsEmpty(inv[to])
       \/ /\ inv[to].itemId = inv[from].itemId
          /\ inv[to].stackCount + n <= StackLimit[inv[from].itemId]

\* splitStack: the gems stay with the old stack.
SplitStack(inv, from, to, n) ==
    IF IsEmpty(inv[to])
    THEN [inv EXCEPT ![to] = [itemId |-> inv[from].itemId, stackCount |-> n,
                              mark |-> FALSE],
                     ![from].stackCount = @ - n]
    ELSE Pour(inv, from, to, n)

-----------------------------------------------------------------------------
(* sort.                                                                   *)

\* One visit of the consolidating loop: slot i draws from a later slot j.
MergeFrom(inv, i, j) ==
    IF ~ IsEmpty(inv[i]) /\ inv[j].itemId = inv[i].itemId
    THEN IF Pourable(inv, j, i) > 0 THEN Pour(inv, j, i, Pourable(inv, j, i)) ELSE inv
    ELSE inv

\* Faulty variant: stacks are packed and never merged.
FaultyConsolidate(inv) == inv

\* Every slot in turn draws from all the slots after it.
DrawInto(inv, i) ==
    FoldLeft(LAMBDA v, j : IF i < j THEN MergeFrom(v, i, j) ELSE v, inv, SlotOrder)

Consolidate(inv) == FoldLeft(LAMBDA v, i : DrawInto(v, i), inv, SlotOrder)

\* The stacks are packed from slot 0 in the order of their item ids; std::sort
\* may leave the stacks of one item in any order.
Sorted(inv) ==
    LET v == Consolidate(inv)
        used == Slot \ EmptySlots(v)
        n == Cardinality(used)
        orders == {o \in Bijection(0 .. n - 1, used) :
                     \A a, b \in 0 .. n - 1 : a < b => v[o[a]].itemId <= v[o[b]].itemId}
    IN  {[s \in Slot |-> IF s < n THEN v[o[s]] ELSE EmptyStack] : o \in orders}
=============================================================================
