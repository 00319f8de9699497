-------------------------- MODULE Belongings_proof ---------------------------
(***************************************************************************)
(* Proofs about Belongings, for any number of slots, any items, and any    *)
(* equipment.                                                              *)
(*                                                                         *)
(* A deposit, withdrawal, equipping and unequipping change one slot of     *)
(* each side.  The sort of the bank is a fold over the items that lists    *)
(* full stacks and one last stack of each: it conserves because it counts  *)
(* before it lists, and it fits because a fold step opens at most as many  *)
(* slots as its item had.  What is saved follows from the marks: whatever  *)
(* changes a container sets its mark, and only a save clears it.           *)
(***************************************************************************)
EXTENDS Belongings, Inventory_proof, SequenceTheorems

\* What Inventory_proof says, of as many slots as the bank has.
BP == INSTANCE Inventory_proof WITH MAX_SLOTS <- BANK_SLOTS

\* What a bank holds.
Box == [B!Slot -> Stack]

-----------------------------------------------------------------------------
(* The bank's slots are an inventory's, of another number.                 *)

\* The slots and stacks of the two instances are the same sets.
LEMMA SameSlots ==
    /\ B!Slot = BP!Slot
    /\ Box = BP!Slots
  BY DEF B!Slot, BP!Slot, BP!Slots, Box, Stack, BP!Stack, EmptyStack, BP!EmptyStack

\* So are their counts.
LEMMA SameCounts ==
    ASSUME NEW v, NEW x
    PROVE  /\ B!CountItem(v, x) = BP!CountItem(v, x)
           /\ \A st : BP!Holds(st, x) = Holds(st, x)
  <1>1. B!CountItem(v, x) = BP!CountItem(v, x)
    BY DEF B!CountItem, BP!CountItem, B!StacksOf, BP!StacksOf, B!Slot, BP!Slot,
           B!SumFunctionOnSet, BP!SumFunctionOnSet, B!FoldFunctionOnSet, BP!FoldFunctionOnSet,
           B!MapThenFoldSet, BP!MapThenFoldSet
  <1>2. \A st : BP!Holds(st, x) = Holds(st, x)
    BY DEF BP!Holds, Holds
  <1> QED
    BY <1>1, <1>2

\* So is what moving makes of the slots.
LEMMA SameMove ==
    ASSUME NEW v, NEW s, NEW t
    PROVE  /\ B!MoveItem(v, s, t) = BP!MoveItem(v, s, t)
           /\ B!CanMove(v, s) <=> BP!CanMove(v, s)
  BY DEF B!MoveItem, BP!MoveItem, B!Pourable, BP!Pourable, B!Pour, BP!Pour, B!RemoveItem,
         BP!RemoveItem, B!Swap, BP!Swap, B!Smaller, BP!Smaller, B!EmptyStack, BP!EmptyStack,
         B!CanMove, BP!CanMove, B!IsEmpty, BP!IsEmpty

\* What Inventory_proof says of moving and of putting something into a slot.
LEMMA MoveInBankIs ==
    ASSUME NEW v \in Box, NEW s \in B!Slot, NEW t \in B!Slot, B!CanMove(v, s)
    PROVE  /\ B!MoveItem(v, s, t) \in Box
           /\ \A y : B!CountItem(B!MoveItem(v, s, t), y) = B!CountItem(v, y)
  <1>1. v \in BP!Slots /\ s \in BP!Slot /\ t \in BP!Slot /\ BP!CanMove(v, s)
    BY SameSlots, SameMove
  <1>2. /\ BP!MoveItem(v, s, t) \in BP!Slots
        /\ \A y : BP!CountItem(BP!MoveItem(v, s, t), y) = BP!CountItem(v, y)
    BY <1>1, BP!MoveIs, SizesAssumption, ItemAssumption
  <1> QED
    BY <1>2, SameSlots, SameMove, SameCounts

\* Putting something into one slot changes the count by what it held and holds.
LEMMA BankPut ==
    ASSUME NEW v \in Box, NEW w \in Box, NEW x, NEW s \in B!Slot,
           \A t \in B!Slot \ {s} : w[t] = v[t]
    PROVE  /\ B!CountItem(v, x) \in Nat /\ B!CountItem(w, x) \in Nat
           /\ B!CountItem(w, x) + Holds(v[s], x) = B!CountItem(v, x) + Holds(w[s], x)
  <1>1. /\ v \in BP!Slots /\ w \in BP!Slots /\ s \in BP!Slot
        /\ \A t \in BP!Slot \ {s} : w[t] = v[t]
    BY SameSlots
  <1>2. /\ BP!CountItem(v, x) \in Nat /\ BP!CountItem(w, x) \in Nat
        /\ BP!CountItem(w, x) + BP!Holds(v[s], x) = BP!CountItem(v, x) + BP!Holds(w[s], x)
    BY <1>1, BP!CountPut, SizesAssumption, ItemAssumption
  <1> QED
    BY <1>2, SameCounts

\* Counting a bank gives a number.
LEMMA BankCountIsNat ==
    ASSUME NEW v \in Box, NEW x
    PROVE  B!CountItem(v, x) \in Nat
  BY SameSlots, SameCounts, BP!CountIsNat, SizesAssumption, ItemAssumption

-----------------------------------------------------------------------------
(* Stacks that change their container.                                     *)

\* Whatever a stack is, one with the mark cleared is a stack of as many.
LEMMA Unmarked ==
    ASSUME NEW st, NEW a, NEW b, NEW c, st = [itemId |-> a, stackCount |-> b, mark |-> c]
    PROVE  Plain(st) = [itemId |-> a, stackCount |-> b, mark |-> FALSE]
  <1>1. \A f : [st EXCEPT !.mark = f] = [itemId |-> a, stackCount |-> b, mark |-> f]
    BY SMT
  <1> QED
    BY <1>1, Zenon DEF Plain

\* A stack that loses its gems on the way stays as large.
LEMMA PlainIs ==
    ASSUME NEW st \in Stack
    PROVE  /\ Plain(st) \in Stack
           /\ Plain(Plain(st)) = Plain(st)
           /\ \A x : Holds(Plain(st), x) = Holds(st, x)
           /\ IsEmpty(Plain(st)) <=> IsEmpty(st)
  <1>1. CASE IsEmpty(st)
    <2>1. st = EmptyStack
      BY <1>1, StackIs
    <2>2. Plain(st) = EmptyStack
      BY <2>1, Unmarked DEF EmptyStack
    <2> QED
      BY <2>1, <2>2
  <1>2. CASE ~ IsEmpty(st)
    <2>1. /\ st \in [itemId : Item, stackCount : Nat, mark : BOOLEAN]
          /\ st.stackCount \in 1 .. StackLimit[st.itemId]
      BY <1>2, StackIs
    <2>2. Plain(st) = [itemId |-> st.itemId, stackCount |-> st.stackCount, mark |-> FALSE]
      <3>1. st = [itemId |-> st.itemId, stackCount |-> st.stackCount, mark |-> st.mark]
        BY <2>1
      <3> QED
        BY <3>1, Unmarked
    <2>3. Plain(st) \in Stack
      BY <2>1, <2>2, StackIs
    <2>4. Plain(Plain(st)) = Plain(st)
      BY <2>2, Unmarked
    <2> QED
      BY <2>2, <2>3, <2>4 DEF Holds, IsEmpty
  <1> QED
    BY <1>1, <1>2

\* One slot changes on each side, and what one has more the other has less.
Exchanged(S, T, from, i, to, j, r) ==
    /\ r.from \in [S -> Stack] /\ r.to \in [T -> Stack]
    /\ \A s \in S \ {i} : r.from[s] = from[s]
    /\ \A t \in T \ {j} : r.to[t] = to[t]
    /\ \A x : Holds(r.from[i], x) + Holds(r.to[j], x) = Holds(from[i], x) + Holds(to[j], x)

\* A deposit or withdrawal, from any side to the other: the result is well formed,
\* and no item is gained or lost (PlayerBank::depositItem, withdrawItem).
LEMMA TransferIs ==
    ASSUME NEW S, NEW T, NEW from \in [S -> Stack], NEW to \in [T -> Stack],
           NEW i \in S, NEW j \in T, ~ IsEmpty(from[i])
    PROVE  Exchanged(S, T, from, i, to, j, Transfer(from, i, to, j))
  <1> DEFINE r == Transfer(from, i, to, j)
             a == from[i]
             b == to[j]
             k == Smaller(StackLimit[b.itemId] - b.stackCount, a.stackCount)
             more == [itemId |-> b.itemId, stackCount |-> b.stackCount + k, mark |-> b.mark]
             less == [itemId |-> a.itemId, stackCount |-> a.stackCount - k, mark |-> a.mark]
  <1>1. /\ a \in Stack /\ b \in Stack
        /\ a \in [itemId : Item, stackCount : Nat, mark : BOOLEAN]
        /\ a.stackCount \in 1 .. StackLimit[a.itemId]
    BY StackIs
  <1>2. CASE a.itemId = b.itemId
    <2>1. ~ IsEmpty(b)
      BY <1>2 DEF IsEmpty
    <2>2. /\ b \in [itemId : Item, stackCount : Nat, mark : BOOLEAN]
          /\ b.stackCount \in 1 .. StackLimit[b.itemId]
          /\ StackLimit[b.itemId] \in Nat
      BY <1>1, <2>1, StackIs
    <2>3. k \in Nat /\ k <= a.stackCount /\ b.stackCount + k \in 1 .. StackLimit[b.itemId]
      BY <1>1, <2>2 DEF Smaller
    <2>4. r.to = [to EXCEPT ![j] = more]
      <3>1. r.to = [to EXCEPT ![j].stackCount = @ + k]
        BY <1>2 DEF Transfer
      <3>2. [to[j] EXCEPT !.stackCount = @ + k] = more
        BY <2>2
      <3> HIDE DEF k, more
      <3> QED
        BY <3>1, <3>2
    <2>5. r.from = [from EXCEPT ![i] = IF a.stackCount <= k THEN EmptyStack ELSE less]
      <3>1. r.from = RemoveItem(from, i, k)
        BY <1>2 DEF Transfer
      <3>2. [from[i] EXCEPT !.stackCount = from[i].stackCount - k] = less
        BY <1>1
      <3> HIDE DEF k, less
      <3> QED
        BY <3>1, <3>2 DEF RemoveItem
    <2> HIDE DEF k
    <2>6. more \in Stack
      BY <2>2, <2>3, StackIs
    <2>7. a.stackCount > k => less \in Stack
      <3>1. a.stackCount > k => a.stackCount - k \in Nat /\ a.stackCount - k \in 1 .. StackLimit[a.itemId]
        BY <1>1, <1>2, <2>2, <2>3
      <3> QED
        BY <1>1, <3>1, StackIs
    <2>8. EmptyStack \in Stack
      BY StackIs
    <2> HIDE DEF more, less
    <2>9. /\ r.from \in [S -> Stack] /\ r.to \in [T -> Stack]
          /\ \A s \in S \ {i} : r.from[s] = from[s]
          /\ \A t \in T \ {j} : r.to[t] = to[t]
          /\ r.to[j] = more
          /\ r.from[i] = IF a.stackCount <= k THEN EmptyStack ELSE less
      BY <1>1, <2>3, <2>4, <2>5, <2>6, <2>7, <2>8
    <2>10. ASSUME NEW x
           PROVE  Holds(r.from[i], x) + Holds(r.to[j], x) = Holds(a, x) + Holds(b, x)
      <3>1. Holds(r.to[j], x) = IF b.itemId = x THEN b.stackCount + k ELSE 0
        BY <2>9 DEF Holds, more
      <3>2. Holds(r.from[i], x) = IF a.itemId = x THEN a.stackCount - k ELSE 0
        <4>1. CASE a.stackCount <= k
          <5>1. a.stackCount - k = 0
            BY <1>1, <2>3, <4>1
          <5>2. Holds(r.from[i], x) = 0
            BY <2>9, <4>1 DEF Holds, EmptyStack
          <5> QED
            BY <5>1, <5>2
        <4>2. CASE ~ a.stackCount <= k
          BY <2>9, <4>2 DEF Holds, less
        <4> QED
          BY <4>1, <4>2
      <3>3. /\ Holds(a, x) = IF a.itemId = x THEN a.stackCount ELSE 0
            /\ Holds(b, x) = IF b.itemId = x THEN b.stackCount ELSE 0
        BY DEF Holds
      <3> HIDE DEF a, b
      <3> QED
        BY <1>1, <1>2, <2>2, <2>3, <3>1, <3>2, <3>3
    <2> QED
      BY <2>9, <2>10 DEF r, Exchanged
  <1>3. CASE a.itemId # b.itemId
    <2>1. r.from = [from EXCEPT ![i] = Plain(b)] /\ r.to = [to EXCEPT ![j] = Plain(a)]
      BY <1>3 DEF Transfer
    <2>2. /\ Plain(a) \in Stack /\ Plain(b) \in Stack
          /\ \A x : Holds(Plain(a), x) = Holds(a, x) /\ Holds(Plain(b), x) = Holds(b, x)
      BY <1>1, PlainIs
    <2>3. /\ r.from \in [S -> Stack] /\ r.to \in [T -> Stack]
          /\ \A s \in S \ {i} : r.from[s] = from[s]
          /\ \A t \in T \ {j} : r.to[t] = to[t]
          /\ r.to[j] = Plain(a) /\ r.from[i] = Plain(b)
      BY <2>1, <2>2
    <2>4. ASSUME NEW x
          PROVE  Holds(r.from[i], x) + Holds(r.to[j], x) = Holds(a, x) + Holds(b, x)
      <3>1. Holds(r.from[i], x) = Holds(b, x) /\ Holds(r.to[j], x) = Holds(a, x)
        BY <2>2, <2>3
      <3>2. Holds(a, x) \in Nat /\ Holds(b, x) \in Nat
        BY <1>1, StackCounts
      <3> QED
        BY <3>1, <3>2
    <2> QED
      BY <2>3, <2>4 DEF r, Exchanged
  <1> QED
    BY <1>2, <1>3


-----------------------------------------------------------------------------
(* PlayerBank::sort.                                                       *)

\* The bank's slots are as many as BANK_SLOTS.
LEMMA BankSlots ==
    /\ IsFiniteSet(B!Slot) /\ Cardinality(B!Slot) = BANK_SLOTS
    /\ BANK_SLOTS \in Nat
    /\ \A p : p \in B!Slot <=> p \in Nat /\ p < BANK_SLOTS
  <1>1. 0 \in Int /\ BANK_SLOTS - 1 \in Int /\ BANK_SLOTS \in Nat /\ BANK_SLOTS > 0
    BY SizesAssumption
  <1>2. IsFiniteSet(0 .. BANK_SLOTS - 1)
    BY <1>1, FS_Interval
  <1>3. Cardinality(0 .. BANK_SLOTS - 1) = IF 0 > BANK_SLOTS - 1 THEN 0 ELSE BANK_SLOTS - 1 - 0 + 1
    BY <1>1, FS_Interval
  <1> QED
    BY <1>1, <1>2, <1>3 DEF B!Slot

\* Quotient and remainder.
LEMMA DivisionIs ==
    ASSUME NEW a \in Nat, NEW l \in Nat \ {0}
    PROVE  /\ a \div l \in Nat
           /\ l * (a \div l) <= a /\ a < l * (a \div l) + l
  OBVIOUS

\* A larger number has no smaller multiple.
LEMMA TimesKeeps ==
    ASSUME NEW l \in Nat, NEW a \in Nat, NEW b \in Nat, a <= b
    PROVE  l * a <= l * b
  <1>1. b - a \in Nat /\ b = a + (b - a)
    OBVIOUS
  <1>2. l * b = l * a + l * (b - a)
    BY <1>1
  <1>3. l * (b - a) \in Nat /\ l * a \in Nat
    BY <1>1
  <1> QED
    BY <1>2, <1>3

\* How many stacks n of an item need.
LEMMA PartsIs ==
    ASSUME NEW n \in Nat, NEW l \in Nat \ {0}
    PROVE  LET m == (n + l - 1) \div l
           IN  /\ m \in Nat
               /\ n <= l * m
               /\ \A i \in 1 .. m : l * (i - 1) < n
               /\ \A i \in 1 .. m : i < m => l * i <= n
               /\ \A u \in Nat : n <= l * u => m <= u
  <1> DEFINE a == n + l - 1
             m == a \div l
  <1>1. a \in Nat
    OBVIOUS
  <1> HIDE DEF a
  <1>2. m \in Nat /\ l * m <= a /\ a < l * m + l
    BY <1>1, DivisionIs
  <1> HIDE DEF m
  <1>3. l * m \in Nat
    BY <1>2
  <1> DEFINE p == l * m
  <1>4. p \in Nat /\ p <= a /\ a < p + l
    BY <1>2, <1>3
  <1> HIDE DEF p
  <1>5. n <= p /\ p - l < n
    BY <1>4 DEF a
  <1>6. l * (m - 1) = p - l
    BY <1>2 DEF p
  <1>7. ASSUME NEW i \in 1 .. m  PROVE l * (i - 1) < n
    <2>1. i - 1 \in Nat /\ m - 1 \in Nat /\ i - 1 <= m - 1
      BY <1>2
    <2>2. l * (i - 1) <= l * (m - 1) /\ l * (i - 1) \in Nat
      BY <2>1, TimesKeeps
    <2> DEFINE q == l * (i - 1)
    <2>3. q <= p - l /\ q \in Nat
      BY <1>6, <2>2
    <2> HIDE DEF q
    <2>4. q < n
      BY <1>4, <1>5, <2>3
    <2> QED
      BY <2>4 DEF q
  <1>8. ASSUME NEW i \in 1 .. m, i < m  PROVE l * i <= n
    <2>1. i + 1 \in 1 .. m /\ (i + 1) - 1 = i
      BY <1>2, <1>8
    <2>2. l * ((i + 1) - 1) < n
      BY <1>7, <2>1
    <2>3. l * i \in Nat
      BY <2>1
    <2> DEFINE q == l * i
    <2>4. q < n /\ q \in Nat
      BY <2>1, <2>2, <2>3
    <2> HIDE DEF q
    <2>5. q <= n
      BY <2>4
    <2> QED
      BY <2>5 DEF q
  <1>9. ASSUME NEW u \in Nat, n <= l * u  PROVE m <= u
    <2>1. CASE m <= u
      BY <2>1
    <2>2. CASE ~ m <= u
      <3>1. u + 1 <= m /\ u + 1 \in Nat
        BY <1>2, <2>2
      <3>2. l * (u + 1) <= l * m
        BY <1>2, <3>1, TimesKeeps
      <3>3. l * (u + 1) = l * u + l /\ l * u \in Nat
        OBVIOUS
      <3> DEFINE q == l * u
      <3>4. q + l <= p /\ q \in Nat /\ n <= q
        BY <1>9, <3>2, <3>3 DEF p
      <3> HIDE DEF q
      <3>5. FALSE
        BY <1>4, <1>5, <3>4
      <3> QED
        BY <3>5
    <2> QED
      BY <2>1, <2>2
  <1>10. n <= l * m
    BY <1>5 DEF p
  <1> QED
    BY <1>2, <1>7, <1>8, <1>9, <1>10 DEF m, a

\* Stacks(x, n): stacks of x, full but for the last, as few as n need.
LEMMA StacksIs ==
    ASSUME NEW x \in Item, NEW n \in Nat
    PROVE  LET st == Stacks(x, n)
               m == Len(st)
               l == StackLimit[x]
           IN  /\ st \in Seq(Stack)
               /\ m \in Nat
               /\ \A i \in 1 .. m : st[i].itemId = x
               /\ \A i \in 1 .. m : i < m => st[i].stackCount = l
               /\ \A i \in 1 .. m : Smaller(l * i, n) = Smaller(l * (i - 1), n) + st[i].stackCount
               /\ n <= l * m
               /\ \A u \in Nat : n <= l * u => m <= u
  <1> DEFINE st == Stacks(x, n)
             l == StackLimit[x]
             m == (n + l - 1) \div l
  <1>1. l \in Nat \ {0} /\ x # 0
    BY StackIs
  <1> HIDE DEF l
  <1>2. /\ m \in Nat
        /\ n <= l * m
        /\ \A i \in 1 .. m : l * (i - 1) < n
        /\ \A i \in 1 .. m : i < m => l * i <= n
        /\ \A u \in Nat : n <= l * u => m <= u
    BY <1>1, PartsIs
  <1>3. st = [i \in 1 .. m |-> [itemId |-> x, stackCount |-> Smaller(l, n - (i - 1) * l), mark |-> FALSE]]
    BY DEF Stacks, l
  <1> HIDE DEF st, m
  <1>4. ASSUME NEW i \in 1 .. m
        PROVE  /\ st[i] \in Stack
               /\ st[i].itemId = x
               /\ i < m => st[i].stackCount = l
               /\ Smaller(l * i, n) = Smaller(l * (i - 1), n) + st[i].stackCount
    <2> DEFINE q == l * (i - 1)
    <2>1. /\ q \in Nat /\ q < n /\ (i - 1) * l = q /\ l * i = q + l
          /\ i < m => q + l <= n
      <3>1. i - 1 \in Nat /\ i \in Nat
        BY <1>2
      <3>2. l * (i - 1) \in Nat /\ (i - 1) * l = l * (i - 1) /\ l * i = l * (i - 1) + l
        BY <1>1, <3>1
      <3>3. l * (i - 1) < n /\ (i < m => l * i <= n)
        BY <1>2
      <3> QED
        BY <3>2, <3>3
    <2> DEFINE c == Smaller(l, n - q)
    <2>2. st[i] = [itemId |-> x, stackCount |-> c, mark |-> FALSE]
      BY <1>3, <2>1
    <2>3. l * i = q + l /\ l * (i - 1) = q
      BY <2>1
    <2> HIDE DEF q
    <2>4. c \in Nat /\ c \in 1 .. l /\ (i < m => c = l) /\ Smaller(q + l, n) = Smaller(q, n) + c
      BY <1>1, <2>1 DEF Smaller
    <2> HIDE DEF c
    <2>5. st[i] \in Stack
      BY <2>2, <2>4, StackIs DEF l
    <2> QED
      BY <2>2, <2>3, <2>4, <2>5
  <1>5. st \in Seq(Stack) /\ Len(st) = m
    <2>1. st \in [1 .. m -> Stack] /\ DOMAIN st = 1 .. m
      <3>1. DOMAIN st = 1 .. m
        BY <1>3
      <3>2. st = [i \in 1 .. m |-> st[i]]
        BY <1>3
      <3> QED
        BY <1>4, <3>1, <3>2
    <2> QED
      BY <1>2, <2>1
  <1>6. n <= l * m
    BY <1>2
  <1> QED
    BY <1>2, <1>4, <1>5, <1>6 DEF st, l

\* The first k stacks of a sequence, in a bank.
Shelf(s, k) == [p \in B!Slot |-> IF p < k THEN s[p + 1] ELSE EmptyStack]

\* The front part of a sequence of stacks, put into slots, is a bank.
LEMMA ShelfIs ==
    ASSUME NEW s \in Seq(Stack), NEW k \in 0 .. Len(s)
    PROVE  Shelf(s, k) \in Box
  <1>1. Len(s) \in Nat /\ \A i \in 1 .. Len(s) : s[i] \in Stack
    OBVIOUS
  <1>2. \A p \in B!Slot : p < k => p + 1 \in 1 .. Len(s)
    BY <1>1, BankSlots
  <1> QED
    BY <1>1, <1>2, StackIs DEF Shelf, Box

\* One more is put onto the shelf.
LEMMA ShelfPut ==
    ASSUME NEW s \in Seq(Stack), NEW k \in 1 .. Len(s), k <= BANK_SLOTS, NEW x
    PROVE  /\ B!CountItem(Shelf(s, k - 1), x) \in Nat
           /\ B!CountItem(Shelf(s, k), x) = B!CountItem(Shelf(s, k - 1), x) + Holds(s[k], x)
  <1> DEFINE v == Shelf(s, k - 1)
             w == Shelf(s, k)
             p == k - 1
  <1>1. Len(s) \in Nat /\ k \in Int /\ s[k] \in Stack
    OBVIOUS
  <1>2. v \in Box /\ w \in Box
    <2>1. k \in 0 .. Len(s) /\ k - 1 \in 0 .. Len(s)
      BY <1>1
    <2> QED
      BY <2>1, ShelfIs
  <1>3. p \in B!Slot /\ p + 1 = k
    BY <1>1, BankSlots
  <1>4. /\ w[p] = s[k] /\ v[p] = EmptyStack
        /\ \A t \in B!Slot \ {p} : w[t] = v[t]
    <2>1. \A t \in B!Slot : t \in Int
      BY BankSlots
    <2>2. p < k /\ ~ (p < k - 1)
      BY <1>1
    <2>3. \A t \in B!Slot \ {p} : t < k <=> t < k - 1
      BY <1>1, <2>1
    <2> HIDE DEF p
    <2> QED
      BY <1>3, <2>2, <2>3 DEF Shelf, p
  <1> HIDE DEF v, w, p
  <1>5. /\ B!CountItem(v, x) \in Nat /\ B!CountItem(w, x) \in Nat
        /\ B!CountItem(w, x) + Holds(v[p], x) = B!CountItem(v, x) + Holds(w[p], x)
    BY <1>2, <1>3, <1>4, BankPut
  <1>6. Holds(EmptyStack, x) = 0 /\ Holds(s[k], x) \in Nat
    BY <1>1, StackCounts DEF Holds, EmptyStack
  <1>7. B!CountItem(w, x) = B!CountItem(v, x) + Holds(s[k], x)
    BY <1>4, <1>5, <1>6
  <1> QED
    BY <1>5, <1>7 DEF v, w

\* All stacks of one more item are put onto the shelf.
LEMMA ShelfMore ==
    ASSUME NEW s \in Seq(Stack), NEW x \in Item, NEW n \in Nat,
           Len(s \o Stacks(x, n)) <= BANK_SLOTS, NEW y
    PROVE  LET t == s \o Stacks(x, n)
           IN  B!CountItem(Shelf(t, Len(t)), y) =
                 B!CountItem(Shelf(s, Len(s)), y) + (IF y = x THEN n ELSE 0)
  <1> DEFINE st == Stacks(x, n)
             t == s \o st
             a == Len(s)
             m == Len(st)
             l == StackLimit[x]
             base == B!CountItem(Shelf(s, a), y)
             put(j) == IF y = x THEN Smaller(l * j, n) ELSE 0
             K == {j \in 0 .. m : B!CountItem(Shelf(t, a + j), y) = base + put(j)}
             g == Max(K)
  <1>1. /\ st \in Seq(Stack)
        /\ m \in Nat
        /\ \A i \in 1 .. m : st[i].itemId = x
        /\ \A i \in 1 .. m : Smaller(l * i, n) = Smaller(l * (i - 1), n) + st[i].stackCount
        /\ n <= l * m
    BY StacksIs
  <1>l. l \in Nat
    BY StackIs
  <1> HIDE DEF st, l
  <1>2. /\ t \in Seq(Stack) /\ Len(t) = a + m /\ a \in Nat
        /\ \A i \in 1 .. a : t[i] = s[i]
        /\ \A i \in 1 .. m : t[a + i] = st[i]
    BY <1>1
  <1>3. a + m <= BANK_SLOTS
    BY <1>2 DEF st
  <1> HIDE DEF t
  <1>4. base \in Nat
    <2>1. a \in 0 .. Len(s)
      BY <1>2
    <2>2. Shelf(s, a) \in Box
      BY <2>1, ShelfIs
    <2> HIDE DEF a
    <2> QED
      BY <2>2, BankCountIsNat
  <1>5. Shelf(t, a) = Shelf(s, a)
    <2>1. ASSUME NEW p \in B!Slot, p < a  PROVE t[p + 1] = s[p + 1]
      <3>1. p + 1 \in 1 .. a
        BY <1>2, <2>1, BankSlots
      <3> QED
        BY <1>2, <3>1
    <2> HIDE DEF a
    <2> QED
      BY <2>1 DEF Shelf
  <1> HIDE DEF base, a, m
  <1>6. 0 \in K
    <2>1. l * 0 = 0
      BY <1>l
    <2>2. put(0) = 0
      BY <2>1 DEF Smaller
    <2>3. a + 0 = a /\ 0 \in 0 .. m /\ base + 0 = base
      BY <1>1, <1>2, <1>4
    <2> HIDE DEF put
    <2> QED
      BY <1>5, <2>2, <2>3 DEF base
  <1>7. g \in K /\ \A k \in K : g >= k
    <2>1. K \subseteq 0 .. m
      OBVIOUS
    <2>2. IsFiniteSet(0 .. m)
      BY <1>1, FS_Interval
    <2> HIDE DEF K
    <2>3. IsFiniteSet(K) /\ K \subseteq Int /\ K # {}
      <3>1. IsFiniteSet(K)
        BY <2>1, <2>2, FS_Subset
      <3> QED
        BY <1>6, <2>1, <3>1
    <2> QED
      BY <2>3, GreatestOne
  <1>8. g \in 0 .. m /\ B!CountItem(Shelf(t, a + g), y) = base + put(g)
    <2> HIDE DEF g, put
    <2> QED
      BY <1>7
  <1> HIDE DEF g
  <1>9. CASE g = m
    <2>1. put(m) = IF y = x THEN n ELSE 0
      <3>1. Smaller(l * m, n) = n
        <4>1. l * m \in Nat
          BY <1>1, <1>l
        <4> DEFINE q == l * m
        <4>2. q \in Nat /\ n <= q
          BY <1>1, <4>1
        <4> HIDE DEF q
        <4>3. Smaller(q, n) = n
          BY <4>2 DEF Smaller
        <4> QED
          BY <4>3 DEF q
      <3> QED
        BY <3>1
    <2> HIDE DEF put
    <2>2. B!CountItem(Shelf(t, Len(t)), y) = base + (IF y = x THEN n ELSE 0)
      BY <1>2, <1>8, <1>9, <2>1
    <2> QED
      BY <2>2 DEF t, base, a, st
  <1>10. CASE g # m
    <2> DEFINE i == g + 1
               k == a + i
    <2>1. i \in 1 .. m /\ i \in 0 .. m /\ i - 1 = g
      BY <1>1, <1>8, <1>10
    <2>2. k \in 1 .. Len(t) /\ k <= BANK_SLOTS /\ k - 1 = a + g /\ t[k] = st[i]
      <3>1. t[a + i] = st[i]
        BY <1>2, <2>1
      <3>2. a + i \in 1 .. Len(t)
        BY <1>1, <1>2, <2>1
      <3>3. a + i <= BANK_SLOTS
        BY <1>1, <1>2, <1>3, <2>1, BankSlots
      <3>4. (a + i) - 1 = a + g
        BY <1>2, <1>8
      <3> QED
        BY <3>1, <3>2, <3>3, <3>4
    <2> HIDE DEF k, i
    <2>3. /\ B!CountItem(Shelf(t, k - 1), y) \in Nat
          /\ B!CountItem(Shelf(t, k), y) = B!CountItem(Shelf(t, k - 1), y) + Holds(t[k], y)
      BY <1>2, <2>2, ShelfPut
    <2>4. Holds(t[k], y) = IF y = x THEN st[i].stackCount ELSE 0
      BY <1>1, <2>1, <2>2 DEF Holds
    <2>5. put(i) = put(g) + Holds(t[k], y)
      <3>1. Smaller(l * i, n) = Smaller(l * g, n) + st[i].stackCount
        BY <1>1, <2>1
      <3> QED
        BY <2>4, <3>1
    <2>6. put(g) \in Nat /\ put(i) \in Nat
      <3>1. l * g \in Nat /\ l * i \in Nat
        BY <1>l, <1>8, <2>1
      <3> QED
        BY <3>1 DEF Smaller
    <2>7. Holds(t[k], y) \in Nat
      <3>1. t[k] \in Stack
        BY <1>2, <2>2
      <3> QED
        BY <3>1, StackCounts
    <2> HIDE DEF put
    <2>8. B!CountItem(Shelf(t, k), y) = base + put(i)
      BY <1>4, <1>8, <2>2, <2>3, <2>5, <2>6, <2>7
    <2>9. i \in K
      BY <2>1, <2>8 DEF k
    <2>10. ~ (g >= i)
      BY <1>8 DEF i
    <2> HIDE DEF K
    <2> QED
      BY <1>7, <2>9, <2>10
  <1> QED
    BY <1>9, <1>10

\* The bank has no more of an item than the slots with it hold when they are full.
LEMMA BankBound ==
    ASSUME NEW v \in Box, NEW x \in Item
    PROVE  /\ IsFiniteSet(B!StacksOf(v, x)) /\ B!StacksOf(v, x) \subseteq B!Slot
           /\ B!CountItem(v, x) <= StackLimit[x] * Cardinality(B!StacksOf(v, x))
  <1>1. B!StacksOf(v, x) = BP!StacksOf(v, x)
    BY DEF B!StacksOf, BP!StacksOf, B!Slot, BP!Slot
  <1>2. v \in BP!Slots
    BY SameSlots
  <1>3. BP!CountItem(v, x) <= StackLimit[x] * BP!Cardinality(BP!StacksOf(v, x))
    BY <1>2, BP!CountBound, SizesAssumption, ItemAssumption
  <1>4. \A S : BP!Cardinality(S) = Cardinality(S)
    BY DEF BP!Cardinality, Cardinality
  <1>5. B!StacksOf(v, x) \subseteq B!Slot
    BY DEF B!StacksOf
  <1>6. IsFiniteSet(B!StacksOf(v, x))
    BY <1>5, BankSlots, FS_Subset
  <1> QED
    BY <1>1, <1>3, <1>4, <1>5, <1>6, SameCounts

\* Item ids in the order of std::map, and how many there are.
Order == Ascending(Item)
Kinds == Cardinality(Item)

\* Every item is in the order exactly once, behind the smaller ones.
LEMMA OrderIs ==
    /\ Kinds \in Nat
    /\ Order \in [1 .. Kinds -> Item] /\ DOMAIN Order = 1 .. Kinds
    /\ \A i, j \in 1 .. Kinds : i < j => Order[i] < Order[j]
    /\ \A i, j \in 1 .. Kinds : i # j => Order[i] # Order[j]
    /\ \A x \in Item : \E i \in 1 .. Kinds : Order[i] = x
  <1>1. Item \subseteq Int
    BY ItemAssumption
  <1> QED
    BY <1>1, SizesAssumption, AscendingIs DEF Order, Kinds

\* The slots of the bank that hold one of the first k items.
Emptied(k) == {p \in B!Slot : \E j \in 1 .. k : bank[p].itemId = Order[j]}

\* A stack that takes no more.
HasFull(st) == st.stackCount = StackLimit[st.itemId]

\* What has been put away of the first k items, and how.
Shelved(s, k) ==
    /\ s \in Seq(Stack)
    /\ \A i \in 1 .. Len(s) : \E j \in 1 .. k : s[i].itemId = Order[j]
    /\ Len(s) <= Cardinality(Emptied(k))
    /\ \A j \in 1 .. Kinds : B!CountItem(Shelf(s, Len(s)), Order[j]) =
                               IF j <= k THEN B!CountItem(bank, Order[j]) ELSE 0
    /\ \A i, j \in 1 .. Len(s) : i < j =>
         /\ s[i].itemId <= s[j].itemId
         /\ s[i].itemId = s[j].itemId => HasFull(s[i])

\* One iteration of the loop over the items: their stacks follow those put away.
PutAway(s, k) == s \o Stacks(Order[k], B!CountItem(bank, Order[k]))

\* The slots an item occupied are enough for it.
LEMMA EmptiedIs ==
    ASSUME NEW k \in 1 .. Kinds
    PROVE  /\ IsFiniteSet(Emptied(k)) /\ Cardinality(Emptied(k)) <= BANK_SLOTS
           /\ Cardinality(Emptied(k)) =
                Cardinality(Emptied(k - 1)) + Cardinality(B!StacksOf(bank, Order[k]))
           /\ Cardinality(Emptied(k - 1)) \in Nat
           /\ Cardinality(B!StacksOf(bank, Order[k])) \in Nat
  <1> DEFINE E == Emptied(k - 1)
             S == B!StacksOf(bank, Order[k])
             F == Emptied(k)
  <1>1. E \subseteq B!Slot /\ S \subseteq B!Slot /\ F \subseteq B!Slot
    BY DEF Emptied, B!StacksOf
  <1>2. F = E \cup S
    <2>1. k \in 1 .. k /\ \A j \in 1 .. k - 1 : j \in 1 .. k
      BY OrderIs
    <2>2. \A j \in 1 .. k : j = k \/ j \in 1 .. k - 1
      BY OrderIs
    <2> QED
      BY <2>1, <2>2 DEF Emptied, B!StacksOf
  <1>3. E \cap S = {}
    <2>1. \A j \in 1 .. k - 1 : j \in 1 .. Kinds /\ j # k
      BY OrderIs
    <2>2. \A j \in 1 .. k - 1 : Order[j] # Order[k]
      BY <2>1, OrderIs
    <2> QED
      BY <2>2 DEF Emptied, B!StacksOf
  <1> HIDE DEF E, S, F
  <1>4. IsFiniteSet(E) /\ IsFiniteSet(S)
    BY <1>1, BankSlots, FS_Subset
  <1>5. /\ Cardinality(E) \in Nat /\ Cardinality(S) \in Nat
        /\ Cardinality(F) = Cardinality(E) + Cardinality(S)
    BY <1>2, <1>3, <1>4, DisjointUnion
  <1>6. IsFiniteSet(F) /\ Cardinality(F) <= Cardinality(B!Slot)
    BY <1>1, BankSlots, FS_Subset
  <1> QED
    BY <1>5, <1>6, BankSlots DEF E, S, F

\* An iteration keeps what has been put away in order, and in as many slots.
LEMMA ShelvedStep ==
    ASSUME bank \in Box, NEW k \in 1 .. Kinds, NEW s, Shelved(s, k - 1)
    PROVE  Shelved(PutAway(s, k), k)
  <1> DEFINE x == Order[k]
             n == B!CountItem(bank, x)
             st == Stacks(x, n)
             t == s \o st
             a == Len(s)
             m == Len(st)
             l == StackLimit[x]
             u == Cardinality(B!StacksOf(bank, x))
  <1>1. x \in Item /\ k \in Nat /\ l \in Nat
    BY OrderIs, StackIs
  <1> HIDE DEF x
  <1>2. n \in Nat /\ n <= l * u /\ u \in Nat
    <2>1. n \in Nat /\ n <= l * u /\ IsFiniteSet(B!StacksOf(bank, x))
      BY <1>1, BankCountIsNat, BankBound
    <2> QED
      BY <2>1, FS_CardinalityType
  <1> HIDE DEF n, u
  <1>3. /\ st \in Seq(Stack)
        /\ m \in Nat
        /\ \A i \in 1 .. m : st[i].itemId = x
        /\ \A i \in 1 .. m : i < m => st[i].stackCount = l
        /\ m <= u
    BY <1>1, <1>2, StacksIs
  <1>4. s \in Seq(Stack)
    BY DEF Shelved
  <1>5. /\ Cardinality(Emptied(k)) <= BANK_SLOTS
        /\ Cardinality(Emptied(k)) = Cardinality(Emptied(k - 1)) + u
        /\ Cardinality(Emptied(k - 1)) \in Nat
    BY EmptiedIs DEF u, x
  <1> HIDE DEF st, l
  <1>6. /\ t \in Seq(Stack) /\ Len(t) = a + m /\ a \in Nat
        /\ \A i \in 1 .. a : t[i] = s[i]
        /\ \A i \in 1 .. m : t[a + i] = st[i]
        /\ \A i \in 1 .. Len(t) : i \in 1 .. a \/ i - a \in 1 .. m
        /\ \A i \in 1 .. Len(t) : i - a \in 1 .. m => t[i] = st[i - a]
    BY <1>3, <1>4
  <1>7. a <= Cardinality(Emptied(k - 1))
    BY DEF Shelved
  <1>8. Len(t) <= Cardinality(Emptied(k)) /\ Len(t) <= BANK_SLOTS
    BY <1>2, <1>3, <1>5, <1>6, <1>7, BankSlots
  <1>9. \A y : B!CountItem(Shelf(t, Len(t)), y) = B!CountItem(Shelf(s, a), y) + (IF y = x THEN n ELSE 0)
    <2> SUFFICES ASSUME NEW y
                 PROVE  B!CountItem(Shelf(t, Len(t)), y) =
                          B!CountItem(Shelf(s, a), y) + (IF y = x THEN n ELSE 0)
      OBVIOUS
    <2>1. Len(s \o Stacks(x, n)) <= BANK_SLOTS
      BY <1>8 DEF st
    <2> QED
      BY <1>1, <1>2, <1>4, <2>1, ShelfMore DEF st
  <1>10. \A j \in 1 .. Kinds : B!CountItem(Shelf(t, Len(t)), Order[j]) =
                                 IF j <= k THEN B!CountItem(bank, Order[j]) ELSE 0
    <2> SUFFICES ASSUME NEW j \in 1 .. Kinds
                 PROVE  B!CountItem(Shelf(t, Len(t)), Order[j]) =
                          IF j <= k THEN B!CountItem(bank, Order[j]) ELSE 0
      OBVIOUS
    <2>1. B!CountItem(Shelf(s, a), Order[j]) = IF j <= k - 1 THEN B!CountItem(bank, Order[j]) ELSE 0
      BY DEF Shelved
    <2>2. B!CountItem(bank, Order[j]) \in Nat
      BY BankCountIsNat
    <2>3. CASE j = k
      <3>1. ~ (j <= k - 1) /\ j <= k /\ Order[j] = x
        BY <1>1, <2>3 DEF x
      <3> HIDE DEF t, a
      <3> QED
        BY <1>2, <1>9, <2>1, <3>1 DEF n
    <2>4. CASE j # k
      <3>1. Order[j] # x
        BY <2>4, OrderIs DEF x
      <3>2. j <= k <=> j <= k - 1
        BY <1>1, <2>4
      <3> HIDE DEF t, a
      <3> QED
        BY <1>9, <2>1, <2>2, <3>1, <3>2
    <2> QED
      BY <2>3, <2>4
  <1>11. ASSUME NEW i \in 1 .. Len(t)
         PROVE  \E j \in 1 .. k : t[i].itemId = Order[j]
    <2>1. CASE i \in 1 .. a
      <3>1. PICK j \in 1 .. k - 1 : s[i].itemId = Order[j]
        BY <2>1 DEF Shelved
      <3>2. j \in 1 .. k /\ t[i] = s[i]
        BY <1>1, <1>6, <2>1
      <3> QED
        BY <3>1, <3>2
    <2>2. CASE i - a \in 1 .. m
      <3>1. t[i].itemId = x /\ k \in 1 .. k
        BY <1>1, <1>3, <1>6, <2>2
      <3> QED
        BY <3>1 DEF x
    <2> QED
      BY <1>6, <2>1, <2>2
  <1>12. ASSUME NEW i \in 1 .. Len(t), NEW j \in 1 .. Len(t), i < j
         PROVE  /\ t[i].itemId <= t[j].itemId
                /\ t[i].itemId = t[j].itemId => HasFull(t[i])
    <2>1. CASE i \in 1 .. a /\ j \in 1 .. a
      <3>1. t[i] = s[i] /\ t[j] = s[j]
        BY <1>6, <2>1
      <3> QED
        BY <1>12, <2>1, <3>1 DEF Shelved
    <2>2. CASE i \in 1 .. a /\ j - a \in 1 .. m
      <3>1. t[i] = s[i] /\ t[j].itemId = x
        BY <1>3, <1>6, <2>2
      <3>2. PICK h \in 1 .. k - 1 : s[i].itemId = Order[h]
        BY <2>2 DEF Shelved
      <3>3. h < k /\ h \in 1 .. Kinds
        BY <1>1, OrderIs
      <3>4. Order[h] < x
        BY <3>3, OrderIs DEF x
      <3>5. Order[h] \in Int /\ x \in Int
        <4>1. Order[h] \in Item
          BY <3>3, OrderIs
        <4> QED
          BY <1>1, <4>1, StackIs
      <3> QED
        BY <3>1, <3>2, <3>4, <3>5
    <2>3. CASE i - a \in 1 .. m /\ j - a \in 1 .. m
      <3>1. t[i] = st[i - a] /\ t[j] = st[j - a]
        BY <1>6, <2>3
      <3>2. i - a < m
        BY <1>3, <1>6, <1>12, <2>3
      <3>3. t[i].itemId = x /\ t[j].itemId = x /\ t[i].stackCount = l
        BY <1>3, <2>3, <3>1, <3>2
      <3>4. x <= x
        BY <1>1, ItemAssumption
      <3> QED
        BY <3>3, <3>4 DEF HasFull, l
    <2>4. ~ (i - a \in 1 .. m /\ j \in 1 .. a)
      BY <1>6, <1>12
    <2> QED
      BY <1>6, <2>1, <2>2, <2>3, <2>4
  <1>13. Shelved(t, k)
    <2> HIDE DEF t
    <2> QED
      BY <1>6, <1>8, <1>10, <1>11, <1>12 DEF Shelved
  <1> QED
    BY <1>13 DEF PutAway, t, st, n, x

\* All the stacks, as PlayerBank::sort lists them.
Together == FoldLeft(LAMBDA before, x : before \o Stacks(x, B!CountItem(bank, x)), << >>, Order)

\* The fold one item at a time: what is put away grows by the stacks of the next.
LEMMA PuttingAway ==
    ASSUME bank \in Box
    PROVE  \E g : /\ g[{}] = << >>
                  /\ \A k \in 1 .. Kinds : g[1 .. k] = PutAway(g[1 .. (k - 1)], k)
                  /\ g[1 .. Kinds] = Together
  <1> DEFINE N == 1 .. Kinds
             T == Seq(Stack)
             step == [p \in N \X T |-> PutAway(p[2], p[1])]
             Solves(f) == f = [s \in SUBSET N |->
                                 IF s = {} THEN << >>
                                 ELSE f[s \ {Max(s)}] \o
                                        Stacks(Order[Max(s)], B!CountItem(bank, Order[Max(s)]))]
             g == CHOOSE f : Solves(f)
  <1>1. step \in [N \X T -> T]
    <2>1. ASSUME NEW k \in N, NEW s \in T  PROVE PutAway(s, k) \in T
      <3>1. Order[k] \in Item
        BY OrderIs
      <3>2. B!CountItem(bank, Order[k]) \in Nat
        BY BankCountIsNat
      <3>3. Stacks(Order[k], B!CountItem(bank, Order[k])) \in Seq(Stack)
        BY <3>1, <3>2, StacksIs
      <3> QED
        BY <3>3 DEF PutAway
    <2> HIDE DEF T
    <2> QED
      BY <2>1
  <1>0. << >> \in T
    OBVIOUS
  <1>2. PICK f \in [SUBSET N -> T] : LeftFolds(f, Kinds, << >>, step)
    <2> HIDE DEF step, T
    <2> QED
      BY <1>0, <1>1, OrderIs, FoldLeftSolved
  <1>3. Solves(f)
    <2> HIDE DEF T
    <2> QED
      BY <1>2, OrderIs, LastIndex DEF LeftFolds, PutAway
  <1>4. Solves(g)
    BY <1>3
  <1>5. g[N] = Together
    BY OrderIs DEF Together, FoldLeft, MapThenFoldSet
  <1> HIDE DEF g
  <1>6. g[{}] = << >>
    BY <1>4
  <1>7. ASSUME NEW k \in N  PROVE g[1 .. k] = PutAway(g[1 .. (k - 1)], k)
    <2>1. /\ 1 .. k \in SUBSET N /\ 1 .. k # {}
          /\ Max(1 .. k) = k
          /\ (1 .. k) \ {k} = 1 .. (k - 1)
      BY OrderIs, PrefixOf
    <2> QED
      BY <1>4, <2>1 DEF PutAway
  <1> QED
    BY <1>5, <1>6, <1>7

\* After the last, all are.
LEMMA ShelvedAll ==
    ASSUME bank \in Box
    PROVE  Shelved(Together, Kinds)
  <1> DEFINE good == [k \in 0 .. Kinds |-> {s \in Seq(Stack) : Shelved(s, k)}]
  <1>1. PICK g : /\ g[{}] = << >>
                 /\ \A k \in 1 .. Kinds : g[1 .. k] = PutAway(g[1 .. (k - 1)], k)
                 /\ g[1 .. Kinds] = Together
    BY PuttingAway
  <1>2. \A k \in 0 .. Kinds : \A s : s \in good[k] <=> Shelved(s, k)
    BY DEF Shelved
  <1>3. /\ Kinds \in Nat
        /\ 0 \in 0 .. Kinds /\ Kinds \in 0 .. Kinds
        /\ \A k \in 1 .. Kinds : k \in 0 .. Kinds /\ k - 1 \in 0 .. Kinds
    BY OrderIs
  <1>4. Shelved(<< >>, 0)
    <2> DEFINE s == << >>
    <2>1. s \in Seq(Stack) /\ Len(s) = 0
      OBVIOUS
    <2>2. Cardinality(Emptied(0)) >= 0
      <3>1. Emptied(0) \subseteq B!Slot
        BY DEF Emptied
      <3>2. Cardinality(Emptied(0)) \in Nat
        BY <3>1, BankSlots, FS_Subset, FS_CardinalityType
      <3> QED
        BY <3>2
    <2>3. \A x \in Item : B!CountItem(Shelf(s, 0), x) = 0
      <3> SUFFICES ASSUME NEW x \in Item  PROVE B!CountItem(Shelf(s, 0), x) = 0
        OBVIOUS
      <3>1. Shelf(s, 0) \in Box
        <4>1. s \in Seq(Stack) /\ 0 \in 0 .. Len(s)
          BY <2>1
        <4> HIDE DEF s
        <4> QED
          BY <4>1, ShelfIs
      <3>2. \A p \in B!Slot : Shelf(s, 0)[p] = EmptyStack
        BY BankSlots DEF Shelf
      <3> DEFINE v == Shelf(s, 0)
      <3> HIDE DEF v
      <3>3. B!StacksOf(v, x) = {}
        <4>1. EmptyStack.itemId # x
          BY StackIs DEF EmptyStack
        <4> QED
          BY <3>2, <4>1 DEF B!StacksOf, v
      <3>4. /\ B!CountItem(v, x) <= StackLimit[x] * Cardinality(B!StacksOf(v, x))
            /\ B!CountItem(v, x) \in Nat /\ StackLimit[x] \in Nat
        BY <3>1, BankBound, BankCountIsNat, StackIs DEF v
      <3>5. Cardinality(B!StacksOf(v, x)) = 0
        BY <3>3, FS_EmptySet
      <3>6. StackLimit[x] * 0 = 0
        BY <3>4
      <3>7. B!CountItem(v, x) = 0
        BY <3>4, <3>5, <3>6
      <3> QED
        BY <3>7 DEF v
    <2>4. \A j \in 1 .. Kinds : Order[j] \in Item /\ ~ (j <= 0)
      BY OrderIs
    <2> HIDE DEF s
    <2>5. Shelved(s, 0)
      BY <2>1, <2>2, <2>3, <2>4 DEF Shelved
    <2> QED
      BY <2>5 DEF s
  <1> HIDE DEF good
  <1>5. g[{}] \in good[0]
    BY <1>1, <1>2, <1>3, <1>4
  <1>6. \A k \in 1 .. Kinds : g[1 .. (k - 1)] \in good[k - 1] => g[1 .. k] \in good[k]
    <2> SUFFICES ASSUME NEW k \in 1 .. Kinds, g[1 .. (k - 1)] \in good[k - 1]
                 PROVE  g[1 .. k] \in good[k]
      OBVIOUS
    <2>1. Shelved(g[1 .. (k - 1)], k - 1)
      BY <1>2, <1>3
    <2>2. Shelved(PutAway(g[1 .. (k - 1)], k), k)
      BY <2>1, ShelvedStep
    <2> QED
      BY <1>1, <1>2, <1>3, <2>2
  <1>7. g[1 .. Kinds] \in good[Kinds]
    BY <1>3, <1>5, <1>6, FoldLeftSteps
  <1> QED
    BY <1>1, <1>2, <1>3, <1>7

\* Sorting the bank: as much of everything, which fits, and in order.
LEMMA BankSortIs ==
    ASSUME bank \in Box
    PROVE  /\ BankSorted \in Box
           /\ \A x \in Item : B!CountItem(BankSorted, x) = B!CountItem(bank, x)
           /\ \A s, t \in B!Slot : s < t /\ ~ IsEmpty(BankSorted[t]) =>
                ~ IsEmpty(BankSorted[s]) /\ BankSorted[s].itemId <= BankSorted[t].itemId
           /\ \A x \in Item : \A s, t \in B!Slot :
                /\ BankSorted[s].itemId = x /\ BankSorted[s].stackCount < StackLimit[x]
                /\ BankSorted[t].itemId = x /\ BankSorted[t].stackCount < StackLimit[x]
                => s = t
  <1> DEFINE r == Together
             w == BankSorted
  <1>1. Shelved(r, Kinds)
    BY ShelvedAll
  <1>2. w = Shelf(r, Len(r))
    BY DEF BankSorted, Together, Shelf, Order
  <1> HIDE DEF r, w
  <1>3. /\ r \in Seq(Stack) /\ Len(r) \in Nat
        /\ \A i \in 1 .. Len(r) : r[i].itemId # 0
        /\ \A i, j \in 1 .. Len(r) : i < j =>
             /\ r[i].itemId <= r[j].itemId
             /\ r[i].itemId = r[j].itemId => HasFull(r[i])
    <2>1. \A j \in 1 .. Kinds : Order[j] \in Item
      BY OrderIs
    <2>2. \A j \in 1 .. Kinds : Order[j] # 0
      BY <2>1, StackIs
    <2> QED
      BY <1>1, <2>2 DEF Shelved
  <1>4. w \in Box
    <2>1. Len(r) \in 0 .. Len(r)
      BY <1>3
    <2> QED
      BY <1>2, <1>3, <2>1, ShelfIs
  <1>5. ASSUME NEW x \in Item  PROVE B!CountItem(w, x) = B!CountItem(bank, x)
    <2>1. PICK j \in 1 .. Kinds : Order[j] = x
      BY OrderIs
    <2>2. j <= Kinds
      BY OrderIs
    <2> QED
      BY <1>1, <1>2, <2>1, <2>2 DEF Shelved
  <1>6. /\ \A p \in B!Slot : p < Len(r) => p + 1 \in 1 .. Len(r) /\ w[p] = r[p + 1]
        /\ \A p \in B!Slot : ~ (p < Len(r)) => w[p] = EmptyStack
    BY <1>2, <1>3, BankSlots DEF Shelf
  <1>7. \A p \in B!Slot : p \in Nat /\ (p < Len(r) <=> ~ IsEmpty(w[p]))
    <2>1. IsEmpty(EmptyStack)
      BY StackIs
    <2> QED
      BY <1>3, <1>6, <2>1, BankSlots DEF IsEmpty
  <1>8. ASSUME NEW s \in B!Slot, NEW t \in B!Slot, s < t, ~ IsEmpty(w[t])
        PROVE  ~ IsEmpty(w[s]) /\ w[s].itemId <= w[t].itemId
    <2>1. s < Len(r) /\ t < Len(r)
      BY <1>3, <1>7, <1>8
    <2>2. s + 1 \in 1 .. Len(r) /\ t + 1 \in 1 .. Len(r) /\ s + 1 < t + 1
      BY <1>6, <1>7, <1>8, <2>1
    <2>3. r[s + 1].itemId <= r[t + 1].itemId
      BY <1>3, <2>2
    <2> QED
      BY <1>6, <1>7, <2>1, <2>3
  <1>9. ASSUME NEW x \in Item, NEW s \in B!Slot, NEW t \in B!Slot, s < t,
               w[s].itemId = x, w[s].stackCount < StackLimit[x], w[t].itemId = x
        PROVE  FALSE
    <2>1. ~ IsEmpty(w[t])
      BY <1>9, StackIs DEF IsEmpty
    <2>2. s < Len(r) /\ t < Len(r)
      BY <1>3, <1>7, <1>9, <2>1
    <2>3. s + 1 \in 1 .. Len(r) /\ t + 1 \in 1 .. Len(r) /\ s + 1 < t + 1
      BY <1>6, <1>7, <1>9, <2>2
    <2>4. HasFull(r[s + 1])
      BY <1>3, <1>6, <1>9, <2>2, <2>3
    <2>5. w[s].stackCount = StackLimit[x] /\ StackLimit[x] \in Nat
      BY <1>6, <1>9, <2>2, <2>4, StackIs DEF HasFull
    <2> QED
      BY <1>9, <2>5
  <1>10. ASSUME NEW x \in Item, NEW s \in B!Slot, NEW t \in B!Slot,
                w[s].itemId = x, w[s].stackCount < StackLimit[x],
                w[t].itemId = x, w[t].stackCount < StackLimit[x]
         PROVE  s = t
    <2>1. ~ (s < t) /\ ~ (t < s)
      BY <1>9, <1>10
    <2> QED
      BY <1>7, <2>1
  <1> QED
    BY <1>4, <1>5, <1>8, <1>10 DEF w

-----------------------------------------------------------------------------
(* Rearranging, action by action: what it leaves is well formed, and as     *)
(* much of everything.                                                     *)

\* What may be worn.
Wearing == [EquipSlot -> Piece]

\* Everything is well formed.
Formed == inv \in Slots /\ bank \in Box /\ worn \in Wearing

\* How many of item x the body wears.
WornOf(body, x) == Cardinality({e \in EquipSlot : body[e].itemId = x})

\* The character has as many of everything as before.
Counts == \A x \in Item : Owned(x)' = Owned(x)

\* What a character owns is in one of the three.
LEMMA OwnedIs ==
    \A x : Owned(x) = CountItem(inv, x) + B!CountItem(bank, x) + WornOf(worn, x)
  BY DEF Owned, WornOf

\* So it is after a step.
LEMMA OwnedNext ==
    \A x : Owned(x)' = CountItem(inv', x) + B!CountItem(bank', x) + WornOf(worn', x)
  BY DEF Owned, WornOf

\* What is worn can be counted.
LEMMA WornIsNat ==
    ASSUME NEW body, NEW x
    PROVE  WornOf(body, x) \in Nat
  <1>1. IsFiniteSet({e \in EquipSlot : body[e].itemId = x})
    BY SizesAssumption, FS_Subset
  <1> QED
    BY <1>1, FS_CardinalityType DEF WornOf

\* Only the inventory, only the bank, only the wear of the body.
LEMMA OneChanges ==
    /\ UNCHANGED <<bank, worn>> /\ (\A x \in Item : CountItem(inv', x) = CountItem(inv, x))
         => Counts
    /\ UNCHANGED <<inv, worn>> /\ (\A x \in Item : B!CountItem(bank', x) = B!CountItem(bank, x))
         => Counts
    /\ UNCHANGED <<inv, bank>> /\ (\A e \in EquipSlot : worn'[e].itemId = worn[e].itemId)
         => Counts
  <1>1. ASSUME \A e \in EquipSlot : worn'[e].itemId = worn[e].itemId, NEW x
        PROVE  WornOf(worn', x) = WornOf(worn, x)
    <2>1. {e \in EquipSlot : worn'[e].itemId = x} = {e \in EquipSlot : worn[e].itemId = x}
      BY <1>1
    <2> QED
      BY <2>1 DEF WornOf
  <1> QED
    BY <1>1, OwnedIs, OwnedNext DEF Counts

\* Inventory::moveItem.
LEMMA MoveKeeps ==
    ASSUME Formed, NEW s \in Slot, NEW t \in Slot, Move(s, t)
    PROVE  inv' \in Slots /\ Counts
  <1>1. inv' = MoveItem(inv, s, t) /\ CanMove(inv, s) /\ UNCHANGED <<bank, worn>>
    BY DEF Move
  <1>2. inv' \in Slots /\ \A x : CountItem(inv', x) = CountItem(inv, x)
    BY <1>1, MoveIs DEF Formed
  <1> QED
    BY <1>1, <1>2, OneChanges

\* Inventory::splitStack.
LEMMA SplitKeeps ==
    ASSUME Formed, NEW s \in Slot, NEW t \in Slot, NEW n \in 1 .. MaxBatch, Split(s, t, n)
    PROVE  inv' \in Slots /\ Counts
  <1>1. inv' = SplitStack(inv, s, t, n) /\ CanSplit(inv, s, t, n) /\ UNCHANGED <<bank, worn>>
    BY DEF Split
  <1>2. n \in Nat
    BY SizesAssumption
  <1>3. inv' \in Slots /\ \A x : CountItem(inv', x) = CountItem(inv, x)
    BY <1>1, <1>2, SplitIs DEF Formed
  <1> QED
    BY <1>1, <1>3, OneChanges

\* Inventory::sort.
LEMMA SortKeeps ==
    ASSUME Formed, Sort
    PROVE  inv' \in Slots /\ Counts
  <1>1. inv' \in Sorted(inv) /\ UNCHANGED <<bank, worn>>
    BY DEF Sort
  <1>2. inv' \in Slots /\ \A x : CountItem(inv', x) = CountItem(inv, x)
    BY <1>1, SortIs DEF Formed
  <1> QED
    BY <1>1, <1>2, OneChanges

\* PlayerBank::moveItem.
LEMMA BankMoveKeeps ==
    ASSUME Formed, NEW s \in B!Slot, NEW t \in B!Slot, MoveInBank(s, t)
    PROVE  bank' \in Box /\ Counts
  <1>1. bank' = B!MoveItem(bank, s, t) /\ B!CanMove(bank, s) /\ UNCHANGED <<inv, worn>>
    BY DEF MoveInBank
  <1>2. bank' \in Box /\ \A x : B!CountItem(bank', x) = B!CountItem(bank, x)
    BY <1>1, MoveInBankIs DEF Formed
  <1> QED
    BY <1>1, <1>2, OneChanges

\* PlayerBank::sort.
LEMMA BankSortKeeps ==
    ASSUME Formed, SortBank
    PROVE  bank' \in Box /\ Counts
  <1>1. bank' = BankSorted /\ UNCHANGED <<inv, worn>>
    BY DEF SortBank
  <1>2. bank' \in Box /\ \A x \in Item : B!CountItem(bank', x) = B!CountItem(bank, x)
    BY <1>1, BankSortIs DEF Formed
  <1> QED
    BY <1>1, <1>2, OneChanges

\* Between inventory and bank: one slot of each.
LEMMA Transferred ==
    ASSUME Formed, inv' \in Slots, bank' \in Box, UNCHANGED worn,
           NEW s \in Slot, NEW t \in B!Slot,
           \A r \in Slot \ {s} : inv'[r] = inv[r],
           \A r \in B!Slot \ {t} : bank'[r] = bank[r],
           \A x : Holds(inv'[s], x) + Holds(bank'[t], x) = Holds(inv[s], x) + Holds(bank[t], x)
    PROVE  Counts
  <1>1. ASSUME NEW x \in Item
        PROVE  Owned(x)' = Owned(x)
    <2>1. /\ CountItem(inv, x) \in Nat /\ CountItem(inv', x) \in Nat
          /\ CountItem(inv', x) + Holds(inv[s], x) = CountItem(inv, x) + Holds(inv'[s], x)
      BY CountPut DEF Formed
    <2>2. /\ B!CountItem(bank, x) \in Nat /\ B!CountItem(bank', x) \in Nat
          /\ B!CountItem(bank', x) + Holds(bank[t], x) = B!CountItem(bank, x) + Holds(bank'[t], x)
      BY BankPut DEF Formed
    <2>3. /\ Holds(inv[s], x) \in Nat /\ Holds(inv'[s], x) \in Nat
          /\ Holds(bank[t], x) \in Nat /\ Holds(bank'[t], x) \in Nat
      BY StackCounts DEF Formed, Slots, Box
    <2>4. WornOf(worn', x) = WornOf(worn, x) /\ WornOf(worn, x) \in Nat
      BY WornIsNat
    <2>5. CountItem(inv', x) + B!CountItem(bank', x) = CountItem(inv, x) + B!CountItem(bank, x)
      <3>1. Holds(inv'[s], x) + Holds(bank'[t], x) = Holds(inv[s], x) + Holds(bank[t], x)
        OBVIOUS
      <3> QED
        BY <2>1, <2>2, <2>3, <3>1
    <2> QED
      BY <2>1, <2>2, <2>4, <2>5, OwnedIs, OwnedNext
  <1> QED
    BY <1>1 DEF Counts

\* PlayerBank::depositItem.
LEMMA DepositKeeps ==
    ASSUME Formed, NEW s \in Slot, NEW t \in B!Slot, Deposit(s, t)
    PROVE  inv' \in Slots /\ bank' \in Box /\ Counts
  <1> DEFINE r == Transfer(inv, s, bank, t)
  <1>1. inv \in [Slot -> Stack] /\ bank \in [B!Slot -> Stack] /\ ~ IsEmpty(inv[s])
    BY DEF Deposit, Formed, Slots, Box
  <1>2. inv' = r.from /\ bank' = r.to /\ UNCHANGED worn
    BY DEF Deposit
  <1>3. /\ r.from \in [Slot -> Stack] /\ r.to \in [B!Slot -> Stack]
        /\ \A u \in Slot \ {s} : r.from[u] = inv[u]
        /\ \A u \in B!Slot \ {t} : r.to[u] = bank[u]
        /\ \A x : Holds(r.from[s], x) + Holds(r.to[t], x) = Holds(inv[s], x) + Holds(bank[t], x)
    <2>1. Exchanged(Slot, B!Slot, inv, s, bank, t, r)
      BY <1>1, TransferIs
    <2> HIDE DEF r
    <2> QED
      BY <2>1 DEF Exchanged
  <1> HIDE DEF r
  <1>4. inv' \in Slots /\ bank' \in Box
    BY <1>2, <1>3 DEF Slots, Box
  <1>5. /\ \A u \in Slot \ {s} : inv'[u] = inv[u]
        /\ \A u \in B!Slot \ {t} : bank'[u] = bank[u]
        /\ \A x : Holds(inv'[s], x) + Holds(bank'[t], x) = Holds(inv[s], x) + Holds(bank[t], x)
    BY <1>2, <1>3
  <1> QED
    BY <1>2, <1>4, <1>5, Transferred

\* PlayerBank::withdrawItem.
LEMMA WithdrawKeeps ==
    ASSUME Formed, NEW s \in Slot, NEW t \in B!Slot, Withdraw(t, s)
    PROVE  inv' \in Slots /\ bank' \in Box /\ Counts
  <1> DEFINE r == Transfer(bank, t, inv, s)
  <1>1. inv \in [Slot -> Stack] /\ bank \in [B!Slot -> Stack] /\ ~ IsEmpty(bank[t])
    BY DEF Withdraw, Formed, Slots, Box
  <1>2. inv' = r.to /\ bank' = r.from /\ UNCHANGED worn
    BY DEF Withdraw
  <1>3. /\ r.from \in [B!Slot -> Stack] /\ r.to \in [Slot -> Stack]
        /\ \A u \in B!Slot \ {t} : r.from[u] = bank[u]
        /\ \A u \in Slot \ {s} : r.to[u] = inv[u]
        /\ \A x : Holds(r.from[t], x) + Holds(r.to[s], x) = Holds(bank[t], x) + Holds(inv[s], x)
    <2>1. Exchanged(B!Slot, Slot, bank, t, inv, s, r)
      BY <1>1, TransferIs
    <2> HIDE DEF r
    <2> QED
      BY <2>1 DEF Exchanged
  <1>4. /\ r.from[t] \in Stack /\ r.to[s] \in Stack /\ inv[s] \in Stack /\ bank[t] \in Stack
    BY <1>1, <1>3
  <1> HIDE DEF r
  <1>5. inv' \in Slots /\ bank' \in Box
    BY <1>2, <1>3 DEF Slots, Box
  <1>6. /\ \A u \in Slot \ {s} : inv'[u] = inv[u]
        /\ \A u \in B!Slot \ {t} : bank'[u] = bank[u]
    BY <1>2, <1>3
  <1>7. ASSUME NEW x
        PROVE  Holds(inv'[s], x) + Holds(bank'[t], x) = Holds(inv[s], x) + Holds(bank[t], x)
    <2>1. /\ Holds(r.from[t], x) \in Nat /\ Holds(r.to[s], x) \in Nat
          /\ Holds(inv[s], x) \in Nat /\ Holds(bank[t], x) \in Nat
      BY <1>4, StackCounts
    <2>2. Holds(r.from[t], x) + Holds(r.to[s], x) = Holds(bank[t], x) + Holds(inv[s], x)
      BY <1>3
    <2> QED
      BY <1>2, <2>1, <2>2
  <1> QED
    BY <1>2, <1>5, <1>6, <1>7, Transferred

-----------------------------------------------------------------------------
(* The body.                                                               *)

\* A piece as a stack of one.
LEMMA PieceIs ==
    ASSUME NEW piece \in Piece
    PROVE  /\ OfPiece(piece) \in Stack
           /\ \A x \in Item : Holds(OfPiece(piece), x) = IF piece.itemId = x THEN 1 ELSE 0
           /\ piece # NotWorn => /\ piece.itemId \in Item
                                 /\ FitsIn[piece.itemId] # {}
                                 /\ piece = [itemId |-> piece.itemId, durability |-> piece.durability]
                                 /\ piece.durability \in 0 .. MaxDurability
  <1>1. CASE piece = NotWorn
    <2>1. piece.itemId = 0 /\ OfPiece(piece) = EmptyStack
      BY <1>1 DEF NotWorn, OfPiece
    <2>2. EmptyStack \in Stack /\ \A x \in Item : x # 0
      BY StackIs
    <2>3. EmptyStack.itemId = 0
      BY DEF EmptyStack
    <2> QED
      BY <1>1, <2>1, <2>2, <2>3 DEF Holds
  <1>2. CASE piece # NotWorn
    <2>1. piece \in [itemId : {x \in Item : FitsIn[x] # {}}, durability : 0 .. MaxDurability]
      BY <1>2 DEF Piece
    <2>2. OfPiece(piece) = [itemId |-> piece.itemId, stackCount |-> 1, mark |-> FALSE]
      BY <1>2 DEF OfPiece
    <2>3. OfPiece(piece) \in Stack
      <3>1. piece.itemId \in Item /\ 1 \in 1 .. StackLimit[piece.itemId] /\ 1 \in Nat
        BY <2>1, StackIs
      <3> QED
        BY <2>2, <3>1, StackIs
    <2>4. \A x \in Item : Holds(OfPiece(piece), x) = IF piece.itemId = x THEN 1 ELSE 0
      BY <2>2 DEF Holds
    <2> QED
      BY <2>1, <2>3, <2>4
  <1> QED
    BY <1>1, <1>2

\* What one piece adds to the count.
Ones(piece, x) == IF piece.itemId = x THEN 1 ELSE 0

\* One slot of the body changes.
LEMMA WornPut ==
    ASSUME NEW body, NEW after, NEW e \in EquipSlot, NEW x,
           \A d \in EquipSlot \ {e} : after[d] = body[d]
    PROVE  WornOf(after, x) + Ones(body[e], x) = WornOf(body, x) + Ones(after[e], x)
  <1> DEFINE rest == {d \in EquipSlot \ {e} : body[d].itemId = x}
  <1>1. IsFiniteSet(rest) /\ e \notin rest
    <2>1. rest \subseteq EquipSlot
      OBVIOUS
    <2> QED
      BY <2>1, SizesAssumption, FS_Subset
  <1>2. Cardinality(rest) \in Nat /\ Cardinality(rest \cup {e}) = Cardinality(rest) + 1
    BY <1>1, FS_CardinalityType, FS_AddElement
  <1>3. WornOf(body, x) = Cardinality(rest) + Ones(body[e], x)
    <2>1. CASE body[e].itemId = x
      <3>1. {d \in EquipSlot : body[d].itemId = x} = rest \cup {e}
        BY <2>1
      <3> QED
        BY <1>2, <2>1, <3>1 DEF WornOf, Ones
    <2>2. CASE body[e].itemId # x
      <3>1. {d \in EquipSlot : body[d].itemId = x} = rest
        BY <2>2
      <3>2. WornOf(body, x) = Cardinality(rest)
        BY <3>1 DEF WornOf
      <3>3. Ones(body[e], x) = 0
        BY <2>2 DEF Ones
      <3> HIDE DEF rest
      <3> QED
        BY <1>2, <3>2, <3>3
    <2> QED
      BY <2>1, <2>2
  <1>4. WornOf(after, x) = Cardinality(rest) + Ones(after[e], x)
    <2>1. CASE after[e].itemId = x
      <3>1. {d \in EquipSlot : after[d].itemId = x} = rest \cup {e}
        BY <2>1
      <3> QED
        BY <1>2, <2>1, <3>1 DEF WornOf, Ones
    <2>2. CASE after[e].itemId # x
      <3>1. {d \in EquipSlot : after[d].itemId = x} = rest
        BY <2>2
      <3>2. WornOf(after, x) = Cardinality(rest)
        BY <3>1 DEF WornOf
      <3>3. Ones(after[e], x) = 0
        BY <2>2 DEF Ones
      <3> HIDE DEF rest
      <3> QED
        BY <1>2, <3>2, <3>3
    <2> QED
      BY <2>1, <2>2
  <1>5. Ones(body[e], x) \in Nat /\ Ones(after[e], x) \in Nat
    BY DEF Ones
  <1> HIDE DEF rest
  <1> QED
    BY <1>2, <1>3, <1>4, <1>5

\* A slot of the inventory and one of the body exchange an item.
LEMMA Dressed ==
    ASSUME Formed, inv' \in Slots, UNCHANGED bank, NEW s \in Slot, NEW e \in EquipSlot,
           \A r \in Slot \ {s} : inv'[r] = inv[r],
           \A d \in EquipSlot \ {e} : worn'[d] = worn[d],
           \A x \in Item : Holds(inv'[s], x) + Ones(worn'[e], x) = Holds(inv[s], x) + Ones(worn[e], x)
    PROVE  Counts
  <1>1. ASSUME NEW x \in Item
        PROVE  Owned(x)' = Owned(x)
    <2>1. /\ CountItem(inv, x) \in Nat /\ CountItem(inv', x) \in Nat
          /\ CountItem(inv', x) + Holds(inv[s], x) = CountItem(inv, x) + Holds(inv'[s], x)
      BY CountPut DEF Formed
    <2>2. WornOf(worn', x) + Ones(worn[e], x) = WornOf(worn, x) + Ones(worn'[e], x)
      <3> DEFINE after == worn'
      <3>1. \A d \in EquipSlot \ {e} : after[d] = worn[d]
        OBVIOUS
      <3> HIDE DEF after
      <3>2. WornOf(after, x) + Ones(worn[e], x) = WornOf(worn, x) + Ones(after[e], x)
        BY <3>1, WornPut
      <3> QED
        BY <3>2 DEF after
    <2>3. /\ Holds(inv[s], x) \in Nat /\ Holds(inv'[s], x) \in Nat
          /\ Ones(worn[e], x) \in Nat /\ Ones(worn'[e], x) \in Nat
          /\ WornOf(worn', x) \in Nat /\ WornOf(worn, x) \in Nat
      BY StackCounts, WornIsNat DEF Formed, Slots, Ones
    <2>4. B!CountItem(bank', x) = B!CountItem(bank, x) /\ B!CountItem(bank, x) \in Nat
      BY BankCountIsNat DEF Formed
    <2>5. Holds(inv'[s], x) + Ones(worn'[e], x) = Holds(inv[s], x) + Ones(worn[e], x)
      OBVIOUS
    <2>6. CountItem(inv', x) + WornOf(worn', x) = CountItem(inv, x) + WornOf(worn, x)
      BY <2>1, <2>2, <2>3, <2>5
    <2> QED
      BY <2>1, <2>3, <2>4, <2>6, OwnedIs, OwnedNext
  <1> QED
    BY <1>1 DEF Counts

\* Equipping: the piece taken off goes where the new one was.
LEMMA EquipKeeps ==
    ASSUME Formed, NEW s \in Slot, NEW e \in EquipSlot, Equip(s, e)
    PROVE  inv' \in Slots /\ worn' \in Wearing /\ Counts
  <1> DEFINE st == inv[s]
             piece == [itemId |-> st.itemId, durability |-> MaxDurability]
             old == worn[e]
  <1>1. /\ st \in Stack /\ ~ IsEmpty(st) /\ e \in FitsIn[st.itemId]
        /\ worn' = [worn EXCEPT ![e] = piece]
        /\ inv' = [inv EXCEPT ![s] = OfPiece(old)]
        /\ bank' = bank
    BY DEF Equip, Formed, Slots
  <1>2. st.itemId \in Item /\ st.stackCount \in 1 .. StackLimit[st.itemId]
    BY <1>1, StackIs
  <1>3. st.stackCount = 1
    <2>1. StackLimit[st.itemId] = 1
      BY <1>1, <1>2, WearableAssumption
    <2> QED
      BY <1>2, <2>1
  <1>4. piece \in Piece
    <2>1. FitsIn[st.itemId] # {} /\ MaxDurability \in 0 .. MaxDurability
      BY <1>1, SizesAssumption
    <2> QED
      BY <1>2, <2>1 DEF Piece
  <1>5. old \in Piece
    BY DEF Formed, Wearing
  <1>6. OfPiece(old) \in Stack /\ \A x \in Item : Holds(OfPiece(old), x) = Ones(old, x)
    BY <1>5, PieceIs DEF Ones
  <1>7. \A x : Ones(piece, x) = Holds(st, x)
    BY <1>3 DEF Ones, Holds
  <1> HIDE DEF piece, old, st
  <1>8. inv' \in Slots /\ inv'[s] = OfPiece(old) /\ \A r \in Slot \ {s} : inv'[r] = inv[r]
    BY <1>1, <1>6 DEF Formed, Slots
  <1>9. worn' \in Wearing /\ worn'[e] = piece /\ \A d \in EquipSlot \ {e} : worn'[d] = worn[d]
    BY <1>1, <1>4 DEF Formed, Wearing
  <1>10. ASSUME NEW x \in Item
         PROVE  Holds(inv'[s], x) + Ones(worn'[e], x) = Holds(st, x) + Ones(old, x)
    <2>1. Holds(inv'[s], x) = Ones(old, x) /\ Ones(worn'[e], x) = Holds(st, x)
      BY <1>6, <1>7, <1>8, <1>9
    <2>2. Ones(old, x) \in Nat /\ Holds(st, x) \in Nat
      BY <1>1, StackCounts DEF Ones
    <2> QED
      BY <2>1, <2>2
  <1>11. Counts
    BY <1>1, <1>8, <1>9, <1>10, Dressed DEF st, old
  <1> QED
    BY <1>8, <1>9, <1>11

\* Unequipping.
LEMMA UnequipKeeps ==
    ASSUME Formed, NEW e \in EquipSlot, Unequip(e)
    PROVE  inv' \in Slots /\ worn' \in Wearing /\ Counts
  <1> DEFINE s == Min(EmptySlots(inv))
             old == worn[e]
  <1>1. /\ EmptySlots(inv) # {}
        /\ worn' = [worn EXCEPT ![e] = NotWorn]
        /\ inv' = [inv EXCEPT ![s] = OfPiece(old)]
        /\ bank' = bank
    BY DEF Unequip
  <1>2. s \in EmptySlots(inv)
    <2>1. EmptySlots(inv) \subseteq Slot /\ IsFiniteSet(EmptySlots(inv))
      BY SlotsFinite DEF EmptySlots
    <2>2. EmptySlots(inv) \subseteq Int
      BY <2>1, SlotsAssumption DEF Slot
    <2> QED
      BY <1>1, <2>1, <2>2, LeastOne
  <1>3. s \in Slot /\ inv[s] = EmptyStack
    BY <1>2, StackIs DEF EmptySlots, Formed, Slots
  <1>4. old \in Piece /\ NotWorn \in Piece
    BY DEF Formed, Wearing, Piece
  <1>5. OfPiece(old) \in Stack /\ \A x \in Item : Holds(OfPiece(old), x) = Ones(old, x)
    BY <1>4, PieceIs DEF Ones
  <1> HIDE DEF old, s
  <1>6. inv' \in Slots /\ inv'[s] = OfPiece(old) /\ \A r \in Slot \ {s} : inv'[r] = inv[r]
    BY <1>1, <1>3, <1>5 DEF Formed, Slots
  <1>7. worn' \in Wearing /\ worn'[e] = NotWorn /\ \A d \in EquipSlot \ {e} : worn'[d] = worn[d]
    BY <1>1, <1>4 DEF Formed, Wearing
  <1>8. ASSUME NEW x \in Item
        PROVE  Holds(inv'[s], x) + Ones(worn'[e], x) = Holds(inv[s], x) + Ones(old, x)
    <2>1. x # 0
      BY StackIs
    <2>2. Ones(worn'[e], x) = 0 /\ Holds(inv[s], x) = 0
      BY <1>3, <1>7, <2>1 DEF Ones, Holds, NotWorn, EmptyStack
    <2>3. Holds(inv'[s], x) = Ones(old, x) /\ Ones(old, x) \in Nat
      BY <1>5, <1>6 DEF Ones
    <2> QED
      BY <2>2, <2>3
  <1>9. Counts
    BY <1>1, <1>3, <1>6, <1>7, <1>8, Dressed DEF old
  <1> QED
    BY <1>6, <1>7, <1>9

\* Wear and repair change no item.
LEMMA WearKeeps ==
    ASSUME Formed, Die \/ RepairAll
    PROVE  worn' \in Wearing /\ Counts
  <1>1. UNCHANGED <<inv, bank>>
    BY DEF Die, RepairAll
  <1>2. ASSUME NEW e \in EquipSlot
        PROVE  worn'[e] \in Piece /\ worn'[e].itemId = worn[e].itemId
    <2> DEFINE piece == worn[e]
    <2>1. piece \in Piece
      BY DEF Formed, Wearing
    <2>2. MaxDurability \in Nat
      BY SizesAssumption
    <2>3. piece # NotWorn => /\ piece.itemId \in {x \in Item : FitsIn[x] # {}}
                             /\ piece = [itemId |-> piece.itemId, durability |-> piece.durability]
                             /\ piece.durability \in 0 .. MaxDurability
      BY <2>1, PieceIs
    <2>4. CASE Die
      <3>1. worn'[e] = IF piece.durability > 0 THEN [piece EXCEPT !.durability = @ - 1] ELSE piece
        BY <2>4 DEF Die
      <3>2. CASE piece.durability > 0
        <4>1. piece # NotWorn
          BY <3>2 DEF NotWorn
        <4>2. worn'[e] = [itemId |-> piece.itemId, durability |-> piece.durability - 1]
          BY <2>3, <3>1, <3>2, <4>1
        <4>3. piece.durability - 1 \in 0 .. MaxDurability
          BY <2>2, <2>3, <3>2, <4>1
        <4> HIDE DEF piece
        <4>4. worn'[e] \in Piece /\ worn'[e].itemId = piece.itemId
          BY <2>3, <4>1, <4>2, <4>3 DEF Piece
        <4> QED
          BY <4>4 DEF piece
      <3>3. CASE ~ piece.durability > 0
        BY <2>1, <3>1, <3>3
      <3> QED
        BY <3>2, <3>3
    <2>5. CASE RepairAll
      <3>1. worn'[e] = IF piece = NotWorn THEN NotWorn ELSE [piece EXCEPT !.durability = MaxDurability]
        BY <2>5 DEF RepairAll
      <3>2. CASE piece = NotWorn
        BY <2>1, <3>1, <3>2
      <3>3. CASE piece # NotWorn
        <4>1. worn'[e] = [itemId |-> piece.itemId, durability |-> MaxDurability]
          BY <2>3, <3>1, <3>3
        <4>2. MaxDurability \in 0 .. MaxDurability
          BY <2>2
        <4> HIDE DEF piece
        <4>3. worn'[e] \in Piece /\ worn'[e].itemId = piece.itemId
          BY <2>3, <3>3, <4>1, <4>2 DEF Piece
        <4> QED
          BY <4>3 DEF piece
      <3> QED
        BY <3>2, <3>3
    <2> QED
      BY <2>4, <2>5
  <1>3. worn' = [e \in EquipSlot |-> worn'[e]]
    BY DEF Die, RepairAll
  <1>4. worn' \in Wearing
    BY <1>2, <1>3 DEF Wearing
  <1> QED
    BY <1>1, <1>2, <1>4, OneChanges


-----------------------------------------------------------------------------
(* What is saved.                                                          *)

\* The rows of an inventory are rows already when they come back.
IInv == CleanIsSaved /\ saved.inv = Rows(saved.inv)

\* Rows are slots, and are their own rows: saving what was loaded changes nothing.
LEMMA RowsIs ==
    ASSUME NEW v \in Slots
    PROVE  Rows(v) \in Slots /\ Rows(Rows(v)) = Rows(v)
  <1>1. DOMAIN v = Slot /\ \A s \in Slot : v[s] \in Stack
    BY DEF Slots
  <1>2. Rows(v) = [s \in Slot |-> Plain(v[s])]
    BY <1>1 DEF Rows
  <1>3. \A s \in Slot : Plain(v[s]) \in Stack /\ Plain(Plain(v[s])) = Plain(v[s])
    BY <1>1, PlainIs
  <1> DEFINE w == Rows(v)
  <1>4. w \in Slots
    BY <1>2, <1>3 DEF Slots
  <1>5. Rows(w) = [s \in Slot |-> Plain(w[s])]
    <2>1. DOMAIN w = Slot
      BY <1>2
    <2> HIDE DEF w
    <2> QED
      BY <2>1 DEF Rows
  <1>6. \A s \in Slot : Plain(w[s]) = w[s]
    BY <1>2, <1>3
  <1>7. w = [s \in Slot |-> w[s]]
    BY <1>2
  <1> HIDE DEF w
  <1>8. Rows(w) = w
    BY <1>5, <1>6, <1>7
  <1> QED
    BY <1>4, <1>8 DEF w

\* The invariant keeps the three well formed.
LEMMA IsFormed ==
    ASSUME IInv
    PROVE  Formed
  BY DEF IInv, CleanIsSaved, TypeOK, Formed, Slots, Box, Wearing

\* A step that marks what it changes.
LEMMA MarkingKeeps ==
    ASSUME IInv, UNCHANGED saved,
           inv' \in Slots, bank' \in Box, worn' \in Wearing,
           dirty' \subseteq Container, dirty \subseteq dirty',
           inv' = inv \/ "inv" \in dirty',
           bank' = bank \/ "bank" \in dirty',
           worn' = worn \/ "worn" \in dirty'
    PROVE  IInv'
  <1>1. TypeOK'
    BY DEF IInv, CleanIsSaved, TypeOK, Slots, Box, Wearing
  <1>2. /\ "inv" \notin dirty' => Rows(inv') = saved.inv
        /\ "bank" \notin dirty' => bank' = saved.bank
        /\ "worn" \notin dirty' => worn' = saved.worn
    BY DEF IInv, CleanIsSaved
  <1> QED
    BY <1>1, <1>2 DEF IInv, CleanIsSaved

\* The same for what Mark marks.
LEMMA MarkKeeps ==
    ASSUME IInv, UNCHANGED saved, NEW C \in SUBSET Container, Mark(C),
           inv' \in Slots, bank' \in Box, worn' \in Wearing,
           inv' = inv \/ "inv" \in C,
           bank' = bank \/ "bank" \in C,
           worn' = worn \/ "worn" \in C
    PROVE  IInv'
  <1>1. dirty' = dirty \cup C /\ dirty \subseteq Container
    BY DEF Mark, IInv, CleanIsSaved, TypeOK
  <1>2. /\ dirty' \subseteq Container /\ dirty \subseteq dirty'
        /\ inv' = inv \/ "inv" \in dirty'
        /\ bank' = bank \/ "bank" \in dirty'
        /\ worn' = worn \/ "worn" \in dirty'
    BY <1>1
  <1> QED
    BY <1>2, MarkingKeeps

\* Getting items.
LEMMA GainKeeps ==
    ASSUME IInv, NEW x \in Item, NEW n \in 1 .. MaxBatch, Gain(x, n)
    PROVE  IInv'
  <1>1. Formed /\ n \in Nat
    BY IsFormed, SizesAssumption
  <1>2. inv' \in Slots /\ bank' \in Box /\ worn' \in Wearing /\ UNCHANGED <<bank, worn, saved>>
    BY <1>1, AddItemIs DEF Gain, Formed
  <1>3. CASE inv' = inv
    <2>1. dirty' = dirty /\ dirty \subseteq Container
      BY <1>3 DEF Gain, IInv, CleanIsSaved, TypeOK
    <2> QED
      BY <1>2, <1>3, <2>1, MarkingKeeps
  <1>4. CASE inv' # inv
    <2>1. Mark({"inv"})
      BY <1>4 DEF Gain
    <2>2. {"inv"} \in SUBSET Container /\ "inv" \in {"inv"}
      BY DEF Container
    <2> QED
      BY <1>2, <2>1, <2>2, MarkKeeps
  <1> QED
    BY <1>3, <1>4

\* A step of the inventory alone.
LEMMA BagKeeps ==
    ASSUME IInv, inv' \in Slots, Mark({"inv"}), UNCHANGED <<bank, worn, saved>>
    PROVE  IInv'
  <1>1. {"inv"} \in SUBSET Container /\ "inv" \in {"inv"}
    BY DEF Container
  <1>2. bank' \in Box /\ worn' \in Wearing
    BY IsFormed DEF Formed
  <1> QED
    BY <1>1, <1>2, MarkKeeps

\* Using items up.
LEMMA LoseKeeps ==
    ASSUME IInv, NEW s \in Slot, NEW n \in 1 .. MaxBatch, Lose(s, n)
    PROVE  IInv'
  <1>1. inv \in Slots /\ n \in Nat
    BY IsFormed, SizesAssumption DEF Formed
  <1>2. inv' \in Slots
    BY <1>1, RemoveIs DEF Lose
  <1> QED
    BY <1>2, BagKeeps DEF Lose

\* Socketing a gem.
LEMMA SocketKeeps ==
    ASSUME IInv, NEW s \in Slot, NEW gem \in Slot, Socket(s, gem)
    PROVE  IInv'
  <1> DEFINE st == inv[s]
             set == [itemId |-> st.itemId, stackCount |-> st.stackCount, mark |-> TRUE]
             v == [inv EXCEPT ![s].mark = TRUE]
  <1>1. inv \in Slots /\ st \in Stack /\ ~ IsEmpty(st)
    BY IsFormed DEF Formed, Slots, Socket
  <1>2. /\ st \in [itemId : Item, stackCount : Nat, mark : BOOLEAN]
        /\ st.stackCount \in 1 .. StackLimit[st.itemId]
    BY <1>1, StackIs
  <1>3. set \in Stack
    BY <1>2, StackIs
  <1>4. v = [inv EXCEPT ![s] = set]
    <2>1. \A f : [st EXCEPT !.mark = f] = [itemId |-> st.itemId, stackCount |-> st.stackCount, mark |-> f]
      BY <1>2
    <2>2. [st EXCEPT !.mark = TRUE] = set
      BY <2>1, Zenon
    <2> HIDE DEF set
    <2> QED
      BY <2>2, Zenon
  <1> HIDE DEF set
  <1>5. v \in Slots
    BY <1>1, <1>3, <1>4 DEF Slots
  <1>6. inv' = RemoveItem(v, gem, 1)
    BY DEF Socket
  <1> HIDE DEF v
  <1>7. inv' \in Slots
    BY <1>5, <1>6, RemoveIs
  <1> QED
    BY <1>7, BagKeeps DEF Socket

\* A save writes what is marked.
LEMMA SaveKeeps ==
    ASSUME IInv, Save
    PROVE  IInv'
  <1>1. /\ saved' = [inv  |-> IF "inv" \in dirty THEN Rows(inv) ELSE saved.inv,
                     bank |-> IF "bank" \in dirty THEN bank ELSE saved.bank,
                     worn |-> IF "worn" \in dirty THEN worn ELSE saved.worn]
        /\ dirty' = {} /\ UNCHANGED <<inv, bank, worn>>
    BY DEF Save, memory
  <1>2. Rows(inv) \in Slots /\ Rows(Rows(inv)) = Rows(inv)
    BY IsFormed, RowsIs DEF Formed
  <1>3. saved'.inv = Rows(inv) /\ saved'.bank = bank /\ saved'.worn = worn
    BY <1>1 DEF IInv, CleanIsSaved
  <1>4. TypeOK'
    BY <1>1, <1>2, <1>3 DEF IInv, CleanIsSaved, TypeOK, Slots, Container
  <1>5. CleanIsSaved'
    BY <1>1, <1>3, <1>4 DEF CleanIsSaved
  <1> QED
    BY <1>2, <1>3, <1>5 DEF IInv

\* A login reads what was written, gems and all that was not saved being gone.
LEMMA LoadKeeps ==
    ASSUME IInv, Load
    PROVE  IInv'
  <1>1. /\ inv' = saved.inv /\ bank' = saved.bank /\ worn' = saved.worn
        /\ dirty' = {} /\ saved' = saved
    BY DEF Load
  <1>2. TypeOK'
    BY <1>1 DEF IInv, CleanIsSaved, TypeOK, Container
  <1>3. saved.inv = Rows(saved.inv)
    BY DEF IInv
  <1>4. CleanIsSaved'
    BY <1>1, <1>2, <1>3 DEF CleanIsSaved
  <1> QED
    BY <1>1, <1>3, <1>4 DEF IInv

\* Every handler that rearranges.
LEMMA RearrangeKeeps ==
    ASSUME IInv, Rearrange
    PROVE  IInv' /\ Counts
  <1> USE IsFormed
  <1>m. /\ {"inv"} \in SUBSET Container /\ {"bank"} \in SUBSET Container
        /\ {"worn"} \in SUBSET Container /\ {"inv", "bank"} \in SUBSET Container
        /\ {"inv", "worn"} \in SUBSET Container
    BY DEF Container
  <1>f. inv \in Slots /\ bank \in Box /\ worn \in Wearing
    BY DEF Formed
  <1>1. ASSUME NEW s \in Slot, NEW t \in Slot, Move(s, t)  PROVE IInv' /\ Counts
    <2>1. inv' \in Slots /\ Counts
      BY <1>1, MoveKeeps
    <2>2. Mark({"inv"}) /\ UNCHANGED <<bank, worn, saved>>
      BY <1>1 DEF Move
    <2> QED
      BY <2>1, <2>2, BagKeeps
  <1>2. ASSUME NEW s \in Slot, NEW t \in Slot, NEW n \in 1 .. MaxBatch, Split(s, t, n)
        PROVE  IInv' /\ Counts
    <2>1. inv' \in Slots /\ Counts
      BY <1>2, SplitKeeps
    <2>2. Mark({"inv"}) /\ UNCHANGED <<bank, worn, saved>>
      BY <1>2 DEF Split
    <2> QED
      BY <2>1, <2>2, BagKeeps
  <1>3. CASE Sort
    <2>1. inv' \in Slots /\ Counts
      BY <1>3, SortKeeps
    <2>2. Mark({"inv"}) /\ UNCHANGED <<bank, worn, saved>>
      BY <1>3 DEF Sort
    <2> QED
      BY <2>1, <2>2, BagKeeps
  <1>4. ASSUME NEW s \in Slot, NEW t \in B!Slot, Deposit(s, t)  PROVE IInv' /\ Counts
    <2>1. inv' \in Slots /\ bank' \in Box /\ Counts
      BY <1>4, DepositKeeps
    <2>2. Mark({"inv", "bank"}) /\ UNCHANGED <<worn, saved>>
      BY <1>4 DEF Deposit, TransferMarks
    <2> QED
      BY <1>m, <1>f, <2>1, <2>2, MarkKeeps
  <1>5. ASSUME NEW s \in Slot, NEW t \in B!Slot, Withdraw(t, s)  PROVE IInv' /\ Counts
    <2>1. inv' \in Slots /\ bank' \in Box /\ Counts
      BY <1>5, WithdrawKeeps
    <2>2. Mark({"inv", "bank"}) /\ UNCHANGED <<worn, saved>>
      BY <1>5 DEF Withdraw, TransferMarks
    <2> QED
      BY <1>m, <1>f, <2>1, <2>2, MarkKeeps
  <1>6. ASSUME NEW s \in B!Slot, NEW t \in B!Slot, MoveInBank(s, t)  PROVE IInv' /\ Counts
    <2>1. bank' \in Box /\ Counts
      BY <1>6, BankMoveKeeps
    <2>2. Mark({"bank"}) /\ UNCHANGED <<inv, worn, saved>>
      BY <1>6 DEF MoveInBank
    <2> QED
      BY <1>m, <1>f, <2>1, <2>2, MarkKeeps
  <1>7. CASE SortBank
    <2>1. bank' \in Box /\ Counts
      BY <1>7, BankSortKeeps
    <2>2. Mark({"bank"}) /\ UNCHANGED <<inv, worn, saved>>
      BY <1>7 DEF SortBank
    <2> QED
      BY <1>m, <1>f, <2>1, <2>2, MarkKeeps
  <1>8. ASSUME NEW s \in Slot, NEW e \in EquipSlot, Equip(s, e)  PROVE IInv' /\ Counts
    <2>1. inv' \in Slots /\ worn' \in Wearing /\ Counts
      BY <1>8, EquipKeeps
    <2>2. Mark({"inv", "worn"}) /\ UNCHANGED <<bank, saved>>
      BY <1>8 DEF Equip
    <2> QED
      BY <1>m, <1>f, <2>1, <2>2, MarkKeeps
  <1>9. ASSUME NEW e \in EquipSlot, Unequip(e)  PROVE IInv' /\ Counts
    <2>1. inv' \in Slots /\ worn' \in Wearing /\ Counts
      BY <1>9, UnequipKeeps
    <2>2. Mark({"inv", "worn"}) /\ UNCHANGED <<bank, saved>>
      BY <1>9 DEF Unequip
    <2> QED
      BY <1>m, <1>f, <2>1, <2>2, MarkKeeps
  <1>10. CASE Die \/ RepairAll
    <2>1. worn' \in Wearing /\ Counts
      BY <1>10, WearKeeps
    <2>2. Mark({"worn"}) /\ UNCHANGED <<inv, bank, saved>>
      BY <1>10 DEF Die, RepairAll
    <2> QED
      BY <1>m, <1>f, <2>1, <2>2, MarkKeeps
  <1> QED
    BY <1>1, <1>2, <1>3, <1>4, <1>5, <1>6, <1>7, <1>8, <1>9, <1>10 DEF Rearrange

\* A new character.
LEMMA InitEstablishes == Init => IInv
  <1> SUFFICES ASSUME Init PROVE IInv
    OBVIOUS
  <1>1. /\ inv \in Slots /\ bank \in Box /\ worn \in Wearing
        /\ \A s \in Slot : inv[s] = EmptyStack
    BY StackIs DEF Init, Slots, Box, Wearing, Piece
  <1>2. saved.inv = inv /\ saved.bank = bank /\ saved.worn = worn /\ dirty = {}
    BY DEF Init
  <1>3. Rows(inv) = inv
    <2>1. Plain(EmptyStack) = EmptyStack
      BY PlainIs, StackIs
    <2>2. DOMAIN inv = Slot /\ inv = [s \in Slot |-> EmptyStack]
      BY DEF Init
    <2> QED
      BY <1>1, <2>1, <2>2 DEF Rows
  <1>4. TypeOK
    BY <1>1, <1>2 DEF TypeOK, Slots, Box, Wearing
  <1> QED
    BY <1>2, <1>3, <1>4 DEF IInv, CleanIsSaved

\* Every step.
LEMMA StepKeeps == IInv /\ [Next]_vars => IInv'
  <1> SUFFICES ASSUME IInv, [Next]_vars PROVE IInv'
    OBVIOUS
  <1>1. CASE UNCHANGED vars
    BY <1>1 DEF vars, memory, IInv, CleanIsSaved, TypeOK
  <1>2. CASE Next
    BY <1>2, GainKeeps, LoseKeeps, SocketKeeps, RearrangeKeeps, SaveKeeps, LoadKeeps DEF Next
  <1> QED
    BY <1>1, <1>2

\* In every state the player can bring about, and after any crash, a container
\* whose mark is not set is in the database as it is in memory: Player::save
\* may skip it.
THEOREM CleanIsAlwaysSaved == Spec => []CleanIsSaved
  <1>1. IInv => CleanIsSaved
    BY DEF IInv
  <1> QED
    BY <1>1, InitEstablishes, StepKeeps, PTL DEF Spec

\* The invariant holds always.
LEMMA Invariance == Spec => []IInv
  BY InitEstablishes, StepKeeps, PTL DEF Spec

\* Whatever is moved, split, sorted, deposited, withdrawn, put on or taken off,
\* no handler makes an item appear or vanish: merging stacks, trading places with
\* a full container and wear included.
THEOREM RearrangingAlwaysConserves == Spec => RearrangingConserves
  <1>1. IInv /\ [Next]_vars =>
          [(\E x \in Item : Owned(x)' # Owned(x)) => ~ Rearrange]_vars
    BY RearrangeKeeps DEF Counts
  <1> QED
    BY <1>1, Invariance, PTL DEF Spec, RearrangingConserves

\* addItem refuses part of what it is given only when every slot is taken and
\* every stack of the item is full.
THEOREM AddAlwaysTakesAllThatFits == Spec => AddTakesAllThatFits
  <1>1. IInv /\ [Next]_vars =>
          [\A x \in Item, n \in 1 .. MaxBatch :
             Gain(x, n) =>
               /\ \A y \in Item \ {x} : CountItem(inv', y) = CountItem(inv, y)
               /\ \/ CountItem(inv', x) = CountItem(inv, x) + n
                  \/ /\ CountItem(inv', x) \in CountItem(inv, x) .. CountItem(inv, x) + n
                     /\ EmptySlots(inv') = {}
                     /\ \A s \in StacksOf(inv', x) : inv'[s].stackCount = StackLimit[x]]_vars
    <2> SUFFICES ASSUME IInv, NEW x \in Item, NEW n \in 1 .. MaxBatch, Gain(x, n)
                 PROVE  /\ \A y \in Item \ {x} : CountItem(inv', y) = CountItem(inv, y)
                        /\ \/ CountItem(inv', x) = CountItem(inv, x) + n
                           \/ /\ CountItem(inv', x) \in CountItem(inv, x) .. CountItem(inv, x) + n
                              /\ EmptySlots(inv') = {}
                              /\ \A s \in StacksOf(inv', x) : inv'[s].stackCount = StackLimit[x]
      OBVIOUS
    <2> DEFINE a == Adding(inv, x, n)
    <2>1. inv \in Slots /\ n \in Nat
      BY IsFormed, SizesAssumption DEF Formed
    <2>2. /\ a \in Call
          /\ a.left <= n
          /\ \A y \in Item \ {x} : CountItem(a.inv, y) = CountItem(inv, y)
          /\ AddsRest(a, inv, x, n)
      BY <2>1, AddingIs
    <2>9. a.left > 0 => /\ EmptySlots(a.inv) = {}
                        /\ \A t \in StacksOf(a.inv, x) : a.inv[t].stackCount = StackLimit[x]
      <3>1. a.left > 0 => /\ EmptySlots(a.inv) = {}
                          /\ \A t \in StacksOf(a.inv, x) : a.inv[t].stackCount = StackLimit[x]
                          /\ StackLimit[x] * Cardinality(EmptySlots(inv)) < n
        BY <2>1, AddingIs, Zenon
      <3> QED
        BY <3>1
    <2>3. inv' = a.inv
      BY DEF Gain, AddItem
    <2> HIDE DEF a
    <2>4. a.left \in Nat /\ inv' \in Slots
      BY <2>2, <2>3 DEF Call, Slots
    <2>5. CountItem(inv, x) \in Nat /\ CountItem(inv', x) \in Nat
      BY <2>1, <2>4, CountIsNat
    <2>6. CountItem(inv', x) + a.left = CountItem(inv, x) + n
      BY <2>2, <2>3 DEF AddsRest
    <2>7. CASE a.left = 0
      BY <2>2, <2>3, <2>5, <2>6, <2>7
    <2>8. CASE a.left > 0
      <3>1. CountItem(inv', x) \in CountItem(inv, x) .. CountItem(inv, x) + n
        BY <2>1, <2>2, <2>4, <2>5, <2>6
      <3> QED
        BY <2>2, <2>3, <2>8, <2>9, <3>1
    <2> QED
      BY <2>4, <2>7, <2>8
  <1> QED
    BY <1>1, Invariance, PTL DEF Spec, AddTakesAllThatFits

\* Slots without a gap, with ascending ids and at most one stack of each item
\* that is not full are in order.
LEMMA InOrderIs ==
    ASSUME NEW v, NEW n \in Nat,
           \A s, t \in 0 .. n : s < t /\ ~ IsEmpty(v[t]) =>
             ~ IsEmpty(v[s]) /\ v[s].itemId <= v[t].itemId,
           \A x \in Item : \A s, t \in 0 .. n :
             /\ v[s].itemId = x /\ v[s].stackCount < StackLimit[x]
             /\ v[t].itemId = x /\ v[t].stackCount < StackLimit[x]
             => s = t
    PROVE  InOrder(v, n)
  <1>1. ASSUME NEW x \in Item
        PROVE  Cardinality({s \in 0 .. n : v[s].itemId = x /\ v[s].stackCount < StackLimit[x]}) <= 1
    <2> DEFINE S == {s \in 0 .. n : v[s].itemId = x /\ v[s].stackCount < StackLimit[x]}
    <2>1. \A a, b \in S : a = b
      OBVIOUS
    <2> HIDE DEF S
    <2>2. Cardinality(S) <= 1
      BY <2>1, AtMostOne
    <2> QED
      BY <2>2 DEF S
  <1> QED
    BY <1>1 DEF InOrder

\* sort of the inventory leaves no slot unused before a used one, ids ascending
\* and nothing that could still be merged, and so does sort of the bank.
THEOREM SortAlwaysLeavesOrder == Spec => SortLeavesOrder
  <1>1. IInv /\ [Next]_vars =>
          [/\ InOrder(inv', MAX_SLOTS - 1) \/ ~ Sort
           /\ InOrder(bank', BANK_SLOTS - 1) \/ ~ SortBank]_vars
    <2>1. ASSUME IInv, Sort  PROVE InOrder(inv', MAX_SLOTS - 1)
      <3>1. inv \in Slots /\ inv' \in Sorted(inv)
        BY <2>1, IsFormed DEF Formed, Sort
      <3>2. Ordered(inv')
        BY <3>1, SortIs
      <3> DEFINE v == inv'
                 n == MAX_SLOTS - 1
      <3>3. n \in Nat /\ Slot = 0 .. n
        BY SlotsAssumption DEF Slot
      <3> HIDE DEF v, n
      <3>4. /\ \A s, t \in 0 .. n : s < t /\ ~ IsEmpty(v[t]) =>
                 ~ IsEmpty(v[s]) /\ v[s].itemId <= v[t].itemId
            /\ \A x \in Item : \A s, t \in 0 .. n :
                 /\ v[s].itemId = x /\ v[s].stackCount < StackLimit[x]
                 /\ v[t].itemId = x /\ v[t].stackCount < StackLimit[x]
                 => s = t
        BY <3>2, <3>3 DEF Ordered, v
      <3>5. InOrder(v, n)
        BY <3>3, <3>4, InOrderIs
      <3> QED
        BY <3>5 DEF v, n
    <2>2. ASSUME IInv, SortBank  PROVE InOrder(bank', BANK_SLOTS - 1)
      <3>1. bank \in Box /\ bank' = BankSorted
        BY <2>2, IsFormed DEF Formed, SortBank
      <3> DEFINE v == BankSorted
                 n == BANK_SLOTS - 1
      <3>2. n \in Nat /\ B!Slot = 0 .. n
        BY SizesAssumption DEF B!Slot
      <3> HIDE DEF n
      <3>3. /\ \A s, t \in 0 .. n : s < t /\ ~ IsEmpty(v[t]) =>
                 ~ IsEmpty(v[s]) /\ v[s].itemId <= v[t].itemId
            /\ \A x \in Item : \A s, t \in 0 .. n :
                 /\ v[s].itemId = x /\ v[s].stackCount < StackLimit[x]
                 /\ v[t].itemId = x /\ v[t].stackCount < StackLimit[x]
                 => s = t
        BY <3>1, <3>2, BankSortIs
      <3> HIDE DEF v
      <3>4. InOrder(v, n)
        BY <3>2, <3>3, InOrderIs
      <3> QED
        BY <3>1, <3>4 DEF v, n
    <2> QED
      BY <2>1, <2>2
  <1> QED
    BY <1>1, Invariance, PTL DEF Spec, SortLeavesOrder
=============================================================================
