--------------------------- MODULE Inventory_proof ---------------------------
(***************************************************************************)
(* What the operations of an inventory do, for any slots, items and stack  *)
(* limits, and what the proofs about them rest on.                         *)
(*                                                                         *)
(* The operations are folds over the slots.  A fold over a finite set is   *)
(* shown to have a result by looking at a smallest set that has none, and  *)
(* the result to have a property by looking at a smallest set for which it *)
(* has not; a fold over a sequence is one over the indices up to a last    *)
(* one.  From that follow sums over sets of slots and players, and what    *)
(* addItem, removeItem and moveItem leave in the slots.                    *)
(***************************************************************************)
EXTENDS Inventory, FiniteSetTheorems, WellFoundedInduction, TLAPS

-----------------------------------------------------------------------------
(* Folds.                                                                  *)

\* A family of finite sets has a member that leaves it whatever is taken out.
LEMMA SmallestSet ==
    ASSUME NEW S, IsFiniteSet(S), NEW Bad, Bad \subseteq SUBSET S, Bad # {}
    PROVE  \E s \in Bad : \A x \in s : s \ {x} \notin Bad
  <1>1. IsWellFoundedOn(StrictSubsetOrdering(S), SUBSET S)
    BY FS_StrictSubsetOrderingWellFounded, FS_FiniteSubsetsOfFinite
  <1>2. PICK s \in Bad : \A t \in Bad : <<t, s>> \notin StrictSubsetOrdering(S)
    BY <1>1, WFMin
  <1>3. ASSUME NEW x \in s  PROVE <<s \ {x}, s>> \in StrictSubsetOrdering(S)
    BY DEF StrictSubsetOrdering
  <1> QED
    BY <1>2, <1>3

\* first names an element of every set that has one.
Picks(first, S) == \A s \in SUBSET S : s # {} => first[s] \in s

\* f is the fold of step over the subsets of S: from base, element by element.
Folds(f, S, base, first, step) ==
    /\ f[{}] = base
    /\ \A s \in SUBSET S : s # {} => f[s] = step[<<first[s], f[s \ {first[s]}]>>]

\* Folding a finite set, always from one of its elements to the rest, has a
\* result: the relation between the subsets and their results is a function.
LEMMA FoldExists ==
    ASSUME NEW S, IsFiniteSet(S), NEW T, NEW base \in T,
           NEW first, Picks(first, S), NEW step \in [S \X T -> T]
    PROVE  \E f \in [SUBSET S -> T] : Folds(f, S, base, first, step)
  <1>p. \A s \in SUBSET S : s # {} => first[s] \in s
    BY DEF Picks
  <1> DEFINE Closed(R) ==
               /\ <<{}, base>> \in R
               /\ \A s \in SUBSET S, v \in T :
                    s # {} /\ <<s \ {first[s]}, v>> \in R =>
                      <<s, step[<<first[s], v>>]>> \in R
             G == {p \in (SUBSET S) \X T : \A R \in SUBSET ((SUBSET S) \X T) : Closed(R) => p \in R}
  <1>1. Closed(G)
    BY <1>p
  <1>2. \A R \in SUBSET ((SUBSET S) \X T) : Closed(R) => G \subseteq R
    OBVIOUS
  <1>3. G \in SUBSET ((SUBSET S) \X T)
    OBVIOUS
  <1> HIDE DEF G
  <1> DEFINE Unique(s) == \E v \in T : <<s, v>> \in G /\ \A w \in T : <<s, w>> \in G => w = v
             Bad == {s \in SUBSET S : ~ Unique(s)}
  <1>4. Unique({})
    <2>1. <<{}, base>> \in G
      BY <1>1
    <2>2. ASSUME NEW w \in T, <<{}, w>> \in G, w # base  PROVE FALSE
      <3>1. Closed(G \ {<<{}, w>>})
        BY <1>1, <2>2
      <3> QED
        BY <1>2, <1>3, <2>2, <3>1
    <2> QED
      BY <2>1, <2>2
  <1>5. ASSUME NEW s \in SUBSET S, s # {}, Unique(s \ {first[s]})
        PROVE  Unique(s) /\ \A v, w \in T : <<s \ {first[s]}, v>> \in G /\ <<s, w>> \in G => w = step[<<first[s], v>>]
    <2>1. PICK v \in T : <<s \ {first[s]}, v>> \in G /\ \A w \in T : <<s \ {first[s]}, w>> \in G => w = v
      BY <1>5
    <2> DEFINE u == step[<<first[s], v>>]
    <2>2. u \in T /\ <<s, u>> \in G
      BY <1>p, <1>1, <1>5, <2>1
    <2>3. ASSUME NEW w \in T, <<s, w>> \in G, w # u  PROVE FALSE
      <3>1. Closed(G \ {<<s, w>>})
        BY <1>p, <1>1, <1>5, <2>1, <2>3
      <3> QED
        BY <1>2, <1>3, <2>3, <3>1
    <2> QED
      BY <2>1, <2>2, <2>3
  <1>6. Bad = {}
    <2> SUFFICES ASSUME Bad # {}  PROVE FALSE
      OBVIOUS
    <2>1. PICK s \in Bad : \A x \in s : s \ {x} \notin Bad
      BY SmallestSet
    <2>2. s # {} /\ s \in SUBSET S
      BY <1>4, <2>1
    <2> QED
      BY <1>p, <1>5, <2>1, <2>2
  <1> DEFINE f == [s \in SUBSET S |-> CHOOSE v \in T : <<s, v>> \in G]
  <1>7. ASSUME NEW s \in SUBSET S  PROVE f[s] \in T /\ <<s, f[s]>> \in G /\ Unique(s)
    BY <1>6
  <1>8. f[{}] = base
    BY <1>1, <1>4, <1>7
  <1>9. ASSUME NEW s \in SUBSET S, s # {}  PROVE f[s] = step[<<first[s], f[s \ {first[s]}]>>]
    <2>1. s \ {first[s]} \in SUBSET S
      OBVIOUS
    <2> QED
      BY <1>p, <1>5, <1>7, <1>9, <2>1
  <1> QED
    BY <1>7, <1>8, <1>9 DEF Folds

\* Whatever solves the equations of such a fold stays in T.
LEMMA FoldStays ==
    ASSUME NEW S, IsFiniteSet(S), NEW T,
           NEW first, Picks(first, S), NEW g, g[{}] \in T,
           \A s \in SUBSET S : s # {} /\ g[s \ {first[s]}] \in T => g[s] \in T
    PROVE  \A s \in SUBSET S : g[s] \in T
  <1> DEFINE Bad == {s \in SUBSET S : g[s] \notin T}
  <1> SUFFICES ASSUME Bad # {}  PROVE FALSE
    OBVIOUS
  <1>1. PICK s \in Bad : \A x \in s : s \ {x} \notin Bad
    BY SmallestSet
  <1> QED
    BY <1>1 DEF Picks

\* A finite set of numbers that has one has a greatest one.
LEMMA GreatestOne ==
    ASSUME NEW S, IsFiniteSet(S), S \subseteq Int, S # {}
    PROVE  Max(S) \in S /\ \A y \in S : Max(S) >= y
  <1> DEFINE Bad == {r \in SUBSET S : r # {} /\ ~ \E x \in r : \A y \in r : x >= y}
  <1>1. Bad = {}
    <2> SUFFICES ASSUME Bad # {}  PROVE FALSE
      OBVIOUS
    <2>1. Bad \subseteq SUBSET S
      OBVIOUS
    <2>2. PICK r \in Bad : \A x \in r : r \ {x} \notin Bad
      <3> HIDE DEF Bad
      <3> QED
        BY <2>1, SmallestSet
    <2>3. PICK x \in r : TRUE
      BY <2>2
    <2>4. CASE r = {x}
      BY <2>2, <2>4
    <2>5. CASE r # {x}
      <3>1. PICK m \in r \ {x} : \A y \in r \ {x} : m >= y
        BY <2>2, <2>3, <2>5
      <3>2. x \in Int /\ m \in Int /\ \A y \in r : y \in Int
        BY <2>2, <3>1
      <3>3. CASE x >= m
        BY <2>2, <3>1, <3>2, <3>3
      <3>4. CASE m >= x
        BY <2>2, <3>1, <3>2, <3>4
      <3> QED
        BY <3>2, <3>3, <3>4
    <2> QED
      BY <2>4, <2>5
  <1>2. S \in SUBSET S
    OBVIOUS
  <1> QED
    BY <1>1, <1>2 DEF Max

\* And a least one.
LEMMA LeastOne ==
    ASSUME NEW S, IsFiniteSet(S), S \subseteq Int, S # {}
    PROVE  Min(S) \in S
  <1> DEFINE Bad == {r \in SUBSET S : r # {} /\ ~ \E x \in r : \A y \in r : x <= y}
  <1>1. Bad = {}
    <2> SUFFICES ASSUME Bad # {}  PROVE FALSE
      OBVIOUS
    <2>1. Bad \subseteq SUBSET S
      OBVIOUS
    <2>2. PICK r \in Bad : \A x \in r : r \ {x} \notin Bad
      <3> HIDE DEF Bad
      <3> QED
        BY <2>1, SmallestSet
    <2>3. PICK x \in r : TRUE
      BY <2>2
    <2>4. CASE r = {x}
      BY <2>2, <2>4
    <2>5. CASE r # {x}
      <3>1. PICK m \in r \ {x} : \A y \in r \ {x} : m <= y
        BY <2>2, <2>3, <2>5
      <3>2. x \in Int /\ m \in Int /\ \A y \in r : y \in Int
        BY <2>2, <3>1
      <3>3. CASE x <= m
        BY <2>2, <3>1, <3>2, <3>3
      <3>4. CASE m <= x
        BY <2>2, <3>1, <3>2, <3>4
      <3> QED
        BY <3>2, <3>3, <3>4
    <2> QED
      BY <2>4, <2>5
  <1>2. S \in SUBSET S
    OBVIOUS
  <1> QED
    BY <1>1, <1>2 DEF Min

\* A sequence is folded from its last index to the rest.
LEMMA LastIndex ==
    ASSUME NEW n \in Nat, NEW s \in SUBSET (1 .. n), s # {}
    PROVE  Max(s) \in s
  <1>1. IsFiniteSet(1 .. n)
    BY FS_Interval
  <1>2. IsFiniteSet(s)
    BY <1>1, FS_Subset
  <1>3. s \subseteq Int
    OBVIOUS
  <1> QED
    BY <1>2, <1>3, GreatestOne

\* f is the fold that FoldLeft is, over the indices 1 .. n.
LeftFolds(f, n, base, step) ==
    f = [s \in SUBSET (1 .. n) |->
           IF s = {} THEN base ELSE step[<<Max(s), f[s \ {Max(s)}]>>]]

\* A fold over 1 .. n of a function that stays in T has a solution.
LEMMA FoldLeftSolved ==
    ASSUME NEW n \in Nat, NEW T, NEW base \in T, NEW step \in [(1 .. n) \X T -> T]
    PROVE  \E f \in [SUBSET (1 .. n) -> T] : LeftFolds(f, n, base, step)
  <1> DEFINE first == [s \in SUBSET (1 .. n) |-> Max(s)]
  <1>1. IsFiniteSet(1 .. n)
    BY FS_Interval
  <1>2. Picks(first, 1 .. n)
    BY LastIndex DEF Picks
  <1>3. PICK f \in [SUBSET (1 .. n) -> T] :
           Folds(f, 1 .. n, base, first, step)
    <2> HIDE DEF first
    <2> QED
      BY <1>1, <1>2, FoldExists
  <1> QED
    BY <1>3 DEF Folds, LeftFolds

\* The prefixes of 1 .. n are what FoldLeft passes through.
LEMMA PrefixOf ==
    ASSUME NEW n \in Nat, NEW k \in 1 .. n
    PROVE  /\ 1 .. k \in SUBSET (1 .. n) /\ 1 .. k # {}
           /\ Max(1 .. k) = k
           /\ (1 .. k) \ {k} = 1 .. (k - 1)
  <1>1. 1 .. k \in SUBSET (1 .. n) /\ k \in 1 .. k
    OBVIOUS
  <1>2. \A m \in 1 .. k : (\A y \in 1 .. k : m >= y) <=> m = k
    BY <1>1
  <1>3. Max(1 .. k) = k
    BY <1>1, <1>2 DEF Max
  <1>4. (1 .. k) \ {k} = 1 .. (k - 1)
    OBVIOUS
  <1> QED
    BY <1>1, <1>3, <1>4

\* A fold that is in good[k - 1] before its step k and in good[k] after it.
LEMMA FoldLeftSteps ==
    ASSUME NEW n \in Nat, NEW g, NEW good, g[{}] \in good[0],
           \A k \in 1 .. n : g[1 .. (k - 1)] \in good[k - 1] => g[1 .. k] \in good[k]
    PROVE  g[1 .. n] \in good[n]
  <1> DEFINE Bad == {s \in SUBSET (1 .. n) : \E k \in 0 .. n : s = 1 .. k /\ g[1 .. k] \notin good[k]}
  <1>1. Bad = {}
    <2> SUFFICES ASSUME Bad # {}  PROVE FALSE
      OBVIOUS
    <2>1. IsFiniteSet(1 .. n)
      BY FS_Interval
    <2>b. Bad \subseteq SUBSET (1 .. n)
      OBVIOUS
    <2>2. PICK s \in Bad : \A x \in s : s \ {x} \notin Bad
      <3> HIDE DEF Bad
      <3> QED
        BY <2>1, <2>b, SmallestSet
    <2>3. PICK k \in 0 .. n : s = 1 .. k /\ g[1 .. k] \notin good[k]
      BY <2>2
    <2>4. CASE k = 0
      <3>1. 1 .. 0 = {}
        OBVIOUS
      <3> QED
        BY <2>3, <2>4, <3>1
    <2>5. CASE k # 0
      <3>1. k \in 1 .. n /\ k - 1 \in 0 .. n
        BY <2>5
      <3>2. s \ {k} = 1 .. (k - 1) /\ k \in s
        BY <2>3, <3>1, PrefixOf
      <3>3. s \ {k} \notin Bad
        BY <2>2, <3>2
      <3>4. s \ {k} \in SUBSET (1 .. n)
        OBVIOUS
      <3>5. g[1 .. (k - 1)] \in good[k - 1]
        BY <3>1, <3>2, <3>3, <3>4
      <3> QED
        BY <2>3, <3>1, <3>5
    <2> QED
      BY <2>4, <2>5
  <1>2. 1 .. n \in SUBSET (1 .. n) /\ n \in 0 .. n
    OBVIOUS
  <1> QED
    BY <1>1, <1>2

\* The same where what holds does not depend on the step.
LEMMA FoldLeftStays ==
    ASSUME NEW n \in Nat, NEW T, NEW g, g[{}] \in T,
           \A k \in 1 .. n : g[1 .. (k - 1)] \in T => g[1 .. k] \in T
    PROVE  g[1 .. n] \in T
  <1> DEFINE good == [k \in 0 .. n |-> T]
  <1>1. \A k \in 0 .. n : good[k] = T
    OBVIOUS
  <1>2. 0 \in 0 .. n /\ n \in 0 .. n /\ \A k \in 1 .. n : k \in 0 .. n /\ k - 1 \in 0 .. n
    OBVIOUS
  <1> HIDE DEF good
  <1>3. /\ g[{}] \in good[0]
        /\ \A k \in 1 .. n : g[1 .. (k - 1)] \in good[k - 1] => g[1 .. k] \in good[k]
    BY <1>1, <1>2
  <1>4. g[1 .. n] \in good[n]
    BY <1>3, FoldLeftSteps
  <1> QED
    BY <1>1, <1>2, <1>4

-----------------------------------------------------------------------------
(* Numbers in order.                                                       *)

IsAscending(f, S) ==
    /\ f \in [1 .. Cardinality(S) -> S]
    /\ \A i, j \in 1 .. Cardinality(S) : i < j => f[i] < f[j]

\* Every finite set of numbers is the range of an ascending sequence, which has
\* each of them once.
LEMMA AscendingIs ==
    ASSUME NEW S, IsFiniteSet(S), S \subseteq Int
    PROVE  /\ Cardinality(S) \in Nat
           /\ Ascending(S) \in [1 .. Cardinality(S) -> S]
           /\ DOMAIN Ascending(S) = 1 .. Cardinality(S)
           /\ \A i, j \in 1 .. Cardinality(S) : i < j => Ascending(S)[i] < Ascending(S)[j]
           /\ \A i, j \in 1 .. Cardinality(S) : i # j => Ascending(S)[i] # Ascending(S)[j]
           /\ \A x \in S : \E i \in 1 .. Cardinality(S) : Ascending(S)[i] = x
  <1> DEFINE Bad == {r \in SUBSET S : ~ \E f : IsAscending(f, r)}
             N == 1 .. Cardinality(S)
             a == Ascending(S)
  <1>1. ASSUME Bad # {}  PROVE FALSE
    <2>1. Bad \subseteq SUBSET S
      OBVIOUS
    <2>2. PICK r \in Bad : \A x \in r : r \ {x} \notin Bad
      <3> HIDE DEF Bad
      <3> QED
        BY <1>1, <2>1, SmallestSet
    <2>3. IsFiniteSet(r) /\ r \subseteq Int
      BY <2>2, FS_Subset
    <2>4. CASE r = {}
      <3>1. Cardinality(r) = 0 /\ 1 .. 0 = {}
        BY <2>4, FS_EmptySet
      <3>2. IsAscending([i \in 1 .. 0 |-> i], r)
        BY <3>1 DEF IsAscending
      <3> QED
        BY <2>2, <3>2
    <2>5. CASE r # {}
      <3> DEFINE m == Max(r)
                 rest == r \ {m}
                 n == Cardinality(rest)
      <3>1. m \in r /\ \A y \in r : m >= y
        BY <2>3, <2>5, GreatestOne
      <3> HIDE DEF m
      <3>2. PICK f : IsAscending(f, rest)
        BY <2>2, <3>1
      <3>3. IsFiniteSet(rest) /\ n \in Nat
        BY <2>3, FS_RemoveElement, FS_CardinalityType
      <3>4. Cardinality(r) = n + 1
        <4>1. r = rest \cup {m} /\ m \notin rest
          BY <3>1
        <4> HIDE DEF rest
        <4> QED
          BY <3>3, <4>1, FS_AddElement
      <3>5. \A y \in rest : y < m
        BY <2>3, <3>1
      <3>6. f \in [1 .. n -> rest] /\ \A i, j \in 1 .. n : i < j => f[i] < f[j]
        BY <3>2 DEF IsAscending
      <3> DEFINE g == [i \in 1 .. n + 1 |-> IF i = n + 1 THEN m ELSE f[i]]
      <3>7. rest \subseteq r
        OBVIOUS
      <3> HIDE DEF n, rest
      <3>8. g \in [1 .. n + 1 -> r]
        <4>1. ASSUME NEW i \in 1 .. n + 1, i # n + 1  PROVE f[i] \in r
          <5>1. i \in 1 .. n
            BY <3>3, <4>1
          <5> QED
            BY <3>6, <3>7, <5>1
        <4> QED
          BY <3>1, <4>1
      <3>9. ASSUME NEW i \in 1 .. n + 1, NEW j \in 1 .. n + 1, i < j
            PROVE  g[i] < g[j]
        <4>1. i \in 1 .. n /\ g[i] = f[i] /\ f[i] \in rest
          BY <3>3, <3>6, <3>9
        <4>2. CASE j = n + 1
          BY <3>5, <4>1, <4>2
        <4>3. CASE j # n + 1
          BY <3>3, <3>6, <3>9, <4>1, <4>3
        <4> QED
          BY <4>2, <4>3
      <3> HIDE DEF g
      <3>10. IsAscending(g, r)
        BY <3>4, <3>8, <3>9 DEF IsAscending
      <3> QED
        BY <2>2, <3>10
    <2> QED
      BY <2>4, <2>5
  <1>2. \E f : IsAscending(f, S)
    BY <1>1
  <1>3. IsAscending(a, S)
    BY <1>2 DEF IsAscending, Ascending
  <1> HIDE DEF a
  <1>4. Cardinality(S) \in Nat
    BY FS_CardinalityType
  <1>5. a \in [N -> S] /\ \A i, j \in N : i < j => a[i] < a[j]
    BY <1>3 DEF IsAscending
  <1>6. \A i, j \in N : i # j => a[i] # a[j]
    <2>1. ASSUME NEW i \in N, NEW j \in N, i # j, a[i] = a[j]  PROVE FALSE
      <3>1. i < j \/ j < i
        BY <1>4, <2>1
      <3>2. a[i] \in Int
        BY <1>5
      <3> QED
        BY <1>5, <2>1, <3>1, <3>2
    <2> QED
      BY <2>1
  <1>7. \A x \in S : \E i \in N : a[i] = x
    <2>1. a \in Injection(N, S)
      BY <1>5, <1>6 DEF Injection, IsInjective
    <2>2. IsFiniteSet(N) /\ Cardinality(N) = Cardinality(S)
      BY <1>4, FS_Interval
    <2>3. a \in Surjection(N, S)
      <3> HIDE DEF N
      <3> QED
        BY <2>1, <2>2, FS_Injection
    <2> QED
      BY <2>3 DEF Surjection
  <1> QED
    BY <1>4, <1>5, <1>6, <1>7 DEF a

-----------------------------------------------------------------------------
(* Sums.  SumFunctionOnSet picks the elements of a set in an order nobody  *)
(* knows; what it adds up to does not depend on it.                        *)

First(s) == CHOOSE x \in s : TRUE

Sums(f, fun, S) ==
    f = [s \in SUBSET S |-> IF s = {} THEN 0 ELSE fun[First(s)] + f[s \ {First(s)}]]

SumOver(fun, S) == CHOOSE f : Sums(f, fun, S)

LEMMA SumIs ==
    ASSUME NEW S, NEW fun
    PROVE  SumFunctionOnSet(fun, S) = SumOver(fun, S)[S]
  BY DEF SumFunctionOnSet, FoldFunctionOnSet, MapThenFoldSet, SumOver, Sums, First

LEMMA SumSolved ==
    ASSUME NEW S, IsFiniteSet(S), NEW fun, \A x \in S : fun[x] \in Nat
    PROVE  Sums(SumOver(fun, S), fun, S) /\ \A s \in SUBSET S : SumOver(fun, S)[s] \in Nat
  <1> DEFINE first == [s \in SUBSET S |-> First(s)]
             step == [p \in S \X Nat |-> fun[p[1]] + p[2]]
             g == SumOver(fun, S)
  <1>1. Picks(first, S)
    BY DEF Picks, First
  <1>2. step \in [S \X Nat -> Nat]
    OBVIOUS
  <1>3. PICK f \in [SUBSET S -> Nat] : Folds(f, S, 0, first, step)
    <2> HIDE DEF first, step
    <2>1. 0 \in Nat
      OBVIOUS
    <2> QED
      BY <1>1, <1>2, <2>1, FoldExists
  <1>4. Sums(f, fun, S)
    <2>1. ASSUME NEW s \in SUBSET S, s # {}
          PROVE  f[s] = fun[First(s)] + f[s \ {First(s)}]
      <3>1. First(s) \in S /\ s \ {First(s)} \in SUBSET S
        BY <2>1 DEF First
      <3> QED
        BY <1>3, <2>1, <3>1 DEF Folds
    <2> QED
      BY <1>3, <2>1 DEF Folds, Sums
  <1>5. Sums(g, fun, S)
    BY <1>4 DEF SumOver
  <1> HIDE DEF g
  <1>6. g[{}] \in Nat
    BY <1>5 DEF Sums
  <1>7. ASSUME NEW s \in SUBSET S, s # {}, g[s \ {first[s]}] \in Nat  PROVE g[s] \in Nat
    <2>1. First(s) \in S /\ s \ {First(s)} \in SUBSET S
      BY <1>7 DEF First
    <2>2. g[s] = fun[First(s)] + g[s \ {First(s)}]
      BY <1>5, <1>7 DEF Sums
    <2>3. fun[First(s)] \in Nat /\ g[s \ {First(s)}] \in Nat
      BY <1>7, <2>1
    <2> QED
      BY <2>2, <2>3
  <1> HIDE DEF first
  <1>8. \A s \in SUBSET S : g[s] \in Nat
    BY <1>1, <1>6, <1>7, FoldStays
  <1> QED
    BY <1>5, <1>8 DEF g

\* A sum is found in the summing of any larger set, and does not depend on
\* what is not summed.
LEMMA SumWithin ==
    ASSUME NEW S, IsFiniteSet(S), NEW fun, \A x \in S : fun[x] \in Nat,
           NEW T \in SUBSET S, NEW gun, \A x \in T : gun[x] = fun[x]
    PROVE  SumFunctionOnSet(gun, T) = SumOver(fun, S)[T]
  <1> DEFINE f == SumOver(fun, S)
             g == SumOver(gun, T)
             Bad == {s \in SUBSET T : g[s] # f[s]}
  <1>1. IsFiniteSet(T)
    BY FS_Subset
  <1>2. Sums(f, fun, S) /\ Sums(g, gun, T)
    BY <1>1, SumSolved
  <1> HIDE DEF f, g
  <1>3. Bad = {}
    <2> SUFFICES ASSUME Bad # {}  PROVE FALSE
      OBVIOUS
    <2>1. Bad \subseteq SUBSET T
      OBVIOUS
    <2>2. PICK s \in Bad : \A x \in s : s \ {x} \notin Bad
      <3> HIDE DEF Bad
      <3> QED
        BY <1>1, <2>1, SmallestSet
    <2>3. CASE s = {}
      BY <1>2, <2>2, <2>3 DEF Sums
    <2>4. CASE s # {}
      <3>1. First(s) \in s /\ First(s) \in T
        BY <2>2, <2>4 DEF First
      <3>2. s \in SUBSET T /\ s \in SUBSET S /\ s \ {First(s)} \in SUBSET T
        BY <2>2
      <3>3. g[s \ {First(s)}] = f[s \ {First(s)}]
        BY <2>2, <3>1, <3>2
      <3>4. f[s] = fun[First(s)] + f[s \ {First(s)}]
        BY <1>2, <2>4, <3>2 DEF Sums
      <3>5. g[s] = gun[First(s)] + g[s \ {First(s)}]
        BY <1>2, <2>4, <3>2 DEF Sums
      <3> QED
        BY <2>2, <3>1, <3>3, <3>4, <3>5
    <2> QED
      BY <2>3, <2>4
  <1>4. g[T] = f[T]
    BY <1>3
  <1> QED
    BY <1>4, SumIs DEF f, g

\* Any element may be added last; the sum of nothing is 0.
LEMMA SumTake ==
    ASSUME NEW S, IsFiniteSet(S), NEW fun, \A x \in S : fun[x] \in Nat
    PROVE  /\ SumFunctionOnSet(fun, S) \in Nat
           /\ S = {} => SumFunctionOnSet(fun, S) = 0
           /\ \A x \in S :
                 /\ SumFunctionOnSet(fun, S \ {x}) \in Nat
                 /\ SumFunctionOnSet(fun, S) = fun[x] + SumFunctionOnSet(fun, S \ {x})
  <1> DEFINE f == SumOver(fun, S)
             Bad == {s \in SUBSET S : \E x \in s : f[s] # fun[x] + f[s \ {x}]}
  <1>1. Sums(f, fun, S) /\ \A s \in SUBSET S : f[s] \in Nat
    BY SumSolved
  <1>2. \A T \in SUBSET S : SumFunctionOnSet(fun, T) = f[T]
    BY SumWithin
  <1> HIDE DEF f
  <1>3. Bad = {}
    <2> SUFFICES ASSUME Bad # {}  PROVE FALSE
      OBVIOUS
    <2>1. Bad \subseteq SUBSET S
      OBVIOUS
    <2>2. PICK s \in Bad : \A x \in s : s \ {x} \notin Bad
      <3> HIDE DEF Bad
      <3> QED
        BY <2>1, SmallestSet
    <2>3. PICK x \in s : f[s] # fun[x] + f[s \ {x}]
      BY <2>2
    <2> DEFINE c == First(s)
    <2>4. c \in s
      BY <2>3 DEF First
    <2> HIDE DEF c
    <2>5. s \in SUBSET S /\ s # {}
      BY <2>2, <2>3
    <2>6. f[s] = fun[c] + f[s \ {c}]
      BY <1>1, <2>5 DEF Sums, c
    <2>7. x # c
      BY <2>3, <2>6
    <2>8. /\ s \ {c} \in SUBSET S /\ x \in s \ {c}
          /\ s \ {x} \in SUBSET S /\ c \in s \ {x}
      BY <2>3, <2>4, <2>5, <2>7
    <2>9. f[s \ {c}] = fun[x] + f[(s \ {c}) \ {x}]
      BY <2>2, <2>4, <2>8
    <2>10. f[s \ {x}] = fun[c] + f[(s \ {x}) \ {c}]
      BY <2>2, <2>3, <2>8
    <2>11. (s \ {c}) \ {x} = (s \ {x}) \ {c} /\ (s \ {x}) \ {c} \in SUBSET S
      BY <2>5
    <2>12. fun[x] \in Nat /\ fun[c] \in Nat /\ f[(s \ {x}) \ {c}] \in Nat
      BY <1>1, <2>3, <2>4, <2>5, <2>11
    <2>13. f[(s \ {c}) \ {x}] = f[(s \ {x}) \ {c}]
      BY <2>11
    <2> QED
      BY <2>3, <2>6, <2>9, <2>10, <2>12, <2>13
  <1>4. S \in SUBSET S /\ \A x \in S : S \ {x} \in SUBSET S
    OBVIOUS
  <1>5. \A x \in S : f[S] = fun[x] + f[S \ {x}]
    BY <1>3, <1>4
  <1>6. S = {} => f[S] = 0
    BY <1>1, <1>4 DEF Sums
  <1> QED
    BY <1>1, <1>2, <1>4, <1>5, <1>6

\* Zeros add up to nothing.
LEMMA SumOfNothing ==
    ASSUME NEW S, NEW fun, \A x \in S : fun[x] = 0,
           NEW T \in SUBSET S, IsFiniteSet(T)
    PROVE  SumFunctionOnSet(fun, T) = 0
  <1> DEFINE Bad == {U \in SUBSET T : SumFunctionOnSet(fun, U) # 0}
  <1>1. \A U \in SUBSET T : IsFiniteSet(U) /\ \A x \in U : fun[x] \in Nat /\ fun[x] = 0
    BY FS_Subset
  <1>2. Bad = {}
    <2> SUFFICES ASSUME Bad # {}  PROVE FALSE
      OBVIOUS
    <2>1. Bad \subseteq SUBSET T
      OBVIOUS
    <2>2. PICK U \in Bad : \A x \in U : U \ {x} \notin Bad
      <3> HIDE DEF Bad
      <3> QED
        BY <2>1, SmallestSet
    <2>3. U \in SUBSET T /\ SumFunctionOnSet(fun, U) # 0
      BY <2>2
    <2>4. U # {}
      BY <1>1, <2>3, SumTake
    <2>5. PICK x \in U : TRUE
      BY <2>4
    <2>6. SumFunctionOnSet(fun, U \ {x}) = 0
      BY <2>2, <2>3
    <2>7. SumFunctionOnSet(fun, U) = fun[x] + SumFunctionOnSet(fun, U \ {x})
      BY <1>1, <2>3, SumTake
    <2> QED
      BY <1>1, <2>3, <2>6, <2>7
  <1> QED
    BY <1>2

\* Only the summed values count.
LEMMA SumSame ==
    ASSUME NEW S, IsFiniteSet(S), NEW fun, \A x \in S : fun[x] \in Nat,
           NEW gun, \A x \in S : gun[x] = fun[x]
    PROVE  SumFunctionOnSet(gun, S) = SumFunctionOnSet(fun, S)
  <1>1. S \in SUBSET S
    OBVIOUS
  <1>2. SumFunctionOnSet(gun, S) = SumOver(fun, S)[S]
    BY <1>1, SumWithin
  <1> QED
    BY <1>2, SumIs

\* Two values that exchange something leave the sum.
LEMMA SumOfExchange ==
    ASSUME NEW S, IsFiniteSet(S), NEW fun \in [S -> Nat], NEW gun \in [S -> Nat],
           NEW a \in S, NEW b \in S, a # b,
           \A x \in S \ {a, b} : gun[x] = fun[x],
           gun[a] + gun[b] = fun[a] + fun[b]
    PROVE  SumFunction(gun) = SumFunction(fun)
  <1> DEFINE T == S \ {a}
             R == T \ {b}
             F(U) == SumFunctionOnSet(fun, U)
             G(U) == SumFunctionOnSet(gun, U)
  <1>1. IsFiniteSet(T) /\ IsFiniteSet(R) /\ b \in T
    BY FS_RemoveElement
  <1>2. \A x \in S : fun[x] \in Nat /\ gun[x] \in Nat
    OBVIOUS
  <1>3. F(S) = fun[a] + F(T) /\ F(T) = fun[b] + F(R) /\ F(R) \in Nat
    <2>1. \A x \in T : fun[x] \in Nat
      BY <1>2
    <2> HIDE DEF T
    <2>2. F(T) = fun[b] + F(R) /\ F(R) \in Nat
      BY <1>1, <2>1, SumTake
    <2>3. F(S) = fun[a] + F(S \ {a})
      BY <1>2, SumTake
    <2> QED
      BY <2>2, <2>3 DEF T
  <1>4. G(S) = gun[a] + G(T) /\ G(T) = gun[b] + G(R) /\ G(R) \in Nat
    <2>1. \A x \in T : gun[x] \in Nat
      BY <1>2
    <2> HIDE DEF T
    <2>2. G(T) = gun[b] + G(R) /\ G(R) \in Nat
      BY <1>1, <2>1, SumTake
    <2>3. G(S) = gun[a] + G(S \ {a})
      BY <1>2, SumTake
    <2> QED
      BY <2>2, <2>3 DEF T
  <1>5. G(R) = F(R)
    <2>1. \A x \in R : fun[x] \in Nat /\ gun[x] = fun[x]
      BY <1>2
    <2> HIDE DEF R
    <2> QED
      BY <1>1, <2>1, SumSame
  <1>6. SumFunction(fun) = F(S) /\ SumFunction(gun) = G(S)
    BY DEF SumFunction
  <1> HIDE DEF F, G, R, T
  <1> QED
    BY <1>2, <1>3, <1>4, <1>5, <1>6

-----------------------------------------------------------------------------
(* Stacks.                                                                 *)

\* A stack is nothing, or of an item and within its limit.
LEMMA StackIs ==
    /\ \A st \in Stack : ~ IsEmpty(st) =>
          /\ st \in [itemId : Item, stackCount : Nat, mark : BOOLEAN]
          /\ st.stackCount \in 1 .. StackLimit[st.itemId]
    /\ \A x \in Item, n \in Nat, m \in BOOLEAN :
          n \in 1 .. StackLimit[x] => [itemId |-> x, stackCount |-> n, mark |-> m] \in Stack
    /\ EmptyStack \in Stack /\ IsEmpty(EmptyStack)
    /\ \A st \in Stack : IsEmpty(st) => st = EmptyStack
    /\ \A x \in Item : x # 0 /\ x \in Nat /\ StackLimit[x] \in Nat \ {0}
  <1>1. \A x \in Item : x # 0 /\ x \in Nat /\ StackLimit[x] \in Nat \ {0}
    BY ItemAssumption
  <1>2. \A st \in Stack : ~ IsEmpty(st) =>
          /\ st \in [itemId : Item, stackCount : Nat, mark : BOOLEAN]
          /\ st.stackCount \in 1 .. StackLimit[st.itemId]
    BY <1>1 DEF Stack, IsEmpty, EmptyStack
  <1>3. \A x \in Item, n \in Nat, m \in BOOLEAN :
          n \in 1 .. StackLimit[x] => [itemId |-> x, stackCount |-> n, mark |-> m] \in Stack
    BY <1>1 DEF Stack
  <1>4. EmptyStack \in Stack /\ IsEmpty(EmptyStack)
    BY DEF Stack, EmptyStack, IsEmpty
  <1>5. \A st \in Stack : IsEmpty(st) => st = EmptyStack
    BY <1>1 DEF Stack, IsEmpty
  <1> QED
    BY <1>1, <1>2, <1>3, <1>4, <1>5

LEMMA SlotsInOrder ==
    /\ SlotOrder \in [1 .. MAX_SLOTS -> Slot]
    /\ DOMAIN SlotOrder = 1 .. MAX_SLOTS
    /\ MAX_SLOTS \in Nat
  BY SlotsAssumption DEF SlotOrder, Slot

-----------------------------------------------------------------------------
(* Counting.                                                               *)

Slots == [Slot -> Stack]

\* What one stack adds to the count of item x.
Holds(st, x) == IF st.itemId = x THEN st.stackCount ELSE 0

LEMMA SlotsFinite ==
    /\ IsFiniteSet(Slot)
    /\ \A v, x : StacksOf(v, x) \in SUBSET Slot /\ IsFiniteSet(StacksOf(v, x))
    /\ \A v : EmptySlots(v) \in SUBSET Slot /\ IsFiniteSet(EmptySlots(v))
  <1>1. IsFiniteSet(Slot)
    BY SlotsAssumption, FS_Interval DEF Slot
  <1>2. \A v, x : StacksOf(v, x) \in SUBSET Slot
    BY DEF StacksOf
  <1>3. \A v : EmptySlots(v) \in SUBSET Slot
    BY DEF EmptySlots
  <1> QED
    BY <1>1, <1>2, <1>3, FS_Subset

LEMMA StackCounts ==
    ASSUME NEW st \in Stack
    PROVE  st.stackCount \in Nat /\ \A x : Holds(st, x) \in Nat
  <1>1. CASE IsEmpty(st)
    BY <1>1, StackIs DEF EmptyStack, Holds
  <1>2. CASE ~ IsEmpty(st)
    BY <1>2, StackIs DEF Holds
  <1> QED
    BY <1>1, <1>2

LEMMA CountIsNat ==
    ASSUME NEW v \in Slots, NEW x
    PROVE  CountItem(v, x) \in Nat
  <1> DEFINE counts == [t \in Slot |-> v[t].stackCount]
             S == StacksOf(v, x)
  <1>1. IsFiniteSet(S) /\ S \in SUBSET Slot
    BY SlotsFinite
  <1>2. \A t \in S : counts[t] \in Nat
    BY <1>1, StackCounts DEF Slots
  <1>3. CountItem(v, x) = SumFunctionOnSet(counts, S)
    BY DEF CountItem
  <1> HIDE DEF counts, S
  <1> QED
    BY <1>1, <1>2, <1>3, SumTake

\* A slot and the rest.
LEMMA CountSplits ==
    ASSUME NEW v \in Slots, NEW x, NEW s \in Slot
    PROVE  LET counts == [t \in Slot |-> v[t].stackCount]
               rest   == SumFunctionOnSet(counts, StacksOf(v, x) \ {s})
           IN  /\ rest \in Nat
               /\ CountItem(v, x) = Holds(v[s], x) + rest
  <1> DEFINE counts == [t \in Slot |-> v[t].stackCount]
             S == StacksOf(v, x)
             rest == SumFunctionOnSet(counts, S \ {s})
  <1>1. IsFiniteSet(S) /\ S \in SUBSET Slot
    BY SlotsFinite
  <1>2. \A t \in S : counts[t] \in Nat
    BY <1>1, StackCounts DEF Slots
  <1>3. CountItem(v, x) = SumFunctionOnSet(counts, S)
    BY DEF CountItem
  <1>4. s \in S <=> v[s].itemId = x
    BY DEF StacksOf
  <1>5. counts[s] = v[s].stackCount
    OBVIOUS
  <1> HIDE DEF counts, S
  <1>6. /\ SumFunctionOnSet(counts, S) \in Nat
        /\ \A t \in S : /\ SumFunctionOnSet(counts, S \ {t}) \in Nat
                        /\ SumFunctionOnSet(counts, S)
                             = counts[t] + SumFunctionOnSet(counts, S \ {t})
    BY <1>1, <1>2, SumTake
  <1>7. rest \in Nat /\ CountItem(v, x) = Holds(v[s], x) + rest
    <2>1. CASE s \in S
      BY <1>3, <1>4, <1>5, <1>6, <2>1 DEF Holds
    <2>2. CASE s \notin S
      <3>1. S \ {s} = S
        BY <2>2
      <3>2. rest = CountItem(v, x)
        BY <1>3, <3>1
      <3>3. Holds(v[s], x) = 0
        BY <1>4, <2>2 DEF Holds
      <3>4. CountItem(v, x) \in Nat
        BY <1>3, <1>6
      <3> HIDE DEF rest
      <3> QED
        BY <3>2, <3>3, <3>4
    <2> QED
      BY <2>1, <2>2
  <1> QED
    BY <1>7 DEF counts, S

\* Changing one slot changes the counts by what goes and what comes.
LEMMA CountPut ==
    ASSUME NEW v \in Slots, NEW w \in Slots, NEW x, NEW s \in Slot,
           \A t \in Slot \ {s} : w[t] = v[t]
    PROVE  /\ CountItem(v, x) \in Nat /\ CountItem(w, x) \in Nat
           /\ CountItem(w, x) + Holds(v[s], x) = CountItem(v, x) + Holds(w[s], x)
  <1> DEFINE cv == [t \in Slot |-> v[t].stackCount]
             cw == [t \in Slot |-> w[t].stackCount]
             S  == StacksOf(v, x) \ {s}
             T  == StacksOf(w, x) \ {s}
  <1>1. /\ SumFunctionOnSet(cv, S) \in Nat
        /\ CountItem(v, x) = Holds(v[s], x) + SumFunctionOnSet(cv, S)
    BY CountSplits
  <1>2. /\ SumFunctionOnSet(cw, T) \in Nat
        /\ CountItem(w, x) = Holds(w[s], x) + SumFunctionOnSet(cw, T)
    BY CountSplits
  <1>3. T = S
    BY DEF StacksOf
  <1>4. IsFiniteSet(S) /\ S \in SUBSET Slot
    BY SlotsFinite, FS_Subset
  <1>5. \A t \in S : cv[t] \in Nat /\ cw[t] = cv[t]
    BY <1>4, StackCounts DEF Slots
  <1> HIDE DEF cv, cw, S, T
  <1>6. SumFunctionOnSet(cw, S) = SumFunctionOnSet(cv, S)
    BY <1>4, <1>5, SumSame
  <1>7. Holds(v[s], x) \in Nat /\ Holds(w[s], x) \in Nat
    BY StackCounts DEF Slots
  <1> QED
    BY <1>1, <1>2, <1>3, <1>6, <1>7

\* The slots of v in A, and no others.
Only(v, A) == [s \in Slot |-> IF s \in A THEN v[s] ELSE EmptyStack]

\* What is in some of the slots and what is in the others make up the count.
LEMMA CountParts ==
    ASSUME NEW v \in Slots, NEW A \in SUBSET Slot, NEW x
    PROVE  /\ Only(v, A) \in Slots /\ Only(v, Slot \ A) \in Slots
           /\ CountItem(v, x) = CountItem(Only(v, A), x) + CountItem(Only(v, Slot \ A), x)
  <1> DEFINE In(B)  == Only(v, B)
             Out(B) == Only(v, Slot \ B)
             Bad == {B \in SUBSET Slot :
                       CountItem(v, x) # CountItem(In(B), x) + CountItem(Out(B), x)}
  <1>1. \A B \in SUBSET Slot : In(B) \in Slots /\ Out(B) \in Slots
    BY StackIs DEF Only, Slots
  <1>2. {} \notin Bad
    <2>1. Out({}) = v
      BY DEF Only, Slots
    <2>2. CountItem(In({}), x) = 0
      <3>1. In({}) = [s \in Slot |-> EmptyStack]
        BY DEF Only
      <3> DEFINE e == [s \in Slot |-> EmptyStack]
                 counts == [s \in Slot |-> e[s].stackCount]
      <3>2. CountItem(e, x) = SumFunctionOnSet(counts, StacksOf(e, x))
        BY DEF CountItem
      <3>3. \A s \in Slot : counts[s] = 0
        BY DEF EmptyStack
      <3>4. StacksOf(e, x) \in SUBSET Slot /\ IsFiniteSet(StacksOf(e, x))
        BY SlotsFinite
      <3> HIDE DEF counts
      <3>5. SumFunctionOnSet(counts, StacksOf(e, x)) = 0
        BY <3>3, <3>4, SumOfNothing
      <3> QED
        BY <3>1, <3>2, <3>5
    <2>3. CountItem(v, x) \in Nat
      BY CountIsNat
    <2> HIDE DEF In, Out
    <2> QED
      BY <2>1, <2>2, <2>3
  <1>3. ASSUME NEW B \in SUBSET Slot, NEW s \in B, B \ {s} \notin Bad
        PROVE  B \notin Bad
    <2> DEFINE C == B \ {s}
    <2>1. CountItem(v, x) = CountItem(In(C), x) + CountItem(Out(C), x)
      BY <1>3
    <2>2. /\ s \in Slot /\ C \in SUBSET Slot
          /\ In(B) \in Slots /\ Out(B) \in Slots /\ In(C) \in Slots /\ Out(C) \in Slots
      BY <1>1
    <2>3. /\ In(B)[s] = v[s] /\ In(C)[s] = EmptyStack
          /\ Out(B)[s] = EmptyStack /\ Out(C)[s] = v[s]
          /\ \A t \in Slot \ {s} : In(B)[t] = In(C)[t] /\ Out(B)[t] = Out(C)[t]
      BY <2>2 DEF Only
    <2>4. Holds(EmptyStack, x) = 0 /\ Holds(v[s], x) \in Nat
      BY <2>2, StackCounts DEF Slots, Holds, EmptyStack
    <2> HIDE DEF In, Out, C
    <2>5. /\ CountItem(In(C), x) \in Nat /\ CountItem(In(B), x) \in Nat
          /\ CountItem(In(B), x) + Holds(In(C)[s], x) = CountItem(In(C), x) + Holds(In(B)[s], x)
      <3>1. \A t \in Slot \ {s} : In(B)[t] = In(C)[t]
        BY <2>3
      <3> QED
        BY <2>2, <3>1, CountPut
    <2>6. /\ CountItem(Out(C), x) \in Nat /\ CountItem(Out(B), x) \in Nat
          /\ CountItem(Out(B), x) + Holds(Out(C)[s], x) = CountItem(Out(C), x) + Holds(Out(B)[s], x)
      BY <2>2, <2>3, CountPut
    <2> QED
      BY <2>1, <2>3, <2>4, <2>5, <2>6
  <1>4. Bad = {}
    <2> SUFFICES ASSUME Bad # {}  PROVE FALSE
      OBVIOUS
    <2>1. Bad \subseteq SUBSET Slot /\ \A B \in Bad : B \in SUBSET Slot
      OBVIOUS
    <2> HIDE DEF Bad
    <2>2. PICK B \in Bad : \A s \in B : B \ {s} \notin Bad
      BY <2>1, SlotsFinite, SmallestSet
    <2>3. B # {}
      BY <1>2, <2>2
    <2> QED
      BY <1>3, <2>1, <2>2, <2>3
  <1> QED
    BY <1>1, <1>4

\* Stacks of an item hold no more than their limit each.
LEMMA SumBound ==
    ASSUME NEW S, IsFiniteSet(S), NEW fun, NEW limit \in Nat,
           \A x \in S : fun[x] \in Nat /\ fun[x] <= limit
    PROVE  SumFunctionOnSet(fun, S) <= limit * Cardinality(S)
  <1> DEFINE sum(s) == SumFunctionOnSet(fun, s)
             Bad == {s \in SUBSET S : ~ (sum(s) <= limit * Cardinality(s))}
  <1>1. ASSUME Bad # {}  PROVE FALSE
    <2>1. Bad \subseteq SUBSET S
      OBVIOUS
    <2>2. PICK s \in Bad : \A x \in s : s \ {x} \notin Bad
      <3> HIDE DEF Bad
      <3> QED
        BY <1>1, <2>1, SmallestSet
    <2>3. s \in SUBSET S /\ ~ (sum(s) <= limit * Cardinality(s))
      <3> HIDE DEF sum
      <3> QED
        BY <2>2
    <2>4. IsFiniteSet(s) /\ \A x \in s : fun[x] \in Nat
      BY <2>3, FS_Subset
    <2>5. CASE s = {}
      <3>1. sum(s) = 0 /\ Cardinality(s) = 0
        BY <2>4, <2>5, SumTake, FS_EmptySet
      <3>2. limit * 0 = 0
        OBVIOUS
      <3> QED
        BY <2>3, <3>1, <3>2
    <2>6. CASE s # {}
      <3>1. PICK x \in s : TRUE
        BY <2>6
      <3> DEFINE rest == s \ {x}
                 n == Cardinality(rest)
      <3>2. sum(rest) \in Nat /\ sum(s) = fun[x] + sum(rest)
        BY <2>4, <3>1, SumTake
      <3>3. n \in Nat /\ Cardinality(s) = n + 1
        <4>1. IsFiniteSet(rest) /\ x \notin rest /\ s = rest \cup {x}
          BY <2>4, <3>1, FS_Subset
        <4> HIDE DEF rest
        <4> QED
          BY <4>1, FS_CardinalityType, FS_AddElement
      <3>4. rest \in SUBSET S /\ rest \notin Bad
        BY <2>2, <2>3, <3>1
      <3> HIDE DEF rest, sum
      <3>5. sum(rest) <= limit * n
        BY <3>4 DEF n
      <3> HIDE DEF n
      <3>6. limit * (n + 1) = limit * n + limit /\ limit * n \in Nat
        BY <3>3
      <3>7. fun[x] \in Nat /\ fun[x] <= limit
        BY <2>3, <3>1
      <3> DEFINE p == limit * n
      <3> HIDE DEF p
      <3>8. sum(s) <= p + limit
        BY <3>2, <3>5, <3>6, <3>7 DEF p
      <3> QED
        BY <2>3, <3>3, <3>6, <3>8 DEF p
    <2> QED
      BY <2>5, <2>6
  <1>2. S \in SUBSET S
    OBVIOUS
  <1> QED
    BY <1>1, <1>2

LEMMA CountBound ==
    ASSUME NEW v \in Slots, NEW x \in Item
    PROVE  CountItem(v, x) <= StackLimit[x] * Cardinality(StacksOf(v, x))
  <1> DEFINE counts == [t \in Slot |-> v[t].stackCount]
             S == StacksOf(v, x)
  <1>1. S \in SUBSET Slot /\ IsFiniteSet(S) /\ StackLimit[x] \in Nat
    BY SlotsFinite, StackIs
  <1>2. ASSUME NEW t \in S  PROVE counts[t] \in Nat /\ counts[t] <= StackLimit[x]
    <2>1. v[t] \in Stack /\ v[t].itemId = x /\ counts[t] = v[t].stackCount
      BY <1>1 DEF Slots, StacksOf
    <2>2. ~ IsEmpty(v[t])
      BY <2>1, StackIs DEF IsEmpty
    <2>3. v[t].stackCount \in 1 .. StackLimit[x]
      BY <2>1, <2>2, StackIs
    <2> QED
      BY <1>1, <2>1, <2>3
  <1> HIDE DEF counts, S
  <1>3. SumFunctionOnSet(counts, S) <= StackLimit[x] * Cardinality(S)
    BY <1>1, <1>2, SumBound
  <1> QED
    BY <1>3 DEF counts, S, CountItem

-----------------------------------------------------------------------------
(* addItem.                                                                *)

Call == [inv : [Slot -> Stack], left : Nat, slot : Slot \cup {INVALID_SLOT}]

\* One visit of the topping up: what the stack gains is what is left less.
LEMMA TopUpIs ==
    ASSUME NEW call \in Call, NEW s \in Slot, NEW x \in Item
    PROVE  LET r == TopUp(call, s, x)
           IN  /\ r \in Call
               /\ \A t \in Slot \ {s} : r.inv[t] = call.inv[t]
               /\ r.inv[s].itemId = call.inv[s].itemId
               /\ r.slot = call.slot
               /\ call.inv[s].itemId # x => r = call
               /\ call.inv[s].itemId = x =>
                    /\ r.inv[s].stackCount + r.left = call.inv[s].stackCount + call.left
                    /\ r.left <= call.left
                    /\ r.left > 0 => r.inv[s].stackCount = StackLimit[x]
  <1> DEFINE r  == TopUp(call, s, x)
             st == call.inv[s]
             k  == Smaller(StackLimit[x] - st.stackCount, call.left)
             more == [itemId |-> x, stackCount |-> st.stackCount + k, mark |-> st.mark]
  <1>1. CASE call.inv[s].itemId # x
    BY <1>1 DEF TopUp
  <1>2. CASE call.inv[s].itemId = x
    <2>1. /\ st \in Stack /\ call.left \in Nat /\ call.inv \in [Slot -> Stack]
          /\ call.slot \in Slot \cup {INVALID_SLOT}
      BY DEF Call
    <2>2. /\ st \in [itemId : Item, stackCount : Nat, mark : BOOLEAN]
          /\ st.stackCount \in 1 .. StackLimit[st.itemId]
          /\ StackLimit[x] \in Nat
      BY <1>2, <2>1, StackIs DEF IsEmpty
    <2>3. /\ k \in Nat /\ st.stackCount + k \in 1 .. StackLimit[x] /\ call.left - k \in Nat
          /\ call.left - k > 0 => st.stackCount + k = StackLimit[x]
          /\ call.left - k <= call.left
          /\ st.stackCount + k + (call.left - k) = st.stackCount + call.left
      BY <1>2, <2>1, <2>2 DEF Smaller
    <2>4. more \in Stack
      BY <2>2, <2>3, StackIs
    <2>5. [st EXCEPT !.stackCount = st.stackCount + k] = more
      BY <1>2, <2>2
    <2>6. r = [inv |-> [call.inv EXCEPT ![s] = more], left |-> call.left - k, slot |-> call.slot]
      BY <1>2, <2>1, <2>5 DEF TopUp, Call
    <2>7. more.itemId = x /\ more.stackCount = st.stackCount + k
      OBVIOUS
    <2> HIDE DEF more, k, r
    <2>8. /\ r \in Call /\ r.inv[s] = more /\ r.left = call.left - k /\ r.slot = call.slot
          /\ \A t \in Slot \ {s} : r.inv[t] = call.inv[t]
      BY <2>1, <2>3, <2>4, <2>6 DEF Call
    <2>9. r.inv[s].itemId = st.itemId
      BY <1>2, <2>7, <2>8
    <2>10. /\ r.inv[s].stackCount + r.left = st.stackCount + call.left
           /\ r.left <= call.left
           /\ r.left > 0 => r.inv[s].stackCount = StackLimit[x]
      BY <2>3, <2>7, <2>8
    <2> QED
      BY <1>2, <2>8, <2>9, <2>10 DEF r
  <1> QED
    BY <1>1, <1>2

\* One visit of the opening: a full stack, or a stack of all that is left.
LEMMA OpenStackIs ==
    ASSUME NEW call \in Call, NEW s \in Slot, NEW x \in Item
    PROVE  LET r == OpenStack(call, s, x)
           IN  /\ r \in Call
               /\ \A t \in Slot \ {s} : r.inv[t] = call.inv[t]
               /\ ~ IsEmpty(call.inv[s]) \/ call.left = 0 => r = call
               /\ IsEmpty(call.inv[s]) /\ call.left > 0 =>
                    /\ r.inv[s].itemId = x /\ ~ IsEmpty(r.inv[s]) /\ r.slot = s
                    /\ r.inv[s].stackCount = NewStack(call.left, StackLimit[x])
                    /\ r.left = call.left - NewStack(call.left, StackLimit[x])
  <1> DEFINE r == OpenStack(call, s, x)
             k == NewStack(call.left, StackLimit[x])
             fresh == [itemId |-> x, stackCount |-> k, mark |-> FALSE]
  <1>0. call.left \in Nat /\ call.inv \in [Slot -> Stack]
    BY DEF Call
  <1>1. CASE ~ IsEmpty(call.inv[s]) \/ call.left = 0
    BY <1>0, <1>1 DEF OpenStack
  <1>2. CASE IsEmpty(call.inv[s]) /\ call.left # 0
    <2>2. k \in 1 .. StackLimit[x] /\ k \in Nat /\ call.left - k \in Nat
      BY <1>0, <1>2, StackIs DEF NewStack, Smaller
    <2>3. fresh \in Stack
      <3> HIDE DEF k
      <3> QED
        BY <2>2, StackIs
    <2>4. r = [inv |-> [call.inv EXCEPT ![s] = fresh], left |-> call.left - k, slot |-> s]
      BY <1>2 DEF OpenStack
    <2>5. fresh.itemId = x /\ fresh.stackCount = k /\ ~ IsEmpty(fresh)
      BY StackIs DEF IsEmpty
    <2> HIDE DEF fresh, k, r
    <2>6. /\ r \in Call /\ r.inv[s] = fresh /\ r.left = call.left - k /\ r.slot = s
          /\ \A t \in Slot \ {s} : r.inv[t] = call.inv[t]
      BY <1>0, <2>2, <2>3, <2>4 DEF Call
    <2> QED
      BY <1>2, <2>5, <2>6 DEF k, r
  <1> QED
    BY <1>0, <1>1, <1>2

\* What a call has of item y: in the array and, of the item it adds, in hand.
Worth(call, x, y) == CountItem(call.inv, y) + (IF y = x THEN call.left ELSE 0)

LEMMA TopUpConserves ==
    ASSUME NEW call \in Call, NEW s \in Slot, NEW x \in Item, NEW y
    PROVE  Worth(TopUp(call, s, x), x, y) = Worth(call, x, y)
  <1> DEFINE r == TopUp(call, s, x)
             st == call.inv[s]
             sr == r.inv[s]
  <1>1. /\ r \in Call
        /\ \A t \in Slot \ {s} : r.inv[t] = call.inv[t]
        /\ sr.itemId = st.itemId
        /\ st.itemId # x => r = call
        /\ st.itemId = x => sr.stackCount + r.left = st.stackCount + call.left
    BY TopUpIs
  <1> SUFFICES Worth(r, x, y) = Worth(call, x, y)
    OBVIOUS
  <1> HIDE DEF r
  <1>2. /\ call.inv \in Slots /\ r.inv \in Slots /\ call.left \in Nat /\ r.left \in Nat
    BY <1>1 DEF Call, Slots
  <1>3. /\ CountItem(call.inv, y) \in Nat /\ CountItem(r.inv, y) \in Nat
        /\ CountItem(r.inv, y) + Holds(st, y) = CountItem(call.inv, y) + Holds(sr, y)
    BY <1>1, <1>2, CountPut
  <1>4. st.stackCount \in Nat /\ sr.stackCount \in Nat
    BY <1>2, StackCounts DEF Slots
  <1>5. CASE st.itemId # x
    BY <1>1, <1>5
  <1>6. CASE st.itemId = x /\ y = x
    <2>1. Holds(st, y) = st.stackCount /\ Holds(sr, y) = sr.stackCount
      BY <1>1, <1>6 DEF Holds
    <2> HIDE DEF st, sr
    <2> QED
      BY <1>1, <1>2, <1>3, <1>4, <1>6, <2>1 DEF Worth
  <1>7. CASE st.itemId = x /\ y # x
    <2>1. Holds(st, y) = 0 /\ Holds(sr, y) = 0
      BY <1>1, <1>7 DEF Holds
    <2> HIDE DEF st, sr
    <2> QED
      BY <1>2, <1>3, <1>7, <2>1 DEF Worth
  <1> QED
    BY <1>5, <1>6, <1>7

LEMMA OpenStackConserves ==
    ASSUME NEW call \in Call, NEW s \in Slot, NEW x \in Item, NEW y
    PROVE  Worth(OpenStack(call, s, x), x, y) = Worth(call, x, y)
  <1> DEFINE r == OpenStack(call, s, x)
             st == call.inv[s]
             sr == r.inv[s]
             n == NewStack(call.left, StackLimit[x])
  <1>1. /\ r \in Call
        /\ \A t \in Slot \ {s} : r.inv[t] = call.inv[t]
        /\ ~ IsEmpty(st) \/ call.left = 0 => r = call
        /\ IsEmpty(st) /\ call.left > 0 =>
             sr.itemId = x /\ sr.stackCount = n /\ r.left = call.left - n
    BY OpenStackIs
  <1> SUFFICES Worth(r, x, y) = Worth(call, x, y)
    OBVIOUS
  <1> HIDE DEF r, n
  <1>2. /\ call.inv \in Slots /\ r.inv \in Slots /\ call.left \in Nat /\ r.left \in Nat
    BY <1>1 DEF Call, Slots
  <1>3. /\ CountItem(call.inv, y) \in Nat /\ CountItem(r.inv, y) \in Nat
        /\ CountItem(r.inv, y) + Holds(st, y) = CountItem(call.inv, y) + Holds(sr, y)
    BY <1>1, <1>2, CountPut
  <1>4. st \in Stack /\ sr.stackCount \in Nat
    BY <1>2, StackCounts DEF Slots
  <1>5. CASE ~ IsEmpty(st) \/ call.left = 0
    BY <1>1, <1>5
  <1>6. CASE IsEmpty(st) /\ call.left > 0
    <2>1. Holds(st, y) = 0
      BY <1>4, <1>6, StackIs DEF Holds, EmptyStack
    <2>2. Holds(sr, y) = IF y = x THEN n ELSE 0
      BY <1>1, <1>6 DEF Holds
    <2>3. sr.stackCount = n /\ n \in Nat /\ r.left = call.left - n
      BY <1>1, <1>4, <1>6
    <2> HIDE DEF st, sr
    <2> QED
      BY <1>2, <1>3, <2>1, <2>2, <2>3 DEF Worth
  <1> QED
    BY <1>2, <1>5, <1>6

\* The first fold of Adding: g goes through it, slot by slot.
LEMMA ToppingUp ==
    ASSUME NEW call \in Call, NEW x \in Item
    PROVE  \E g : /\ g[{}] = call
                  /\ \A k \in 1 .. MAX_SLOTS :
                       g[1 .. k] = TopUp(g[1 .. (k - 1)], SlotOrder[k], x)
                  /\ g[1 .. MAX_SLOTS] = FoldLeft(LAMBDA c, s : TopUp(c, s, x), call, SlotOrder)
  <1> DEFINE N == 1 .. MAX_SLOTS
             step == [p \in N \X Call |-> TopUp(p[2], SlotOrder[p[1]], x)]
             Solves(f) == f = [s \in SUBSET N |->
                                 IF s = {} THEN call
                                 ELSE TopUp(f[s \ {Max(s)}], SlotOrder[Max(s)], x)]
             g == CHOOSE f : Solves(f)
  <1>1. step \in [N \X Call -> Call]
    BY SlotsInOrder, TopUpIs
  <1>2. PICK f \in [SUBSET N -> Call] : LeftFolds(f, MAX_SLOTS, call, step)
    <2> HIDE DEF step
    <2> QED
      BY <1>1, SlotsInOrder, FoldLeftSolved
  <1>3. Solves(f)
    BY <1>2, SlotsInOrder, LastIndex DEF LeftFolds
  <1>4. Solves(g)
    BY <1>3
  <1>5. g[N] = FoldLeft(LAMBDA c, s : TopUp(c, s, x), call, SlotOrder)
    BY SlotsInOrder DEF FoldLeft, MapThenFoldSet
  <1> HIDE DEF g
  <1>6. g[{}] = call
    BY <1>4
  <1>7. ASSUME NEW k \in N  PROVE g[1 .. k] = TopUp(g[1 .. (k - 1)], SlotOrder[k], x)
    <2>1. /\ 1 .. k \in SUBSET N /\ 1 .. k # {}
          /\ Max(1 .. k) = k
          /\ (1 .. k) \ {k} = 1 .. (k - 1)
      BY SlotsInOrder, PrefixOf
    <2> QED
      BY <1>4, <2>1
  <1> QED
    BY <1>5, <1>6, <1>7

\* And the second.
LEMMA OpeningStacks ==
    ASSUME NEW call \in Call, NEW x \in Item
    PROVE  \E g : /\ g[{}] = call
                  /\ \A k \in 1 .. MAX_SLOTS :
                       g[1 .. k] = OpenStack(g[1 .. (k - 1)], SlotOrder[k], x)
                  /\ g[1 .. MAX_SLOTS] = FoldLeft(LAMBDA c, s : OpenStack(c, s, x), call, SlotOrder)
  <1> DEFINE N == 1 .. MAX_SLOTS
             step == [p \in N \X Call |-> OpenStack(p[2], SlotOrder[p[1]], x)]
             Solves(f) == f = [s \in SUBSET N |->
                                 IF s = {} THEN call
                                 ELSE OpenStack(f[s \ {Max(s)}], SlotOrder[Max(s)], x)]
             g == CHOOSE f : Solves(f)
  <1>1. step \in [N \X Call -> Call]
    BY SlotsInOrder, OpenStackIs
  <1>2. PICK f \in [SUBSET N -> Call] : LeftFolds(f, MAX_SLOTS, call, step)
    <2> HIDE DEF step
    <2> QED
      BY <1>1, SlotsInOrder, FoldLeftSolved
  <1>3. Solves(f)
    BY <1>2, SlotsInOrder, LastIndex DEF LeftFolds
  <1>4. Solves(g)
    BY <1>3
  <1>5. g[N] = FoldLeft(LAMBDA c, s : OpenStack(c, s, x), call, SlotOrder)
    BY SlotsInOrder DEF FoldLeft, MapThenFoldSet
  <1> HIDE DEF g
  <1>6. g[{}] = call
    BY <1>4
  <1>7. ASSUME NEW k \in N  PROVE g[1 .. k] = OpenStack(g[1 .. (k - 1)], SlotOrder[k], x)
    <2>1. /\ 1 .. k \in SUBSET N /\ 1 .. k # {}
          /\ Max(1 .. k) = k
          /\ (1 .. k) \ {k} = 1 .. (k - 1)
      BY SlotsInOrder, PrefixOf
    <2> QED
      BY <1>4, <2>1
  <1> QED
    BY <1>5, <1>6, <1>7

\* What the topping up of call c, of the first k slots, has led to in call d.
Topped(c, d, k, x) ==
    /\ d \in Call
    /\ \A t \in Slot : d.inv[t].itemId = c.inv[t].itemId
    /\ \A t \in StacksOf(c.inv, x) :
         d.left > 0 /\ t < k => d.inv[t].stackCount = StackLimit[x]
    /\ d.left <= c.left
    /\ \A y \in Item : Worth(d, x, y) = Worth(c, x, y)

LEMMA ToppedStep ==
    ASSUME NEW c \in Call, NEW d, NEW x \in Item, NEW k \in 1 .. MAX_SLOTS,
           Topped(c, d, k - 1, x)
    PROVE  Topped(c, TopUp(d, SlotOrder[k], x), k, x)
  <1> DEFINE s == k - 1
             r == TopUp(d, s, x)
  <1>1. SlotOrder[k] = s /\ s \in Slot
    BY SlotsAssumption DEF SlotOrder, Slot
  <1>2. d \in Call
    BY DEF Topped
  <1>3. /\ r \in Call
        /\ \A t \in Slot \ {s} : r.inv[t] = d.inv[t]
        /\ r.inv[s].itemId = d.inv[s].itemId
        /\ d.inv[s].itemId # x => r = d
        /\ d.inv[s].itemId = x =>
             r.left <= d.left /\ (r.left > 0 => r.inv[s].stackCount = StackLimit[x])
    BY <1>1, <1>2, TopUpIs
  <1>4. \A y \in Item : Worth(r, x, y) = Worth(d, x, y)
    BY <1>1, <1>2, TopUpConserves
  <1> HIDE DEF r
  <1>5. d.left \in Nat /\ r.left \in Nat /\ c.left \in Nat
    BY <1>2, <1>3 DEF Call
  <1>6. r.left <= d.left
    BY <1>3, <1>5
  <1>7. \A t \in Slot : r.inv[t].itemId = c.inv[t].itemId
    BY <1>3 DEF Topped
  <1>8. ASSUME NEW t \in StacksOf(c.inv, x), r.left > 0, t < k
        PROVE  r.inv[t].stackCount = StackLimit[x]
    <2>1. t \in Slot /\ t \in Nat /\ d.inv[t].itemId = x
      BY DEF StacksOf, Topped, Slot
    <2>2. CASE t = s
      BY <1>3, <1>8, <2>1, <2>2
    <2>3. CASE t # s
      <3>1. t < k - 1
        BY <1>8, <2>1, <2>3
      <3>2. d.left > 0
        BY <1>5, <1>6, <1>8
      <3> QED
        BY <1>3, <2>1, <2>3, <3>1, <3>2 DEF Topped
    <2> QED
      BY <2>2, <2>3
  <1>9. r.left <= c.left
    BY <1>5, <1>6 DEF Topped
  <1>10. \A y \in Item : Worth(r, x, y) = Worth(c, x, y)
    BY <1>4 DEF Topped
  <1>11. Topped(c, r, k, x)
    BY <1>3, <1>7, <1>8, <1>9, <1>10 DEF Topped
  <1> QED
    BY <1>1, <1>11 DEF r

\* What the opening of stacks in call c, in the first k slots, has led to: of
\* what was left, all but the last stack that was opened is full.
Opened(c, d, k, x) ==
    LET opened == EmptySlots(c.inv) \ EmptySlots(d.inv)
        limit == StackLimit[x]
    IN  /\ d \in Call
        /\ \A t \in Slot \ EmptySlots(c.inv) : d.inv[t] = c.inv[t]
        /\ \A t \in opened : /\ d.inv[t].itemId = x
                             /\ d.left > 0 => d.inv[t].stackCount = limit
        /\ \A t \in EmptySlots(c.inv) : d.left > 0 /\ t < k => t \in opened
        /\ d.left > 0 => d.left = c.left - limit * Cardinality(opened)
        /\ limit * Cardinality(opened) < c.left + limit
        /\ \A y \in Item : Worth(d, x, y) = Worth(c, x, y)

LEMMA OpenedStep ==
    ASSUME NEW c \in Call, NEW d, NEW x \in Item, NEW k \in 1 .. MAX_SLOTS,
           Opened(c, d, k - 1, x)
    PROVE  Opened(c, OpenStack(d, SlotOrder[k], x), k, x)
  <1> DEFINE s == k - 1
             r == OpenStack(d, s, x)
             opened(e) == EmptySlots(c.inv) \ EmptySlots(e.inv)
             limit == StackLimit[x]
             n == NewStack(d.left, limit)
  <1>1. SlotOrder[k] = s /\ s \in Slot
    BY SlotsAssumption DEF SlotOrder, Slot
  <1>2. d \in Call
    BY DEF Opened
  <1>3. /\ r \in Call
        /\ \A t \in Slot \ {s} : r.inv[t] = d.inv[t]
        /\ ~ IsEmpty(d.inv[s]) \/ d.left = 0 => r = d
        /\ IsEmpty(d.inv[s]) /\ d.left > 0 =>
             /\ r.inv[s].itemId = x /\ ~ IsEmpty(r.inv[s])
             /\ r.inv[s].stackCount = n
             /\ r.left = d.left - n
    BY <1>1, <1>2, OpenStackIs
  <1>4. \A y \in Item : Worth(r, x, y) = Worth(d, x, y)
    BY <1>1, <1>2, OpenStackConserves
  <1> HIDE DEF r
  <1>5. d.left \in Nat /\ r.left \in Nat /\ c.left \in Nat /\ limit \in Nat \ {0}
    BY <1>2, <1>3, StackIs DEF Call
  <1>6. \A y \in Item : Worth(r, x, y) = Worth(c, x, y)
    BY <1>4 DEF Opened
  <1>7. CASE ~ IsEmpty(d.inv[s]) \/ d.left = 0
    <2>1. r = d
      BY <1>3, <1>7
    <2>2. ASSUME NEW t \in EmptySlots(c.inv), d.left > 0, t < k  PROVE t \in opened(d)
      <3>1. t \in Slot /\ t \in Nat
        BY DEF EmptySlots, Slot
      <3>2. CASE t = s
        BY <1>7, <2>2, <3>2 DEF EmptySlots
      <3>3. CASE t # s
        <4>1. t < k - 1
          BY <2>2, <3>1, <3>3
        <4> QED
          BY <2>2, <4>1 DEF Opened
      <3> QED
        BY <3>2, <3>3
    <2>3. Opened(c, d, k, x)
      BY <2>2 DEF Opened
    <2> QED
      BY <1>1, <2>1, <2>3 DEF r
  <1>8. CASE IsEmpty(d.inv[s]) /\ d.left > 0
    <2>1. s \in EmptySlots(c.inv) /\ s \notin opened(d)
      <3>1. s \notin Slot \ EmptySlots(c.inv)
        BY <1>8 DEF Opened, EmptySlots
      <3> QED
        BY <1>1, <1>8, <3>1 DEF EmptySlots
    <2>2. opened(r) = opened(d) \cup {s}
      BY <1>1, <1>3, <1>8, <2>1 DEF EmptySlots
    <2>3. Cardinality(opened(r)) = Cardinality(opened(d)) + 1 /\ Cardinality(opened(d)) \in Nat
      <3>1. IsFiniteSet(opened(d))
        BY SlotsFinite, FS_Subset
      <3> HIDE DEF opened
      <3> QED
        BY <2>1, <2>2, <3>1, FS_AddElement, FS_CardinalityType
    <2>4. /\ n \in Nat /\ n <= limit /\ r.left = d.left - n
          /\ r.left > 0 => n = limit
      BY <1>3, <1>5, <1>8 DEF NewStack, Smaller
    <2> DEFINE a == Cardinality(opened(d))
               b == Cardinality(opened(r))
    <2>5. /\ d.left = c.left - limit * a
          /\ limit * a < c.left + limit
      BY <1>8 DEF Opened
    <2>6. limit * b = limit * a + limit /\ limit * a \in Nat
      <3> HIDE DEF a, b
      <3>1. b = a + 1 /\ a \in Nat
        BY <2>3 DEF a, b
      <3> QED
        BY <1>5, <3>1
    <2>7. /\ r.left > 0 => r.left = c.left - limit * b
          /\ limit * b < c.left + limit
      <3> HIDE DEF a, b, n, limit
      <3>1. d.left > 0
        BY <1>8
      <3> QED
        BY <1>5, <2>4, <2>5, <2>6, <3>1
    <2>8. \A t \in Slot \ EmptySlots(c.inv) : r.inv[t] = c.inv[t]
      BY <1>3, <2>1 DEF Opened
    <2>9. ASSUME NEW t \in opened(r)
          PROVE  r.inv[t].itemId = x /\ (r.left > 0 => r.inv[t].stackCount = limit)
      <3>1. CASE t = s
        BY <1>3, <1>8, <2>4, <3>1
      <3>2. CASE t # s
        <4>1. t \in opened(d) /\ r.inv[t] = d.inv[t]
          BY <1>3, <2>2, <3>2 DEF EmptySlots
        <4> QED
          BY <1>8, <4>1 DEF Opened
      <3> QED
        BY <3>1, <3>2
    <2>10. ASSUME NEW t \in EmptySlots(c.inv), t < k  PROVE t \in opened(r)
      <3>1. t \in Slot /\ t \in Nat
        BY DEF EmptySlots, Slot
      <3>2. CASE t = s
        BY <2>2, <3>2
      <3>3. CASE t # s
        <4>1. t < k - 1
          BY <2>10, <3>1, <3>3
        <4> QED
          BY <1>8, <2>2, <4>1 DEF Opened
      <3> QED
        BY <3>2, <3>3
    <2> HIDE DEF a, n
    <2>11. Opened(c, r, k, x)
      BY <1>3, <1>6, <2>7, <2>8, <2>9, <2>10 DEF Opened
    <2> QED
      BY <1>1, <2>11 DEF r
  <1> QED
    BY <1>5, <1>7, <1>8

LEMMA ToppedAll ==
    ASSUME NEW c \in Call, NEW x \in Item
    PROVE  Topped(c, FoldLeft(LAMBDA d, s : TopUp(d, s, x), c, SlotOrder), MAX_SLOTS, x)
  <1> DEFINE good == [k \in 0 .. MAX_SLOTS |-> {d \in Call : Topped(c, d, k, x)}]
             last == FoldLeft(LAMBDA d, s : TopUp(d, s, x), c, SlotOrder)
  <1>1. PICK g : /\ g[{}] = c
                 /\ \A k \in 1 .. MAX_SLOTS :
                      g[1 .. k] = TopUp(g[1 .. (k - 1)], SlotOrder[k], x)
                 /\ g[1 .. MAX_SLOTS] = last
    BY ToppingUp
  <1> HIDE DEF last
  <1>2. \A k \in 0 .. MAX_SLOTS : \A d : d \in good[k] <=> Topped(c, d, k, x)
    BY DEF Topped
  <1>3. /\ MAX_SLOTS \in Nat
        /\ 0 \in 0 .. MAX_SLOTS /\ MAX_SLOTS \in 0 .. MAX_SLOTS
        /\ \A k \in 1 .. MAX_SLOTS : k \in 0 .. MAX_SLOTS /\ k - 1 \in 0 .. MAX_SLOTS
    BY SlotsAssumption
  <1>4. Topped(c, c, 0, x)
    <2>1. \A t \in StacksOf(c.inv, x) : ~ (t < 0)
      BY DEF StacksOf, Slot
    <2>2. c.left <= c.left
      BY DEF Call
    <2> QED
      BY <2>1, <2>2 DEF Topped
  <1> HIDE DEF good
  <1>5. g[{}] \in good[0]
    BY <1>1, <1>2, <1>3, <1>4
  <1>6. \A k \in 1 .. MAX_SLOTS : g[1 .. (k - 1)] \in good[k - 1] => g[1 .. k] \in good[k]
    <2> SUFFICES ASSUME NEW k \in 1 .. MAX_SLOTS, g[1 .. (k - 1)] \in good[k - 1]
                 PROVE  g[1 .. k] \in good[k]
      OBVIOUS
    <2>1. Topped(c, g[1 .. (k - 1)], k - 1, x)
      BY <1>2, <1>3
    <2>2. Topped(c, TopUp(g[1 .. (k - 1)], SlotOrder[k], x), k, x)
      BY <2>1, ToppedStep
    <2> QED
      BY <1>1, <1>2, <1>3, <2>2
  <1>7. g[1 .. MAX_SLOTS] \in good[MAX_SLOTS]
    BY <1>3, <1>5, <1>6, FoldLeftSteps
  <1>8. Topped(c, last, MAX_SLOTS, x)
    BY <1>1, <1>2, <1>3, <1>7
  <1> QED
    BY <1>8 DEF last

LEMMA OpenedAll ==
    ASSUME NEW c \in Call, NEW x \in Item
    PROVE  Opened(c, FoldLeft(LAMBDA d, s : OpenStack(d, s, x), c, SlotOrder), MAX_SLOTS, x)
  <1> DEFINE good == [k \in 0 .. MAX_SLOTS |-> {d \in Call : Opened(c, d, k, x)}]
             last == FoldLeft(LAMBDA d, s : OpenStack(d, s, x), c, SlotOrder)
  <1>1. PICK g : /\ g[{}] = c
                 /\ \A k \in 1 .. MAX_SLOTS :
                      g[1 .. k] = OpenStack(g[1 .. (k - 1)], SlotOrder[k], x)
                 /\ g[1 .. MAX_SLOTS] = last
    BY OpeningStacks
  <1> HIDE DEF last
  <1>2. \A k \in 0 .. MAX_SLOTS : \A d : d \in good[k] <=> Opened(c, d, k, x)
    BY DEF Opened
  <1>3. /\ MAX_SLOTS \in Nat
        /\ 0 \in 0 .. MAX_SLOTS /\ MAX_SLOTS \in 0 .. MAX_SLOTS
        /\ \A k \in 1 .. MAX_SLOTS : k \in 0 .. MAX_SLOTS /\ k - 1 \in 0 .. MAX_SLOTS
    BY SlotsAssumption
  <1>4. Opened(c, c, 0, x)
    <2>1. \A t \in EmptySlots(c.inv) : ~ (t < 0)
      BY DEF EmptySlots, Slot
    <2>2. c.left \in Nat /\ StackLimit[x] \in Nat \ {0}
      BY StackIs DEF Call
    <2> DEFINE opened == EmptySlots(c.inv) \ EmptySlots(c.inv)
               limit == StackLimit[x]
    <2>3. opened = {}
      OBVIOUS
    <2>4. Cardinality(opened) = 0
      BY <2>3, FS_EmptySet
    <2> HIDE DEF opened
    <2>5. limit * Cardinality(opened) = 0
      BY <2>2, <2>4
    <2>6. /\ c.left = c.left - limit * Cardinality(opened)
          /\ limit * Cardinality(opened) < c.left + limit
      BY <2>2, <2>5
    <2> QED
      BY <2>1, <2>3, <2>6 DEF Opened, opened
  <1> HIDE DEF good
  <1>5. g[{}] \in good[0]
    BY <1>1, <1>2, <1>3, <1>4
  <1>6. \A k \in 1 .. MAX_SLOTS : g[1 .. (k - 1)] \in good[k - 1] => g[1 .. k] \in good[k]
    <2> SUFFICES ASSUME NEW k \in 1 .. MAX_SLOTS, g[1 .. (k - 1)] \in good[k - 1]
                 PROVE  g[1 .. k] \in good[k]
      OBVIOUS
    <2>1. Opened(c, g[1 .. (k - 1)], k - 1, x)
      BY <1>2, <1>3
    <2>2. Opened(c, OpenStack(g[1 .. (k - 1)], SlotOrder[k], x), k, x)
      BY <2>1, OpenedStep
    <2> QED
      BY <1>1, <1>2, <1>3, <2>2
  <1>7. g[1 .. MAX_SLOTS] \in good[MAX_SLOTS]
    BY <1>3, <1>5, <1>6, FoldLeftSteps
  <1>8. Opened(c, last, MAX_SLOTS, x)
    BY <1>1, <1>2, <1>3, <1>7
  <1> QED
    BY <1>8 DEF last

\* What a call that adds n of item x to v has left is what it has not added.
AddsRest(a, v, x, n) == CountItem(a.inv, x) + a.left = CountItem(v, x) + n

\* addItem: what it adds and what it leaves, the slots it needs, and when it
\* leaves anything.
LEMMA AddingIs ==
    ASSUME NEW v \in Slots, NEW x \in Item, NEW n \in Nat
    PROVE  LET a == Adding(v, x, n)
               opened == EmptySlots(v) \ EmptySlots(a.inv)
               limit == StackLimit[x]
           IN  /\ a \in Call
               /\ a.left <= n
               /\ \A y \in Item \ {x} : CountItem(a.inv, y) = CountItem(v, y)
               /\ AddsRest(a, v, x, n)
               /\ EmptySlots(a.inv) \subseteq EmptySlots(v)
               /\ limit * Cardinality(opened) < n + limit
               /\ a.left > 0 => /\ EmptySlots(a.inv) = {}
                                /\ \A t \in StacksOf(a.inv, x) : a.inv[t].stackCount = limit
                                /\ limit * Cardinality(EmptySlots(v)) < n
  <1> DEFINE c == [inv |-> v, left |-> n, slot |-> INVALID_SLOT]
             d == FoldLeft(LAMBDA e, s : TopUp(e, s, x), c, SlotOrder)
             a == Adding(v, x, n)
             opened == EmptySlots(v) \ EmptySlots(a.inv)
             limit == StackLimit[x]
  <1>1. c \in Call
    BY DEF Call, Slots
  <1>2. Topped(c, d, MAX_SLOTS, x)
    <2> HIDE DEF c
    <2> QED
      BY <1>1, ToppedAll
  <1>3. Opened(d, a, MAX_SLOTS, x)
    <2>1. d \in Call
      BY <1>2 DEF Topped
    <2>2. a = FoldLeft(LAMBDA e, s : OpenStack(e, s, x), d, SlotOrder)
      BY DEF Adding
    <2> HIDE DEF d, a
    <2> QED
      BY <2>1, <2>2, OpenedAll
  <1>4. c.inv = v /\ c.left = n
    OBVIOUS
  <1> HIDE DEF a, c, d
  <1>5. /\ d \in Call /\ a \in Call
        /\ d.left \in Nat /\ a.left \in Nat /\ d.left <= n /\ limit \in Nat \ {0}
    BY <1>2, <1>3, <1>4, StackIs DEF Topped, Opened, Call
  <1>6. EmptySlots(d.inv) = EmptySlots(v)
    BY <1>2, <1>4 DEF Topped, EmptySlots, IsEmpty
  <1>7. EmptySlots(a.inv) \subseteq EmptySlots(v)
    <2>1. \A t \in Slot \ EmptySlots(d.inv) : a.inv[t] = d.inv[t]
      BY <1>3 DEF Opened
    <2> QED
      BY <1>6, <2>1 DEF EmptySlots
  <1>8. /\ a.left > 0 => a.left = d.left - limit * Cardinality(opened)
        /\ limit * Cardinality(opened) < d.left + limit
        /\ a.left > 0 => \A t \in EmptySlots(v) : t < MAX_SLOTS => t \in opened
    BY <1>3, <1>6 DEF Opened
  <1>9. a.left > 0 => opened = EmptySlots(v) /\ EmptySlots(a.inv) = {}
    <2>1. \A t \in EmptySlots(v) : t < MAX_SLOTS
      BY SlotsAssumption DEF EmptySlots, Slot
    <2> QED
      BY <1>7, <1>8, <2>1
  <1>10. limit * Cardinality(opened) \in Nat
    <2>1. Cardinality(opened) \in Nat
      <3>1. IsFiniteSet(opened)
        BY SlotsFinite, FS_Subset
      <3> QED
        BY <3>1, FS_CardinalityType
    <2> HIDE DEF opened, limit
    <2> QED
      BY <1>5, <2>1
  <1>11. /\ a.left <= n
         /\ limit * Cardinality(opened) < n + limit
         /\ a.left > 0 => limit * Cardinality(EmptySlots(v)) < n
    <2> DEFINE m == limit * Cardinality(opened)
    <2>1. a.left > 0 => limit * Cardinality(EmptySlots(v)) = m
      BY <1>9
    <2> HIDE DEF m, limit
    <2>2. /\ a.left > 0 => a.left = d.left - m
          /\ m < d.left + limit
          /\ m \in Nat
      BY <1>8, <1>10 DEF m, limit
    <2>3. a.left <= n /\ m < n + limit /\ (a.left > 0 => m < n)
      BY <1>5, <2>2 DEF limit
    <2> QED
      BY <2>1, <2>3 DEF m
  <1>12. ASSUME a.left > 0, NEW t \in StacksOf(a.inv, x)
         PROVE  a.inv[t].stackCount = limit
    <2>1. t \in Slot /\ a.inv[t].itemId = x /\ t < MAX_SLOTS
      BY SlotsAssumption DEF StacksOf, Slot
    <2>2. CASE t \in EmptySlots(v)
      BY <1>3, <1>6, <1>9, <1>12, <2>2 DEF Opened
    <2>3. CASE t \notin EmptySlots(v)
      <3>1. a.inv[t] = d.inv[t]
        BY <1>3, <1>6, <2>1, <2>3 DEF Opened
      <3>2. t \in StacksOf(v, x)
        BY <1>2, <1>4, <2>1, <3>1 DEF Topped, StacksOf
      <3>3. d.left > 0
        BY <1>5, <1>8, <1>10, <1>12
      <3> QED
        BY <1>2, <1>4, <2>1, <3>1, <3>2, <3>3 DEF Topped
    <2> QED
      BY <2>2, <2>3
  <1>13. \A y \in Item : Worth(a, x, y) = Worth(c, x, y)
    BY <1>2, <1>3 DEF Topped, Opened
  <1>14. /\ \A y \in Item \ {x} : CountItem(a.inv, y) + 0 = CountItem(v, y) + 0
         /\ CountItem(a.inv, x) + a.left = CountItem(v, x) + n
    BY <1>4, <1>13 DEF Worth
  <1>15. \A y \in Item : CountItem(a.inv, y) \in Nat /\ CountItem(v, y) \in Nat
    BY <1>5, CountIsNat DEF Slots, Call
  <1>16. \A y \in Item \ {x} : CountItem(a.inv, y) = CountItem(v, y)
    BY <1>14, <1>15
  <1> QED
    BY <1>5, <1>7, <1>9, <1>11, <1>12, <1>14, <1>16 DEF a, AddsRest

LEMMA TimesGrows ==
    ASSUME NEW l \in Nat \ {0}, NEW a \in Nat, NEW b \in Nat, l * a < l * b
    PROVE  a < b
  <1> SUFFICES ASSUME b <= a  PROVE FALSE
    OBVIOUS
  <1>1. PICK d \in Nat : a = b + d
    <2>1. a - b \in Nat /\ a = b + (a - b)
      OBVIOUS
    <2> QED
      BY <2>1
  <1>2. l * (b + d) = l * b + l * d /\ l * d \in Nat /\ l * b \in Nat
    OBVIOUS
  <1> QED
    BY <1>1, <1>2

LEMMA DisjointUnion ==
    ASSUME NEW S, NEW T, IsFiniteSet(S), IsFiniteSet(T), S \cap T = {}
    PROVE  /\ IsFiniteSet(S \cup T)
           /\ Cardinality(S) \in Nat /\ Cardinality(T) \in Nat
           /\ Cardinality(S \cup T) = Cardinality(S) + Cardinality(T)
  <1>1. Cardinality(S) \in Nat /\ Cardinality(T) \in Nat
    BY FS_CardinalityType
  <1>2. /\ IsFiniteSet(S \cup T)
        /\ Cardinality(S \cup T) = Cardinality(S) + Cardinality(T) - Cardinality(S \cap T)
    BY FS_Union
  <1>3. Cardinality(S \cap T) = 0
    BY FS_EmptySet
  <1> QED
    BY <1>1, <1>2, <1>3

\* What fits in m empty stacks is added in full and opens m slots at most.
LEMMA AddingFits ==
    ASSUME NEW v \in Slots, NEW x \in Item, NEW n \in Nat, NEW m \in Nat,
           n <= StackLimit[x] * m, m <= Cardinality(EmptySlots(v))
    PROVE  /\ Adding(v, x, n).left = 0
           /\ Cardinality(EmptySlots(v)) <= Cardinality(EmptySlots(AddItem(v, x, n))) + m
           /\ CountItem(AddItem(v, x, n), x) = CountItem(v, x) + n
           /\ \A y \in Item \ {x} : CountItem(AddItem(v, x, n), y) = CountItem(v, y)
  <1> DEFINE a == Adding(v, x, n)
             E == EmptySlots(v)
             F == EmptySlots(a.inv)
             opened == E \ F
             limit == StackLimit[x]
  <1>1. /\ a \in Call
        /\ \A y \in Item \ {x} : CountItem(a.inv, y) = CountItem(v, y)
        /\ CountItem(a.inv, x) + a.left = CountItem(v, x) + n
        /\ F \subseteq E
        /\ limit * Cardinality(opened) < n + limit
        /\ a.left > 0 => limit * Cardinality(E) < n
    <2>0. a \in Call
      BY AddingIs
    <2>1. \A y \in Item \ {x} : CountItem(a.inv, y) = CountItem(v, y)
      BY AddingIs
    <2>5. AddsRest(a, v, x, n)
      BY AddingIs
    <2>2. F \subseteq E
      BY AddingIs
    <2>3. limit * Cardinality(opened) < n + limit
      BY AddingIs
    <2>4. a.left > 0 => limit * Cardinality(E) < n
      BY AddingIs
    <2> HIDE DEF a, E, F, opened, limit
    <2> QED
      BY <2>0, <2>1, <2>2, <2>3, <2>4, <2>5 DEF AddsRest
  <1>2. IsFiniteSet(E) /\ IsFiniteSet(F) /\ IsFiniteSet(opened)
    BY SlotsFinite, FS_Subset
  <1> HIDE DEF a
  <1>3. E = F \cup opened /\ F \cap opened = {}
    BY <1>1
  <1> HIDE DEF E, F, opened
  <1>4. /\ Cardinality(E) = Cardinality(F) + Cardinality(opened)
        /\ Cardinality(F) \in Nat /\ Cardinality(opened) \in Nat /\ Cardinality(E) \in Nat
    <2>1. /\ Cardinality(F) \in Nat /\ Cardinality(opened) \in Nat
          /\ Cardinality(F \cup opened) = Cardinality(F) + Cardinality(opened)
      BY <1>2, <1>3, DisjointUnion
    <2> QED
      BY <1>3, <2>1
  <1>5. limit \in Nat \ {0} /\ a.left \in Nat /\ a.inv \in Slots
    BY <1>1, StackIs DEF Call, Slots
  <1> HIDE DEF limit
  <1>6. a.left = 0
    <2>1. ASSUME a.left > 0  PROVE FALSE
      <3>1. limit * Cardinality(E) < limit * m
        <4>1. limit * Cardinality(E) \in Nat /\ limit * m \in Nat
          BY <1>4, <1>5
        <4> QED
          BY <1>1, <2>1, <4>1 DEF limit
      <3>2. Cardinality(E) < m
        BY <1>4, <1>5, <3>1, TimesGrows
      <3> QED
        BY <1>4, <3>2 DEF E
    <2> QED
      BY <1>5, <2>1
  <1>7. Cardinality(opened) <= m
    <2>1. limit * (m + 1) = limit * m + limit
      BY <1>5
    <2>2. limit * Cardinality(opened) < limit * (m + 1)
      <3>1. limit * Cardinality(opened) \in Nat /\ limit * m \in Nat
        BY <1>4, <1>5
      <3> QED
        BY <1>1, <1>5, <2>1, <3>1 DEF limit
    <2>3. Cardinality(opened) < m + 1
      BY <1>4, <1>5, <2>2, TimesGrows
    <2> QED
      BY <1>4, <2>3
  <1>8. Cardinality(E) <= Cardinality(F) + m
    BY <1>4, <1>7
  <1>9. CountItem(a.inv, x) = CountItem(v, x) + n
    BY <1>1, <1>5, <1>6, CountIsNat
  <1> QED
    BY <1>1, <1>6, <1>8, <1>9 DEF a, E, F, AddItem

LEMMA AddItemIs ==
    ASSUME NEW v \in Slots, NEW x \in Item, NEW n \in Nat
    PROVE  AddItem(v, x, n) \in Slots
  BY AddingIs DEF AddItem, Call, Slots

-----------------------------------------------------------------------------
(* Taking out and rearranging.                                             *)

\* Two slots that exchange something conserve everything.
LEMMA ExchangeConserves ==
    ASSUME NEW v \in Slots, NEW w \in Slots, NEW s \in Slot, NEW t \in Slot, s # t,
           \A r \in Slot \ {s, t} : w[r] = v[r], NEW y,
           Holds(w[s], y) + Holds(w[t], y) = Holds(v[s], y) + Holds(v[t], y)
    PROVE  CountItem(w, y) = CountItem(v, y)
  <1> DEFINE u == [v EXCEPT ![s] = w[s]]
  <1>1. u \in Slots /\ u[s] = w[s] /\ u[t] = v[t] /\ \A r \in Slot \ {s} : u[r] = v[r]
    BY DEF Slots
  <1>2. \A r \in Slot \ {t} : w[r] = u[r]
    BY <1>1
  <1> HIDE DEF u
  <1>3. /\ CountItem(v, y) \in Nat /\ CountItem(u, y) \in Nat
        /\ CountItem(u, y) + Holds(v[s], y) = CountItem(v, y) + Holds(w[s], y)
    BY <1>1, CountPut
  <1>4. /\ CountItem(w, y) \in Nat
        /\ CountItem(w, y) + Holds(v[t], y) = CountItem(u, y) + Holds(w[t], y)
    BY <1>1, <1>2, CountPut
  <1>5. /\ Holds(v[s], y) \in Nat /\ Holds(v[t], y) \in Nat
        /\ Holds(w[s], y) \in Nat /\ Holds(w[t], y) \in Nat
    BY StackCounts DEF Slots
  <1> QED
    BY <1>3, <1>4, <1>5

\* removeItem: of the stack in s, no more than it has.
LEMMA RemoveIs ==
    ASSUME NEW v \in Slots, NEW s \in Slot, NEW n \in Nat
    PROVE  LET w == RemoveItem(v, s, n)
           IN  /\ w \in Slots
               /\ \A t \in Slot \ {s} : w[t] = v[t]
               /\ v[s].stackCount <= n => w[s] = EmptyStack
               /\ v[s].stackCount > n =>
                    w[s].itemId = v[s].itemId /\ w[s].stackCount = v[s].stackCount - n
  <1> DEFINE w == RemoveItem(v, s, n)
             st == v[s]
             less == [itemId |-> st.itemId, stackCount |-> st.stackCount - n, mark |-> st.mark]
  <1>1. st \in Stack /\ st.stackCount \in Nat /\ v \in [Slot -> Stack]
    BY StackCounts DEF Slots
  <1>2. CASE st.stackCount <= n
    <2>1. w = [v EXCEPT ![s] = EmptyStack]
      BY <1>2 DEF RemoveItem
    <2> QED
      BY <1>1, <1>2, <2>1, StackIs DEF Slots
  <1>3. CASE st.stackCount > n
    <2>1. ~ IsEmpty(st)
      BY <1>1, <1>3, StackIs DEF EmptyStack
    <2>2. /\ st \in [itemId : Item, stackCount : Nat, mark : BOOLEAN]
          /\ st.stackCount \in 1 .. StackLimit[st.itemId]
      BY <1>1, <2>1, StackIs
    <2>3. [st EXCEPT !.stackCount = st.stackCount - n] = less
      BY <2>2
    <2>4. st.stackCount - n \in Nat /\ st.stackCount - n \in 1 .. StackLimit[st.itemId]
      BY <1>3, <2>2, StackIs
    <2>5. less \in Stack
      BY <2>2, <2>4, StackIs
    <2>6. w = [v EXCEPT ![s] = less]
      <3>1. ~ (v[s].stackCount <= n)
        BY <1>1, <1>3
      <3> HIDE DEF less
      <3> QED
        BY <2>3, <3>1 DEF RemoveItem
    <2>7. less.itemId = st.itemId /\ less.stackCount = st.stackCount - n
      OBVIOUS
    <2> HIDE DEF less, w
    <2>8. w \in Slots /\ w[s] = less /\ \A t \in Slot \ {s} : w[t] = v[t]
      BY <1>1, <2>5, <2>6 DEF Slots
    <2> QED
      BY <1>1, <1>3, <2>7, <2>8 DEF w
  <1> QED
    BY <1>1, <1>2, <1>3

\* A pour takes from one stack what it gives to the other.
LEMMA PourIs ==
    ASSUME NEW v \in Slots, NEW from \in Slot, NEW to \in Slot, from # to,
           v[from].itemId = v[to].itemId, ~ IsEmpty(v[to]),
           NEW n \in Nat, n <= v[from].stackCount,
           v[to].stackCount + n <= StackLimit[v[to].itemId]
    PROVE  /\ Pour(v, from, to, n) \in Slots
           /\ \A y : CountItem(Pour(v, from, to, n), y) = CountItem(v, y)
           /\ \A t \in Slot \ {from, to} : Pour(v, from, to, n)[t] = v[t]
           /\ Pour(v, from, to, n)[to].itemId = v[to].itemId
           /\ Pour(v, from, to, n)[to].stackCount = v[to].stackCount + n
           /\ v[from].stackCount <= n => Pour(v, from, to, n)[from] = EmptyStack
           /\ v[from].stackCount > n => Pour(v, from, to, n)[from].itemId = v[from].itemId
  <1> DEFINE u == RemoveItem(v, from, n)
             w == Pour(v, from, to, n)
             x == v[to].itemId
             st == v[to]
             more == [itemId |-> x, stackCount |-> st.stackCount + n, mark |-> st.mark]
  <1>0. /\ u \in Slots
        /\ \A t \in Slot \ {from} : u[t] = v[t]
        /\ v[from].stackCount <= n => u[from] = EmptyStack
        /\ v[from].stackCount > n =>
             u[from].itemId = v[from].itemId /\ u[from].stackCount = v[from].stackCount - n
    BY RemoveIs
  <1>1. u[to] = v[to]
    BY <1>0
  <1>2. w = [u EXCEPT ![to] = [u[to] EXCEPT !.stackCount = u[to].stackCount + n]]
    BY DEF Pour
  <1>3. /\ st \in [itemId : Item, stackCount : Nat, mark : BOOLEAN]
        /\ st.stackCount \in 1 .. StackLimit[x] /\ StackLimit[x] \in Nat
        /\ v[from].stackCount \in Nat /\ u[from].stackCount \in Nat
    <2>1. st \in Stack /\ v[from] \in Stack /\ u[from] \in Stack
      BY <1>0 DEF Slots
    <2> QED
      BY <2>1, StackIs, StackCounts
  <1>4. more \in Stack
    <2>1. st.stackCount + n \in Nat /\ st.stackCount + n \in 1 .. StackLimit[x]
      BY <1>3
    <2> QED
      BY <1>3, <2>1, StackIs
  <1>5. [st EXCEPT !.stackCount = st.stackCount + n] = more
    BY <1>3
  <1>6. w = [u EXCEPT ![to] = more]
    BY <1>1, <1>2, <1>5
  <1>7. more.itemId = x /\ more.stackCount = st.stackCount + n
    OBVIOUS
  <1> HIDE DEF more, u, w
  <1>8. /\ w \in Slots /\ w[to] = more /\ w[from] = u[from]
        /\ \A t \in Slot \ {from, to} : w[t] = v[t]
    BY <1>0, <1>4, <1>6 DEF Slots
  <1>9. ASSUME NEW y
        PROVE  Holds(w[from], y) + Holds(w[to], y) = Holds(v[from], y) + Holds(v[to], y)
    <2>1. CASE y = x
      <3>1. /\ Holds(w[to], y) = st.stackCount + n
            /\ Holds(v[to], y) = st.stackCount
            /\ Holds(v[from], y) = v[from].stackCount
        BY <1>7, <1>8, <2>1 DEF Holds
      <3>2. Holds(w[from], y) = v[from].stackCount - n
        <4>1. CASE v[from].stackCount <= n
          <5>1. w[from].stackCount = 0
            BY <1>0, <1>8, <4>1 DEF EmptyStack
          <5> QED
            BY <1>3, <4>1, <5>1 DEF Holds
        <4>2. CASE v[from].stackCount > n
          BY <1>0, <1>8, <2>1, <4>2 DEF Holds
        <4> QED
          BY <1>3, <4>1, <4>2
      <3> QED
        BY <1>3, <3>1, <3>2
    <2>2. CASE y # x
      <3>1. Holds(w[to], y) = 0 /\ Holds(v[to], y) = 0 /\ Holds(v[from], y) = 0
        BY <1>7, <1>8, <2>2 DEF Holds
      <3>2. Holds(w[from], y) = 0
        <4>1. CASE v[from].stackCount <= n
          BY <1>0, <1>8, <4>1 DEF EmptyStack, Holds
        <4>2. CASE v[from].stackCount > n
          BY <1>0, <1>8, <2>2, <4>2 DEF Holds
        <4> QED
          BY <1>3, <4>1, <4>2
      <3> QED
        BY <3>1, <3>2
    <2> QED
      BY <2>1, <2>2
  <1>10. \A y : CountItem(w, y) = CountItem(v, y)
    BY <1>8, <1>9, ExchangeConserves
  <1> QED
    BY <1>0, <1>7, <1>8, <1>10 DEF w

\* What is in two slots changes places.
LEMMA SwapIs ==
    ASSUME NEW v \in Slots, NEW from \in Slot, NEW to \in Slot
    PROVE  /\ Swap(v, from, to) \in Slots
           /\ \A y : CountItem(Swap(v, from, to), y) = CountItem(v, y)
  <1> DEFINE w == Swap(v, from, to)
  <1>1. /\ w \in Slots /\ w[to] = v[from] /\ w[from] = v[to]
        /\ \A t \in Slot \ {from, to} : w[t] = v[t]
    BY DEF Swap, Slots
  <1>2. CASE from = to
    <2>1. w = v
      BY <1>1, <1>2 DEF Slots
    <2> QED
      BY <2>1
  <1>3. CASE from # to
    <2> HIDE DEF w
    <2>1. ASSUME NEW y
          PROVE  Holds(w[from], y) + Holds(w[to], y) = Holds(v[from], y) + Holds(v[to], y)
      <3>1. Holds(v[from], y) \in Nat /\ Holds(v[to], y) \in Nat
        BY StackCounts DEF Slots
      <3> QED
        BY <1>1, <3>1
    <2>2. \A y : CountItem(w, y) = CountItem(v, y)
      BY <1>1, <1>3, <2>1, ExchangeConserves
    <2> QED
      BY <1>1, <2>2 DEF w
  <1> QED
    BY <1>2, <1>3

LEMMA MoveIs ==
    ASSUME NEW v \in Slots, NEW from \in Slot, NEW to \in Slot, CanMove(v, from)
    PROVE  /\ MoveItem(v, from, to) \in Slots
           /\ \A y : CountItem(MoveItem(v, from, to), y) = CountItem(v, y)
  <1> DEFINE n == Pourable(v, from, to)
  <1>1. CASE from # to /\ v[from].itemId = v[to].itemId /\ n > 0
    <2>1. ~ IsEmpty(v[to])
      BY <1>1 DEF CanMove, IsEmpty
    <2>2. v[from].stackCount \in Nat /\ v[to].stackCount \in 1 .. StackLimit[v[to].itemId]
          /\ StackLimit[v[to].itemId] \in Nat
      <3>1. v[from] \in Stack /\ v[to] \in Stack
        BY DEF Slots
      <3> QED
        BY <2>1, <3>1, StackIs, StackCounts
    <2>3. /\ n \in Nat /\ n <= v[from].stackCount
          /\ v[to].stackCount + n <= StackLimit[v[to].itemId]
      BY <2>2 DEF Pourable, Smaller
    <2>4. MoveItem(v, from, to) = Pour(v, from, to, n)
      BY <1>1 DEF MoveItem
    <2> HIDE DEF n
    <2> QED
      BY <1>1, <2>1, <2>3, <2>4, PourIs
  <1>2. CASE ~ (from # to /\ v[from].itemId = v[to].itemId /\ n > 0)
    <2>1. MoveItem(v, from, to) = Swap(v, from, to)
      BY <1>2 DEF MoveItem
    <2> QED
      BY <2>1, SwapIs
  <1> QED
    BY <1>1, <1>2

LEMMA SplitIs ==
    ASSUME NEW v \in Slots, NEW from \in Slot, NEW to \in Slot, NEW n \in Nat,
           CanSplit(v, from, to, n)
    PROVE  /\ SplitStack(v, from, to, n) \in Slots
           /\ \A y : CountItem(SplitStack(v, from, to, n), y) = CountItem(v, y)
  <1> DEFINE st == v[from]
             x == st.itemId
             kept == [itemId |-> x, stackCount |-> st.stackCount - n, mark |-> st.mark]
             new == [itemId |-> x, stackCount |-> n, mark |-> FALSE]
             w == SplitStack(v, from, to, n)
  <1>1. /\ from # to /\ ~ IsEmpty(st) /\ 0 < n /\ n < st.stackCount
        /\ \/ IsEmpty(v[to])
           \/ v[to].itemId = x /\ v[to].stackCount + n <= StackLimit[x]
    BY DEF CanSplit
  <1>2. /\ st \in [itemId : Item, stackCount : Nat, mark : BOOLEAN]
        /\ st.stackCount \in 1 .. StackLimit[x] /\ StackLimit[x] \in Nat
        /\ v[to] \in Stack /\ v \in [Slot -> Stack]
    <2>1. st \in Stack
      BY DEF Slots
    <2> QED
      BY <1>1, <2>1, StackIs DEF Slots
  <1>3. CASE IsEmpty(v[to])
    <2>1. [st EXCEPT !.stackCount = st.stackCount - n] = kept
      BY <1>2
    <2>2. kept \in Stack /\ new \in Stack
      <3>1. /\ st.stackCount - n \in Nat /\ st.stackCount - n \in 1 .. StackLimit[x]
            /\ n \in 1 .. StackLimit[x]
        BY <1>1, <1>2
      <3> QED
        BY <1>2, <3>1, StackIs
    <2>3. w = [[v EXCEPT ![to] = new] EXCEPT ![from] = kept]
      BY <1>1, <1>2, <1>3, <2>1 DEF SplitStack
    <2>4. /\ kept.itemId = x /\ kept.stackCount = st.stackCount - n
          /\ new.itemId = x /\ new.stackCount = n
      OBVIOUS
    <2> HIDE DEF kept, new, w
    <2>5. /\ w \in Slots /\ w[from] = kept /\ w[to] = new
          /\ \A t \in Slot \ {from, to} : w[t] = v[t]
      BY <1>1, <1>2, <2>2, <2>3 DEF Slots
    <2>6. ASSUME NEW y
          PROVE  Holds(w[from], y) + Holds(w[to], y) = Holds(v[from], y) + Holds(v[to], y)
      <3>1. Holds(v[to], y) = 0
        BY <1>2, <1>3, StackIs DEF EmptyStack, Holds
      <3> QED
        BY <1>2, <2>4, <2>5, <3>1 DEF Holds
    <2>7. \A y : CountItem(w, y) = CountItem(v, y)
      BY <1>1, <2>5, <2>6, ExchangeConserves
    <2> QED
      BY <2>5, <2>7 DEF w
  <1>4. CASE ~ IsEmpty(v[to])
    <2>1. w = Pour(v, from, to, n)
      BY <1>4 DEF SplitStack
    <2>2. /\ v[from].itemId = v[to].itemId /\ n <= v[from].stackCount
          /\ v[to].stackCount + n <= StackLimit[v[to].itemId]
      BY <1>1, <1>2, <1>4
    <2> QED
      BY <1>1, <1>4, <2>1, <2>2, PourIs
  <1> QED
    BY <1>3, <1>4

-----------------------------------------------------------------------------
(* sort.                                                                   *)

\* One visit: as much of everything, only the two slots change, and the later
\* one is empty or the earlier one is full afterwards.
LEMMA MergeIs ==
    ASSUME NEW v \in Slots, NEW i \in Slot, NEW j \in Slot, i # j
    PROVE  LET w == MergeFrom(v, i, j)
           IN  /\ w \in Slots
               /\ \A y : CountItem(w, y) = CountItem(v, y)
               /\ \A t \in Slot \ {i, j} : w[t] = v[t]
               /\ w[i].itemId = v[i].itemId
               /\ w[j] = EmptyStack \/ w[j].itemId = v[j].itemId
               /\ v[i].stackCount = StackLimit[v[i].itemId] => w[i] = v[i]
               /\ ~ IsEmpty(v[i]) /\ w[j].itemId = v[i].itemId =>
                    w[i].stackCount = StackLimit[v[i].itemId]
  <1> DEFINE w == MergeFrom(v, i, j)
             n == Pourable(v, j, i)
             x == v[i].itemId
             limit == StackLimit[x]
  <1>1. CASE ~ (~ IsEmpty(v[i]) /\ v[j].itemId = x)
    <2>1. w = v
      BY <1>1 DEF MergeFrom
    <2> QED
      BY <1>1, <2>1
  <1>2. CASE ~ IsEmpty(v[i]) /\ v[j].itemId = x
    <2>1. /\ v[i].stackCount \in 1 .. limit /\ limit \in Nat
          /\ v[j].stackCount \in 1 .. limit /\ v[j].stackCount \in Nat
      <3>1. v[i] \in Stack /\ v[j] \in Stack
        BY DEF Slots
      <3>2. ~ IsEmpty(v[j])
        BY <1>2 DEF IsEmpty
      <3> QED
        BY <1>2, <3>1, <3>2, StackIs
    <2>2. /\ n \in Int
          /\ n = IF limit - v[i].stackCount <= v[j].stackCount
                 THEN limit - v[i].stackCount ELSE v[j].stackCount
      BY <2>1 DEF Pourable, Smaller
    <2>3. CASE ~ n > 0
      <3>1. w = v
        BY <1>2, <2>3 DEF MergeFrom
      <3>2. v[i].stackCount = limit
        <4> HIDE DEF n
        <4> QED
          BY <2>1, <2>2, <2>3
      <3> QED
        BY <3>1, <3>2
    <2>4. CASE n > 0
      <3>1. w = Pour(v, j, i, n)
        BY <1>2, <2>4 DEF MergeFrom
      <3> HIDE DEF n
      <3>2. /\ n \in Nat /\ n <= v[j].stackCount /\ v[i].stackCount + n <= limit
            /\ v[i].stackCount # limit
            /\ v[j].stackCount > n => v[i].stackCount + n = limit
            /\ ~ (v[j].stackCount > n) => v[j].stackCount <= n
        BY <2>1, <2>2, <2>4
      <3>3. /\ w \in Slots
            /\ \A y : CountItem(w, y) = CountItem(v, y)
            /\ \A t \in Slot \ {j, i} : w[t] = v[t]
            /\ w[i].itemId = x
            /\ w[i].stackCount = v[i].stackCount + n
            /\ v[j].stackCount <= n => w[j] = EmptyStack
            /\ v[j].stackCount > n => w[j].itemId = v[j].itemId
        BY <1>2, <3>1, <3>2, PourIs
      <3>4. w[j].itemId = x => w[i].stackCount = limit
        BY <1>2, <3>2, <3>3 DEF EmptyStack, IsEmpty
      <3> HIDE DEF w
      <3> QED
        BY <1>2, <3>2, <3>3, <3>4 DEF w
    <2> QED
      BY <2>3, <2>4
  <1> QED
    BY <1>1, <1>2

\* What slot i, drawing from the slots before k, has made of v.
Drawn(v, w, i, k) ==
    /\ w \in Slots
    /\ \A y : CountItem(w, y) = CountItem(v, y)
    /\ \A t \in Slot : t < i => w[t] = v[t]
    /\ \A t \in Slot : w[t] = EmptyStack \/ w[t].itemId = v[t].itemId
    /\ w[i].itemId = v[i].itemId
    /\ ~ IsEmpty(v[i]) =>
         \A j \in Slot : i < j /\ j < k /\ w[j].itemId = v[i].itemId =>
           w[i].stackCount = StackLimit[v[i].itemId]

Draw(w, i, j) == IF i < j THEN MergeFrom(w, i, j) ELSE w

LEMMA DrawnStep ==
    ASSUME NEW v \in Slots, NEW w, NEW i \in Slot, NEW k \in 1 .. MAX_SLOTS,
           Drawn(v, w, i, k - 1)
    PROVE  Drawn(v, Draw(w, i, SlotOrder[k]), i, k)
  <1> DEFINE j == k - 1
             r == Draw(w, i, j)
             x == v[i].itemId
             limit == StackLimit[x]
  <1>1. SlotOrder[k] = j /\ j \in Slot
    BY SlotsAssumption DEF SlotOrder, Slot
  <1>2. i \in Int /\ k \in Int /\ \A t \in Slot : t \in Int
    BY SlotsAssumption DEF Slot
  <1>3. CASE ~ i < j
    <2>1. r = w
      BY <1>3 DEF Draw
    <2>2. \A t \in Slot : ~ (i < t /\ t < k)
      BY <1>2, <1>3
    <2> QED
      BY <1>1, <2>1, <2>2 DEF Drawn
  <1>4. CASE i < j
    <2>1. r = MergeFrom(w, i, j) /\ w \in Slots /\ i # j
      BY <1>2, <1>4 DEF Draw, Drawn
    <2>2. /\ r \in Slots
          /\ \A y : CountItem(r, y) = CountItem(w, y)
          /\ \A t \in Slot \ {i, j} : r[t] = w[t]
          /\ r[i].itemId = w[i].itemId
          /\ r[j] = EmptyStack \/ r[j].itemId = w[j].itemId
          /\ w[i].stackCount = StackLimit[w[i].itemId] => r[i] = w[i]
          /\ ~ IsEmpty(w[i]) /\ r[j].itemId = w[i].itemId =>
               r[i].stackCount = StackLimit[w[i].itemId]
      <3> HIDE DEF r, j
      <3>1. /\ MergeFrom(w, i, j) \in Slots
            /\ \A y : CountItem(MergeFrom(w, i, j), y) = CountItem(w, y)
            /\ \A t \in Slot \ {i, j} : MergeFrom(w, i, j)[t] = w[t]
            /\ MergeFrom(w, i, j)[i].itemId = w[i].itemId
            /\ \/ MergeFrom(w, i, j)[j] = EmptyStack
               \/ MergeFrom(w, i, j)[j].itemId = w[j].itemId
            /\ w[i].stackCount = StackLimit[w[i].itemId] => MergeFrom(w, i, j)[i] = w[i]
            /\ ~ IsEmpty(w[i]) /\ MergeFrom(w, i, j)[j].itemId = w[i].itemId =>
                 MergeFrom(w, i, j)[i].stackCount = StackLimit[w[i].itemId]
        BY <1>1, <2>1, MergeIs
      <3> QED
        BY <2>1, <3>1
    <2> HIDE DEF r
    <2>3. w[i].itemId = x
      BY DEF Drawn
    <2>4. \A y : CountItem(r, y) = CountItem(v, y)
      BY <2>2 DEF Drawn
    <2>5. \A t \in Slot : t < i => r[t] = v[t]
      <3> SUFFICES ASSUME NEW t \in Slot, t < i  PROVE r[t] = v[t]
        OBVIOUS
      <3>1. t # i /\ t # j
        BY <1>2, <1>4
      <3> QED
        BY <2>2, <3>1 DEF Drawn
    <2>6. \A t \in Slot : r[t] = EmptyStack \/ r[t].itemId = v[t].itemId
      <3> SUFFICES ASSUME NEW t \in Slot  PROVE r[t] = EmptyStack \/ r[t].itemId = v[t].itemId
        OBVIOUS
      <3>1. w[t] = EmptyStack \/ w[t].itemId = v[t].itemId
        BY DEF Drawn
      <3>2. CASE t = i
        BY <2>2, <2>3, <3>2
      <3>3. CASE t = j
        <4>1. CASE r[j] = EmptyStack
          BY <3>3, <4>1
        <4>2. CASE r[j].itemId = w[j].itemId
          <5>1. CASE w[j] = EmptyStack
            <6>1. r[j] \in Stack /\ IsEmpty(r[j])
              BY <1>1, <2>2, <4>2, <5>1 DEF Slots, IsEmpty, EmptyStack
            <6> QED
              BY <3>3, <6>1, StackIs
          <5>2. CASE w[j].itemId = v[j].itemId
            BY <3>3, <4>2, <5>2
          <5> QED
            BY <3>1, <3>3, <5>1, <5>2
        <4> QED
          BY <2>2, <4>1, <4>2
      <3>4. CASE t \notin {i, j}
        BY <2>2, <3>1, <3>4
      <3> QED
        BY <3>2, <3>3, <3>4
    <2>7. ASSUME ~ IsEmpty(v[i]), NEW t \in Slot, i < t, t < k, r[t].itemId = x
          PROVE  r[i].stackCount = limit
      <3>1. ~ IsEmpty(w[i])
        BY <2>3, <2>7 DEF IsEmpty
      <3>2. CASE t = j
        BY <2>2, <2>3, <2>7, <3>1, <3>2
      <3>3. CASE t # j
        <4>1. t < j /\ t \notin {i, j}
          BY <1>2, <2>7, <3>3
        <4>2. w[t].itemId = x
          BY <2>2, <2>7, <4>1
        <4>3. w[i].stackCount = limit
          BY <2>7, <4>1, <4>2 DEF Drawn
        <4>4. r[i] = w[i]
          BY <2>2, <2>3, <4>3
        <4> QED
          BY <4>3, <4>4
      <3> QED
        BY <3>2, <3>3
    <2>8. Drawn(v, r, i, k)
      BY <2>2, <2>3, <2>4, <2>5, <2>6, <2>7 DEF Drawn
    <2> QED
      BY <1>1, <2>8 DEF r
  <1> QED
    BY <1>3, <1>4

\* DrawInto and Consolidate, solved.
LEMMA DrawIsTyped ==
    \A w \in Slots, i, j \in Slot : Draw(w, i, j) \in Slots
  <1> SUFFICES ASSUME NEW w \in Slots, NEW i \in Slot, NEW j \in Slot
               PROVE  Draw(w, i, j) \in Slots
    OBVIOUS
  <1>1. CASE i < j
    <2>1. i # j
      BY <1>1, SlotsAssumption DEF Slot
    <2> QED
      BY <1>1, <2>1, MergeIs DEF Draw
  <1>2. CASE ~ i < j
    BY <1>2 DEF Draw
  <1> QED
    BY <1>1, <1>2

LEMMA Drawing ==
    ASSUME NEW v \in Slots, NEW i \in Slot
    PROVE  \E g : /\ g[{}] = v
                  /\ \A k \in 1 .. MAX_SLOTS :
                       g[1 .. k] = Draw(g[1 .. (k - 1)], i, SlotOrder[k])
                  /\ g[1 .. MAX_SLOTS] = DrawInto(v, i)
  <1> DEFINE N == 1 .. MAX_SLOTS
             step == [p \in N \X Slots |-> Draw(p[2], i, SlotOrder[p[1]])]
             Solves(f) == f = [s \in SUBSET N |->
                                 IF s = {} THEN v
                                 ELSE IF i < SlotOrder[Max(s)]
                                      THEN MergeFrom(f[s \ {Max(s)}], i, SlotOrder[Max(s)])
                                      ELSE f[s \ {Max(s)}]]
             g == CHOOSE f : Solves(f)
  <1>1. step \in [N \X Slots -> Slots]
    BY SlotsInOrder, DrawIsTyped
  <1>2. PICK f \in [SUBSET N -> Slots] : LeftFolds(f, MAX_SLOTS, v, step)
    <2> HIDE DEF step
    <2> QED
      BY <1>1, SlotsInOrder, FoldLeftSolved
  <1>3. Solves(f)
    BY <1>2, SlotsInOrder, LastIndex DEF LeftFolds, Draw
  <1>4. Solves(g)
    BY <1>3
  <1>5. g[N] = DrawInto(v, i)
    BY SlotsInOrder DEF DrawInto, FoldLeft, MapThenFoldSet
  <1> HIDE DEF g
  <1>6. g[{}] = v
    BY <1>4
  <1>7. ASSUME NEW k \in N  PROVE g[1 .. k] = Draw(g[1 .. (k - 1)], i, SlotOrder[k])
    <2>1. /\ 1 .. k \in SUBSET N /\ 1 .. k # {}
          /\ Max(1 .. k) = k
          /\ (1 .. k) \ {k} = 1 .. (k - 1)
      BY SlotsInOrder, PrefixOf
    <2> QED
      BY <1>4, <2>1 DEF Draw
  <1> QED
    BY <1>5, <1>6, <1>7

LEMMA DrawnAll ==
    ASSUME NEW v \in Slots, NEW i \in Slot
    PROVE  Drawn(v, DrawInto(v, i), i, MAX_SLOTS)
  <1> DEFINE good == [k \in 0 .. MAX_SLOTS |-> {w \in Slots : Drawn(v, w, i, k)}]
  <1>1. PICK g : /\ g[{}] = v
                 /\ \A k \in 1 .. MAX_SLOTS :
                      g[1 .. k] = Draw(g[1 .. (k - 1)], i, SlotOrder[k])
                 /\ g[1 .. MAX_SLOTS] = DrawInto(v, i)
    BY Drawing
  <1>2. \A k \in 0 .. MAX_SLOTS : \A w : w \in good[k] <=> Drawn(v, w, i, k)
    BY DEF Drawn
  <1>3. /\ MAX_SLOTS \in Nat
        /\ 0 \in 0 .. MAX_SLOTS /\ MAX_SLOTS \in 0 .. MAX_SLOTS
        /\ \A k \in 1 .. MAX_SLOTS : k \in 0 .. MAX_SLOTS /\ k - 1 \in 0 .. MAX_SLOTS
    BY SlotsAssumption
  <1>4. Drawn(v, v, i, 0)
    <2>1. \A j \in Slot : ~ (j < 0)
      BY SlotsAssumption DEF Slot
    <2> QED
      BY <2>1 DEF Drawn
  <1> HIDE DEF good
  <1>5. g[{}] \in good[0]
    BY <1>1, <1>2, <1>3, <1>4
  <1>6. \A k \in 1 .. MAX_SLOTS : g[1 .. (k - 1)] \in good[k - 1] => g[1 .. k] \in good[k]
    <2> SUFFICES ASSUME NEW k \in 1 .. MAX_SLOTS, g[1 .. (k - 1)] \in good[k - 1]
                 PROVE  g[1 .. k] \in good[k]
      OBVIOUS
    <2>1. Drawn(v, g[1 .. (k - 1)], i, k - 1)
      BY <1>2, <1>3
    <2>2. Drawn(v, Draw(g[1 .. (k - 1)], i, SlotOrder[k]), i, k)
      BY <2>1, DrawnStep
    <2> QED
      BY <1>1, <1>2, <1>3, <2>2
  <1>7. g[1 .. MAX_SLOTS] \in good[MAX_SLOTS]
    BY <1>3, <1>5, <1>6, FoldLeftSteps
  <1> QED
    BY <1>1, <1>2, <1>3, <1>7

\* What consolidating from the first k slots has made of v: none of them could
\* still draw from a later one.
Settled(v, w, k) ==
    /\ w \in Slots
    /\ \A y : CountItem(w, y) = CountItem(v, y)
    /\ \A i, j \in Slot :
         i < k /\ i < j /\ ~ IsEmpty(w[i]) /\ w[j].itemId = w[i].itemId =>
           w[i].stackCount = StackLimit[w[i].itemId]

LEMMA SettledStep ==
    ASSUME NEW v, NEW w, NEW k \in 1 .. MAX_SLOTS, Settled(v, w, k - 1)
    PROVE  Settled(v, DrawInto(w, SlotOrder[k]), k)
  <1> DEFINE i == k - 1
             r == DrawInto(w, i)
  <1>1. SlotOrder[k] = i /\ i \in Slot /\ w \in Slots
    BY SlotsAssumption DEF SlotOrder, Slot, Settled
  <1>2. k \in Int /\ MAX_SLOTS \in Int /\ \A t \in Slot : t \in Int /\ t < MAX_SLOTS
    BY SlotsAssumption DEF Slot
  <1>3. Drawn(w, r, i, MAX_SLOTS)
    <2> HIDE DEF i
    <2> QED
      BY <1>1, DrawnAll
  <1> HIDE DEF r
  <1>4. /\ r \in Slots
        /\ \A y : CountItem(r, y) = CountItem(w, y)
        /\ \A t \in Slot : t < i => r[t] = w[t]
        /\ \A t \in Slot : r[t] = EmptyStack \/ r[t].itemId = w[t].itemId
        /\ r[i].itemId = w[i].itemId
        /\ ~ IsEmpty(w[i]) =>
             \A j \in Slot : i < j /\ j < MAX_SLOTS /\ r[j].itemId = w[i].itemId =>
               r[i].stackCount = StackLimit[w[i].itemId]
    BY <1>3 DEF Drawn
  <1>5. \A y : CountItem(r, y) = CountItem(v, y)
    BY <1>4 DEF Settled
  <1>6. ASSUME NEW a \in Slot, NEW j \in Slot, a < k, a < j, ~ IsEmpty(r[a]),
               r[j].itemId = r[a].itemId
        PROVE  r[a].stackCount = StackLimit[r[a].itemId]
    <2>1. CASE a = i
      BY <1>2, <1>4, <1>6, <2>1 DEF IsEmpty
    <2>2. CASE a # i
      <3>1. a < i /\ r[a] = w[a]
        BY <1>2, <1>4, <1>6, <2>2
      <3>2. r[j].itemId = w[j].itemId
        BY <1>4, <1>6 DEF IsEmpty, EmptyStack
      <3> QED
        BY <1>6, <3>1, <3>2 DEF Settled
    <2> QED
      BY <2>1, <2>2
  <1>7. Settled(v, r, k)
    BY <1>4, <1>5, <1>6 DEF Settled
  <1> QED
    BY <1>1, <1>7 DEF r

LEMMA Consolidating ==
    ASSUME NEW v \in Slots
    PROVE  \E g : /\ g[{}] = v
                  /\ \A k \in 1 .. MAX_SLOTS :
                       g[1 .. k] = DrawInto(g[1 .. (k - 1)], SlotOrder[k])
                  /\ g[1 .. MAX_SLOTS] = Consolidate(v)
  <1> DEFINE N == 1 .. MAX_SLOTS
             step == [p \in N \X Slots |-> DrawInto(p[2], SlotOrder[p[1]])]
             Solves(f) == f = [s \in SUBSET N |->
                                 IF s = {} THEN v
                                 ELSE DrawInto(f[s \ {Max(s)}], SlotOrder[Max(s)])]
             g == CHOOSE f : Solves(f)
  <1>1. step \in [N \X Slots -> Slots]
    <2>1. \A w \in Slots, i \in Slot : DrawInto(w, i) \in Slots
      BY DrawnAll DEF Drawn
    <2> QED
      BY <2>1, SlotsInOrder
  <1>2. PICK f \in [SUBSET N -> Slots] : LeftFolds(f, MAX_SLOTS, v, step)
    <2> HIDE DEF step
    <2> QED
      BY <1>1, SlotsInOrder, FoldLeftSolved
  <1>3. Solves(f)
    BY <1>2, SlotsInOrder, LastIndex DEF LeftFolds
  <1>4. Solves(g)
    BY <1>3
  <1>5. g[N] = Consolidate(v)
    BY SlotsInOrder DEF Consolidate, FoldLeft, MapThenFoldSet
  <1> HIDE DEF g
  <1>6. g[{}] = v
    BY <1>4
  <1>7. ASSUME NEW k \in N  PROVE g[1 .. k] = DrawInto(g[1 .. (k - 1)], SlotOrder[k])
    <2>1. /\ 1 .. k \in SUBSET N /\ 1 .. k # {}
          /\ Max(1 .. k) = k
          /\ (1 .. k) \ {k} = 1 .. (k - 1)
      BY SlotsInOrder, PrefixOf
    <2> QED
      BY <1>4, <2>1
  <1> QED
    BY <1>5, <1>6, <1>7

\* Consolidating leaves at most one stack of each item that is not full.
LEMMA ConsolidateIs ==
    ASSUME NEW v \in Slots
    PROVE  Settled(v, Consolidate(v), MAX_SLOTS)
  <1> DEFINE good == [k \in 0 .. MAX_SLOTS |-> {w \in Slots : Settled(v, w, k)}]
  <1>1. PICK g : /\ g[{}] = v
                 /\ \A k \in 1 .. MAX_SLOTS :
                      g[1 .. k] = DrawInto(g[1 .. (k - 1)], SlotOrder[k])
                 /\ g[1 .. MAX_SLOTS] = Consolidate(v)
    BY Consolidating
  <1>2. \A k \in 0 .. MAX_SLOTS : \A w : w \in good[k] <=> Settled(v, w, k)
    BY DEF Settled
  <1>3. /\ MAX_SLOTS \in Nat
        /\ 0 \in 0 .. MAX_SLOTS /\ MAX_SLOTS \in 0 .. MAX_SLOTS
        /\ \A k \in 1 .. MAX_SLOTS : k \in 0 .. MAX_SLOTS /\ k - 1 \in 0 .. MAX_SLOTS
    BY SlotsAssumption
  <1>4. Settled(v, v, 0)
    <2>1. \A j \in Slot : ~ (j < 0)
      BY SlotsAssumption DEF Slot
    <2> QED
      BY <2>1 DEF Settled
  <1> HIDE DEF good
  <1>5. g[{}] \in good[0]
    BY <1>1, <1>2, <1>3, <1>4
  <1>6. \A k \in 1 .. MAX_SLOTS : g[1 .. (k - 1)] \in good[k - 1] => g[1 .. k] \in good[k]
    <2> SUFFICES ASSUME NEW k \in 1 .. MAX_SLOTS, g[1 .. (k - 1)] \in good[k - 1]
                 PROVE  g[1 .. k] \in good[k]
      OBVIOUS
    <2>1. Settled(v, g[1 .. (k - 1)], k - 1)
      BY <1>2, <1>3
    <2>2. Settled(v, DrawInto(g[1 .. (k - 1)], SlotOrder[k]), k)
      BY <2>1, SettledStep
    <2> QED
      BY <1>1, <1>2, <1>3, <2>2
  <1>7. g[1 .. MAX_SLOTS] \in good[MAX_SLOTS]
    BY <1>3, <1>5, <1>6, FoldLeftSteps
  <1> QED
    BY <1>1, <1>2, <1>3, <1>7

LEMMA AtMostOne ==
    ASSUME NEW S, \A a, b \in S : a = b
    PROVE  IsFiniteSet(S) /\ Cardinality(S) <= 1
  <1>1. CASE S = {}
    BY <1>1, FS_EmptySet
  <1>2. CASE S # {}
    <2>1. PICK a \in S : S = {a}
      BY <1>2
    <2>2. IsFiniteSet({a}) /\ Cardinality({a}) = 1
      BY FS_Singleton
    <2> QED
      BY <2>1, <2>2
  <1> QED
    BY <1>1, <1>2

\* The stacks of v, packed from slot 0 in the order o: the first k of them, and
\* where they were.
Packed(v, o, k) == [s \in Slot |-> IF s < k THEN v[o[s]] ELSE EmptyStack]
Picked(v, o, k) == [s \in Slot |-> IF \E a \in 0 .. k - 1 : o[a] = s THEN v[s] ELSE EmptyStack]

\* Packing conserves: it puts away one stack after the other.
LEMMA PackingConserves ==
    ASSUME NEW v \in Slots, NEW n \in 0 .. MAX_SLOTS, NEW o \in [0 .. n - 1 -> Slot],
           \A a, b \in 0 .. n - 1 : a # b => o[a] # o[b],
           NEW x
    PROVE  CountItem(Packed(v, o, n), x) = CountItem(Picked(v, o, n), x)
  <1> DEFINE P(k) == Packed(v, o, k)
             Q(k) == Picked(v, o, k)
             K == {k \in 0 .. n : CountItem(P(k), x) = CountItem(Q(k), x)}
             m == Max(K)
  <1>1. n \in Nat /\ MAX_SLOTS \in Nat /\ n <= MAX_SLOTS
    BY SlotsAssumption
  <1>2. \A k \in 0 .. n : P(k) \in Slots /\ Q(k) \in Slots
    <2> SUFFICES ASSUME NEW k \in 0 .. n  PROVE P(k) \in Slots /\ Q(k) \in Slots
      OBVIOUS
    <2>1. \A s \in Slot : s < k => o[s] \in Slot
      BY <1>1 DEF Slot
    <2> QED
      BY <2>1, StackIs DEF Packed, Picked, Slots
  <1>3. 0 \in K
    <2>1. P(0) = Q(0)
      <3>1. \A s \in Slot : ~ (s < 0)
        BY SlotsAssumption DEF Slot
      <3> QED
        BY <3>1 DEF Packed, Picked
    <2> QED
      BY <1>1, <2>1
  <1>4. m \in K /\ \A k \in K : m >= k
    <2>1. K \subseteq 0 .. n
      OBVIOUS
    <2>2. IsFiniteSet(K) /\ K \subseteq Int /\ K # {}
      <3>1. IsFiniteSet(0 .. n)
        BY <1>1, FS_Interval
      <3> HIDE DEF K
      <3>2. IsFiniteSet(K)
        BY <2>1, <3>1, FS_Subset
      <3> QED
        BY <1>3, <2>1, <3>2
    <2> HIDE DEF K
    <2> QED
      BY <2>2, GreatestOne
  <1>5. m \in 0 .. n /\ CountItem(P(m), x) = CountItem(Q(m), x)
    <2> HIDE DEF P, Q, m
    <2> QED
      BY <1>4
  <1> HIDE DEF m
  <1>6. CASE m = n
    BY <1>5, <1>6
  <1>7. CASE m # n
    <2>1. m \in 0 .. n - 1 /\ m + 1 \in 0 .. n /\ m \in Slot /\ o[m] \in Slot
      BY <1>1, <1>5, <1>7 DEF Slot
    <2>2. /\ P(m + 1)[m] = v[o[m]] /\ P(m)[m] = EmptyStack
          /\ \A s \in Slot \ {m} : P(m + 1)[s] = P(m)[s]
      <3>1. \A s \in Slot : s \in Int
        BY SlotsAssumption DEF Slot
      <3>2. m \in Int
        BY <2>1
      <3>3. \A s \in Slot \ {m} : s < m + 1 <=> s < m
        BY <3>1, <3>2
      <3>4. m < m + 1 /\ ~ (m < m)
        BY <3>2
      <3> QED
        BY <2>1, <3>3, <3>4 DEF Packed
    <2>3. /\ Q(m + 1)[o[m]] = v[o[m]] /\ Q(m)[o[m]] = EmptyStack
          /\ \A s \in Slot \ {o[m]} : Q(m + 1)[s] = Q(m)[s]
      <3>1. (m + 1) - 1 = m /\ m \in 0 .. m
        BY <2>1
      <3>2. ~ \E a \in 0 .. m - 1 : o[a] = o[m]
        BY <2>1
      <3>3. \A s \in Slot \ {o[m]} :
              (\E a \in 0 .. m : o[a] = s) <=> (\E a \in 0 .. m - 1 : o[a] = s)
        <4>1. \A a \in 0 .. m : a = m \/ a \in 0 .. m - 1
          BY <2>1
        <4>2. \A a \in 0 .. m - 1 : a \in 0 .. m
          BY <2>1
        <4> QED
          BY <4>1, <4>2
      <3> QED
        BY <2>1, <3>1, <3>2, <3>3 DEF Picked
    <2>4. P(m) \in Slots /\ P(m + 1) \in Slots /\ Q(m) \in Slots /\ Q(m + 1) \in Slots
      BY <1>2, <1>5, <2>1
    <2> HIDE DEF P, Q
    <2>5. /\ CountItem(P(m), x) \in Nat /\ CountItem(P(m + 1), x) \in Nat
          /\ CountItem(P(m + 1), x) + Holds(P(m)[m], x) = CountItem(P(m), x) + Holds(P(m + 1)[m], x)
      BY <2>1, <2>2, <2>4, CountPut
    <2>6. /\ CountItem(Q(m), x) \in Nat /\ CountItem(Q(m + 1), x) \in Nat
          /\ CountItem(Q(m + 1), x) + Holds(Q(m)[o[m]], x)
               = CountItem(Q(m), x) + Holds(Q(m + 1)[o[m]], x)
      <3> DEFINE a == o[m]
      <3>1. /\ a \in Slot /\ Q(m) \in Slots /\ Q(m + 1) \in Slots
            /\ \A s \in Slot \ {a} : Q(m + 1)[s] = Q(m)[s]
        BY <2>1, <2>3, <2>4
      <3> HIDE DEF a
      <3>2. /\ CountItem(Q(m), x) \in Nat /\ CountItem(Q(m + 1), x) \in Nat
            /\ CountItem(Q(m + 1), x) + Holds(Q(m)[a], x)
                 = CountItem(Q(m), x) + Holds(Q(m + 1)[a], x)
        BY <3>1, CountPut
      <3> QED
        BY <3>2 DEF a
    <2>7. CountItem(P(m + 1), x) = CountItem(Q(m + 1), x)
      <3>1. Holds(EmptyStack, x) = 0 /\ Holds(v[o[m]], x) \in Nat
        BY <2>1, StackCounts DEF Slots, Holds, EmptyStack
      <3> QED
        BY <1>5, <2>2, <2>3, <2>5, <2>6, <3>1
    <2>8. m + 1 \in K
      BY <2>1, <2>7
    <2> HIDE DEF K
    <2> QED
      BY <1>4, <1>5, <2>8
  <1> QED
    BY <1>6, <1>7 DEF P, Q

\* No gap, ascending ids, and at most one stack of each item that is not full.
Ordered(w) ==
    /\ \A s, t \in Slot : s < t /\ ~ IsEmpty(w[t]) =>
         ~ IsEmpty(w[s]) /\ w[s].itemId <= w[t].itemId
    /\ \A x \in Item : \A s, t \in Slot :
         /\ w[s].itemId = x /\ w[s].stackCount < StackLimit[x]
         /\ w[t].itemId = x /\ w[t].stackCount < StackLimit[x]
         => s = t

LEMMA UsedSlots ==
    ASSUME NEW v
    PROVE  LET n == Cardinality(Slot \ EmptySlots(v))
           IN  n \in 0 .. MAX_SLOTS
  <1> DEFINE S == Slot \ EmptySlots(v)
  <1>1. IsFiniteSet(S) /\ Cardinality(S) \in Nat /\ Cardinality(S) <= Cardinality(Slot)
    BY SlotsFinite, FS_Subset, FS_CardinalityType
  <1>2. Cardinality(Slot) = MAX_SLOTS
    <2>1. 0 \in Int /\ MAX_SLOTS - 1 \in Int /\ MAX_SLOTS \in Nat /\ MAX_SLOTS > 0
      BY SlotsAssumption
    <2>2. Cardinality(0 .. MAX_SLOTS - 1) = IF 0 > MAX_SLOTS - 1 THEN 0 ELSE MAX_SLOTS - 1 - 0 + 1
      BY <2>1, FS_Interval
    <2> QED
      BY <2>1, <2>2 DEF Slot
  <1> HIDE DEF S
  <1>3. Cardinality(S) \in 0 .. MAX_SLOTS
    BY <1>1, <1>2, SlotsAssumption
  <1> QED
    BY <1>3 DEF S

\* sort: the same stacks but for those merged, in order.
LEMMA SortIs ==
    ASSUME NEW v \in Slots, NEW w \in Sorted(v)
    PROVE  /\ w \in Slots
           /\ \A x : CountItem(w, x) = CountItem(v, x)
           /\ Ordered(w)
  <1> DEFINE c == Consolidate(v)
             used == Slot \ EmptySlots(c)
             n == Cardinality(used)
  <1>1. Settled(v, c, MAX_SLOTS)
    BY ConsolidateIs
  <1>2. n \in 0 .. MAX_SLOTS
    BY UsedSlots
  <1>3. PICK o \in Bijection(0 .. n - 1, used) :
          /\ \A a, b \in 0 .. n - 1 : a < b => c[o[a]].itemId <= c[o[b]].itemId
          /\ w = [s \in Slot |-> IF s < n THEN c[o[s]] ELSE EmptyStack]
    <2> HIDE DEF c
    <2> QED
      BY DEF Sorted, c
  <1> HIDE DEF c
  <1>4. /\ c \in Slots
        /\ \A y : CountItem(c, y) = CountItem(v, y)
        /\ \A i, j \in Slot : i < j /\ ~ IsEmpty(c[i]) /\ c[j].itemId = c[i].itemId =>
             c[i].stackCount = StackLimit[c[i].itemId]
    <2>1. \A i \in Slot : i < MAX_SLOTS
      BY SlotsAssumption DEF Slot
    <2> QED
      BY <1>1, <2>1 DEF Settled
  <1>5. /\ o \in [0 .. n - 1 -> used]
        /\ \A a, b \in 0 .. n - 1 : a # b => o[a] # o[b]
        /\ \A s \in used : \E a \in 0 .. n - 1 : o[a] = s
    <2> HIDE DEF used, n
    <2> QED
      BY <1>3 DEF Bijection, Injection, Surjection, IsInjective
  <1>6. /\ used \subseteq Slot
        /\ \A s \in used : ~ IsEmpty(c[s])
        /\ \A s \in Slot \ used : c[s] = EmptyStack
    BY <1>4, StackIs DEF EmptySlots, Slots
  <1> HIDE DEF used, n
  <1>7. /\ \A s \in Slot : s \in Int
        /\ \A s \in Slot : s < n => s \in 0 .. n - 1
        /\ n \in Nat
    BY <1>2, SlotsAssumption DEF Slot
  <1>8. w = Packed(c, o, n)
    BY <1>3 DEF Packed
  <1>9. Picked(c, o, n) = c
    <2>1. \A s \in Slot : (\E a \in 0 .. n - 1 : o[a] = s) <=> s \in used
      BY <1>5
    <2>2. \A s \in Slot : Picked(c, o, n)[s] = c[s]
      BY <1>6, <2>1 DEF Picked
    <2> QED
      BY <1>4, <2>2 DEF Picked, Slots
  <1>10. ASSUME NEW x
         PROVE  CountItem(w, x) = CountItem(v, x)
    <2>1. o \in [0 .. n - 1 -> Slot]
      BY <1>5, <1>6
    <2>2. CountItem(Packed(c, o, n), x) = CountItem(Picked(c, o, n), x)
      BY <1>2, <1>4, <1>5, <2>1, PackingConserves
    <2> QED
      BY <1>4, <1>8, <1>9, <2>2
  <1>11. /\ \A s \in Slot : s < n => o[s] \in used /\ w[s] = c[o[s]]
         /\ \A s \in Slot : ~ (s < n) => w[s] = EmptyStack
    BY <1>3, <1>5, <1>7
  <1>12. w \in Slots
    <2>1. \A s \in Slot : w[s] \in Stack
      BY <1>4, <1>6, <1>11, StackIs DEF Slots
    <2> QED
      BY <1>3, <2>1 DEF Slots
  <1>13. \A s \in Slot : s < n <=> ~ IsEmpty(w[s])
    BY <1>6, <1>11, StackIs
  <1>14. ASSUME NEW s \in Slot, NEW t \in Slot, s < t, ~ IsEmpty(w[t])
         PROVE  ~ IsEmpty(w[s]) /\ w[s].itemId <= w[t].itemId
    <2>1. t < n /\ s < n
      BY <1>7, <1>13, <1>14
    <2>2. s \in 0 .. n - 1 /\ t \in 0 .. n - 1
      BY <1>7, <2>1
    <2>3. c[o[s]].itemId <= c[o[t]].itemId
      BY <1>3, <1>14, <2>2
    <2> QED
      BY <1>11, <1>13, <2>1, <2>3
  <1>15. ASSUME NEW x \in Item, NEW s \in Slot, NEW t \in Slot,
                w[s].itemId = x, w[s].stackCount < StackLimit[x],
                w[t].itemId = x, w[t].stackCount < StackLimit[x]
         PROVE  s = t
    <2>1. x # 0 /\ StackLimit[x] \in Nat
      BY StackIs
    <2>2. s < n /\ t < n
      BY <1>13, <1>15, <2>1 DEF IsEmpty
    <2>3. /\ o[s] \in used /\ w[s] = c[o[s]]
          /\ o[t] \in used /\ w[t] = c[o[t]]
      BY <1>11, <2>2
    <2>4. ASSUME NEW a \in used, NEW b \in used, a < b, c[a].itemId = x, c[b].itemId = x
          PROVE  c[a].stackCount = StackLimit[x]
      BY <1>4, <1>6, <2>4
    <2>5. \A a \in used, b \in used : a < b /\ c[a].itemId = x /\ c[b].itemId = x =>
            c[a].stackCount = StackLimit[x]
      BY <2>4
    <2>6. ~ (o[s] < o[t]) /\ ~ (o[t] < o[s])
      <3>1. ~ (c[o[s]].stackCount = StackLimit[x]) /\ ~ (c[o[t]].stackCount = StackLimit[x])
        BY <1>15, <2>1, <2>3
      <3> QED
        BY <1>15, <2>3, <2>5, <3>1
    <2>7. o[s] \in Int /\ o[t] \in Int
      BY <1>6, <1>7, <2>3
    <2>8. o[s] = o[t]
      BY <2>6, <2>7
    <2> QED
      BY <1>5, <1>7, <2>2, <2>8
  <1>16. Ordered(w)
    BY <1>14, <1>15 DEF Ordered
  <1> QED
    BY <1>10, <1>12, <1>16
=============================================================================
