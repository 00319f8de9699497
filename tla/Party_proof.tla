----------------------------- MODULE Party_proof -----------------------------
(***************************************************************************)
(* Proofs about Party, for any players, party ids and size limit.          *)
(*                                                                         *)
(* The two maps of the manager are only changed together, in two ways: a   *)
(* party is stored and its members are made to lead to it (StoreParty), or *)
(* one player is taken out and his party passes on or ends                 *)
(* (RemoveFromParty).  There is one lemma for each, which says what it     *)
(* makes of the maps, of the lists shown and of the groups; the handlers   *)
(* follow from them.                                                       *)
(***************************************************************************)
EXTENDS Party, FiniteSetTheorems, SequenceTheorems, TLAPS

USE NobodyAssumption, PartyAssumption

-----------------------------------------------------------------------------
(* Member lists: sequences without repetitions.                            *)

\* The element at one place is removed, and those behind it move up.
LEMMA RemovedFirst ==
    ASSUME NEW S, NEW q \in Seq(S), IsInjective(q), NEW k \in 1 .. Len(q)
    PROVE  /\ RemoveFirst(q, q[k]) \in Seq(S)
           /\ Len(RemoveFirst(q, q[k])) = Len(q) - 1
           /\ \A i \in 1 .. Len(q) - 1 :
                RemoveFirst(q, q[k])[i] = IF i < k THEN q[i] ELSE q[i + 1]
  <1>0. Len(q) \in Nat /\ DOMAIN q = 1 .. Len(q) /\ q[k] \in S
    OBVIOUS
  <1>1. {i \in 1 .. Len(q) : q[i] = q[k]} = {k}
    BY <1>0 DEF IsInjective
  <1>2. Min({k}) = k
    BY DEF Min
  <1>3. SelectInSeq(q, LAMBDA v : v = q[k]) = k
    BY <1>1, <1>2 DEF SelectInSeq
  <1>4. RemoveFirst(q, q[k]) = SubSeq(q, 1, k - 1) \o SubSeq(q, k + 1, Len(q))
    BY <1>3 DEF RemoveFirst, RemoveAt
  <1> DEFINE front == SubSeq(q, 1, k - 1)
             back  == SubSeq(q, k + 1, Len(q))
  <1>5. /\ front \in Seq(S)
        /\ Len(front) = k - 1
        /\ \A i \in 1 .. k - 1 : front[i] = q[i]
    <2>1. k - 1 \in Int /\ 1 \in Int /\ \A i \in 1 .. k - 1 : q[i] \in S
      BY <1>0
    <2>2. /\ front \in Seq(S)
          /\ Len(front) = IF 1 <= k - 1 THEN (k - 1) - 1 + 1 ELSE 0
          /\ \A i \in 1 .. (k - 1) - 1 + 1 : front[i] = q[1 + i - 1]
      BY <2>1, SubSeqProperties
    <2> HIDE DEF front
    <2>3. Len(front) = k - 1 /\ (k - 1) - 1 + 1 = k - 1
      BY <2>2
    <2>4. \A i \in 1 .. k - 1 : 1 + i - 1 = i
      OBVIOUS
    <2> QED
      BY <2>2, <2>3, <2>4
  <1>6. /\ back \in Seq(S)
        /\ Len(back) = Len(q) - k
        /\ \A i \in 1 .. Len(q) - k : back[i] = q[k + i]
    <2>1. k + 1 \in Int /\ Len(q) \in Int /\ \A i \in k + 1 .. Len(q) : q[i] \in S
      BY <1>0
    <2>2. /\ back \in Seq(S)
          /\ Len(back) = IF k + 1 <= Len(q) THEN Len(q) - (k + 1) + 1 ELSE 0
          /\ \A i \in 1 .. Len(q) - (k + 1) + 1 : back[i] = q[(k + 1) + i - 1]
      BY <2>1, SubSeqProperties
    <2> HIDE DEF back
    <2>3. Len(back) = Len(q) - k /\ Len(q) - (k + 1) + 1 = Len(q) - k
      <3>1. Len(back) = IF k + 1 <= Len(q) THEN Len(q) - (k + 1) + 1 ELSE 0
        BY <2>2
      <3>2. k \in Int /\ Len(q) \in Int /\ k <= Len(q)
        BY <1>0
      <3> QED
        BY <3>1, <3>2
    <2>4. \A i \in 1 .. Len(q) - k : (k + 1) + i - 1 = k + i
      BY <1>0
    <2> QED
      BY <2>2, <2>3, <2>4
  <1> HIDE DEF front, back
  <1>7. /\ front \o back \in Seq(S)
        /\ Len(front \o back) = (k - 1) + (Len(q) - k)
        /\ \A i \in 1 .. Len(front) + Len(back) :
             (front \o back)[i] = IF i <= Len(front) THEN front[i] ELSE back[i - Len(front)]
    <2>1. front \in Seq(S) /\ back \in Seq(S)
      BY <1>5, <1>6
    <2>2. /\ front \o back \in Seq(S)
          /\ Len(front \o back) = Len(front) + Len(back)
          /\ \A i \in 1 .. Len(front) + Len(back) :
               (front \o back)[i] = IF i <= Len(front) THEN front[i] ELSE back[i - Len(front)]
      BY <2>1, ConcatProperties, Zenon
    <2>3. Len(front) + Len(back) = (k - 1) + (Len(q) - k)
      BY <1>5, <1>6
    <2> QED
      BY <2>2, <2>3, Zenon
  <1>8. RemoveFirst(q, q[k]) = front \o back
    BY <1>4 DEF front, back
  <1>9. ASSUME NEW i \in 1 .. Len(q) - 1
        PROVE  (front \o back)[i] = IF i < k THEN q[i] ELSE q[i + 1]
    <2>1. i \in 1 .. Len(front) + Len(back)
      BY <1>0, <1>5, <1>6
    <2>2. CASE i < k
      BY <1>0, <1>5, <1>7, <2>1, <2>2
    <2>3. CASE ~ (i < k)
      <3> DEFINE j == i - (k - 1)
      <3>1. j \in 1 .. Len(q) - k /\ k + j = i + 1
        BY <1>0, <2>3
      <3>2. ~ (i <= Len(front)) /\ i - Len(front) = j
        BY <1>0, <1>5, <2>3
      <3> HIDE DEF j
      <3>3. (front \o back)[i] = back[j]
        BY <1>7, <2>1, <3>2
      <3>4. back[j] = q[k + j]
        BY <1>6, <3>1
      <3> QED
        BY <2>3, <3>1, <3>3, <3>4
    <2> QED
      BY <2>2, <2>3
  <1>10. Len(front \o back) = Len(q) - 1
    BY <1>0, <1>7
  <1> HIDE DEF RemoveFirst
  <1> QED
    BY <1>7, <1>8, <1>9, <1>10, Zenon

\* What is left has the same elements but that one, none of them twice.
LEMMA RestOfList ==
    ASSUME NEW S, NEW q \in Seq(S), IsInjective(q), NEW p \in ToSet(q)
    PROVE  /\ RemoveFirst(q, p) \in Seq(S)
           /\ Len(RemoveFirst(q, p)) = Len(q) - 1
           /\ ToSet(RemoveFirst(q, p)) = ToSet(q) \ {p}
           /\ IsInjective(RemoveFirst(q, p))
           /\ \E k \in 1 .. Len(q) :
                /\ q[k] = p
                /\ \A i \in 1 .. Len(q) - 1 :
                     RemoveFirst(q, p)[i] = IF i < k THEN q[i] ELSE q[i + 1]
  <1>0. Len(q) \in Nat /\ DOMAIN q = 1 .. Len(q)
    OBVIOUS
  <1>1. PICK k \in 1 .. Len(q) : q[k] = p
    BY <1>0 DEF ToSet
  <1> DEFINE left == RemoveFirst(q, p)
  <1>2. /\ left \in Seq(S)
        /\ Len(left) = Len(q) - 1
        /\ \A i \in 1 .. Len(q) - 1 : left[i] = IF i < k THEN q[i] ELSE q[i + 1]
    BY <1>1, RemovedFirst
  <1> HIDE DEF left
  <1>3. DOMAIN left = 1 .. Len(q) - 1
    BY <1>2
  <1>4. IsInjective(left)
    <2> SUFFICES ASSUME NEW i \in 1 .. Len(q) - 1, NEW j \in 1 .. Len(q) - 1,
                        left[i] = left[j]
                 PROVE  i = j
      BY <1>3 DEF IsInjective
    <2> DEFINE place(n) == IF n < k THEN n ELSE n + 1
    <2>1. /\ place(i) \in 1 .. Len(q) /\ place(j) \in 1 .. Len(q)
          /\ left[i] = q[place(i)] /\ left[j] = q[place(j)]
      BY <1>0, <1>2
    <2>2. place(i) = place(j)
      BY <1>0, <2>1 DEF IsInjective
    <2> QED
      BY <2>2
  <1>5. ASSUME NEW x \in ToSet(left)  PROVE x \in ToSet(q) \ {p}
    <2>1. PICK i \in 1 .. Len(q) - 1 : x = left[i]
      BY <1>3, <1>5 DEF ToSet
    <2> DEFINE n == IF i < k THEN i ELSE i + 1
    <2>2. n \in 1 .. Len(q) /\ n # k /\ x = q[n]
      BY <1>0, <1>2, <2>1
    <2> QED
      BY <1>0, <1>1, <2>2 DEF ToSet, IsInjective
  <1>6. ASSUME NEW x \in ToSet(q), x # p  PROVE x \in ToSet(left)
    <2>1. PICK n \in 1 .. Len(q) : x = q[n]
      BY <1>0 DEF ToSet
    <2> DEFINE i == IF n < k THEN n ELSE n - 1
    <2>2. i \in 1 .. Len(q) - 1 /\ left[i] = x
      BY <1>0, <1>1, <1>2, <1>6, <2>1
    <2> QED
      BY <1>3, <2>2 DEF ToSet
  <1>7. ToSet(left) = ToSet(q) \ {p}
    BY <1>5, <1>6
  <1> QED
    BY <1>1, <1>2, <1>4, <1>7 DEF left

\* Appending adds what is appended.
LEMMA Appended ==
    ASSUME NEW S, NEW q \in Seq(S), NEW x \in S, IsInjective(q), x \notin ToSet(q)
    PROVE  /\ Append(q, x) \in Seq(S)
           /\ Len(Append(q, x)) = Len(q) + 1
           /\ ToSet(Append(q, x)) = ToSet(q) \cup {x}
           /\ IsInjective(Append(q, x))
           /\ \A i \in 1 .. Len(q) : Append(q, x)[i] = q[i]
  <1>1. /\ Append(q, x) \in Seq(S)
        /\ Len(q) \in Nat
        /\ Len(Append(q, x)) = Len(q) + 1
        /\ DOMAIN q = 1 .. Len(q)
        /\ DOMAIN Append(q, x) = 1 .. Len(q) + 1
        /\ \A i \in 1 .. Len(q) : Append(q, x)[i] = q[i]
        /\ Append(q, x)[Len(q) + 1] = x
    OBVIOUS
  <1> DEFINE after == Append(q, x)
  <1> HIDE DEF after
  <1>2. ToSet(after) = ToSet(q) \cup {x}
    <2>1. ASSUME NEW y \in ToSet(after)  PROVE y \in ToSet(q) \cup {x}
      <3>1. PICK i \in 1 .. Len(q) + 1 : y = after[i]
        BY <1>1 DEF ToSet, after
      <3>2. i \in 1 .. Len(q) \/ i = Len(q) + 1
        BY <1>1
      <3> QED
        BY <1>1, <3>1, <3>2 DEF ToSet, after
    <2>2. ASSUME NEW y \in ToSet(q)  PROVE y \in ToSet(after)
      <3>1. PICK i \in 1 .. Len(q) : y = q[i]
        BY <1>1 DEF ToSet
      <3>2. i \in 1 .. Len(q) + 1 /\ after[i] = y
        BY <1>1, <3>1 DEF after
      <3> QED
        BY <1>1, <3>2 DEF ToSet, after
    <2>3. Len(q) + 1 \in DOMAIN after /\ after[Len(q) + 1] = x
      BY <1>1 DEF after
    <2> QED
      BY <2>1, <2>2, <2>3 DEF ToSet
  <1>3. IsInjective(after)
    <2> SUFFICES ASSUME NEW i \in 1 .. Len(q) + 1, NEW j \in 1 .. Len(q) + 1,
                        after[i] = after[j]
                 PROVE  i = j
      BY <1>1 DEF IsInjective, after
    <2>1. \A k \in 1 .. Len(q) : after[k] # x
      BY <1>1 DEF ToSet, after
    <2>2. after[Len(q) + 1] = x
      BY <1>1 DEF after
    <2>3. CASE i \in 1 .. Len(q) /\ j \in 1 .. Len(q)
      BY <1>1, <2>3 DEF IsInjective, after
    <2>4. CASE i = Len(q) + 1 \/ j = Len(q) + 1
      BY <1>1, <2>1, <2>2, <2>4
    <2> QED
      BY <1>1, <2>3, <2>4
  <1> QED
    BY <1>1, <1>2, <1>3 DEF after

\* A list without repetitions is as long as its set is large.
LEMMA ListSize ==
    ASSUME NEW S, NEW q \in Seq(S), IsInjective(q)
    PROVE  Cardinality(ToSet(q)) = Len(q)
  <1>1. Len(q) \in Nat /\ DOMAIN q = 1 .. Len(q)
    OBVIOUS
  <1>2. q \in [1 .. Len(q) -> ToSet(q)]
    <2>1. \A i \in 1 .. Len(q) : q[i] \in ToSet(q)
      BY <1>1 DEF ToSet
    <2>2. q = [i \in 1 .. Len(q) |-> q[i]]
      BY <1>1
    <2> QED
      BY <2>1, <2>2
  <1>3. \A t \in ToSet(q) : \E i \in 1 .. Len(q) : q[i] = t
    BY <1>1 DEF ToSet
  <1>4. q \in Bijection(1 .. Len(q), ToSet(q))
    BY <1>2, <1>3 DEF Bijection, Injection, Surjection
  <1>5. ExistsBijection(1 .. Len(q), ToSet(q))
    BY <1>4 DEF ExistsBijection
  <1> QED
    BY <1>1, <1>5, FS_CountingElements

-----------------------------------------------------------------------------
(* The invariant.                                                          *)

\* Who is not in the world is in no party and has no list: with it the lists
\* stay current when he comes back.
AbsentAreFree ==
    \A p \in Player \ online : partyOf[p] = NoParty /\ shown[p] = NoParty

IInv == PartiesAreSound /\ AbsentAreFree

\* What the party maps must satisfy, without lists and offers.
GoodParty(id, party, of) ==
    /\ party \in PartyData
    /\ ToSet(party.members) = {p \in Player : of[p] = id}
    /\ IsInjective(party.members)
    /\ Len(party.members) \in 2 .. MAX_PARTY_SIZE
    /\ party.leader \in ToSet(party.members)

PartyMapsOK ==
    /\ parties \in [PartyId -> PartyData \cup {NoParty}]
    /\ partyOf \in [Player -> PartyId \cup {NoParty}]
    /\ \A p \in Player : partyOf[p] # NoParty => parties[partyOf[p]] # NoParty
    /\ \A id \in PartyId : parties[id] # NoParty => GoodParty(id, parties[id], partyOf)

ListsOK == shown \in [Player -> PartyData \cup {NoParty}] /\ ListsAreCurrent

OffersOK ==
    /\ online \subseteq Player
    /\ invite \in [Player -> Player \cup {Nobody}]
    /\ OffersAreBetweenOnline

\* The invariant in the parts that the handlers change.
LEMMA InvariantParts ==
    /\ IInv => PartyMapsOK /\ ListsOK /\ OffersOK /\ AbsentAreFree
    /\ PartyMapsOK /\ ListsOK /\ OffersOK /\ AbsentAreFree => IInv
  <1>1. IInv => PartyMapsOK /\ ListsOK /\ OffersOK /\ AbsentAreFree
    BY DEF IInv, PartiesAreSound, MapsAgree, TypeOK, PartyMapsOK, GoodParty, ListsOK, OffersOK
  <1>2. PartyMapsOK /\ ListsOK /\ OffersOK /\ AbsentAreFree => IInv
    BY DEF IInv, PartiesAreSound, MapsAgree, TypeOK, PartyMapsOK, GoodParty, ListsOK, OffersOK
  <1> QED
    BY <1>1, <1>2

\* The party of a player who has one: he is in the world and a member of it.
LEMMA OwnParty ==
    ASSUME IInv, NEW p \in Player, GetParty(p) # NoParty
    PROVE  /\ partyOf[p] \in PartyId
           /\ GetParty(p) = parties[partyOf[p]]
           /\ GoodParty(partyOf[p], parties[partyOf[p]], partyOf)
           /\ p \in ToSet(parties[partyOf[p]].members)
           /\ p \in online
  <1>1. partyOf[p] \in PartyId /\ GetParty(p) = parties[partyOf[p]]
    BY InvariantParts DEF GetParty, PartyMapsOK
  <1>2. GoodParty(partyOf[p], parties[partyOf[p]], partyOf)
    BY <1>1, InvariantParts DEF PartyMapsOK
  <1>3. p \in ToSet(parties[partyOf[p]].members)
    BY <1>2 DEF GoodParty
  <1>4. p \in online
    BY <1>1 DEF IInv, AbsentAreFree
  <1> QED
    BY <1>1, <1>2, <1>3, <1>4

\* Who has an entry in the map has a party.
LEMMA NoPartyIsFree ==
    ASSUME IInv, NEW p \in Player
    PROVE  GetParty(p) = NoParty <=> partyOf[p] = NoParty
  BY InvariantParts DEF GetParty, PartyMapsOK

\* The members of a party are the players it lists, all of them in the world.
LEMMA Members ==
    ASSUME IInv, NEW id \in PartyId, parties[id] # NoParty
    PROVE  /\ parties[id] \in PartyData
           /\ parties[id].members \in Seq(Player)
           /\ \A q \in Player : q \in ToSet(parties[id].members) <=> partyOf[q] = id
           /\ ToSet(parties[id].members) \subseteq online
           /\ IsInjective(parties[id].members)
           /\ Len(parties[id].members) \in 2 .. MAX_PARTY_SIZE
           /\ parties[id].leader \in ToSet(parties[id].members)
  <1>1. GoodParty(id, parties[id], partyOf)
    BY InvariantParts DEF PartyMapsOK
  <1>2. \A q \in Player : partyOf[q] = id => q \in online
    BY DEF IInv, AbsentAreFree
  <1> QED
    BY <1>1, <1>2 DEF GoodParty, PartyData

-----------------------------------------------------------------------------
(* The two ways the maps change.                                           *)

\* What storing a party of players who are free, or in it already, makes of
\* the maps and the lists.
LEMMA StoreKeeps ==
    ASSUME IInv, NEW id \in PartyId, NEW party \in PartyData, StoreParty(id, party),
           ToSet(party.members) \subseteq online,
           \A q \in ToSet(party.members) : partyOf[q] \in {id, NoParty},
           parties[id] # NoParty =>
               ToSet(parties[id].members) \subseteq ToSet(party.members),
           IsInjective(party.members),
           Len(party.members) \in 2 .. MAX_PARTY_SIZE,
           party.leader \in ToSet(party.members),
           online' = online
    PROVE  PartyMapsOK' /\ ListsOK' /\ AbsentAreFree'
  <1> DEFINE in == ToSet(party.members)
  <1>1. /\ parties \in [PartyId -> PartyData \cup {NoParty}]
        /\ partyOf \in [Player -> PartyId \cup {NoParty}]
        /\ \A q \in Player : partyOf[q] # NoParty => parties[partyOf[q]] # NoParty
        /\ shown \in [Player -> PartyData \cup {NoParty}]
        /\ online \subseteq Player
    BY InvariantParts DEF PartyMapsOK, ListsOK, OffersOK
  <1>2. in \subseteq Player /\ in \cap online = in
    BY <1>1
  <1>3. parties' = [parties EXCEPT ![id] = party]
    BY DEF StoreParty
  <1>4. /\ parties' \in [PartyId -> PartyData \cup {NoParty}]
        /\ parties'[id] = party
        /\ \A j \in PartyId \ {id} : parties'[j] = parties[j]
    BY <1>1, <1>3
  <1>5. partyOf' = [q \in Player |-> IF q \in in THEN id ELSE partyOf[q]]
    BY DEF StoreParty
  <1>6. shown' = [q \in Player |-> IF q \in in \cap online THEN party ELSE shown[q]]
    BY DEF StoreParty, SendList
  <1> HIDE DEF in
  <1>7. ASSUME NEW q \in Player
        PROVE  partyOf'[q] = id <=> q \in in
    <2>1. CASE q \in in
      BY <1>5, <2>1
    <2>2. CASE q \notin in
      <3>1. partyOf'[q] = partyOf[q]
        BY <1>5, <2>2
      <3>2. partyOf[q] # id
        BY <1>1, <2>2, Members DEF in
      <3> QED
        BY <2>2, <3>1, <3>2
    <2> QED
      BY <2>1, <2>2
  <1>8. ASSUME NEW q \in Player, NEW j \in PartyId \ {id}
        PROVE  partyOf'[q] = j <=> partyOf[q] = j
    BY <1>5 DEF in
  <1>9. ASSUME NEW j \in PartyId, parties'[j] # NoParty
        PROVE  GoodParty(j, parties'[j], partyOf')
    <2>1. CASE j = id
      BY <1>2, <1>4, <1>7, <2>1 DEF GoodParty, in
    <2>2. CASE j # id
      <3>1. GoodParty(j, parties[j], partyOf) /\ parties'[j] = parties[j]
        BY <1>4, <1>9, <2>2, InvariantParts DEF PartyMapsOK
      <3>2. {q \in Player : partyOf'[q] = j} = {q \in Player : partyOf[q] = j}
        BY <1>8, <2>2
      <3> QED
        BY <3>1, <3>2 DEF GoodParty
    <2> QED
      BY <2>1, <2>2
  <1>10. partyOf' \in [Player -> PartyId \cup {NoParty}]
    BY <1>1, <1>5
  <1>11. \A q \in Player : partyOf'[q] # NoParty => parties'[partyOf'[q]] # NoParty
    BY <1>1, <1>4, <1>5
  <1>12. PartyMapsOK'
    BY <1>4, <1>9, <1>10, <1>11 DEF PartyMapsOK
  <1>13. shown' \in [Player -> PartyData \cup {NoParty}]
    BY <1>1, <1>6
  <1>14. ASSUME NEW q \in online  PROVE shown'[q] = GetParty(q)'
    <2>1. shown[q] = GetParty(q)
      BY DEF IInv, PartiesAreSound, ListsAreCurrent
    <2>2. CASE q \in in
      BY <1>1, <1>4, <1>5, <1>6, <2>2 DEF GetParty
    <2>3. CASE q \notin in
      <3>1. partyOf'[q] = partyOf[q] /\ shown'[q] = shown[q]
        BY <1>1, <1>5, <1>6, <2>3
      <3>2. partyOf[q] # id
        BY <1>1, <1>7, <2>3, <3>1
      <3>3. GetParty(q)' = GetParty(q)
        BY <1>1, <1>4, <3>1, <3>2 DEF GetParty
      <3> QED
        BY <2>1, <3>1, <3>3
    <2> QED
      BY <2>2, <2>3
  <1>15. ListsOK'
    BY <1>13, <1>14 DEF ListsOK, ListsAreCurrent
  <1>16. AbsentAreFree'
    BY <1>2, <1>5, <1>6 DEF IInv, AbsentAreFree
  <1> QED
    BY <1>12, <1>15, <1>16

\* A player leaves his party, which passes on or ends.
Passed(p) ==
    LET id == partyOf[p]
        m  == parties[id].members
    IN  /\ Len(m) > 2
        /\ parties'[id] # NoParty
        /\ parties'[id].members = RemoveFirst(m, p)
        /\ parties'[id].leader = LeaderWithout(parties[id], p, RemoveFirst(m, p))

Ended(p) == Len(parties[partyOf[p]].members) = 2 /\ parties'[partyOf[p]] = NoParty

\* What taking a player out makes of the maps and the lists, whether he stays
\* in the world or not.
LEMMA RemoveKeeps ==
    ASSUME IInv, NEW p \in Player, GetParty(p) # NoParty, RemoveFromParty(p, {p}),
           online' \in {online, online \ {p}}
    PROVE  /\ PartyMapsOK' /\ ListsOK' /\ AbsentAreFree'
           /\ Passed(p) \/ Ended(p)
           /\ \A j \in PartyId \ {partyOf[p]} : parties'[j] = parties[j]
  <1> DEFINE id   == partyOf[p]
             m    == parties[id].members
             left == RemoveFirst(m, p)
             rest == [leader |-> LeaderWithout(parties[id], p, left), members |-> left]
             gone == {p} \cup ToSet(left)
  <1>0. /\ parties \in [PartyId -> PartyData \cup {NoParty}]
        /\ partyOf \in [Player -> PartyId \cup {NoParty}]
        /\ \A q \in Player : partyOf[q] # NoParty => parties[partyOf[q]] # NoParty
        /\ shown \in [Player -> PartyData \cup {NoParty}]
        /\ online \subseteq Player
    BY InvariantParts DEF PartyMapsOK, ListsOK, OffersOK
  <1>1. /\ id \in PartyId
        /\ parties[id] \in PartyData /\ parties[id] # NoParty
        /\ p \in ToSet(m)
        /\ p \in online
    BY OwnParty DEF GoodParty
  <1>2. /\ m \in Seq(Player)
        /\ \A q \in Player : q \in ToSet(m) <=> partyOf[q] = id
        /\ ToSet(m) \subseteq online
        /\ IsInjective(m)
        /\ Len(m) \in 2 .. MAX_PARTY_SIZE
        /\ parties[id].leader \in ToSet(m)
    BY <1>1, Members
  <1>3. /\ left \in Seq(Player)
        /\ Len(left) = Len(m) - 1
        /\ ToSet(left) = ToSet(m) \ {p}
        /\ IsInjective(left)
    BY <1>1, <1>2, RestOfList
  <1>4. gone = ToSet(m)
    BY <1>1, <1>3
  <1>5. \/ /\ Len(left) <= 1
           /\ parties' = [parties EXCEPT ![id] = NoParty]
           /\ partyOf' = [q \in Player |-> IF q \in gone THEN NoParty ELSE partyOf[q]]
           /\ shown' = SendList(shown, ToSet(left) \cup {p}, NoParty)
        \/ /\ ~ (Len(left) <= 1)
           /\ parties' = [parties EXCEPT ![id] = rest]
           /\ partyOf' = [partyOf EXCEPT ![p] = NoParty]
           /\ shown' = SendList(SendList(shown, ToSet(left), rest), {p}, NoParty)
    BY DEF RemoveFromParty
  <1>6. \A q \in Player \ ToSet(m) : partyOf[q] # id
    BY <1>2
  <1>7. \A q \in online : shown[q] = GetParty(q)
    BY DEF IInv, PartiesAreSound, ListsAreCurrent
  <1>8. \A q \in Player \ online : partyOf[q] = NoParty /\ shown[q] = NoParty
    BY DEF IInv, AbsentAreFree
  <1>9. \A j \in PartyId : parties[j] # NoParty => GoodParty(j, parties[j], partyOf)
    BY InvariantParts DEF PartyMapsOK
  <1>10. online' \subseteq online /\ online \subseteq online' \cup {p}
    OBVIOUS
  <1>11. CASE /\ Len(left) <= 1
              /\ parties' = [parties EXCEPT ![id] = NoParty]
              /\ partyOf' = [q \in Player |-> IF q \in gone THEN NoParty ELSE partyOf[q]]
              /\ shown' = SendList(shown, ToSet(left) \cup {p}, NoParty)
    <2>1. Len(m) = 2
      <3>1. Len(left) <= 1 /\ Len(left) = Len(m) - 1 /\ Len(m) \in 2 .. MAX_PARTY_SIZE
        BY <1>2, <1>3, <1>11
      <3> HIDE DEF left, m
      <3> QED
        BY <3>1
    <2> DEFINE in == ToSet(m)
    <2>2. /\ partyOf' = [q \in Player |-> IF q \in in THEN NoParty ELSE partyOf[q]]
          /\ shown' = [q \in Player |-> IF q \in in \cap online THEN NoParty ELSE shown[q]]
          /\ parties' = [parties EXCEPT ![id] = NoParty]
      BY <1>4, <1>11 DEF SendList
    <2> HIDE DEF left, rest, gone
    <2>3. /\ parties'[id] = NoParty
          /\ \A j \in PartyId \ {id} : parties'[j] = parties[j]
          /\ parties' \in [PartyId -> PartyData \cup {NoParty}]
      BY <1>0, <1>1, <2>2
    <2>4. /\ partyOf' \in [Player -> PartyId \cup {NoParty}]
          /\ shown' \in [Player -> PartyData \cup {NoParty}]
      BY <1>0, <2>2
    <2> HIDE DEF m, id
    <2>5. ASSUME NEW j \in PartyId, parties'[j] # NoParty
          PROVE  GoodParty(j, parties'[j], partyOf')
      <3>1. j # id /\ parties'[j] = parties[j] /\ GoodParty(j, parties[j], partyOf)
        BY <1>9, <2>3, <2>5
      <3>2. {q \in Player : partyOf'[q] = j} = {q \in Player : partyOf[q] = j}
        BY <1>2, <2>2, <3>1
      <3> QED
        BY <3>1, <3>2 DEF GoodParty
    <2>6. \A q \in Player : partyOf'[q] # NoParty => parties'[partyOf'[q]] # NoParty
      BY <1>0, <1>6, <2>2, <2>3
    <2>7. PartyMapsOK'
      BY <2>3, <2>4, <2>5, <2>6 DEF PartyMapsOK
    <2>8. ASSUME NEW q \in online  PROVE shown'[q] = GetParty(q)'
      <3>1. CASE q \in in
        BY <1>0, <2>2, <3>1 DEF GetParty
      <3>2. CASE q \notin in
        BY <1>0, <1>6, <1>7, <2>2, <2>3, <3>2 DEF GetParty
      <3> QED
        BY <3>1, <3>2
    <2>9. ListsOK'
      BY <1>10, <2>4, <2>8 DEF ListsOK, ListsAreCurrent
    <2>10. AbsentAreFree'
      BY <1>1, <1>2, <1>8, <1>10, <2>2 DEF AbsentAreFree
    <2> QED
      BY <2>1, <2>3, <2>7, <2>9, <2>10 DEF Ended, m, id
  <1>12. CASE /\ ~ (Len(left) <= 1)
              /\ parties' = [parties EXCEPT ![id] = rest]
              /\ partyOf' = [partyOf EXCEPT ![p] = NoParty]
              /\ shown' = SendList(SendList(shown, ToSet(left), rest), {p}, NoParty)
    <2>1. Len(left) \in 2 .. MAX_PARTY_SIZE /\ Len(m) > 2
      BY <1>2, <1>3, <1>12
    <2>2. Head(left) \in ToSet(left)
      BY <1>3, <2>1 DEF ToSet
    <2>3. rest.leader \in ToSet(left)
      BY <1>2, <1>3, <2>2 DEF LeaderWithout
    <2>4. ToSet(left) \subseteq Player
      BY <1>0, <1>2, <1>3
    <2>5. rest \in PartyData /\ rest.members = left
      BY <1>3, <2>3, <2>4 DEF PartyData
    <2>p. rest.leader = LeaderWithout(parties[id], p, left)
      OBVIOUS
    <2> HIDE DEF rest, left, gone
    <2>6. /\ parties'[id] = rest
          /\ \A j \in PartyId \ {id} : parties'[j] = parties[j]
          /\ parties' \in [PartyId -> PartyData \cup {NoParty}]
      BY <1>0, <1>1, <1>12, <2>5
    <2>7. /\ partyOf' \in [Player -> PartyId \cup {NoParty}]
          /\ partyOf'[p] = NoParty
          /\ \A q \in Player \ {p} : partyOf'[q] = partyOf[q]
      BY <1>0, <1>12
    <2>8. shown' = [q \in Player |-> IF q = p /\ q \in online THEN NoParty
                                     ELSE IF q \in ToSet(left) /\ q \in online THEN rest
                                     ELSE shown[q]]
      <3> DEFINE sent == [q \in Player |-> IF q \in ToSet(left) /\ q \in online THEN rest
                                            ELSE shown[q]]
      <3>1. SendList(shown, ToSet(left), rest) = sent
        BY DEF SendList
      <3>2. shown' = [q \in Player |-> IF q \in {p} \cap online THEN NoParty ELSE sent[q]]
        BY <1>12, <3>1 DEF SendList
      <3> QED
        BY <3>2
    <2>9. shown' \in [Player -> PartyData \cup {NoParty}]
      BY <1>0, <2>5, <2>8
    <2>10. rest # NoParty
      BY <2>5
    <2> HIDE DEF m, id
    <2>11. ASSUME NEW j \in PartyId, parties'[j] # NoParty
           PROVE  GoodParty(j, parties'[j], partyOf')
      <3>1. CASE j = id
        <4>1. ToSet(left) = {q \in Player : partyOf'[q] = id}
          BY <1>1, <1>2, <1>3, <2>4, <2>7
        <4> QED
          BY <1>3, <2>1, <2>3, <2>5, <2>6, <3>1, <4>1 DEF GoodParty
      <3>2. CASE j # id
        <4>1. parties'[j] = parties[j] /\ GoodParty(j, parties[j], partyOf)
          BY <1>9, <2>6, <2>11, <3>2
        <4>2. {q \in Player : partyOf'[q] = j} = {q \in Player : partyOf[q] = j}
          BY <1>1, <2>7, <3>2 DEF id
        <4> QED
          BY <4>1, <4>2 DEF GoodParty
      <3> QED
        BY <3>1, <3>2
    <2>12. \A q \in Player : partyOf'[q] # NoParty => parties'[partyOf'[q]] # NoParty
      BY <1>0, <2>6, <2>7, <2>10
    <2>13. PartyMapsOK'
      BY <2>6, <2>7, <2>11, <2>12 DEF PartyMapsOK
    <2>14. ASSUME NEW q \in online  PROVE shown'[q] = GetParty(q)'
      <3>1. CASE q = p
        BY <1>0, <2>7, <2>8, <3>1 DEF GetParty
      <3>2. CASE q # p /\ q \in ToSet(left)
        <4>1. partyOf'[q] = id
          BY <1>0, <1>2, <1>3, <2>7, <3>2
        <4> QED
          BY <1>0, <1>1, <2>6, <2>8, <3>2, <4>1 DEF GetParty
      <3>3. CASE q # p /\ q \notin ToSet(left)
        <4>1. partyOf'[q] = partyOf[q] /\ partyOf[q] # id /\ shown'[q] = shown[q]
          BY <1>0, <1>2, <1>3, <2>7, <2>8, <3>3
        <4>2. GetParty(q)' = GetParty(q)
          BY <1>0, <2>6, <4>1 DEF GetParty
        <4> QED
          BY <1>7, <4>1, <4>2
      <3> QED
        BY <3>1, <3>2, <3>3
    <2>15. ListsOK'
      BY <1>10, <2>9, <2>14 DEF ListsOK, ListsAreCurrent
    <2>16. AbsentAreFree'
      BY <1>1, <1>2, <1>3, <1>8, <1>10, <2>7, <2>8 DEF AbsentAreFree
    <2>17. Passed(p)
      BY <2>1, <2>5, <2>6, <2>10, <2>p DEF Passed, m, id, left
    <2> QED
      BY <2>6, <2>13, <2>15, <2>16, <2>17 DEF id
  <1> QED
    BY <1>5, <1>11, <1>12

-----------------------------------------------------------------------------
(* The handlers.                                                           *)

\* An answer uses up one offer and makes none.
LEMMA TakeKeepsOffers ==
    ASSUME OffersOK, NEW t \in Player, TakeInvite(t)
    PROVE  OffersOK' /\ online' = online
  <1>1. /\ online' = online
        /\ invite' = [invite EXCEPT ![t] = Nobody]
    BY DEF TakeInvite
  <1>2. /\ invite' \in [Player -> Player \cup {Nobody}]
        /\ \A q \in Player : invite'[q] \in {invite[q], Nobody}
    BY <1>1 DEF OffersOK
  <1> QED
    BY <1>1, <1>2 DEF OffersOK, OffersAreBetweenOnline

\* Nothing but offers and visits changes.
LEMMA SameMaps ==
    ASSUME IInv, UNCHANGED <<parties, partyOf, shown>>, online \subseteq online',
           online' \subseteq Player
    PROVE  PartyMapsOK' /\ ListsOK' /\ AbsentAreFree'
  <1>1. PartyMapsOK /\ ListsOK /\ AbsentAreFree
    BY InvariantParts
  <1>2. PartyMapsOK'
    BY <1>1 DEF PartyMapsOK, GoodParty
  <1>3. \A q \in Player \ online : shown[q] = GetParty(q)
    BY <1>1 DEF AbsentAreFree, GetParty
  <1>4. ListsOK'
    BY <1>1, <1>3 DEF ListsOK, ListsAreCurrent, GetParty
  <1>5. AbsentAreFree'
    BY <1>1 DEF AbsentAreFree
  <1> QED
    BY <1>2, <1>4, <1>5

LEMMA EnterWorldKeeps ==
    ASSUME IInv, NEW p \in Player, EnterWorld(p)
    PROVE  IInv'
  <1>1. PartyMapsOK' /\ ListsOK' /\ AbsentAreFree'
    BY SameMaps, InvariantParts DEF EnterWorld, OffersOK
  <1>2. OffersOK'
    BY InvariantParts DEF EnterWorld, OffersOK, OffersAreBetweenOnline
  <1> QED
    BY <1>1, <1>2, InvariantParts, PTL

LEMMA InvitePlayerKeeps ==
    ASSUME IInv, NEW p \in Player, NEW q \in Player, InvitePlayer(p, q)
    PROVE  IInv'
  <1>1. PartyMapsOK' /\ ListsOK' /\ AbsentAreFree'
    BY SameMaps, InvariantParts DEF InvitePlayer, OffersOK
  <1>2. OffersOK'
    BY InvariantParts DEF InvitePlayer, OffersOK, OffersAreBetweenOnline
  <1> QED
    BY <1>1, <1>2, InvariantParts, PTL

LEMMA UnusedAnswerKeeps ==
    ASSUME IInv, NEW t \in Player, DeclineInvite(t) \/ AcceptTooLate(t)
    PROVE  IInv'
  <1>1. OffersOK' /\ online' = online
    BY TakeKeepsOffers, InvariantParts DEF DeclineInvite, AcceptTooLate
  <1>2. PartyMapsOK' /\ ListsOK' /\ AbsentAreFree'
    BY <1>1, SameMaps, InvariantParts DEF DeclineInvite, AcceptTooLate, OffersOK
  <1> QED
    BY <1>1, <1>2, InvariantParts, PTL

\* The party an accepted offer leads to, with its new member.
LEMMA JoinedParty ==
    ASSUME IInv, NEW t \in Player, AddToParty(t)
    PROVE  LET i  == invite[t]
               id == partyOf[i]
               m  == parties[id].members
           IN  /\ id \in PartyId /\ parties[id] # NoParty
               /\ StoreParty(id, [parties[id] EXCEPT !.members = Append(m, t)])
               /\ [parties[id] EXCEPT !.members = Append(m, t)] \in PartyData
               /\ Append(m, t) \in Seq(Player)
               /\ Len(Append(m, t)) = Len(m) + 1
               /\ ToSet(Append(m, t)) = ToSet(m) \cup {t}
               /\ IsInjective(Append(m, t))
               /\ \A n \in 1 .. Len(m) : Append(m, t)[n] = m[n]
               /\ Len(m) < MAX_PARTY_SIZE
               /\ t \in online /\ partyOf[t] = NoParty
  <1> DEFINE i  == invite[t]
             id == partyOf[i]
             m  == parties[id].members
  <1>1. i \in Player /\ GetParty(i) # NoParty /\ t \in online /\ partyOf[t] = NoParty
    BY InvariantParts DEF AddToParty, TakeInvite, MayJoin, OffersOK
  <1>2. /\ id \in PartyId /\ GetParty(i) = parties[id]
        /\ parties[id] # NoParty
    BY <1>1, OwnParty
  <1>3. /\ parties[id] \in PartyData
        /\ m \in Seq(Player)
        /\ IsInjective(m)
        /\ t \notin ToSet(m)
        /\ Len(m) \in Nat
    BY <1>1, <1>2, Members
  <1>4. Len(m) < MAX_PARTY_SIZE
    BY <1>1, <1>2, <1>3 DEF AddToParty, MayJoin, IsFull
  <1>5. StoreParty(id, [parties[id] EXCEPT !.members = Append(m, t)])
    BY <1>2 DEF AddToParty
  <1>6. /\ Append(m, t) \in Seq(Player)
        /\ Len(Append(m, t)) = Len(m) + 1
        /\ ToSet(Append(m, t)) = ToSet(m) \cup {t}
        /\ IsInjective(Append(m, t))
        /\ \A n \in 1 .. Len(m) : Append(m, t)[n] = m[n]
    BY <1>3, Appended
  <1>7. [parties[id] EXCEPT !.members = Append(m, t)] \in PartyData
    BY <1>3, <1>6 DEF PartyData
  <1> HIDE DEF i, id, m
  <1>8. /\ id \in PartyId /\ parties[id] # NoParty
        /\ StoreParty(id, [parties[id] EXCEPT !.members = Append(m, t)])
        /\ [parties[id] EXCEPT !.members = Append(m, t)] \in PartyData
        /\ Append(m, t) \in Seq(Player)
        /\ Len(Append(m, t)) = Len(m) + 1
        /\ ToSet(Append(m, t)) = ToSet(m) \cup {t}
        /\ IsInjective(Append(m, t))
        /\ \A n \in 1 .. Len(m) : Append(m, t)[n] = m[n]
        /\ Len(m) < MAX_PARTY_SIZE
        /\ t \in online /\ partyOf[t] = NoParty
    BY <1>1, <1>2, <1>4, <1>5, <1>6, <1>7
  <1> QED
    BY <1>8 DEF i, id, m

LEMMA AddToPartyKeeps ==
    ASSUME IInv, NEW t \in Player, AddToParty(t)
    PROVE  IInv'
  <1> DEFINE id    == partyOf[invite[t]]
             m     == parties[id].members
             party == [parties[id] EXCEPT !.members = Append(m, t)]
  <1>1. /\ id \in PartyId /\ parties[id] # NoParty
        /\ StoreParty(id, party)
        /\ party \in PartyData
        /\ Len(Append(m, t)) = Len(m) + 1
        /\ ToSet(Append(m, t)) = ToSet(m) \cup {t}
        /\ IsInjective(Append(m, t))
        /\ Len(m) < MAX_PARTY_SIZE
        /\ t \in online /\ partyOf[t] = NoParty
    BY JoinedParty
  <1>2. /\ parties[id] \in PartyData
        /\ \A q \in Player : q \in ToSet(m) <=> partyOf[q] = id
        /\ ToSet(m) \subseteq online
        /\ Len(m) \in 2 .. MAX_PARTY_SIZE
        /\ parties[id].leader \in ToSet(m)
    BY <1>1, Members
  <1>3. party.members = Append(m, t) /\ party.leader = parties[id].leader
    BY <1>2 DEF PartyData
  <1>4. OffersOK' /\ online' = online /\ online \subseteq Player
    BY TakeKeepsOffers, InvariantParts DEF AddToParty, OffersOK
  <1> HIDE DEF party, m, id
  <1>5. /\ ToSet(party.members) \subseteq online
        /\ \A q \in ToSet(party.members) : partyOf[q] \in {id, NoParty}
        /\ ToSet(parties[id].members) \subseteq ToSet(party.members)
        /\ IsInjective(party.members)
        /\ party.leader \in ToSet(party.members)
    BY <1>1, <1>2, <1>3, <1>4 DEF m
  <1>6. Len(party.members) \in 2 .. MAX_PARTY_SIZE
    BY <1>1, <1>2, <1>3
  <1>7. PartyMapsOK' /\ ListsOK' /\ AbsentAreFree'
    BY <1>1, <1>4, <1>5, <1>6, StoreKeeps
  <1> QED
    BY <1>4, <1>7, InvariantParts, PTL

\* The two founders of a party.
LEMMA FoundedParty ==
    ASSUME IInv, NEW t \in Player, NEW id \in PartyId, CreateParty(t, id)
    PROVE  /\ invite[t] \in online /\ t \in online
           /\ invite[t] # t
           /\ partyOf[invite[t]] = NoParty /\ partyOf[t] = NoParty
           /\ parties[id] = NoParty
           /\ online \subseteq Player
           /\ ToSet(<<invite[t], t>>) = {invite[t], t}
  <1>1. invite[t] # Nobody /\ t \in online /\ partyOf[t] = NoParty /\ invite[t] \in online
    BY DEF CreateParty, TakeInvite, MayJoin
  <1>2. invite[t] # t /\ online \subseteq Player
    BY <1>1, InvariantParts DEF OffersOK, OffersAreBetweenOnline
  <1>3. partyOf[invite[t]] = NoParty
    BY <1>1, <1>2, NoPartyIsFree DEF CreateParty
  <1>4. parties[id] = NoParty
    BY DEF CreateParty, Unused
  <1>5. \A a, b : ToSet(<<a, b>>) = {a, b}
    BY DEF ToSet
  <1> QED
    BY <1>1, <1>2, <1>3, <1>4, <1>5

LEMMA CreatePartyKeeps ==
    ASSUME IInv, NEW t \in Player, NEW id \in PartyId, CreateParty(t, id)
    PROVE  IInv'
  <1> DEFINE i     == invite[t]
             party == [leader |-> i, members |-> <<i, t>>]
  <1>1. /\ i \in online /\ t \in online /\ i # t
        /\ partyOf[i] = NoParty /\ partyOf[t] = NoParty
        /\ parties[id] = NoParty
        /\ online \subseteq Player
        /\ ToSet(<<i, t>>) = {i, t}
    BY FoundedParty
  <1>2. StoreParty(id, party)
    BY DEF CreateParty
  <1>3. OffersOK' /\ online' = online
    BY TakeKeepsOffers, InvariantParts DEF CreateParty
  <1> HIDE DEF i
  <1>4. party \in PartyData
    BY <1>1 DEF PartyData
  <1>5. /\ party.members = <<i, t>> /\ party.leader = i
        /\ IsInjective(<<i, t>>)
        /\ Len(<<i, t>>) \in 2 .. MAX_PARTY_SIZE
    BY <1>1 DEF IsInjective
  <1> HIDE DEF party
  <1>6. /\ ToSet(party.members) \subseteq online
        /\ \A q \in ToSet(party.members) : partyOf[q] \in {id, NoParty}
        /\ IsInjective(party.members)
        /\ Len(party.members) \in 2 .. MAX_PARTY_SIZE
        /\ party.leader \in ToSet(party.members)
    BY <1>1, <1>5
  <1>7. PartyMapsOK' /\ ListsOK' /\ AbsentAreFree'
    BY <1>1, <1>2, <1>3, <1>4, <1>6, StoreKeeps
  <1> QED
    BY <1>3, <1>7, InvariantParts, PTL

LEMMA LeaveOrKickKeeps ==
    ASSUME IInv, NEW p \in Player,
           LeaveParty(p) \/ \E leader \in Player : KickMember(leader, p)
    PROVE  /\ IInv'
           /\ GetParty(p) # NoParty
           /\ RemoveFromParty(p, {p})
           /\ online' = online
  <1>1. RemoveFromParty(p, {p}) /\ UNCHANGED <<online, invite>>
    BY DEF LeaveParty, KickMember
  <1>2. GetParty(p) # NoParty
    <2>1. CASE LeaveParty(p)
      BY <2>1 DEF LeaveParty
    <2>2. ASSUME NEW leader \in Player, KickMember(leader, p)  PROVE GetParty(p) # NoParty
      <3>1. /\ GetParty(leader) # NoParty
            /\ p \in ToSet(GetParty(leader).members)
        BY <2>2 DEF KickMember, IsLeader
      <3>2. /\ partyOf[leader] \in PartyId
            /\ GetParty(leader) = parties[partyOf[leader]]
        BY <3>1, OwnParty
      <3>3. partyOf[p] = partyOf[leader]
        BY <3>1, <3>2, Members
      <3> QED
        BY <3>2, <3>3, NoPartyIsFree
    <2> QED
      BY <2>1, <2>2
  <1>3. PartyMapsOK' /\ ListsOK' /\ AbsentAreFree'
    BY <1>1, <1>2, RemoveKeeps
  <1>4. OffersOK'
    BY <1>1, InvariantParts DEF OffersOK, OffersAreBetweenOnline
  <1>5. IInv'
    BY <1>3, <1>4, InvariantParts, PTL
  <1> QED
    BY <1>1, <1>2, <1>5

LEMMA DisconnectKeeps ==
    ASSUME IInv, NEW p \in Player, Disconnect(p)
    PROVE  IInv'
  <1>1. /\ online' = online \ {p}
        /\ invite' = ForgetInvites(p)
    BY DEF Disconnect
  <1>2. OffersOK'
    <2>1. invite' = [t \in Player |-> IF p \in {t, invite[t]} THEN Nobody ELSE invite[t]]
      BY <1>1 DEF ForgetInvites
    <2>2. OffersOK
      BY InvariantParts
    <2>3. invite' \in [Player -> Player \cup {Nobody}]
      BY <2>1, <2>2 DEF OffersOK
    <2>4. \A t \in Player : invite'[t] # Nobody =>
             invite'[t] = invite[t] /\ t # p /\ invite[t] # p
      BY <2>1
    <2> QED
      BY <1>1, <2>2, <2>3, <2>4 DEF OffersOK, OffersAreBetweenOnline
  <1>3. PartyMapsOK' /\ ListsOK' /\ AbsentAreFree'
    <2>1. CASE GetParty(p) = NoParty
      <3>1. UNCHANGED <<parties, partyOf, shown>>
        BY <2>1 DEF Disconnect
      <3>2. partyOf[p] = NoParty /\ p \in online
        BY <2>1, NoPartyIsFree DEF Disconnect
      <3>3. shown[p] = NoParty
        BY <2>1, <3>2 DEF IInv, PartiesAreSound, ListsAreCurrent
      <3>4. PartyMapsOK /\ ListsOK /\ AbsentAreFree
        BY InvariantParts
      <3>5. PartyMapsOK'
        BY <3>1, <3>4 DEF PartyMapsOK, GoodParty
      <3>6. ListsOK'
        BY <1>1, <3>1, <3>4 DEF ListsOK, ListsAreCurrent, GetParty
      <3>7. AbsentAreFree'
        BY <1>1, <3>1, <3>2, <3>3, <3>4 DEF AbsentAreFree
      <3> QED
        BY <3>5, <3>6, <3>7
    <2>2. CASE GetParty(p) # NoParty
      <3>1. RemoveFromParty(p, {p})
        BY <2>2 DEF Disconnect
      <3> QED
        BY <1>1, <2>2, <3>1, RemoveKeeps
    <2> QED
      BY <2>1, <2>2
  <1> QED
    BY <1>2, <1>3, InvariantParts, PTL

\* A promotion changes the leader of one party and nothing else of it.
LEMMA PromotedParty ==
    ASSUME IInv, NEW l \in Player, NEW p \in Player, PromoteLeader(l, p)
    PROVE  LET id == partyOf[l]
               promoted == [parties[id] EXCEPT !.leader = p]
           IN  /\ id \in PartyId /\ parties[id] # NoParty
               /\ p \in ToSet(parties[id].members)
               /\ promoted \in PartyData
               /\ promoted.leader = p /\ promoted.members = parties[id].members
               /\ parties' = [parties EXCEPT ![id] = promoted]
               /\ shown' = SendList(shown, ToSet(parties[id].members), promoted)
               /\ UNCHANGED <<online, invite, partyOf>>
  <1>1. GetParty(l) # NoParty
    BY DEF PromoteLeader, IsLeader
  <1>2. partyOf[l] \in PartyId /\ GetParty(l) = parties[partyOf[l]]
    BY <1>1, OwnParty
  <1>3. parties[partyOf[l]] \in PartyData
    BY <1>1, <1>2, Members
  <1> DEFINE promoted == [parties[partyOf[l]] EXCEPT !.leader = p]
  <1>4. promoted \in PartyData /\ promoted.leader = p
        /\ promoted.members = parties[partyOf[l]].members
    BY <1>3 DEF PartyData
  <1>5. /\ p \in ToSet(parties[partyOf[l]].members)
        /\ parties' = [parties EXCEPT ![partyOf[l]] = promoted]
        /\ shown' = SendList(shown, ToSet(promoted.members), promoted)
        /\ UNCHANGED <<online, invite, partyOf>>
    BY <1>2 DEF PromoteLeader
  <1> QED
    BY <1>1, <1>2, <1>4, <1>5

LEMMA PromoteLeaderKeeps ==
    ASSUME IInv, NEW l \in Player, NEW p \in Player, PromoteLeader(l, p)
    PROVE  IInv'
  <1> DEFINE id == partyOf[l]
             m  == parties[id].members
             promoted == [parties[id] EXCEPT !.leader = p]
  <1>1. /\ id \in PartyId /\ parties[id] # NoParty
        /\ p \in ToSet(m)
        /\ promoted \in PartyData
        /\ promoted.leader = p /\ promoted.members = m
        /\ parties' = [parties EXCEPT ![id] = promoted]
        /\ shown' = SendList(shown, ToSet(m), promoted)
        /\ UNCHANGED <<online, invite, partyOf>>
    BY PromotedParty
  <1> HIDE DEF promoted
  <1>2. PartyMapsOK /\ ListsOK /\ OffersOK /\ AbsentAreFree
    BY InvariantParts
  <1>3. /\ \A q \in Player : q \in ToSet(m) <=> partyOf[q] = id
        /\ ToSet(m) \subseteq online
    BY <1>1, Members
  <1>4. /\ parties'[id] = promoted /\ promoted # NoParty
        /\ \A j \in PartyId \ {id} : parties'[j] = parties[j]
        /\ parties' \in [PartyId -> PartyData \cup {NoParty}]
    BY <1>1, <1>2 DEF PartyMapsOK
  <1>5. GoodParty(id, parties[id], partyOf)
    BY <1>1, <1>2 DEF PartyMapsOK
  <1>6. GoodParty(id, promoted, partyOf)
    BY <1>1, <1>5 DEF GoodParty
  <1> HIDE DEF id, m
  <1>7. PartyMapsOK'
    BY <1>1, <1>2, <1>4, <1>6 DEF PartyMapsOK, GoodParty
  <1>8. shown' = [q \in Player |-> IF q \in ToSet(m) \cap online THEN promoted ELSE shown[q]]
    BY <1>1 DEF SendList
  <1>9. shown' \in [Player -> PartyData \cup {NoParty}]
    BY <1>1, <1>2, <1>8 DEF ListsOK
  <1>10. ASSUME NEW q \in online  PROVE shown'[q] = GetParty(q)'
    <2>0. q \in Player /\ shown[q] = GetParty(q) /\ partyOf[q] \in PartyId \cup {NoParty}
      BY <1>2 DEF OffersOK, ListsOK, ListsAreCurrent, PartyMapsOK
    <2>1. CASE q \in ToSet(m)
      <3>1. partyOf'[q] = id
        BY <1>1, <1>3, <2>0, <2>1
      <3>2. GetParty(q)' = promoted
        BY <1>1, <1>4, <3>1 DEF GetParty
      <3> QED
        BY <1>8, <2>0, <2>1, <3>2
    <2>2. CASE q \notin ToSet(m)
      <3>1. partyOf'[q] = partyOf[q] /\ partyOf[q] # id
        BY <1>1, <1>3, <2>0, <2>2
      <3>2. GetParty(q)' = GetParty(q)
        BY <1>4, <2>0, <3>1 DEF GetParty
      <3> QED
        BY <1>8, <2>0, <2>2, <3>2
    <2> QED
      BY <2>1, <2>2
  <1>11. ListsOK'
    BY <1>1, <1>9, <1>10 DEF ListsOK, ListsAreCurrent
  <1>12. AbsentAreFree'
    BY <1>1, <1>2, <1>8 DEF AbsentAreFree
  <1>13. OffersOK'
    BY <1>1, <1>2 DEF OffersOK, OffersAreBetweenOnline
  <1> QED
    BY <1>7, <1>11, <1>12, <1>13, InvariantParts, PTL

LEMMA StepKeeps ==
    ASSUME IInv, [Next]_vars
    PROVE  IInv'
  <1>1. CASE UNCHANGED vars
    <2>1. PartyMapsOK' /\ ListsOK' /\ AbsentAreFree'
      BY <1>1, SameMaps, InvariantParts DEF vars, OffersOK
    <2>2. OffersOK'
      BY <1>1, InvariantParts DEF vars, OffersOK, OffersAreBetweenOnline
    <2> QED
      BY <2>1, <2>2, InvariantParts, PTL
  <1>2. ASSUME NEW p \in Player,
               \/ EnterWorld(p) \/ DeclineInvite(p) \/ AcceptTooLate(p) \/ AddToParty(p)
               \/ \E id \in PartyId : CreateParty(p, id)
               \/ LeaveParty(p) \/ Disconnect(p)
        PROVE  IInv'
    BY <1>2, EnterWorldKeeps, UnusedAnswerKeeps, AddToPartyKeeps, CreatePartyKeeps,
       LeaveOrKickKeeps, DisconnectKeeps
  <1>3. ASSUME NEW p \in Player, NEW q \in Player,
               InvitePlayer(p, q) \/ KickMember(p, q) \/ PromoteLeader(p, q)
        PROVE  IInv'
    BY <1>3, InvitePlayerKeeps, LeaveOrKickKeeps, PromoteLeaderKeeps
  <1> QED
    BY <1>1, <1>2, <1>3 DEF Next

LEMMA Invariance == Spec => []IInv
  <1>1. Init => IInv
    BY DEF Init, IInv, PartiesAreSound, MapsAgree, TypeOK, OffersAreBetweenOnline,
           ListsAreCurrent, GetParty, AbsentAreFree
  <1>2. IInv /\ [Next]_vars => IInv'
    BY StepKeeps
  <1> QED
    BY <1>1, <1>2, PTL DEF Spec

\* In every state the two maps agree, offers are between players in the world,
\* and every client shows the party its player is in.
THEOREM PartiesAlwaysSound == Spec => []PartiesAreSound
  BY Invariance, PTL DEF IInv

-----------------------------------------------------------------------------
(* Succession.                                                             *)

\* Whoever is not in two lists that have the same members has not left.
LEMMA NobodyLeft ==
    ASSUME NEW before \in PartyData, NEW after,
           ToSet(before.members) \subseteq ToSet(after.members),
           \A i \in 1 .. Len(before.members) : after.members[i] = before.members[i]
    PROVE  PassesOn(before, after)
  <1> DEFINE leavers  == ToSet(before.members) \ ToSet(after.members)
             ahead(i) == {j \in 1 .. i : before.members[j] \in leavers}
  <1>1. leavers = {}
    OBVIOUS
  <1>2. \A i : ahead(i) = {}
    BY <1>1
  <1>3. Cardinality({}) = 0
    BY FS_EmptySet
  <1>4. before.members \in Seq(Player)
    BY DEF PartyData
  <1>5. DOMAIN before.members = 1 .. Len(before.members) /\ Len(before.members) \in Nat
    BY <1>4
  <1> HIDE DEF leavers, ahead
  <1>6. ASSUME NEW i \in DOMAIN before.members
        PROVE  after.members[i - Cardinality(ahead(i))] = before.members[i]
    <2>1. Cardinality(ahead(i)) = 0
      BY <1>2, <1>3
    <2>2. i \in 1 .. Len(before.members) /\ i - 0 = i
      BY <1>5
    <2> QED
      BY <2>1, <2>2
  <1> QED
    BY <1>1, <1>6 DEF PassesOn, leavers, ahead

\* One who leaves makes room for those behind him, and for a leader.
LEMMA OneLeft ==
    ASSUME NEW before \in PartyData, NEW after, IsInjective(before.members),
           NEW p \in ToSet(before.members),
           after.members = RemoveFirst(before.members, p),
           after.leader = LeaderWithout(before, p, after.members)
    PROVE  PassesOn(before, after)
  <1> DEFINE m        == before.members
             leavers  == ToSet(m) \ ToSet(after.members)
             ahead(i) == {j \in 1 .. i : m[j] \in leavers}
  <1>1. m \in Seq(Player) /\ Len(m) \in Nat /\ DOMAIN m = 1 .. Len(m)
    BY DEF PartyData
  <1>2. ToSet(after.members) = ToSet(m) \ {p}
    BY <1>1, RestOfList
  <1>3. PICK k \in 1 .. Len(m) :
          /\ m[k] = p
          /\ \A i \in 1 .. Len(m) - 1 :
               after.members[i] = IF i < k THEN m[i] ELSE m[i + 1]
    <2> HIDE DEF m
    <2>1. IsInjective(m) /\ p \in ToSet(m) /\ after.members = RemoveFirst(m, p)
      BY DEF m
    <2>2. \E k \in 1 .. Len(m) :
            /\ m[k] = p
            /\ \A i \in 1 .. Len(m) - 1 :
                 RemoveFirst(m, p)[i] = IF i < k THEN m[i] ELSE m[i + 1]
      BY <1>1, <2>1, RestOfList
    <2> QED
      BY <2>1, <2>2, Zenon
  <1>4. leavers = {p}
    BY <1>2
  <1> HIDE DEF leavers
  <1>5. ASSUME NEW i \in 1 .. Len(m), m[i] \notin leavers
        PROVE  after.members[i - Cardinality(ahead(i))] = m[i]
    <2>1. i # k
      BY <1>3, <1>4, <1>5
    <2>2. ASSUME NEW j \in 1 .. i  PROVE m[j] = p <=> j = k
      <3>1. j \in DOMAIN m /\ k \in DOMAIN m
        BY <1>1
      <3>2. \A a, b \in DOMAIN m : m[a] = m[b] => a = b
        BY DEF IsInjective
      <3> HIDE DEF m
      <3> QED
        BY <1>3, <3>1, <3>2
    <2>3. CASE i < k
      <3>1. ahead(i) = {}
        BY <1>1, <1>4, <2>2, <2>3
      <3>2. Cardinality(ahead(i)) = 0
        BY <3>1, FS_EmptySet
      <3>3. i \in 1 .. Len(m) - 1 /\ i - 0 = i
        BY <1>1, <2>3
      <3> HIDE DEF ahead
      <3> QED
        BY <1>3, <2>3, <3>2, <3>3
    <2>4. CASE i > k
      <3>1. ahead(i) = {k}
        BY <1>1, <1>4, <2>2, <2>4
      <3>2. Cardinality(ahead(i)) = 1
        BY <3>1, FS_Singleton
      <3>3. i - 1 \in 1 .. Len(m) - 1 /\ ~ (i - 1 < k) /\ (i - 1) + 1 = i
        BY <1>1, <2>4
      <3> HIDE DEF ahead
      <3> QED
        BY <1>3, <3>2, <3>3
    <2> QED
      BY <1>1, <2>1, <2>3, <2>4
  <1>6. before.leader \in leavers => after.leader = Head(after.members)
    BY <1>4 DEF LeaderWithout
  <1>7. before.leader \notin leavers => after.leader = before.leader
    BY <1>4 DEF LeaderWithout
  <1> HIDE DEF ahead
  <1>8. \A i \in DOMAIN m : m[i] \notin leavers =>
           after.members[i - Cardinality(ahead(i))] = m[i]
    BY <1>1, <1>5
  <1> QED
    BY <1>6, <1>7, <1>8 DEF PassesOn, leavers, ahead

\* Removing a player is one of his leaving a party that goes on, or its end.
LEMMA RemovalIsOrderly ==
    ASSUME IInv, NEW p \in Player, GetParty(p) # NoParty, RemoveFromParty(p, {p}),
           online' \in {online, online \ {p}},
           NEW j \in PartyId, parties[j] # NoParty, parties'[j] # NoParty
    PROVE  PassesOn(parties[j], parties'[j])
  <1> DEFINE id == partyOf[p]
  <1>1. /\ Passed(p) \/ Ended(p)
        /\ \A i \in PartyId \ {id} : parties'[i] = parties[i]
    BY RemoveKeeps
  <1>2. id \in PartyId /\ parties[id] # NoParty /\ p \in ToSet(parties[id].members)
    BY OwnParty, NoPartyIsFree
  <1>3. parties[j] \in PartyData /\ IsInjective(parties[j].members)
    BY Members
  <1>4. CASE j = id
    <2>1. Passed(p)
      BY <1>1, <1>4 DEF Ended
    <2> QED
      BY <1>2, <1>3, <1>4, <2>1, OneLeft DEF Passed
  <1>5. CASE j # id
    BY <1>1, <1>3, <1>5, NobodyLeft
  <1> QED
    BY <1>4, <1>5

LEMMA StepIsOrderly ==
    ASSUME IInv, Next, NEW j \in PartyId, parties[j] # NoParty, parties'[j] # NoParty
    PROVE  PassesOn(parties[j], parties'[j])
  <1>1. /\ parties[j] \in PartyData
        /\ parties \in [PartyId -> PartyData \cup {NoParty}]
    BY Members, InvariantParts DEF PartyMapsOK
  <1>2. CASE parties' = parties
    BY <1>1, <1>2, NobodyLeft
  <1>3. ASSUME NEW p \in Player,
               \/ EnterWorld(p) \/ DeclineInvite(p) \/ AcceptTooLate(p)
               \/ \E q \in Player : InvitePlayer(p, q)
        PROVE  parties' = parties
    BY <1>3 DEF EnterWorld, DeclineInvite, AcceptTooLate, InvitePlayer
  <1>4. ASSUME NEW t \in Player, AddToParty(t)  PROVE PassesOn(parties[j], parties'[j])
    <2> DEFINE id    == partyOf[invite[t]]
               m     == parties[id].members
               party == [parties[id] EXCEPT !.members = Append(m, t)]
    <2>1. /\ id \in PartyId /\ parties[id] # NoParty
          /\ parties' = [parties EXCEPT ![id] = party]
          /\ ToSet(Append(m, t)) = ToSet(m) \cup {t}
          /\ \A n \in 1 .. Len(m) : Append(m, t)[n] = m[n]
      BY <1>4, JoinedParty DEF StoreParty
    <2>2. parties[id] \in PartyData
      BY <2>1, Members
    <2>3. party.members = Append(m, t)
      BY <2>2 DEF PartyData
    <2> HIDE DEF party
    <2>4. CASE j = id
      <3>1. parties'[j] = party
        BY <1>1, <2>1, <2>4
      <3> HIDE DEF id
      <3>2. /\ ToSet(parties[j].members) \subseteq ToSet(party.members)
            /\ \A n \in 1 .. Len(parties[j].members) :
                 party.members[n] = parties[j].members[n]
        BY <2>1, <2>3, <2>4
      <3> QED
        BY <1>1, <3>1, <3>2, NobodyLeft
    <2>5. CASE j # id
      <3>1. parties'[j] = parties[j]
        BY <1>1, <2>1, <2>5
      <3> QED
        BY <1>1, <3>1, NobodyLeft
    <2> QED
      BY <2>4, <2>5
  <1>5. ASSUME NEW t \in Player, NEW id \in PartyId, CreateParty(t, id)
        PROVE  PassesOn(parties[j], parties'[j])
    <2>1. j # id
      BY <1>5, FoundedParty
    <2>2. parties'[j] = parties[j]
      BY <1>1, <1>5, <2>1 DEF CreateParty, StoreParty
    <2> QED
      BY <1>1, <2>2, NobodyLeft
  <1>6. ASSUME NEW p \in Player,
               LeaveParty(p) \/ \E leader \in Player : KickMember(leader, p)
        PROVE  PassesOn(parties[j], parties'[j])
    <2>1. GetParty(p) # NoParty /\ RemoveFromParty(p, {p}) /\ online' = online
      BY <1>6, LeaveOrKickKeeps
    <2> QED
      BY <2>1, RemovalIsOrderly
  <1>7. ASSUME NEW p \in Player, Disconnect(p)  PROVE PassesOn(parties[j], parties'[j])
    <2>1. CASE GetParty(p) = NoParty
      BY <1>2, <1>7, <2>1 DEF Disconnect
    <2>2. CASE GetParty(p) # NoParty
      BY <1>7, <2>2, RemovalIsOrderly DEF Disconnect
    <2> QED
      BY <2>1, <2>2
  <1>8. ASSUME NEW l \in Player, NEW p \in Player, PromoteLeader(l, p)
        PROVE  PassesOn(parties[j], parties'[j])
    <2> DEFINE id == partyOf[l]
               promoted == [parties[id] EXCEPT !.leader = p]
    <2>1. /\ promoted.members = parties[id].members
          /\ parties' = [parties EXCEPT ![id] = promoted]
          /\ id \in PartyId
      BY <1>8, PromotedParty
    <2> HIDE DEF promoted
    <2>2. parties'[j].members = parties[j].members
      BY <1>1, <2>1
    <2> QED
      BY <1>1, <2>2, NobodyLeft
  <1> QED
    BY <1>2, <1>3, <1>4, <1>5, <1>6, <1>7, <1>8 DEF Next

\* Whatever happens to a party that goes on, those who stay keep their order,
\* and only a promotion or the leader's own leaving changes its leader: then to
\* the one who has been there longest.
THEOREM SuccessionAlwaysOrderly == Spec => SuccessionIsOrderly
  <1>1. IInv /\ [Next]_vars =>
          [\A id \in PartyId : parties[id] # NoParty /\ parties'[id] # NoParty =>
             PassesOn(parties[id], parties'[id])]_vars
    BY StepIsOrderly
  <1> QED
    BY <1>1, Invariance, PTL DEF Spec, SuccessionIsOrderly

-----------------------------------------------------------------------------
(* The manager implements PartyGroups.                                     *)

\* The ids of the parties stored in ps, and their members.
StoredIn(ps) == {id \in PartyId : ps[id] # NoParty}

MembersIn(ps, id) == ToSet(ps[id].members)

\* The abstract module counts as this one does.
LEMMA SameCardinality == \A S : Promise!Cardinality(S) = Cardinality(S)
  BY DEF Cardinality, Promise!Cardinality

\* The groups: one set of players for each party, disjoint from the others.
LEMMA GroupsAre ==
    ASSUME IInv
    PROVE  /\ \A g : g \in Groups <=>
                    \E id \in StoredIn(parties) : g = MembersIn(parties, id)
           /\ \A g : g \in Groups' <=>
                    \E id \in StoredIn(parties') : g = MembersIn(parties', id)
           /\ \A id \in StoredIn(parties) :
                 /\ Cardinality(MembersIn(parties, id)) = Len(parties[id].members)
                 /\ Len(parties[id].members) \in 2 .. MAX_PARTY_SIZE
           /\ \A id \in StoredIn(parties), q \in Player :
                 q \in MembersIn(parties, id) <=> partyOf[q] = id
           /\ \A id \in StoredIn(parties) : MembersIn(parties, id) \subseteq Player
           /\ \A i, j \in StoredIn(parties) :
                 i # j => MembersIn(parties, i) # MembersIn(parties, j)
  <1>1. \A g : g \in Groups <=> \E id \in StoredIn(parties) : g = MembersIn(parties, id)
    BY DEF Groups, MembersIn, StoredIn
  <1>2. \A g : g \in Groups' <=> \E id \in StoredIn(parties') : g = MembersIn(parties', id)
    BY DEF Groups, MembersIn, StoredIn
  <1>3. ASSUME NEW id \in StoredIn(parties)
        PROVE  /\ Cardinality(MembersIn(parties, id)) = Len(parties[id].members)
               /\ Len(parties[id].members) \in 2 .. MAX_PARTY_SIZE
               /\ \A q \in Player : q \in MembersIn(parties, id) <=> partyOf[q] = id
               /\ MembersIn(parties, id) \subseteq Player
               /\ parties[id].leader \in MembersIn(parties, id)
    <2>1. id \in PartyId /\ parties[id] # NoParty
      BY DEF StoredIn
    <2>2. /\ parties[id].members \in Seq(Player)
          /\ IsInjective(parties[id].members)
          /\ Len(parties[id].members) \in 2 .. MAX_PARTY_SIZE
          /\ \A q \in Player : q \in MembersIn(parties, id) <=> partyOf[q] = id
          /\ parties[id].leader \in MembersIn(parties, id)
      BY <2>1, Members DEF MembersIn
    <2>3. Cardinality(MembersIn(parties, id)) = Len(parties[id].members)
      BY <2>2, ListSize DEF MembersIn
    <2>4. MembersIn(parties, id) \subseteq online
      BY <2>1, Members DEF MembersIn
    <2>5. online \subseteq Player
      BY InvariantParts DEF OffersOK
    <2> QED
      BY <2>2, <2>3, <2>4, <2>5
  <1>4. ASSUME NEW i \in StoredIn(parties), NEW j \in StoredIn(parties), i # j
        PROVE  MembersIn(parties, i) # MembersIn(parties, j)
    BY <1>3, <1>4
  <1> QED
    BY <1>1, <1>2, <1>3, <1>4

\* Who has no party is a loner.
LEMMA FreeIsLoner ==
    ASSUME IInv, NEW p \in online, partyOf[p] = NoParty
    PROVE  p \in Promise!Loners /\ p \in Player
  <1>1. p \in Player
    BY InvariantParts DEF OffersOK
  <1>2. \A id \in StoredIn(parties) : p \notin MembersIn(parties, id)
    BY <1>1, GroupsAre DEF StoredIn
  <1> QED
    BY <1>1, <1>2, GroupsAre DEF Promise!Loners

LEMMA SameGroups ==
    ASSUME UNCHANGED parties
    PROVE  Groups' = Groups
  BY DEF Groups

LEMMA CreateIsFound ==
    ASSUME IInv, NEW t \in Player, NEW id \in PartyId, CreateParty(t, id)
    PROVE  Promise!Next
  <1> DEFINE i     == invite[t]
             party == [leader |-> i, members |-> <<i, t>>]
  <1>1. /\ i \in online /\ t \in online /\ i # t
        /\ partyOf[i] = NoParty /\ partyOf[t] = NoParty
        /\ parties[id] = NoParty
        /\ ToSet(<<i, t>>) = {i, t}
        /\ online \subseteq Player
    BY FoundedParty
  <1>2. parties' = [parties EXCEPT ![id] = party] /\ online' = online
    BY DEF CreateParty, StoreParty, TakeInvite
  <1>3. parties \in [PartyId -> PartyData \cup {NoParty}]
    BY InvariantParts DEF PartyMapsOK
  <1> HIDE DEF i
  <1>4. party \in PartyData /\ party.members = <<i, t>>
    BY <1>1 DEF PartyData
  <1> HIDE DEF party
  <1>5. /\ parties'[id] = party /\ party # NoParty
        /\ \A j \in PartyId \ {id} : parties'[j] = parties[j]
    BY <1>2, <1>3, <1>4
  <1>6. StoredIn(parties') = StoredIn(parties) \cup {id} /\ id \notin StoredIn(parties)
    BY <1>1, <1>5 DEF StoredIn
  <1>7. /\ MembersIn(parties', id) = {i, t}
        /\ \A j \in StoredIn(parties) : MembersIn(parties', j) = MembersIn(parties, j)
    BY <1>1, <1>4, <1>5, <1>6 DEF MembersIn, StoredIn
  <1>8. Groups' = Groups \cup {{i, t}}
    <2>1. /\ \A g : g \in Groups <=> \E j \in StoredIn(parties) : g = MembersIn(parties, j)
          /\ \A g : g \in Groups' <=> \E j \in StoredIn(parties') : g = MembersIn(parties', j)
      BY GroupsAre
    <2>2. ASSUME NEW g \in Groups'  PROVE g \in Groups \cup {{i, t}}
      <3>1. PICK j \in StoredIn(parties') : g = MembersIn(parties', j)
        BY <2>1, <2>2
      <3> QED
        BY <1>6, <1>7, <2>1, <3>1
    <2>3. ASSUME NEW g \in Groups \cup {{i, t}}  PROVE g \in Groups'
      <3>1. PICK j \in StoredIn(parties') : g = MembersIn(parties', j)
        BY <1>6, <1>7, <2>1, <2>3
      <3> QED
        BY <2>1, <3>1
    <2> QED
      BY <2>2, <2>3
  <1>9. i \in Promise!Loners /\ t \in Promise!Loners
    BY <1>1, FreeIsLoner
  <1>10. Promise!Found(i, t)
    BY <1>1, <1>2, <1>8 DEF Promise!Found
  <1> QED
    BY <1>9, <1>10 DEF Promise!Next

LEMMA AddIsJoin ==
    ASSUME IInv, NEW t \in Player, AddToParty(t)
    PROVE  Promise!Next
  <1> DEFINE id    == partyOf[invite[t]]
             m     == parties[id].members
             party == [parties[id] EXCEPT !.members = Append(m, t)]
  <1>1. /\ id \in PartyId /\ parties[id] # NoParty
        /\ StoreParty(id, party)
        /\ party \in PartyData
        /\ ToSet(Append(m, t)) = ToSet(m) \cup {t}
        /\ Len(m) < MAX_PARTY_SIZE
        /\ t \in online /\ partyOf[t] = NoParty
    BY JoinedParty
  <1>2. parties[id] \in PartyData
    BY <1>1, Members
  <1>3. party.members = Append(m, t)
    BY <1>2 DEF PartyData
  <1>4. parties' = [parties EXCEPT ![id] = party] /\ online' = online
    BY <1>1 DEF StoreParty, AddToParty, TakeInvite
  <1>5. parties \in [PartyId -> PartyData \cup {NoParty}]
    BY InvariantParts DEF PartyMapsOK
  <1>m. MembersIn(parties, id) = ToSet(m)
    BY DEF MembersIn
  <1> HIDE DEF party, m, id
  <1>6. /\ parties'[id] = party /\ party # NoParty
        /\ \A j \in PartyId \ {id} : parties'[j] = parties[j]
    BY <1>1, <1>4, <1>5
  <1>7. StoredIn(parties') = StoredIn(parties) /\ id \in StoredIn(parties)
    BY <1>1, <1>6 DEF StoredIn
  <1>8. /\ MembersIn(parties', id) = MembersIn(parties, id) \cup {t}
        /\ \A j \in StoredIn(parties) \ {id} :
              /\ MembersIn(parties', j) = MembersIn(parties, j)
              /\ MembersIn(parties, j) # MembersIn(parties, id)
    BY <1>1, <1>3, <1>6, <1>7, <1>m, GroupsAre DEF MembersIn, StoredIn
  <1>9. Groups' = (Groups \ {MembersIn(parties, id)}) \cup {MembersIn(parties, id) \cup {t}}
    <2> DEFINE Others == Groups \ {MembersIn(parties, id)}
               joined == MembersIn(parties, id) \cup {t}
    <2>1. /\ \A g : g \in Groups <=> \E j \in StoredIn(parties) : g = MembersIn(parties, j)
          /\ \A g : g \in Groups' <=> \E j \in StoredIn(parties') : g = MembersIn(parties', j)
      BY GroupsAre
    <2>2. \A g : g \in Others <=>
             \E j \in StoredIn(parties) \ {id} : g = MembersIn(parties, j)
      BY <1>8, <2>1
    <2>3. \A j \in StoredIn(parties) \ {id} : MembersIn(parties', j) = MembersIn(parties, j)
      BY <1>8
    <2>4. MembersIn(parties', id) = joined
      BY <1>8
    <2> HIDE DEF Others, joined
    <2>5. ASSUME NEW g \in Groups'  PROVE g \in Others \cup {joined}
      <3>1. PICK j \in StoredIn(parties) : g = MembersIn(parties', j)
        BY <1>7, <2>1, <2>5
      <3> QED
        BY <2>2, <2>3, <2>4, <3>1
    <2>6. ASSUME NEW g \in Others \cup {joined}  PROVE g \in Groups'
      <3>1. PICK j \in StoredIn(parties) : g = MembersIn(parties', j)
        BY <1>7, <2>2, <2>3, <2>4, <2>6
      <3> QED
        BY <1>7, <2>1, <3>1
    <2>7. Groups' = Others \cup {joined}
      BY <2>5, <2>6
    <2> QED
      BY <2>7 DEF Others, joined
  <1>10. /\ MembersIn(parties, id) \in Groups
         /\ Cardinality(MembersIn(parties, id)) < MAX_PARTY_SIZE
    BY <1>1, <1>7, GroupsAre DEF m
  <1>11. t \in Promise!Loners
    BY <1>1, FreeIsLoner
  <1>12. Promise!Join(t, MembersIn(parties, id))
    BY <1>4, <1>9, <1>10, SameCardinality DEF Promise!Join
  <1> QED
    BY <1>10, <1>11, <1>12 DEF Promise!Next

\* Without a player the other parties are what they were.
LEMMA GroupWithout ==
    ASSUME IInv, NEW p \in Player, NEW j \in StoredIn(parties), partyOf[p] # j
    PROVE  /\ MembersIn(parties, j) \ {p} = MembersIn(parties, j)
           /\ Cardinality(MembersIn(parties, j) \ {p}) > 1
  <1>1. p \notin MembersIn(parties, j)
    BY GroupsAre
  <1>2. MembersIn(parties, j) \ {p} = MembersIn(parties, j)
    BY <1>1
  <1>3. Cardinality(MembersIn(parties, j)) \in 2 .. MAX_PARTY_SIZE
    BY GroupsAre
  <1>4. Cardinality(MembersIn(parties, j)) > 1
    BY <1>3
  <1> QED
    BY <1>2, <1>4

\* The groups that are left without a player, by the parties they come from.
LEMMA WithoutAre ==
    ASSUME IInv, NEW p \in Player
    PROVE  \A g : g \in Promise!GroupsWithout(p) <=>
             \E j \in StoredIn(parties) :
               g = MembersIn(parties, j) \ {p} /\ Cardinality(g) > 1
  <1>1. \A h : h \in Groups <=> \E j \in StoredIn(parties) : h = MembersIn(parties, j)
    BY GroupsAre
  <1>2. \A g : g \in Promise!GroupsWithout(p) <=>
           \E h \in Groups : g = h \ {p} /\ Cardinality(g) > 1
    BY SameCardinality DEF Promise!GroupsWithout
  <1> QED
    BY <1>1, <1>2

LEMMA RemoveIsPart ==
    ASSUME IInv, NEW p \in Player, GetParty(p) # NoParty, RemoveFromParty(p, {p}),
           online' \in {online, online \ {p}}
    PROVE  Groups' = Promise!GroupsWithout(p)
  <1> DEFINE id == partyOf[p]
             m  == parties[id].members
  <1>1. /\ Passed(p) \/ Ended(p)
        /\ \A j \in PartyId \ {id} : parties'[j] = parties[j]
    BY RemoveKeeps
  <1>2. id \in PartyId /\ parties[id] # NoParty /\ p \in ToSet(m)
    BY OwnParty, NoPartyIsFree
  <1>3. m \in Seq(Player) /\ IsInjective(m) /\ Len(m) \in 2 .. MAX_PARTY_SIZE
    BY <1>2, Members
  <1>4. /\ RemoveFirst(m, p) \in Seq(Player)
        /\ Len(RemoveFirst(m, p)) = Len(m) - 1
        /\ ToSet(RemoveFirst(m, p)) = ToSet(m) \ {p}
        /\ IsInjective(RemoveFirst(m, p))
    BY <1>2, <1>3, RestOfList
  <1>5. Cardinality(MembersIn(parties, id) \ {p}) = Len(m) - 1
    BY <1>4, ListSize DEF MembersIn
  <1>6. id \in StoredIn(parties)
    BY <1>2 DEF StoredIn
  <1>7. \A j \in StoredIn(parties) \ {id} : MembersIn(parties', j) = MembersIn(parties, j) \ {p}
    BY <1>1, GroupWithout DEF MembersIn, StoredIn
  <1>8. \A j \in StoredIn(parties) \ {id} : Cardinality(MembersIn(parties, j) \ {p}) > 1
    BY GroupWithout
  <1>9. /\ \A g : g \in Groups <=> \E j \in StoredIn(parties) : g = MembersIn(parties, j)
        /\ \A g : g \in Groups' <=> \E j \in StoredIn(parties') : g = MembersIn(parties', j)
    BY GroupsAre
  <1>p. /\ Passed(p) => /\ Len(m) > 2
                        /\ parties'[id] # NoParty
                        /\ parties'[id].members = RemoveFirst(m, p)
        /\ Ended(p) => Len(m) = 2 /\ parties'[id] = NoParty
    BY DEF Passed, Ended
  <1>l. Len(m) \in Nat
    BY <1>3
  <1> HIDE DEF m, id
  <1>10. CASE Passed(p)
    <2>1. StoredIn(parties') = StoredIn(parties)
      BY <1>1, <1>2, <1>10, <1>p DEF StoredIn
    <2>2. MembersIn(parties', id) = MembersIn(parties, id) \ {p}
      BY <1>4, <1>10, <1>p DEF MembersIn, m
    <2>3. Cardinality(MembersIn(parties, id) \ {p}) > 1
      BY <1>5, <1>10, <1>p, <1>l
    <2>4. \A j \in StoredIn(parties) : MembersIn(parties', j) = MembersIn(parties, j) \ {p}
      BY <1>7, <2>2
    <2>5. \A j \in StoredIn(parties) : Cardinality(MembersIn(parties, j) \ {p}) > 1
      BY <1>8, <2>3
    <2>w. \A g : g \in Promise!GroupsWithout(p) <=>
             \E j \in StoredIn(parties) :
               g = MembersIn(parties, j) \ {p} /\ Cardinality(g) > 1
      BY WithoutAre
    <2>6. ASSUME NEW g \in Groups'  PROVE g \in Promise!GroupsWithout(p)
      <3>1. PICK j \in StoredIn(parties) : g = MembersIn(parties', j)
        BY <1>9, <2>1, <2>6
      <3>2. g = MembersIn(parties, j) \ {p} /\ Cardinality(g) > 1
        BY <2>4, <2>5, <3>1
      <3> QED
        BY <2>w, <3>2
    <2>7. ASSUME NEW g \in Promise!GroupsWithout(p)  PROVE g \in Groups'
      <3>1. PICK j \in StoredIn(parties) : g = MembersIn(parties, j) \ {p}
        BY <2>w, <2>7
      <3>2. g = MembersIn(parties', j)
        BY <2>4, <3>1
      <3> QED
        BY <1>9, <2>1, <3>2
    <2> QED
      BY <2>6, <2>7
  <1>11. CASE Ended(p)
    <2>1. StoredIn(parties') = StoredIn(parties) \ {id}
      BY <1>1, <1>2, <1>11, <1>p DEF StoredIn
    <2>2. Cardinality(MembersIn(parties, id) \ {p}) = 1
      BY <1>5, <1>11, <1>p
    <2>3. ~ (1 > 1)
      OBVIOUS
    <2>4. \A g : g \in Groups' <=>
             \E j \in StoredIn(parties) \ {id} : g = MembersIn(parties, j) \ {p}
      BY <1>7, <1>9, <2>1
    <2>5. \A g : g \in Promise!GroupsWithout(p) <=>
             \E j \in StoredIn(parties) \ {id} : g = MembersIn(parties, j) \ {p}
      <3>1. \A g : g \in Promise!GroupsWithout(p) <=>
               \E j \in StoredIn(parties) :
                 g = MembersIn(parties, j) \ {p} /\ Cardinality(g) > 1
        BY WithoutAre
      <3>2. ASSUME NEW g \in Promise!GroupsWithout(p)
            PROVE  \E j \in StoredIn(parties) \ {id} : g = MembersIn(parties, j) \ {p}
        <4>1. PICK j \in StoredIn(parties) :
                     g = MembersIn(parties, j) \ {p} /\ Cardinality(g) > 1
          BY <3>1, <3>2
        <4>2. j # id
          BY <2>2, <2>3, <4>1
        <4> QED
          BY <4>1, <4>2
      <3>3. ASSUME NEW j \in StoredIn(parties) \ {id}
            PROVE  MembersIn(parties, j) \ {p} \in Promise!GroupsWithout(p)
        BY <1>8, <3>1, <3>3
      <3> QED
        BY <3>2, <3>3
    <2>6. \A g : g \in Groups' <=> g \in Promise!GroupsWithout(p)
      BY <2>4, <2>5
    <2> QED
      BY <2>6
  <1> QED
    BY <1>1, <1>10, <1>11

LEMMA DisconnectIsPart ==
    ASSUME IInv, NEW p \in Player, Disconnect(p)
    PROVE  Promise!Next
  <1>1. p \in online /\ online' = online \ {p}
    BY DEF Disconnect
  <1>2. Groups' = Promise!GroupsWithout(p)
    <2>1. CASE GetParty(p) = NoParty
      <3>1. Groups' = Groups
        BY <2>1, SameGroups DEF Disconnect
      <3>2. \A j \in StoredIn(parties) : partyOf[p] # j
        BY <2>1, NoPartyIsFree DEF StoredIn
      <3>3. \A j \in StoredIn(parties) :
               /\ MembersIn(parties, j) \ {p} = MembersIn(parties, j)
               /\ Cardinality(MembersIn(parties, j)) > 1
        BY <3>2, GroupWithout
      <3>4. \A g : g \in Groups <=> \E j \in StoredIn(parties) : g = MembersIn(parties, j)
        BY GroupsAre
      <3>w. \A g : g \in Promise!GroupsWithout(p) <=>
               \E j \in StoredIn(parties) :
                 g = MembersIn(parties, j) \ {p} /\ Cardinality(g) > 1
        BY <1>1, WithoutAre
      <3>5. ASSUME NEW g \in Groups  PROVE g \in Promise!GroupsWithout(p)
        <4>1. PICK j \in StoredIn(parties) : g = MembersIn(parties, j)
          BY <3>4, <3>5
        <4>2. g = MembersIn(parties, j) \ {p} /\ Cardinality(g) > 1
          BY <3>3, <4>1
        <4> QED
          BY <3>w, <4>2
      <3>6. ASSUME NEW g \in Promise!GroupsWithout(p)  PROVE g \in Groups
        <4>1. PICK j \in StoredIn(parties) : g = MembersIn(parties, j) \ {p}
          BY <3>w, <3>6
        <4> QED
          BY <3>3, <3>4, <4>1
      <3> QED
        BY <3>1, <3>5, <3>6
    <2>2. CASE GetParty(p) # NoParty
      BY <1>1, <2>2, RemoveIsPart DEF Disconnect
    <2> QED
      BY <2>1, <2>2
  <1>3. Promise!Part(p, FALSE)
    BY <1>1, <1>2 DEF Promise!Part
  <1> QED
    BY <1>1, <1>3 DEF Promise!Next

LEMMA LeaveOrKickIsPart ==
    ASSUME IInv, NEW p \in Player,
           LeaveParty(p) \/ \E leader \in Player : KickMember(leader, p)
    PROVE  Promise!Next
  <1>1. GetParty(p) # NoParty /\ RemoveFromParty(p, {p}) /\ online' = online
    BY LeaveOrKickKeeps
  <1>2. p \in online
    BY <1>1, OwnParty
  <1>3. Promise!Part(p, TRUE)
    BY <1>1, RemoveIsPart DEF Promise!Part
  <1> QED
    BY <1>2, <1>3 DEF Promise!Next

LEMMA PromoteKeepsGroups ==
    ASSUME IInv, NEW l \in Player, NEW p \in Player, PromoteLeader(l, p)
    PROVE  Groups' = Groups /\ online' = online
  <1> DEFINE id == partyOf[l]
             promoted == [parties[id] EXCEPT !.leader = p]
  <1>1. /\ id \in PartyId /\ parties[id] # NoParty
        /\ promoted \in PartyData /\ promoted.members = parties[id].members
        /\ parties' = [parties EXCEPT ![id] = promoted]
        /\ online' = online
    BY PromotedParty
  <1> HIDE DEF promoted, id
  <1>2. parties \in [PartyId -> PartyData \cup {NoParty}]
    BY InvariantParts DEF PartyMapsOK
  <1>3. \A j \in PartyId : /\ parties'[j] # NoParty <=> parties[j] # NoParty
                           /\ parties'[j].members = parties[j].members
    BY <1>1, <1>2
  <1>4. /\ StoredIn(parties') = StoredIn(parties)
        /\ \A j \in StoredIn(parties) : MembersIn(parties', j) = MembersIn(parties, j)
    BY <1>3 DEF StoredIn, MembersIn
  <1>5. \A g : g \in Groups' <=> g \in Groups
    BY <1>4, GroupsAre
  <1> QED
    BY <1>1, <1>5

LEMMA StepGroups ==
    ASSUME IInv, [Next]_vars
    PROVE  [Promise!Next]_<<online, Groups>>
  <1>1. CASE UNCHANGED vars
    BY <1>1, SameGroups DEF vars
  <1>2. ASSUME NEW p \in Player, EnterWorld(p)  PROVE Promise!Next
    BY <1>2, SameGroups DEF EnterWorld, Promise!Arrive, Promise!Next
  <1>3. ASSUME NEW p \in Player,
               \/ DeclineInvite(p) \/ AcceptTooLate(p)
               \/ \E q \in Player : InvitePlayer(p, q)
        PROVE  UNCHANGED <<online, Groups>>
    BY <1>3, SameGroups DEF DeclineInvite, AcceptTooLate, TakeInvite, InvitePlayer
  <1> QED
    BY <1>1, <1>2, <1>3, CreateIsFound, AddIsJoin, DisconnectIsPart, LeaveOrKickIsPart,
       PromoteKeepsGroups DEF Next

\* PartyManager implements PartyGroups: through its two maps only loners found
\* or join a party, one at a time, and a party of one is dissolved.
THEOREM ImplementsGroups == Spec => GroupsKept
  <1>1. Init => Promise!Init
    BY DEF Init, Promise!Init, Groups
  <1>2. IInv /\ [Next]_vars => [Promise!Next]_<<online, Groups>>
    BY StepGroups
  <1> QED
    BY <1>1, <1>2, Invariance, PTL DEF Spec, GroupsKept, Promise!Spec
=============================================================================
