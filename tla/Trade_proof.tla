----------------------------- MODULE Trade_proof -----------------------------
(***************************************************************************)
(* Theorems about Trade, for any number of players, slots and items: the   *)
(* sessions agree, the state is well formed, confirmed terms stand, and a  *)
(* completed trade conserves and delivers what is traded.                  *)
(***************************************************************************)
EXTENDS Trade, Inventory_proof

USE PlayerAssumption

SessionTypeOK ==
    /\ sessionOf \in [Player -> Player \cup {NoPlayer}]
    /\ target \in [Player -> Player \cup {NoPlayer}]

IInv == SessionTypeOK /\ SessionsAgree

-----------------------------------------------------------------------------

\* Two traders name each other, whoever opened the session.
LEMMA PartnersNameEachOther ==
    ASSUME IInv, NEW p \in Player, IsInTrade(p)
    PROVE  /\ sessionOf[p] \in Player
           /\ Other(p) \in Player
           /\ IsInTrade(Other(p))
           /\ sessionOf[Other(p)] = sessionOf[p]
           /\ Other(Other(p)) = p
           /\ {p, Other(p)} = {sessionOf[p], target[sessionOf[p]]}
  <1>1. /\ sessionOf[p] \in Player
        /\ target[sessionOf[p]] \in Player
        /\ p \in {sessionOf[p], target[sessionOf[p]]}
    BY DEF IInv, SessionTypeOK, SessionsAgree, IsInTrade
  <1>2. /\ sessionOf[sessionOf[p]] = sessionOf[p]
        /\ sessionOf[target[sessionOf[p]]] = sessionOf[p]
    BY <1>1 DEF IInv, SessionsAgree
  <1>3. Other(p) \in {sessionOf[p], target[sessionOf[p]]}
    BY <1>1 DEF Other
  <1>4. {p, Other(p)} = {sessionOf[p], target[sessionOf[p]]}
    BY <1>1, <1>3 DEF Other
  <1> QED
    BY <1>1, <1>2, <1>3, <1>4 DEF Other, IsInTrade

\* Only the two traders are in a session.
LEMMA NobodyElseIsInIt ==
    ASSUME IInv, NEW p \in Player, IsInTrade(p), NEW q \in Player,
           sessionOf[q] = sessionOf[p]
    PROVE  q \in {p, Other(p)}
  <1>1. IsInTrade(q)
    BY DEF IsInTrade
  <1>2. q \in {sessionOf[p], target[sessionOf[p]]}
    BY <1>1, PartnersNameEachOther
  <1> QED
    BY <1>2, PartnersNameEachOther

\* Closing a session removes both mappings and the session, and no others; the
\* players who may leave with it are those it maps.
LEMMA ClosingKeepsAgreement ==
    ASSUME IInv, NEW p \in Player, IsInTrade(p), CloseSession(p),
           online \ {p} \subseteq online'
    PROVE  IInv'
  <1>1. SessionTypeOK'
    BY DEF CloseSession, IInv, SessionTypeOK
  <1>2. ASSUME NEW q \in Player, sessionOf'[q] # NoPlayer
        PROVE  /\ target'[sessionOf'[q]] # NoPlayer
               /\ q \in {sessionOf'[q], target'[sessionOf'[q]]}
               /\ q \in online'
    <2>1. q \notin {p, Other(p)} /\ sessionOf'[q] = sessionOf[q] /\ IsInTrade(q)
      BY <1>2 DEF CloseSession, IsInTrade
    <2>2. sessionOf[q] # sessionOf[p] /\ sessionOf[q] \in Player
      BY <2>1, NobodyElseIsInIt, PartnersNameEachOther
    <2>3. target'[sessionOf[q]] = target[sessionOf[q]]
      BY <2>2 DEF CloseSession, IInv, SessionTypeOK
    <2> QED
      BY <2>1, <2>2, <2>3 DEF IInv, SessionsAgree
  <1>3. ASSUME NEW q \in Player, target'[q] # NoPlayer
        PROVE  sessionOf'[q] = q /\ sessionOf'[target'[q]] = q
    <2>1. q # sessionOf[p] /\ target'[q] = target[q]
      BY <1>3, PartnersNameEachOther DEF CloseSession, IInv, SessionTypeOK
    <2>2. sessionOf[q] = q /\ sessionOf[target[q]] = q /\ target[q] \in Player
      BY <1>3, <2>1 DEF IInv, SessionsAgree, SessionTypeOK
    <2>3. {q, target[q]} \cap {p, Other(p)} = {}
      BY <2>1, <2>2, PartnersNameEachOther
    <2> QED
      BY <2>1, <2>2, <2>3 DEF CloseSession, IInv, SessionTypeOK
  <1> QED
    BY <1>1, <1>2, <1>3 DEF IInv, SessionsAgree, IsInTrade

\* Opening one maps two players who were free.
LEMMA OpeningKeepsAgreement ==
    ASSUME IInv, NEW p \in Player, NEW q \in Player, OpenTradeWith(p, q)
    PROVE  IInv'
  <1>1. /\ sessionOf[p] = NoPlayer /\ sessionOf[q] = NoPlayer
        /\ p \in online /\ q \in online /\ online' = online
        /\ sessionOf' = [sessionOf EXCEPT ![p] = p, ![q] = p]
        /\ target' = [target EXCEPT ![p] = q]
    BY DEF OpenTradeWith, IsInTrade
  <1>2. SessionTypeOK'
    BY <1>1 DEF IInv, SessionTypeOK
  <1>3. ASSUME NEW r \in Player, sessionOf'[r] # NoPlayer
        PROVE  /\ target'[sessionOf'[r]] # NoPlayer
               /\ r \in {sessionOf'[r], target'[sessionOf'[r]]}
               /\ r \in online'
    <2>1. CASE r \in {p, q}
      BY <1>1, <2>1 DEF IInv, SessionTypeOK
    <2>2. CASE r \notin {p, q}
      <3>1. sessionOf'[r] = sessionOf[r] /\ IsInTrade(r)
        BY <1>1, <1>3, <2>2 DEF IInv, SessionTypeOK, IsInTrade
      <3>2. sessionOf[r] \in Player /\ sessionOf[r] # p
        BY <1>1, <3>1, PartnersNameEachOther DEF IInv, SessionsAgree
      <3> QED
        BY <1>1, <3>1, <3>2 DEF IInv, SessionsAgree, SessionTypeOK
    <2> QED
      BY <2>1, <2>2
  <1>4. ASSUME NEW r \in Player, target'[r] # NoPlayer
        PROVE  sessionOf'[r] = r /\ sessionOf'[target'[r]] = r
    <2>1. CASE r = p
      BY <1>1, <2>1 DEF IInv, SessionTypeOK
    <2>2. CASE r # p
      <3>1. /\ target'[r] = target[r] /\ target[r] \in Player
            /\ sessionOf[r] = r /\ sessionOf[target[r]] = r
        BY <1>1, <1>4, <2>2 DEF IInv, SessionsAgree, SessionTypeOK
      <3> QED
        BY <1>1, <3>1 DEF IInv, SessionTypeOK
    <2> QED
      BY <2>1, <2>2
  <1> QED
    BY <1>2, <1>3, <1>4 DEF IInv, SessionsAgree, IsInTrade

\* A step that leaves the sessions alone and lets nobody go.
LEMMA QuietKeepsAgreement ==
    ASSUME IInv, UNCHANGED <<sessionOf, target>>, online \subseteq online'
    PROVE  IInv'
  BY DEF IInv, SessionsAgree, SessionTypeOK, IsInTrade

LEMMA InitAgrees == Init => IInv
  BY DEF Init, IInv, SessionsAgree, SessionTypeOK, IsInTrade

\* Every step keeps the sessions in agreement.
LEMMA NextKeepsAgreement == IInv /\ [Next]_vars => IInv'
  <1> SUFFICES ASSUME IInv, [Next]_vars PROVE IInv'
    OBVIOUS
  <1>1. CASE UNCHANGED vars
    BY <1>1, QuietKeepsAgreement DEF vars
  <1>2. ASSUME NEW p \in Player, TradeStep(p)
        PROVE  IInv'
    <2>1. ASSUME NEW q \in Player, OpenTradeWith(p, q) PROVE IInv'
      BY <2>1, OpeningKeepsAgreement
    <2>2. ASSUME NEW s \in Slot, TradeAddItem(p, s) PROVE IInv'
      BY <2>2, QuietKeepsAgreement DEF TradeAddItem
    <2>3. ASSUME NEW t \in TradeSlot, TradeRemoveItem(p, t) PROVE IInv'
      BY <2>3, QuietKeepsAgreement DEF TradeRemoveItem
    <2>4. ASSUME NEW amount \in 0 .. gold[p], TradeSetGold(p, amount) PROVE IInv'
      BY <2>4, QuietKeepsAgreement DEF TradeSetGold
    <2>5. CASE ToggleConfirm(p)
      BY <2>5, QuietKeepsAgreement DEF ToggleConfirm
    <2>6. CASE ConfirmCompletes(p)
      BY <2>6, ClosingKeepsAgreement DEF ConfirmCompletes, CompleteTrade
    <2>7. CASE ConfirmFails(p)
      BY <2>7, QuietKeepsAgreement DEF ConfirmFails
    <2>8. CASE TradeCancel(p)
      BY <2>8, ClosingKeepsAgreement DEF TradeCancel
    <2> QED
      BY <1>2, <2>1, <2>2, <2>3, <2>4, <2>5, <2>6, <2>7, <2>8 DEF TradeStep
  <1>3. ASSUME NEW p \in Player, OtherStep(p)
        PROVE  IInv'
    <2>1. CASE Login(p)
      BY <2>1, QuietKeepsAgreement DEF Login, sessions
    <2>2. CASE Logout(p)
      <3>1. CASE IsInTrade(p)
        BY <2>2, <3>1, ClosingKeepsAgreement DEF Logout
      <3>2. CASE ~ IsInTrade(p)
        BY <2>2, <3>2 DEF Logout, sessions, IInv, SessionsAgree, SessionTypeOK, IsInTrade
      <3> QED
        BY <3>1, <3>2
    <2>3. ASSUME NEW s \in Slot, UseOne(p, s) PROVE IInv'
      BY <2>3, QuietKeepsAgreement DEF UseOne, sessions
    <2>4. ASSUME NEW from \in Slot, NEW to \in Slot, MoveWithin(p, from, to) PROVE IInv'
      BY <2>4, QuietKeepsAgreement DEF MoveWithin, sessions
    <2>5. ASSUME NEW from \in Slot, NEW to \in Slot, NEW n \in 1 .. 2,
                 SplitWithin(p, from, to, n)
          PROVE  IInv'
      BY <2>5, QuietKeepsAgreement DEF SplitWithin, sessions
    <2>6. ASSUME NEW amount \in 1 .. gold[p], SpendGold(p, amount) PROVE IInv'
      BY <2>6, QuietKeepsAgreement DEF SpendGold, sessions
    <2> QED
      BY <1>3, <2>1, <2>2, <2>3, <2>4, <2>5, <2>6 DEF OtherStep
  <1> QED
    BY <1>1, <1>2, <1>3 DEF Next

\* No trade session outlives one of its players, and no mapping its session:
\* the manager's two maps agree in every reachable state.
THEOREM SessionsAlwaysAgree == Spec => []SessionsAgree
  <1>1. IInv => SessionsAgree
    BY DEF IInv
  <1> QED
    BY <1>1, InitAgrees, NextKeepsAgreement, PTL DEF Spec

-----------------------------------------------------------------------------
(* Offers.  Their contents need no type here, only their fields.           *)

Shaped(o) == o = [items |-> o.items, gold |-> o.gold, confirmed |-> o.confirmed]

OffersShaped == DOMAIN offer = Player /\ \A p \in Player : Shaped(offer[p])

Same(o, r) == o.items = r.items /\ o.gold = r.gold

\* Changing the confirmation of an offer changes nothing else of it.
LEMMA OnlyConfirmation ==
    ASSUME NEW o, Shaped(o), NEW c
    PROVE  /\ Shaped([o EXCEPT !.confirmed = c])
           /\ Same([o EXCEPT !.confirmed = c], o)
           /\ [o EXCEPT !.confirmed = c].confirmed = c
  <1> DEFINE r == [items |-> o.items, gold |-> o.gold, confirmed |-> o.confirmed]
  <1>1. o = r
    BY DEF Shaped
  <1>2. /\ [r EXCEPT !.confirmed = c].items = r.items
        /\ [r EXCEPT !.confirmed = c].gold = r.gold
        /\ [r EXCEPT !.confirmed = c].confirmed = c
        /\ [r EXCEPT !.confirmed = c] = [items |-> r.items, gold |-> r.gold, confirmed |-> c]
    OBVIOUS
  <1> HIDE DEF r
  <1>3. Shaped([r EXCEPT !.confirmed = c]) /\ Same([r EXCEPT !.confirmed = c], r)
    BY <1>2 DEF Shaped, Same
  <1> QED
    BY <1>1, <1>2, <1>3

\* Nor does putting an item into an offer, or gold, lose one of its fields.
LEMMA NewItem ==
    ASSUME NEW o, Shaped(o), NEW t, NEW item
    PROVE  Shaped([o EXCEPT !.items[t] = item])
  <1> DEFINE items == [o.items EXCEPT ![t] = item]
             r == [items |-> o.items, gold |-> o.gold, confirmed |-> o.confirmed]
  <1>1. o = r
    BY DEF Shaped
  <1>2. [r EXCEPT !.items[t] = item] =
          [items |-> items, gold |-> o.gold, confirmed |-> o.confirmed]
    OBVIOUS
  <1> HIDE DEF r, items
  <1>3. Shaped([r EXCEPT !.items[t] = item])
    BY <1>2 DEF Shaped
  <1> QED
    BY <1>1, <1>3

LEMMA NewGold ==
    ASSUME NEW o, Shaped(o), NEW amount
    PROVE  Shaped([o EXCEPT !.gold = amount])
  <1> DEFINE r == [items |-> o.items, gold |-> o.gold, confirmed |-> o.confirmed]
  <1>1. o = r
    BY DEF Shaped
  <1>2. [r EXCEPT !.gold = amount] =
          [items |-> o.items, gold |-> amount, confirmed |-> o.confirmed]
    OBVIOUS
  <1> HIDE DEF r
  <1>3. Shaped([r EXCEPT !.gold = amount])
    BY <1>2 DEF Shaped
  <1> QED
    BY <1>1, <1>3

\* What TermsStandOnceConfirmed asks of one player in one step.
TermsStand(q) ==
    /\ IsInTrade(q) /\ sessionOf'[q] = sessionOf[q]
    /\ <<offer'[q].items, offer'[q].gold>> # <<offer[q].items, offer[q].gold>>
    => ~ offer'[q].confirmed /\ ~ offer'[Other(q)].confirmed

\* A changed offer takes both confirmations with it, and no other offer.
LEMMA ChangeStandsDown ==
    ASSUME IInv, OffersShaped, NEW p \in Player, IsInTrade(p),
           NEW new, Shaped(new), ChangeOffer(p, new)
    PROVE  OffersShaped' /\ \A q \in Player : TermsStand(q)
  <1>1. ASSUME NEW q \in Player
        PROVE  /\ Shaped(offer'[q])
               /\ q \in {p, Other(p)} => offer'[q].confirmed = FALSE
               /\ q \notin {p, Other(p)} => offer'[q] = offer[q]
    <2> DEFINE o == IF q = p THEN new ELSE offer[q]
    <2>1. Shaped(o)
      BY DEF OffersShaped
    <2>2. offer'[q] = IF q \in {p, Other(p)} THEN [o EXCEPT !.confirmed = FALSE]
                                             ELSE offer[q]
      BY DEF ChangeOffer
    <2> HIDE DEF o
    <2> QED
      BY <2>1, <2>2, OnlyConfirmation DEF OffersShaped
  <1>2. OffersShaped'
    BY <1>1 DEF OffersShaped, ChangeOffer
  <1>3. ASSUME NEW q \in Player PROVE TermsStand(q)
    <2>1. CASE q \in {p, Other(p)}
      <3>1. Other(q) \in {p, Other(p)} /\ Other(q) \in Player
        BY <2>1, PartnersNameEachOther
      <3> QED
        BY <1>1, <2>1, <3>1 DEF TermsStand
    <2>2. CASE q \notin {p, Other(p)}
      BY <1>1, <2>2 DEF TermsStand
    <2> QED
      BY <2>1, <2>2
  <1> QED
    BY <1>2, <1>3

\* Offers that keep their terms stand.
LEMMA SameTermsStand ==
    ASSUME DOMAIN offer' = Player,
           \A q \in Player : Shaped(offer'[q]) /\ Same(offer'[q], offer[q])
    PROVE  OffersShaped' /\ \A q \in Player : TermsStand(q)
  BY DEF OffersShaped, Same, TermsStand

\* Confirming, or withdrawing it, changes no terms.
LEMMA ConfirmingKeepsTerms ==
    ASSUME OffersShaped, NEW p \in Player, NEW c,
           offer' = [offer EXCEPT ![p].confirmed = c]
    PROVE  OffersShaped' /\ \A q \in Player : TermsStand(q)
  <1>1. ASSUME NEW q \in Player
        PROVE  Shaped(offer'[q]) /\ Same(offer'[q], offer[q])
    <2>1. Shaped(offer[q])
      BY DEF OffersShaped
    <2>2. CASE q = p
      <3>1. offer'[q] = [offer[q] EXCEPT !.confirmed = c]
        BY <2>2 DEF OffersShaped
      <3> QED
        BY <2>1, <3>1, OnlyConfirmation
    <2>3. CASE q # p
      BY <2>1, <2>3 DEF OffersShaped, Same
    <2> QED
      BY <2>2, <2>3
  <1> QED
    BY <1>1, SameTermsStand DEF OffersShaped

\* Withdrawing both confirmations changes no terms either.
LEMMA WithdrawingKeepsTerms ==
    ASSUME OffersShaped, NEW p \in Player, NEW q \in Player,
           offer' = [offer EXCEPT ![p].confirmed = FALSE, ![q].confirmed = FALSE]
    PROVE  OffersShaped' /\ \A r \in Player : TermsStand(r)
  <1> DEFINE once == [offer EXCEPT ![p].confirmed = FALSE]
             twice == [once EXCEPT ![q].confirmed = FALSE]
  <1>1. ASSUME NEW r \in Player
        PROVE  Shaped(once[r]) /\ Same(once[r], offer[r])
    <2>1. Shaped(offer[r])
      BY DEF OffersShaped
    <2>2. once[r] = IF r = p THEN [offer[r] EXCEPT !.confirmed = FALSE] ELSE offer[r]
      BY DEF OffersShaped
    <2> HIDE DEF once
    <2> QED
      BY <2>1, <2>2, OnlyConfirmation DEF Same
  <1>2. offer' = twice /\ DOMAIN once = Player
    BY ZenonT(30) DEF OffersShaped
  <1> HIDE DEF once
  <1>3. ASSUME NEW r \in Player
        PROVE  Shaped(twice[r]) /\ Same(twice[r], offer[r])
    <2>1. twice[r] = IF r = q THEN [once[r] EXCEPT !.confirmed = FALSE] ELSE once[r]
      BY <1>2
    <2>2. Shaped(once[r]) /\ Same(once[r], offer[r])
      BY <1>1
    <2>3. /\ Shaped([once[r] EXCEPT !.confirmed = FALSE])
          /\ Same([once[r] EXCEPT !.confirmed = FALSE], once[r])
      BY <2>2, OnlyConfirmation
    <2> HIDE DEF twice
    <2> QED
      BY <2>1, <2>2, <2>3 DEF Same
  <1> QED
    BY <1>2, <1>3, SameTermsStand

\* A closed session takes its own offers only.
LEMMA ClosingKeepsTerms ==
    ASSUME IInv, OffersShaped, NEW p \in Player, IsInTrade(p), CloseSession(p)
    PROVE  OffersShaped' /\ \A q \in Player : TermsStand(q)
  <1>1. Shaped(NoOffer)
    BY DEF Shaped, NoOffer
  <1>2. OffersShaped'
    BY <1>1 DEF OffersShaped, CloseSession
  <1>3. ASSUME NEW q \in Player PROVE TermsStand(q)
    <2>1. CASE q \in {p, Other(p)}
      BY <2>1 DEF TermsStand, CloseSession, IsInTrade
    <2>2. CASE q \notin {p, Other(p)}
      BY <2>2 DEF TermsStand, CloseSession
    <2> QED
      BY <2>1, <2>2
  <1> QED
    BY <1>2, <1>3

\* Nothing is asked of a step that leaves every offer alone.
LEMMA UntouchedTermsStand ==
    ASSUME OffersShaped, UNCHANGED offer
    PROVE  OffersShaped' /\ \A q \in Player : TermsStand(q)
  BY DEF OffersShaped, TermsStand

\* Every step keeps the terms of the offers that are confirmed.
LEMMA NextKeepsTerms ==
    ASSUME IInv, OffersShaped, [Next]_vars
    PROVE  OffersShaped' /\ \A q \in Player : TermsStand(q)
  <1> DEFINE Goal == OffersShaped' /\ \A q \in Player : TermsStand(q)
  <1>1. CASE UNCHANGED vars
    BY <1>1, UntouchedTermsStand DEF vars
  <1>2. ASSUME NEW p \in Player, TradeStep(p) PROVE Goal
    <2>0. Shaped(offer[p])
      BY DEF OffersShaped
    <2>1. ASSUME NEW q \in Player, OpenTradeWith(p, q) PROVE Goal
      <3>1. Shaped(NoOffer)
        BY DEF Shaped, NoOffer
      <3>2. OffersShaped'
        BY <2>1, <3>1 DEF OffersShaped, OpenTradeWith
      <3>3. ASSUME NEW r \in Player PROVE TermsStand(r)
        <4>1. CASE r \in {p, q}
          BY <2>1, <4>1 DEF TermsStand, OpenTradeWith
        <4>2. CASE r \notin {p, q}
          BY <2>1, <4>2 DEF TermsStand, OpenTradeWith, OffersShaped
        <4> QED
          BY <4>1, <4>2
      <3> QED
        BY <3>2, <3>3
    <2>2. ASSUME NEW s \in Slot, TradeAddItem(p, s) PROVE Goal
      <3>1. PICK t \in TradeSlot :
              ChangeOffer(p, [offer[p] EXCEPT !.items[t] =
                                [slot |-> s, itemId |-> inv[p][s].itemId,
                                 stackCount |-> inv[p][s].stackCount]])
        BY <2>2 DEF TradeAddItem
      <3> QED
        BY <2>0, <2>2, <3>1, ChangeStandsDown, NewItem DEF TradeAddItem
    <2>3. ASSUME NEW t \in TradeSlot, TradeRemoveItem(p, t) PROVE Goal
      BY <2>0, <2>3, ChangeStandsDown, NewItem DEF TradeRemoveItem
    <2>4. ASSUME NEW amount \in 0 .. gold[p], TradeSetGold(p, amount) PROVE Goal
      BY <2>0, <2>4, ChangeStandsDown, NewGold DEF TradeSetGold
    <2>5. CASE ToggleConfirm(p)
      BY <2>5, ConfirmingKeepsTerms DEF ToggleConfirm
    <2>6. CASE ConfirmCompletes(p)
      BY <2>6, ClosingKeepsTerms DEF ConfirmCompletes, CompleteTrade
    <2>7. CASE ConfirmFails(p)
      BY <2>7, WithdrawingKeepsTerms, PartnersNameEachOther DEF ConfirmFails
    <2>8. CASE TradeCancel(p)
      BY <2>8, ClosingKeepsTerms DEF TradeCancel
    <2> QED
      BY <1>2, <2>1, <2>2, <2>3, <2>4, <2>5, <2>6, <2>7, <2>8 DEF TradeStep
  <1>3. ASSUME NEW p \in Player, OtherStep(p) PROVE Goal
    <2>1. CASE Logout(p) /\ IsInTrade(p)
      BY <2>1, ClosingKeepsTerms DEF Logout
    <2>2. CASE ~ (Logout(p) /\ IsInTrade(p))
      <3>1. UNCHANGED offer
        BY <1>3, <2>2
        DEF OtherStep, Login, Logout, UseOne, MoveWithin, SplitWithin, SpendGold, sessions
      <3> QED
        BY <3>1, UntouchedTermsStand
    <2> QED
      BY <2>1, <2>2
  <1> QED
    BY <1>1, <1>2, <1>3 DEF Next

\* Once a player has confirmed, the terms of either side change only by taking
\* both confirmations back, whatever else the two players do meanwhile.
THEOREM TermsAlwaysStand == Spec => TermsStandOnceConfirmed
  <1>1. Init => OffersShaped
    <2>1. Shaped(NoOffer)
      BY DEF Shaped, NoOffer
    <2> QED
      BY <2>1 DEF Init, OffersShaped
  <1>2. IInv /\ OffersShaped /\ [Next]_vars => OffersShaped'
    BY NextKeepsTerms
  <1>3. IInv /\ OffersShaped /\ [Next]_vars =>
          [\A p \in Player :
             /\ IsInTrade(p) /\ sessionOf'[p] = sessionOf[p]
             /\ <<offer'[p].items, offer'[p].gold>> # <<offer[p].items, offer[p].gold>>
             => ~ offer'[p].confirmed /\ ~ offer'[Other(p)].confirmed]_vars
    BY NextKeepsTerms DEF TermsStand
  <1> QED
    BY <1>1, <1>2, <1>3, InitAgrees, NextKeepsAgreement, PTL
    DEF Spec, TermsStandOnceConfirmed

-----------------------------------------------------------------------------
(* Well-formed offers.                                                     *)

Offer == [items : [TradeSlot -> Goods \cup {NoItem}], gold : Nat, confirmed : BOOLEAN]

\* No slot of the inventory is offered twice.
Distinct(o) ==
    \A t, u \in TradeSlot :
        o.items[t] # NoItem /\ o.items[u] # NoItem /\ t # u =>
          o.items[t].slot # o.items[u].slot

GoodOffer(o) == o \in Offer /\ Distinct(o)

OffersGood == offer \in [Player -> Offer] /\ \A p \in Player : GoodOffer(offer[p])

WealthTypeOK ==
    /\ online \subseteq Player
    /\ inv \in [Player -> Slots]
    /\ gold \in [Player -> Nat]

\* What every trade relies on.
TInv == IInv /\ OffersGood /\ WealthTypeOK

LEMMA TInvIsTyped == TInv => TradesAreSound
  <1> SUFFICES ASSUME TInv  PROVE TradesAreSound
    OBVIOUS
  <1> QED
    BY DEF TInv, OffersGood, IInv, SessionTypeOK, WealthTypeOK, TradesAreSound, TypeOK, Offer, Slots

LEMMA NoOfferIsGood == GoodOffer(NoOffer)
  <1>1. \A t \in TradeSlot : NoOffer.items[t] = NoItem
    BY DEF NoOffer
  <1>2. NoOffer \in Offer
    BY DEF NoOffer, Offer
  <1> QED
    BY <1>1, <1>2 DEF GoodOffer, Distinct

LEMMA ConfirmedIsGood ==
    ASSUME NEW o, GoodOffer(o), NEW c \in BOOLEAN
    PROVE  GoodOffer([o EXCEPT !.confirmed = c])
  <1>1. o \in Offer /\ Distinct(o)
    BY DEF GoodOffer
  <1>2. [o EXCEPT !.confirmed = c] \in Offer /\ [o EXCEPT !.confirmed = c].items = o.items
    BY <1>1 DEF Offer
  <1> QED
    BY <1>1, <1>2 DEF GoodOffer, Distinct

LEMMA NewGoldIsGood ==
    ASSUME NEW o, GoodOffer(o), NEW amount \in Nat
    PROVE  GoodOffer([o EXCEPT !.gold = amount])
  <1>1. o \in Offer /\ Distinct(o)
    BY DEF GoodOffer
  <1>2. [o EXCEPT !.gold = amount] \in Offer /\ [o EXCEPT !.gold = amount].items = o.items
    BY <1>1 DEF Offer
  <1> QED
    BY <1>1, <1>2 DEF GoodOffer, Distinct

\* An item taken back, or one of a slot that is not offered yet.
LEMMA NewItemIsGood ==
    ASSUME NEW o, GoodOffer(o), NEW t \in TradeSlot, NEW item \in Goods \cup {NoItem},
           item # NoItem => \A u \in TradeSlot : o.items[u].slot # item.slot
    PROVE  GoodOffer([o EXCEPT !.items[t] = item])
  <1> DEFINE items == [o.items EXCEPT ![t] = item]
             r == [items |-> items, gold |-> o.gold, confirmed |-> o.confirmed]
  <1>1. o \in Offer /\ Distinct(o) /\ o.items \in [TradeSlot -> Goods \cup {NoItem}]
    BY DEF GoodOffer, Offer
  <1>2. [o EXCEPT !.items[t] = item] = r
    BY <1>1 DEF Offer
  <1>3. /\ items \in [TradeSlot -> Goods \cup {NoItem}] /\ items[t] = item
        /\ \A u \in TradeSlot \ {t} : items[u] = o.items[u]
    BY <1>1
  <1> HIDE DEF items
  <1>4. r \in Offer /\ r.items = items
    BY <1>1, <1>3 DEF Offer
  <1> HIDE DEF r
  <1>5. Distinct(r)
    BY <1>1, <1>3, <1>4 DEF Distinct
  <1> QED
    BY <1>2, <1>4, <1>5 DEF GoodOffer

LEMMA OneGoodOffer ==
    ASSUME OffersGood, NEW p \in Player, NEW o, GoodOffer(o),
           offer' = [offer EXCEPT ![p] = o]
    PROVE  OffersGood'
  BY DEF OffersGood, GoodOffer

LEMMA ChangedIsGood ==
    ASSUME OffersGood, NEW p \in Player, NEW new, GoodOffer(new), ChangeOffer(p, new)
    PROVE  OffersGood'
  <1>1. ASSUME NEW q \in Player  PROVE GoodOffer(offer'[q])
    <2> DEFINE o == IF q = p THEN new ELSE offer[q]
    <2>1. GoodOffer(o)
      BY DEF OffersGood
    <2>2. offer'[q] = IF q \in {p, Other(p)} THEN [o EXCEPT !.confirmed = FALSE]
                                             ELSE offer[q]
      BY DEF ChangeOffer
    <2> HIDE DEF o
    <2> QED
      BY <2>1, <2>2, ConfirmedIsGood DEF OffersGood
  <1> QED
    BY <1>1 DEF OffersGood, GoodOffer, ChangeOffer

LEMMA ClosingKeepsGood ==
    ASSUME OffersGood, NEW p \in Player, CloseSession(p)
    PROVE  OffersGood'
  BY NoOfferIsGood DEF OffersGood, GoodOffer, CloseSession

-----------------------------------------------------------------------------
(* The exchange.                                                           *)

\* The stacks an inventory receives, one by one.
LEMMA Receiving ==
    ASSUME NEW own \in Slots, NEW n \in Nat, NEW stacks, DOMAIN stacks = 1 .. n,
           \A k \in 1 .. n : stacks[k] \in Stack /\ ~ IsEmpty(stacks[k])
    PROVE  \E g : /\ g[{}] = own
                  /\ \A k \in 1 .. n :
                       g[1 .. k] = AddItem(g[1 .. (k - 1)], stacks[k].itemId, stacks[k].stackCount)
                  /\ g[1 .. n] = Receive(own, stacks)
  <1> DEFINE N == 1 .. n
             Add(v, k) == AddItem(v, stacks[k].itemId, stacks[k].stackCount)
             step == [p \in N \X Slots |-> Add(p[2], p[1])]
             Solves(f) == f = [s \in SUBSET N |->
                                 IF s = {} THEN own ELSE Add(f[s \ {Max(s)}], Max(s))]
             g == CHOOSE f : Solves(f)
  <1>1. step \in [N \X Slots -> Slots]
    <2>1. \A k \in N : stacks[k].itemId \in Item /\ stacks[k].stackCount \in Nat
      BY StackIs
    <2>2. \A v \in Slots, k \in N : Add(v, k) \in Slots
      BY <2>1, AddItemIs
    <2> HIDE DEF Add
    <2> QED
      BY <2>2
  <1>2. PICK f \in [SUBSET N -> Slots] : LeftFolds(f, n, own, step)
    <2> HIDE DEF step
    <2> QED
      BY <1>1, FoldLeftSolved
  <1>3. Solves(f)
    <2> HIDE DEF Add
    <2> QED
      BY <1>2, LastIndex DEF LeftFolds
  <1>4. Solves(g)
    BY <1>3
  <1>5. g[N] = Receive(own, stacks)
    BY DEF Receive, FoldLeft, MapThenFoldSet
  <1> HIDE DEF g
  <1>6. g[{}] = own
    BY <1>4
  <1>7. ASSUME NEW k \in N  PROVE g[1 .. k] = Add(g[1 .. (k - 1)], k)
    <2>1. /\ 1 .. k \in SUBSET N /\ 1 .. k # {}
          /\ Max(1 .. k) = k
          /\ (1 .. k) \ {k} = 1 .. (k - 1)
      BY PrefixOf
    <2> HIDE DEF Add
    <2> QED
      BY <1>4, <2>1
  <1> QED
    BY <1>5, <1>6, <1>7

\* The slot of the k-th item that p gives away.
SlotAt(p, k) == offer[p].items[Ascending(Offered(p))[k]].slot

\* What p has after the first k have left.
Without(p, k) ==
    [s \in Slot |-> IF \E i \in 1 .. k : SlotAt(p, i) = s THEN EmptyStack ELSE inv[p][s]]

\* What is given: stacks out of different slots, all that was offered.
LEMMA GivenIs ==
    ASSUME OffersGood, WealthTypeOK, NEW p \in Player, StillThere(p)
    PROVE  LET n == Cardinality(Offered(p))
           IN  /\ n \in Nat /\ DOMAIN Given(p) = 1 .. n
               /\ \A k \in 1 .. n : /\ SlotAt(p, k) \in Slot
                                    /\ Given(p)[k] = inv[p][SlotAt(p, k)]
                                    /\ Given(p)[k] \in Stack /\ ~ IsEmpty(Given(p)[k])
               /\ \A j, k \in 1 .. n : j # k => SlotAt(p, j) # SlotAt(p, k)
               /\ \A t \in Offered(p) : \E k \in 1 .. n : SlotAt(p, k) = offer[p].items[t].slot
  <1> DEFINE S == Offered(p)
             n == Cardinality(S)
             order == Ascending(S)
             items == offer[p].items
  <1>1. IsFiniteSet(S) /\ S \subseteq TradeSlot /\ S \subseteq Int
    <2>1. IsFiniteSet(TradeSlot) /\ TradeSlot \subseteq Int
      BY TradeSlotsAssumption, FS_Interval DEF TradeSlot
    <2>2. S \subseteq TradeSlot
      BY DEF Offered
    <2> QED
      BY <2>1, <2>2, FS_Subset
  <1>2. /\ items \in [TradeSlot -> Goods \cup {NoItem}]
        /\ inv[p] \in Slots
        /\ \A t, u \in S : t # u => items[t].slot # items[u].slot
        /\ \A t \in S : items[t] # NoItem /\ inv[p][items[t].slot].itemId = items[t].itemId
    BY <1>1 DEF OffersGood, GoodOffer, Offer, Distinct, WealthTypeOK, Offered, StillThere
  <1>3. /\ n \in Nat /\ order \in [1 .. n -> S] /\ DOMAIN order = 1 .. n
        /\ \A i, j \in 1 .. n : i # j => order[i] # order[j]
        /\ \A t \in S : \E i \in 1 .. n : order[i] = t
    <2> HIDE DEF S
    <2> QED
      BY <1>1, AscendingIs
  <1>4. Given(p) = [i \in DOMAIN order |-> inv[p][items[order[i]].slot]]
    BY DEF Given
  <1>5. \A k : SlotAt(p, k) = items[order[k]].slot
    BY DEF SlotAt
  <1> HIDE DEF order, items, S, n
  <1>6. ASSUME NEW k \in 1 .. n
        PROVE  /\ SlotAt(p, k) \in Slot /\ Given(p)[k] = inv[p][SlotAt(p, k)]
               /\ Given(p)[k] \in Stack /\ ~ IsEmpty(Given(p)[k])
    <2>1. order[k] \in S
      BY <1>3
    <2>2. items[order[k]] \in Goods
      BY <1>1, <1>2, <2>1
    <2>3. SlotAt(p, k) \in Slot /\ items[order[k]].itemId \in Item
      BY <1>5, <2>2 DEF Goods
    <2>4. Given(p)[k] = inv[p][SlotAt(p, k)]
      BY <1>3, <1>4, <1>5
    <2>5. Given(p)[k] \in Stack
      BY <1>2, <2>3, <2>4 DEF Slots
    <2>6. Given(p)[k].itemId = items[order[k]].itemId
      BY <1>2, <1>5, <2>1, <2>4
    <2>7. ~ IsEmpty(Given(p)[k])
      BY <2>3, <2>6, StackIs DEF IsEmpty
    <2> QED
      BY <2>3, <2>4, <2>5, <2>7
  <1>7. \A j, k \in 1 .. n : j # k => SlotAt(p, j) # SlotAt(p, k)
    BY <1>2, <1>3, <1>5
  <1>8. \A t \in S : \E k \in 1 .. n : SlotAt(p, k) = items[t].slot
    BY <1>3, <1>5
  <1>9. DOMAIN Given(p) = 1 .. n
    BY <1>3, <1>4
  <1> QED
    BY <1>3, <1>6, <1>7, <1>8, <1>9 DEF n, S, items

\* Giving the k-th stack away takes that stack and nothing else.
LEMMA GivingIs ==
    ASSUME OffersGood, WealthTypeOK, NEW p \in Player, StillThere(p)
    PROVE  LET n == Cardinality(Offered(p))
           IN  /\ Without(p, 0) = inv[p]
               /\ Without(p, n) = Kept(p)
               /\ \A k \in 0 .. n : Without(p, k) \in Slots
               /\ \A k \in 1 .. n, x \in Item :
                    CountItem(Without(p, k - 1), x) =
                      CountItem(Without(p, k), x) + Holds(Given(p)[k], x)
  <1> DEFINE n == Cardinality(Offered(p))
             W(k) == Without(p, k)
  <1>1. /\ n \in Nat
        /\ \A k \in 1 .. n : /\ SlotAt(p, k) \in Slot
                             /\ Given(p)[k] = inv[p][SlotAt(p, k)]
                             /\ Given(p)[k] \in Stack /\ ~ IsEmpty(Given(p)[k])
    BY GivenIs
  <1>2. \A j, k \in 1 .. n : j # k => SlotAt(p, j) # SlotAt(p, k)
    BY GivenIs
  <1>3. \A t \in Offered(p) : \E k \in 1 .. n : SlotAt(p, k) = offer[p].items[t].slot
    BY GivenIs
  <1>4. inv[p] \in [Slot -> Stack]
    BY DEF WealthTypeOK, Slots
  <1>5. \A k : W(k) \in Slots
    BY <1>4, StackIs DEF Without, Slots
  <1>6. W(0) = inv[p]
    BY <1>4 DEF Without
  <1>7. W(n) = Kept(p)
    <2>1. ASSUME NEW s \in Slot
          PROVE  (\E i \in 1 .. n : SlotAt(p, i) = s) <=>
                   (\E t \in Offered(p) : offer[p].items[t].slot = s)
      <3>1. ASSUME NEW i \in 1 .. n, SlotAt(p, i) = s
            PROVE  \E t \in Offered(p) : offer[p].items[t].slot = s
        <4>1. Ascending(Offered(p))[i] \in Offered(p)
          <5>1. IsFiniteSet(Offered(p)) /\ Offered(p) \subseteq Int
            <6>1. IsFiniteSet(TradeSlot) /\ TradeSlot \subseteq Int
              BY TradeSlotsAssumption, FS_Interval DEF TradeSlot
            <6>2. Offered(p) \subseteq TradeSlot
              BY DEF Offered
            <6> QED
              BY <6>1, <6>2, FS_Subset
          <5> QED
            BY <5>1, AscendingIs
        <4> QED
          BY <3>1, <4>1 DEF SlotAt
      <3> QED
        BY <1>3, <3>1
    <2> HIDE DEF n
    <2> QED
      BY <2>1 DEF Without, Kept
  <1>8. ASSUME NEW k \in 1 .. n, NEW x \in Item
        PROVE  CountItem(W(k - 1), x) = CountItem(W(k), x) + Holds(Given(p)[k], x)
    <2> DEFINE s == SlotAt(p, k)
    <2>1. s \in Slot /\ Given(p)[k] = inv[p][s]
      BY <1>1
    <2>2. W(k - 1)[s] = inv[p][s] /\ W(k)[s] = EmptyStack
      <3>1. ~ \E i \in 1 .. (k - 1) : SlotAt(p, i) = s
        BY <1>1, <1>2
      <3>2. \E i \in 1 .. k : SlotAt(p, i) = s
        BY <1>1
      <3> HIDE DEF s
      <3> QED
        BY <2>1, <3>1, <3>2 DEF Without
    <2>3. \A r \in Slot \ {s} : W(k)[r] = W(k - 1)[r]
      <3>1. ASSUME NEW r \in Slot \ {s}
            PROVE  (\E i \in 1 .. k : SlotAt(p, i) = r) <=> (\E i \in 1 .. (k - 1) : SlotAt(p, i) = r)
        BY <1>1
      <3> HIDE DEF s
      <3> QED
        BY <3>1 DEF Without
    <2>4. W(k - 1) \in Slots /\ W(k) \in Slots
      BY <1>5
    <2> HIDE DEF W, s
    <2>5. /\ CountItem(W(k - 1), x) \in Nat /\ CountItem(W(k), x) \in Nat
          /\ CountItem(W(k), x) + Holds(W(k - 1)[s], x) = CountItem(W(k - 1), x) + Holds(W(k)[s], x)
      BY <2>1, <2>3, <2>4, CountPut
    <2>6. Holds(EmptyStack, x) = 0
      BY DEF Holds, EmptyStack
    <2>7. Holds(Given(p)[k], x) \in Nat
      BY <1>1, StackCounts
    <2> QED
      BY <2>1, <2>2, <2>5, <2>6, <2>7
  <1> QED
    BY <1>5, <1>6, <1>7, <1>8

\* The slots p gives away become free.
LEMMA KeptHasRoom ==
    ASSUME OffersGood, WealthTypeOK, NEW p \in Player, StillThere(p)
    PROVE  Cardinality(EmptySlots(Kept(p))) =
             Cardinality(EmptySlots(inv[p])) + Cardinality(Offered(p))
  <1> DEFINE n == Cardinality(Offered(p))
             E == EmptySlots(inv[p])
             G == {SlotAt(p, i) : i \in 1 .. n}
             f == [i \in 1 .. n |-> SlotAt(p, i)]
  <1>1. /\ n \in Nat
        /\ \A k \in 1 .. n : /\ SlotAt(p, k) \in Slot
                             /\ Given(p)[k] = inv[p][SlotAt(p, k)]
                             /\ Given(p)[k] \in Stack /\ ~ IsEmpty(Given(p)[k])
    BY GivenIs
  <1>2. \A j, k \in 1 .. n : j # k => SlotAt(p, j) # SlotAt(p, k)
    BY GivenIs
  <1>3. Without(p, n) = Kept(p)
    BY GivingIs
  <1> HIDE DEF n
  <1>4. f \in Bijection(1 .. n, G)
    BY <1>2 DEF Bijection, Injection, Surjection, IsInjective
  <1>5. IsFiniteSet(G) /\ Cardinality(G) = n
    <2>1. ExistsBijection(1 .. n, G)
      BY <1>4 DEF ExistsBijection
    <2>2. IsFiniteSet(1 .. n) /\ Cardinality(1 .. n) = n
      BY <1>1, FS_Interval
    <2> HIDE DEF G
    <2> QED
      BY <2>1, <2>2, FS_Bijection
  <1>6. E \cap G = {}
    BY <1>1 DEF EmptySlots
  <1>7. EmptySlots(Kept(p)) = E \cup G
    <2>1. \A s \in Slot : Kept(p)[s] = IF s \in G THEN EmptyStack ELSE inv[p][s]
      BY <1>3 DEF Without
    <2>2. G \subseteq Slot
      BY <1>1
    <2> HIDE DEF G
    <2> QED
      BY <2>1, <2>2, StackIs DEF EmptySlots
  <1>8. IsFiniteSet(E)
    BY SlotsFinite
  <1> HIDE DEF E, G
  <1>9. Cardinality(E \cup G) = Cardinality(E) + Cardinality(G)
    BY <1>5, <1>6, <1>8, DisjointUnion
  <1> QED
    BY <1>5, <1>7, <1>9 DEF E, n

\* What o gives arrives at q, and with the room CanComplete asks for, all of it.
LEMMA ReceivedIs ==
    ASSUME OffersGood, WealthTypeOK, NEW q \in Player, NEW o \in Player, StillThere(o)
    PROVE  LET w == Receive(Kept(q), Given(o))
           IN  /\ w \in Slots
               /\ StillThere(q) /\ Cardinality(EmptySlots(inv[q])) + Cardinality(Offered(q))
                                     >= Cardinality(Offered(o)) =>
                    \A x \in Item : CountItem(w, x) + CountItem(Kept(o), x) =
                                      CountItem(Kept(q), x) + CountItem(inv[o], x)
  <1> DEFINE n == Cardinality(Offered(o))
             st == Given(o)
             w == Receive(Kept(q), st)
             room(v) == Cardinality(EmptySlots(v))
             Sum(v, k, x) == CountItem(v, x) + CountItem(Without(o, k), x)
             all(x) == CountItem(Kept(q), x) + CountItem(inv[o], x)
  <1>1. /\ n \in Nat /\ DOMAIN st = 1 .. n
        /\ \A k \in 1 .. n : st[k] \in Stack /\ ~ IsEmpty(st[k])
    BY GivenIs
  <1>2. /\ Without(o, 0) = inv[o] /\ Without(o, n) = Kept(o)
        /\ \A k \in 0 .. n : Without(o, k) \in Slots
        /\ \A k \in 1 .. n, x \in Item :
             CountItem(Without(o, k - 1), x) = CountItem(Without(o, k), x) + Holds(st[k], x)
    BY GivingIs
  <1>3. Kept(q) \in Slots
    BY StackIs DEF Kept, WealthTypeOK, Slots
  <1>4. \A k \in 1 .. n : /\ st[k].itemId \in Item
                          /\ st[k].stackCount \in 1 .. StackLimit[st[k].itemId]
                          /\ st[k].stackCount \in Nat
    BY <1>1, StackIs
  <1> HIDE DEF n, st
  <1>5. PICK g : /\ g[{}] = Kept(q)
                 /\ \A k \in 1 .. n :
                      g[1 .. k] = AddItem(g[1 .. (k - 1)], st[k].itemId, st[k].stackCount)
                 /\ g[1 .. n] = w
    BY <1>1, <1>3, Receiving
  <1> HIDE DEF w
  <1>6. w \in Slots
    <2>1. \A k \in 1 .. n : g[1 .. (k - 1)] \in Slots => g[1 .. k] \in Slots
      BY <1>4, <1>5, AddItemIs
    <2>2. g[1 .. n] \in Slots
      BY <1>1, <1>3, <1>5, <2>1, FoldLeftStays
    <2> QED
      BY <1>5, <2>2
  <1>7. ASSUME StillThere(q), room(inv[q]) + Cardinality(Offered(q)) >= n
        PROVE  \A x \in Item : CountItem(w, x) + CountItem(Kept(o), x) = all(x)
    <2> DEFINE Good(v, k) == /\ v \in Slots
                             /\ n - k <= room(v)
                             /\ \A x \in Item : Sum(v, k, x) = all(x)
               good == [k \in 0 .. n |-> {v \in Slots : Good(v, k)}]
    <2>1. 0 \in 0 .. n /\ n \in 0 .. n /\ \A k \in 1 .. n : k \in 0 .. n /\ k - 1 \in 0 .. n
      BY <1>1
    <2>2. \A k \in 0 .. n : \A v : v \in good[k] <=> Good(v, k)
      OBVIOUS
    <2>3. Good(Kept(q), 0)
      <3>1. n - 0 <= room(Kept(q))
        BY <1>1, <1>7, KeptHasRoom
      <3> QED
        BY <1>2, <1>3, <3>1
    <2>4. ASSUME NEW k \in 1 .. n, NEW v, Good(v, k - 1)
          PROVE  Good(AddItem(v, st[k].itemId, st[k].stackCount), k)
      <3> DEFINE y == st[k].itemId
                 c == st[k].stackCount
                 u == AddItem(v, y, c)
      <3>1. y \in Item /\ c \in 1 .. StackLimit[y] /\ c \in Nat /\ StackLimit[y] \in Nat
        BY <1>4, StackIs
      <3>2. v \in Slots /\ room(v) \in Nat
        BY <2>4, SlotsFinite, FS_CardinalityType
      <3>3. 1 <= room(v)
        BY <1>1, <2>4, <3>2
      <3>4. /\ room(v) <= room(u) + 1
            /\ CountItem(u, y) = CountItem(v, y) + c
            /\ \A x \in Item \ {y} : CountItem(u, x) = CountItem(v, x)
        <4>1. c <= StackLimit[y] * 1 /\ 1 \in Nat
          BY <3>1
        <4> HIDE DEF y, c
        <4> QED
          BY <3>1, <3>2, <3>3, <4>1, AddingFits
      <3>5. u \in Slots /\ room(u) \in Nat
        BY <3>1, <3>2, AddItemIs, SlotsFinite, FS_CardinalityType
      <3>6. n - k <= room(u)
        <4>1. n - (k - 1) <= room(v)
          BY <2>4
        <4> HIDE DEF room, u
        <4> QED
          BY <1>1, <3>2, <3>4, <3>5, <4>1
      <3>7. ASSUME NEW x \in Item  PROVE Sum(u, k, x) = all(x)
        <4>1. /\ CountItem(u, x) \in Nat /\ CountItem(v, x) \in Nat
              /\ CountItem(Without(o, k), x) \in Nat /\ CountItem(Without(o, k - 1), x) \in Nat
          BY <1>2, <2>1, <3>2, <3>5, CountIsNat
        <4>2. CountItem(Without(o, k - 1), x) = CountItem(Without(o, k), x) + Holds(st[k], x)
          BY <1>2
        <4>3. CountItem(u, x) = CountItem(v, x) + Holds(st[k], x)
          <5>1. CASE x = y
            BY <3>4, <5>1 DEF Holds
          <5>2. CASE x # y
            <6>1. Holds(st[k], x) = 0
              BY <5>2 DEF Holds
            <6> HIDE DEF u
            <6> QED
              BY <3>4, <4>1, <5>2, <6>1
          <5> QED
            BY <5>1, <5>2
        <4>4. Sum(v, k - 1, x) = all(x)
          BY <2>4
        <4>5. Holds(st[k], x) \in Nat
          BY <1>1, StackCounts
        <4> HIDE DEF u, all
        <4> QED
          BY <4>1, <4>2, <4>3, <4>4, <4>5
      <3> HIDE DEF room, Sum, all
      <3> QED
        BY <3>5, <3>6, <3>7
    <2> HIDE DEF good, Good
    <2>5. g[{}] \in good[0]
      BY <1>5, <2>1, <2>2, <2>3
    <2>6. \A k \in 1 .. n : g[1 .. (k - 1)] \in good[k - 1] => g[1 .. k] \in good[k]
      BY <1>5, <2>1, <2>2, <2>4
    <2>7. g[1 .. n] \in good[n]
      BY <1>1, <2>5, <2>6, FoldLeftSteps
    <2>8. Good(w, n)
      BY <1>5, <2>1, <2>2, <2>7
    <2> QED
      BY <1>2, <2>8 DEF Good
  <1> QED
    BY <1>6, <1>7 DEF w, st, n

-----------------------------------------------------------------------------
(* The state stays well formed.                                            *)

LEMMA InitIsGood == Init => OffersGood /\ WealthTypeOK
  <1> SUFFICES ASSUME Init  PROVE OffersGood /\ WealthTypeOK
    OBVIOUS
  <1>1. OffersGood
    BY NoOfferIsGood DEF Init, OffersGood, GoodOffer
  <1>2. PICK owned \in Start : /\ inv = [p \in Player |-> owned[p].inv]
                               /\ gold = [p \in Player |-> owned[p].gold]
    BY DEF Init
  <1>3. owned \in [Player -> [inv : [Slot -> Stack], gold : Nat]]
    BY StartAssumption
  <1>4. WealthTypeOK
    BY <1>2, <1>3 DEF Init, WealthTypeOK, Slots
  <1> QED
    BY <1>1, <1>4

\* A step that leaves the wealth alone, but for who is online.
LEMMA QuietKeepsWealth ==
    ASSUME WealthTypeOK, UNCHANGED <<inv, gold>>, online' \subseteq Player
    PROVE  WealthTypeOK'
  BY DEF WealthTypeOK

\* What the two traders have after a trade that can be completed.
LEMMA CompletedIs ==
    ASSUME IInv, OffersGood, WealthTypeOK, NEW p \in Player, ConfirmCompletes(p)
    PROVE  LET q == Other(p)
           IN  /\ q \in Player /\ q # p
               /\ inv' \in [Player -> Slots] /\ gold' \in [Player -> Nat]
               /\ \A r \in Player \ {p, q} : inv'[r] = inv[r] /\ gold'[r] = gold[r]
               /\ inv'[p] = Receive(Kept(p), Given(q))
               /\ inv'[q] = Receive(Kept(q), Given(p))
               /\ gold'[p] = gold[p] - offer[p].gold + offer[q].gold
               /\ gold'[q] = gold[q] - offer[q].gold + offer[p].gold
               /\ StillThere(p) /\ StillThere(q) /\ HasSpace(p) /\ HasSpace(q)
               /\ Other(q) = p
  <1> DEFINE q == Other(p)
  <1>1. IsInTrade(p) /\ BothConfirmed(p) /\ CanComplete(p, q) /\ CompleteTrade(p)
    BY DEF ConfirmCompletes
  <1>2. q \in Player /\ q # p /\ Other(q) = p
    BY <1>1, PartnersNameEachOther DEF BothConfirmed
  <1>3. /\ StillThere(p) /\ StillThere(q) /\ HasSpace(p) /\ HasSpace(q)
        /\ CanPay(p) /\ CanPay(q)
    BY <1>1 DEF CanComplete
  <1> HIDE DEF q
  <1>4. inv' = [r \in Player |-> IF r \in {p, q}
                                 THEN Receive(Kept(r), Given(IF r = p THEN q ELSE p))
                                 ELSE inv[r]]
    BY <1>1 DEF CompleteTrade, q
  <1>5. gold' = [r \in Player |-> IF r \in {p, q}
                                  THEN gold[r] - offer[r].gold + offer[IF r = p THEN q ELSE p].gold
                                  ELSE gold[r]]
    BY <1>1 DEF CompleteTrade, q
  <1>6. /\ inv'[p] = Receive(Kept(p), Given(q))
        /\ inv'[q] = Receive(Kept(q), Given(p))
    BY <1>2, <1>4
  <1>7. /\ gold'[p] = gold[p] - offer[p].gold + offer[q].gold
        /\ gold'[q] = gold[q] - offer[q].gold + offer[p].gold
    BY <1>2, <1>5
  <1>8. \A r \in Player \ {p, q} : inv'[r] = inv[r] /\ gold'[r] = gold[r]
    BY <1>4, <1>5
  <1>9. inv' \in [Player -> Slots]
    <2>1. inv'[p] \in Slots /\ inv'[q] \in Slots
      BY <1>2, <1>3, <1>6, ReceivedIs
    <2> QED
      BY <1>4, <1>8, <2>1 DEF WealthTypeOK
  <1>10. gold' \in [Player -> Nat]
    <2>1. \A r \in Player : gold[r] \in Nat /\ offer[r].gold \in Nat
      BY DEF WealthTypeOK, OffersGood, Offer
    <2>2. gold'[p] \in Nat /\ gold'[q] \in Nat
      BY <1>2, <1>3, <1>7, <2>1 DEF CanPay
    <2> QED
      BY <1>5, <1>8, <2>1, <2>2
  <1> QED
    BY <1>2, <1>3, <1>6, <1>7, <1>8, <1>9, <1>10 DEF q

\* Every step keeps offers and wealth well formed.
LEMMA NextKeepsGood ==
    ASSUME IInv, OffersGood, WealthTypeOK, [Next]_vars
    PROVE  OffersGood' /\ WealthTypeOK'
  <1> DEFINE Goal == OffersGood' /\ WealthTypeOK'
  <1>1. CASE UNCHANGED vars
    BY <1>1 DEF vars, OffersGood, WealthTypeOK
  <1>2. ASSUME NEW p \in Player, TradeStep(p)  PROVE Goal
    <2>0. GoodOffer(offer[p]) /\ online \subseteq Player /\ inv[p] \in [Slot -> Stack]
      BY DEF OffersGood, WealthTypeOK, Slots
    <2>1. ASSUME NEW q \in Player, OpenTradeWith(p, q)  PROVE Goal
      <3>1. OffersGood'
        BY <2>1, NoOfferIsGood DEF OpenTradeWith, OffersGood, GoodOffer
      <3> QED
        BY <2>0, <2>1, <3>1, QuietKeepsWealth DEF OpenTradeWith
    <2>2. ASSUME NEW s \in Slot, TradeAddItem(p, s)  PROVE Goal
      <3> DEFINE item == [slot |-> s, itemId |-> inv[p][s].itemId,
                          stackCount |-> inv[p][s].stackCount]
      <3>1. PICK t \in TradeSlot : ChangeOffer(p, [offer[p] EXCEPT !.items[t] = item])
        BY <2>2 DEF TradeAddItem
      <3>2. /\ \A u \in TradeSlot : offer[p].items[u].slot # s
            /\ ~ IsEmpty(inv[p][s])
        BY <2>2 DEF TradeAddItem
      <3>3. item \in Goods /\ item.slot = s
        <4>1. inv[p][s] \in Stack
          BY <2>0
        <4>2. inv[p][s].itemId \in Item /\ inv[p][s].stackCount \in Nat \ {0}
          BY <3>2, <4>1, StackIs
        <4> QED
          BY <4>2 DEF Goods
      <3> HIDE DEF item
      <3>4. GoodOffer([offer[p] EXCEPT !.items[t] = item])
        BY <2>0, <3>2, <3>3, NewItemIsGood
      <3>5. OffersGood'
        BY <3>1, <3>4, ChangedIsGood
      <3> QED
        BY <2>0, <2>2, <3>5, QuietKeepsWealth DEF TradeAddItem
    <2>3. ASSUME NEW t \in TradeSlot, TradeRemoveItem(p, t)  PROVE Goal
      <3>1. GoodOffer([offer[p] EXCEPT !.items[t] = NoItem])
        BY <2>0, NewItemIsGood
      <3>2. OffersGood'
        BY <2>3, <3>1, ChangedIsGood DEF TradeRemoveItem
      <3> QED
        BY <2>0, <2>3, <3>2, QuietKeepsWealth DEF TradeRemoveItem
    <2>4. ASSUME NEW amount \in 0 .. gold[p], TradeSetGold(p, amount)  PROVE Goal
      <3>1. amount \in Nat
        BY DEF WealthTypeOK
      <3>2. GoodOffer([offer[p] EXCEPT !.gold = amount])
        BY <2>0, <3>1, NewGoldIsGood
      <3>3. OffersGood'
        BY <2>4, <3>2, ChangedIsGood DEF TradeSetGold
      <3> QED
        BY <2>0, <2>4, <3>3, QuietKeepsWealth DEF TradeSetGold
    <2>5. CASE ToggleConfirm(p)
      <3>1. (~ offer[p].confirmed) \in BOOLEAN
        OBVIOUS
      <3>2. GoodOffer([offer[p] EXCEPT !.confirmed = ~ offer[p].confirmed])
        BY <2>0, <3>1, ConfirmedIsGood
      <3>3. offer' = [offer EXCEPT ![p] = [offer[p] EXCEPT !.confirmed = ~ offer[p].confirmed]]
        BY <2>5 DEF ToggleConfirm
      <3>4. OffersGood'
        BY <3>2, <3>3, OneGoodOffer
      <3> QED
        BY <2>0, <2>5, <3>4, QuietKeepsWealth DEF ToggleConfirm
    <2>6. CASE ConfirmCompletes(p)
      <3>1. OffersGood'
        BY <2>6, ClosingKeepsGood DEF ConfirmCompletes, CompleteTrade
      <3>2. inv' \in [Player -> Slots] /\ gold' \in [Player -> Nat]
        BY <2>6, CompletedIs
      <3>3. online' = online
        BY <2>6 DEF ConfirmCompletes
      <3> QED
        BY <2>0, <3>1, <3>2, <3>3 DEF WealthTypeOK
    <2>7. CASE ConfirmFails(p)
      <3> DEFINE q == Other(p)
                 once == [offer EXCEPT ![p] = [offer[p] EXCEPT !.confirmed = FALSE]]
      <3>1. q \in Player /\ q # p
        BY <2>7, PartnersNameEachOther DEF ConfirmFails, BothConfirmed
      <3>2. offer' = [once EXCEPT ![q] = [once[q] EXCEPT !.confirmed = FALSE]]
        BY <2>7 DEF ConfirmFails
      <3>3. ASSUME NEW r \in Player
            PROVE  GoodOffer(once[r])
        BY <2>0, ConfirmedIsGood DEF OffersGood
      <3>4. once \in [Player -> Offer]
        BY <3>3 DEF OffersGood, GoodOffer
      <3> HIDE DEF once, q
      <3>5. GoodOffer([once[q] EXCEPT !.confirmed = FALSE])
        BY <3>1, <3>3, ConfirmedIsGood
      <3>6. OffersGood'
        BY <3>2, <3>3, <3>4, <3>5 DEF OffersGood, GoodOffer
      <3> QED
        BY <2>0, <2>7, <3>6, QuietKeepsWealth DEF ConfirmFails
    <2>8. CASE TradeCancel(p)
      BY <2>0, <2>8, ClosingKeepsGood, QuietKeepsWealth DEF TradeCancel
    <2> QED
      BY <1>2, <2>1, <2>2, <2>3, <2>4, <2>5, <2>6, <2>7, <2>8 DEF TradeStep
  <1>3. ASSUME NEW p \in Player, OtherStep(p)  PROVE Goal
    <2>0. /\ inv \in [Player -> Slots] /\ inv[p] \in Slots /\ gold[p] \in Nat
          /\ gold \in [Player -> Nat] /\ online \subseteq Player
      BY DEF WealthTypeOK
    <2>1. CASE Login(p)
      BY <2>0, <2>1 DEF Login, sessions, OffersGood, WealthTypeOK
    <2>2. CASE Logout(p)
      <3>1. OffersGood'
        BY <2>2, ClosingKeepsGood DEF Logout, sessions, OffersGood
      <3> QED
        BY <2>0, <2>2, <3>1, QuietKeepsWealth DEF Logout
    <2>3. ASSUME NEW s \in Slot, UseOne(p, s)  PROVE Goal
      <3>1. RemoveItem(inv[p], s, 1) \in Slots
        BY <2>0, RemoveIs
      <3>2. inv' = [inv EXCEPT ![p] = RemoveItem(inv[p], s, 1)]
        BY <2>3 DEF UseOne
      <3> QED
        BY <2>0, <2>3, <3>1, <3>2 DEF UseOne, sessions, OffersGood, WealthTypeOK
    <2>4. ASSUME NEW from \in Slot, NEW to \in Slot, MoveWithin(p, from, to)  PROVE Goal
      <3>1. MoveItem(inv[p], from, to) \in Slots
        BY <2>0, <2>4, MoveIs DEF MoveWithin
      <3>2. inv' = [inv EXCEPT ![p] = MoveItem(inv[p], from, to)]
        BY <2>4 DEF MoveWithin
      <3> QED
        BY <2>0, <2>4, <3>1, <3>2 DEF MoveWithin, sessions, OffersGood, WealthTypeOK
    <2>5. ASSUME NEW from \in Slot, NEW to \in Slot, NEW n \in 1 .. 2,
                 SplitWithin(p, from, to, n)
          PROVE  Goal
      <3>1. SplitStack(inv[p], from, to, n) \in Slots
        BY <2>0, <2>5, SplitIs DEF SplitWithin
      <3>2. inv' = [inv EXCEPT ![p] = SplitStack(inv[p], from, to, n)]
        BY <2>5 DEF SplitWithin
      <3> QED
        BY <2>0, <2>5, <3>1, <3>2 DEF SplitWithin, sessions, OffersGood, WealthTypeOK
    <2>6. ASSUME NEW amount \in 1 .. gold[p], SpendGold(p, amount)  PROVE Goal
      <3>1. gold[p] - amount \in Nat
        BY <2>0
      <3> QED
        BY <2>0, <2>6, <3>1 DEF SpendGold, sessions, OffersGood, WealthTypeOK
    <2> QED
      BY <1>3, <2>1, <2>2, <2>3, <2>4, <2>5, <2>6 DEF OtherStep
  <1> QED
    BY <1>1, <1>2, <1>3 DEF Next

LEMMA TradesStayGood ==
    Spec => [](IInv /\ OffersGood /\ WealthTypeOK)
  <1>1. Init => IInv /\ OffersGood /\ WealthTypeOK
    BY InitAgrees, InitIsGood
  <1>2. IInv /\ OffersGood /\ WealthTypeOK /\ [Next]_vars =>
          IInv' /\ OffersGood' /\ WealthTypeOK'
    BY NextKeepsAgreement, NextKeepsGood
  <1> QED
    BY <1>1, <1>2, PTL DEF Spec

\* The sessions agree and what everybody owns and offers is well formed: no
\* sequence of trades and of moves beside them makes a stack that is over its
\* limit, a negative purse, or an offer of what nobody has a name for.
THEOREM TradesAreAlwaysSound == Spec => []TradesAreSound
  <1>1. IInv /\ OffersGood /\ WealthTypeOK => TradesAreSound
    BY TInvIsTyped DEF TInv
  <1> QED
    BY <1>1, TradesStayGood, PTL

-----------------------------------------------------------------------------
(* A completed trade conserves.                                            *)

LEMMA CompletingConserves ==
    ASSUME IInv, OffersGood, WealthTypeOK, NEW p \in Player, ConfirmCompletes(p)
    PROVE  /\ \A x \in Item : Owned(x, inv') = Owned(x, inv)
           /\ SumFunction(gold') = SumFunction(gold)
  <1> DEFINE q == Other(p)
             Count(v, x) == [r \in Player |-> CountItem(v[r], x)]
  <1>1. /\ q \in Player /\ q # p
        /\ inv' \in [Player -> Slots] /\ gold' \in [Player -> Nat]
        /\ \A r \in Player \ {p, q} : inv'[r] = inv[r] /\ gold'[r] = gold[r]
        /\ inv'[p] = Receive(Kept(p), Given(q))
        /\ inv'[q] = Receive(Kept(q), Given(p))
        /\ gold'[p] = gold[p] - offer[p].gold + offer[q].gold
        /\ gold'[q] = gold[q] - offer[q].gold + offer[p].gold
        /\ StillThere(p) /\ StillThere(q) /\ HasSpace(p) /\ HasSpace(q)
        /\ Other(q) = p
    BY CompletedIs
  <1>2. IsFiniteSet(Player)
    BY PlayerAssumption
  <1> HIDE DEF q
  <1>3. ASSUME NEW x \in Item  PROVE Owned(x, inv') = Owned(x, inv)
    <2>1. /\ CountItem(inv'[p], x) + CountItem(Kept(q), x) =
               CountItem(Kept(p), x) + CountItem(inv[q], x)
          /\ CountItem(inv'[q], x) + CountItem(Kept(p), x) =
               CountItem(Kept(q), x) + CountItem(inv[p], x)
      <3>1. /\ Cardinality(EmptySlots(inv[p])) + Cardinality(Offered(p)) >= Cardinality(Offered(q))
            /\ Cardinality(EmptySlots(inv[q])) + Cardinality(Offered(q)) >= Cardinality(Offered(p))
        BY <1>1 DEF HasSpace, q
      <3>2. \A y \in Item : CountItem(inv'[p], y) + CountItem(Kept(q), y) =
                              CountItem(Kept(p), y) + CountItem(inv[q], y)
        BY <1>1, <3>1, ReceivedIs
      <3>3. \A y \in Item : CountItem(inv'[q], y) + CountItem(Kept(p), y) =
                              CountItem(Kept(q), y) + CountItem(inv[p], y)
        BY <1>1, <3>1, ReceivedIs
      <3> QED
        BY <3>2, <3>3
    <2>2. /\ Kept(p) \in Slots /\ Kept(q) \in Slots
          /\ inv \in [Player -> Slots]
      BY <1>1, StackIs DEF Kept, WealthTypeOK, Slots
    <2>3. Count(inv, x) \in [Player -> Nat] /\ Count(inv', x) \in [Player -> Nat]
      BY <1>1, <2>2, CountIsNat
    <2>4. \A r \in Player : /\ Count(inv, x)[r] = CountItem(inv[r], x)
                            /\ Count(inv', x)[r] = CountItem(inv'[r], x)
      OBVIOUS
    <2>5. Owned(x, inv) = SumFunction(Count(inv, x)) /\ Owned(x, inv') = SumFunction(Count(inv', x))
      BY DEF Owned
    <2>6. /\ CountItem(Kept(p), x) \in Nat /\ CountItem(Kept(q), x) \in Nat
          /\ CountItem(inv[p], x) \in Nat /\ CountItem(inv[q], x) \in Nat
          /\ CountItem(inv'[p], x) \in Nat /\ CountItem(inv'[q], x) \in Nat
      BY <1>1, <2>2, CountIsNat
    <2> HIDE DEF Count
    <2>7. Count(inv', x)[p] + Count(inv', x)[q] = Count(inv, x)[p] + Count(inv, x)[q]
      <3>1. CountItem(inv'[p], x) + CountItem(inv'[q], x) =
              CountItem(inv[p], x) + CountItem(inv[q], x)
        <4> SUFFICES ASSUME NEW a \in Nat, NEW b \in Nat, NEW c \in Nat, NEW d \in Nat,
                            NEW k \in Nat, NEW l \in Nat,
                            a + l = k + c, b + k = l + d
                     PROVE  a + b = c + d
          BY <2>1, <2>6
        <4> QED
          OBVIOUS
      <3>2. /\ Count(inv, x)[p] = CountItem(inv[p], x) /\ Count(inv', x)[p] = CountItem(inv'[p], x)
            /\ Count(inv, x)[q] = CountItem(inv[q], x) /\ Count(inv', x)[q] = CountItem(inv'[q], x)
        BY <1>1, <2>4
      <3> QED
        BY <3>1, <3>2
    <2>8. \A r \in Player \ {p, q} : Count(inv', x)[r] = Count(inv, x)[r]
      BY <1>1, <2>4
    <2> QED
      BY <1>1, <1>2, <2>3, <2>5, <2>7, <2>8, SumOfExchange
  <1>4. SumFunction(gold') = SumFunction(gold)
    <2>1. gold \in [Player -> Nat] /\ offer[p].gold \in Nat /\ offer[q].gold \in Nat
      BY <1>1 DEF WealthTypeOK, OffersGood, Offer
    <2>2. gold'[p] + gold'[q] = gold[p] + gold[q]
      BY <1>1, <2>1
    <2> QED
      BY <1>1, <1>2, <2>1, <2>2, SumOfExchange
  <1> QED
    BY <1>3, <1>4

\* A trade that is completed creates and destroys nothing: what either side
\* gives up arrives on the other in full, whatever became of the inventories
\* since the offers were made, because CanComplete looks at the templates and
\* counts the slots again.
THEOREM TradesAlwaysConserve == Spec => TradeConserves
  <1>1. IInv /\ OffersGood /\ WealthTypeOK =>
          [(\E p \in Player : ConfirmCompletes(p)) =>
             /\ \A x \in Item : Owned(x, inv') = Owned(x, inv)
             /\ SumFunction(gold') = SumFunction(gold)]_vars
    BY CompletingConserves
  <1> QED
    BY <1>1, TradesStayGood, PTL DEF Spec, TradeConserves

-----------------------------------------------------------------------------
(* What is delivered.                                                      *)

\* Kept and shown slots make up an inventory; of each item that was recorded,
\* and of no other, there is some in the shown ones.
LEMMA ShownIs ==
    ASSUME OffersGood, WealthTypeOK, NEW q \in Player, StillThere(q), NEW x \in Item
    PROVE  /\ CountItem(inv[q], x) = CountItem(Kept(q), x) + CountItem(Shown(q), x)
           /\ CountItem(Kept(q), x) \in Nat /\ CountItem(Shown(q), x) \in Nat
           /\ CountItem(Shown(q), x) > 0 <=>
                \E t \in Offered(q) : offer[q].items[t].itemId = x
  <1> DEFINE A == {s \in Slot : \E t \in Offered(q) : offer[q].items[t].slot = s}
             w == Shown(q)
  <1>1. A \in SUBSET Slot /\ inv[q] \in Slots
    BY DEF WealthTypeOK
  <1>2. Shown(q) = Only(inv[q], A) /\ Kept(q) = Only(inv[q], Slot \ A)
    BY DEF Shown, Kept, Only
  <1>3. /\ Shown(q) \in Slots /\ Kept(q) \in Slots
        /\ CountItem(inv[q], x) = CountItem(Shown(q), x) + CountItem(Kept(q), x)
    <2> HIDE DEF A
    <2> QED
      BY <1>1, <1>2, CountParts
  <1>4. CountItem(Shown(q), x) \in Nat /\ CountItem(Kept(q), x) \in Nat
    BY <1>3, CountIsNat
  <1>5. ASSUME NEW t \in Offered(q)
        PROVE  LET s == offer[q].items[t].slot
               IN  s \in Slot /\ w[s] = inv[q][s] /\ w[s].itemId = offer[q].items[t].itemId
    <2>1. offer[q].items[t] \in Goods
      BY DEF Offered, OffersGood, GoodOffer, Offer
    <2>2. offer[q].items[t].slot \in Slot
      BY <2>1 DEF Goods
    <2> QED
      BY <2>2 DEF Shown, StillThere
  <1>6. ASSUME NEW t \in Offered(q), offer[q].items[t].itemId = x
        PROVE  CountItem(w, x) > 0
    <2> DEFINE s == offer[q].items[t].slot
               rest == SumFunctionOnSet([r \in Slot |-> w[r].stackCount], StacksOf(w, x) \ {s})
    <2>1. s \in Slot /\ w[s].itemId = x
      BY <1>5, <1>6
    <2>2. w \in Slots
      BY <1>3
    <2> HIDE DEF w, s
    <2>3. rest \in Nat /\ CountItem(w, x) = Holds(w[s], x) + rest
      BY <2>1, <2>2, CountSplits
    <2> HIDE DEF rest
    <2>4. w[s] \in Stack /\ ~ IsEmpty(w[s])
      BY <2>1, <2>2, StackIs DEF Slots, IsEmpty
    <2>5. w[s].stackCount \in Nat /\ w[s].stackCount >= 1
      BY <2>1, <2>4, StackIs
    <2> QED
      BY <2>1, <2>3, <2>5 DEF Holds
  <1>7. ASSUME \A t \in Offered(q) : offer[q].items[t].itemId # x
        PROVE  CountItem(w, x) = 0
    <2>1. \A s \in Slot : w[s].itemId # x
      <3>1. ASSUME NEW s \in Slot, NEW t \in Offered(q), offer[q].items[t].slot = s
            PROVE  w[s].itemId # x
        BY <1>5, <1>7, <3>1
      <3>2. ASSUME NEW s \in Slot, ~ \E t \in Offered(q) : offer[q].items[t].slot = s
            PROVE  w[s].itemId # x
        BY <3>2, StackIs DEF Shown, EmptyStack
      <3> QED
        BY <3>1, <3>2
    <2>2. StacksOf(w, x) = {}
      BY <2>1 DEF StacksOf
    <2> HIDE DEF w
    <2>3. CountItem(w, x) = SumFunctionOnSet([s \in Slot |-> w[s].stackCount], {})
      BY <2>2 DEF CountItem
    <2> QED
      BY <2>3, SumTake, FS_EmptySet
  <1>8. CountItem(w, x) > 0 <=> \E t \in Offered(q) : offer[q].items[t].itemId = x
    <2> HIDE DEF w
    <2> QED
      BY <1>6, <1>7
  <1> QED
    BY <1>3, <1>4, <1>8

\* A completed trade delivers to both sides.
LEMMA CompletingDelivers ==
    ASSUME IInv, OffersGood, WealthTypeOK, NEW p \in Player, ConfirmCompletes(p)
    PROVE  Delivered(p, Other(p)) /\ Delivered(Other(p), p)
  <1> DEFINE q == Other(p)
  <1>1. /\ q \in Player /\ q # p
        /\ inv' \in [Player -> Slots]
        /\ inv'[p] = Receive(Kept(p), Given(q))
        /\ inv'[q] = Receive(Kept(q), Given(p))
        /\ gold'[p] = gold[p] - offer[p].gold + offer[q].gold
        /\ gold'[q] = gold[q] - offer[q].gold + offer[p].gold
        /\ StillThere(p) /\ StillThere(q) /\ HasSpace(p) /\ HasSpace(q)
        /\ Other(q) = p
    BY CompletedIs
  <1>2. /\ Cardinality(EmptySlots(inv[p])) + Cardinality(Offered(p)) >= Cardinality(Offered(q))
        /\ Cardinality(EmptySlots(inv[q])) + Cardinality(Offered(q)) >= Cardinality(Offered(p))
    BY <1>1 DEF HasSpace
  <1> HIDE DEF q
  <1>3. ASSUME NEW x \in Item
        PROVE  /\ CountItem(inv'[p], x) + CountItem(Shown(p), x) =
                     CountItem(inv[p], x) + CountItem(Shown(q), x)
               /\ CountItem(inv'[q], x) + CountItem(Shown(q), x) =
                     CountItem(inv[q], x) + CountItem(Shown(p), x)
    <2>1. CountItem(inv'[p], x) + CountItem(Kept(q), x) =
            CountItem(Kept(p), x) + CountItem(inv[q], x)
      <3>1. \A y \in Item : CountItem(inv'[p], y) + CountItem(Kept(q), y) =
                              CountItem(Kept(p), y) + CountItem(inv[q], y)
        BY <1>1, <1>2, ReceivedIs
      <3> QED
        BY <3>1
    <2>2. CountItem(inv'[q], x) + CountItem(Kept(p), x) =
            CountItem(Kept(q), x) + CountItem(inv[p], x)
      <3>1. \A y \in Item : CountItem(inv'[q], y) + CountItem(Kept(p), y) =
                              CountItem(Kept(q), y) + CountItem(inv[p], y)
        BY <1>1, <1>2, ReceivedIs
      <3> QED
        BY <3>1
    <2>3. /\ CountItem(inv[p], x) = CountItem(Kept(p), x) + CountItem(Shown(p), x)
          /\ CountItem(inv[q], x) = CountItem(Kept(q), x) + CountItem(Shown(q), x)
          /\ CountItem(Kept(p), x) \in Nat /\ CountItem(Shown(p), x) \in Nat
          /\ CountItem(Kept(q), x) \in Nat /\ CountItem(Shown(q), x) \in Nat
      BY <1>1, ShownIs
    <2>4. CountItem(inv'[p], x) \in Nat /\ CountItem(inv'[q], x) \in Nat
      BY <1>1, CountIsNat
    <2> QED
      BY <2>1, <2>2, <2>3, <2>4
  <1>4. \A x \in Item :
          /\ CountItem(Shown(q), x) > 0 <=> \E t \in Offered(q) : offer[q].items[t].itemId = x
          /\ CountItem(Shown(p), x) > 0 <=> \E t \in Offered(p) : offer[p].items[t].itemId = x
    BY <1>1, ShownIs
  <1>5. Delivered(p, q) /\ Delivered(q, p)
    BY <1>1, <1>3, <1>4 DEF Delivered
  <1> QED
    BY <1>5 DEF q

\* The second confirmation brings each side exactly what the offered slots of
\* the other hold at that moment, and they hold what the record names.
THEOREM TermsAlwaysDelivered == Spec => TermsAreDelivered
  <1>1. IInv /\ OffersGood /\ WealthTypeOK =>
          [\A p \in Player : ConfirmCompletes(p) =>
             Delivered(p, Other(p)) /\ Delivered(Other(p), p)]_vars
    BY CompletingDelivers
  <1> QED
    BY <1>1, TradesStayGood, PTL DEF Spec, TermsAreDelivered

\* What two players agreed on stands while they may still withdraw, and is what
\* changes hands when the second of them confirms.
THEOREM TermsAreAlwaysKept == Spec => TermsAreKept
  BY TermsAlwaysStand, TermsAlwaysDelivered, PTL DEF TermsAreKept
=============================================================================
