-------------------------------- MODULE Trade --------------------------------
(***************************************************************************)
(* TradeManager and TradeSession: two players put items and gold into a    *)
(* session, each confirms, and the second confirmation carries the trade   *)
(* out.  Nothing stops either of them from using their inventory and gold  *)
(* elsewhere meanwhile, so the moves of other handlers are actions here.   *)
(* A session is known by the player who opened it.                         *)
(***************************************************************************)
EXTENDS Inventory

CONSTANTS
    Player, NoPlayer,
    TRADE_SLOTS,    \* PlayerDefines::Trade::MaxSlots
    Start           \* what the characters may own in the database

ASSUME PlayerAssumption == NoPlayer \notin Player /\ IsFiniteSet(Player)
ASSUME TradeSlotsAssumption == TRADE_SLOTS \in Nat \ {0}
ASSUME StartAssumption ==
    Start \subseteq [Player -> [inv : [Slot -> Stack], gold : Nat]]

VARIABLES
    online,     \* players in the world
    inv,        \* inv[p]: the inventory of p
    gold,       \* gold[p]: m_gold of p
    sessionOf,  \* m_playerSessions: the session p is in
    target,     \* m_sessions: the target of the session that p opened
    offer       \* offer[p]: what p has put into the session it is in

vars == <<online, inv, gold, sessionOf, target, offer>>
sessions == <<sessionOf, target, offer>>

TradeSlot == 0 .. TRADE_SLOTS - 1

NoItem == [slot |-> INVALID_SLOT, itemId |-> 0, stackCount |-> 0]

Goods == [itemId : Item, slot : Slot, stackCount : Nat \ {0}]

NoOffer == [items |-> [t \in TradeSlot |-> NoItem], gold |-> 0, confirmed |-> FALSE]

TypeOK ==
    /\ online \subseteq Player
    /\ inv \in [Player -> [Slot -> Stack]]
    /\ gold \in [Player -> Nat]
    /\ sessionOf \in [Player -> Player \cup {NoPlayer}]
    /\ target \in [Player -> Player \cup {NoPlayer}]
    /\ offer \in [Player -> [items : [TradeSlot -> Goods \cup {NoItem}],
                             gold : Nat, confirmed : BOOLEAN]]

Init ==
    /\ online = {}
    /\ \E owned \in Start :
         /\ inv = [p \in Player |-> owned[p].inv]
         /\ gold = [p \in Player |-> owned[p].gold]
    /\ sessionOf = [p \in Player |-> NoPlayer]
    /\ target = [p \in Player |-> NoPlayer]
    /\ offer = [p \in Player |-> NoOffer]

-----------------------------------------------------------------------------
(* Helpers.                                                                *)

IsInTrade(p) == sessionOf[p] # NoPlayer

\* getOtherPlayer; a player who trades with themselves is their own partner.
Other(p) == IF sessionOf[p] = p THEN target[p] ELSE sessionOf[p]

Offered(p) == {t \in TradeSlot : offer[p].items[t] # NoItem}

\* Faulty variant: the partner's mapping is left behind.
FaultyCloseSession(p) ==
    /\ sessionOf' = [sessionOf EXCEPT ![p] = NoPlayer]
    /\ target' = [target EXCEPT ![sessionOf[p]] = NoPlayer]
    /\ offer' = [q \in Player |-> IF q \in {p, Other(p)} THEN NoOffer ELSE offer[q]]

\* Both players are unmapped and the session, with its offers, is destroyed.
CloseSession(p) ==
    /\ sessionOf' = [q \in Player |-> IF q \in {p, Other(p)} THEN NoPlayer ELSE sessionOf[q]]
    /\ target' = [target EXCEPT ![sessionOf[p]] = NoPlayer]
    /\ offer' = [q \in Player |-> IF q \in {p, Other(p)} THEN NoOffer ELSE offer[q]]

\* Faulty variant: only one's own confirmation is reset.
FaultyChangeOffer(p, new) ==
    offer' = [offer EXCEPT ![p] = [new EXCEPT !.confirmed = FALSE]]

\* A changed offer resets both confirmations.
ChangeOffer(p, new) ==
    offer' = [q \in Player |->
                IF q \in {p, Other(p)}
                THEN [(IF q = p THEN new ELSE offer[q]) EXCEPT !.confirmed = FALSE]
                ELSE offer[q]]

-----------------------------------------------------------------------------
(* Completing a trade between a and b.                                     *)

CanPay(p) == gold[p] >= offer[p].gold

\* The slots p gives away count as free.
HasSpace(p) ==
    Cardinality(EmptySlots(inv[p])) + Cardinality(Offered(p)) >= Cardinality(Offered(Other(p)))

\* Faulty variant: any item will do.
FaultyStillThere(p) == \A t \in Offered(p) : ~ IsEmpty(inv[p][offer[p].items[t].slot])

\* Only the template of an offered item is looked at again, not its count.
StillThere(p) ==
    \A t \in Offered(p) : inv[p][offer[p].items[t].slot].itemId = offer[p].items[t].itemId

\* Faulty variant: the space is not checked.
FaultyCanComplete(a, b) ==
    \A p \in {a, b} : CanPay(p) /\ StillThere(p)

CanComplete(a, b) ==
    \A p \in {a, b} : CanPay(p) /\ HasSpace(p) /\ StillThere(p)

\* The stacks that leave p, in the order of the trade slots.
Given(p) ==
    LET order == Ascending(Offered(p))
    IN  [i \in DOMAIN order |-> inv[p][offer[p].items[order[i]].slot]]

Kept(p) ==
    [s \in Slot |-> IF \E t \in Offered(p) : offer[p].items[t].slot = s
                    THEN EmptyStack ELSE inv[p][s]]

\* Items arrive through addItem, as fresh items of their template.
Receive(own, stacks) ==
    FoldLeft(LAMBDA v, stack : AddItem(v, stack.itemId, stack.stackCount), own, stacks)

CompleteTrade(p) ==
    LET other(q) == IF q = p THEN Other(p) ELSE p
    IN  /\ inv' = [q \in Player |->
                     IF q \in {p, Other(p)} THEN Receive(Kept(q), Given(other(q)))
                     ELSE inv[q]]
        /\ gold' = [q \in Player |->
                      IF q \in {p, Other(p)}
                      THEN gold[q] - offer[q].gold + offer[other(q)].gold
                      ELSE gold[q]]
        /\ CloseSession(p)

-----------------------------------------------------------------------------
(* The trade handlers.                                                     *)

OpenTradeWith(p, q) ==
    /\ p \in online /\ q \in online
    /\ ~ IsInTrade(p) /\ ~ IsInTrade(q)
    /\ sessionOf' = [sessionOf EXCEPT ![p] = p, ![q] = p]
    /\ target' = [target EXCEPT ![p] = q]
    /\ offer' = [offer EXCEPT ![p] = NoOffer, ![q] = NoOffer]
    /\ UNCHANGED <<online, inv, gold>>

TradeAddItem(p, s) ==
    /\ IsInTrade(p)
    /\ \A t \in TradeSlot : offer[p].items[t].slot # s
    /\ ~ IsEmpty(inv[p][s])
    /\ \E t \in TradeSlot \ Offered(p) :
         /\ \A u \in TradeSlot \ Offered(p) : t <= u
         /\ ChangeOffer(p, [offer[p] EXCEPT !.items[t] =
                              [slot |-> s, itemId |-> inv[p][s].itemId,
                               stackCount |-> inv[p][s].stackCount]])
    /\ UNCHANGED <<online, inv, gold, sessionOf, target>>

\* An empty trade slot can be "removed" as well: its itemGuid is 0.
TradeRemoveItem(p, t) ==
    /\ IsInTrade(p)
    /\ ChangeOffer(p, [offer[p] EXCEPT !.items[t] = NoItem])
    /\ UNCHANGED <<online, inv, gold, sessionOf, target>>

\* The amount is cut to what the player has now.
TradeSetGold(p, amount) ==
    /\ IsInTrade(p)
    /\ ChangeOffer(p, [offer[p] EXCEPT !.gold = amount])
    /\ UNCHANGED <<online, inv, gold, sessionOf, target>>

\* getOfferIndex finds a self-trader's first offer only: the second one never
\* becomes confirmed.
BothConfirmed(p) == ~ offer[p].confirmed /\ Other(p) # p /\ offer[Other(p)].confirmed

\* Confirm is a toggle; it completes the trade when both have confirmed, and a
\* trade that cannot be completed loses both confirmations.
ToggleConfirm(p) ==
    /\ IsInTrade(p)
    /\ ~ BothConfirmed(p)
    /\ offer' = [offer EXCEPT ![p].confirmed = ~ @]
    /\ UNCHANGED <<online, inv, gold, sessionOf, target>>

ConfirmCompletes(p) ==
    /\ IsInTrade(p)
    /\ BothConfirmed(p)
    /\ CanComplete(p, Other(p))
    /\ CompleteTrade(p)
    /\ UNCHANGED online

ConfirmFails(p) ==
    /\ IsInTrade(p)
    /\ BothConfirmed(p)
    /\ ~ CanComplete(p, Other(p))
    /\ offer' = [offer EXCEPT ![p].confirmed = FALSE, ![Other(p)].confirmed = FALSE]
    /\ UNCHANGED <<online, inv, gold, sessionOf, target>>

TradeCancel(p) ==
    /\ IsInTrade(p)
    /\ CloseSession(p)
    /\ UNCHANGED <<online, inv, gold>>

-----------------------------------------------------------------------------
(* The rest of the server, as far as it touches what is traded.            *)

Login(p) ==
    /\ p \notin online
    /\ online' = online \cup {p}
    /\ UNCHANGED <<inv, gold, sessions>>

\* Session::clearPlayer cancels the trade of a player who leaves.
Logout(p) ==
    /\ p \in online
    /\ online' = online \ {p}
    /\ IF IsInTrade(p) THEN CloseSession(p) ELSE UNCHANGED sessions
    /\ UNCHANGED <<inv, gold>>

\* Use, destroy, move and split are handled whether or not the player trades.
UseOne(p, s) ==
    /\ p \in online
    /\ ~ IsEmpty(inv[p][s])
    /\ inv' = [inv EXCEPT ![p] = RemoveItem(@, s, 1)]
    /\ UNCHANGED <<online, gold, sessions>>

MoveWithin(p, from, to) ==
    /\ p \in online
    /\ CanMove(inv[p], from)
    /\ inv' = [inv EXCEPT ![p] = MoveItem(@, from, to)]
    /\ UNCHANGED <<online, gold, sessions>>

SplitWithin(p, from, to, n) ==
    /\ p \in online
    /\ CanSplit(inv[p], from, to, n)
    /\ inv' = [inv EXCEPT ![p] = SplitStack(@, from, to, n)]
    /\ UNCHANGED <<online, gold, sessions>>

\* A respec costs gold.
SpendGold(p, amount) ==
    /\ p \in online
    /\ gold[p] >= amount
    /\ gold' = [gold EXCEPT ![p] = @ - amount]
    /\ UNCHANGED <<online, inv, sessions>>

TradeStep(p) ==
    \/ \E q \in Player : OpenTradeWith(p, q)
    \/ \E s \in Slot : TradeAddItem(p, s)
    \/ \E t \in TradeSlot : TradeRemoveItem(p, t)
    \/ \E amount \in 0 .. gold[p] : TradeSetGold(p, amount)
    \/ ToggleConfirm(p)
    \/ ConfirmCompletes(p)
    \/ ConfirmFails(p)
    \/ TradeCancel(p)

OtherStep(p) ==
    \/ Login(p)
    \/ Logout(p)
    \/ \E s \in Slot : UseOne(p, s)
    \/ \E from, to \in Slot : MoveWithin(p, from, to)
    \/ \E from, to \in Slot, n \in 1 .. 2 : SplitWithin(p, from, to, n)
    \/ \E amount \in 1 .. gold[p] : SpendGold(p, amount)

Next == \E p \in Player : TradeStep(p) \/ OtherStep(p)

Spec == Init /\ [][Next]_vars

-----------------------------------------------------------------------------

\* m_playerSessions and m_sessions agree: a session is mapped by exactly its two
\* players, both of whom are in the world, so that no session holds a pointer
\* to a deleted Player and no mapping leads to a deleted session.
SessionsAgree ==
    /\ \A p \in Player : IsInTrade(p) =>
         /\ target[sessionOf[p]] # NoPlayer
         /\ p \in {sessionOf[p], target[sessionOf[p]]}
         /\ p \in online
    /\ \A p \in Player : target[p] # NoPlayer =>
         sessionOf[p] = p /\ sessionOf[target[p]] = p

\* The state is well formed and the sessions agree, whoever logs out, opens,
\* cancels or completes a trade in between.
TradesAreSound == TypeOK /\ SessionsAgree

Owned(x, invs) ==
    SumFunction([p \in Player |-> CountItem(invs[p], x)])

\* Completing a trade neither creates nor destroys items or gold, whatever the
\* two players did with their inventories after they made their offers.
TradeConserves ==
    [][(\E p \in Player : ConfirmCompletes(p)) =>
         /\ \A x \in Item : Owned(x, inv') = Owned(x, inv)
         /\ SumFunction(gold') = SumFunction(gold)]_vars

\* The offered slots as they are now, and no others.
Shown(p) ==
    [s \in Slot |-> IF \E t \in Offered(p) : offer[p].items[t].slot = s
                    THEN inv[p][s] ELSE EmptyStack]

\* While a session is open, no recorded offer of it changes without both
\* confirmations being withdrawn.
TermsStandOnceConfirmed ==
    [][\A p \in Player :
         /\ IsInTrade(p) /\ sessionOf'[p] = sessionOf[p]
         /\ <<offer'[p].items, offer'[p].gold>> # <<offer[p].items, offer[p].gold>>
         => ~ offer'[p].confirmed /\ ~ offer'[Other(p)].confirmed]_vars

\* p receives from q the recorded gold, and of each item exactly what the
\* offered slots of q hold now, be it less or more than was recorded: some of
\* every item that was recorded, and of no other.
Delivered(p, q) ==
    /\ gold'[p] = gold[p] - offer[p].gold + offer[q].gold
    /\ \A x \in Item :
         /\ CountItem(inv'[p], x) + CountItem(Shown(p), x) =
              CountItem(inv[p], x) + CountItem(Shown(q), x)
         /\ CountItem(Shown(q), x) > 0 <=>
              \E t \in Offered(q) : offer[q].items[t].itemId = x

TermsAreDelivered ==
    [][\A p \in Player : ConfirmCompletes(p) =>
         Delivered(p, Other(p)) /\ Delivered(Other(p), p)]_vars

\* The terms of a trade are kept: no recorded offer is altered under a
\* confirmation, and a completed trade brings either side the gold and the items
\* that were recorded, though the count of an offered stack is whatever its
\* owner's other handlers have made of it since.
TermsAreKept == TermsStandOnceConfirmed /\ TermsAreDelivered
=============================================================================
