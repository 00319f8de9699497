------------------------------ MODULE MCMarket -------------------------------
(* Market for TLC: "herbs" gathers item 2 and leaves a choice of rewards;   *)
(* "wolf" follows on it, hands out item 2, wants a kill and item 1, and can *)
(* be repeated.                                                             *)
EXTENDS Market

CONSTANTS herbs, wolf, kill

MCItem == 1 .. 2
MCStackLimit == <<1, 2>>
MCQuest == {herbs, wolf}
MCDeed == {kill}
Reward(x, n) == [item |-> x, count |-> n]
MCTemplate ==
    (herbs :> [minLevel |-> 1, prev |-> {}, needs |-> <<0, 2>>, deeds |-> kill :> 0,
               providedItem |-> 0, rewItem |-> << >>,
               rewChoice |-> <<Reward(1, 1), Reward(2, 2)>>,
               rewMoney |-> 1, rewXp |-> 2, repeatable |-> FALSE])
 @@ (wolf :> [minLevel |-> 2, prev |-> {herbs}, needs |-> <<1, 0>>, deeds |-> kill :> 1,
              providedItem |-> 2, rewItem |-> <<Reward(2, 1)>>, rewChoice |-> << >>,
              rewMoney |-> 0, rewXp |-> 0, repeatable |-> TRUE])
MCExpForLevel == <<1, 1>>
MCSellPrice == <<0, 1>>
MCBuyCostRatio == <<1, 1>>
MCStock == <<1, -1>>
MCDrops == {[gold |-> 1, items |-> <<Reward(1, 2), Reward(2, 1)>>]}
=============================================================================
