---------------------------- MODULE MCTradeCrash -----------------------------
(* TradeCrash for TLC: one of two players owns everything at first.          *)
EXTENDS TradeCrash

CONSTANTS p1, p2

MCItem == 1 .. 2
MCStackLimit == <<1, 2>>

Rich == [inv |-> [s \in Slot |->
                    IF s = 0 THEN [itemId |-> 1, stackCount |-> 1, mark |-> FALSE]
                    ELSE EmptyStack],
         gold |-> 1]
Poor == [inv |-> [s \in Slot |-> EmptyStack], gold |-> 0]

MCStart == {[p \in Player |-> IF p = p1 THEN Rich ELSE Poor]}
=============================================================================
