------------------------------- MODULE MCTrade -------------------------------
(* Trade for TLC: item 1 does not stack, two of item 2 make a full stack.    *)
EXTENDS Trade, TLC

CONSTANTS p1, p2

MCItem == 1 .. 2
MCStackLimit == <<1, 2>>

Of(x, n) == [itemId |-> x, stackCount |-> n, mark |-> FALSE]

\* Every way to share out two endowments.
Shared(e, f) == {[p \in Player |-> IF p = q THEN e ELSE f] : q \in Player}

Rich == [inv |-> [s \in Slot |-> IF s = 0 THEN Of(1, 1) ELSE Of(2, 2)],
         gold |-> 1]
Poor == [inv |-> [s \in Slot |-> EmptyStack], gold |-> 0]

\* One player owns everything at first; trades bring it to the other and back.
MCStart == Shared(Rich, Poor)

MCSymmetry == Permutations(Player)
=============================================================================
