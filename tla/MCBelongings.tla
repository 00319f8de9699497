---------------------------- MODULE MCBelongings -----------------------------
(* Belongings for TLC: item 1 is a ring, item 2 stacks.                     *)
EXTENDS Belongings

MCItem == 1 .. 2
MCStackLimit == <<1, 2>>
MCEquipSlot == {"Ring1"}
MCFitsIn == <<MCEquipSlot, {}>>
=============================================================================
