------------------------------- MODULE SaveLog -------------------------------
(***************************************************************************)
(* What a background saver promises its caller: a save that is handed over *)
(* is performed, once, and in the order of handing over but for one: two   *)
(* threads perform, and the one may be at a save while the other goes on.  *)
(***************************************************************************)
EXTENDS Sequences, Integers

CONSTANT Op

VARIABLES
    accepted,   \* the saves handed over, in that order
    log         \* the saves performed, in the order they were

Handed == {accepted[i] : i \in 1 .. Len(accepted)}

Performed == {log[i] : i \in 1 .. Len(log)}

\* Of the saves handed over before the i-th no two are still to be performed.
AtMostOneBehind(i) ==
    \A j, k \in 1 .. i - 1 :
        accepted[j] \notin Performed /\ accepted[k] \notin Performed => j = k

Init == accepted = <<>> /\ log = <<>>

Accept(op) ==
    /\ op \in Op \ Handed
    /\ accepted' = Append(accepted, op)
    /\ UNCHANGED log

Perform(op) ==
    /\ op \notin Performed
    /\ \E i \in 1 .. Len(accepted) : accepted[i] = op /\ AtMostOneBehind(i)
    /\ log' = Append(log, op)
    /\ UNCHANGED accepted

Next == \E op \in Op : Accept(op) \/ Perform(op)

Spec == Init /\ [][Next]_<<accepted, log>>
=============================================================================
