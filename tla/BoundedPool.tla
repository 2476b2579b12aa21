---------------------------- MODULE BoundedPool ----------------------------
(***************************************************************************)
(* What a connection pool promises to its users, without queue, counters,  *)
(* producer, reaper or time: it owns between Least and Most connections,   *)
(* lends no connection twice, opens another only when all of them are lent *)
(* and closes only what is not lent.                                       *)
(***************************************************************************)
EXTENDS Integers, FiniteSets

CONSTANTS Client, Least, Most

VARIABLES
    total,  \* connections the pool owns
    lent    \* clients that have one of them

vars == <<total, lent>>

Init == total = Least /\ lent = {}

Lend(c) ==
    /\ c \notin lent /\ Cardinality(lent) < total
    /\ lent' = lent \cup {c}
    /\ UNCHANGED total

Return(c) ==
    /\ c \in lent
    /\ lent' = lent \ {c}
    /\ UNCHANGED total

Grow ==
    /\ Cardinality(lent) = total /\ total < Most
    /\ total' = total + 1
    /\ UNCHANGED lent

Shrink ==
    /\ total' \in Int /\ total' < total
    /\ Least <= total' /\ Cardinality(lent) <= total'
    /\ UNCHANGED lent

Next == Grow \/ Shrink \/ \E c \in Client : Lend(c) \/ Return(c)

Spec == Init /\ [][Next]_vars
=============================================================================
