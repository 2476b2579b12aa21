------------------------------ MODULE Election ------------------------------
(***************************************************************************)
(* What the elections of the key-value store promise, without messages,    *)
(* logs, counters or crashes: every node keeps one ballot on disk, the     *)
(* term it has reached and the candidate it supports in it; it confirms a  *)
(* vote to a candidate only while its ballot says so; and a candidate wins *)
(* a term when a majority has confirmed votes for it.                      *)
(*                                                                         *)
(* A ballot may name a candidate nobody has been told about: that is what  *)
(* a crash between two writes leaves behind.                               *)
(***************************************************************************)
EXTENDS Naturals, FiniteSets

CONSTANTS Server, Nil

VARIABLES
    ballot,   \* the term and vote each node has on disk
    granted,  \* votes confirmed to a candidate: <<voter, term, candidate>>
    elected   \* elections won: <<term, node>>

vars == <<ballot, granted, elected>>

Ballot == [term : Nat, vote : Server \cup {Nil}]

\* A majority
Quorum == {Q \in SUBSET Server : 2 * Cardinality(Q) > Cardinality(Server)}

Init ==
    /\ ballot = [i \in Server |-> [term |-> 0, vote |-> Nil]]
    /\ granted = {} /\ elected = {}

\* A ballot moves on to a later term, or from no candidate to one
Later(b, c) ==
    \/ c.term > b.term
    \/ c.term = b.term /\ (b.vote = Nil \/ c = b)

\* A node rewrites its ballot
Rewrite(i) ==
    /\ ballot'[i] \in Ballot
    /\ Later(ballot[i], ballot'[i])
    /\ ballot' = [ballot EXCEPT ![i] = ballot'[i]]

\* ... without telling anybody
Move(i) == Rewrite(i) /\ UNCHANGED <<granted, elected>>

\* ... and confirms the vote it now holds
Grant(i) ==
    /\ Rewrite(i)
    /\ ballot'[i].vote # Nil
    /\ granted' = granted \cup {<<i, ballot'[i].term, ballot'[i].vote>>}
    /\ UNCHANGED elected

\* A candidate whom a majority has confirmed its votes wins
Elect ==
    /\ \E b \in granted, Q \in Quorum :
          /\ \A i \in Q : <<i, b[2], b[3]>> \in granted
          /\ elected' = elected \cup {<<b[2], b[3]>>}
    /\ UNCHANGED <<ballot, granted>>

Next == Elect \/ \E i \in Server : Move(i) \/ Grant(i)

Spec == Init /\ [][Next]_vars

-----------------------------------------------------------------------------

\* No term is won by two nodes.
OneWinner == \A a, b \in elected : a[1] = b[1] => a[2] = b[2]
=============================================================================
