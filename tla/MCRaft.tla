------------------------------- MODULE MCRaft -------------------------------
(***************************************************************************)
(* Small instances of Raft for TLC.                                        *)
(***************************************************************************)
EXTENDS Raft, TLC

CONSTANTS n1, n2, n3, v1

AllConns == {c \in Server \X Server : c[1] # c[2]}

\* n2's client to n1 is still connecting when the first timeout fires
LateConn == AllConns \ {<<n2, n1>>}

Symmetry == Permutations(Server)
=============================================================================
