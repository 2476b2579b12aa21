--------------------------- MODULE MCConnectPool ---------------------------
(***************************************************************************)
(* Small instances of ConnectPool for TLC.                                 *)
(***************************************************************************)
EXTENDS ConnectPool, TLC

CONSTANTS c1, c2, c3, c4

Symmetry == Permutations(Client)
=============================================================================
