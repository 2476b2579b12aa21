------------------------------ MODULE MCFriends ------------------------------
(***************************************************************************)
(* Small instances of Friends for TLC.                                     *)
(***************************************************************************)
EXTENDS Friends, TLC

CONSTANTS u1, u2

Symmetry == Permutations(User)
=============================================================================
