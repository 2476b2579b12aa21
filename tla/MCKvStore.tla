----------------------------- MODULE MCKvStore -----------------------------
(***************************************************************************)
(* Small instances of KvStore for TLC.                                     *)
(***************************************************************************)
EXTENDS KvStore

CONSTANTS n1, n2, n3, k1, d1

AllConns == {c \in Server \X Server : c[1] # c[2]}
=============================================================================
