---------------------------- MODULE MCThreadPool ----------------------------
(***************************************************************************)
(* Small instances of ThreadPool for TLC.                                  *)
(***************************************************************************)
EXTENDS ThreadPool

CONSTANTS t1, t2, t3, t4, w1, w2, w3
=============================================================================
