--------------------------- MODULE MCShardManager ---------------------------
(***************************************************************************)
(* Small instances of ShardManager for TLC.                                *)
(***************************************************************************)
EXTENDS ShardManager
=============================================================================
