----------------------------- MODULE MCFullSync -----------------------------
(***************************************************************************)
(* An instance of FullSync for TLC: two threads, three shards of one or    *)
(* two ids, two of which fail.                                             *)
(***************************************************************************)
EXTENDS FullSync, TLC

MCShards == <<<<1, 2>>, <<3, 3>>, <<4, 4>>>>
=============================================================================
