-------------------------- MODULE MCSnapshotSync --------------------------
(* Two writes are enough to tear a load (one before and one after a query),    *)
(* one outage to hit any query of a load.                                      *)
EXTENDS SnapshotSync, TLC
=============================================================================
