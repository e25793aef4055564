----------------------------- MODULE MCDurable -----------------------------
(***************************************************************************)
(* Instances of DurableBTree for TLC.                                      *)
(***************************************************************************)
EXTENDS DurableBTree

AllOps  == Operations
Inserts == [op : {"insert"}, key : Keys, value : Values]
NoBulks == {}
\* Bulk inserts of two operations, also on the same key.
Pairs   == {<<p, q>> : p, q \in Inserts}
=============================================================================
