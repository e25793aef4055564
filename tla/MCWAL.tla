------------------------------- MODULE MCWAL -------------------------------
(***************************************************************************)
(* Instances of WAL for TLC.  The log never looks at the operations it     *)
(* stores, so one is enough.                                               *)
(***************************************************************************)
EXTENDS WAL

OneInsert == [op : {"insert"}, key : Keys, value : Values]
=============================================================================
