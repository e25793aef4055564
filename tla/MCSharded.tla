------------------------------ MODULE MCSharded ------------------------------
(***************************************************************************)
(* Instances of ShardedLin for TLC: one client writes, one does everything *)
(* but Clear, one clears.                                                  *)
(***************************************************************************)
EXTENDS ShardedLin

CONSTANTS writer, anyone, clearer, v1, v2

Roles == [c \in Clients |->
  CASE c = writer  -> {"insert", "delete"}
    [] c = anyone  -> Operations \ {"insert", "delete", "clear"}
    [] c = clearer -> {"clear"}]

Modulo     == [k \in Keys |-> 1 + (k % N)]
OneValue   == Keys \X {v1}
WholeRange == {<<1, 2>>}
\* A batch for both shards that has a key twice.
TwiceInOne == {<< <<1, v1>>, <<2, v1>>, <<1, v2>> >>}
=============================================================================
