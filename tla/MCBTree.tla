------------------------------ MODULE MCBTree ------------------------------
(***************************************************************************)
(* Instances of BTree for TLC.  Each key is stored with itself as its      *)
(* value, as the tests of the repository do, so a value that loses its key *)
(* shows; some keys are also stored with another value.                    *)
(***************************************************************************)
EXTENDS BTree

OneUpdate == {<<k, k>> : k \in Keys} \union {<<4, 0>>}
AnyValue  == Keys \X Values
\* A proper range, and one with its ends swapped.
TwoRanges == {<<3, 5>>, <<4, 3>>}
NoRanges  == {}
=============================================================================
