----------------------------- MODULE MCIndexed -----------------------------
(***************************************************************************)
(* Instances of IndexedBTree for TLC: keys of one and two bytes, records   *)
(* whose first byte is a unique field and whose second and third byte,     *)
(* which some do not have, are one composite field that is not unique.     *)
(* Both goroutines write, one of them manages the indexes.                 *)
(***************************************************************************)
EXTENDS IndexedBTree

CONSTANTS writer, admin

Roles == [c \in Clients |-> IF c = admin THEN Writes \union Admin ELSE Writes]

OneEach   == <<<< <<1>> >>, << <<1, 2>> >>>>
\* The unique fields of the two keys can clash either way; an update of the
\* first key leaves the other field alone, one of the second adds or drops it.
TwoFields == {<<1>>} \X {<<1, 5, 6>>, <<2, 5, 6>>} \union {<<1, 2>>} \X {<<1, 5, 6>>, <<2>>}
UniqueAndGroup ==
  [email |-> [unique |-> TRUE,  extractor |-> Idx!PrefixExtractor(1)],
   group |-> [unique |-> FALSE,
              extractor |-> Idx!CompositeExtractor(<<Idx!OffsetExtractor(1, 1), Idx!OffsetExtractor(2, 1)>>)]]
=============================================================================
