--------------------------- MODULE SecondaryIndex ---------------------------
(***************************************************************************)
(* One secondary index (src/bptree/secondary_index.go) as a value: the     *)
(* tree of the index, a map from indexed fields to stored bytes, and the   *)
(* counter of entries.  Each operator is what one lock section of idx.mu   *)
(* does.  Keys, records and fields are sequences of bytes; Nil is the nil  *)
(* slice, a field the record does not have.                                *)
(***************************************************************************)
EXTENDS Integers, Sequences

CONSTANT Nil

Seqs == INSTANCE SequencesExt
Fcns == INSTANCE Functions

(***************************************************************************)
(* Extractors.  Of those in the file the JSON scanner is left out.         *)
(***************************************************************************)
PrefixExtractor(length) == [kind |-> "prefix", offset |-> 0, length |-> length]
OffsetExtractor(offset, length) == [kind |-> "offset", offset |-> offset, length |-> length]
CompositeExtractor(parts) == [kind |-> "composite", parts |-> parts]

\* PutUint32 in little-endian order.
PutUint32(n) == [i \in 1 .. 4 |-> (n \div 256 ^ (i - 1)) % 256]

simple(e, value) ==
  CASE e.kind = "prefix" /\ Len(value) < e.length -> value
    [] e.kind = "offset" /\ Len(value) < e.offset + e.length -> Nil
    [] OTHER -> SubSeq(value, e.offset + 1, e.offset + e.length)

extractor(e, value) ==
  IF e.kind # "composite" THEN simple(e, value)
  ELSE LET part == [i \in DOMAIN e.parts |-> simple(e.parts[i], value)]
       IN  IF part = <<>> \/ \E i \in DOMAIN part : part[i] = Nil THEN Nil
           ELSE Seqs!FlattenSeq([i \in DOMAIN part |-> PutUint32(Len(part[i])) \o part[i]])

(***************************************************************************)
(* The stored list of primary keys: its length, and each key behind its    *)
(* own length.                                                             *)
(***************************************************************************)
encodePrimaryKeys(keys) ==
  PutUint32(Len(keys)) \o Seqs!FlattenSeq([i \in DOMAIN keys |-> PutUint32(Len(keys[i])) \o keys[i]])

\* Uint32 of the four bytes behind offset.
Uint32(data, offset) ==
  data[offset + 1] + 256 * (data[offset + 2] + 256 * (data[offset + 3] + 256 * data[offset + 4]))

\* from[<<count, offset>>]: the keys still to read from offset on.
decodePrimaryKeys(data) ==
  LET from[p \in Nat \X Nat] ==
        IF p[1] = 0 \/ p[2] + 4 > Len(data) THEN <<>>
        ELSE LET end == p[2] + 4 + Uint32(data, p[2])
             IN  IF end > Len(data) THEN <<>>
                 ELSE <<SubSeq(data, p[2] + 5, end)>> \o from[<<p[1] - 1, end>>]
  IN  IF Len(data) < 4 THEN <<>> ELSE from[<<Uint32(data, 0), 4>>]

-----------------------------------------------------------------------------
NewSecondaryIndex(config) ==
  [unique |-> config.unique, extractor |-> config.extractor, tree |-> <<>>, entries |-> 0]

Field(idx, value) == extractor(idx.extractor, value)

\* tree.Find, tree.Insert and tree.Delete of the index's own tree.
Stores(idx, f)    == f \in DOMAIN idx.tree
Put(idx, f, data) == [g \in DOMAIN idx.tree \union {f} |-> IF g = f THEN data ELSE idx.tree[g]]
Drop(idx, f)      == Fcns!Restrict(idx.tree, DOMAIN idx.tree \ {f})

\* The primary keys under a field.
FindAll(idx, f) ==
  IF ~Stores(idx, f) THEN <<>>
  ELSE IF idx.unique THEN <<idx.tree[f]>> ELSE decodePrimaryKeys(idx.tree[f])

\* bytes.Compare(a, b) < 0.
Before(a, b) ==
  \/ Seqs!IsStrictPrefix(a, b)
  \/ \E i \in DOMAIN a \intersect DOMAIN b : a[i] < b[i] /\ \A j \in 1 .. i - 1 : a[j] = b[j]

\* The primary keys under the fields of a range, in the order of the fields.
FindRange(idx, startKey, endKey) ==
  LET fields == Seqs!SetToSortSeq({f \in DOMAIN idx.tree : ~Before(f, startKey) /\ ~Before(endKey, f)}, Before)
  IN  Seqs!FlattenSeq([i \in DOMAIN fields |-> FindAll(idx, fields[i])])

\* Index returns the error "duplicate key in unique index".
Duplicate(idx, value) ==
  LET f == Field(idx, value) IN idx.unique /\ f # Nil /\ Stores(idx, f)

\* Index without that error.
Index(idx, primaryKey, value) ==
  LET f    == Field(idx, value)
      keys == FindAll(idx, f)
      data == IF idx.unique THEN primaryKey ELSE encodePrimaryKeys(Append(keys, primaryKey))
  IN  IF f = Nil \/ primaryKey \in Seqs!ToSet(keys) THEN idx
      ELSE [idx EXCEPT !.tree = Put(idx, f, data), !.entries = @ + 1]

\* Mutant: the rest of the list goes with the key.
RemoveAll(idx, primaryKey, value) ==
  LET f == Field(idx, value)
  IN  IF f = Nil \/ (~idx.unique /\ ~Stores(idx, f)) THEN idx
      ELSE [idx EXCEPT !.tree = Drop(idx, f), !.entries = IF @ > 0 THEN @ - 1 ELSE 0]

Remove(idx, primaryKey, value) ==
  LET f       == Field(idx, value)
      newKeys == SelectSeq(FindAll(idx, f), LAMBDA k : k # primaryKey)
      tree    == IF idx.unique \/ newKeys = <<>> THEN Drop(idx, f)
                 ELSE Put(idx, f, encodePrimaryKeys(newKeys))
  IN  IF f = Nil \/ (~idx.unique /\ ~Stores(idx, f)) THEN idx
      ELSE [idx EXCEPT !.tree = tree, !.entries = IF @ > 0 THEN @ - 1 ELSE 0]

Clear(idx) == [idx EXCEPT !.tree = <<>>, !.entries = 0]

=============================================================================
