-------------------------------- MODULE Node --------------------------------
(***************************************************************************)
(* A node of the B-tree and the operations on one node and its children    *)
(* (src/bptree/node.go and the split, borrow and merge code of             *)
(* src/bptree/btree.go).  A node is a record of parallel sequences; where  *)
(* the code mutates a node through a pointer the operator returns the new  *)
(* node.  Keys are integers: bytes.Compare is their order.  Go slices      *)
(* count from 0 and TLA+ sequences from 1, so every position here is the   *)
(* code's plus one, and the code's "no child" position -1 is 0.            *)
(***************************************************************************)
EXTENDS Integers, Sequences, SequencesExt, FiniteSetsExt

CONSTANT MaxKeys    \* the code fixes 4; smaller values give deeper trees

ASSUME MaxKeysAssumption == MaxKeys \in Nat /\ MaxKeys >= 2

MinKeys == MaxKeys \div 2

\* A node without keys; the root pointer nil is modelled in BTree.
NewNode(isleaf) ==
  [keys |-> <<>>, values |-> <<>>, children |-> <<>>, isleaf |-> isleaf]

\* The first position whose key is not below key, one past the end if none.
findindex(node, key) ==
  LET above == {i \in DOMAIN node.keys : node.keys[i] >= key}
  IN  IF above = {} THEN Len(node.keys) + 1 ELSE Min(above)

\* The position findindex returns holds the key itself.
HoldsAt(node, pos, key) ==
  pos <= Len(node.keys) /\ node.keys[pos] = key

insertAt(node, pos, key, value) ==
  [node EXCEPT !.keys   = InsertAt(@, pos, key),
               !.values = InsertAt(@, pos, value)]

insertChildAt(node, pos, child) ==
  [node EXCEPT !.children = InsertAt(@, pos, child)]

removeAt(node, pos) ==
  [node EXCEPT !.keys   = RemoveAt(@, pos),
               !.values = RemoveAt(@, pos)]

\* Split a full node around the median of its keys and the new one.  The
\* median moves up with its value, child enters the children at childPos.
splitNodeSimple(node, key, value, childPos, child) ==
  LET at  == findindex(node, key)
      ks  == InsertAt(node.keys, at, key)
      vs  == InsertAt(node.values, at, value)
      cs  == IF childPos > 0 THEN InsertAt(node.children, childPos, child)
                             ELSE node.children
      mid == Len(ks) \div 2 + 1
      half(lo, hi, chlo, chhi) ==
        [NewNode(node.isleaf) EXCEPT
           !.keys     = SubSeq(ks, lo, hi),
           !.values   = SubSeq(vs, lo, hi),
           !.children = IF node.isleaf THEN <<>> ELSE SubSeq(cs, chlo, chhi)]
  IN  [midKey   |-> ks[mid],
       midValue |-> vs[mid],
       left     |-> half(1, mid - 1, 1, mid),
       right    |-> half(mid + 1, Len(ks), mid + 1, Len(cs))]

\* fillChildAt, first case: the separator moves down in front of child pos,
\* the last key of the left sibling moves up, its last child moves across.
borrowLeft(n, pos) ==
  LET left  == n.children[pos - 1]
      right == n.children[pos]
      across == IF right.isleaf THEN <<>> ELSE <<Last(left.children)>>
  IN  [n EXCEPT
        !.keys     = ReplaceAt(@, pos - 1, Last(left.keys)),
        !.values   = ReplaceAt(@, pos - 1, Last(left.values)),
        !.children =
          [@ EXCEPT
             ![pos - 1] = [left EXCEPT
                !.keys = Front(@), !.values = Front(@),
                !.children = IF right.isleaf THEN @ ELSE Front(@)],
             ![pos] = [right EXCEPT
                !.keys = <<n.keys[pos - 1]>> \o @,
                !.values = <<n.values[pos - 1]>> \o @,
                !.children = across \o @]]]

\* Mutant: the separator goes down to the left child and stays in the parent.
borrowRightKeepsSeparator(n, pos) ==
  LET left  == n.children[pos]
      right == n.children[pos + 1]
      across == IF left.isleaf THEN <<>> ELSE <<Head(right.children)>>
  IN  [n EXCEPT
        !.children =
          [@ EXCEPT
             ![pos] = [left EXCEPT
                !.keys = Append(@, n.keys[pos]),
                !.values = Append(@, n.values[pos]),
                !.children = @ \o across],
             ![pos + 1] = [right EXCEPT
                !.keys = Tail(@), !.values = Tail(@),
                !.children = IF left.isleaf THEN @ ELSE Tail(@)]]]

\* fillChildAt, second case: the mirror image with the right sibling.
borrowRight(n, pos) ==
  LET left  == n.children[pos]
      right == n.children[pos + 1]
      across == IF left.isleaf THEN <<>> ELSE <<Head(right.children)>>
  IN  [n EXCEPT
        !.keys     = ReplaceAt(@, pos, Head(right.keys)),
        !.values   = ReplaceAt(@, pos, Head(right.values)),
        !.children =
          [@ EXCEPT
             ![pos] = [left EXCEPT
                !.keys = Append(@, n.keys[pos]),
                !.values = Append(@, n.values[pos]),
                !.children = @ \o across],
             ![pos + 1] = [right EXCEPT
                !.keys = Tail(@), !.values = Tail(@),
                !.children = IF left.isleaf THEN @ ELSE Tail(@)]]]

\* fillChildAt, default case: child p, separator p and child p+1 become one.
mergeChildren(n, p) ==
  LET left  == n.children[p]
      right == n.children[p + 1]
  IN  [n EXCEPT
        !.keys     = RemoveAt(@, p),
        !.values   = RemoveAt(@, p),
        !.children =
          RemoveAt(ReplaceAt(@, p,
             [left EXCEPT !.keys     = Append(@, n.keys[p]) \o right.keys,
                          !.values   = Append(@, n.values[p]) \o right.values,
                          !.children = IF left.isleaf THEN @ ELSE @ \o right.children]),
             p + 1)]

\* Mutant: a sibling that has only the minimum itself gives a key away.
fillBorrowsAtMinimum(n, pos) ==
  IF pos > 1 /\ Len(n.children[pos - 1].keys) >= MinKeys
  THEN borrowLeft(n, pos)
  ELSE IF pos < Len(n.children) /\ Len(n.children[pos + 1].keys) >= MinKeys
  THEN borrowRight(n, pos)
  ELSE mergeChildren(n, Min({pos, Len(n.keys)}))

\* Bring child pos, one key short, back to the minimum.
fillChildAt(n, pos) ==
  IF pos > 1 /\ Len(n.children[pos - 1].keys) > MinKeys
  THEN borrowLeft(n, pos)
  ELSE IF pos < Len(n.children) /\ Len(n.children[pos + 1].keys) > MinKeys
  THEN borrowRight(n, pos)
  ELSE mergeChildren(n, Min({pos, Len(n.keys)}))

=============================================================================
