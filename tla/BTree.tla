-------------------------------- MODULE BTree --------------------------------
(***************************************************************************)
(* One Btree (src/bptree/btree.go, src/bptree/iterator.go): the root       *)
(* pointer and the operations on it.  Every operation holds treeLock from  *)
(* its first to its last statement, so each is one action; DeleteRange     *)
(* takes the lock once for its snapshot and once per key, so it is one     *)
(* action per lock section and other operations run in between.            *)
(***************************************************************************)
EXTENDS Node, TLC

CONSTANTS
  Keys, Values,  \* the keys are integers
  Pairs,         \* the key-value pairs clients insert
  Ranges,        \* the <<startKey, endKey>> clients pass to DeleteRange
  Reinsert,      \* clients also insert keys that an internal node holds
  MaxEntries     \* bound: no Insert when the tree has this many entries

ASSUME BTreeAssumption ==
  /\ Keys \subseteq Int
  /\ Pairs \subseteq Keys \X Values
  /\ Ranges \subseteq Keys \X Keys
  /\ Reinsert \in BOOLEAN
  /\ MaxEntries \in Nat

VARIABLES
  root,          \* <<>> for nil, otherwise <<node>>
  sweep,         \* the keys a running DeleteRange has still to delete
  swept          \* history: the keys it deleted that no Insert stored again

vars == <<root, sweep, swept>>

NotFound == [found |-> FALSE]

RECURSIVE find(_, _)
find(node, key) ==
  LET pos == findindex(node, key)
  IN  CASE HoldsAt(node, pos, key) -> [found |-> TRUE, value |-> node.values[pos]]
        [] ~HoldsAt(node, pos, key) /\ node.isleaf -> NotFound
        [] OTHER -> find(node.children[pos], key)

Find(key) == IF root = <<>> THEN NotFound ELSE find(root[1], key)

\* What the insertion into a subtree hands to the parent: the subtree, and the
\* promoted median with the new right node when the subtree's top was split.
Kept(node)   == [node |-> node, up |-> <<>>]
Split(s)     == [node |-> s.left, up |-> <<[key |-> s.midKey, value |-> s.midValue, right |-> s.right]>>]

\* Mutant: a full leaf becomes an internal node in place, nothing is promoted.
insertLeafGrowsInPlace(node, key, value) ==
  LET idx == findindex(node, key)
      s   == splitNodeSimple(node, key, value, 0, node)
  IN  IF HoldsAt(node, idx, key)
      THEN Kept([node EXCEPT !.values[idx] = value])
      ELSE IF Len(node.keys) < MaxKeys
      THEN Kept(insertAt(node, idx, key, value))
      ELSE Kept([keys |-> <<s.midKey>>, values |-> <<s.midValue>>,
                 children |-> <<s.left, s.right>>, isleaf |-> FALSE])

insertLeaf(node, key, value) ==
  LET idx == findindex(node, key)
  IN  IF HoldsAt(node, idx, key)
      THEN Kept([node EXCEPT !.values[idx] = value])
      ELSE IF Len(node.keys) < MaxKeys
      THEN Kept(insertAt(node, idx, key, value))
      ELSE Split(splitNodeSimple(node, key, value, 0, node))

\* Mutant: the new right node goes to the left of the child that was split.
propagateLeft(parent, up) ==
  LET childIdx == findindex(parent, up.key)
  IN  IF Len(parent.keys) < MaxKeys
      THEN Kept(insertChildAt(insertAt(parent, childIdx, up.key, up.value), childIdx, up.right))
      ELSE Split(splitNodeSimple(parent, up.key, up.value, childIdx, up.right))

\* The way up: parent receives the median of its split child.  The position
\* comes from the median, not from the descent.
propagate(parent, up) ==
  LET childIdx == findindex(parent, up.key)
  IN  IF Len(parent.keys) < MaxKeys
      THEN Kept(insertChildAt(insertAt(parent, childIdx, up.key, up.value), childIdx + 1, up.right))
      ELSE Split(splitNodeSimple(parent, up.key, up.value, childIdx + 1, up.right))

\* The way down follows findindex and never compares with the keys it passes.
RECURSIVE insertInto(_, _, _)
insertInto(node, key, value) ==
  IF node.isleaf THEN insertLeaf(node, key, value)
  ELSE LET idx    == findindex(node, key)
           below  == insertInto(node.children[idx], key, value)
           parent == [node EXCEPT !.children[idx] = below.node]
       IN  IF below.up = <<>> THEN Kept(parent) ELSE propagate(parent, below.up[1])

InsertRoot(key, value) ==
  IF root = <<>> THEN <<insertAt(NewNode(TRUE), 1, key, value)>>
  ELSE LET top == insertInto(root[1], key, value)
       IN  IF top.up = <<>> THEN <<top.node>>
           ELSE <<[NewNode(FALSE) EXCEPT !.keys     = <<top.up[1].key>>,
                                         !.values   = <<top.up[1].value>>,
                                         !.children = <<top.node, top.up[1].right>>]>>

\* delete of a subtree: the subtree without the key (or without its first
\* entry, when it is searched for the successor of a key found above) and
\* the entry that left it.
Missing(node) == [node |-> node, gone |-> <<>>]
\* Mutant: the entry that leaves is paired with the value of its neighbour.
RemovedWrongValue(node, pos) ==
  [node |-> removeAt(node, pos),
   gone |-> <<[key |-> node.keys[pos], value |-> node.values[Len(node.values)]]>>]

Removed(node, pos) ==
  [node |-> removeAt(node, pos), gone |-> <<[key |-> node.keys[pos], value |-> node.values[pos]]>>]

RECURSIVE delete(_, _, _)
delete(n, key, seeking) ==
  LET pos   == findindex(n, key)
      found == HoldsAt(n, pos, key)
      next  == IF found THEN pos + 1 ELSE pos
  IN  CASE n.isleaf /\ seeking             -> Removed(n, 1)
        [] n.isleaf /\ ~seeking /\ found   -> Removed(n, pos)
        [] n.isleaf /\ ~seeking /\ ~found  -> Missing(n)
        [] ~n.isleaf ->
             LET below == delete(n.children[next], key, seeking \/ found)
                 swap  == [n EXCEPT !.children[next] = below.node]
                 full  == IF found THEN [swap EXCEPT !.keys[pos]   = below.gone[1].key,
                                                     !.values[pos] = below.gone[1].value]
                                   ELSE swap
             IN  IF below.gone = <<>> THEN Missing(n)
                 ELSE [node |-> IF Len(below.node.keys) < MinKeys THEN fillChildAt(full, next) ELSE full,
                       gone |-> below.gone]

\* Delete with its collapse of an empty root.
DeleteRoot(key) ==
  IF root = <<>> THEN root
  ELSE LET top == delete(root[1], key, FALSE).node
       IN  CASE Len(top.keys) > 0                -> <<top>>
             [] Len(top.keys) = 0 /\ top.isleaf  -> <<>>
             [] Len(top.keys) = 0 /\ ~top.isleaf -> <<top.children[1]>>

Entry(n, i) == [key |-> n.keys[i], value |-> n.values[i]]

\* The entries of a subtree in the order of forEach.
RECURSIVE forEach(_)
forEach(n) ==
  LET child(i) == IF n.isleaf THEN <<>> ELSE forEach(n.children[i])
  IN  FlattenSeq([i \in 1 .. Len(n.keys) |-> Append(child(i), Entry(n, i))])
        \o child(Len(n.keys) + 1)

Entries == IF root = <<>> THEN <<>> ELSE forEach(root[1])

\* Mutant of rangeStop: the range excludes its end.
rangeStopExclusive(n, pos, endKey) ==
  LET over == {i \in pos .. Len(n.keys) : n.keys[i] >= endKey}
  IN  IF over = {} THEN Len(n.keys) ELSE Min(over) - 1

\* The last position before the first key above endKey.
rangeStop(n, pos, endKey) ==
  LET over == {i \in pos .. Len(n.keys) : n.keys[i] > endKey}
  IN  IF over = {} THEN Len(n.keys) ELSE Min(over) - 1

\* The entries of a subtree with startKey <= key <= endKey: skip the keys
\* below startKey, stop at the first key above endKey.
RECURSIVE getRange(_, _, _)
getRange(n, startKey, endKey) ==
  LET pos  == findindex(n, startKey)
      stop == rangeStop(n, pos, endKey)
      child(i) == IF n.isleaf THEN <<>> ELSE getRange(n.children[i], startKey, endKey)
  IN  child(pos) \o FlattenSeq([j \in 1 .. stop + 1 - pos |->
                       <<Entry(n, pos + j - 1)>> \o child(pos + j)])

GetRange(startKey, endKey) ==
  IF root = <<>> THEN <<>> ELSE getRange(root[1], startKey, endKey)

RECURSIVE Subtrees(_)
Subtrees(n) == {n} \union UNION {Subtrees(n.children[i]) : i \in DOMAIN n.children}

\* An internal node holds the key.
Separator(key) ==
  root # <<>> /\ \E n \in Subtrees(root[1]) : ~n.isleaf /\ key \in ToSet(n.keys)

-----------------------------------------------------------------------------
Init == root = <<>> /\ sweep = <<>> /\ swept = {}

Insert(key, value) ==
  /\ Separator(key) => Reinsert
  /\ Len(Entries) < MaxEntries
  /\ root' = InsertRoot(key, value)
  /\ swept' = swept \ {key}
  /\ UNCHANGED sweep

Delete(key) ==
  /\ root' = DeleteRoot(key)
  /\ UNCHANGED <<sweep, swept>>

\* DeleteRange's snapshot; an empty one ends the call.
DeleteRangeSnapshot(startKey, endKey) ==
  /\ sweep = <<>>
  /\ root # <<>> => startKey <= endKey
  /\ LET hits == GetRange(startKey, endKey)
     IN  sweep' = [i \in DOMAIN hits |-> hits[i].key]
  /\ swept' = {}
  /\ UNCHANGED root

\* Mutant: the loop deletes the last key of the snapshot, not the next one.
DeleteRangeNextWrongKey ==
  /\ sweep # <<>>
  /\ root' = DeleteRoot(sweep[Len(sweep)])
  /\ swept' = swept \union {Head(sweep)}
  /\ sweep' = Tail(sweep)

\* One Delete of the loop over the snapshot.
DeleteRangeNext ==
  /\ sweep # <<>>
  /\ root' = DeleteRoot(Head(sweep))
  /\ swept' = swept \union {Head(sweep)}
  /\ sweep' = Tail(sweep)

Next ==
  \/ \E p \in Pairs : Insert(p[1], p[2])
  \/ \E key \in Keys : Delete(key)
  \/ \E r \in Ranges : DeleteRangeSnapshot(r[1], r[2])
  \/ DeleteRangeNext

Spec == Init /\ [][Next]_vars

-----------------------------------------------------------------------------
RECURSIVE LeafDepths(_)
LeafDepths(n) ==
  IF n.isleaf THEN {0}
  ELSE {d + 1 : d \in UNION {LeafDepths(n.children[i]) : i \in DOMAIN n.children}}

\* Every node has as many values as keys, between MinKeys and MaxKeys of them
\* (the root at least one), and one child more than keys unless it is a leaf:
\* what insertAt, splitNodeSimple and fillChildAt leave behind.
NodeSizes ==
  root # <<>> =>
    \A n \in Subtrees(root[1]) :
      /\ Len(n.values) = Len(n.keys)
      /\ Len(n.keys) \in (IF n = root[1] THEN 1 ELSE MinKeys) .. MaxKeys
      /\ Len(n.children) = IF n.isleaf THEN 0 ELSE Len(n.keys) + 1

\* All leaves have the same depth: splits grow and merges shrink the tree at
\* the root only (btree.go Insert and Delete).
Balanced == root # <<>> => Cardinality(LeafDepths(root[1])) = 1

\* In-order traversal meets the keys in strictly ascending order, which is
\* what the search by findindex relies on and validateNode of the tests asks.
StrictlyOrdered ==
  LET all == Entries
  IN  \A i \in 2 .. Len(all) : all[i - 1].key < all[i].key

\* GetRange returns the entries of the range, all of them, in traversal order:
\* the pruning of getRange drops nothing.
RangeExact ==
  LET all == Entries
  IN  \A lo, hi \in Keys : lo <= hi =>
        GetRange(lo, hi) = SelectSeq(all, LAMBDA e : lo <= e.key /\ e.key <= hi)

\* Find reaches every entry the traversal meets: no key is stored where the
\* search for it does not go (README: "Find(key []byte) ([]byte, error) -
\* Retrieve value for a key").
NothingUnreachable ==
  LET all == Entries
  IN  \A i \in DOMAIN all : Find(all[i].key).found

\* After Insert(key, value) Find(key) returns value (README: "Insert or update
\* a key-value pair").
InsertStores ==
  [][\A p \in Pairs :
        Insert(p[1], p[2]) => Find(p[1])' = [found |-> TRUE, value |-> p[2]]]_vars

\* A key DeleteRange has deleted stays deleted until an Insert of it.
SweptAbsent == \A k \in swept : ~Find(k).found

\* What Find sees of the tree, as a map.
Contents == [k \in Keys |-> Find(k)]

KV == INSTANCE KVMap WITH map <- Contents

\* Under Find, each Insert, Delete and step of DeleteRange is one atomic
\* update of a map: the tree implements KVMap.
ImplementsMap == KV!Spec

=============================================================================
