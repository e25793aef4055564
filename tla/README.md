# StunDB: a TLA+ verification project

StunDB (package `src/bptree`) is an in-memory key-value store written in Go: a
B-tree, a version of it sharded by hash, a write-ahead log, a durable store
made of the two, and secondary indexes.  This directory holds TLA+ models of
it, the TLC runs that check them and the proofs TLAPS checks.

## 1. Inventory

| Part | Source | State | Operations that change it | Locks |
|---|---|---|---|---|
| Node | `node.go`, split, borrow and merge in `btree.go` | keys, values, children, isleaf | insertAt, insertChildAt, removeAt, splitNodeSimple, fillChildAt | the tree's |
| Btree | `btree.go`, `iterator.go` | root | Insert, Delete, DeleteRange | `treeLock`, whole call; DeleteRange once per key |
| ShardedBTree | `sharded_btree.go` | array of Btrees, three counters | Insert, Delete, DeleteRange, BulkInsert, Clear | the shard's; Clear takes none |
| WAL | `wal.go` | file, buffered writer, sequence, batchCount, lastCheckpoint | NewWAL, Append, Sync, Checkpoint, RotateLog, Close | `wal.mu` |
| DurableBTree | `durable_btree.go` | a ShardedBTree and a WAL | NewDurableBTree (recovery), Insert, Delete, Clear, BulkInsert, Checkpoint, Sync, Close | `db.mu`; Sync only `wal.mu` |
| SecondaryIndex | `secondary_index.go` | a ShardedBTree from index key to primary key(s), entries | Index, Remove, Update, Clear | `idx.mu` |
| IndexedBTree | `indexed_btree.go` | a ShardedBTree and named indexes | CreateIndex, CreateIndexWithRebuild, DropIndex, Insert, Update, Delete, Clear | `db.mu` only to copy the list of indexes |
| cmd | `cmd/main.go` | none | none | none |

How they interact: DurableBTree appends to the WAL and then changes its tree,
both under `db.mu`, and rebuilds the tree from the WAL at the start.
ShardedBTree sends each key to the Btree its hash selects.  IndexedBTree writes
the primary tree and then each index, without a lock over the whole.

What is hard to get right, part by part:

* **Btree**: split and merge arithmetic at several levels; a key that is already
  stored as a separator; rebalancing after the successor replaced a deleted
  separator; range pruning; DeleteRange among other writers.
* **WAL**: what a crash leaves (torn entry, torn header, lost suffix); the batch
  counter; errors after part of the work is done (failed write, failed fsync,
  failed reopen); sequence numbers across truncation, rotation and restart.
* **DurableBTree**: log and tree in step through failures; what acknowledged
  means in each sync mode; the batch of BulkInsert; Sync inside other calls.
* **ShardedBTree**: Clear against everything else; reads over all shards that
  are no snapshot.
* **IndexedBTree**: check-then-act on unique constraints, old values read before
  the change, rollback, rebuild during inserts.

`hazards` in `PROJECT.json` lists them with their lines.

## 2. Modules

| Module | Models | State and actions |
|---|---|---|
| `Node` | a node | records of parallel sequences; one operator per function; where the code mutates a node the operator returns the new one.  Positions are the code's plus one. |
| `BTree` | `Btree` | `root`, a tree of nodes by value; Insert, Delete one action each (the lock is held throughout); DeleteRange is `DeleteRangeSnapshot` and one `DeleteRangeNext` per key. |
| `KVMap` | the promise of the README's API section | a map, changed by Insert and Delete |
| `ShardedBTree` | `ShardedBTree` | `trees`, every Btree a shard has had, the one in the array last; `call`, what is left of each goroutine's call.  A call begins, reads the pointer of each shard it needs (`ReadPointer`), works on the Btree it got under its lock (`Work`), and returns.  `Replace` is one turn of Clear's loop, `DeleteRangeNext` one of DeleteRange's. |
| `ShardedLin` | | watches `ShardedBTree` and keeps, per key, all orders in which the operations so far can have taken effect, given their answers.  An operation begins with the read of its pointer and ends with its lock section; ForEach, when its callback stops it, gives up the keys it has not visited. |
| `SecondaryIndex` | `SecondaryIndex` | no state: an index is a value, and each operator is what one section under `idx.mu` does to it, down to the bytes of stored lists and composite fields |
| `IndexedBTree` | `IndexedBTree` | `primary`, the index objects `objs`, `indexes` (name to object), `call`, and the history variable `spoiled`.  One action per lock section: copy the list, check one unique index, change the primary tree, change one index, roll back; the rebuild goes shard by shard and record by record. |
| `WAL` | `WAL`, the operating system and the disk under it | `header`, `file`, `durable`, `archives` are the disk; `handle`, `writer`, `step`, `sequence`, `batchCount` the process.  `step` is where the holder of `wal.mu` is. |
| `DurableBTree` | `DurableBTree` | extends `WAL` with the tree, the call in progress (`kind`, `batch`, `logged`, `applied`) and history variables for the properties |
| `WALProofs`, `DurableProofs`, `LossProofs`, `ShardedProofs`, `LinOrders`, `LinProofs` | | theorems (section 4) |
| `Induction` | | induction over the natural numbers and recursively defined functions, for the proofs |
| `MCBTree`, `MCWAL`, `MCDurable`, `MCSharded`, `MCIndexed` | | values of constants for TLC |

Definitions called "Mutant" in their comment are faulty variants of the
definition after them.  No run uses them: they show that the properties notice
such a fault.

### Abstractions and assumptions

* Keys of the trees are integers, values are opaque; copies and errors returned
  to callers are not modelled unless they decide what happens next.  A nil key
  is not modelled.
* An entry of the log is whole or `Torn`.  A torn entry fails in `readEntry` (a
  short read or the CRC), and everything that reads the file stops there.
* Power loss keeps at least what fsync covered and a prefix of the rest, of
  which the last entry may be torn.  Blocks are not reordered.  A truncation and
  a rename are taken to be durable at once.
* A failed fsync makes nothing durable; a later successful one covers everything.
* An entry fits into the buffer of 64 KB, so a kill, unlike a failed write or a
  power loss, does not tear one.
* In `DurableBTree` the tree is a map.  That is what a Btree is as long as no key
  held by an internal node is inserted again (run `btree`); with such an insert
  it is not (`btree_lost_update`).  The shards of `ShardedBTree`, the primary
  tree and the trees of the indexes are maps under the same condition.  An index
  that is not unique updates a list by inserting a stored key again, so a large
  one meets the lost update.
* A shard pointer is one word.  Clear writes it without a lock, a race; what the
  readers can get is the old or the new pointer, and `Replace` is the moment the
  new one is seen.  `ShardOf` stands for `fnv32a` and the modulo and may be any
  function from keys to shards.
* In `IndexedBTree` an operation of the primary tree on one key is one step,
  which `ShardedLin` justifies.  ForEach holds the read lock of a shard while the
  rebuild visits its records, so writers of that shard wait.  The order of a copied
  list is any, as Go iterates over maps in any order.  One goroutine manages
  the indexes: another DropIndex between CreateIndex and the lookup of
  CreateIndexWithRebuild would make the rebuild use a nil index.
* `bytes.Equal` takes a nil and an empty field for the same; the fields of the
  runs are nil or not empty.
* Checkpoint is documented to be called after the tree has been persisted
  elsewhere; the model takes what it truncates to be the caller's responsibility
  (`base`, `acked` start over).
* A BulkInsert of nothing is a Sync, one with lists of different length changes
  nothing; neither is an action of its own.  Calls on a closed or failed WAL that
  return an error and change nothing are not actions either, and neither are a range
  with startKey beyond endKey, the creation of an index that exists, the drop of
  one that does not, or Update and Delete of a missing key.

### When an index is exact

`IndexExact` and `EntriesCounted` are about indexes that are not in `spoiled`.  An
index is spoiled, that is, the code gives no exactness any more, by

* a write that begins while it is being rebuilt, or one in flight when it is
  created: a writer with an older copy of the list does not index its record, and
  the record of a newer one can be taken for a duplicate of itself;
* creation without a rebuild over a tree that is not empty;
* a rollback of Insert, for the indexes updated before the one that failed: their
  entries stay;
* an Update that fails after the check, for the failing index and those behind it:
  of two concurrent Updates to one unique value, one leaves its record out of
  the index.

Four more things spoil every index; with `Careful` clients do not do them: Insert
over a stored key (`indexed_stale` shows what it does), two writes of one key at
a time, a write during Clear, and a write while a registered index is spoiled.  The last
is not forbidden by any document; it keeps the state space small,
and says that a spoiled index is dropped before one goes on.

## 3. Runs

| Run | Properties | Shows |
|---|---|---|
| `btree` | `Balanced` `NodeSizes` `StrictlyOrdered` `NothingUnreachable` `RangeExact` `SweptAbsent` `ImplementsMap` | shape, order and reachability of the tree, exact range queries; inserts, updates of keys in leaves, deletes and DeleteRange are steps of `KVMap`, and what DeleteRange deleted stays deleted |
| `wal_sequence` | `WALTypeOK` `SequenceAscends` `ArchiveCovers` | sequence numbers in the log and its archives, under all faults |
| `durable_always` | `TypeOK` `CallInv` `TreeMatchesLog` `AckedIntact` | SyncAlways, all faults: the tree is the applied log, acknowledged entries are intact |
| `durable_batch` | `LossBound` | SyncBatch: a power loss takes less than a batch |
| `durable_kill` | `TreeMatchesLog` `AckedReadable` `AckedApplied` `CallsReturn` `Recovers` | SyncBatch with kills, failed fsyncs and failed reopens: recovery reads and applies everything acknowledged, calls return, the store comes back |
| `sharded` | `KeyLinearizable` `SweepsAll` | with Clear swapping pointers under all other calls, the operations on each key are linearizable, and Clear and DeleteRange leave no key behind |
| `indexed` | `IndexExact` `EntriesCounted` | an unspoiled index has exactly the fields of the stored records, and its count and lists agree |

Runs that end in a counterexample, each against a sentence of the repository
(quoted in `findings`):

| Run | What the code does |
|---|---|
| `btree_lost_update` | inserting a key that is a separator stores the new value in a leaf, and Find returns the old one |
| `wal_sequence_reuse` | sequence numbers start over after RotateLog and a restart |
| `durable_torn_tail` | a torn entry hides everything appended after it |
| `durable_bulk_torn` | recovery applies a part of a BulkInsert |
| `indexed_stale` | inserting a stored key leaves the index entry of its old record |

**Bounds.**  `MaxKeys` is 4 in the code.  2 gives trees of three levels with nine
keys, the smallest number with which an inner node can borrow a child from its
neighbour; borrowing from either side and merging happen at leaves and at inner
nodes (with both values a full node and a new key are an odd number of keys).
`btree_lost_update` uses 4.  `MaxEntries` bounds trees that pile up duplicates.
`MaxSeq` bounds sequence numbers and the length of the file, `MaxFaults` the number
of crashes and errors: with 2, an error, a crash and a recovery can precede
another one.  Three entries are a batch of two and one more.  One key and one
value suffice where the property is about positions in the log; `durable_kill`
has two of each.

`sharded` has two shards with one key each and three goroutines, so that a call
over both shards, a writer and a Clear overlap in every way; the batch has one
key twice, as the order within a shard matters.  `MaxClears` is 1: a call can be
left behind on an old Btree, which a second Clear would repeat.  `indexed` has
two goroutines and two keys of different length in two shards, a unique index
and one that is not, over a composite field that some records lack; the unique
fields can clash either way.  `MaxIndexes` bounds the index objects in use,
dropped ones that a call still holds included.

**Faults a passing run leaves out**, because with them its property does not
hold of the code:

* `durable_kill` has no failed write and no power loss.  Both can tear an entry
  (see `durable_torn_tail`) or leave a header that is not whole, as `writeHeader`
  does not fsync, and NewWAL refuses such a file for good.
* `durable_batch` has no kill and no failed write or fsync.  A new process counts
  its batch from 0 while entries of the old one may not be fsynced, so each
  restart adds up to a batch to what power loss takes.  It also sets SyncMode:
  left out it is SyncNone (`iota`), although the comment on
  `DurableConfig.SyncMode` says SyncBatch.
* No property says that archives are kept: RotateLog at the number of an earlier
  archive replaces it.

**Fairness** (`durable_kill`).  A running process takes its next step: nothing in a
call waits for anything but its own locks, which are free when the model's guards
hold, and system calls that return.  `Open` is fair because the claim is about a
store that is started again after a crash.  No fault is fair, and neither is the
start of a call.

## 4. Proofs

The theorems hold for all values of the constants; the assumptions are the
ASSUMEs of the modules, which type the constants and keep `NoKey`, `NoValue` and
`Torn` apart from real ones, and where said a restriction of the faults.

`WALProofs`, for any kind and number of faults:

* `WALTypeCorrect`: `WALSpec => []WALTypeOK`.
* `SequenceCorrect`: `WALSpec => []SequenceAscends`, `ArchiveCorrect`: `WALSpec =>
  []ArchiveCovers`.  The inductive invariant `SeqInv` is about every readable
  prefix, as a power loss may cut anywhere, and adds that whoever is about to
  rename the file has it open and that a file without a header is empty.

`DurableProofs`:

* `TypeCorrect`: `Spec => []TypeOK`, and `CallCorrect`: `Spec => [](TypeOK /\ CallInv)`.  The two are proved together:
  that an operation remains to be applied in `ApplyNext` is in `CallInv`.
* `TreeCorrect`: `Spec => []TreeMatchesLog`.  Not inductive by itself: when an
  operation is applied one must know that its entry is the first of an unapplied
  suffix of the log and says the same as the call's batch, which is `CallInv`.
  The two lemmas behind it are `ApplyInOrder` (applying the first unapplied entry
  makes it the last write of the keys it touches) and `LogUnapplied` (a new
  unapplied or torn entry does not count).
* `AckedSurvive`: with SyncAlways, `Spec => []AckedIntact`.  The inductive
  invariant is `SyncInv`: acknowledged entries lie in the fsynced part, and a
  call between two steps with something logged has nothing left to fsync.
  `CutElements` says that power loss leaves the fsynced part as it was.
* `KillReadable` and `KillApplied`: in every sync mode, if the faults are kills,
  failed fsyncs and failed reopens, `Spec => []AckedReadable` and `Spec =>
  []AckedApplied`.  `KillInv` says that nothing in the file is torn, what is
  acknowledged is in the file and, except during replay, in the tree, and which
  entries the call in progress or the replay has applied.
* `DurableSequence`: `Spec => []SequenceAscends`, as every step of the durable tree
  is one of the log or leaves it alone.

`LossProofs`:

* `LossBounded`: with SyncBatch and any batch size, if the faults are power losses,
  torn entries and failed reopens, `Spec => []LossBound`.  `BatchInv` ties
  `batchCount` to the number of entries that are not fsynced, in each place where
  the holder of `wal.mu` can be.

`ShardedProofs`:

* `SweepCorrect`: `Spec => []SweepsAll`, for any goroutines, shards, keys and number
  of Clears.  `SweepInv` says of each key still to be removed that it is stored in
  the live Btree and that the call has it before it: in a shard not yet replaced,
  in a read with a pointer that is not out of date, in the snapshot, or in a
  Delete on the live Btree.

`LinProofs`, on top of `LinOrders`, which has the facts about orders of operations
(`Closure`, `Reach`, `Covers`) and none about steps of the system:

* `KeysLinearizable`: `LinSpec => []KeyLinearizable`, for any finite set of
  goroutines (`LinAssumption`), any shards, keys, batches and number of Clears.
  The difficulty is the goroutines that Clear leaves behind on a Btree that is no
  longer in the array: their answers come from a map nobody else will see, after
  others have been answered from the new one.  The argument is that all they
  still do takes effect just before the Clear that took their Btree away, which
  began after they had read their pointer.  So the invariant (`KeyGood`) says:
  however the operations left on the old Btrees of a shard will be ordered among
  each other (`Reach` is every way that can go, `Done` its ends), the observer
  already has a configuration (`Covers`) in which they have all taken effect with
  those answers, the value is the one in the live Btree, and the operations with
  a pointer to the live Btree have not taken effect.  Replace makes a live Btree
  an old one, and `ReplaceCovers` shows that the observer, who closed his set
  under every order (`ClosureCloses`), has these configurations already.  `Fit`
  adds that no configuration expects more of a goroutine than it has left, and
  `CallOK` what a call without jobs and the shards of ForEach look like.  Because
  `Reach` quantifies over all sets of states TLC cannot evaluate the invariant;
  it evaluates what follows from it, `KeyLinearizable`.  The proof uses the
  `Inv` of `ShardedProofs` and two inductions, that `Closure` reaches a fixed
  point and that histories of old Btrees can be shifted; `Induction` provides
  them from the existence of least elements, stated for sets.

Only model-checked: everything about `BTree` (its operators are RECURSIVE, which
the prover does not take) and its refinement of `KVMap`; `IndexExact` and
`EntriesCounted`; and liveness (fairness and ENABLED are beyond the prover).

## 5. Not modelled

* Stats, the operation counters behind it and `lastCheckpoint`: numbers that no
  operation reads.
* The scanner of `JSONFieldExtractor`: parsing; to an index it is one more function
  from records to a field or nil.
* Liveness of `ShardedBTree` and `IndexedBTree`: a call waits for one lock at a
  time, except the rebuild, which takes `idx.mu` under the read lock of a shard;
  nobody takes them in the other order.  No run checks this.
* The dead code (`alreadyExists`, `isSafe`, `getHighKey`, `splitNodeWithInsert`),
  benchmarks, and `cmd`, which is empty.
