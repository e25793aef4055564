---------------------------- MODULE DurableBTree ----------------------------
(***************************************************************************)
(* The durable tree (src/bptree/durable_btree.go): an in-memory tree and   *)
(* the WAL.  Every mutating call holds db.mu from start to end, so one     *)
(* call is in progress at a time: kind says which, batch holds its         *)
(* operations, logged and applied count the ones appended to the WAL and   *)
(* applied to the tree.  Sync takes only wal.mu and runs in between.  The  *)
(* tree is modelled by its contents, a map; which trees are maps is        *)
(* BTree's subject.                                                        *)
(*                                                                         *)
(* acked, unapplied, base and bulk are history variables: sets of          *)
(* positions in the file, and the contents the log starts from.            *)
(***************************************************************************)
EXTENDS WAL

CONSTANT Bulks      \* the argument lists clients pass to BulkInsert

ASSUME BulksAssumption ==
  \A b \in Bulks : b \in Seq([op : {"insert"}, key : Keys, value : Values]) /\ b # <<>>

VARIABLES
  tree,        \* key |-> value, NoValue when the key is not stored
  kind,        \* "none", "replay", "write", "bulk", "apply", "checkpoint"
  batch, logged, applied,
  acked,       \* positions whose operation has returned success
  unapplied,   \* positions of entries the tree does not reflect
  base,        \* the contents before the first entry of the file
  bulk         \* the positions meant for the last BulkInsert

callVars == <<kind, batch, logged, applied>>
histVars == <<acked, unapplied, base, bulk>>
dbVars   == <<tree, callVars, histVars>>
vars     == <<walVars, dbVars>>

EmptyTree == [k \in Keys |-> NoValue]

\* Mutant: Clear is logged and not applied.
ApplyIgnoresClear(t, e) ==
  CASE e.op = "insert" -> [t EXCEPT ![e.key] = e.value]
    [] e.op = "delete" -> [t EXCEPT ![e.key] = NoValue]
    [] e.op = "clear"  -> t

\* The callback of recover, and the second half of Insert, Delete and Clear.
Apply(t, e) ==
  CASE e.op = "insert" -> [t EXCEPT ![e.key] = e.value]
    [] e.op = "delete" -> [t EXCEPT ![e.key] = NoValue]
    [] e.op = "clear"  -> EmptyTree

NoCall == kind' = "none" /\ batch' = <<>> /\ logged' = 0 /\ applied' = 0

Init ==
  /\ WALInit
  /\ tree = EmptyTree
  /\ kind = "none" /\ batch = <<>> /\ logged = 0 /\ applied = 0
  /\ acked = {} /\ unapplied = {} /\ base = EmptyTree /\ bulk = {}

-----------------------------------------------------------------------------
\* NewDurableBTree: open the WAL, start with an empty tree, replay.
Open ==
  /\ NewWALEmpty \/ NewWALExisting
  /\ tree' = EmptyTree /\ base' = EmptyTree
  /\ kind' = "replay" /\ applied' = 0
  /\ acked' = {i \in acked \intersect DOMAIN file : file[i] # Torn}
  /\ unapplied' = DOMAIN file
  /\ UNCHANGED <<batch, logged, bulk>>

OpenFails == (NewWALRejected \/ NewWALFails) /\ UNCHANGED dbVars

\* Mutant: the loop reads the same entry again.
ReplayEntryAgain ==
  /\ kind = "replay" /\ applied < Len(file)
  /\ file[applied + 1] # Torn
  /\ tree' = Apply(tree, file[applied + 1])
  /\ UNCHANGED <<walVars, callVars, histVars>>

\* Replay: one entry of the loop.
ReplayEntry ==
  /\ kind = "replay" /\ applied < Len(file)
  /\ file[applied + 1] # Torn
  /\ tree' = Apply(tree, file[applied + 1])
  /\ applied' = applied + 1
  /\ unapplied' = unapplied \ {applied + 1}
  /\ UNCHANGED <<walVars, kind, batch, logged, acked, base, bulk>>

\* Mutant: the last entry is taken for the end of the file.
ReplayDoneEarly ==
  /\ kind = "replay" /\ (ReadableUpTo(applied) \/ applied + 1 = Len(file))
  /\ NoCall
  /\ UNCHANGED <<walVars, tree, histVars>>

\* Replay stops at the end or at the first entry it cannot read.
ReplayDone ==
  /\ kind = "replay" /\ ReadableUpTo(applied)
  /\ NoCall
  /\ UNCHANGED <<walVars, tree, histVars>>

-----------------------------------------------------------------------------
\* A call may start, and its n operations stay within the bound.
Running(n) ==
  /\ handle \in {"open", "closed"} /\ kind = "none" /\ step = "idle"
  /\ sequence + n <= MaxSeq /\ Len(file) + n <= MaxSeq

\* Insert, Delete or Clear takes db.mu.
Write(p) ==
  /\ Running(1)
  /\ kind' = "write" /\ batch' = <<p>> /\ logged' = 0 /\ applied' = 0
  /\ bulk' = {}
  /\ UNCHANGED <<walVars, tree, acked, unapplied, base>>

BulkInsert(b) ==
  /\ Running(Len(b))
  /\ kind' = "bulk" /\ batch' = b /\ logged' = 0 /\ applied' = 0
  /\ bulk' = Len(file) + 1 .. Len(file) + Len(b)
  /\ UNCHANGED <<walVars, tree, acked, unapplied, base>>

Logging == kind \in {"write", "bulk"} /\ logged < Len(batch)

\* Append the next operation of the call.
Log ==
  /\ Logging
  /\ AppendWrite(batch[logged + 1])
  /\ logged' = logged + 1
  /\ unapplied' = unapplied \union {Len(file) + 1}
  /\ UNCHANGED <<tree, kind, batch, applied, acked, base, bulk>>

LogFsync == kind \in {"write", "bulk"} /\ AppendFsync /\ UNCHANGED dbVars

\* Mutant: the call ignores the error of Append and goes on.
LogFailsIgnored ==
  /\ \/ Logging /\ (AppendWriteFails \/ AppendRefused) /\ logged' = logged + 1
     \/ AppendFsyncFails /\ UNCHANGED logged
  /\ UNCHANGED <<tree, kind, batch, applied, histVars>>

\* Mutant: the call returns the error and keeps db.mu.
LogFailsLocked ==
  /\ \/ Logging /\ (AppendWriteFails \/ AppendRefused)
     \/ AppendFsyncFails
  /\ kind' = "write" /\ batch' = <<>> /\ logged' = 1 /\ applied' = 0
  /\ UNCHANGED <<tree, histVars>>

\* Append fails: the call returns the error and applies nothing.
LogFails ==
  /\ \/ Logging /\ (AppendWriteFails \/ AppendRefused)
     \/ AppendFsyncFails
  /\ NoCall
  /\ UNCHANGED <<tree, histVars>>

AllLogged == step = "idle" /\ logged = Len(batch)

\* BulkInsert's Sync, after its last entry.
BulkSync ==
  /\ kind = "bulk" /\ AllLogged
  /\ Sync
  /\ kind' = "apply"
  /\ UNCHANGED <<tree, batch, logged, applied, histVars>>

BulkSyncFails ==
  /\ kind = "bulk" /\ AllLogged
  /\ SyncFails
  /\ NoCall
  /\ UNCHANGED <<tree, histVars>>

\* Where in the file the next operation to apply is.
NextPos == Len(file) - logged + applied + 1

\* Apply the next operation to the tree; after the last one the call returns.
ApplyNext ==
  /\ kind \in {"write", "apply"} /\ AllLogged
  /\ tree' = Apply(tree, batch[applied + 1])
  /\ unapplied' = unapplied \ {NextPos}
  /\ IF applied + 1 < Len(batch)
     THEN applied' = applied + 1 /\ UNCHANGED <<kind, batch, logged, acked>>
     ELSE NoCall /\ acked' = acked \union (Len(file) - logged + 1 .. Len(file))
  /\ UNCHANGED <<walVars, base, bulk>>

-----------------------------------------------------------------------------
\* DurableBTree.Sync from any goroutine: no db.mu, so also inside a call.
DBSync == kind # "replay" /\ (Sync \/ SyncFails) /\ UNCHANGED dbVars

DBClose == kind = "none" /\ Close /\ UNCHANGED dbVars

DBCheckpoint ==
  /\ kind = "none" /\ Checkpoint
  /\ kind' = "checkpoint"
  /\ UNCHANGED <<tree, batch, logged, applied, histVars>>

\* From here on the tree is the only copy of what the log held.
TruncateLog ==
  /\ CheckpointTruncate
  /\ base' = tree /\ acked' = {} /\ unapplied' = {} /\ bulk' = {}
  /\ UNCHANGED <<tree, callVars>>

CheckpointEnds ==
  /\ WriteHeader \/ WriteHeaderFails \/ ReopenFails
  /\ NoCall
  /\ UNCHANGED <<tree, histVars>>

\* The process ends in whatever state: the tree is gone.
Crash ==
  /\ Exit \/ Kill \/ PowerLoss
  /\ NoCall
  /\ tree' = EmptyTree /\ base' = EmptyTree /\ unapplied' = {}
  /\ UNCHANGED <<acked, bulk>>

Next ==
  \/ Open \/ OpenFails \/ ReplayEntry \/ ReplayDone
  \/ \E p \in Calls : Write(p)
  \/ \E b \in Bulks : BulkInsert(b)
  \/ Log \/ LogFsync \/ LogFails \/ BulkSync \/ BulkSyncFails \/ ApplyNext
  \/ DBSync \/ DBClose \/ DBCheckpoint \/ TruncateLog \/ CheckpointEnds
  \/ Crash

Spec == Init /\ [][Next]_vars

\* A running process takes its next step; faults need not happen.
Fairness ==
  /\ WF_vars(Open) /\ WF_vars(ReplayEntry) /\ WF_vars(ReplayDone)
  /\ WF_vars(Log) /\ WF_vars(LogFsync) /\ WF_vars(LogFails)
  /\ WF_vars(BulkSync) /\ WF_vars(ApplyNext)
  /\ WF_vars(TruncateLog) /\ WF_vars(CheckpointEnds)

LiveSpec == Spec /\ Fairness

-----------------------------------------------------------------------------
TypeOK ==
  /\ WALTypeOK
  /\ tree \in [Keys -> Values \union {NoValue}]
  /\ base \in [Keys -> Values \union {NoValue}]
  /\ kind \in {"none", "replay", "write", "bulk", "apply", "checkpoint"}
  /\ batch \in Seq(Operations)
  /\ logged \in 0 .. Len(batch)
  /\ applied \in Nat
  /\ acked \subseteq Nat /\ bulk \subseteq Nat
  /\ unapplied \subseteq DOMAIN file

\* The call in progress: its operations are the last entries of the file, in
\* order, and the ones it has not applied yet are unapplied.  This is what
\* db.mu and wal.mu together maintain while Sync and crashes interleave.
CallInv ==
  /\ handle \in {"none", "rejected"} => kind = "none"
  /\ kind = "replay" =>
       /\ step = "idle"
       /\ applied <= Len(file)
       /\ applied + 1 .. Len(file) \subseteq unapplied
  /\ kind \in {"write", "bulk", "apply"} =>
       /\ logged <= Len(file) /\ applied <= logged
       /\ kind = "apply" => logged = Len(batch)
       /\ kind # "apply" => applied = 0
       /\ applied < Len(batch)
       /\ kind = "write" => Len(batch) = 1
       /\ \A j \in 1 .. logged :
            LET e == file[Len(file) - logged + j]
            IN  e # Torn /\ batch[j] = [op |-> e.op, key |-> e.key, value |-> e.value]
       /\ Len(file) - logged + applied + 1 .. Len(file) \subseteq unapplied
  /\ step \in {"truncate", "header"} => kind = "checkpoint"
  /\ step = "fsync" => kind \in {"write", "bulk"}
  /\ step # "rename"

Touches(e, k) == e # Torn /\ (e.op = "clear" \/ e.key = k)

\* The applied entries that touch k, and the tree holding what the last says.
Writes(k) == {i \in DOMAIN file \ unapplied : Touches(file[i], k)}

LastWriteDecides(k) ==
  \/ Writes(k) = {} /\ tree[k] = base[k]
  \/ \E i \in Writes(k) : (\A j \in Writes(k) : j <= i) /\ tree[k] = file[i].value

\* The tree is the log, read with "the last entry that touches a key decides
\* it", over the entries applied so far: during replay, between logging and
\* applying, after failed calls and after a checkpoint.  Log-then-apply of
\* Insert, Delete, Clear and BulkInsert and the callback of recover agree.
TreeMatchesLog ==
  handle \in {"open", "closed"} => \A k \in Keys : LastWriteDecides(k)

\* No crash takes or damages the entry of an operation that returned success
\* (WAL SyncAlways: "Guarantees: No data loss on crash").
AckedIntact == \A i \in acked : i \in DOMAIN file /\ file[i] # Torn

\* The next recovery will read every entry whose operation returned success.
AckedReadable ==
  \A i \in acked : i \in DOMAIN file /\ \A j \in 1 .. i : file[j] # Torn

\* Between calls the tree holds every operation that has returned success, also
\* after recovery and after calls that failed half way ("Logged + applied
\* atomically", durable_btree.go).
AckedApplied == handle = "open" /\ kind = "none" => acked \intersect unapplied = {}

\* SyncBatch leaves less than a batch of acknowledged operations to the mercy
\* of a power loss ("Last ~100 operations may be lost on crash").
LossBound == Cardinality({i \in acked : i > durable}) < batchSize

\* A BulkInsert that is over is in the tree as a whole or not at all, also after
\* recovery ("atomic batch", durable_btree.go).
BulkAtomic ==
  handle = "open" /\ kind = "none" =>
    LET there == {i \in bulk \intersect DOMAIN file : i \notin unapplied /\ file[i] # Torn}
    IN  there = {} \/ there = bulk

\* Every call ends, with success or an error, or with its process.
CallsReturn == kind # "none" ~> kind = "none"

\* After a crash the store comes back, replayed and ready.
Recovers == handle = "none" ~> handle = "open" /\ kind = "none"

=============================================================================
