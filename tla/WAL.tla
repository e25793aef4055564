--------------------------------- MODULE WAL ---------------------------------
(***************************************************************************)
(* The write-ahead log (src/bptree/wal.go): one file, the process that     *)
(* appends to it under wal.mu, and what a crash leaves of it.              *)
(*                                                                         *)
(* The file is a header and a sequence of entries, as the operating system *)
(* shows it; an entry cut short is Torn, and everything the code reads     *)
(* stops at the first Torn one, as readEntry fails there.  durable counts  *)
(* the entries fsync has made safe (-1: not even the header).  A call that *)
(* holds wal.mu is one action, except where a crash inside it matters:     *)
(* between write and fsync, and between the steps of Checkpoint and        *)
(* RotateLog.  step says which of these points the lock holder is at.      *)
(***************************************************************************)
EXTENDS Integers, Sequences, FiniteSets

CONSTANTS
  Keys, Values, NoKey, NoValue, Torn,
  SyncMode,     \* WALConfig.SyncMode, "unset" when the caller leaves it out
  BatchSize,    \* WALConfig.BatchSize, 0 when the caller leaves it out
  Faults,       \* the kinds of fault that may happen
  MaxFaults,    \* bound: how many of them
  MaxSeq,       \* bound on the sequence number and on the length of the file
  Calls         \* the operations clients append

FaultKinds == {"kill", "power", "tear", "write", "fsync", "open"}

ASSUME WALAssumption ==
  /\ SyncMode \in {"unset", "SyncNone", "SyncBatch", "SyncAlways"}
  /\ BatchSize \in Int
  /\ Faults \subseteq FaultKinds
  /\ MaxFaults \in Nat
  /\ MaxSeq \in Nat
  /\ NoKey \notin Keys
  /\ NoValue \notin Values

\* LogEntry: OpDelete is logged without a value, OpClear without key and value.
LogEntry ==
  [seq : Nat, op : {"insert"}, key : Keys, value : Values]
    \union [seq : Nat, op : {"delete"}, key : Keys, value : {NoValue}]
    \union [seq : Nat, op : {"clear"}, key : {NoKey}, value : {NoValue}]

\* The arguments of AppendInsert, AppendDelete and AppendClear.
Operations ==
  [op : {"insert"}, key : Keys, value : Values]
    \union [op : {"delete"}, key : Keys, value : {NoValue}]
    \union [op : {"clear"}, key : {NoKey}, value : {NoValue}]

ASSUME TornAssumption == Torn \notin LogEntry

ASSUME CallsAssumption == Calls \subseteq Operations

VARIABLES
  header,      \* "absent" (size 0), "ok", or "bad" (short or garbled)
  file,        \* the entries after the header
  durable,     \* how many of them are fsynced, -1: not even the header
  archives,    \* RotateLog's files: sequence number |-> entries
  handle,      \* "none" (no process), "open", "closed", "rejected" (NewWAL failed)
  writer,      \* bufio.Writer: "ok", or "failed" for good after a write error
  step,        \* "idle", or where the holder of wal.mu is
  sequence, batchCount,
  faults       \* faults so far

diskVars == <<header, file, durable, archives>>
procVars == <<handle, writer, step, sequence, batchCount>>
walVars  == <<diskVars, procVars, faults>>

\* SyncMode's zero value is SyncNone (iota), BatchSize's default is 100.
syncMode  == IF SyncMode = "unset" THEN "SyncNone" ELSE SyncMode
batchSize == IF BatchSize <= 0 THEN 100 ELSE BatchSize

\* readEntry succeeds for the first n entries of f and not for the next one.
Readable(f, n) ==
  /\ \A i \in 1 .. n : f[i] # Torn
  /\ n < Len(f) => f[n + 1] = Torn

ReadableUpTo(n) == Readable(file, n)

Fault(kind) ==
  /\ kind \in Faults
  /\ faults < MaxFaults
  /\ faults' = faults + 1

Ready == handle = "open" /\ writer = "ok" /\ step = "idle"

WALInit ==
  /\ header = "absent" /\ file = <<>> /\ durable = -1 /\ archives = <<>>
  /\ handle = "none" /\ writer = "ok" /\ step = "idle"
  /\ sequence = 0 /\ batchCount = 0
  /\ faults = 0

-----------------------------------------------------------------------------
\* NewWAL on a missing or empty file: writeHeader.
NewWALEmpty ==
  /\ handle = "none" /\ header = "absent"
  /\ header' = "ok"
  /\ handle' = "open"
  /\ sequence' = 0 /\ batchCount' = 0 /\ writer' = "ok"
  /\ UNCHANGED <<file, durable, archives, step, faults>>

\* Mutant: O_TRUNC in place of O_APPEND.
NewWALTruncates ==
  /\ handle = "none" /\ header = "ok"
  /\ file' = <<>> /\ durable' = -1
  /\ sequence' = 0
  /\ handle' = "open"
  /\ batchCount' = 0 /\ writer' = "ok"
  /\ UNCHANGED <<header, archives, step, faults>>

\* Mutant: validateAndRecover does not store lastSeq.
NewWALForgetsSequence ==
  /\ handle = "none" /\ header = "ok"
  /\ sequence' = 0
  /\ handle' = "open"
  /\ batchCount' = 0 /\ writer' = "ok"
  /\ UNCHANGED <<diskVars, step, faults>>

\* Mutant: lastSeq is taken for the next number, one too high.
NewWALOffByOne ==
  /\ handle = "none" /\ header = "ok"
  /\ \E n \in 0 .. Len(file) :
       /\ ReadableUpTo(n)
       /\ sequence' = (IF n = 0 THEN 0 ELSE file[n].seq) - 1
  /\ handle' = "open"
  /\ batchCount' = 0 /\ writer' = "ok"
  /\ UNCHANGED <<diskVars, step, faults>>

\* NewWAL on an existing file: validateAndRecover takes the sequence number
\* from the last readable entry and leaves the file as it is.
NewWALExisting ==
  /\ handle = "none" /\ header = "ok"
  /\ \E n \in 0 .. Len(file) :
       /\ ReadableUpTo(n)
       /\ sequence' = IF n = 0 THEN 0 ELSE file[n].seq
  /\ handle' = "open"
  /\ batchCount' = 0 /\ writer' = "ok"
  /\ UNCHANGED <<diskVars, step, faults>>

\* validateAndRecover rejects the header.
NewWALRejected ==
  /\ handle = "none" /\ header = "bad"
  /\ handle' = "rejected"
  /\ UNCHANGED <<diskVars, writer, step, sequence, batchCount, faults>>

\* writeHeader fails in NewWAL: the process has no WAL.
NewWALFails ==
  /\ handle = "none" /\ header = "absent"
  /\ Fault("write")
  /\ header' \in {"absent", "bad"}
  /\ UNCHANGED <<file, durable, archives, procVars>>

-----------------------------------------------------------------------------
\* Mutant of SyncDue: the batch is counted before the new entry joins it.
SyncDueLate ==
  \/ syncMode = "SyncAlways"
  \/ syncMode = "SyncBatch" /\ batchCount >= batchSize

\* maybeSync: does this Append have to fsync?
SyncDue ==
  \/ syncMode = "SyncAlways"
  \/ syncMode = "SyncBatch" /\ batchCount + 1 >= batchSize

\* Append counts the entry; a batch that is full starts over, before its fsync.
CountEntry ==
  batchCount' = IF syncMode = "SyncBatch" /\ SyncDue THEN 0 ELSE batchCount + 1

Room == sequence < MaxSeq /\ Len(file) < MaxSeq

\* Append up to and including the flush; the fsync, if due, is a second step.
AppendWrite(p) ==
  /\ Ready /\ Room
  /\ sequence' = sequence + 1
  /\ file' = Append(file, [seq |-> sequence + 1, op |-> p.op, key |-> p.key, value |-> p.value])
  /\ CountEntry
  /\ step' = IF SyncDue THEN "fsync" ELSE "idle"
  /\ UNCHANGED <<header, durable, archives, handle, writer, faults>>

\* Mutant: Append returns without waiting for fsync.
AppendFsyncSkipped ==
  /\ step = "fsync"
  /\ step' = "idle"
  /\ UNCHANGED <<diskVars, handle, writer, sequence, batchCount, faults>>

AppendFsync ==
  /\ step = "fsync"
  /\ durable' = Len(file)
  /\ step' = "idle"
  /\ UNCHANGED <<header, file, archives, handle, writer, sequence, batchCount, faults>>

\* fsync fails: Append returns an error, the entry stays in the file.
AppendFsyncFails ==
  /\ step = "fsync"
  /\ Fault("fsync")
  /\ step' = "idle"
  /\ UNCHANGED <<diskVars, handle, writer, sequence, batchCount>>

\* The flush fails with nothing or part of the entry written; bufio.Writer
\* keeps the error and returns it from now on.
AppendWriteFails ==
  /\ Ready /\ Room
  /\ Fault("write")
  /\ sequence' = sequence + 1
  /\ file' \in {file, Append(file, Torn)}
  /\ CountEntry
  /\ writer' = "failed"
  /\ UNCHANGED <<header, durable, archives, handle, step>>

\* Append on a failed writer or a closed file: only the sequence number moves.
AppendRefused ==
  /\ handle \in {"open", "closed"} /\ step = "idle" /\ Room
  /\ writer = "failed" \/ handle = "closed"
  /\ sequence' = sequence + 1
  /\ IF writer = "ok" THEN CountEntry ELSE UNCHANGED batchCount
  /\ writer' = "failed"
  /\ UNCHANGED <<diskVars, handle, step, faults>>

-----------------------------------------------------------------------------
\* Sync: flush and fsync; batchCount is left alone.
Sync ==
  /\ Ready
  /\ durable' = Len(file)
  /\ UNCHANGED <<header, file, archives, procVars, faults>>

SyncFails ==
  /\ Ready
  /\ Fault("fsync")
  /\ UNCHANGED <<diskVars, procVars>>

\* Close: flush, fsync, close.
Close ==
  /\ Ready
  /\ durable' = Len(file)
  /\ handle' = "closed"
  /\ UNCHANGED <<header, file, archives, writer, step, sequence, batchCount, faults>>

\* Checkpoint and RotateLog start alike: flush, fsync, close the file.
FlushAndClose(next) ==
  /\ Ready
  /\ durable' = Len(file)
  /\ step' = next
  /\ UNCHANGED <<header, file, archives, handle, writer, sequence, batchCount, faults>>

Checkpoint == FlushAndClose("truncate")
RotateLog  == FlushAndClose("rename")

\* The path holds an empty file: O_TRUNC of Checkpoint, or the new file of
\* RotateLog.  Both come with a fresh writer.
EmptyFile ==
  /\ header' = "absent" /\ file' = <<>> /\ durable' = -1

CheckpointTruncate ==
  /\ step = "truncate"
  /\ EmptyFile
  /\ step' = "header"
  /\ UNCHANGED <<archives, handle, writer, sequence, batchCount, faults>>

\* Mutant: the archive is named before the last Append is counted.
ArchiveStaleName ==
  LET name == IF sequence = 0 THEN 0 ELSE sequence - 1
  IN  archives' = [n \in DOMAIN archives \union {name} |->
                     IF n = name THEN file ELSE archives[n]]

\* os.Rename to path.sequence replaces an archive of that name.
Archive ==
  archives' = [n \in DOMAIN archives \union {sequence} |->
                 IF n = sequence THEN file ELSE archives[n]]

RotateRename ==
  /\ step = "rename"
  /\ Archive
  /\ EmptyFile
  /\ step' = "header"
  /\ UNCHANGED <<handle, writer, sequence, batchCount, faults>>

WriteHeader ==
  /\ step = "header"
  /\ header' = "ok"
  /\ step' = "idle"
  /\ UNCHANGED <<file, durable, archives, handle, writer, sequence, batchCount, faults>>

WriteHeaderFails ==
  /\ step = "header"
  /\ Fault("write")
  /\ header' \in {"absent", "bad"}
  /\ writer' = "failed"
  /\ step' = "idle"
  /\ UNCHANGED <<file, durable, archives, handle, sequence, batchCount>>

\* OpenFile (or, in RotateLog, Rename) fails after Close: the WAL keeps a
\* closed file and every later call on it fails.
ReopenFails ==
  /\ step \in {"truncate", "rename"}
  /\ Fault("open")
  /\ handle' = "closed"
  /\ step' = "idle"
  /\ UNCHANGED <<diskVars, writer, sequence, batchCount>>

\* RotateLog's OpenFile fails after the rename: the path is gone as well.
RotateCreateFails ==
  /\ step = "rename"
  /\ Fault("open")
  /\ Archive
  /\ EmptyFile
  /\ handle' = "closed"
  /\ step' = "idle"
  /\ UNCHANGED <<writer, sequence, batchCount>>

-----------------------------------------------------------------------------
ProcessGone ==
  /\ handle' = "none" /\ writer' = "ok" /\ step' = "idle"
  /\ sequence' = 0 /\ batchCount' = 0

\* The process ends after Close, when NewWAL failed, or to recover a failed writer.
Exit ==
  /\ handle \in {"closed", "rejected"} \/ writer = "failed"
  /\ ProcessGone
  /\ UNCHANGED <<diskVars, faults>>

\* The process is killed: the operating system keeps what was flushed.
Kill ==
  /\ handle \in {"open", "closed"}
  /\ Fault("kill")
  /\ ProcessGone
  /\ UNCHANGED diskVars

\* What power loss leaves of the entries: at least the first from of them, and
\* possibly a part of the next one.
Cut(from) ==
  \E n \in from .. Len(file) :
    \/ file' = SubSeq(file, 1, n)
    \/ "tear" \in Faults /\ n < Len(file) /\ file' = Append(SubSeq(file, 1, n), Torn)

\* Power fails, with or without a running process.
PowerLoss ==
  /\ handle # "rejected"
  /\ Fault("power")
  /\ ProcessGone
  /\ UNCHANGED archives
  /\ \/ durable >= 0 /\ Cut(durable) /\ durable' = Len(file') /\ UNCHANGED header
     \/ durable = -1 /\ header = "ok" /\ Cut(0) /\ durable' = Len(file') /\ UNCHANGED header
     \/ /\ durable = -1 /\ file' = <<>> /\ UNCHANGED durable
        /\ header' \in {"absent"} \union (IF "tear" \in Faults /\ header = "ok" THEN {"bad"} ELSE {})
     \/ durable = -1 /\ header = "bad" /\ UNCHANGED <<header, file, durable>>

-----------------------------------------------------------------------------
WALNext ==
  \/ NewWALEmpty \/ NewWALExisting \/ NewWALRejected \/ NewWALFails
  \/ \E p \in Calls : AppendWrite(p)
  \/ AppendFsync \/ AppendFsyncFails \/ AppendWriteFails \/ AppendRefused
  \/ Sync \/ SyncFails \/ Close
  \/ Checkpoint \/ CheckpointTruncate \/ RotateLog \/ RotateRename
  \/ WriteHeader \/ WriteHeaderFails \/ ReopenFails \/ RotateCreateFails
  \/ Exit \/ Kill \/ PowerLoss

WALSpec == WALInit /\ [][WALNext]_walVars

-----------------------------------------------------------------------------
WALTypeOK ==
  /\ header \in {"absent", "ok", "bad"}
  /\ file \in Seq(LogEntry \union {Torn})
  /\ durable \in -1 .. Len(file)
  /\ DOMAIN archives \subseteq Nat
  /\ \A n \in DOMAIN archives : archives[n] \in Seq(LogEntry \union {Torn})
  /\ handle \in {"none", "open", "closed", "rejected"}
  /\ writer \in {"ok", "failed"}
  /\ step \in {"idle", "fsync", "truncate", "rename", "header"}
  /\ sequence \in Nat /\ batchCount \in Nat /\ faults \in Nat

Ascending(f, n) == \A i, j \in 1 .. n : i < j => f[i].seq < f[j].seq

\* The entries recovery can read carry ascending sequence numbers, and the
\* next Append of an open WAL goes beyond them all: validateAndRecover and
\* Append together never repeat or reorder a number within one file.
SequenceAscends ==
  \A n \in 0 .. Len(file) : ReadableUpTo(n) =>
    /\ Ascending(file, n)
    /\ handle = "open" => \A i \in 1 .. n : file[i].seq <= sequence

\* The file RotateLog names path.a can be replayed in order and holds nothing
\* with a number beyond a, whatever crashes and rotations led to it.
ArchiveCovers ==
  \A a \in DOMAIN archives : \A n \in 0 .. Len(archives[a]) : Readable(archives[a], n) =>
    /\ Ascending(archives[a], n)
    /\ \A i \in 1 .. n : archives[a][i].seq <= a

\* A sequence number is never used twice, in the log and its archives together
\* (WAL_IMPLEMENTATION_SUMMARY.md: "Sequence numbers must be unique even after
\* restart").
SequenceUnique ==
  \A a \in DOMAIN archives : \A i \in DOMAIN archives[a], j \in DOMAIN file :
    archives[a][i] # Torn /\ file[j] # Torn => archives[a][i].seq # file[j].seq

=============================================================================
