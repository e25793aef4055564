----------------------------- MODULE LossProofs -----------------------------
(***************************************************************************)
(* How much SyncBatch leaves to a power loss, for every batch size, every  *)
(* set of keys and values and every number of faults.  A process that is   *)
(* killed, or that ends after a failed write or fsync, forgets how many    *)
(* entries it has not fsynced; these faults are left out.                  *)
(***************************************************************************)
EXTENDS DurableProofs, FiniteSetTheorems

\* The entries fsync has made safe, and the acknowledged ones it has not.
Safe   == IF durable = -1 THEN 0 ELSE durable
AtRisk == {i \in acked : i > durable}

\* An open WAL counts its unsynced entries in batchCount, one that is about to
\* fsync has at most a batch of them, of which the last is not acknowledged.
BatchInv ==
  /\ IsFiniteSet(AtRisk) /\ Cardinality(AtRisk) < batchSize
  /\ handle \in {"open", "closed"} => acked \subseteq 1 .. Len(file)
  /\ handle = "open" => writer = "ok"
  /\ batchCount < batchSize
  /\ handle # "open" \/ step \notin {"idle", "fsync"} => Safe = Len(file)
  /\ step = "idle" /\ handle = "open" => Len(file) - Safe <= batchCount
  /\ step = "fsync" => acked \subseteq 1 .. Len(file) - 1 /\ Len(file) - Safe <= batchSize

\* The acknowledged entries behind position d, of n.
LEMMA FewAtRisk ==
  ASSUME NEW n \in Nat, NEW d \in Int, d >= -1, NEW S \in SUBSET (1 .. n),
         NEW b \in Nat, b > 0, n - (IF d = -1 THEN 0 ELSE d) < b
  PROVE  IsFiniteSet({i \in S : i > d}) /\ Cardinality({i \in S : i > d}) < b
<1> DEFINE from == IF d = -1 THEN 1 ELSE d + 1
           T    == {i \in S : i > d}
<1>1. from \in Int /\ T \in SUBSET (from .. n)
  <2>1. from \in Int
    OBVIOUS
  <2>2. ASSUME NEW i \in S, i > d  PROVE i \in from .. n
    BY <2>2
  <2> QED  BY <2>1, <2>2, Zenon
<1>2. IsFiniteSet(from .. n) /\ Cardinality(from .. n) = IF from > n THEN 0 ELSE n - from + 1
  BY <1>1, FS_Interval
<1>3. IsFiniteSet(T) /\ Cardinality(T) <= Cardinality(from .. n)
  BY <1>1, <1>2, FS_Subset
<1>4. Cardinality(T) \in Nat
  BY <1>3, FS_CardinalityType
<1>5. Cardinality(from .. n) < b
  BY <1>2
<1> HIDE DEF T, from
<1>6. Cardinality(from .. n) \in Int
  BY <1>1, <1>2
<1>7. Cardinality(T) < b
  BY <1>3, <1>4, <1>5, <1>6
<1> QED  BY <1>3, <1>7 DEF T

\* A batch is at least one entry.
LEMMA BatchSizeType == batchSize \in Nat /\ batchSize > 0
  BY WALAssumption DEF batchSize

\* Every step keeps the unsynced entries within the count.
LEMMA BatchStep ==
  ASSUME SyncMode = "SyncBatch", Faults \subseteq {"power", "tear", "open"},
         TypeOK, CallInv, SeqInv, BatchInv, [Next]_vars, TypeOK'
  PROVE  BatchInv'
<1>f. /\ file \in Seq(Elements) /\ Len(file) \in Nat /\ DOMAIN file = 1 .. Len(file)
      /\ file' \in Seq(Elements) /\ Len(file') \in Nat
      /\ Len(batch) \in Nat /\ logged \in Nat /\ applied \in Nat /\ batchCount \in Nat
      /\ durable \in Int /\ durable >= -1 /\ durable <= Len(file)
      /\ durable' \in Int /\ durable' >= -1 /\ durable' <= Len(file')
      /\ handle \in {"none", "open", "closed", "rejected"}
  BY LenProperties DEF TypeOK, WALTypeOK, Elements
<1>b. batchSize \in Nat /\ batchSize > 0
  BY BatchSizeType
<1>n. ~Fault("write") /\ ~Fault("fsync") /\ ~Fault("kill")
  BY DEF Fault
\* It is enough to know what is acknowledged and how much is unsynced.
<1>r. ASSUME handle' = "open" => writer' = "ok", batchCount' < batchSize, step' = "idle" \/ handle' = "open",
             acked' \subseteq 1 .. Len(file'),
             handle' # "open" \/ step' \notin {"idle", "fsync"} => Safe' = Len(file'),
             step' = "idle" /\ handle' = "open" => Len(file') - Safe' <= batchCount',
             step' = "fsync" => acked' \subseteq 1 .. Len(file') - 1 /\ Len(file') - Safe' <= batchSize
      PROVE  BatchInv'
  <2>1. batchCount' \in Nat
    BY DEF TypeOK, WALTypeOK
  <2>2. Safe' \in Nat /\ Safe' = IF durable' = -1 THEN 0 ELSE durable'
    BY <1>f DEF Safe
  <2>3. IsFiniteSet(AtRisk') /\ Cardinality(AtRisk') < batchSize
    <3>1. CASE step' = "fsync"
      <4>1. CASE Len(file') = 0
        <5>1. Len(file') - (IF durable' = -1 THEN 0 ELSE durable') < batchSize
          <6>1. durable' = -1 \/ durable' = 0
            BY <1>f, <4>1
          <6>2. Len(file') - (IF durable' = -1 THEN 0 ELSE durable') = 0
            BY <4>1, <6>1
          <6> QED  BY <1>b, <6>2
        <5> QED  BY <1>b, <1>f, <1>r, <5>1, FewAtRisk, Zenon DEF AtRisk
      <4>2. CASE Len(file') > 0
        <5>1. /\ Len(file') - 1 \in Nat /\ acked' \in SUBSET (1 .. Len(file') - 1)
              /\ Len(file') - 1 - (IF durable' = -1 THEN 0 ELSE durable') < batchSize
          BY <1>b, <1>f, <1>r, <2>2, <3>1, <4>2
        <5> QED  BY <1>b, <1>f, <5>1, FewAtRisk, Zenon DEF AtRisk
      <4> QED  BY <1>f, <4>1, <4>2
    <3>2. CASE step' # "fsync"
      <4>1. Len(file') - (IF durable' = -1 THEN 0 ELSE durable') < batchSize
        BY <1>b, <1>f, <1>r, <2>1, <2>2, <3>2
      <4> QED  BY <1>b, <1>f, <1>r, <4>1, FewAtRisk, Zenon DEF AtRisk
    <3> QED  BY <3>1, <3>2
  <2>4. batchSize' = batchSize
    BY DEF batchSize
  <2> QED  BY <1>r, <2>3, <2>4 DEF BatchInv
\* Nothing is written and the call acknowledges nothing.
<1>u. ASSUME UNCHANGED <<file, durable, acked>>, handle \in {"open", "closed"},
             \/ UNCHANGED <<handle, writer, step, batchCount>>
             \/ handle' = "closed" /\ step' = "idle" /\ Safe = Len(file) /\ batchCount' < batchSize
             \/ handle' = "open" /\ handle = "open" /\ UNCHANGED <<writer, batchCount>> /\ Safe = Len(file) /\ step' # "fsync"
      PROVE  BatchInv'
  <2>1. Safe' = Safe
    BY <1>u DEF Safe
  <2>2. acked' \subseteq 1 .. Len(file')
    BY <1>u DEF BatchInv
  <2>3. Safe \in Nat
    BY <1>f DEF Safe
  <2>4. CASE UNCHANGED <<handle, writer, step, batchCount>>
    BY <1>u, <2>1, <2>4 DEF BatchInv, AtRisk, batchSize
  <2>5. CASE handle' = "closed" /\ step' = "idle" /\ Safe = Len(file) /\ batchCount' < batchSize
    BY <1>r, <1>u, <2>1, <2>2, <2>5
  <2>6. CASE /\ handle' = "open" /\ handle = "open" /\ UNCHANGED <<writer, batchCount>>
             /\ Safe = Len(file) /\ step' # "fsync"
    <3>1. Len(file') - Safe' <= batchCount'
      BY <1>f, <1>u, <2>1, <2>6
    <3> QED  BY <1>r, <1>u, <2>1, <2>2, <2>6, <3>1 DEF BatchInv
  <2> QED  BY <1>u, <2>4, <2>5, <2>6
\* The whole file is fsynced.
<1>a. ASSUME UNCHANGED <<file, acked, writer, batchCount>>, durable' = Len(file), handle = "open",
             (handle' = "open" /\ step' # "fsync") \/ (handle' = "closed" /\ step' = "idle")
      PROVE  BatchInv'
  <2>1. Safe' = Len(file')
    BY <1>a, <1>f DEF Safe
  <2>2. Len(file') - Safe' <= batchCount'
    BY <1>a, <1>f, <2>1
  <2> QED  BY <1>a, <1>r, <2>1, <2>2 DEF BatchInv
<1>s. handle \notin {"none", "rejected"} \/ kind = "none"
  BY DEF CallInv
<1> USE DEF callVars, histVars, dbVars, diskVars, procVars, walVars
<1>1. CASE Open
  <2>1. /\ handle = "none" /\ handle' = "open" /\ writer' = "ok" /\ batchCount' = 0
        /\ UNCHANGED <<file, durable, step>> /\ acked' \subseteq acked \intersect DOMAIN file
    BY <1>1 DEF Open, NewWALEmpty, NewWALExisting
  <2>2. step = "idle" /\ Safe = Len(file)
    BY <2>1 DEF SeqInv, BatchInv
  <2>3. Safe' = Safe
    BY <2>1 DEF Safe
  <2>4. Len(file') - Safe' <= batchCount'
    BY <1>f, <2>1, <2>2, <2>3
  <2> QED  BY <1>b, <1>f, <1>r, <2>1, <2>2, <2>3, <2>4, SMTT(30)
<1>2. CASE OpenFails
  <2>1. /\ handle = "none" /\ handle' = "rejected"
        /\ UNCHANGED <<file, durable, step, writer, batchCount, acked>>
    BY <1>2, <1>n DEF OpenFails, NewWALRejected, NewWALFails
  <2>2. Safe' = Safe /\ AtRisk' = AtRisk /\ step = "idle"
    BY <2>1 DEF Safe, AtRisk, SeqInv
  <2> QED  BY <2>1, <2>2 DEF BatchInv, batchSize
<1>3. CASE ReplayEntry \/ ReplayDone
  BY <1>3, <1>f, <1>s, <1>u DEF ReplayEntry, ReplayDone
<1>4. CASE (\E p \in Calls : Write(p)) \/ (\E b \in Bulks : BulkInsert(b))
  BY <1>4, <1>u DEF Write, BulkInsert, Running
<1>5. CASE Log
  <2> DEFINE e == [seq |-> sequence + 1, op |-> batch[logged + 1].op,
                   key |-> batch[logged + 1].key, value |-> batch[logged + 1].value]
  <2>1. /\ logged < Len(batch) /\ file' = Append(file, e) /\ CountEntry
        /\ step' = (IF SyncDue THEN "fsync" ELSE "idle")
        /\ handle = "open" /\ step = "idle" /\ UNCHANGED <<acked, durable, handle, writer>>
    BY <1>5 DEF Log, Logging, AppendWrite, Ready
  <2>2. batch[logged + 1] \in Operations /\ sequence + 1 \in Nat
    BY <1>f, <2>1, NextOperation, SMTT(30) DEF TypeOK, WALTypeOK
  <2>3. e \in Elements
    BY <2>2, EntryWritten, Zenon DEF EntryOf
  <2> HIDE DEF e
  <2>4. Len(file') = Len(file) + 1 /\ Safe' = Safe /\ Safe \in Nat
    BY <1>f, <2>1, <2>3, AppendElement DEF Safe
  <2>5. acked' \subseteq 1 .. Len(file') - 1 /\ acked' \subseteq 1 .. Len(file')
    <3>1. acked' \subseteq 1 .. Len(file)
      BY <2>1 DEF BatchInv
    <3> QED  BY <1>f, <2>4, <3>1
  <2>6. Len(file') - Safe' <= batchCount + 1 /\ batchCount + 1 <= batchSize
    BY <1>b, <1>f, <2>1, <2>4, SMTT(30) DEF BatchInv
  <2>7. CASE SyncDue
    <3>1. batchCount' = 0 /\ step' = "fsync"
      BY <2>1, <2>7 DEF CountEntry, syncMode
    <3>2. Len(file') - Safe' <= batchSize
      BY <1>b, <1>f, <2>4, <2>6, SMTT(30)
    <3> QED  BY <1>b, <1>r, <2>1, <2>5, <3>1, <3>2, SMTT(30) DEF BatchInv
  <2>8. CASE ~SyncDue
    <3>1. batchCount' = batchCount + 1 /\ step' = "idle" /\ ~(batchCount + 1 >= batchSize)
      BY <2>1, <2>8 DEF CountEntry, SyncDue, syncMode
    <3>2. batchCount' < batchSize /\ Len(file') - Safe' <= batchCount'
      BY <1>b, <1>f, <2>6, <3>1, SMTT(30)
    <3> QED  BY <1>r, <2>1, <2>5, <3>1, <3>2, SMTT(30) DEF BatchInv
  <2> QED  BY <2>7, <2>8
<1>6. CASE LogFsync
  <2>1. handle = "open"
    BY <1>6 DEF LogFsync, AppendFsync, SeqInv
  <2> QED  BY <1>6, <1>a, <2>1, SMTT(30) DEF LogFsync, AppendFsync
<1>7. CASE LogFails
  <2>1. AppendRefused /\ UNCHANGED acked
    BY <1>7, <1>n DEF LogFails, AppendFsyncFails, AppendWriteFails
  <2>2. handle = "closed" /\ handle' = "closed" /\ step' = "idle" /\ UNCHANGED <<file, durable>>
    BY <2>1 DEF AppendRefused, BatchInv
  <2>3. batchCount' < batchSize
    <3>1. CASE CountEntry
      <4>1. CASE SyncDue
        BY <1>b, <3>1, <4>1 DEF CountEntry, syncMode
      <4>2. CASE ~SyncDue
        BY <1>b, <1>f, <3>1, <4>2 DEF CountEntry, SyncDue, syncMode
      <4> QED  BY <4>1, <4>2
    <3>2. CASE UNCHANGED batchCount
      BY <3>2 DEF BatchInv
    <3> QED  BY <2>1, <3>1, <3>2 DEF AppendRefused
  <2> QED  BY <1>u, <2>1, <2>2, <2>3, SMTT(30) DEF BatchInv
<1>8. CASE BulkSync
  BY <1>8, <1>a DEF BulkSync, Sync, Ready
<1>9. CASE BulkSyncFails
  BY <1>9, <1>n DEF BulkSyncFails, SyncFails
<1>10. CASE ApplyNext
  <2>1. /\ kind \in {"write", "apply"} /\ step = "idle" /\ logged = Len(batch)
        /\ UNCHANGED <<file, durable, handle, writer, step, batchCount>>
    BY <1>10 DEF ApplyNext, AllLogged
  <2>2. handle \in {"open", "closed"}
    BY <1>f, <1>s, <2>1
  <2>3. CASE UNCHANGED acked
    BY <1>u, <2>1, <2>2, <2>3, SMTT(30)
  <2>4. CASE acked' = acked \union (Len(file) - logged + 1 .. Len(file))
    <3>1. logged <= Len(file)
      BY <2>1 DEF CallInv
    <3>2. Len(file) - logged + 1 .. Len(file) \subseteq 1 .. Len(file)
      BY <1>f, <3>1
    <3>3. acked' \subseteq 1 .. Len(file')
      BY <2>1, <2>2, <2>4, <3>2 DEF BatchInv
    <3>4. Safe' = Safe
      BY <2>1 DEF Safe
    <3> QED  BY <1>r, <2>1, <3>3, <3>4, SMTT(30) DEF BatchInv
  <2> QED  BY <1>10, <2>3, <2>4, SMTT(30) DEF ApplyNext
<1>11. CASE DBSync
  BY <1>11, <1>a, <1>n DEF DBSync, Sync, SyncFails, Ready
<1>12. CASE DBClose \/ DBCheckpoint
  <2>1. CASE DBClose
    BY <1>a, <2>1 DEF DBClose, Close, Ready
  <2>2. CASE DBCheckpoint
    <3>1. /\ UNCHANGED <<file, acked, writer, batchCount, handle>> /\ durable' = Len(file)
          /\ handle = "open" /\ step' = "truncate"
      BY <2>2 DEF DBCheckpoint, Checkpoint, FlushAndClose, Ready
    <3> QED  BY <1>a, <3>1
  <2> QED  BY <1>12, <2>1, <2>2
<1>13. CASE TruncateLog
  <2>1. /\ file' = <<>> /\ durable' = -1 /\ acked' = {} /\ step' = "header"
        /\ UNCHANGED <<handle, writer, batchCount>> /\ handle = "open"
    BY <1>13 DEF TruncateLog, CheckpointTruncate, EmptyFile, SeqInv
  <2>2. Safe' = 0 /\ Len(file') = 0
    BY <2>1, EmptySeq DEF Safe
  <2> QED  BY <1>r, <2>1, <2>2, SMTT(30) DEF BatchInv
<1>14. CASE CheckpointEnds
  <2>1. step \notin {"idle", "fsync"} /\ handle = "open"
    BY <1>14 DEF CheckpointEnds, WriteHeader, WriteHeaderFails, ReopenFails, SeqInv
  <2>2. Safe = Len(file) /\ batchCount < batchSize
    BY <2>1 DEF BatchInv
  <2> QED
    BY <1>14, <1>n, <1>u, <2>1, <2>2, SMTT(30) DEF CheckpointEnds, WriteHeader, WriteHeaderFails, ReopenFails
<1>15. CASE Crash
  <2>1. /\ handle' = "none" /\ step' = "idle" /\ batchCount' = 0 /\ UNCHANGED acked
        /\ Exit \/ PowerLoss
    BY <1>15, <1>n DEF Crash, Exit, Kill, PowerLoss, ProcessGone
  \* No entry that was safe is lost, and what is left is safe.
  <2>2. ASSUME durable' >= durable, Safe' = Len(file')  PROVE BatchInv'
    <3>1. AtRisk' \in SUBSET AtRisk
      <4>1. ASSUME NEW i \in acked, i > durable'  PROVE i > durable
        BY <1>f, <2>2, <4>1 DEF TypeOK
      <4> QED  BY <2>1, <4>1 DEF AtRisk
    <3>2. IsFiniteSet(AtRisk) /\ Cardinality(AtRisk) < batchSize
      BY DEF BatchInv
    <3>3. IsFiniteSet(AtRisk') /\ Cardinality(AtRisk') <= Cardinality(AtRisk)
      BY <3>1, <3>2, FS_Subset
    <3>4. Cardinality(AtRisk') \in Nat /\ Cardinality(AtRisk) \in Nat
      BY <3>2, <3>3, FS_CardinalityType
    <3>5. Cardinality(AtRisk') < batchSize /\ batchSize' = batchSize
      BY <1>b, <3>2, <3>3, <3>4 DEF batchSize
    <3> QED  BY <1>b, <2>1, <2>2, <3>3, <3>5, SMTT(30) DEF BatchInv
  <2>3. CASE Exit
    <3>1. UNCHANGED <<file, durable>> /\ handle # "open"
      BY <2>3 DEF Exit, BatchInv
    <3>2. Safe' = Safe /\ Safe = Len(file)
      BY <3>1 DEF Safe, BatchInv
    <3> QED  BY <1>f, <2>2, <3>1, <3>2, SMTT(30)
  <2>4. CASE PowerLoss
    <3>1. CASE durable >= 0 /\ Cut(durable) /\ durable' = Len(file')
      <4>1. Len(file') >= durable
        BY <1>f, <3>1, CutElements
      <4>2. Safe' = Len(file')
        BY <1>f, <3>1 DEF Safe
      <4> QED  BY <2>2, <3>1, <4>1, <4>2, SMTT(30)
    <3>2. CASE durable = -1 /\ durable' = Len(file')
      <4>1. Safe' = Len(file') /\ durable' >= durable
        BY <1>f, <3>2 DEF Safe
      <4> QED  BY <2>2, <4>1
    <3>3. CASE durable = -1 /\ durable' = -1 /\ file' = <<>>
      <4>1. Safe' = 0 /\ Len(file') = 0 /\ durable' >= durable
        BY <1>f, <3>3, EmptySeq DEF Safe
      <4> QED  BY <2>2, <4>1
    <3>4. CASE durable = -1 /\ header = "bad" /\ UNCHANGED <<file, durable>>
      <4>1. file' = <<>>
        BY <3>4 DEF SeqInv
      <4> QED  BY <3>3, <3>4, <4>1
    <3> QED  BY <2>4, <3>1, <3>2, <3>3, <3>4, SMTT(30) DEF PowerLoss
  <2> QED  BY <2>1, <2>3, <2>4
<1>16. CASE UNCHANGED vars
  BY <1>16 DEF vars, BatchInv, AtRisk, Safe, batchSize
<1> QED
  BY <1>1, <1>2, <1>3, <1>4, <1>5, <1>6, <1>7, <1>8, <1>9, <1>10, <1>11, <1>12, <1>13,
     <1>14, <1>15, <1>16, SMTT(30) DEF Next

\* SyncBatch, whatever the batch size and however often the power fails: fewer
\* acknowledged operations than a batch are not fsynced or have been lost.
THEOREM LossBounded ==
  ASSUME SyncMode = "SyncBatch", Faults \subseteq {"power", "tear", "open"}
  PROVE  Spec => []LossBound
<1>1. Init => SeqInv /\ BatchInv
  <2> SUFFICES ASSUME Init  PROVE SeqInv /\ BatchInv
    OBVIOUS
  <2>1. AtRisk = {} /\ Safe = 0 /\ Len(file) = 0 /\ batchCount = 0 /\ acked = {} /\ step = "idle" /\ handle = "none"
    BY EmptySeq DEF Init, WALInit, AtRisk, Safe
  <2>2. IsFiniteSet(AtRisk) /\ Cardinality(AtRisk) < batchSize
    BY <2>1, FS_EmptySet, BatchSizeType
  <2> QED  BY <2>1, <2>2, BatchSizeType, WALInitOK DEF Init, BatchInv
<1>2. TypeOK /\ SeqInv /\ [Next]_vars => SeqInv'
  BY StepsOfLog, SeqStep DEF TypeOK, WALStep, vars
<1>3. TypeOK /\ CallInv /\ SeqInv /\ BatchInv /\ [Next]_vars /\ TypeOK' => BatchInv'
  BY BatchStep
<1>4. BatchInv => LossBound
  BY DEF BatchInv, LossBound, AtRisk
<1> QED  BY <1>1, <1>2, <1>3, <1>4, CallCorrect, PTL DEF Spec

=============================================================================
