--------------------------- MODULE DurableProofs ---------------------------
(***************************************************************************)
(* Proofs about DurableBTree, for every set of keys and values, every sync *)
(* mode and every kind and number of faults.                               *)
(***************************************************************************)
EXTENDS DurableBTree, WALProofs

Tree == [Keys -> Values \union {NoValue}]

\* What one operation does to the tree, key by key: the callback of recover
\* and the second half of every call.
LEMMA ApplyEffect ==
  ASSUME NEW t \in Tree, NEW e \in Operations \union LogEntry
  PROVE  /\ Apply(t, e) \in Tree
         /\ \A k \in Keys :
              Apply(t, e)[k] = IF e.op = "clear" \/ e.key = k THEN e.value ELSE t[k]
<1>1. CASE e.op = "insert"
  <2>1. Apply(t, e) = [t EXCEPT ![e.key] = e.value]
    BY <1>1 DEF Apply
  <2>2. e.value \in Values
    BY <1>1 DEF Operations, LogEntry
  <2> QED  BY <1>1, <2>1, <2>2, Zenon DEF Tree
<1>2. CASE e.op = "delete"
  <2>1. Apply(t, e) = [t EXCEPT ![e.key] = NoValue]
    BY <1>2 DEF Apply
  <2>2. e.value = NoValue
    BY <1>2 DEF Operations, LogEntry
  <2> QED  BY <1>2, <2>1, <2>2, Zenon DEF Tree
<1>3. CASE e.op = "clear"
  <2>1. Apply(t, e) = EmptyTree
    BY <1>3 DEF Apply
  <2>2. e.value = NoValue
    BY <1>3 DEF Operations, LogEntry
  <2> QED  BY <1>3, <2>1, <2>2 DEF Tree, EmptyTree
<1>4. e.op \in {"insert", "delete", "clear"}
  BY DEF Operations, LogEntry
<1> QED  BY <1>1, <1>2, <1>3, <1>4

\* The operation the running call appends or applies next is one.
LEMMA NextOperation ==
  ASSUME TypeOK, NEW n \in Nat, n < Len(batch)
  PROVE  batch[n + 1] \in Operations
<1>1. batch \in Seq(Operations) /\ Len(batch) \in Nat
  BY LenProperties DEF TypeOK
<1> QED  BY <1>1, ElementOfSeq

\* Each step of the durable tree is a step of its log or leaves the log alone.
LEMMA StepsOfLog == TypeOK /\ Next => WALStep
<1> SUFFICES ASSUME TypeOK, Next  PROVE WALStep
  OBVIOUS
<1>1. CASE Log
  <2>1. logged \in Nat /\ logged < Len(batch)
    BY <1>1, LenProperties DEF Log, Logging, TypeOK
  <2>2. batch[logged + 1] \in Operations
    BY <2>1, NextOperation
  <2> QED  BY <1>1, <2>2 DEF Log, WALStep
<1>2. CASE Open
  BY <1>2 DEF Open, WALStep, WALNext
<1>3. CASE OpenFails
  BY <1>3 DEF OpenFails, WALStep, WALNext
<1>4. CASE ReplayEntry \/ ReplayDone \/ ApplyNext
  BY <1>4 DEF ReplayEntry, ReplayDone, ApplyNext, WALStep
<1>5. CASE (\E p \in Calls : Write(p)) \/ (\E b \in Bulks : BulkInsert(b))
  BY <1>5 DEF Write, BulkInsert, WALStep
<1>6. CASE LogFsync
  BY <1>6 DEF LogFsync, WALStep, WALNext
<1>7. CASE LogFails
  BY <1>7 DEF LogFails, WALStep, WALNext
<1>8. CASE BulkSync \/ BulkSyncFails \/ DBSync \/ DBClose \/ DBCheckpoint
  BY <1>8 DEF BulkSync, BulkSyncFails, DBSync, DBClose, DBCheckpoint, WALStep, WALNext
<1>9. CASE TruncateLog
  BY <1>9 DEF TruncateLog, WALStep, WALNext
<1>10. CASE CheckpointEnds
  BY <1>10 DEF CheckpointEnds, WALStep, WALNext
<1>11. CASE Crash
  BY <1>11 DEF Crash, WALStep, WALNext
<1> QED
  BY <1>1, <1>2, <1>3, <1>4, <1>5, <1>6, <1>7, <1>8, <1>9, <1>10, <1>11 DEF Next

\* The initial state is well typed.
LEMMA InitType == Init => TypeOK
<1> SUFFICES ASSUME Init  PROVE TypeOK
  OBVIOUS
<1>1. WALTypeOK
  BY EmptySeq DEF Init, WALInit, WALTypeOK
<1>2. EmptyTree \in Tree
  BY SMTT(30) DEF EmptyTree, Tree
<1> QED  BY <1>1, <1>2, EmptySeq DEF Init, TypeOK, Tree

\* Every step of the durable tree preserves its types.
LEMMA TypeStep == TypeOK /\ CallInv /\ [Next]_vars => TypeOK'
<1> SUFFICES ASSUME TypeOK, CallInv, [Next]_vars  PROVE TypeOK'
  OBVIOUS
<1>w. WALTypeOK'
  <2>1. WALTypeOK /\ WALStep
    BY StepsOfLog DEF TypeOK, WALStep, vars
  <2> QED  BY <2>1, WALTypeStep
<1>f. /\ file \in Seq(Elements) /\ Len(file) \in Nat /\ DOMAIN file = 1 .. Len(file)
      /\ file' \in Seq(Elements) /\ Len(file') \in Nat /\ DOMAIN file' = 1 .. Len(file')
  <2>1. file \in Seq(Elements) /\ file' \in Seq(Elements)
    BY <1>w DEF TypeOK, WALTypeOK, Elements
  <2> QED  BY <2>1, LenProperties
<1>b. Len(batch) \in Nat
  BY LenProperties DEF TypeOK
<1>e. EmptyTree \in Tree
  BY DEF EmptyTree, Tree
<1>n. ASSUME NoCall
      PROVE  /\ kind' = "none" /\ batch' \in Seq(Operations)
             /\ logged' \in 0 .. Len(batch') /\ applied' \in Nat
  BY <1>n, EmptySeq DEF NoCall
<1> USE DEF TypeOK, Tree, callVars, histVars, dbVars
<1>1. CASE Open
  <2>1. UNCHANGED file
    BY <1>1 DEF Open, NewWALEmpty, NewWALExisting, diskVars
  <2> QED  BY <1>1, <1>w, <1>e, <1>f, <2>1 DEF Open
<1>2. CASE OpenFails
  <2>1. UNCHANGED file
    BY <1>2 DEF OpenFails, NewWALRejected, NewWALFails, diskVars
  <2> QED  BY <1>2, <1>w, <2>1 DEF OpenFails
<1>3. CASE ReplayEntry
  <2>1. applied + 1 \in 1 .. Len(file) /\ applied + 1 \in Nat
    BY <1>3, <1>f DEF ReplayEntry
  <2>2. file[applied + 1] \in LogEntry
    BY <1>3, <1>f, <2>1, ElementOfSeq DEF ReplayEntry, Elements
  <2>3. tree' \in Tree
    BY <1>3, <2>2, ApplyEffect DEF ReplayEntry
  <2> QED  BY <1>3, <1>w, <2>1, <2>3 DEF ReplayEntry, walVars, diskVars
<1>4. CASE ReplayDone
  BY <1>4, <1>w, <1>n DEF ReplayDone, walVars, diskVars
<1>5. CASE \E p \in Calls : Write(p)
  <2>1. PICK p \in Calls : Write(p)
    BY <1>5
  <2>2. p \in Operations
    BY CallsAssumption
  <2>3. <<p>> \in Seq(Operations) /\ Len(<<p>>) = 1
    BY <2>2
  <2> QED  BY <1>w, <2>1, <2>3 DEF Write, walVars, diskVars
<1>6. CASE \E b \in Bulks : BulkInsert(b)
  <2>1. PICK b \in Bulks : BulkInsert(b)
    BY <1>6
  <2>2. b \in Seq([op : {"insert"}, key : Keys, value : Values])
    BY BulksAssumption, Zenon
  <2>3. b \in Seq(Operations) /\ Len(b) \in Nat
    BY <2>2, SeqMonotonic, LenProperties, Zenon DEF Operations
  <2>4. Len(file) + 1 .. Len(file) + Len(b) \subseteq Nat
    BY <1>f, <2>3
  <2> QED  BY <1>w, <2>1, <2>3, <2>4 DEF BulkInsert, walVars, diskVars
<1>7. CASE Log
  <2>1. logged \in Nat /\ logged < Len(batch)
    BY <1>7, <1>b DEF Log, Logging
  <2>2. file' = Append(file, [seq |-> sequence + 1, op |-> batch[logged + 1].op,
                              key |-> batch[logged + 1].key, value |-> batch[logged + 1].value])
    BY <1>7 DEF Log, AppendWrite
  <2>3. Len(file') = Len(file) + 1
    BY <1>f, <2>2, AppendProperties
  <2>4. unapplied' \subseteq DOMAIN file'
    BY <1>7, <1>f, <2>3 DEF Log
  <2> QED  BY <1>7, <1>w, <1>b, <2>1, <2>4 DEF Log
<1>8. CASE LogFsync
  BY <1>8, <1>w DEF LogFsync, AppendFsync
<1>9. CASE LogFails
  <2>1. DOMAIN file \subseteq DOMAIN file'
    <3>1. CASE AppendFsyncFails
      BY <3>1 DEF AppendFsyncFails, diskVars
    <3>2. CASE AppendRefused
      BY <3>2 DEF AppendRefused, diskVars
    <3>3. CASE AppendWriteFails
      <4>1. Torn \in Elements
        BY DEF Elements
      <4>2. Len(file') >= Len(file)
        <5>1. Len(Append(file, Torn)) = Len(file) + 1
          BY <1>f, <4>1, AppendElement
        <5>2. file' = file \/ file' = Append(file, Torn)
          BY <3>3 DEF AppendWriteFails
        <5>3. CASE file' = file
          BY <1>f, <5>3
        <5>4. CASE file' = Append(file, Torn)
          <6>1. Len(file') = Len(file) + 1
            BY <5>1, <5>4, Zenon
          <6> QED  BY <1>f, <6>1
        <5> QED  BY <5>2, <5>3, <5>4
      <4> QED  BY <1>f, <4>2
    <3> QED  BY <1>9, <3>1, <3>2, <3>3 DEF LogFails
  <2> QED  BY <1>9, <1>w, <1>n, <2>1 DEF LogFails
<1>10. CASE BulkSync
  BY <1>10, <1>w DEF BulkSync, Sync
<1>11. CASE BulkSyncFails
  BY <1>11, <1>w, <1>n DEF BulkSyncFails, SyncFails, diskVars
<1>12. CASE ApplyNext
  <2>1. applied \in Nat /\ logged \in Nat /\ UNCHANGED file
    BY <1>12, <1>b DEF ApplyNext, walVars, diskVars
  <2>2. applied < Len(batch)
    BY <1>12 DEF ApplyNext, CallInv
  <2>3. tree' \in Tree
    BY <1>12, <2>1, <2>2, NextOperation, ApplyEffect DEF ApplyNext
  <2>4. logged <= Len(file)
    BY <1>12 DEF ApplyNext, CallInv
  <2>5. Len(file) - logged + 1 .. Len(file) \subseteq Nat
    BY <1>f, <2>1, <2>4
  <2>6. acked' \subseteq Nat
    BY <1>12, <2>5, Zenon DEF ApplyNext
  <2>7. applied + 1 \in Nat
    BY <2>1
  <2> QED  BY <1>12, <1>w, <1>n, <2>1, <2>3, <2>6, <2>7 DEF ApplyNext, walVars, diskVars
<1>13. CASE DBSync
  BY <1>13, <1>w DEF DBSync, Sync, SyncFails, diskVars
<1>14. CASE DBClose
  BY <1>14, <1>w DEF DBClose, Close
<1>15. CASE DBCheckpoint
  BY <1>15, <1>w DEF DBCheckpoint, Checkpoint, FlushAndClose
<1>16. CASE TruncateLog
  BY <1>16, <1>w DEF TruncateLog
<1>17. CASE CheckpointEnds
  <2>1. UNCHANGED file
    BY <1>17 DEF CheckpointEnds, WriteHeader, WriteHeaderFails, ReopenFails, diskVars
  <2> QED  BY <1>17, <1>w, <1>n, <2>1 DEF CheckpointEnds
<1>18. CASE Crash
  BY <1>18, <1>w, <1>e, <1>n DEF Crash
<1>19. CASE UNCHANGED vars
  BY <1>19, <1>w DEF vars, walVars, diskVars
<1> QED
  BY <1>1, <1>2, <1>3, <1>4, <1>5, <1>6, <1>7, <1>8, <1>9, <1>10, <1>11, <1>12, <1>13,
     <1>14, <1>15, <1>16, <1>17, <1>18, <1>19 DEF Next

\* The lock holder and what it has logged stay in step with the file.
LEMMA CallStep == TypeOK /\ CallInv /\ [Next]_vars => CallInv'
<1> SUFFICES ASSUME TypeOK, CallInv, [Next]_vars  PROVE CallInv'
  OBVIOUS
<1>f. file \in Seq(Elements) /\ Len(file) \in Nat /\ DOMAIN file = 1 .. Len(file)
  BY LenProperties DEF TypeOK, WALTypeOK, Elements
<1>b. /\ Len(batch) \in Nat /\ logged \in Nat /\ applied \in Nat
      /\ step \in {"idle", "fsync", "truncate", "rename", "header"}
  BY LenProperties DEF TypeOK, WALTypeOK
<1>n. ASSUME NoCall, step' = "idle"  PROVE CallInv'
  BY <1>n DEF CallInv, NoCall
<1>u. ASSUME UNCHANGED <<kind, batch, logged, applied, file, unapplied>>,
             handle' \in {"none", "rejected"} => handle' = handle,
             step' \in {"idle", step}
      PROVE  CallInv'
  BY <1>u DEF CallInv
<1> USE DEF callVars, histVars, dbVars, diskVars, procVars, walVars
<1>1. CASE Open
  <2>1. /\ handle = "none" /\ step' = step /\ handle' = "open" /\ file' = file
        /\ kind' = "replay" /\ applied' = 0 /\ unapplied' = DOMAIN file
    BY <1>1 DEF Open, NewWALEmpty, NewWALExisting
  <2>2. step = "idle"
    BY <1>b, <2>1 DEF CallInv
  <2> QED  BY <1>f, <2>1, <2>2 DEF CallInv
<1>2. CASE OpenFails
  <2>1. handle = "none" /\ kind' = kind /\ step' = step
    BY <1>2 DEF OpenFails, NewWALRejected, NewWALFails
  <2>2. kind = "none"
    BY <2>1 DEF CallInv
  <2> QED  BY <2>1, <2>2 DEF CallInv
<1>3. CASE ReplayEntry
  <2>1. /\ UNCHANGED <<kind, step, handle, file>>
        /\ applied' = applied + 1 /\ unapplied' = unapplied \ {applied + 1}
        /\ kind = "replay" /\ applied < Len(file)
    BY <1>3 DEF ReplayEntry
  <2>2. applied' <= Len(file') /\ applied' + 1 .. Len(file') \subseteq unapplied'
    BY <1>b, <1>f, <2>1 DEF CallInv
  <2> QED  BY <2>1, <2>2 DEF CallInv
<1>4. CASE ReplayDone
  BY <1>4, <1>n DEF ReplayDone, CallInv
<1>5. CASE \E p \in Calls : Write(p)
  <2>1. PICK p \in Calls : Write(p)
    BY <1>5
  <2>2. /\ kind' = "write" /\ batch' = <<p>> /\ logged' = 0 /\ applied' = 0
        /\ UNCHANGED <<file, step, handle, unapplied>>
        /\ step = "idle" /\ handle \in {"open", "closed"}
    BY <2>1 DEF Write, Running
  <2>3. Len(batch') = 1
    BY <2>2
  <2>4. Len(file') - logged' + applied' + 1 .. Len(file') = {}
    BY <1>f, <2>2
  <2>5. 1 .. logged' = {} /\ logged' <= Len(file')
    BY <1>f, <2>2
  <2> QED  BY <2>2, <2>3, <2>4, <2>5 DEF CallInv
<1>6. CASE \E b \in Bulks : BulkInsert(b)
  <2>1. PICK b \in Bulks : BulkInsert(b)
    BY <1>6
  <2>2. /\ kind' = "bulk" /\ batch' = b /\ logged' = 0 /\ applied' = 0
        /\ UNCHANGED <<file, step, handle, unapplied>>
        /\ step = "idle" /\ handle \in {"open", "closed"}
    BY <2>1 DEF BulkInsert, Running
  <2>3. Len(batch') > 0
    BY <2>2, BulksAssumption, EmptySeq, LenProperties
  <2>4. Len(file') - logged' + applied' + 1 .. Len(file') = {}
    BY <1>f, <2>2
  <2>5. 1 .. logged' = {} /\ logged' <= Len(file')
    BY <1>f, <2>2, SMTT(30)
  <2> QED  BY <2>2, <2>3, <2>4, <2>5 DEF CallInv
<1>7. CASE Log
  <2> DEFINE e == [seq |-> sequence + 1, op |-> batch[logged + 1].op,
                   key |-> batch[logged + 1].key, value |-> batch[logged + 1].value]
  <2>1. /\ kind \in {"write", "bulk"} /\ logged < Len(batch) /\ step = "idle"
        /\ handle = "open" /\ file' = Append(file, e)
        /\ step' \in {"fsync", "idle"} /\ logged' = logged + 1
        /\ unapplied' = unapplied \union {Len(file) + 1}
        /\ UNCHANGED <<kind, batch, applied, handle>>
    BY <1>7 DEF Log, Logging, AppendWrite, Ready
  <2>2. batch[logged + 1] \in Operations
    BY <1>b, <2>1, NextOperation DEF TypeOK
  <2>3. /\ e \in LogEntry
        /\ batch[logged + 1] = [op |-> e.op, key |-> e.key, value |-> e.value]
    <3>1. sequence + 1 \in Nat
      BY DEF TypeOK, WALTypeOK
    <3> QED  BY <2>2, <3>1, EntryWritten, Zenon DEF EntryOf
  <2>4. e \in Elements /\ e # Torn
    BY <2>3, TornAssumption, Zenon DEF Elements
  <2> HIDE DEF e
  <2>5. /\ Len(file') = Len(file) + 1
        /\ \A i \in 1 .. Len(file) : file'[i] = file[i]
        /\ file'[Len(file) + 1] = e
    BY <1>f, <2>1, <2>4, AppendElement
  <2>6. logged <= Len(file) /\ applied = 0
    BY <2>1 DEF CallInv
  <2>7. ASSUME NEW j \in 1 .. logged'
        PROVE  /\ file'[Len(file') - logged' + j] # Torn
               /\ batch'[j] = [op    |-> file'[Len(file') - logged' + j].op,
                               key   |-> file'[Len(file') - logged' + j].key,
                               value |-> file'[Len(file') - logged' + j].value]
    <3>1. CASE j = logged + 1
      <4>1. Len(file') - logged' + j = Len(file) + 1
        BY <1>b, <1>f, <2>1, <2>5, <3>1
      <4> QED  BY <2>1, <2>3, <2>4, <2>5, <3>1, <4>1, SMTT(30)
    <3>2. CASE j \in 1 .. logged
      <4>1. /\ Len(file') - logged' + j = Len(file) - logged + j
            /\ Len(file) - logged + j \in 1 .. Len(file)
        BY <1>b, <1>f, <2>1, <2>5, <2>6, <3>2, SMTT(30)
      <4>2. file'[Len(file') - logged' + j] = file[Len(file) - logged + j]
        BY <2>5, <4>1
      <4> QED  BY <2>1, <3>2, <4>2 DEF CallInv
    <3>3. j = logged + 1 \/ j \in 1 .. logged
      BY <1>b, <2>1
    <3> QED  BY <3>1, <3>2, <3>3, Zenon
  <2>8. Len(file') - logged' + applied' + 1 .. Len(file') \subseteq unapplied'
    <3>1. Len(file) - logged + applied + 1 .. Len(file) \subseteq unapplied
      BY <2>1 DEF CallInv
    <3> QED  BY <1>b, <1>f, <2>1, <2>5, <3>1, SMTT(30)
  <2>9. logged' <= Len(file') /\ applied' <= logged' /\ applied' < Len(batch')
    BY <1>b, <1>f, <2>1, <2>5, <2>6
  <2> QED  BY <2>1, <2>6, <2>7, <2>8, <2>9 DEF CallInv
<1>8. CASE LogFsync
  BY <1>8, <1>u DEF LogFsync, AppendFsync
<1>9. CASE LogFails
  <2>1. step' = "idle"
    BY <1>9 DEF LogFails, AppendFsyncFails, AppendRefused, AppendWriteFails, Ready
  <2> QED  BY <1>9, <1>n, <2>1 DEF LogFails
<1>10. CASE BulkSync
  <2>1. /\ kind = "bulk" /\ kind' = "apply" /\ logged = Len(batch)
        /\ UNCHANGED <<batch, logged, applied, file, unapplied, step, handle>>
        /\ handle = "open" /\ step = "idle"
    BY <1>10 DEF BulkSync, AllLogged, Sync, Ready
  <2> QED  BY <2>1 DEF CallInv
<1>11. CASE BulkSyncFails
  BY <1>11, <1>n DEF BulkSyncFails, SyncFails, Ready
<1>12. CASE ApplyNext
  <2>1. CASE applied + 1 < Len(batch)
    <3>1. /\ applied' = applied + 1
          /\ unapplied' = unapplied \ {Len(file) - logged + applied + 1}
          /\ UNCHANGED <<kind, batch, logged, file, step, handle>>
          /\ kind \in {"write", "apply"} /\ logged = Len(batch)
      BY <1>12, <2>1 DEF ApplyNext, AllLogged, NextPos
    <3>2. kind = "apply"
      BY <1>b, <2>1, <3>1 DEF CallInv
    <3>3. Len(file') - logged' + applied' + 1 .. Len(file') \subseteq unapplied'
      <4>1. Len(file) - logged + applied + 1 .. Len(file) \subseteq unapplied
        BY <3>1 DEF CallInv
      <4> QED  BY <1>b, <1>f, <3>1, <4>1
    <3>4. applied' <= logged' /\ applied' < Len(batch')
      BY <1>b, <2>1, <3>1
    <3> QED  BY <3>1, <3>2, <3>3, <3>4 DEF CallInv
  <2>2. CASE ~(applied + 1 < Len(batch))
    BY <1>12, <1>n, <2>2 DEF ApplyNext, AllLogged
  <2> QED  BY <2>1, <2>2
<1>13. CASE DBSync
  BY <1>13, <1>u DEF DBSync, Sync, SyncFails
<1>14. CASE DBClose
  BY <1>14, <1>u, SMTT(30) DEF DBClose, Close
<1>15. CASE DBCheckpoint
  BY <1>15, SMTT(30) DEF DBCheckpoint, Checkpoint, FlushAndClose, Ready, CallInv
<1>16. CASE TruncateLog
  BY <1>16 DEF TruncateLog, CheckpointTruncate, CallInv
<1>17. CASE CheckpointEnds
  BY <1>17, <1>n DEF CheckpointEnds, WriteHeader, WriteHeaderFails, ReopenFails
<1>18. CASE Crash
  BY <1>18, <1>n DEF Crash, Exit, Kill, PowerLoss, ProcessGone
<1>19. CASE UNCHANGED vars
  BY <1>19, <1>u DEF vars
<1> QED
  BY <1>1, <1>2, <1>3, <1>4, <1>5, <1>6, <1>7, <1>8, <1>9, <1>10, <1>11, <1>12, <1>13,
     <1>14, <1>15, <1>16, <1>17, <1>18, <1>19 DEF Next

\* The variables keep their types in every behaviour (durable never exceeds the
\* file), and whatever holds db.mu is in step with what it has put in the log.
THEOREM CallCorrect == Spec => [](TypeOK /\ CallInv)
<1>1. Init => TypeOK /\ CallInv
  BY InitType DEF Init, WALInit, CallInv
<1>2. TypeOK /\ CallInv /\ [Next]_vars => (TypeOK /\ CallInv)'
  BY TypeStep, CallStep
<1> QED  BY <1>1, <1>2, PTL DEF Spec

\* The types alone, for the run that checks them.
THEOREM TypeCorrect == Spec => []TypeOK
  BY CallCorrect, PTL

-----------------------------------------------------------------------------
\* Applying the first entry of an unapplied suffix of the log: for the keys it
\* touches it becomes the last write, for the others nothing changes.
LEMMA ApplyInOrder ==
  ASSUME TypeOK, TreeMatchesLog, handle \in {"open", "closed"},
         NEW p \in 1 .. Len(file), p .. Len(file) \subseteq unapplied, file[p] # Torn,
         NEW o \in Operations \union LogEntry,
         o.op = file[p].op, o.key = file[p].key, o.value = file[p].value,
         tree' = Apply(tree, o), unapplied' = unapplied \ {p},
         UNCHANGED <<file, base>>
  PROVE  TreeMatchesLog'
<1>1. /\ file \in Seq(Elements) /\ Len(file) \in Nat /\ DOMAIN file = 1 .. Len(file)
      /\ tree \in Tree
  BY LenProperties, SMTT(30) DEF TypeOK, WALTypeOK, Elements, Tree
<1> SUFFICES ASSUME NEW k \in Keys  PROVE LastWriteDecides(k)'
  BY DEF TreeMatchesLog
<1>2. LastWriteDecides(k)
  BY DEF TreeMatchesLog
<1>3. tree'[k] = IF o.op = "clear" \/ o.key = k THEN o.value ELSE tree[k]
  BY <1>1, ApplyEffect
<1>4. p \in DOMAIN file /\ p \in unapplied
  BY <1>1
<1>5. CASE Touches(file[p], k)
  <2>1. Writes(k)' = Writes(k) \union {p}
    BY <1>4, <1>5 DEF Writes
  <2>2. \A i \in Writes(k) : i <= p
    BY <1>1, SMTT(30) DEF Writes
  <2>3. tree'[k] = file'[p].value
    BY <1>3, <1>5, SMTT(30) DEF Touches
  <2> QED  BY <2>1, <2>2, <2>3, SMTT(30) DEF LastWriteDecides
<1>6. CASE ~ Touches(file[p], k)
  <2>1. Writes(k)' = Writes(k)
    BY <1>4, <1>6 DEF Writes
  <2>2. tree'[k] = tree[k]
    BY <1>3, <1>6 DEF Touches
  <2> QED  BY <1>2, <2>1, <2>2, SMTT(30) DEF LastWriteDecides
<1> QED  BY <1>5, <1>6, SMTT(30)

\* An entry that joins the log unapplied, or torn, does not count yet.
LEMMA LogUnapplied ==
  ASSUME TypeOK, TreeMatchesLog, handle \in {"open", "closed"}, NEW e \in Elements,
         file' = Append(file, e), UNCHANGED <<tree, base>>,
         \/ unapplied' = unapplied \union {Len(file) + 1}
         \/ unapplied' = unapplied /\ e = Torn
  PROVE  TreeMatchesLog'
<1>1. /\ file \in Seq(Elements) /\ Len(file) \in Nat /\ DOMAIN file = 1 .. Len(file)
  BY LenProperties DEF TypeOK, WALTypeOK, Elements
<1>2. /\ file' \in Seq(Elements)
      /\ Len(file') = Len(file) + 1
      /\ \A i \in 1 .. Len(file) : file'[i] = file[i]
      /\ file'[Len(file) + 1] = e
  BY <1>1, AppendElement
<1>3. DOMAIN file' = DOMAIN file \union {Len(file) + 1}
  <2>1. DOMAIN file' = 1 .. Len(file')
    BY <1>2, LenProperties
  <2> QED  BY <1>1, <1>2, <2>1
<1> SUFFICES ASSUME NEW k \in Keys  PROVE LastWriteDecides(k)'
  BY DEF TreeMatchesLog
<1>4. LastWriteDecides(k)
  BY DEF TreeMatchesLog
<1>5. ASSUME NEW i  PROVE i \in Writes(k)' <=> i \in Writes(k)
  <2>1. CASE i = Len(file) + 1
    <3>1. i \notin DOMAIN file
      BY <1>1, <2>1
    <3>2. i \in unapplied' \/ file'[i] = Torn
      BY <1>2, <2>1
    <3> QED  BY <3>1, <3>2 DEF Writes, Touches
  <2>2. CASE i # Len(file) + 1
    BY <1>1, <1>2, <1>3, <2>2 DEF Writes
  <2> QED  BY <2>1, <2>2
<1>6. Writes(k)' = Writes(k)
  BY <1>5, Zenon
<1>7. \A i \in Writes(k) : file'[i] = file[i]
  BY <1>1, <1>2 DEF Writes
<1> QED  BY <1>4, <1>6, <1>7, Zenon DEF LastWriteDecides

\* Every step keeps the tree equal to the applied part of the log.
LEMMA TreeStep == TypeOK /\ CallInv /\ TreeMatchesLog /\ [Next]_vars => TreeMatchesLog'
<1> SUFFICES ASSUME TypeOK, CallInv, TreeMatchesLog, [Next]_vars  PROVE TreeMatchesLog'
  OBVIOUS
<1>f. /\ file \in Seq(Elements) /\ Len(file) \in Nat /\ DOMAIN file = 1 .. Len(file)
      /\ Len(batch) \in Nat /\ logged \in Nat /\ applied \in Nat
      /\ handle \in {"none", "open", "closed", "rejected"}
  BY LenProperties DEF TypeOK, WALTypeOK, Elements
<1>u. ASSUME UNCHANGED <<file, unapplied, tree, base>>,
             handle' \in {"open", "closed"} => handle \in {"open", "closed"}
      PROVE  TreeMatchesLog'
  BY <1>u DEF TreeMatchesLog, LastWriteDecides, Writes
<1>g. ASSUME handle' \notin {"open", "closed"}  PROVE TreeMatchesLog'
  BY <1>g DEF TreeMatchesLog
<1> USE DEF callVars, histVars, dbVars, diskVars, procVars, walVars
<1>1. CASE Open
  <2>1. /\ unapplied' = DOMAIN file' /\ tree' = base'
    BY <1>1 DEF Open, NewWALEmpty, NewWALExisting
  <2> QED  BY <2>1 DEF TreeMatchesLog, LastWriteDecides, Writes
<1>2. CASE OpenFails
  <2>1. handle' \in {"none", "rejected"}
    BY <1>2 DEF OpenFails, NewWALRejected, NewWALFails
  <2> QED  BY <1>g, <2>1
<1>3. CASE ReplayEntry
  <2>1. /\ kind = "replay" /\ applied + 1 \in 1 .. Len(file) /\ file[applied + 1] # Torn
        /\ tree' = Apply(tree, file[applied + 1]) /\ unapplied' = unapplied \ {applied + 1}
        /\ UNCHANGED <<file, base>>
    BY <1>3, <1>f, SMTT(30) DEF ReplayEntry
  <2>2. applied + 1 .. Len(file) \subseteq unapplied /\ handle \in {"open", "closed"}
    BY <1>f, <2>1 DEF CallInv
  <2>3. file[applied + 1] \in LogEntry
    BY <1>f, <2>1, ElementOfSeq DEF Elements
  <2> QED  BY <2>1, <2>2, <2>3, ApplyInOrder
<1>4. CASE ReplayDone
  BY <1>4, <1>u DEF ReplayDone
<1>5. CASE (\E p \in Calls : Write(p)) \/ (\E b \in Bulks : BulkInsert(b))
  BY <1>5, <1>u DEF Write, BulkInsert
<1>6. CASE Log
  <2> DEFINE e == [seq |-> sequence + 1, op |-> batch[logged + 1].op,
                   key |-> batch[logged + 1].key, value |-> batch[logged + 1].value]
  <2>1. /\ logged < Len(batch) /\ handle = "open" /\ file' = Append(file, e)
        /\ unapplied' = unapplied \union {Len(file) + 1}
        /\ UNCHANGED <<tree, base>>
    BY <1>6 DEF Log, Logging, AppendWrite, Ready
  <2>2. batch[logged + 1] \in Operations /\ sequence + 1 \in Nat
    BY <1>f, <2>1, NextOperation DEF TypeOK, WALTypeOK
  <2>3. e \in Elements
    BY <2>2, EntryWritten, Zenon DEF EntryOf
  <2> HIDE DEF e
  <2> QED  BY <2>1, <2>3, LogUnapplied
<1>7. CASE LogFsync
  BY <1>7, <1>u DEF LogFsync, AppendFsync
<1>8. CASE LogFails
  <2>1. /\ UNCHANGED <<tree, base, unapplied, handle>>
        /\ file' = file \/ (handle = "open" /\ file' = Append(file, Torn))
    BY <1>8 DEF LogFails, AppendFsyncFails, AppendRefused, AppendWriteFails, Ready
  <2>2. Torn \in Elements
    BY DEF Elements
  <2>3. CASE file' = file
    BY <1>u, <2>1, <2>3
  <2>4. CASE handle = "open" /\ file' = Append(file, Torn)
    BY <2>1, <2>2, <2>4, LogUnapplied
  <2> QED  BY <2>1, <2>3, <2>4
<1>9. CASE BulkSync \/ BulkSyncFails
  BY <1>9, <1>u, SMTT(30) DEF BulkSync, BulkSyncFails, Sync, SyncFails
<1>10. CASE ApplyNext
  <2>1. /\ kind \in {"write", "apply"} /\ logged = Len(batch)
        /\ tree' = Apply(tree, batch[applied + 1])
        /\ unapplied' = unapplied \ {Len(file) - logged + applied + 1}
        /\ UNCHANGED <<file, base>>
    BY <1>10 DEF ApplyNext, AllLogged, NextPos
  <2>2. /\ applied < Len(batch) /\ logged <= Len(file)
        /\ Len(file) - logged + applied + 1 .. Len(file) \subseteq unapplied
        /\ handle \in {"open", "closed"}
    BY <1>f, <2>1 DEF CallInv
  <2>3. /\ applied + 1 \in 1 .. logged
        /\ Len(file) - logged + applied + 1 = Len(file) - logged + (applied + 1)
        /\ Len(file) - logged + applied + 1 \in 1 .. Len(file)
    BY <1>f, <2>1, <2>2, SMTT(30)
  <2> DEFINE e == file[Len(file) - logged + (applied + 1)]
  <2>4. e # Torn /\ batch[applied + 1] = [op |-> e.op, key |-> e.key, value |-> e.value]
    BY <2>1, <2>3 DEF CallInv
  <2>5. batch[applied + 1] \in Operations
    BY <1>f, <2>2, NextOperation
  <2> QED  BY <2>1, <2>2, <2>3, <2>4, <2>5, ApplyInOrder, SMTT(30)
<1>11. CASE DBSync \/ DBClose \/ DBCheckpoint
  BY <1>11, <1>u, SMTT(30) DEF DBSync, DBClose, DBCheckpoint, Sync, SyncFails, Close, Checkpoint,
                     FlushAndClose, Ready
<1>12. CASE TruncateLog
  <2>1. base' = tree' /\ file' = <<>>
    BY <1>12 DEF TruncateLog, CheckpointTruncate, EmptyFile
  <2>2. \A k \in Keys : Writes(k)' = {}
    BY <2>1 DEF Writes
  <2> QED  BY <2>1, <2>2 DEF TreeMatchesLog, LastWriteDecides
<1>13. CASE CheckpointEnds
  <2>1. step \in {"truncate", "rename", "header"}
    BY <1>13, SMTT(30) DEF CheckpointEnds, WriteHeader, WriteHeaderFails, ReopenFails
  <2>2. handle \in {"open", "closed"}
    BY <1>f, <2>1 DEF CallInv
  <2> QED  BY <1>13, <1>u, <2>2 DEF CheckpointEnds, WriteHeader, WriteHeaderFails, ReopenFails
<1>14. CASE Crash
  BY <1>14, <1>g DEF Crash, Exit, Kill, PowerLoss, ProcessGone
<1>15. CASE UNCHANGED vars
  BY <1>15, <1>u DEF vars
<1> QED
  BY <1>1, <1>2, <1>3, <1>4, <1>5, <1>6, <1>7, <1>8, <1>9, <1>10, <1>11, <1>12, <1>13,
     <1>14, <1>15 DEF Next

\* While the store runs its tree is the log read in order: for each key the last
\* applied entry that touches it decides, whatever crashes, failed appends,
\* failed fsyncs, checkpoints and interleaved Syncs came before.
THEOREM TreeCorrect == Spec => []TreeMatchesLog
<1>1. Init => TreeMatchesLog
  BY DEF Init, WALInit, TreeMatchesLog
<1>2. TypeOK /\ CallInv /\ TreeMatchesLog /\ [Next]_vars => TreeMatchesLog'
  BY TreeStep
<1> QED  BY <1>1, <1>2, CallCorrect, PTL DEF Spec

-----------------------------------------------------------------------------
\* SyncAlways: an acknowledged entry is fsynced, and a call that is between two
\* of its steps, with something logged, has nothing left to fsync.
SyncInv ==
  /\ \A i \in acked : i \in 1 .. durable /\ file[i] # Torn
  /\ kind \in {"write", "bulk", "apply"} /\ step = "idle" /\ logged > 0 => durable = Len(file)

\* Every step keeps acknowledged entries within the fsynced part of the file.
LEMMA SyncStep ==
  ASSUME SyncMode = "SyncAlways", TypeOK, CallInv, SyncInv, [Next]_vars
  PROVE  SyncInv'
<1>f. /\ file \in Seq(Elements) /\ Len(file) \in Nat /\ DOMAIN file = 1 .. Len(file)
      /\ Len(batch) \in Nat /\ logged \in Nat /\ applied \in Nat
      /\ durable \in -1 .. Len(file)
  BY LenProperties DEF TypeOK, WALTypeOK, Elements
<1>s. SyncDue
  BY DEF SyncDue, syncMode
\* The entries in the fsynced part stay, and no call is left half way.
<1>k. ASSUME acked' \subseteq acked,
             \A i \in 1 .. durable : i \in 1 .. durable' /\ file'[i] = file[i],
             kind' \notin {"write", "bulk", "apply"} \/ step' # "idle" \/ logged' = 0
               \/ durable' = Len(file')
      PROVE  SyncInv'
  <2>1. \A i \in acked' : i \in 1 .. durable' /\ file'[i] # Torn
    BY <1>k DEF SyncInv
  <2> QED  BY <1>k, <2>1 DEF SyncInv
<1>u. ASSUME acked' \subseteq acked, UNCHANGED <<file, durable>>,
             kind' \notin {"write", "bulk", "apply"} \/ step' # "idle" \/ logged' = 0
               \/ UNCHANGED <<kind, step, logged>>
      PROVE  SyncInv'
  BY <1>u DEF SyncInv
<1>a. ASSUME acked' \subseteq acked, UNCHANGED file, durable' = Len(file)
      PROVE  SyncInv'
  <2>1. ASSUME NEW i \in acked'  PROVE i \in 1 .. durable' /\ file'[i] # Torn
    <3>1. i \in 1 .. durable /\ file[i] # Torn
      BY <1>a, SMTT(30) DEF SyncInv
    <3> QED  BY <1>f, <1>a, <3>1
  <2> QED  BY <1>a, <2>1 DEF SyncInv
<1> USE DEF callVars, histVars, dbVars, diskVars, procVars, walVars
<1>1. CASE Open
  BY <1>1, <1>u DEF Open, NewWALEmpty, NewWALExisting
<1>2. CASE OpenFails
  BY <1>2, <1>u DEF OpenFails, NewWALRejected, NewWALFails
<1>3. CASE ReplayEntry \/ ReplayDone
  BY <1>3, <1>u DEF ReplayEntry, ReplayDone, NoCall
<1>4. CASE (\E p \in Calls : Write(p)) \/ (\E b \in Bulks : BulkInsert(b))
  BY <1>4, <1>u DEF Write, BulkInsert
<1>5. CASE Log
  <2> DEFINE e == [seq |-> sequence + 1, op |-> batch[logged + 1].op,
                   key |-> batch[logged + 1].key, value |-> batch[logged + 1].value]
  <2>1. /\ logged < Len(batch) /\ file' = Append(file, e) /\ step' = "fsync"
        /\ UNCHANGED <<acked, durable>>
    BY <1>5, <1>s, SMTT(30) DEF Log, Logging, AppendWrite
  <2>2. batch[logged + 1] \in Operations /\ sequence + 1 \in Nat
    BY <1>f, <2>1, NextOperation DEF TypeOK, WALTypeOK
  <2>3. e \in Elements
    BY <2>2, EntryWritten, Zenon DEF EntryOf
  <2> HIDE DEF e
  <2>4. \A i \in 1 .. Len(file) : file'[i] = file[i]
    BY <1>f, <2>1, <2>3, AppendElement
  <2> QED  BY <1>f, <1>k, <2>1, <2>4, SMTT(30)
<1>6. CASE LogFsync
  BY <1>6, <1>a DEF LogFsync, AppendFsync
<1>7. CASE LogFails
  <2>1. /\ UNCHANGED <<acked, durable>> /\ kind' = "none"
        /\ file' = file \/ file' = Append(file, Torn)
    BY <1>7 DEF LogFails, AppendFsyncFails, AppendRefused, AppendWriteFails, NoCall
  <2>2. Torn \in Elements
    BY DEF Elements
  <2>3. \A i \in 1 .. Len(file) : Append(file, Torn)[i] = file[i]
    BY <1>f, <2>2, AppendElement
  <2>4. CASE file' = file
    BY <1>u, <2>1, <2>4, SMTT(30)
  <2>5. CASE file' = Append(file, Torn)
    BY <1>f, <1>k, <2>1, <2>3, <2>5
  <2> QED  BY <2>1, <2>4, <2>5
<1>8. CASE BulkSync
  BY <1>8, <1>a DEF BulkSync, Sync
<1>9. CASE BulkSyncFails
  BY <1>9, <1>u DEF BulkSyncFails, SyncFails, NoCall
<1>10. CASE ApplyNext
  <2>1. /\ kind \in {"write", "apply"} /\ step = "idle" /\ logged = Len(batch)
        /\ UNCHANGED <<file, durable, step>>
    BY <1>10 DEF ApplyNext, AllLogged
  <2>2. CASE acked' = acked /\ UNCHANGED <<kind, logged>>
    BY <1>u, <2>1, <2>2
  <2>3. CASE /\ acked' = acked \union (Len(file) - logged + 1 .. Len(file))
             /\ kind' = "none"
    <3>1. logged > 0 /\ logged <= Len(file)
      BY <1>f, <2>1 DEF CallInv
    <3>2. durable = Len(file)
      BY <2>1, <3>1 DEF SyncInv
    <3>3. ASSUME NEW i \in Len(file) - logged + 1 .. Len(file)
          PROVE  i \in 1 .. durable /\ file[i] # Torn
      <4>1. i - (Len(file) - logged) \in 1 .. logged /\ i \in 1 .. durable
        BY <1>f, <3>1, <3>2, SMTT(30)
      <4>2. file[Len(file) - logged + (i - (Len(file) - logged))] # Torn
        BY <2>1, <4>1, Zenon DEF CallInv
      <4>3. Len(file) - logged + (i - (Len(file) - logged)) = i
        BY <1>f
      <4> QED  BY <4>1, <4>2, <4>3
    <3> QED  BY <2>1, <2>3, <3>3, SMTT(30) DEF SyncInv
  <2> QED  BY <1>10, <2>2, <2>3 DEF ApplyNext, NoCall
<1>11. CASE DBSync
  <2>1. CASE Sync
    BY <1>11, <1>a, <2>1 DEF DBSync, Sync
  <2>2. CASE SyncFails
    BY <1>11, <1>u, <2>2 DEF DBSync, SyncFails
  <2> QED  BY <1>11, <2>1, <2>2 DEF DBSync
<1>12. CASE DBClose \/ DBCheckpoint
  BY <1>12, <1>a DEF DBClose, DBCheckpoint, Close, Checkpoint, FlushAndClose
<1>13. CASE TruncateLog
  <2>1. acked' = {} /\ step' = "header"
    BY <1>13 DEF TruncateLog, CheckpointTruncate
  <2> QED  BY <2>1 DEF SyncInv
<1>14. CASE CheckpointEnds
  BY <1>14, <1>u DEF CheckpointEnds, WriteHeader, WriteHeaderFails, ReopenFails, NoCall
<1>15. CASE Crash
  <2>1. acked' = acked /\ kind' = "none"
    BY <1>15 DEF Crash, NoCall
  <2>2. CASE Exit \/ Kill
    BY <1>u, <2>1, <2>2 DEF Exit, Kill
  <2>3. CASE PowerLoss
    <3>1. CASE durable = -1
      <4>1. acked = {}
        BY <3>1 DEF SyncInv
      <4> QED  BY <2>1, <4>1 DEF SyncInv
    <3>2. CASE durable >= 0
      <4>1. Cut(durable) /\ durable' = Len(file')
        BY <2>3, <3>2, SMTT(30) DEF PowerLoss
      <4>2. Len(file') >= durable /\ \A i \in 1 .. durable : file'[i] = file[i]
        BY <1>f, <3>2, <4>1, CutElements
      <4>3. Len(file') \in Nat
        BY <1>f, <3>2, <4>1, CutElements, LenProperties
      <4>4. \A i \in 1 .. durable : i \in 1 .. durable' /\ file'[i] = file[i]
        BY <1>f, <4>1, <4>2, <4>3, SMTT(30)
      <4> QED  BY <1>k, <2>1, <4>4
    <3> QED  BY <1>f, <3>1, <3>2
  <2> QED  BY <1>15, <2>2, <2>3 DEF Crash
<1>16. CASE UNCHANGED vars
  BY <1>16, <1>u DEF vars
<1> QED
  BY <1>1, <1>2, <1>3, <1>4, <1>5, <1>6, <1>7, <1>8, <1>9, <1>10, <1>11, <1>12, <1>13,
     <1>14, <1>15, <1>16, SMTT(30) DEF Next

\* SyncAlways: no crash takes or damages the log entry of an Insert, Delete,
\* Clear or BulkInsert that returned success, whatever faults happen and however
\* many of them.
THEOREM AckedSurvive == ASSUME SyncMode = "SyncAlways"  PROVE Spec => []AckedIntact
<1>1. Init => SyncInv
  BY DEF Init, WALInit, SyncInv
<1>2. TypeOK /\ CallInv /\ SyncInv /\ [Next]_vars => SyncInv'
  BY SyncStep
<1>3. TypeOK /\ SyncInv => AckedIntact
  <2> SUFFICES ASSUME TypeOK, SyncInv, NEW i \in acked
               PROVE  i \in DOMAIN file /\ file[i] # Torn
    BY DEF AckedIntact
  <2>1. DOMAIN file = 1 .. Len(file) /\ Len(file) \in Nat /\ durable \in -1 .. Len(file)
    BY LenProperties DEF TypeOK, WALTypeOK
  <2>2. i \in 1 .. durable /\ file[i] # Torn
    BY DEF SyncInv
  <2>3. i \in 1 .. Len(file)
    BY <2>1, <2>2
  <2> QED  BY <2>1, <2>2, <2>3, Zenon
<1> QED  BY <1>1, <1>2, <1>3, CallCorrect, PTL DEF Spec

-----------------------------------------------------------------------------
\* Without power loss and failed writes: nothing in the file is torn, so that
\* replay reaches its end; what is acknowledged is in the file and, outside of
\* replay, in the tree; and what the call in progress has applied is known.
KillInv ==
  /\ \A i \in 1 .. Len(file) : file[i] # Torn
  /\ acked \subseteq 1 .. Len(file)
  /\ kind = "replay" => \A i \in unapplied : i > applied
  /\ kind # "replay" => acked \intersect unapplied = {}
  /\ kind \in {"write", "bulk", "apply"} =>
       \A i \in unapplied : i <= Len(file) - logged \/ i > Len(file) - logged + applied

\* Every step but a power loss or a failed write keeps it so.
LEMMA KillStep ==
  ASSUME Faults \subseteq {"kill", "fsync", "open"}, TypeOK, CallInv, KillInv, [Next]_vars
  PROVE  KillInv'
<1>f. /\ file \in Seq(Elements) /\ Len(file) \in Nat /\ DOMAIN file = 1 .. Len(file)
      /\ Len(batch) \in Nat /\ logged \in Nat /\ applied \in Nat
      /\ unapplied \subseteq 1 .. Len(file)
  BY LenProperties DEF TypeOK, WALTypeOK, Elements
<1>n. ~Fault("write") /\ ~Fault("power")
  BY DEF Fault
\* What leaves the file alone, acknowledges nothing and ends the call.
<1>u. ASSUME UNCHANGED file, acked' = acked, unapplied' \subseteq unapplied,
             \/ kind' \notin {"replay", "write", "bulk", "apply"} /\ (kind # "replay" \/ unapplied' = {})
             \/ UNCHANGED <<logged, applied>> /\ (kind' = kind \/ (kind' = "apply" /\ kind = "bulk"))
             \/ kind' \in {"write", "bulk"} /\ kind # "replay" /\ logged' = 0 /\ applied' = 0
      PROVE  KillInv'
  BY <1>f, <1>u DEF KillInv
<1> USE DEF callVars, histVars, dbVars, diskVars, procVars, walVars
<1>1. CASE Open
  <2>1. /\ UNCHANGED file /\ acked' \subseteq acked
        /\ kind' = "replay" /\ applied' = 0 /\ unapplied' = DOMAIN file
    BY <1>1 DEF Open, NewWALEmpty, NewWALExisting
  <2> QED  BY <1>f, <2>1 DEF KillInv
<1>2. CASE OpenFails
  BY <1>2, <1>u DEF OpenFails, NewWALRejected, NewWALFails
<1>3. CASE ReplayEntry
  <2>1. /\ UNCHANGED <<file, acked, kind>> /\ kind = "replay"
        /\ applied' = applied + 1 /\ unapplied' = unapplied \ {applied + 1}
    BY <1>3 DEF ReplayEntry
  <2> QED  BY <1>f, <2>1 DEF KillInv
<1>4. CASE ReplayDone
  <2>1. /\ UNCHANGED <<file, acked, unapplied>> /\ kind = "replay" /\ kind' = "none"
        /\ ReadableUpTo(applied)
    BY <1>4, SMTT(30) DEF ReplayDone, NoCall
  <2>2. applied <= Len(file)
    BY <2>1 DEF CallInv
  <2>3. ~(applied < Len(file))
    <3>1. applied < Len(file) => applied + 1 \in 1 .. Len(file) /\ file[applied + 1] = Torn
      BY <1>f, <2>1 DEF ReadableUpTo, Readable
    <3> QED  BY <3>1 DEF KillInv
  <2>4. unapplied = {}
    BY <1>f, <2>1, <2>2, <2>3, SMTT(30) DEF KillInv
  <2> QED  BY <1>u, <2>1, <2>4
<1>5. CASE (\E p \in Calls : Write(p)) \/ (\E b \in Bulks : BulkInsert(b))
  BY <1>5, <1>u, SMTT(30) DEF Write, BulkInsert, Running
<1>6. CASE Log
  <2> DEFINE e == [seq |-> sequence + 1, op |-> batch[logged + 1].op,
                   key |-> batch[logged + 1].key, value |-> batch[logged + 1].value]
  <2>1. /\ kind \in {"write", "bulk"} /\ logged < Len(batch) /\ file' = Append(file, e)
        /\ logged' = logged + 1 /\ unapplied' = unapplied \union {Len(file) + 1}
        /\ UNCHANGED <<acked, kind, applied>>
    BY <1>6, SMTT(30) DEF Log, Logging, AppendWrite
  <2>2. batch[logged + 1] \in Operations /\ sequence + 1 \in Nat
    BY <1>f, <2>1, NextOperation DEF TypeOK, WALTypeOK
  <2>3. e \in LogEntry /\ e \in Elements /\ e # Torn
    BY <2>2, EntryWritten, ZenonT(30) DEF EntryOf
  <2> HIDE DEF e
  <2>4. /\ Len(file') = Len(file) + 1 /\ file'[Len(file) + 1] = e
        /\ \A i \in 1 .. Len(file) : file'[i] = file[i]
    BY <1>f, <2>1, <2>3, AppendElement, SMTT(30)
  <2>5. \A i \in 1 .. Len(file') : file'[i] # Torn
    BY <1>f, <2>3, <2>4 DEF KillInv
  <2>6. acked' \subseteq 1 .. Len(file') /\ acked' \intersect unapplied' = {}
    <3>1. \A i \in acked : i \in 1 .. Len(file) /\ i \notin unapplied
      BY <2>1 DEF KillInv
    <3>2. \A i \in 1 .. Len(file) : i \in 1 .. Len(file') /\ i # Len(file) + 1
      BY <1>f, <2>4, SMTT(30)
    <3> QED  BY <2>1, <3>1, <3>2
  <2>7. applied = 0 /\ Len(file') - logged' = Len(file) - logged
    BY <1>f, <2>1, <2>4 DEF CallInv
  <2>8. \A i \in unapplied' : i <= Len(file') - logged' \/ i > Len(file') - logged' + applied'
    BY <1>f, <2>1, <2>7
  <2> QED  BY <2>1, <2>5, <2>6, <2>8, SMTT(30) DEF KillInv
<1>7. CASE LogFsync
  BY <1>7, <1>u DEF LogFsync, AppendFsync
<1>8. CASE LogFails
  <2>1. UNCHANGED <<file, acked, unapplied>> /\ kind' = "none"
    BY <1>8, <1>n, SMTT(30) DEF LogFails, AppendFsyncFails, AppendRefused, AppendWriteFails, NoCall
  <2>2. kind # "replay"
    BY <1>8 DEF LogFails, AppendFsyncFails, Logging, CallInv
  <2> QED  BY <1>u, <2>1, <2>2
<1>9. CASE BulkSync \/ BulkSyncFails
  BY <1>9, <1>u DEF BulkSync, BulkSyncFails, Sync, SyncFails, NoCall
<1>10. CASE ApplyNext
  <2>1. /\ kind \in {"write", "apply"} /\ logged = Len(batch) /\ UNCHANGED file
        /\ unapplied' = unapplied \ {Len(file) - logged + applied + 1}
    BY <1>10, SMTT(30) DEF ApplyNext, AllLogged, NextPos
  <2>2. logged <= Len(file) /\ applied < logged
    BY <1>f, <2>1 DEF CallInv
  <2>3. CASE applied' = applied + 1 /\ UNCHANGED <<kind, logged, acked>>
    <3>1. \A i \in unapplied' : i <= Len(file) - logged \/ i > Len(file) - logged + applied + 1
      BY <1>f, <2>1, <2>2 DEF KillInv
    <3>2. acked' \intersect unapplied' = {}
      BY <2>1, <2>3 DEF KillInv
    <3> QED  BY <1>f, <2>1, <2>3, <3>1, <3>2 DEF KillInv
  <2>4. CASE /\ applied + 1 = Len(batch) /\ kind' = "none"
             /\ acked' = acked \union (Len(file) - logged + 1 .. Len(file))
    <3>1. \A i \in unapplied' : i <= Len(file) - logged
      BY <1>f, <2>1, <2>2, <2>4, SMTT(30) DEF KillInv
    <3>2. acked \intersect unapplied' = {}
      BY <2>1 DEF KillInv
    <3>3. acked' \intersect unapplied' = {}
      BY <1>f, <2>4, <3>1, <3>2
    <3>4. acked' \subseteq 1 .. Len(file)
      <4>1. Len(file) - logged + 1 .. Len(file) \subseteq 1 .. Len(file)
        BY <1>f, <2>2
      <4> QED  BY <2>4, <4>1, Zenon DEF KillInv
    <3> QED  BY <2>1, <2>4, <3>3, <3>4 DEF KillInv
  <2>5. applied + 1 < Len(batch) \/ applied + 1 = Len(batch)
    BY <1>f, <2>1, <2>2
  <2> QED  BY <1>f, <1>10, <2>3, <2>4, <2>5 DEF ApplyNext, NoCall
<1>11. CASE DBSync \/ DBClose \/ DBCheckpoint
  BY <1>11, <1>u DEF DBSync, DBClose, DBCheckpoint, Sync, SyncFails, Close, Checkpoint, FlushAndClose
<1>12. CASE TruncateLog
  <2>1. file' = <<>> /\ acked' = {} /\ unapplied' = {} /\ UNCHANGED kind /\ kind = "checkpoint"
    BY <1>12 DEF TruncateLog, CheckpointTruncate, EmptyFile, CallInv
  <2> QED  BY <2>1 DEF KillInv
<1>13. CASE CheckpointEnds
  <2>1. kind = "checkpoint"
    BY <1>13 DEF CheckpointEnds, WriteHeader, WriteHeaderFails, ReopenFails, CallInv
  <2> QED
    BY <1>13, <1>u, <2>1, SMTT(30) DEF CheckpointEnds, WriteHeader, WriteHeaderFails, ReopenFails, NoCall
<1>14. CASE Crash
  BY <1>14, <1>n, <1>u DEF Crash, Exit, Kill, PowerLoss, NoCall
<1>15. CASE UNCHANGED vars
  BY <1>15, <1>u DEF vars
<1> QED
  BY <1>1, <1>2, <1>3, <1>4, <1>5, <1>6, <1>7, <1>8, <1>9, <1>10, <1>11, <1>12, <1>13,
     <1>14, <1>15, SMTT(30) DEF Next

\* If the process is killed, fsync fails or a file cannot be opened, however
\* often, in any sync mode: the next recovery reads the entry of every operation
\* that returned success.
THEOREM KillReadable ==
  ASSUME Faults \subseteq {"kill", "fsync", "open"}  PROVE Spec => []AckedReadable
<1>1. Init => KillInv
  BY DEF Init, WALInit, KillInv
<1>2. TypeOK /\ CallInv /\ KillInv /\ [Next]_vars => KillInv'
  BY KillStep
<1>3. TypeOK /\ KillInv => AckedReadable
  <2> SUFFICES ASSUME TypeOK, KillInv, NEW i \in acked
               PROVE  i \in DOMAIN file /\ \A j \in 1 .. i : file[j] # Torn
    BY DEF AckedReadable
  <2>1. DOMAIN file = 1 .. Len(file) /\ Len(file) \in Nat
    BY LenProperties DEF TypeOK, WALTypeOK
  <2>2. i \in 1 .. Len(file)
    BY DEF KillInv
  <2>3. \A j \in 1 .. i : file[j] # Torn
    BY <2>1, <2>2 DEF KillInv
  <2> QED  BY <2>1, <2>2, <2>3
<1> QED  BY <1>1, <1>2, <1>3, CallCorrect, PTL DEF Spec

\* With the same faults, and so after every recovery from a kill: between calls
\* the tree reflects every operation that returned success.
THEOREM KillApplied ==
  ASSUME Faults \subseteq {"kill", "fsync", "open"}  PROVE Spec => []AckedApplied
<1>1. Init => KillInv
  BY DEF Init, WALInit, KillInv
<1>2. TypeOK /\ CallInv /\ KillInv /\ [Next]_vars => KillInv'
  BY KillStep
<1>3. KillInv => AckedApplied
  BY DEF KillInv, AckedApplied
<1> QED  BY <1>1, <1>2, <1>3, CallCorrect, PTL DEF Spec

\* Also under the durable tree, which appends while other goroutines Sync: the
\* log is in order and goes on beyond what recovery reads.
THEOREM DurableSequence == Spec => []SequenceAscends
<1>1. Init => SeqInv
  BY WALInitOK DEF Init
<1>2. TypeOK /\ SeqInv /\ [Next]_vars => SeqInv'
  BY StepsOfLog, SeqStep DEF TypeOK, WALStep, vars
<1>3. TypeOK /\ SeqInv => SequenceAscends
  BY SeqImplies DEF TypeOK
<1> QED  BY <1>1, <1>2, <1>3, CallCorrect, PTL DEF Spec

=============================================================================
