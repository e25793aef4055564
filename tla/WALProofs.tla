----------------------------- MODULE WALProofs -----------------------------
(***************************************************************************)
(* Proofs about WAL, for every set of keys and values, every sync mode and *)
(* every kind and number of faults.                                        *)
(***************************************************************************)
EXTENDS WAL, SequenceTheorems, TLAPS

Elements == LogEntry \union {Torn}

\* The entry that appendEntry writes for an operation, and what tells it from a
\* torn line: a well-formed entry parses, so it is never Torn.
EntryOf(n, o) == [seq |-> n, op |-> o.op, key |-> o.key, value |-> o.value]

LEMMA EntryWritten ==
  ASSUME NEW n \in Nat, NEW o \in Operations
  PROVE  /\ EntryOf(n, o) \in LogEntry
         /\ EntryOf(n, o) \in Elements
         /\ EntryOf(n, o) # Torn
         /\ o = [op |-> EntryOf(n, o).op, key |-> EntryOf(n, o).key,
                  value |-> EntryOf(n, o).value]
<1>1. CASE o \in [op : {"insert"}, key : Keys, value : Values]
  <2>1. EntryOf(n, o) \in [seq : Nat, op : {"insert"}, key : Keys, value : Values]
    BY <1>1 DEF EntryOf
  <2>2. EntryOf(n, o) \in LogEntry
    BY <2>1, Zenon DEF LogEntry
  <2>3. o = [op |-> EntryOf(n, o).op, key |-> EntryOf(n, o).key,
             value |-> EntryOf(n, o).value]
    BY <1>1 DEF EntryOf
  <2> QED  BY <2>2, <2>3, TornAssumption, Zenon DEF Elements
<1>2. CASE o \in [op : {"delete"}, key : Keys, value : {NoValue}]
  <2>1. EntryOf(n, o) \in [seq : Nat, op : {"delete"}, key : Keys, value : {NoValue}]
    BY <1>2 DEF EntryOf
  <2>2. EntryOf(n, o) \in LogEntry
    BY <2>1, Zenon DEF LogEntry
  <2>3. o = [op |-> EntryOf(n, o).op, key |-> EntryOf(n, o).key,
             value |-> EntryOf(n, o).value]
    BY <1>2 DEF EntryOf
  <2> QED  BY <2>2, <2>3, TornAssumption, Zenon DEF Elements
<1>3. CASE o \in [op : {"clear"}, key : {NoKey}, value : {NoValue}]
  <2>1. EntryOf(n, o) \in [seq : Nat, op : {"clear"}, key : {NoKey}, value : {NoValue}]
    BY <1>3 DEF EntryOf
  <2>2. EntryOf(n, o) \in LogEntry
    BY <2>1, Zenon DEF LogEntry
  <2>3. o = [op |-> EntryOf(n, o).op, key |-> EntryOf(n, o).key,
             value |-> EntryOf(n, o).value]
    BY <1>3 DEF EntryOf
  <2> QED  BY <2>2, <2>3, TornAssumption, Zenon DEF Elements
<1> QED  BY <1>1, <1>2, <1>3, Zenon DEF Operations

\* What Append of wal.go does to the sequence of entries.
LEMMA AppendElement ==
  ASSUME NEW s \in Seq(Elements), NEW e \in Elements
  PROVE  /\ Append(s, e) \in Seq(Elements)
         /\ Len(Append(s, e)) = Len(s) + 1
         /\ \A i \in 1 .. Len(s) : Append(s, e)[i] = s[i]
         /\ Append(s, e)[Len(s) + 1] = e
  BY AppendProperties

\* What a power loss does to it: a prefix stays, or a prefix and a torn entry.
LEMMA CutPrefix ==
  ASSUME NEW from \in Nat, file \in Seq(Elements), from <= Len(file), Cut(from)
  PROVE  /\ file' \in Seq(Elements)
         /\ \E n \in from .. Len(file) :
              /\ \A i \in 1 .. n : file'[i] = file[i]
              /\ Len(file') = n \/ (n < Len(file) /\ Len(file') = n + 1 /\ file'[n + 1] = Torn)
<1>1. PICK n \in from .. Len(file) :
         \/ file' = SubSeq(file, 1, n)
         \/ n < Len(file) /\ file' = Append(SubSeq(file, 1, n), Torn)
  BY DEF Cut
<1>2. n \in Nat /\ Len(file) \in Nat /\ n <= Len(file)
  BY LenProperties
<1>3. \A i \in 1 .. n : file[i] \in Elements
  BY <1>2, ElementOfSeq
<1>4. /\ SubSeq(file, 1, n) \in Seq(Elements)
      /\ Len(SubSeq(file, 1, n)) = n
      /\ \A i \in 1 .. n : SubSeq(file, 1, n)[i] = file[i]
  <2>1. /\ SubSeq(file, 1, n) \in Seq(Elements)
        /\ Len(SubSeq(file, 1, n)) = IF 1 <= n THEN n - 1 + 1 ELSE 0
        /\ \A i \in 1 .. n - 1 + 1 : SubSeq(file, 1, n)[i] = file[1 + i - 1]
    BY <1>2, <1>3, SubSeqProperties
  <2> QED  BY <1>2, <2>1
<1>5. CASE file' = SubSeq(file, 1, n)
  BY <1>2, <1>4, <1>5
<1>6. CASE n < Len(file) /\ file' = Append(SubSeq(file, 1, n), Torn)
  <2>1. Torn \in Elements
    BY DEF Elements
  <2>2. /\ file' \in Seq(Elements)
        /\ Len(file') = n + 1
        /\ \A i \in 1 .. n : file'[i] = SubSeq(file, 1, n)[i]
        /\ file'[n + 1] = Torn
    BY <1>4, <1>6, <2>1, AppendElement
  <2> QED  BY <1>2, <1>4, <1>6, <2>2
<1> QED  BY <1>1, <1>5, <1>6

\* In any case what was fsynced stays.
LEMMA CutElements ==
  ASSUME NEW from \in Nat, file \in Seq(Elements), from <= Len(file), Cut(from)
  PROVE  /\ file' \in Seq(Elements)
         /\ Len(file') >= from
         /\ \A i \in 1 .. from : file'[i] = file[i]
<1>1. Len(file) \in Nat
  BY LenProperties
<1>2. PICK n \in from .. Len(file) :
        /\ \A i \in 1 .. n : file'[i] = file[i]
        /\ Len(file') = n \/ Len(file') = n + 1
  BY CutPrefix
<1>3. file' \in Seq(Elements)
  BY CutPrefix
<1> QED  BY <1>1, <1>2, <1>3

-----------------------------------------------------------------------------
\* A step of the log, whichever operation is appended.
WALStep == WALNext \/ (\E p \in Operations : AppendWrite(p)) \/ UNCHANGED walVars

\* Every operation of wal.go and every fault preserves the types of the log.
LEMMA WALTypeStep == WALTypeOK /\ WALStep => WALTypeOK'
<1> SUFFICES ASSUME WALTypeOK, WALStep  PROVE WALTypeOK'
  OBVIOUS
<1> USE DEF WALTypeOK
<1>a. file \in Seq(Elements) /\ Len(file) \in Nat
  BY LenProperties DEF Elements
<1>b. Torn \in Elements
  BY DEF Elements
<1>c. /\ <<>> \in Seq(LogEntry \union {Torn})
      /\ Len(<<>>) = 0
  BY EmptySeq
<1>d. batchCount + 1 \in Nat /\ sequence + 1 \in Nat /\ faults + 1 \in Nat
  OBVIOUS
<1>e. ASSUME CountEntry  PROVE batchCount' \in Nat
  BY <1>d, <1>e DEF CountEntry
<1>1. CASE NewWALEmpty
  BY <1>1 DEF NewWALEmpty
<1>2. CASE NewWALExisting
  <2>1. PICK n \in 0 .. Len(file) :
          ReadableUpTo(n) /\ sequence' = IF n = 0 THEN 0 ELSE file[n].seq
    BY <1>2 DEF NewWALExisting
  <2>2. CASE n = 0
    BY <1>2, <2>1, <2>2 DEF NewWALExisting, diskVars
  <2>3. CASE n # 0
    <3>1. n \in 1 .. Len(file) /\ file[n] # Torn
      BY <1>a, <2>1, <2>3 DEF ReadableUpTo, Readable
    <3>2. file[n] \in LogEntry
      BY <3>1, ElementOfSeq
    <3>3. sequence' \in Nat
      BY <2>1, <2>3, <3>2 DEF LogEntry
    <3> QED  BY <1>2, <3>3 DEF NewWALExisting, diskVars
  <2> QED  BY <2>2, <2>3
<1>3. CASE NewWALRejected
  BY <1>3 DEF NewWALRejected, diskVars
<1>4. CASE NewWALFails
  BY <1>4, <1>d DEF NewWALFails, Fault, procVars
<1>5. CASE \E p \in Operations : AppendWrite(p)
  <2>1. PICK p \in Operations : AppendWrite(p)
    BY <1>5
  <2>2. [seq |-> sequence + 1, op |-> p.op, key |-> p.key, value |-> p.value] \in LogEntry
    <3>1. sequence + 1 \in Nat
      BY <1>d
    <3> QED  BY <3>1, EntryWritten, Zenon DEF EntryOf
  <2>3. file' \in Seq(Elements) /\ Len(file') = Len(file) + 1
    BY <1>a, <2>1, <2>2, AppendElement DEF AppendWrite, Elements
  <2> QED  BY <1>a, <1>d, <1>e, <2>1, <2>3 DEF AppendWrite, Elements
<1>6. CASE AppendFsync
  BY <1>a, <1>6 DEF AppendFsync
<1>7. CASE AppendFsyncFails
  BY <1>7, <1>d DEF AppendFsyncFails, Fault, diskVars
<1>8. CASE AppendWriteFails
  <2>1. file' \in Seq(Elements) /\ Len(file') >= Len(file) /\ Len(file') \in Nat
    BY <1>8, <1>a, <1>b, AppendElement, LenProperties DEF AppendWriteFails
  <2> QED  BY <1>8, <1>a, <1>d, <1>e, <2>1 DEF AppendWriteFails, Fault, Elements
<1>9. CASE AppendRefused
  BY <1>9, <1>d, <1>e DEF AppendRefused, diskVars
<1>10. CASE Sync
  BY <1>a, <1>10 DEF Sync, procVars
<1>11. CASE SyncFails
  BY <1>11, <1>d DEF SyncFails, Fault, diskVars, procVars
<1>12. CASE Close
  BY <1>a, <1>12 DEF Close
<1>13. CASE Checkpoint \/ RotateLog
  BY <1>a, <1>13 DEF Checkpoint, RotateLog, FlushAndClose
<1>14. CASE CheckpointTruncate
  BY <1>c, <1>14 DEF CheckpointTruncate, EmptyFile
<1>15. ASSUME Archive
       PROVE  /\ DOMAIN archives' \subseteq Nat
              /\ \A n \in DOMAIN archives' : archives'[n] \in Seq(LogEntry \union {Torn})
  BY <1>15 DEF Archive
<1>16. CASE RotateRename
  BY <1>c, <1>15, <1>16 DEF RotateRename, EmptyFile
<1>17. CASE WriteHeader
  BY <1>17 DEF WriteHeader
<1>18. CASE WriteHeaderFails
  BY <1>18, <1>d DEF WriteHeaderFails, Fault
<1>19. CASE ReopenFails
  BY <1>19, <1>d DEF ReopenFails, Fault, diskVars
<1>20. CASE RotateCreateFails
  BY <1>c, <1>d, <1>15, <1>20 DEF RotateCreateFails, EmptyFile, Fault
<1>21. CASE Exit
  BY <1>21 DEF Exit, ProcessGone, diskVars
<1>22. CASE Kill
  BY <1>22, <1>d DEF Kill, ProcessGone, Fault, diskVars
<1>23. CASE PowerLoss
  <2> USE <1>23, <1>a, <1>c, <1>d DEF PowerLoss, ProcessGone, Fault
  <2>1. CASE durable >= 0 /\ Cut(durable) /\ durable' = Len(file') /\ UNCHANGED header
    <3>1. file' \in Seq(Elements)
      BY <2>1, CutElements
    <3> QED  BY <2>1, <3>1, LenProperties DEF Elements
  <2>2. CASE durable = -1 /\ header = "ok" /\ Cut(0) /\ durable' = Len(file') /\ UNCHANGED header
    <3>1. file' \in Seq(Elements)
      BY <2>2, CutElements
    <3> QED  BY <2>2, <3>1, LenProperties DEF Elements
  <2>3. CASE durable = -1 /\ file' = <<>> /\ UNCHANGED durable /\ header' \in {"absent", "bad"}
    BY <2>3
  <2>4. CASE durable = -1 /\ header = "bad" /\ UNCHANGED <<header, file, durable>>
    BY <2>4
  <2> QED  BY <2>1, <2>2, <2>3, <2>4
<1>24. CASE UNCHANGED walVars
  BY <1>24 DEF walVars, diskVars, procVars
<1>25. (\E p \in Calls : AppendWrite(p)) => (\E p \in Operations : AppendWrite(p))
  BY CallsAssumption
<1> QED
  BY <1>1, <1>2, <1>3, <1>4, <1>5, <1>6, <1>7, <1>8, <1>9, <1>10, <1>11, <1>12, <1>13,
     <1>14, <1>16, <1>17, <1>18, <1>19, <1>20, <1>21, <1>22, <1>23, <1>24, <1>25, Zenon
     DEF WALStep, WALNext

-----------------------------------------------------------------------------
\* Recovery reads entry j of f: nothing before it is torn, nor it itself.
Clean(f, j) == \A m \in 1 .. j : f[m] # Torn

Ordered(f)  == \A j \in 1 .. Len(f) : Clean(f, j) => \A i \in 1 .. j - 1 : f[i].seq < f[j].seq
Below(f, b) == \A j \in 1 .. Len(f) : Clean(f, j) => f[j].seq <= b

\* Stronger than SequenceAscends and ArchiveCovers in three ways: it is about
\* every readable prefix, so that a power loss may cut anywhere; and it says
\* that whoever is about to rename the file has it open, so that its number
\* bounds what the file holds, and that a file without a header is empty, so
\* that NewWAL may number from 1.
SeqInv ==
  /\ Ordered(file)
  /\ handle = "open" => Below(file, sequence)
  /\ step # "idle" => handle = "open"
  /\ header # "ok" \/ step = "header" => file = <<>>
  /\ handle = "open" /\ writer = "ok" /\ step # "header" => header = "ok"
  /\ \A a \in DOMAIN archives : Ordered(archives[a]) /\ Below(archives[a], a)

\* A file without a torn entry before j holds numbers up to j.
LEMMA CleanNumbers ==
  ASSUME NEW f \in Seq(Elements), NEW j \in 1 .. Len(f), Clean(f, j)
  PROVE  \A i \in 1 .. j : f[i].seq \in Nat
<1> SUFFICES ASSUME NEW i \in 1 .. j  PROVE f[i].seq \in Nat
  OBVIOUS
<1>1. Len(f) \in Nat
  BY LenProperties
<1>2. i \in 1 .. Len(f) /\ f[i] # Torn
  BY <1>1 DEF Clean
<1>3. f[i] \in LogEntry
  BY <1>2, ElementOfSeq DEF Elements
<1> QED  BY <1>3 DEF LogEntry

\* What only shortens the file, or adds a torn entry, keeps the order and any
\* bound: a flush that fails, and a power loss.
LEMMA ShorterKeeps ==
  ASSUME NEW f \in Seq(Elements), NEW g \in Seq(Elements), NEW b, NEW n \in 0 .. Len(f),
         Ordered(f), \A i \in 1 .. n : g[i] = f[i],
         Len(g) = n \/ (Len(g) = n + 1 /\ g[n + 1] = Torn)
  PROVE  Ordered(g) /\ (Below(f, b) => Below(g, b))
<1>1. Len(f) \in Nat /\ n \in Nat /\ n <= Len(f)
  BY LenProperties
<1>2. ASSUME NEW j \in 1 .. Len(g), Clean(g, j)
      PROVE  j \in 1 .. Len(f) /\ Clean(f, j) /\ j \in 1 .. n
  <2>1. j \in 1 .. n
    BY <1>1, <1>2 DEF Clean
  <2>2. \A m \in 1 .. j : f[m] # Torn
    BY <1>1, <1>2, <2>1 DEF Clean
  <2> QED  BY <1>1, <2>1, <2>2 DEF Clean
<1>3. Ordered(g)
  <2> SUFFICES ASSUME NEW j \in 1 .. Len(g), Clean(g, j), NEW i \in 1 .. j - 1
               PROVE  g[i].seq < g[j].seq
    BY DEF Ordered
  <2>1. j \in 1 .. Len(f) /\ Clean(f, j) /\ j \in 1 .. n
    BY <1>2
  <2>2. f[i].seq < f[j].seq
    BY <2>1 DEF Ordered
  <2>3. g[i] = f[i] /\ g[j] = f[j]
    BY <1>1, <2>1
  <2> QED  BY <2>2, <2>3
<1>4. ASSUME Below(f, b)  PROVE Below(g, b)
  <2> SUFFICES ASSUME NEW j \in 1 .. Len(g), Clean(g, j)  PROVE g[j].seq <= b
    BY DEF Below
  <2>1. j \in 1 .. Len(f) /\ Clean(f, j) /\ j \in 1 .. n
    BY <1>2
  <2> QED  BY <1>4, <2>1 DEF Below
<1> QED  BY <1>3, <1>4

\* Append: the new number goes beyond those of all readable entries.
LEMMA LongerKeeps ==
  ASSUME NEW f \in Seq(Elements), NEW e \in LogEntry, NEW b \in Nat,
         Ordered(f), Below(f, b), e.seq = b + 1
  PROVE  Ordered(Append(f, e)) /\ Below(Append(f, e), b + 1)
<1> DEFINE g == Append(f, e)
<1>1. /\ Len(f) \in Nat /\ Len(g) = Len(f) + 1
      /\ \A i \in 1 .. Len(f) : g[i] = f[i]
      /\ g[Len(f) + 1] = e
  BY AppendElement, LenProperties DEF Elements
<1> HIDE DEF g
<1>2. ASSUME NEW j \in 1 .. Len(g), Clean(g, j), NEW i \in 1 .. j, i <= Len(f)
      PROVE  i \in 1 .. Len(f) /\ Clean(f, i) /\ g[i] = f[i] /\ f[i].seq \in Nat /\ f[i].seq <= b
  <2>1. i \in 1 .. Len(f) /\ g[i] = f[i]
    BY <1>1, <1>2
  <2>2. \A m \in 1 .. i : f[m] # Torn
    BY <1>1, <1>2, <2>1 DEF Clean
  <2>3. Clean(f, i)
    BY <2>2 DEF Clean
  <2>4. i \in 1 .. i
    BY <2>1
  <2>5. f[i].seq \in Nat
    BY <2>1, <2>3, <2>4, CleanNumbers
  <2> QED  BY <2>1, <2>3, <2>5 DEF Below
<1>3. Ordered(g)
  <2> SUFFICES ASSUME NEW j \in 1 .. Len(g), Clean(g, j), NEW i \in 1 .. j - 1
               PROVE  g[i].seq < g[j].seq
    BY DEF Ordered
  <2>1. i \in 1 .. j /\ i <= Len(f) /\ j \in 1 .. j
    BY <1>1
  <2>2. Clean(f, i) /\ g[i] = f[i] /\ f[i].seq \in Nat /\ f[i].seq <= b
    BY <1>2, <2>1
  <2>3. CASE j <= Len(f)
    <3>1. j \in 1 .. Len(f) /\ Clean(f, j) /\ g[j] = f[j]
      BY <1>2, <2>1, <2>3
    <3>2. f[i].seq < f[j].seq
      BY <3>1 DEF Ordered
    <3> QED  BY <2>2, <3>1, <3>2
  <2>4. CASE j > Len(f)
    <3>1. g[j] = e
      BY <1>1, <2>4
    <3> QED  BY <2>2, <3>1
  <2> QED  BY <1>1, <2>3, <2>4
<1>4. Below(g, b + 1)
  <2> SUFFICES ASSUME NEW j \in 1 .. Len(g), Clean(g, j)  PROVE g[j].seq <= b + 1
    BY DEF Below
  <2>1. j \in 1 .. j
    OBVIOUS
  <2>2. CASE j <= Len(f)
    <3>1. g[j] = f[j] /\ f[j].seq \in Nat /\ f[j].seq <= b
      BY <1>2, <2>1, <2>2
    <3> QED  BY <3>1
  <2>3. CASE j > Len(f)
    <3>1. g[j] = e
      BY <1>1, <2>3
    <3> QED  BY <3>1
  <2> QED  BY <1>1, <2>2, <2>3
<1> QED  BY <1>3, <1>4 DEF g

\* A larger bound is a bound.
LEMMA BelowMore ==
  ASSUME NEW f \in Seq(Elements), NEW b \in Nat, NEW c \in Nat, b <= c, Below(f, b)
  PROVE  Below(f, c)
<1> SUFFICES ASSUME NEW j \in 1 .. Len(f), Clean(f, j)  PROVE f[j].seq <= c
  BY DEF Below
<1>1. j \in 1 .. j
  BY LenProperties
<1>2. f[j].seq \in Nat
  BY <1>1, CleanNumbers
<1>3. f[j].seq <= b
  BY DEF Below
<1> QED  BY <1>2, <1>3

\* Every step of the log keeps the numbers in order.
LEMMA SeqStep ==
  ASSUME WALTypeOK, SeqInv, WALStep
  PROVE  SeqInv'
<1>t. /\ file \in Seq(Elements) /\ Len(file) \in Nat /\ sequence \in Nat
      /\ DOMAIN archives \subseteq Nat
  BY LenProperties DEF WALTypeOK, Elements
<1>0. Ordered(<<>>) /\ \A b : Below(<<>>, b)
  BY DEF Ordered, Below
\* What does not write leaves the file and may raise the number.
<1>u. ASSUME UNCHANGED <<header, file, archives>>,
             \/ handle' # "open"
             \/ handle' = handle /\ writer' \in {writer, "failed"} /\ sequence' \in {sequence, sequence + 1},
             step' = "idle" \/ handle' = "open",
             step' = "header" <=> (step = "header" /\ handle' = "open")
      PROVE  SeqInv'
  <2>1. handle' = "open" => Below(file, sequence')
    BY <1>t, <1>u, BelowMore DEF SeqInv
  <2> QED  BY <1>u, <2>1 DEF SeqInv, Ordered, Below, Clean
\* The path holds an empty file.
<1>e. ASSUME file' = <<>>, \A a \in DOMAIN archives' : Ordered(archives'[a]) /\ Below(archives'[a], a),
             step' # "idle" => handle' = "open",
             handle' = "open" /\ writer' = "ok" /\ step' # "header" => header' = "ok"
      PROVE  SeqInv'
  BY <1>0, <1>e DEF SeqInv
<1>r. ASSUME step = "rename", Archive
      PROVE  \A a \in DOMAIN archives' : Ordered(archives'[a]) /\ Below(archives'[a], a)
  BY <1>r DEF Archive, SeqInv
<1>n. \A a \in DOMAIN archives : Ordered(archives[a]) /\ Below(archives[a], a)
  BY DEF SeqInv
\* Power fails: a prefix of the file stays, or of an unsynced one nothing.
<1>p. ASSUME NEW from \in Nat, from <= Len(file), Cut(from), UNCHANGED <<header, archives>>, ProcessGone
      PROVE  SeqInv'
  <2>1. file' \in Seq(Elements)
    BY <1>t, <1>p, CutElements
  <2>2. PICK n \in 0 .. Len(file) :
          /\ \A i \in 1 .. n : file'[i] = file[i]
          /\ Len(file') = n \/ (n < Len(file) /\ Len(file') = n + 1 /\ file'[n + 1] = Torn)
    BY <1>t, <1>p, CutPrefix
  <2>3. Ordered(file')
    BY <1>t, <2>1, <2>2, ShorterKeeps DEF SeqInv
  <2>4. file = <<>> => file' = <<>>
    <3>1. ASSUME file = <<>>  PROVE Len(file') = 0
      BY <1>t, <2>2, <3>1
    <3> QED  BY <2>1, <3>1, EmptySeq
  <2> QED  BY <1>p, <2>3, <2>4 DEF SeqInv, ProcessGone
<1> USE DEF diskVars, procVars
<1>1. CASE NewWALEmpty
  <2>1. file' = <<>>
    BY <1>1 DEF NewWALEmpty, SeqInv
  <2> QED  BY <1>1, <1>e, <1>n, <2>1 DEF NewWALEmpty
<1>2. CASE NewWALExisting
  <2>1. PICK n \in 0 .. Len(file) :
          ReadableUpTo(n) /\ sequence' = IF n = 0 THEN 0 ELSE file[n].seq
    BY <1>2 DEF NewWALExisting
  <2>2. ASSUME NEW j \in 1 .. Len(file), Clean(file, j)  PROVE file[j].seq <= sequence'
    <3>1. j <= n
      <4>1. n < j => n + 1 \in 1 .. j /\ n < Len(file)
        BY <1>t
      <4> QED  BY <1>t, <2>1, <2>2, <4>1 DEF Clean, ReadableUpTo, Readable
    <3>2. n \in 1 .. Len(file) /\ Clean(file, n)
      BY <1>t, <2>1, <3>1 DEF ReadableUpTo, Readable, Clean
    <3>3. sequence' = file[n].seq
      BY <2>1, <3>2
    <3>4. file[j].seq \in Nat /\ file[n].seq \in Nat
      BY <1>t, <3>1, <3>2, CleanNumbers
    <3>5. CASE j = n
      BY <3>3, <3>4, <3>5
    <3>6. CASE j < n
      <4>1. j \in 1 .. n - 1
        BY <1>t, <3>6
      <4>2. file[j].seq < file[n].seq
        BY <3>2, <4>1 DEF SeqInv, Ordered
      <4> QED  BY <3>3, <3>4, <4>2
    <3> QED  BY <1>t, <3>1, <3>5, <3>6
  <2>3. Below(file, sequence')
    BY <2>2 DEF Below
  <2> QED  BY <1>2, <2>3 DEF NewWALExisting, SeqInv
<1>3. CASE NewWALRejected
  BY <1>3, <1>u DEF NewWALRejected, SeqInv
<1>4. CASE NewWALFails
  <2>1. file = <<>>
    BY <1>4 DEF NewWALFails, SeqInv
  <2> QED  BY <1>4, <1>e, <1>n, <2>1 DEF NewWALFails, SeqInv
<1>5. CASE \E p \in Operations : AppendWrite(p)
  <2>1. PICK p \in Operations : AppendWrite(p)
    BY <1>5
  <2> DEFINE e == [seq |-> sequence + 1, op |-> p.op, key |-> p.key, value |-> p.value]
  <2>2. e \in LogEntry /\ e.seq = sequence + 1
    <3>1. sequence + 1 \in Nat
      BY <1>t
    <3>2. e \in LogEntry
      BY <3>1, EntryWritten, Zenon DEF EntryOf
    <3> QED  BY <3>2
  <2>3. /\ file' = Append(file, e) /\ sequence' = sequence + 1
        /\ handle = "open" /\ writer = "ok" /\ step = "idle" /\ step' \in {"idle", "fsync"}
        /\ UNCHANGED <<header, archives, handle, writer>>
    BY <2>1 DEF AppendWrite, Ready
  <2> HIDE DEF e
  <2>4. Ordered(file') /\ Below(file', sequence')
    BY <1>t, <2>2, <2>3, LongerKeeps DEF SeqInv
  <2> QED  BY <2>3, <2>4 DEF SeqInv
<1>6. CASE AppendFsync \/ AppendFsyncFails
  BY <1>6, <1>u DEF AppendFsync, AppendFsyncFails, SeqInv
<1>7. CASE AppendWriteFails
  <2>1. /\ handle = "open" /\ writer = "ok" /\ step = "idle"
        /\ sequence' = sequence + 1 /\ writer' = "failed"
        /\ UNCHANGED <<header, archives, handle, step>>
        /\ file' = file \/ file' = Append(file, Torn)
    BY <1>7 DEF AppendWriteFails, Ready
  <2>2. CASE file' = file
    BY <1>u, <2>1, <2>2
  <2>3. CASE file' = Append(file, Torn)
    <3>1. /\ file' \in Seq(Elements) /\ Len(file') = Len(file) + 1
          /\ \A i \in 1 .. Len(file) : file'[i] = file[i]
          /\ file'[Len(file) + 1] = Torn
      BY <1>t, <2>3, AppendElement DEF Elements
    <3>2. Below(file, sequence + 1)
      BY <1>t, <2>1, BelowMore DEF SeqInv
    <3>3. Len(file) \in 0 .. Len(file)
      BY <1>t
    <3>4. Ordered(file') /\ Below(file', sequence')
      BY <1>t, <2>1, <3>1, <3>2, <3>3, ShorterKeeps, Zenon DEF SeqInv
    <3> QED  BY <2>1, <3>4 DEF SeqInv
  <2> QED  BY <2>1, <2>2, <2>3
<1>8. CASE AppendRefused
  BY <1>8, <1>u DEF AppendRefused
<1>9. CASE Sync \/ SyncFails
  BY <1>9, <1>u DEF Sync, SyncFails, Ready
<1>10. CASE Close \/ Checkpoint \/ RotateLog
  BY <1>10, <1>u DEF Close, Checkpoint, RotateLog, FlushAndClose, Ready
<1>11. CASE CheckpointTruncate
  BY <1>11, <1>e, <1>n DEF CheckpointTruncate, EmptyFile, SeqInv
<1>12. CASE RotateRename
  BY <1>12, <1>e, <1>r DEF RotateRename, EmptyFile, SeqInv
<1>13. CASE WriteHeader
  <2>1. file' = <<>>
    BY <1>13 DEF WriteHeader, SeqInv
  <2> QED  BY <1>13, <1>e, <1>n, <2>1 DEF WriteHeader
<1>14. CASE WriteHeaderFails
  <2>1. file' = <<>>
    BY <1>14 DEF WriteHeaderFails, SeqInv
  <2> QED  BY <1>14, <1>e, <1>n, <2>1 DEF WriteHeaderFails
<1>15. CASE ReopenFails
  BY <1>15, <1>u DEF ReopenFails
<1>16. CASE RotateCreateFails
  BY <1>16, <1>e, <1>r DEF RotateCreateFails, EmptyFile
<1>17. CASE Exit \/ Kill
  BY <1>17, <1>u DEF Exit, Kill, ProcessGone
<1>18. CASE PowerLoss
  <2>1. CASE durable >= 0 /\ Cut(durable) /\ UNCHANGED header
    <3>1. durable \in Nat /\ durable <= Len(file)
      BY <1>t, <2>1 DEF WALTypeOK
    <3> QED  BY <1>18, <1>p, <2>1, <3>1 DEF PowerLoss
  <2>2. CASE Cut(0) /\ UNCHANGED header
    BY <1>t, <1>18, <1>p, <2>2 DEF PowerLoss
  <2>3. CASE file' = <<>>
    BY <1>18, <1>e, <1>n, <2>3 DEF PowerLoss, ProcessGone
  <2>4. CASE UNCHANGED <<header, file>>
    BY <1>18, <1>u, <2>4 DEF PowerLoss, ProcessGone
  <2> QED  BY <1>18, <2>1, <2>2, <2>3, <2>4 DEF PowerLoss
<1>19. CASE UNCHANGED walVars
  BY <1>19 DEF walVars, SeqInv, Ordered, Below, Clean
<1>20. (\E p \in Calls : AppendWrite(p)) => (\E p \in Operations : AppendWrite(p))
  BY CallsAssumption
<1> QED
  BY <1>1, <1>2, <1>3, <1>4, <1>5, <1>6, <1>7, <1>8, <1>9, <1>10, <1>11, <1>12, <1>13,
     <1>14, <1>15, <1>16, <1>17, <1>18, <1>19, <1>20 DEF WALStep, WALNext

\* SeqInv says what SequenceAscends and ArchiveCovers say.
LEMMA SeqImplies == WALTypeOK /\ SeqInv => SequenceAscends /\ ArchiveCovers
<1> SUFFICES ASSUME WALTypeOK, SeqInv  PROVE SequenceAscends /\ ArchiveCovers
  OBVIOUS
<1>1. ASSUME NEW f, Ordered(f), Len(f) \in Nat, NEW n \in 0 .. Len(f), Readable(f, n)
      PROVE  /\ \A i, j \in 1 .. n : i < j => f[i].seq < f[j].seq
             /\ \A b : Below(f, b) => \A i \in 1 .. n : f[i].seq <= b
  <2>1. ASSUME NEW j \in 1 .. n  PROVE j \in 1 .. Len(f) /\ Clean(f, j)
    BY <1>1, <2>1 DEF Readable, Clean
  <2> QED  BY <1>1, <2>1 DEF Ordered, Below
<1>2. SequenceAscends
  <2>1. Len(file) \in Nat
    BY LenProperties DEF WALTypeOK
  <2> QED  BY <1>1, <2>1 DEF SequenceAscends, ReadableUpTo, Ascending, SeqInv
<1>3. ArchiveCovers
  <2>1. \A a \in DOMAIN archives : Len(archives[a]) \in Nat
    BY LenProperties DEF WALTypeOK
  <2> QED  BY <1>1, <2>1 DEF ArchiveCovers, Ascending, SeqInv
<1> QED  BY <1>2, <1>3

\* The state before the first NewWAL.
LEMMA WALInitOK == WALInit => WALTypeOK /\ SeqInv
  BY EmptySeq DEF WALInit, WALTypeOK, SeqInv, Ordered, Below

\* Types and numbers together are inductive.
LEMMA WALInv == WALSpec => [](WALTypeOK /\ SeqInv)
<1>1. WALTypeOK /\ SeqInv /\ [WALNext]_walVars => (WALTypeOK /\ SeqInv)'
  BY WALTypeStep, SeqStep DEF WALStep
<1> QED  BY <1>1, WALInitOK, PTL DEF WALSpec

\* No sequence of appends, rotations, crashes and recoveries takes the log out of
\* its type: the fsynced part never exceeds the file, the counter stays a number.
THEOREM WALTypeCorrect == WALSpec => []WALTypeOK
  BY WALInv, PTL

\* What recovery reads of the log is in the order of its sequence numbers, and
\* an open WAL goes on beyond them, after any number of restarts, torn writes,
\* failed fsyncs, checkpoints and rotations.
THEOREM SequenceCorrect == WALSpec => []SequenceAscends
  BY WALInv, SeqImplies, PTL

\* An archive can be replayed in order and holds nothing numbered beyond its
\* name, also when a rotation has replaced an older archive of that name.
THEOREM ArchiveCorrect == WALSpec => []ArchiveCovers
  BY WALInv, SeqImplies, PTL

=============================================================================
