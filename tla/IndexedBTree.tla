---------------------------- MODULE IndexedBTree ----------------------------
(***************************************************************************)
(* The tree with secondary indexes (src/bptree/indexed_btree.go).  A call  *)
(* holds db.mu only while it copies the list of indexes; the check of the  *)
(* unique constraints, the change of the primary tree and the change of    *)
(* each index are lock sections of their own, and those of other calls run *)
(* in between.                                                             *)
(*                                                                         *)
(* The primary tree is its contents: the operations of the sharded tree on *)
(* one key are atomic (ShardedLin).  An index is an object that calls go   *)
(* on using after DropIndex has taken it out of db.indexes; objs holds all *)
(* that are in use, and a pointer is a position in it.                     *)
(***************************************************************************)
EXTENDS Integers, Sequences, FiniteSets

CONSTANTS
  Clients,       \* the goroutines that call the tree
  May,           \* the operations each of them calls
  ShardKeys,     \* shard |-> its keys in order; a key is a sequence of bytes
  Pairs,         \* the <<key, record>> pairs that are written; a record is bytes
  Configs,       \* index name |-> [extractor, unique]
  Nil,
  Careful,       \* TRUE: the clients keep to the rules of BeginWrite and Clear
  MaxIndexes     \* bound: the index objects in use at the same time

Idx  == INSTANCE SecondaryIndex
Seqs == INSTANCE SequencesExt

Writes == {"insert", "update", "delete"}
Admin  == {"create", "rebuild", "drop", "clear"}
Names  == DOMAIN Configs
Shards == DOMAIN ShardKeys
Keys   == UNION {Seqs!ToSet(ShardKeys[s]) : s \in Shards}
ShardOf(k) == CHOOSE s \in Shards : k \in Seqs!ToSet(ShardKeys[s])

\* One goroutine manages the indexes: another that drops an index between
\* CreateIndex and the rebuild makes the rebuild follow a nil pointer.
ASSUME IndexedAssumption ==
  /\ \A c \in Clients : May[c] \subseteq Writes \union Admin
  /\ Cardinality({c \in Clients : May[c] \intersect Admin # {}}) <= 1
  /\ \A s, t \in Shards : s # t => Seqs!ToSet(ShardKeys[s]) \intersect Seqs!ToSet(ShardKeys[t]) = {}
  /\ \A p \in Pairs : p[1] \in Keys /\ p[2] # Nil

VARIABLES
  primary,       \* key |-> its record, or Nil
  objs,          \* the index objects; Nil where there is none
  indexes,       \* db.indexes: name |-> the position of its object, or 0
  call,          \* client |-> its call in progress
  spoiled        \* history: the objects to which something has happened that
                 \* the maintenance of indexes does not provide for

vars == <<primary, objs, indexes, call, spoiled>>

(***************************************************************************)
(* A call in progress.  at: where it is; key, rec, old: its key, the new   *)
(* and the old record; checks: the indexes whose constraint it has still   *)
(* to check; list, pos: its copy of the list of indexes and how far it     *)
(* is; half: SecondaryIndex.Update is between Remove and Index.  For a     *)
(* rebuild name is the index, pos the next shard of ForEach, and visit the *)
(* <<key, record>> pairs left in the shard it has read-locked.             *)
(***************************************************************************)
Idle ==
  [op |-> "none", at |-> "", key |-> <<>>, rec |-> Nil, old |-> Nil,
   checks |-> <<>>, list |-> <<>>, pos |-> 1, half |-> FALSE, name |-> "", visit |-> <<>>]

Init ==
  /\ primary = [k \in Keys |-> Nil]
  /\ objs = [o \in 1 .. MaxIndexes |-> Nil]
  /\ indexes = [n \in Names |-> 0]
  /\ call = [c \in Clients |-> Idle]
  /\ spoiled = {}

-----------------------------------------------------------------------------
Registered == {indexes[n] : n \in Names} \ {0}
Lists      == Seqs!SetToSeqs(Registered)

Writing(k)  == \E c \in Clients : call[c].op \in Writes /\ call[c].key = k
Writers     == \E c \in Clients : call[c].op \in Writes
Clearing    == \E c \in Clients : call[c].op = "clear"
Rebuilding  == {indexes[call[c].name] : c \in {d \in Clients : call[d].op = "rebuild"}}

\* The shard is read-locked by the ForEach of a rebuild.
ReadLocked(s) ==
  \E c \in Clients : call[c].visit # <<>> /\ ShardOf(call[c].visit[1][1]) = s

\* Client c goes on with its call as r says, the indexes are now ix and os,
\* and bad of them are spoiled.  What nobody points to any more is garbage.
Settle(c, r, ix, os, bad) ==
  LET calls == [call EXCEPT ![c] = r]
      used  == {ix[n] : n \in Names} \union UNION {Seqs!ToSet(calls[d].list) : d \in Clients}
  IN  /\ call' = calls
      /\ indexes' = ix
      /\ objs' = [o \in DOMAIN os |-> IF o \in used THEN os[o] ELSE Nil]
      /\ spoiled' = (spoiled \union bad) \intersect used

Become(c, r, os) == Settle(c, r, indexes, os, {})

\* A write that begins.  It spoils an index that is being rebuilt, and it
\* spoils all of them, which Careful clients avoid, if it overlaps a write of
\* the same key or a Clear, or if it overwrites a record unseen.
BeginWrite(c, k, r, unseen) ==
  LET reckless == unseen \/ Writing(k) \/ Clearing \/ Registered \intersect spoiled # {}
  IN  /\ call[c].op = "none" /\ r.op \in May[c]
      /\ Careful => ~reckless
      /\ Settle(c, r, indexes, objs, IF reckless THEN DOMAIN objs ELSE Rebuilding)
      /\ UNCHANGED primary

\* The unique indexes for which a call compares the new field.
NeedsCheck(r, o) ==
  LET f == Idx!Field(objs[o], r.rec)
  IN  /\ objs[o].unique /\ f # Nil
      /\ r.op = "update" => Idx!Field(objs[o], r.old) # f

WithList(r, list) ==
  LET checks == IF r.op = "delete" THEN <<>> ELSE SelectSeq(list, LAMBDA o : NeedsCheck(r, o))
  IN  [r EXCEPT !.list = list, !.checks = checks, !.at = "tree"]

Insert(c, key, value) ==
  \E list \in Lists :
    BeginWrite(c, key, WithList([Idle EXCEPT !.op = "insert", !.key = key, !.rec = value], list),
               primary[key] # Nil)

\* Update and Delete find the old record first and copy the list after that.
Update(c, key, newValue) ==
  /\ primary[key] # Nil
  /\ BeginWrite(c, key, [Idle EXCEPT !.op = "update", !.at = "copy", !.key = key, !.rec = newValue,
                                     !.old = primary[key]], FALSE)

Delete(c, key) ==
  /\ primary[key] # Nil
  /\ BeginWrite(c, key, [Idle EXCEPT !.op = "delete", !.at = "copy", !.key = key, !.old = primary[key]],
                FALSE)

CopyList(c) ==
  /\ call[c].at = "copy"
  /\ \E list \in Lists : Become(c, WithList(call[c], list), objs)
  /\ UNCHANGED primary

\* FindOne of the next unique index: a hit ends the call.
CheckUnique(c) ==
  LET r == call[c]
      o == Head(r.checks)
  IN  /\ r.checks # <<>>
      /\ Become(c, IF Idx!Stores(objs[o], Idx!Field(objs[o], r.rec)) THEN Idle
                   ELSE [r EXCEPT !.checks = Tail(r.checks)], objs)
      /\ UNCHANGED primary

\* The call has done all indexes before position pos.
At(r, pos) == IF pos > Len(r.list) THEN Idle ELSE [r EXCEPT !.at = "index", !.pos = pos, !.half = FALSE]

\* db.tree.Insert or db.tree.Delete; a Delete that finds nothing returns.
ChangeTree(c) ==
  LET r == call[c]
  IN  /\ r.at = "tree" /\ r.checks = <<>> /\ ~ReadLocked(ShardOf(r.key))
      /\ primary' = [primary EXCEPT ![r.key] = r.rec]
      /\ Become(c, IF r.op = "delete" /\ primary[r.key] = Nil THEN Idle ELSE At(r, 1), objs)

Current(c) == call[c].list[call[c].pos]

\* idx.Index of Insert; the error leads to the rollback.
IndexInserted(c) ==
  LET r == call[c]
      o == Current(c)
  IN  /\ r.op = "insert" /\ r.at = "index"
      /\ IF Idx!Duplicate(objs[o], r.rec)
         THEN Become(c, [r EXCEPT !.at = "rollback"], objs)
         ELSE Become(c, At(r, r.pos + 1), [objs EXCEPT ![o] = Idx!Index(@, r.key, r.rec)])
      /\ UNCHANGED primary

\* Mutant: the error is returned without taking the record out again.
RollbackForgotten(c) ==
  LET r == call[c]
  IN  /\ r.at = "rollback" /\ ~ReadLocked(ShardOf(r.key))
      /\ Settle(c, Idle, indexes, objs, {r.list[i] : i \in 1 .. r.pos - 1})
      /\ UNCHANGED primary

\* The rollback takes the record out again and leaves the indexes before the
\* one that failed as they are.
Rollback(c) ==
  LET r == call[c]
  IN  /\ r.at = "rollback" /\ ~ReadLocked(ShardOf(r.key))
      /\ primary' = [primary EXCEPT ![r.key] = Nil]
      /\ Settle(c, Idle, indexes, objs, {r.list[i] : i \in 1 .. r.pos - 1})

\* idx.Update: nothing if the field is the same; else Remove and Index, two
\* lock sections.  An error ends the call.
UpdateIndexed(c) ==
  LET r == call[c]
      o == Current(c)
      same == Idx!Field(objs[o], r.old) = Idx!Field(objs[o], r.rec)
  IN  /\ r.op = "update" /\ r.at = "index"
      /\ \/ same /\ Become(c, At(r, r.pos + 1), objs)
         \/ /\ ~same /\ ~r.half
            /\ Become(c, [r EXCEPT !.half = TRUE], [objs EXCEPT ![o] = Idx!Remove(@, r.key, r.old)])
         \/ /\ r.half /\ ~Idx!Duplicate(objs[o], r.rec)
            /\ Become(c, At(r, r.pos + 1), [objs EXCEPT ![o] = Idx!Index(@, r.key, r.rec)])
         \/ /\ r.half /\ Idx!Duplicate(objs[o], r.rec)
            /\ Settle(c, Idle, indexes, objs, {r.list[i] : i \in r.pos .. Len(r.list)})
      /\ UNCHANGED primary

RemoveDeleted(c) ==
  LET r == call[c]
      o == Current(c)
  IN  /\ r.op = "delete" /\ r.at = "index"
      /\ Become(c, At(r, r.pos + 1), [objs EXCEPT ![o] = Idx!Remove(@, r.key, r.old)])
      /\ UNCHANGED primary

-----------------------------------------------------------------------------
\* A new object for the name; without a rebuild it knows only what is
\* written from now on.
AddIndex(c, r, name, harmed) ==
  \E o \in DOMAIN objs :
    /\ call[c].op = "none" /\ indexes[name] = 0
    /\ objs[o] = Nil /\ \A p \in 1 .. o - 1 : objs[p] # Nil
    /\ Settle(c, r, [indexes EXCEPT ![name] = o],
              [objs EXCEPT ![o] = Idx!NewSecondaryIndex(Configs[name])],
              IF harmed THEN {o} ELSE {})
    /\ UNCHANGED primary

CreateIndex(c, name) ==
  /\ "create" \in May[c]
  /\ AddIndex(c, Idle, name, Writers \/ \E k \in Keys : primary[k] # Nil)

CreateIndexWithRebuild(c, name) ==
  /\ "rebuild" \in May[c]
  /\ AddIndex(c, [Idle EXCEPT !.op = "rebuild", !.at = "lookup", !.name = name], name, Writers)

RebuildLookup(c) ==
  /\ call[c].at = "lookup"
  /\ Become(c, [call[c] EXCEPT !.at = "forEach", !.list = <<indexes[call[c].name]>>], objs)
  /\ UNCHANGED primary

\* The rebuild returns when the last record of the last shard is done.
Visiting(r, visit) == IF visit = <<>> /\ r.pos > Len(ShardKeys) THEN Idle ELSE [r EXCEPT !.visit = visit]

\* ForEach read-locks the next shard, until its records are visited.
RebuildShard(c) ==
  LET r      == call[c]
      stored == SelectSeq(ShardKeys[r.pos], LAMBDA k : primary[k] # Nil)
  IN  /\ r.at = "forEach" /\ r.visit = <<>>
      /\ Become(c, Visiting([r EXCEPT !.pos = @ + 1],
                            [i \in DOMAIN stored |-> <<stored[i], primary[stored[i]]>>]), objs)
      /\ UNCHANGED primary

\* The callback of ForEach; an error ends the traversal.
RebuildVisit(c) ==
  LET r == call[c]
      o == r.list[1]
      p == Head(r.visit)
  IN  /\ r.at = "forEach" /\ r.visit # <<>>
      /\ IF Idx!Duplicate(objs[o], p[2])
         THEN Become(c, [r EXCEPT !.at = "undo", !.visit = <<>>], objs)
         ELSE Become(c, Visiting(r, Tail(r.visit)), [objs EXCEPT ![o] = Idx!Index(@, p[1], p[2])])
      /\ UNCHANGED primary

RebuildUndo(c) ==
  /\ call[c].at = "undo"
  /\ Settle(c, Idle, [indexes EXCEPT ![call[c].name] = 0], objs, {})
  /\ UNCHANGED primary

DropIndex(c, name) ==
  /\ call[c].op = "none" /\ "drop" \in May[c] /\ indexes[name] # 0
  /\ Settle(c, Idle, [indexes EXCEPT ![name] = 0], objs, {})
  /\ UNCHANGED primary

Clear(c) ==
  /\ call[c].op = "none" /\ "clear" \in May[c]
  /\ Careful => ~Writers
  /\ \E list \in Lists :
       Settle(c, [Idle EXCEPT !.op = "clear", !.list = list], indexes, objs,
              IF Writers THEN DOMAIN objs ELSE {})
  /\ UNCHANGED primary

ClearIndex(c) ==
  LET r == call[c]
  IN  /\ r.op = "clear" /\ r.list # <<>>
      /\ Become(c, [r EXCEPT !.list = Tail(r.list)], [objs EXCEPT ![Head(r.list)] = Idx!Clear(@)])
      /\ UNCHANGED primary

\* db.tree.Clear, one shard after the other.
ClearShard(c) ==
  LET r == call[c]
  IN  /\ r.op = "clear" /\ r.list = <<>>
      /\ primary' = [k \in Keys |-> IF ShardOf(k) = r.pos THEN Nil ELSE primary[k]]
      /\ Become(c, IF r.pos = Len(ShardKeys) THEN Idle ELSE [r EXCEPT !.pos = @ + 1], objs)

-----------------------------------------------------------------------------
\* The steps of a call that has begun.
Step(c) ==
  \/ CopyList(c) \/ CheckUnique(c) \/ ChangeTree(c)
  \/ IndexInserted(c) \/ Rollback(c) \/ UpdateIndexed(c) \/ RemoveDeleted(c)
  \/ RebuildLookup(c) \/ RebuildShard(c) \/ RebuildVisit(c) \/ RebuildUndo(c)
  \/ ClearIndex(c) \/ ClearShard(c)

Begin(c) ==
  \/ \E p \in Pairs : Insert(c, p[1], p[2]) \/ Update(c, p[1], p[2])
  \/ \E k \in Keys : Delete(c, k)
  \/ \E n \in Names : CreateIndex(c, n) \/ CreateIndexWithRebuild(c, n) \/ DropIndex(c, n)
  \/ Clear(c)

Next == \E c \in Clients : Begin(c) \/ Step(c)

Spec == Init /\ [][Next]_vars

-----------------------------------------------------------------------------
\* The fields under which an index has a key, and under which it should.
FieldsFor(o, k) == {f \in DOMAIN objs[o].tree : k \in Seqs!ToSet(Idx!FindAll(objs[o], f))}
FieldsOf(o, k)  == IF primary[k] = Nil THEN {} ELSE {Idx!Field(objs[o], primary[k])} \ {Nil}

\* An index that nothing has spoiled holds every record that nobody is writing
\* under its field and under no other, whatever calls are in progress for
\* other keys: no race of Insert, Update and Delete of different keys, lost
\* unique check or rollback leaves an entry behind or loses one.
IndexExact ==
  ~Clearing =>
    \A o \in (Registered \ spoiled) \ Rebuilding :
      \A k \in Keys : ~Writing(k) => FieldsFor(o, k) = FieldsOf(o, k)

\* Larger than every sequence of bytes.
Beyond == <<256>>

\* An unspoiled index between calls: Count is the number of primary keys that
\* FindRange gives for all fields, and no stored list names a key twice or is
\* empty.
EntriesCounted ==
  ~Clearing /\ ~Writers =>
    \A o \in (Registered \ spoiled) \ Rebuilding :
      /\ objs[o].entries = Len(Idx!FindRange(objs[o], <<>>, Beyond))
      /\ \A f \in DOMAIN objs[o].tree :
           Idx!FindAll(objs[o], f) # <<>> /\ Seqs!IsInjective(Idx!FindAll(objs[o], f))

\* Between calls every entry of an index leads to a stored record with that
\* field (indexed_btree.go: "Secondary indexes maintained automatically on
\* insert/update/delete").
NoStaleEntries ==
  (\A c \in Clients : call[c].op = "none") =>
    \A o \in Registered, k \in Keys : FieldsFor(o, k) \subseteq FieldsOf(o, k)

=============================================================================
