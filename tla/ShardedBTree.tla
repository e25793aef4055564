---------------------------- MODULE ShardedBTree ----------------------------
(***************************************************************************)
(* The sharded tree (src/bptree/sharded_btree.go): an array of pointers to *)
(* Btrees.  A call first reads the pointer of the shard it needs, without  *)
(* a lock, and then works on that Btree under the Btree's own lock; the    *)
(* calls over all shards start one goroutine per shard.  Clear replaces    *)
(* the pointers one by one, also without a lock, so a call can go on       *)
(* working on a Btree that is no longer in the array.                      *)
(*                                                                         *)
(* A Btree is its contents, a map.  trees[s] holds every Btree shard s has *)
(* had, the one in the array last, and a pointer is a position in it.      *)
(* A pointer is one word: the race of Clear with the readers leaves them   *)
(* the old or the new one, and Replace is the moment the new one is seen.  *)
(***************************************************************************)
EXTENDS Integers, Sequences, FiniteSets

Operations ==
  {"insert", "find", "delete", "range", "deleteRange", "bulk", "forEach", "clear"}

CONSTANTS
  Clients,       \* the goroutines that call the tree
  May,           \* the operations each of them calls
  N,             \* the number of shards
  Keys, Values, NoValue,
  ShardOf,       \* the shard fnv32a and the modulo give a key
  Pairs,         \* the key-value pairs of Insert
  Ranges,        \* the <<startKey, endKey>> of GetRange and DeleteRange
  Bulks,         \* the argument lists of BulkInsert
  MaxClears      \* bound: the calls of Clear

ASSUME ShardedAssumption ==
  /\ May \in [Clients -> SUBSET Operations]
  /\ N \in Nat \ {0}
  /\ Keys \subseteq Int
  /\ NoValue \notin Values
  /\ ShardOf \in [Keys -> 1 .. N]
  /\ Pairs \subseteq Keys \X Values
  /\ Ranges \subseteq Keys \X Keys
  /\ Bulks \subseteq Seq(Keys \X Values)
  /\ MaxClears \in Nat

VARIABLES
  trees,         \* shard |-> the Btrees it has had
  call,          \* client |-> its call in progress
  doomed         \* history: client |-> the keys its Clear or DeleteRange is to
                 \* remove, stored when it began and not written since

vars == <<trees, call, doomed>>

Shards == 1 .. N

(***************************************************************************)
(* A call is what is left of it: per shard the lock sections still to run  *)
(* (jobs), the pointer read for them (0 before that), and the keys that    *)
(* DeleteRange has found and not deleted yet (rest).                       *)
(***************************************************************************)
InsertJob(k, v) == [do |-> "insert", keys |-> {k}, value |-> v]
DeleteJob(k)    == [do |-> "delete", keys |-> {k}, value |-> NoValue]
ReadJob(ks)     == [do |-> "read", keys |-> ks, value |-> NoValue]
ReplaceJob      == [do |-> "replace", keys |-> Keys, value |-> NoValue]

Jobs ==
  [do : {"insert", "delete", "read", "replace"}, keys : SUBSET Keys, value : Values \union {NoValue}]

NoJobs     == [s \in Shards |-> <<>>]
NoPointers == [s \in Shards |-> 0]
NewCall(op, jobs) == [op |-> op, jobs |-> jobs, ptr |-> NoPointers, rest |-> {}]
Idle == NewCall("none", NoJobs)

KeysOf(s) == {k \in Keys : ShardOf[k] = s}
EmptyTree == [k \in Keys |-> NoValue]

Init ==
  /\ trees = [s \in Shards |-> <<EmptyTree>>]
  /\ call = [c \in Clients |-> Idle]
  /\ doomed = [c \in Clients |-> {}]

-----------------------------------------------------------------------------
\* The Btree of shard s that is in the array.
Live(s)   == trees[s][Len(trees[s])]
Stored(k) == Live(ShardOf[k])[k] # NoValue

Start(c, new, target) ==
  /\ call[c].op = "none" /\ new.op \in May[c]
  /\ call' = [call EXCEPT ![c] = new]
  /\ doomed' = [doomed EXCEPT ![c] = {k \in target : Stored(k)}]
  /\ UNCHANGED trees

\* getShard, the first statement of a call for one key.
OneKey(op, k, job) ==
  [NewCall(op, [NoJobs EXCEPT ![ShardOf[k]] = <<job>>]) EXCEPT !.ptr[ShardOf[k]] = Len(trees[ShardOf[k]])]

Insert(c, k, v) == Start(c, OneKey("insert", k, InsertJob(k, v)), {})
Find(c, k)      == Start(c, OneKey("find", k, ReadJob({k})), {})
Delete(c, k)    == Start(c, OneKey("delete", k, DeleteJob(k)), {})

InRange(startKey, endKey) == {k \in Keys : startKey <= k /\ k <= endKey}

RangeJobs(ks) == [s \in Shards |-> <<ReadJob(ks \intersect KeysOf(s))>>]

GetRange(c, startKey, endKey) ==
  startKey <= endKey /\ Start(c, NewCall("range", RangeJobs(InRange(startKey, endKey))), {})

DeleteRange(c, startKey, endKey) ==
  /\ startKey <= endKey
  /\ Start(c, NewCall("deleteRange", RangeJobs(InRange(startKey, endKey))), InRange(startKey, endKey))

\* Count and Stats: as GetRange, over everything.
Count(c) == Start(c, NewCall("range", RangeJobs(Keys)), {})

ForEach(c) == Start(c, NewCall("forEach", RangeJobs(Keys)), {})

\* The pairs of a batch that belong to a shard, in the order of the batch.
Group(b, s) ==
  LET own == SelectSeq(b, LAMBDA p : ShardOf[p[1]] = s)
  IN  [i \in DOMAIN own |-> InsertJob(own[i][1], own[i][2])]

ASSUME GroupAssumption == \A b \in Bulks, s \in Shards : Group(b, s) \in Seq(Jobs)

BulkInsert(c, b) == b # <<>> /\ Start(c, NewCall("bulk", [s \in Shards |-> Group(b, s)]), {})

\* Mutant: the loop of Clear stops one shard early.
ClearSkipsLast(c) ==
  /\ \A s \in Shards :
       Len(trees[s]) + Cardinality({d \in Clients : call[d].jobs[s] = <<ReplaceJob>>}) <= MaxClears
  /\ Start(c, NewCall("clear", [s \in Shards |-> IF s < N THEN <<ReplaceJob>> ELSE <<>>]), Keys)

Clear(c) ==
  /\ \A s \in Shards :
       Len(trees[s]) + Cardinality({d \in Clients : call[d].jobs[s] = <<ReplaceJob>>}) <= MaxClears
  /\ Start(c, NewCall("clear", [s \in Shards |-> <<ReplaceJob>>]), Keys)

-----------------------------------------------------------------------------
\* When a call over all shards gets the pointer of shard s: the loops of
\* GetRange and Count read them in order and start a goroutine after each,
\* ForEach goes on to the next shard when it is done with one, the goroutines
\* of BulkInsert read their own.
MayRead(r, s) ==
  \/ r.op \in {"range", "deleteRange"} /\ \A t \in 1 .. s - 1 : r.ptr[t] # 0
  \/ r.op = "forEach" /\ \A t \in 1 .. s - 1 : r.jobs[t] = <<>>
  \/ r.op = "bulk"

\* Mutant: the pointers are those of the first array.
ReadPointerCached(c, s) ==
  /\ call[c].jobs[s] # <<>> /\ call[c].ptr[s] = 0
  /\ MayRead(call[c], s)
  /\ call' = [call EXCEPT ![c].ptr[s] = 1]
  /\ UNCHANGED <<trees, doomed>>

ReadPointer(c, s) ==
  /\ call[c].jobs[s] # <<>> /\ call[c].ptr[s] = 0
  /\ MayRead(call[c], s)
  /\ call' = [call EXCEPT ![c].ptr[s] = Len(trees[s])]
  /\ UNCHANGED <<trees, doomed>>

\* What a lock section makes of the value v of a key it is about, and what it
\* tells the caller.
After(job, v) ==
  CASE job.do = "insert" -> job.value
    [] job.do \in {"delete", "replace"} -> NoValue
    [] job.do = "read" -> v

Answer(job, v) ==
  CASE job.do \in {"insert", "replace"} -> "ok"
    [] job.do = "delete" -> IF v = NoValue THEN "missing" ELSE "deleted"
    [] job.do = "read"   -> v

Effect(job, t) == [k \in Keys |-> IF k \in job.keys THEN After(job, t[k]) ELSE t[k]]

Job(c, s)   == Head(call[c].jobs[s])
Tree(c, s)  == trees[s][call[c].ptr[s]]
Ready(c, s) == call[c].jobs[s] # <<>> /\ call[c].ptr[s] # 0

\* A call returns when nothing is left of it; DeleteRange goes on to delete.
Leave(r) ==
  CASE r.jobs # NoJobs -> r
    [] r.jobs = NoJobs /\ r.rest = {} -> Idle
    [] r.jobs = NoJobs /\ r.rest # {} -> [NewCall("sweep", NoJobs) EXCEPT !.rest = r.rest]

\* The live tree of shard s has new values for the keys ks.
Written(ks) == doomed' = [c \in Clients |-> doomed[c] \ ks]

\* shard.Insert, shard.Delete, shard.Find, sh.GetRange, sh.countKeys or
\* shard.root.forEach on the Btree the pointer leads to.
Work(c, s) ==
  LET r == call[c]
      found == {k \in Job(c, s).keys : r.op = "deleteRange" /\ Tree(c, s)[k] # NoValue}
  IN  /\ Ready(c, s)
      /\ trees' = [trees EXCEPT ![s][r.ptr[s]] = Effect(Job(c, s), @)]
      /\ call' = [call EXCEPT ![c] = Leave([r EXCEPT !.jobs[s] = Tail(r.jobs[s]), !.rest = r.rest \union found])]
      /\ Written(IF Job(c, s).do # "read" /\ r.ptr[s] = Len(trees[s])
                 THEN Job(c, s).keys ELSE {})

\* The keys ForEach visits up to a stored key k for which its callback
\* returns false.
Visited(s, k) == {j \in KeysOf(s) : j <= k}

StopForEach(c, s, k) ==
  /\ call[c].op = "forEach" /\ Ready(c, s)
  /\ k \in KeysOf(s) /\ Tree(c, s)[k] # NoValue
  /\ call' = [call EXCEPT ![c] = Idle]
  /\ UNCHANGED <<trees, doomed>>

\* The loop of DeleteRange: Delete of the smallest key that is left.
DeleteRangeNext(c, k) ==
  /\ call[c].op = "sweep" /\ call[c].jobs = NoJobs
  /\ k \in call[c].rest /\ \A j \in call[c].rest : k <= j
  /\ call' = [call EXCEPT ![c] = [OneKey("sweep", k, DeleteJob(k)) EXCEPT !.rest = call[c].rest \ {k}]]
  /\ UNCHANGED <<trees, doomed>>

\* One turn of the loop of Clear.
Replace(c, s) ==
  /\ call[c].op = "clear" /\ call[c].jobs[s] # <<>>
  /\ \A t \in 1 .. s - 1 : call[c].jobs[t] = <<>>
  /\ trees' = [trees EXCEPT ![s] = Append(@, EmptyTree)]
  /\ call' = [call EXCEPT ![c] = Leave([call[c] EXCEPT !.jobs[s] = <<>>])]
  /\ Written(KeysOf(s))

Begin(c) ==
  \/ \E p \in Pairs : Insert(c, p[1], p[2])
  \/ \E k \in Keys : Find(c, k) \/ Delete(c, k)
  \/ \E r \in Ranges : GetRange(c, r[1], r[2]) \/ DeleteRange(c, r[1], r[2])
  \/ \E b \in Bulks : BulkInsert(c, b)
  \/ Count(c) \/ ForEach(c) \/ Clear(c)
  \/ \E k \in Keys : DeleteRangeNext(c, k)

Next ==
  \E c \in Clients :
    \/ Begin(c)
    \/ \E s \in Shards : ReadPointer(c, s) \/ Work(c, s) \/ Replace(c, s)
    \/ \E s \in Shards, k \in Keys : StopForEach(c, s, k)

Spec == Init /\ [][Next]_vars

-----------------------------------------------------------------------------
\* When Clear or DeleteRange returns, none of the keys is left that were stored
\* when it began and that nobody has inserted since: the loops over shards
\* and over the snapshot miss none, although pointers change under them.
SweepsAll == \A c \in Clients : call[c].op = "none" => doomed[c] = {}

=============================================================================
