---------------------------- MODULE ShardedProofs ----------------------------
(***************************************************************************)
(* Proof that Clear and DeleteRange of the sharded tree leave none of the  *)
(* keys they are to remove, for every number of shards, keys, clients and  *)
(* whatever calls run at the same time.                                    *)
(***************************************************************************)
EXTENDS ShardedBTree, TLAPS

Contents == [Keys -> Values \union {NoValue}]

CallType ==
  [op : Operations \union {"none", "sweep"}, jobs : [Shards -> Seq(Jobs)],
   ptr : [Shards -> Nat], rest : SUBSET Keys]

ShardedTypeOK ==
  /\ trees \in [Shards -> Seq(Contents)]
  /\ call \in [Clients -> CallType]
  /\ doomed \in [Clients -> SUBSET Keys]
  /\ \A s \in Shards : Len(trees[s]) >= 1
  /\ \A c \in Clients, s \in Shards : call[c].ptr[s] <= Len(trees[s])

\* What is left to do about a doomed key k of shard s by a call r, when the
\* live tree of s is at position live.
Pending(r, k, s, live) ==
  CASE r.op = "clear" -> r.jobs[s] # <<>>
    [] r.op = "deleteRange" ->
         \/ k \in r.rest
         \/ /\ Len(r.jobs[s]) = 1 /\ r.jobs[s][1].do = "read" /\ k \in r.jobs[s][1].keys
            /\ r.ptr[s] \in {0, live}
    [] r.op = "sweep" ->
         \/ k \in r.rest
         \/ r.jobs[s] = <<DeleteJob(k)>> /\ r.ptr[s] = live
    [] OTHER -> FALSE

SweepInv ==
  /\ \A c \in Clients : \A k \in doomed[c] :
       /\ Stored(k)
       /\ Pending(call[c], k, ShardOf[k], Len(trees[ShardOf[k]]))
  /\ \A c \in Clients : call[c].op = "clear" => call[c].ptr = NoPointers

Inv == ShardedTypeOK /\ SweepInv

-----------------------------------------------------------------------------
\* A key has a shard.
LEMMA ShardType ==
  ASSUME NEW k \in Keys
  PROVE  ShardOf[k] \in Shards
BY ShardedAssumption DEF Shards

\* The building blocks of calls are of the right type.
LEMMA NewCallType ==
  ASSUME NEW op \in Operations \union {"none", "sweep"}, NEW jobs \in [Shards -> Seq(Jobs)]
  PROVE  /\ NewCall(op, jobs) \in CallType
         /\ NewCall(op, jobs).op = op /\ NewCall(op, jobs).jobs = jobs
         /\ NewCall(op, jobs).ptr = NoPointers /\ NewCall(op, jobs).rest = {}
         /\ \A s \in Shards : NewCall(op, jobs).ptr[s] = 0
<1>1. NoPointers \in [Shards -> Nat]
  BY DEF NoPointers
<1>2. {} \in SUBSET Keys
  OBVIOUS
<1> QED
  BY <1>1, <1>2 DEF NewCall, CallType, NoPointers

LEMMA NoJobsType == NoJobs \in [Shards -> Seq(Jobs)]
BY DEF NoJobs

LEMMA JobTypes ==
  /\ \A k \in Keys, v \in Values : InsertJob(k, v) \in Jobs
  /\ \A k \in Keys : DeleteJob(k) \in Jobs
  /\ \A ks \in SUBSET Keys : ReadJob(ks) \in Jobs
  /\ ReplaceJob \in Jobs
BY DEF InsertJob, DeleteJob, ReadJob, ReplaceJob, Jobs

LEMMA IdleType == Idle \in CallType /\ Idle.op = "none" /\ Idle.ptr = NoPointers
BY NewCallType, NoJobsType DEF Idle

\* A call for one key: its section is the only one, its pointer the live tree.
LEMMA OneKeyType ==
  ASSUME ShardedTypeOK, NEW op \in Operations \union {"none", "sweep"},
         NEW k \in Keys, NEW job \in Jobs
  PROVE  /\ OneKey(op, k, job) \in CallType /\ OneKey(op, k, job).op = op
         /\ OneKey(op, k, job).jobs[ShardOf[k]] = <<job>>
         /\ OneKey(op, k, job).ptr[ShardOf[k]] = Len(trees[ShardOf[k]])
         /\ \A s \in Shards : OneKey(op, k, job).ptr[s] <= Len(trees[s])
         /\ \A s \in Shards : OneKey(op, k, job).ptr[s] \in {0, Len(trees[s])}
<1> DEFINE sh == ShardOf[k]
           jobs == [NoJobs EXCEPT ![sh] = <<job>>]
<1>1. sh \in Shards
  BY ShardType
<1>2. jobs \in [Shards -> Seq(Jobs)] /\ jobs[sh] = <<job>>
  <2>1. <<job>> \in Seq(Jobs) /\ <<>> \in Seq(Jobs)
    OBVIOUS
  <2> QED
    BY <1>1, <2>1, Zenon DEF NoJobs
<1>3. Len(trees[sh]) \in Nat
  BY <1>1 DEF ShardedTypeOK
<1>4. \A s \in Shards : Len(trees[s]) \in Nat /\ 0 <= Len(trees[s])
  BY DEF ShardedTypeOK
<1> DEFINE pointers == [NoPointers EXCEPT ![sh] = Len(trees[sh])]
<1>5. /\ pointers \in [Shards -> Nat] /\ pointers[sh] = Len(trees[sh])
      /\ \A s \in Shards : s # sh => pointers[s] = 0
  BY <1>1, <1>3 DEF NoPointers
<1>6. OneKey(op, k, job) = [op |-> op, jobs |-> jobs, ptr |-> pointers, rest |-> {}]
  <2>1. OneKey(op, k, job) = [NewCall(op, jobs) EXCEPT !.ptr[sh] = Len(trees[sh])]
    BY DEF OneKey
  <2>2. NewCall(op, jobs) = [op |-> op, jobs |-> jobs, ptr |-> NoPointers, rest |-> {}]
    BY DEF NewCall
  <2> HIDE DEF jobs, sh
  <2>3. [NewCall(op, jobs) EXCEPT !.ptr[sh] = Len(trees[sh])]
        = [NewCall(op, jobs) EXCEPT !.ptr = [NoPointers EXCEPT ![sh] = Len(trees[sh])]]
    BY <2>2
  <2>4. \A p : [[op |-> op, jobs |-> jobs, ptr |-> NoPointers, rest |-> {}] EXCEPT !.ptr = p]
               = [op |-> op, jobs |-> jobs, ptr |-> p, rest |-> {}]
    OBVIOUS
  <2> QED
    BY <2>1, <2>2, <2>3, <2>4, Zenon
<1> HIDE DEF jobs, sh, pointers
<1>7. /\ OneKey(op, k, job) \in CallType /\ OneKey(op, k, job).op = op
      /\ OneKey(op, k, job).jobs = jobs
      /\ OneKey(op, k, job).ptr[sh] = Len(trees[sh])
      /\ \A s \in Shards : s # sh => OneKey(op, k, job).ptr[s] = 0
  <2>1. {} \in SUBSET Keys
    OBVIOUS
  <2> QED
    BY <1>2, <1>5, <1>6, <2>1 DEF CallType
<1> HIDE DEF OneKey
<1>8. \A s \in Shards : OneKey(op, k, job).ptr[s] <= Len(trees[s])
  BY <1>3, <1>4, <1>7
<1>9. \A s \in Shards : OneKey(op, k, job).ptr[s] \in {0, Len(trees[s])}
  BY <1>7
<1> QED
  BY <1>2, <1>7, <1>8, <1>9 DEF sh

-----------------------------------------------------------------------------
\* The end of a lock section: what is still pending for a call stays so when
\* the call goes on, and a call with something pending does not return.
LEMMA LeaveKeeps ==
  ASSUME NEW r \in CallType
  PROVE  /\ Leave(r) \in CallType
         /\ Leave(r).ptr \in {r.ptr, NoPointers}
         /\ Leave(r).op = "clear" => Leave(r) = r
         /\ \A k \in Keys, s \in Shards, live \in Nat :
              Pending(r, k, s, live) => Pending(Leave(r), k, s, live)
<1> DEFINE new == [NewCall("sweep", NoJobs) EXCEPT !.rest = r.rest]
<1>1. new \in CallType /\ new.op = "sweep" /\ new.rest = r.rest /\ new.ptr = NoPointers
  <2>1. /\ NewCall("sweep", NoJobs) \in CallType /\ NewCall("sweep", NoJobs).op = "sweep"
        /\ NewCall("sweep", NoJobs).ptr = NoPointers
    <3>1. "sweep" \in Operations \union {"none", "sweep"}
      OBVIOUS
    <3> QED
      BY <3>1, NoJobsType, NewCallType
  <2>2. r.rest \in SUBSET Keys
    BY DEF CallType
  <2> QED
    BY <2>1, <2>2, Zenon DEF CallType
<1>2. Idle \in CallType /\ Idle.op = "none" /\ Idle.ptr = NoPointers
  BY IdleType
<1>3. CASE r.jobs # NoJobs
  BY <1>3 DEF Leave
<1>4. CASE r.jobs = NoJobs /\ r.rest = {}
  <2>1. Leave(r) = Idle
    BY <1>4 DEF Leave
  <2>2. \A k \in Keys, s \in Shards, live \in Nat : ~ Pending(r, k, s, live)
    BY <1>4 DEF Pending, NoJobs
  <2> QED
    BY <1>2, <2>1, <2>2
<1>5. CASE r.jobs = NoJobs /\ r.rest # {}
  <2>1. Leave(r) = new
    BY <1>5 DEF Leave
  <2>2. \A k \in Keys, s \in Shards, live \in Nat : Pending(r, k, s, live) => k \in r.rest
    BY <1>5 DEF Pending, NoJobs
  <2>3. \A k \in Keys, s \in Shards, live \in Nat : k \in r.rest => Pending(new, k, s, live)
    <3> HIDE DEF new
    <3> QED
      BY <1>1 DEF Pending
  <2> QED
    BY <1>1, <2>1, <2>2, <2>3
<1> QED
  BY <1>3, <1>4, <1>5

\* The start of a call whose lock sections cover what it is to remove.
LEMMA StartKeeps ==
  ASSUME Inv, NEW c \in Clients, NEW new \in CallType, NEW target \in SUBSET Keys,
         Start(c, new, target),
         \A s \in Shards : new.ptr[s] <= Len(trees[s]),
         new.op = "clear" => new.ptr = NoPointers,
         \A k \in target : Pending(new, k, ShardOf[k], Len(trees[ShardOf[k]]))
  PROVE  Inv'
<1>1. /\ trees' = trees /\ call' = [call EXCEPT ![c] = new]
      /\ doomed' = [doomed EXCEPT ![c] = {k \in target : Stored(k)}]
  BY DEF Start
<1>2. ShardedTypeOK
  BY DEF Inv
<1>3. /\ call' \in [Clients -> CallType] /\ call'[c] = new
      /\ \A d \in Clients : d # c => call'[d] = call[d]
  BY <1>1, <1>2 DEF ShardedTypeOK
<1>4. /\ doomed' \in [Clients -> SUBSET Keys] /\ doomed'[c] = {k \in target : Stored(k)}
      /\ \A d \in Clients : d # c => doomed'[d] = doomed[d]
  BY <1>1, <1>2 DEF ShardedTypeOK
<1>5. ShardedTypeOK'
  <2>1. \A d \in Clients, s \in Shards : call'[d].ptr[s] <= Len(trees[s])
    BY <1>2, <1>3 DEF ShardedTypeOK
  <2> QED
    BY <1>1, <1>2, <1>3, <1>4, <2>1 DEF ShardedTypeOK
<1>6. \A k : Stored(k)' <=> Stored(k)
  BY <1>1 DEF Stored, Live
<1>7. SweepInv'
  <2>1. ASSUME NEW d \in Clients, NEW k \in doomed'[d]
        PROVE  Stored(k) /\ Pending(call'[d], k, ShardOf[k], Len(trees[ShardOf[k]]))
    BY <1>3, <1>4 DEF Inv, SweepInv
  <2>2. ASSUME NEW d \in Clients, call'[d].op = "clear"
        PROVE  call'[d].ptr = NoPointers
    BY <1>3, <2>2 DEF Inv, SweepInv
  <2> QED
    BY <1>1, <1>6, <2>1, <2>2 DEF SweepInv
<1> QED
  BY <1>5, <1>7 DEF Inv

-----------------------------------------------------------------------------
\* A step of client c that changes its call alone, and keeps what is pending.
LEMMA CallStepKeeps ==
  ASSUME Inv, NEW c \in Clients, NEW new \in CallType,
         call' = [call EXCEPT ![c] = new], UNCHANGED <<trees, doomed>>,
         \A s \in Shards : new.ptr[s] <= Len(trees[s]),
         new.op = "clear" => new.ptr = NoPointers,
         \A k \in doomed[c] : Pending(new, k, ShardOf[k], Len(trees[ShardOf[k]]))
  PROVE  Inv'
<1>1. ShardedTypeOK
  BY DEF Inv
<1>2. /\ call' \in [Clients -> CallType] /\ call'[c] = new
      /\ \A d \in Clients : d # c => call'[d] = call[d]
  BY <1>1 DEF ShardedTypeOK
<1>3. ShardedTypeOK'
  <2>1. \A d \in Clients, s \in Shards : call'[d].ptr[s] <= Len(trees[s])
    BY <1>1, <1>2 DEF ShardedTypeOK
  <2> QED
    BY <1>1, <1>2, <2>1 DEF ShardedTypeOK
<1>4. \A k : Stored(k)' <=> Stored(k)
  BY DEF Stored, Live
<1>5. SweepInv'
  <2>1. ASSUME NEW d \in Clients, NEW k \in doomed[d]
        PROVE  Stored(k) /\ Pending(call'[d], k, ShardOf[k], Len(trees[ShardOf[k]]))
    BY <1>2 DEF Inv, SweepInv
  <2>2. ASSUME NEW d \in Clients, call'[d].op = "clear"
        PROVE  call'[d].ptr = NoPointers
    BY <1>2, <2>2 DEF Inv, SweepInv
  <2> QED
    BY <1>4, <2>1, <2>2 DEF SweepInv
<1> QED
  BY <1>3, <1>5 DEF Inv

LEMMA ReadPointerKeeps ==
  ASSUME Inv, NEW c \in Clients, NEW s \in Shards, ReadPointer(c, s)
  PROVE  Inv'
<1> DEFINE r == call[c]
           ptr == [r.ptr EXCEPT ![s] = Len(trees[s])]
           new == [r EXCEPT !.ptr = ptr]
<1>1. ShardedTypeOK /\ r \in CallType /\ r.ptr \in [Shards -> Nat]
  BY DEF Inv, ShardedTypeOK, CallType
<1>2. /\ ptr \in [Shards -> Nat] /\ ptr[s] = Len(trees[s]) /\ Len(trees[s]) \in Nat
      /\ \A t \in Shards : t # s => ptr[t] = r.ptr[t]
  BY <1>1 DEF ShardedTypeOK
<1>3. call' = [call EXCEPT ![c] = new] /\ UNCHANGED <<trees, doomed>>
  BY DEF ReadPointer
<1>4. r.op \in {"range", "deleteRange", "forEach", "bulk"}
  BY DEF ReadPointer, MayRead
<1>5. \A t \in Shards : r.ptr[t] <= Len(trees[t])
  BY <1>1 DEF ShardedTypeOK
<1> HIDE DEF ptr
<1>6. new \in CallType /\ new.op = r.op /\ new.jobs = r.jobs /\ new.rest = r.rest /\ new.ptr = ptr
  BY <1>1, <1>2, Zenon DEF CallType
<1>7. \A t \in Shards : new.ptr[t] <= Len(trees[t])
  BY <1>2, <1>5, <1>6
<1>8. \A k \in doomed[c] : Pending(new, k, ShardOf[k], Len(trees[ShardOf[k]]))
  <2> SUFFICES ASSUME NEW k \in doomed[c]
               PROVE  Pending(new, k, ShardOf[k], Len(trees[ShardOf[k]]))
    OBVIOUS
  <2>1. ShardOf[k] \in Shards
    BY <1>1, ShardType DEF ShardedTypeOK
  <2>2. Pending(r, k, ShardOf[k], Len(trees[ShardOf[k]]))
    BY DEF Inv, SweepInv
  <2>3. r.op = "deleteRange"
    BY <1>4, <2>2 DEF Pending
  <2> HIDE DEF r, new
  <2> QED
    BY <1>2, <1>6, <2>1, <2>2, <2>3 DEF Pending
<1> HIDE DEF r, new
<1> QED
  BY <1>3, <1>4, <1>6, <1>7, <1>8, CallStepKeeps, Zenon

LEMMA StopForEachKeeps ==
  ASSUME Inv, NEW c \in Clients, NEW s \in Shards, NEW k \in Keys, StopForEach(c, s, k)
  PROVE  Inv'
<1>1. /\ call' = [call EXCEPT ![c] = Idle] /\ UNCHANGED <<trees, doomed>>
      /\ call[c].op = "forEach"
  BY DEF StopForEach
<1>2. \A j \in doomed[c] : FALSE
  <2> SUFFICES ASSUME NEW j \in doomed[c] PROVE FALSE
    OBVIOUS
  <2>1. Pending(call[c], j, ShardOf[j], Len(trees[ShardOf[j]]))
    BY DEF Inv, SweepInv
  <2> QED
    BY <1>1, <2>1 DEF Pending
<1>3. \A t \in Shards : Idle.ptr[t] <= Len(trees[t])
  BY IdleType DEF Inv, ShardedTypeOK, NoPointers
<1> QED
  BY <1>1, <1>2, <1>3, IdleType, CallStepKeeps, Zenon

LEMMA DeleteRangeNextKeeps ==
  ASSUME Inv, NEW c \in Clients, NEW k \in Keys, DeleteRangeNext(c, k)
  PROVE  Inv'
<1> DEFINE new == [OneKey("sweep", k, DeleteJob(k)) EXCEPT !.rest = call[c].rest \ {k}]
<1>1. /\ call' = [call EXCEPT ![c] = new] /\ UNCHANGED <<trees, doomed>>
      /\ call[c].op = "sweep" /\ call[c].jobs = NoJobs
  BY DEF DeleteRangeNext
<1>2. /\ new \in CallType /\ new.op = "sweep" /\ new.rest = call[c].rest \ {k}
      /\ new.jobs[ShardOf[k]] = <<DeleteJob(k)>> /\ new.ptr[ShardOf[k]] = Len(trees[ShardOf[k]])
      /\ \A s \in Shards : new.ptr[s] <= Len(trees[s])
  <2>1. ShardedTypeOK /\ call[c].rest \ {k} \in SUBSET Keys
    BY DEF Inv, ShardedTypeOK, CallType
  <2>2. "sweep" \in Operations \union {"none", "sweep"} /\ DeleteJob(k) \in Jobs
    BY JobTypes
  <2> DEFINE one == OneKey("sweep", k, DeleteJob(k))
  <2> HIDE DEF one
  <2>3. /\ one \in CallType /\ one.op = "sweep" /\ one.jobs[ShardOf[k]] = <<DeleteJob(k)>>
        /\ one.ptr[ShardOf[k]] = Len(trees[ShardOf[k]])
        /\ \A s \in Shards : one.ptr[s] <= Len(trees[s])
    BY <2>1, <2>2, OneKeyType, ZenonT(30) DEF one
  <2>4. new = [one EXCEPT !.rest = call[c].rest \ {k}]
    BY DEF one
  <2> HIDE DEF new
  <2> QED
    BY <2>1, <2>3, <2>4, Zenon DEF CallType
<1> HIDE DEF new
<1>3. \A j \in doomed[c] : Pending(new, j, ShardOf[j], Len(trees[ShardOf[j]]))
  <2> SUFFICES ASSUME NEW j \in doomed[c]
               PROVE  Pending(new, j, ShardOf[j], Len(trees[ShardOf[j]]))
    OBVIOUS
  <2>1. ShardOf[j] \in Shards
    BY ShardType DEF Inv, ShardedTypeOK
  <2>2. Pending(call[c], j, ShardOf[j], Len(trees[ShardOf[j]]))
    BY DEF Inv, SweepInv
  <2>3. j \in call[c].rest
    BY <1>1, <2>1, <2>2 DEF Pending, NoJobs
  <2> QED
    BY <1>2, <2>3 DEF Pending
<1> QED
  BY <1>1, <1>2, <1>3, CallStepKeeps, Zenon

-----------------------------------------------------------------------------
\* A step of client c that writes trees, given what it leaves stored and pending.
LEMMA TreeStepKeeps ==
  ASSUME Inv, NEW c \in Clients, NEW r \in CallType, NEW ks,
         trees' \in [Shards -> Seq(Contents)],
         \A s \in Shards : Len(trees[s]) <= Len(trees'[s]),
         call' = [call EXCEPT ![c] = Leave(r)],
         Written(ks),
         \A s \in Shards : r.ptr[s] <= Len(trees[s]),
         r.op = "clear" => r.ptr = NoPointers,
         \A k \in Keys \ ks : Stored(k) => Stored(k)' /\ Len(trees'[ShardOf[k]]) = Len(trees[ShardOf[k]]),
         \A k \in doomed[c] \ ks : Pending(r, k, ShardOf[k], Len(trees[ShardOf[k]]))
  PROVE  Inv'
<1>1. ShardedTypeOK
  BY DEF Inv
<1>2. /\ Leave(r) \in CallType /\ Leave(r).ptr \in {r.ptr, NoPointers}
      /\ Leave(r).op = "clear" => Leave(r) = r
      /\ \A k \in Keys, s \in Shards, live \in Nat : Pending(r, k, s, live) => Pending(Leave(r), k, s, live)
  BY LeaveKeeps
<1>3. /\ call' \in [Clients -> CallType] /\ call'[c] = Leave(r)
      /\ \A d \in Clients : d # c => call'[d] = call[d]
  BY <1>1, <1>2 DEF ShardedTypeOK
<1>4. doomed' \in [Clients -> SUBSET Keys] /\ \A d \in Clients : doomed'[d] = doomed[d] \ ks
  BY <1>1 DEF ShardedTypeOK, Written
<1>5. \A s \in Shards : Len(trees[s]) \in Nat /\ Len(trees'[s]) \in Nat /\ Len(trees[s]) >= 1
  BY <1>1 DEF ShardedTypeOK
<1>6. \A s \in Shards : Leave(r).ptr[s] <= Len(trees[s])
  BY <1>2, <1>5 DEF NoPointers
<1>7. ShardedTypeOK'
  <2>1. \A s \in Shards : Len(trees'[s]) >= 1
    BY <1>5
  <2>2. ASSUME NEW d \in Clients, NEW s \in Shards
        PROVE  call'[d].ptr[s] <= Len(trees'[s])
    <3>1. call'[d].ptr[s] <= Len(trees[s])
      BY <1>1, <1>3, <1>6 DEF ShardedTypeOK
    <3>2. call'[d].ptr[s] \in Nat
      BY <1>3 DEF CallType
    <3> QED
      BY <1>5, <3>1, <3>2
  <2> QED
    BY <1>3, <1>4, <2>1, <2>2 DEF ShardedTypeOK
<1>8. SweepInv'
  <2>1. ASSUME NEW d \in Clients, NEW k \in doomed'[d]
        PROVE  Stored(k)' /\ Pending(call'[d], k, ShardOf[k], Len(trees'[ShardOf[k]]))
    <3>1. k \in doomed[d] /\ k \in Keys /\ k \notin ks
      BY <1>1, <1>4 DEF ShardedTypeOK
    <3>2. Stored(k) /\ Pending(call[d], k, ShardOf[k], Len(trees[ShardOf[k]]))
      BY <3>1 DEF Inv, SweepInv
    <3>3. Stored(k)' /\ Len(trees'[ShardOf[k]]) = Len(trees[ShardOf[k]])
      BY <3>1, <3>2
    <3>4. ShardOf[k] \in Shards /\ Len(trees[ShardOf[k]]) \in Nat
      BY <1>5, <3>1, ShardType
    <3>5. Pending(call'[d], k, ShardOf[k], Len(trees[ShardOf[k]]))
      BY <1>2, <1>3, <3>1, <3>2, <3>4
    <3> QED
      BY <3>3, <3>5
  <2>2. ASSUME NEW d \in Clients, call'[d].op = "clear"
        PROVE  call'[d].ptr = NoPointers
    BY <1>2, <1>3, <2>2 DEF Inv, SweepInv
  <2> QED
    BY <2>1, <2>2 DEF SweepInv
<1> QED
  BY <1>7, <1>8 DEF Inv

LEMMA ReplaceKeeps ==
  ASSUME Inv, NEW c \in Clients, NEW s \in Shards, Replace(c, s)
  PROVE  Inv'
<1> DEFINE jobs == [call[c].jobs EXCEPT ![s] = <<>>]
           r == [call[c] EXCEPT !.jobs = jobs]
<1>1. ShardedTypeOK /\ call[c] \in CallType
  BY DEF Inv, ShardedTypeOK
<1>2. /\ call[c].op = "clear" /\ trees' = [trees EXCEPT ![s] = Append(trees[s], EmptyTree)]
      /\ call' = [call EXCEPT ![c] = Leave(r)] /\ Written(KeysOf(s))
  BY DEF Replace
<1>3. jobs \in [Shards -> Seq(Jobs)] /\ \A t \in Shards : t # s => jobs[t] = call[c].jobs[t]
  BY <1>1 DEF CallType
<1> HIDE DEF jobs
<1>4. r \in CallType /\ r.op = "clear" /\ r.jobs = jobs /\ r.ptr = call[c].ptr
  BY <1>1, <1>2, <1>3, Zenon DEF CallType
<1>5. EmptyTree \in Contents
  BY DEF EmptyTree, Contents
<1>6. /\ trees' \in [Shards -> Seq(Contents)]
      /\ \A t \in Shards : t # s => trees'[t] = trees[t]
      /\ \A t \in Shards : Len(trees[t]) <= Len(trees'[t])
  BY <1>1, <1>2, <1>5 DEF ShardedTypeOK
<1>7. ASSUME NEW k \in Keys \ KeysOf(s)
      PROVE  ShardOf[k] \in Shards /\ ShardOf[k] # s
  BY ShardType DEF KeysOf
<1>8. ASSUME NEW k \in Keys \ KeysOf(s), Stored(k)
      PROVE  Stored(k)' /\ Len(trees'[ShardOf[k]]) = Len(trees[ShardOf[k]])
  BY <1>6, <1>7, <1>8 DEF Stored, Live
<1>9. ASSUME NEW k \in doomed[c] \ KeysOf(s)
      PROVE  Pending(r, k, ShardOf[k], Len(trees[ShardOf[k]]))
  <2>1. k \in Keys \ KeysOf(s)
    BY <1>1 DEF ShardedTypeOK
  <2>2. Pending(call[c], k, ShardOf[k], Len(trees[ShardOf[k]]))
    BY DEF Inv, SweepInv
  <2>3. r.jobs[ShardOf[k]] = call[c].jobs[ShardOf[k]]
    BY <1>3, <1>4, <1>7, <2>1
  <2> HIDE DEF r
  <2> QED
    BY <1>2, <1>4, <2>2, <2>3 DEF Pending
<1>10. (\A t \in Shards : r.ptr[t] <= Len(trees[t])) /\ r.ptr = NoPointers
  BY <1>1, <1>2, <1>4 DEF Inv, ShardedTypeOK, SweepInv
<1> HIDE DEF r
<1> QED
  BY <1>2, <1>4, <1>6, <1>8, <1>9, <1>10, TreeStepKeeps, Zenon

\* A lock section makes contents of contents, and changes nothing it does not
\* write.
LEMMA EffectType ==
  ASSUME NEW job \in Jobs, NEW t \in Contents
  PROVE  /\ Effect(job, t) \in Contents
         /\ \A k \in Keys : job.do = "read" \/ k \notin job.keys => Effect(job, t)[k] = t[k]
<1>1. \A k \in Keys : After(job, t[k]) \in Values \union {NoValue}
  BY DEF After, Jobs, Contents
<1>2. job.do = "read" => \A k \in Keys : After(job, t[k]) = t[k]
  BY DEF After
<1> QED
  BY <1>1, <1>2 DEF Effect, Contents

LEMMA WorkKeeps ==
  ASSUME Inv, NEW c \in Clients, NEW s \in Shards, Work(c, s)
  PROVE  Inv'
<1> DEFINE p == call[c].ptr[s]
           job == Job(c, s)
           found == {k \in job.keys : call[c].op = "deleteRange" /\ Tree(c, s)[k] # NoValue}
           ks == IF job.do # "read" /\ p = Len(trees[s]) THEN job.keys ELSE {}
           jobs == [call[c].jobs EXCEPT ![s] = Tail(call[c].jobs[s])]
           r == [call[c] EXCEPT !.jobs = jobs, !.rest = call[c].rest \union found]
<1>1. ShardedTypeOK /\ call[c] \in CallType
  BY DEF Inv, ShardedTypeOK
<1>2. /\ call[c].jobs[s] # <<>> /\ p # 0
      /\ trees' = [trees EXCEPT ![s] = [trees[s] EXCEPT ![p] = Effect(job, trees[s][p])]]
      /\ call' = [call EXCEPT ![c] = Leave(r)] /\ Written(ks)
  BY DEF Work, Ready
<1>3. call[c].jobs[s] \in Seq(Jobs) /\ p \in 1 .. Len(trees[s]) /\ trees[s] \in Seq(Contents)
  BY <1>1, <1>2 DEF ShardedTypeOK, CallType
<1>4. job \in Jobs /\ job = call[c].jobs[s][1] /\ Tail(call[c].jobs[s]) \in Seq(Jobs)
  BY <1>2, <1>3 DEF Job
<1>5. jobs \in [Shards -> Seq(Jobs)] /\ \A t \in Shards : t # s => jobs[t] = call[c].jobs[t]
  BY <1>1, <1>4 DEF CallType
<1>6. found \subseteq Keys
  BY <1>4 DEF Jobs
<1>7. /\ trees[s][p] \in Contents /\ Effect(job, trees[s][p]) \in Contents
      /\ \A k \in Keys : job.do = "read" \/ k \notin job.keys => Effect(job, trees[s][p])[k] = trees[s][p][k]
  BY <1>3, <1>4, EffectType
<1> HIDE DEF jobs, found, job, p
<1>8. /\ r \in CallType /\ r.op = call[c].op /\ r.jobs = jobs /\ r.ptr = call[c].ptr
      /\ r.rest = call[c].rest \union found
  BY <1>1, <1>5, <1>6, Zenon DEF CallType
<1>9. /\ trees' \in [Shards -> Seq(Contents)]
      /\ \A t \in Shards : t # s => trees'[t] = trees[t]
      /\ \A t \in Shards : Len(trees'[t]) = Len(trees[t]) /\ Len(trees[t]) \in Nat
      /\ trees'[s] = [trees[s] EXCEPT ![p] = Effect(job, trees[s][p])]
  <2>1. LET new == [trees[s] EXCEPT ![p] = Effect(job, trees[s][p])]
        IN  new \in Seq(Contents) /\ Len(new) = Len(trees[s])
    BY <1>3, <1>7
  <2> QED
    BY <1>1, <1>2, <2>1 DEF ShardedTypeOK
<1>10. \A t \in Shards : Len(trees[t]) <= Len(trees'[t])
  BY <1>9
<1> HIDE DEF r
<1>11. ASSUME NEW k \in Keys \ ks, Stored(k)
       PROVE  Stored(k)' /\ Len(trees'[ShardOf[k]]) = Len(trees[ShardOf[k]])
  <2>1. ShardOf[k] \in Shards
    BY ShardType
  <2>2. CASE ShardOf[k] # s
    BY <1>9, <1>11, <2>1, <2>2 DEF Stored, Live
  <2>3. CASE ShardOf[k] = s /\ p # Len(trees[s])
    <3>1. /\ Len(trees[s]) \in 1 .. Len(trees[s]) /\ Len(trees'[s]) = Len(trees[s])
          /\ DOMAIN trees[s] = 1 .. Len(trees[s])
      BY <1>3, <1>9
    <3>2. trees'[s][Len(trees[s])] = trees[s][Len(trees[s])]
      BY <1>9, <2>3, <3>1
    <3> QED
      BY <1>11, <2>3, <3>1, <3>2 DEF Stored, Live
  <2>4. CASE ShardOf[k] = s /\ p = Len(trees[s])
    <3>1. job.do = "read" \/ k \notin job.keys
      BY <2>4
    <3>2. trees'[s][p] = Effect(job, trees[s][p])
      BY <1>3, <1>9
    <3>3. Len(trees'[s]) = p
      BY <1>9, <2>4
    <3> QED
      BY <1>7, <1>11, <2>4, <3>1, <3>2, <3>3 DEF Stored, Live
  <2> QED
    BY <2>2, <2>3, <2>4
<1>12. ASSUME NEW k \in doomed[c] \ ks
       PROVE  Pending(r, k, ShardOf[k], Len(trees[ShardOf[k]]))
  <2>1. k \in Keys /\ ShardOf[k] \in Shards
    BY <1>1, ShardType DEF ShardedTypeOK
  <2>2. Stored(k) /\ Pending(call[c], k, ShardOf[k], Len(trees[ShardOf[k]]))
    BY DEF Inv, SweepInv
  <2>3. call[c].op # "clear"
    BY <1>2, SMTT(30) DEF Inv, SweepInv, NoPointers, p
  <2>4. CASE ShardOf[k] # s
    <3>1. r.jobs[ShardOf[k]] = call[c].jobs[ShardOf[k]]
      BY <1>5, <1>8, <2>1, <2>4
    <3> QED
      BY <1>8, <2>2, <2>3, <3>1 DEF Pending
  <2>5. CASE k \in call[c].rest
    BY <1>8, <2>2, <2>3, <2>5, SMTT(30) DEF Pending
  <2>6. CASE ShardOf[k] = s /\ k \notin call[c].rest
    <3>1. CASE call[c].op = "deleteRange"
      <4>1. k \in job.keys /\ p = Len(trees[s])
        BY <1>2, <1>4, <2>2, <2>6, <3>1 DEF Pending, p
      <4>2. k \in found
        BY <2>2, <2>6, <3>1, <4>1 DEF found, Tree, Stored, Live, p
      <4> QED
        BY <1>8, <3>1, <4>2, SMTT(30) DEF Pending
    <3>2. CASE call[c].op = "sweep"
      <4>1. job = DeleteJob(k) /\ p = Len(trees[s])
        BY <1>4, <2>2, <2>6, <3>2 DEF Pending, p
      <4>2. k \in ks
        BY <4>1 DEF DeleteJob
      <4> QED
        BY <4>2
    <3> QED
      BY <2>2, <2>3, <3>1, <3>2 DEF Pending
  <2> QED
    BY <2>4, <2>5, <2>6
<1>13. /\ \A t \in Shards : r.ptr[t] <= Len(trees[t])
       /\ r.op = "clear" => r.ptr = NoPointers
  BY <1>1, <1>8 DEF Inv, ShardedTypeOK, SweepInv
<1> HIDE DEF ks
<1> QED
  BY <1>2, <1>8, <1>9, <1>10, <1>11, <1>12, <1>13, TreeStepKeeps, Zenon

-----------------------------------------------------------------------------
\* The calls for one key, which are to remove nothing as a whole.
LEMMA OneKeyKeeps ==
  ASSUME Inv, NEW c \in Clients, NEW op \in {"insert", "find", "delete"},
         NEW k \in Keys, NEW job \in Jobs, Start(c, OneKey(op, k, job), {})
  PROVE  Inv'
<1> DEFINE new == OneKey(op, k, job)
<1>1. op \in Operations \union {"none", "sweep"} /\ ShardedTypeOK
  BY DEF Operations, Inv
<1>2. new \in CallType /\ new.op = op /\ \A s \in Shards : new.ptr[s] <= Len(trees[s])
  BY <1>1, OneKeyType
<1>3. Start(c, new, {}) /\ {} \in SUBSET Keys /\ new.op # "clear"
  BY <1>2
<1> HIDE DEF new
<1> QED
  BY <1>2, <1>3, StartKeeps

\* The calls over all shards, which read no pointer when they start.
LEMMA NewCallKeeps ==
  ASSUME Inv, NEW c \in Clients, NEW op \in Operations, NEW jobs \in [Shards -> Seq(Jobs)],
         NEW target \in SUBSET Keys, Start(c, NewCall(op, jobs), target),
         \A k \in target :
           \/ op = "clear" /\ jobs[ShardOf[k]] # <<>>
           \/ op = "deleteRange" /\ \E ks \in SUBSET Keys : k \in ks /\ jobs[ShardOf[k]] = <<ReadJob(ks)>>
  PROVE  Inv'
<1> DEFINE new == NewCall(op, jobs)
<1>1. op \in Operations \union {"none", "sweep"}
  OBVIOUS
<1>2. /\ new \in CallType /\ new.op = op /\ new.jobs = jobs /\ new.ptr = NoPointers
      /\ \A s \in Shards : new.ptr[s] = 0
  BY <1>1, NewCallType
<1>3. Start(c, new, target)
  OBVIOUS
<1> HIDE DEF new
<1>4. \A s \in Shards : new.ptr[s] <= Len(trees[s])
  BY <1>2 DEF Inv, ShardedTypeOK
<1>5. ASSUME NEW k \in target
      PROVE  Pending(new, k, ShardOf[k], Len(trees[ShardOf[k]]))
  <2>1. ShardOf[k] \in Shards
    BY ShardType
  <2>2. CASE op = "clear" /\ jobs[ShardOf[k]] # <<>>
    BY <1>2, <2>2 DEF Pending
  <2>3. ASSUME op = "deleteRange", NEW ks \in SUBSET Keys, k \in ks, jobs[ShardOf[k]] = <<ReadJob(ks)>>
        PROVE  Pending(new, k, ShardOf[k], Len(trees[ShardOf[k]]))
    BY <1>2, <2>1, <2>3 DEF Pending, ReadJob
  <2> QED
    BY <2>2, <2>3
<1> QED
  BY <1>2, <1>3, <1>4, <1>5, StartKeeps

LEMMA RangeJobsType ==
  ASSUME NEW ks \in SUBSET Keys
  PROVE  /\ RangeJobs(ks) \in [Shards -> Seq(Jobs)]
         /\ \A k \in ks : k \in ks \intersect KeysOf(ShardOf[k])
                          /\ RangeJobs(ks)[ShardOf[k]] = <<ReadJob(ks \intersect KeysOf(ShardOf[k]))>>
<1>1. ASSUME NEW s \in Shards
      PROVE  <<ReadJob(ks \intersect KeysOf(s))>> \in Seq(Jobs)
  <2>1. ReadJob(ks \intersect KeysOf(s)) \in Jobs
    BY JobTypes
  <2> QED
    BY <2>1
<1>2. \A k \in ks : ShardOf[k] \in Shards /\ k \in KeysOf(ShardOf[k])
  BY ShardType DEF KeysOf
<1> QED
  BY <1>1, <1>2 DEF RangeJobs

LEMMA BeginKeeps ==
  ASSUME Inv, NEW c \in Clients, Begin(c)
  PROVE  Inv'
<1>1. ASSUME NEW q \in Pairs, Insert(c, q[1], q[2]) PROVE Inv'
  <2>1. q[1] \in Keys /\ q[2] \in Values
    BY ShardedAssumption
  <2>2. InsertJob(q[1], q[2]) \in Jobs
    BY <2>1, JobTypes
  <2> QED
    BY <1>1, <2>1, <2>2, OneKeyKeeps DEF Insert
<1>2. ASSUME NEW k \in Keys, Find(c, k) PROVE Inv'
  <2>1. ReadJob({k}) \in Jobs
    BY JobTypes
  <2> QED
    BY <1>2, <2>1, OneKeyKeeps DEF Find
<1>3. ASSUME NEW k \in Keys, Delete(c, k) PROVE Inv'
  <2>1. DeleteJob(k) \in Jobs
    BY JobTypes
  <2> QED
    BY <1>3, <2>1, OneKeyKeeps DEF Delete
<1>4. ASSUME NEW op \in {"range", "forEach"}, NEW ks \in SUBSET Keys, Start(c, NewCall(op, RangeJobs(ks)), {})
      PROVE  Inv'
  <2>1. RangeJobs(ks) \in [Shards -> Seq(Jobs)] /\ op \in Operations /\ {} \in SUBSET Keys
    BY RangeJobsType DEF Operations
  <2> QED
    BY <1>4, <2>1, NewCallKeeps
<1>5. ASSUME NEW q \in Ranges, GetRange(c, q[1], q[2]) PROVE Inv'
  <2>1. InRange(q[1], q[2]) \in SUBSET Keys
    BY DEF InRange
  <2> QED
    BY <1>4, <1>5, <2>1 DEF GetRange
<1>6. ASSUME NEW q \in Ranges, DeleteRange(c, q[1], q[2]) PROVE Inv'
  <2> DEFINE ks == InRange(q[1], q[2])
  <2>1. ks \in SUBSET Keys
    BY DEF InRange
  <2>2. Start(c, NewCall("deleteRange", RangeJobs(ks)), ks)
    BY <1>6 DEF DeleteRange
  <2>3. "deleteRange" \in Operations
    BY DEF Operations
  <2> HIDE DEF ks
  <2>4. \A k \in ks : /\ ks \intersect KeysOf(ShardOf[k]) \in SUBSET Keys
                      /\ k \in ks \intersect KeysOf(ShardOf[k])
                      /\ RangeJobs(ks)[ShardOf[k]] = <<ReadJob(ks \intersect KeysOf(ShardOf[k]))>>
    BY <2>1, RangeJobsType, Zenon
  <2>5. \A k \in ks : \E js \in SUBSET Keys : k \in js /\ RangeJobs(ks)[ShardOf[k]] = <<ReadJob(js)>>
    BY <2>4, Zenon
  <2>6. RangeJobs(ks) \in [Shards -> Seq(Jobs)]
    BY <2>1, RangeJobsType
  <2> QED
    BY <2>1, <2>2, <2>3, <2>5, <2>6, NewCallKeeps
<1>7. ASSUME NEW b \in Bulks, BulkInsert(c, b) PROVE Inv'
  <2>1. [s \in Shards |-> Group(b, s)] \in [Shards -> Seq(Jobs)] /\ "bulk" \in Operations /\ {} \in SUBSET Keys
    BY GroupAssumption DEF Operations
  <2> QED
    BY <1>7, <2>1, NewCallKeeps DEF BulkInsert
<1>8. CASE Count(c)
  BY <1>4, <1>8 DEF Count
<1>9. CASE ForEach(c)
  BY <1>4, <1>9 DEF ForEach
<1>10. CASE Clear(c)
  <2> DEFINE jobs == [s \in Shards |-> <<ReplaceJob>>]
  <2>1. <<ReplaceJob>> \in Seq(Jobs)
    BY JobTypes
  <2>2. jobs \in [Shards -> Seq(Jobs)] /\ "clear" \in Operations /\ Keys \in SUBSET Keys
    BY <2>1 DEF Operations
  <2>3. \A k \in Keys : jobs[ShardOf[k]] # <<>>
    BY ShardType
  <2>4. Start(c, NewCall("clear", jobs), Keys)
    BY <1>10 DEF Clear
  <2> HIDE DEF jobs
  <2> QED
    BY <2>2, <2>3, <2>4, NewCallKeeps
<1>11. ASSUME NEW k \in Keys, DeleteRangeNext(c, k) PROVE Inv'
  BY <1>11, DeleteRangeNextKeeps
<1> QED
  BY <1>1, <1>2, <1>3, <1>5, <1>6, <1>7, <1>8, <1>9, <1>10, <1>11 DEF Begin

-----------------------------------------------------------------------------
LEMMA InvInit == Init => Inv
<1> SUFFICES ASSUME Init PROVE Inv
  OBVIOUS
<1>1. EmptyTree \in Contents
  BY DEF EmptyTree, Contents
<1>2. \A s \in Shards : trees[s] = <<EmptyTree>>
  BY DEF Init
<1>3. trees \in [Shards -> Seq(Contents)] /\ \A s \in Shards : Len(trees[s]) >= 1
  BY <1>1, <1>2 DEF Init
<1>4. call \in [Clients -> CallType] /\ \A c \in Clients : call[c] = Idle
  BY IdleType DEF Init
<1>5. \A c \in Clients, s \in Shards : call[c].ptr[s] <= Len(trees[s])
  BY <1>2, <1>4, IdleType DEF NoPointers
<1>6. doomed \in [Clients -> SUBSET Keys] /\ \A c \in Clients : doomed[c] = {}
  BY DEF Init
<1> QED
  BY <1>3, <1>4, <1>5, <1>6, IdleType DEF Inv, ShardedTypeOK, SweepInv

LEMMA InvNext == Inv /\ [Next]_vars => Inv'
<1> SUFFICES ASSUME Inv, [Next]_vars PROVE Inv'
  OBVIOUS
<1>1. CASE UNCHANGED vars
  BY <1>1 DEF vars, Inv, ShardedTypeOK, SweepInv, Stored, Live
<1>2. CASE Next
  BY <1>2, BeginKeeps, ReadPointerKeeps, WorkKeeps, ReplaceKeeps, StopForEachKeeps DEF Next
<1> QED
  BY <1>1, <1>2

\* When Clear or DeleteRange of the sharded tree returns, every key it was to
\* remove is gone or has been written again, for every number of shards and
\* of goroutines, whatever they call and however their steps interleave.
THEOREM SweepCorrect == Spec => []SweepsAll
<1>1. Inv => SweepsAll
  <2> SUFFICES ASSUME Inv, NEW c \in Clients, call[c].op = "none", NEW k \in doomed[c]
               PROVE  FALSE
    BY DEF SweepsAll, Inv, ShardedTypeOK
  <2>1. Pending(call[c], k, ShardOf[k], Len(trees[ShardOf[k]]))
    BY DEF Inv, SweepInv
  <2> QED
    BY <2>1 DEF Pending
<1> QED
  BY <1>1, InvInit, InvNext, PTL DEF Spec

=============================================================================
