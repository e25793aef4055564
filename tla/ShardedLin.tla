----------------------------- MODULE ShardedLin -----------------------------
(***************************************************************************)
(* Linearizability of the sharded tree, key by key.  lin[k] is the set of  *)
(* what an observer of all calls and answers must reckon with for key k:   *)
(* for every order in which the operations on k may have taken effect, its *)
(* value (val), the operations of running calls that have not taken effect *)
(* (left) and the answers of those that have (res).  An operation is a     *)
(* lock section on the shard of k; one about other keys leaves k as it is. *)
(*                                                                         *)
(* An operation is taken to begin when its call reads the pointer and to   *)
(* end with its lock section; the call itself begins earlier and ends      *)
(* later, which leaves more orders.                                        *)
(***************************************************************************)
EXTENDS ShardedBTree

\* At any time the program has finitely many goroutines.
ASSUME LinAssumption == IsFiniteSet(Clients)

VARIABLE lin

linVars == <<vars, lin>>

Untouched ==
  [val |-> NoValue, left |-> [c \in Clients |-> <<>>], res |-> [c \in Clients |-> "none"]]

LinInit == Init /\ lin = [k \in Keys |-> {Untouched}]

\* What a lock section makes of the value v of key k, and says about it.
Does(job, k, v) == IF k \in job.keys THEN After(job, v) ELSE v
Says(job, k, v) == IF k \in job.keys THEN Answer(job, v) ELSE "ok"

\* The next operation of client c takes effect on key k.
TakeEffect(x, c, k) ==
  LET job == Head(x.left[c])
  IN  [val |-> Does(job, k, x.val), left |-> [x.left EXCEPT ![c] = Tail(x.left[c])],
       res |-> [x.res EXCEPT ![c] = Says(job, k, x.val)]]

OneMore(X, k) ==
  X \union {TakeEffect(y[1], y[2], k) : y \in {z \in X \X Clients : z[1].left[z[2]] # <<>>}}

\* Operations take effect in any order and number.
Closure(X, k) ==
  LET pending == UNION {{<<y[2], i>> : i \in DOMAIN y[1].left[y[2]]} : y \in X \X Clients}
      more[n \in Nat] == IF n = 0 THEN X ELSE OneMore(more[n - 1], k)
  IN  more[Cardinality(pending)]

Asks(X, c, ops, k) == Closure({[x EXCEPT !.left[c] = ops] : x \in X}, k)

\* Client c has the answer to an operation, and n operations still to come.
Answered(X, c, answer, n) ==
  IF n > 0 THEN {x \in X : Len(x.left[c]) <= n}
  ELSE {[x EXCEPT !.res[c] = "none"] : x \in {y \in X : y.left[c] = <<>> /\ y.res[c] = answer}}

\* Client c gives up its operation, a read, without an answer.
GivesUp(X, c) == {[x EXCEPT !.left[c] = <<>>, !.res[c] = "none"] : x \in X}

\* The step reads the pointer of the shard of k.
Fresh(c, k) == call[c].ptr[ShardOf[k]] = 0 /\ call'[c].ptr[ShardOf[k]] # 0

LinBegin(c, k) ==
  IF Fresh(c, k) THEN Asks(lin[k], c, call'[c].jobs[ShardOf[k]], k) ELSE lin[k]

LinWork(c, s, k) ==
  IF k \in KeysOf(s)
  THEN Answered(lin[k], c, Says(Job(c, s), k, Tree(c, s)[k]), Len(Tail(call[c].jobs[s])))
  ELSE lin[k]

LinStop(c, s, k, last) ==
  IF k \in Visited(s, last) THEN Answered(lin[k], c, Tree(c, s)[k], 0)
  ELSE IF k \in KeysOf(s) THEN GivesUp(lin[k], c) ELSE lin[k]

LinReplace(c, s, k) ==
  IF k \in KeysOf(s) THEN Answered(Asks(lin[k], c, <<ReplaceJob>>, k), c, "ok", 0) ELSE lin[k]

LinNext ==
  \E c \in Clients :
    \/ Begin(c) /\ lin' = [k \in Keys |-> LinBegin(c, k)]
    \/ \E s \in Shards :
         \/ ReadPointer(c, s) /\ lin' = [k \in Keys |-> LinBegin(c, k)]
         \/ Work(c, s) /\ lin' = [k \in Keys |-> LinWork(c, s, k)]
         \/ Replace(c, s) /\ lin' = [k \in Keys |-> LinReplace(c, s, k)]
         \/ \E last \in Keys : StopForEach(c, s, last) /\ lin' = [k \in Keys |-> LinStop(c, s, k, last)]

LinSpec == LinInit /\ [][LinNext]_linVars

-----------------------------------------------------------------------------
\* The answers to the operations on a key, whatever runs at the same time and
\* Clear included, are those of some order of these operations that keeps the
\* order of operations that do not overlap.
KeyLinearizable == \A k \in Keys : lin[k] # {}

=============================================================================
