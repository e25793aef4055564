------------------------------ MODULE LinProofs ------------------------------
(***************************************************************************)
(* Proof that the operations on a key of the sharded tree are linearizable *)
(* with Clear among them, for every number of shards, keys, goroutines and *)
(* calls of Clear.                                                         *)
(*                                                                         *)
(* The hard case is a goroutine that holds the pointer of a Btree that     *)
(* Clear has taken out of the array.  What it does there takes effect, for *)
(* the observer, before that Clear; but the Clear is over, and what the    *)
(* goroutines left on the old Btree will do and in what order is open.     *)
(* The invariant therefore speaks of every way they may go on.             *)
(***************************************************************************)
EXTENDS LinOrders, ShardedProofs

(***************************************************************************)
(* One shard: ts are the Btrees it has had, gen the pointers to them and   *)
(* pend the lock sections that the goroutines have left on it.             *)
(***************************************************************************)
ShardOK(ts, gen, pend) ==
  /\ ts \in Seq(Contents) /\ Len(ts) >= 1
  /\ gen \in Gens /\ pend \in Lefts
  /\ \A c \in Clients : gen[c] <= Len(ts) /\ (gen[c] = 0 => pend[c] = <<>>)

LiveLeft(ts, gen, pend) == [c \in Clients |-> IF gen[c] = Len(ts) THEN pend[c] ELSE <<>>]
OldLeft(ts, gen, pend)  == [c \in Clients |-> IF gen[c] = Len(ts) THEN <<>> ELSE pend[c]]
OldVals(ts, k) == [g \in Nat |-> IF g \in 1 .. Len(ts) - 1 THEN ts[g][k] ELSE NoValue]

OldState(ts, gen, pend, k, base) ==
  [vals |-> OldVals(ts, k), left |-> OldLeft(ts, gen, pend), res |-> base]

\* The observer has what the shard holds and may still do.
KeyGood(X, k, ts, gen, pend) ==
  /\ Fit(X, k, pend)
  /\ \E base \in [Clients -> Answers] :
       Covers(X, k, ts[Len(ts)][k], LiveLeft(ts, gen, pend), OldState(ts, gen, pend, k, base), gen)

LEMMA OldStateType ==
  ASSUME NEW ts, NEW gen, NEW pend, ShardOK(ts, gen, pend), NEW k \in Keys,
         NEW base \in [Clients -> Answers]
  PROVE  /\ OldState(ts, gen, pend, k, base) \in OldStates
         /\ LiveLeft(ts, gen, pend) \in Lefts
         /\ \A g \in 1 .. Len(ts) : ts[g][k] \in Stores
         /\ ts[Len(ts)][k] \in Stores
<1>1. ts \in Seq(Contents) /\ pend \in [Clients -> Seq(Jobs)] /\ Len(ts) \in Nat /\ Len(ts) >= 1
  BY DEF ShardOK, Lefts
<1>2. \A g \in 1 .. Len(ts) : ts[g] \in Contents
  BY <1>1
<1>3. \A g \in 1 .. Len(ts) : ts[g][k] \in Stores
  BY <1>2 DEF Contents, Stores
<1>4. Len(ts) \in 1 .. Len(ts) /\ \A g \in 1 .. Len(ts) - 1 : g \in 1 .. Len(ts)
  BY <1>1
<1>5. NoValue \in Stores /\ <<>> \in Seq(Jobs)
  BY DEF Stores
<1>6. OldVals(ts, k) \in [Nat -> Stores]
  BY <1>3, <1>4, <1>5 DEF OldVals
<1>7. OldLeft(ts, gen, pend) \in Lefts /\ LiveLeft(ts, gen, pend) \in Lefts
  BY <1>1, <1>5 DEF OldLeft, LiveLeft, Lefts
<1> QED
  BY <1>3, <1>4, <1>6, <1>7 DEF OldState, OldStates

\* c, with nothing left on the shard, reads the pointer for the sections ops.
LEMMA AskGood ==
  ASSUME NEW ts, NEW gen, NEW pend, ShardOK(ts, gen, pend), NEW k \in Keys, NEW X,
         KeyGood(X, k, ts, gen, pend), NEW c \in Clients, pend[c] = <<>>, NEW ops \in Seq(Jobs),
         NEW next, next = [gen EXCEPT ![c] = Len(ts)], NEW rest, rest = [pend EXCEPT ![c] = ops]
  PROVE  KeyGood(Asks(X, c, ops, k), k, ts, next, rest)
<1> DEFINE gen2 == [gen EXCEPT ![c] = Len(ts)]
           pend2 == [pend EXCEPT ![c] = ops]
<1>1. /\ gen \in [Clients -> Nat] /\ pend \in [Clients -> Seq(Jobs)] /\ Len(ts) \in Nat
      /\ pend \in Lefts /\ gen \in Gens
  BY DEF ShardOK, Gens, Lefts
<1>2. PICK base \in [Clients -> Answers] :
        Covers(X, k, ts[Len(ts)][k], LiveLeft(ts, gen, pend), OldState(ts, gen, pend, k, base), gen)
  BY DEF KeyGood
<1> DEFINE o == OldState(ts, gen, pend, k, base)
           left == LiveLeft(ts, gen, pend)
<1>3. o \in OldStates /\ o.left = OldLeft(ts, gen, pend) /\ o.left[c] = <<>>
  <2>1. o \in OldStates
    BY OldStateType
  <2> QED
    BY <2>1 DEF OldState, OldLeft
<1>4. OldLeft(ts, gen2, pend2) = OldLeft(ts, gen, pend)
  BY <1>1 DEF OldLeft
<1>5. LiveLeft(ts, gen2, pend2) = [left EXCEPT ![c] = ops]
  BY <1>1, Zenon DEF LiveLeft
<1>6. OldState(ts, gen2, pend2, k, base) = o
  BY <1>4 DEF OldState
<1>7. Fit(X, k, pend)
  BY DEF KeyGood
<1> HIDE DEF o, left
<1>8. Covers(Asks(X, c, ops, k), k, ts[Len(ts)][k], [left EXCEPT ![c] = ops], o, gen2)
  <2>1. Covers(X, k, ts[Len(ts)][k], left, o, gen)
    BY <1>2 DEF o, left
  <2> QED
    BY <1>1, <1>3, <1>7, <2>1, AsksCovers, Zenon
<1>9. Fit(Asks(X, c, ops, k), k, pend2)
  BY <1>1, <1>7, AsksFits, Zenon
<1> HIDE DEF gen2, pend2
<1>10. KeyGood(Asks(X, c, ops, k), k, ts, gen2, pend2)
  BY <1>5, <1>6, <1>8, <1>9 DEF KeyGood
<1> QED
  BY <1>10 DEF gen2, pend2

\* The pointer of c, with nothing left on the shard, changes.
LEMMA MoveGood ==
  ASSUME NEW ts, NEW gen, NEW pend, ShardOK(ts, gen, pend), NEW k \in Keys, NEW X,
         KeyGood(X, k, ts, gen, pend), NEW c \in Clients, pend[c] = <<>>, NEW g \in Nat,
         NEW next, next = [gen EXCEPT ![c] = g]
  PROVE  KeyGood(X, k, ts, next, pend)
<1> DEFINE gen2 == [gen EXCEPT ![c] = g]
<1>1. gen \in [Clients -> Nat] /\ gen \in Gens
  BY DEF ShardOK, Gens
<1>2. PICK base \in [Clients -> Answers] :
        Covers(X, k, ts[Len(ts)][k], LiveLeft(ts, gen, pend), OldState(ts, gen, pend, k, base), gen)
  BY DEF KeyGood
<1> DEFINE o == OldState(ts, gen, pend, k, base)
           left == LiveLeft(ts, gen, pend)
<1>3. o \in OldStates /\ o.left = OldLeft(ts, gen, pend) /\ o.left[c] = <<>>
  <2>1. o \in OldStates
    BY OldStateType
  <2> QED
    BY <2>1 DEF OldState, OldLeft
<1>4. OldLeft(ts, gen2, pend) = OldLeft(ts, gen, pend) /\ LiveLeft(ts, gen2, pend) = left
  BY <1>1 DEF OldLeft, LiveLeft
<1>5. OldState(ts, gen2, pend, k, base) = o
  BY <1>4 DEF OldState
<1> HIDE DEF o, left
<1>6. Covers(X, k, ts[Len(ts)][k], left, o, gen2)
  <2>1. Covers(X, k, ts[Len(ts)][k], left, o, gen)
    BY <1>2 DEF o, left
  <2> QED
    BY <1>1, <1>3, <2>1, CoversMove, Zenon
<1> HIDE DEF gen2
<1>7. KeyGood(X, k, ts, gen2, pend)
  BY <1>4, <1>5, <1>6 DEF KeyGood
<1> QED
  BY <1>7 DEF gen2

LEMMA EffectDoes ==
  ASSUME NEW job, NEW t, NEW k \in Keys
  PROVE  Effect(job, t)[k] = Does(job, k, t[k])
BY DEF Effect, Does

\* The next section of c runs on the Btree its pointer leads to.
LEMMA WorkGood ==
  ASSUME NEW ts, NEW gen, NEW pend, ShardOK(ts, gen, pend), NEW k \in Keys, NEW X,
         KeyGood(X, k, ts, gen, pend), NEW c \in Clients, pend[c] # <<>>, NEW g \in Nat,
         Tail(pend[c]) = <<>> \/ g = gen[c],
         NEW us, us = [ts EXCEPT ![gen[c]] = Effect(Head(pend[c]), ts[gen[c]])],
         NEW next, next = [gen EXCEPT ![c] = g], NEW rest, rest = [pend EXCEPT ![c] = Tail(pend[c])]
  PROVE  KeyGood(Answered(X, c, Says(Head(pend[c]), k, ts[gen[c]][k]), Len(Tail(pend[c]))), k, us, next, rest)
<1> DEFINE gen2 == [gen EXCEPT ![c] = g]
           q == Tail(pend[c])
           pend2 == [pend EXCEPT ![c] = q]
           job == Head(pend[c])
           n == Len(ts)
           p == gen[c]
           Y == Answered(X, c, Says(job, k, ts[p][k]), Len(q))
<1>1. /\ gen \in [Clients -> Nat] /\ pend \in [Clients -> Seq(Jobs)] /\ n \in Nat /\ n >= 1
      /\ pend \in Lefts /\ gen \in Gens /\ ts \in Seq(Contents)
  BY DEF ShardOK, Gens, Lefts
<1>2. p \in 1 .. n
  <2>1. p \in Nat /\ p <= n /\ p # 0
    BY <1>1 DEF ShardOK
  <2> QED
    BY <1>1, <2>1
<1>3. job \in Jobs /\ q \in Seq(Jobs)
  BY <1>1, HeadTail
<1>4. PICK base \in [Clients -> Answers] :
        Covers(X, k, ts[n][k], LiveLeft(ts, gen, pend), OldState(ts, gen, pend, k, base), gen)
  BY DEF KeyGood
<1> DEFINE o == OldState(ts, gen, pend, k, base)
           left == LiveLeft(ts, gen, pend)
           Base(b) == [base EXCEPT ![c] = b]
<1>5. /\ o \in OldStates /\ left \in Lefts /\ ts[n][k] \in Stores
      /\ o.left = OldLeft(ts, gen, pend) /\ o.vals = OldVals(ts, k) /\ o.res = base
  <2>1. o \in OldStates /\ left \in Lefts /\ ts[n][k] \in Stores
    BY OldStateType
  <2> QED
    BY <2>1 DEF OldState
<1>6. Len(us) = n /\ us[p] = Effect(job, ts[p]) /\ \A i \in 1 .. n : i # p => us[i] = ts[i]
  BY <1>1, <1>2
<1>7. us[p][k] = Does(job, k, ts[p][k])
  BY <1>6, EffectDoes
<1>8. Fit(X, k, pend)
  BY DEF KeyGood
<1>9. Fit(Y, k, pend2)
  BY <1>1, <1>3, <1>8, AnswerFits, Zenon
<1>10. Covers(X, k, ts[n][k], left, o, gen)
  BY <1>4
<1> HIDE DEF gen2, pend2, job, q, o, left
<1>11. gen2 = [gen EXCEPT ![c] = g] /\ pend2 = [pend EXCEPT ![c] = q] /\ (q = <<>> \/ g = p)
  BY DEF gen2, pend2, q
<1>12. CASE p = n
  <2>1. o.left[c] = <<>> /\ left[c] = pend[c]
    BY <1>5, <1>12 DEF OldLeft, LiveLeft, left
  <2>2. PICK b \in Answers :
          Covers(Y, k, Does(job, k, ts[n][k]), [left EXCEPT ![c] = q], WithRes(o, c, b), gen2)
    <3>1. left[c] # <<>>
      BY <2>1
    <3> DEFINE v == ts[n][k]
               some == [left EXCEPT ![c] = q]
    <3>2. Covers(X, k, v, left, o, gen) /\ v \in Stores
      BY <1>5, <1>10
    <3> HIDE DEF v
    <3>3. \E b \in Answers :
            Covers(Answered(X, c, Says(Head(left[c]), k, v), Len(Tail(left[c]))), k,
                   Does(Head(left[c]), k, v), some, WithRes(o, c, b), gen2)
      <4>1. some = [left EXCEPT ![c] = Tail(left[c])]
        BY <2>1 DEF q
      <4> HIDE DEF Y, n, p, some
      <4> QED
        <5>1. pend \in Lefts /\ Fit(X, k, pend) /\ v \in Stores /\ left \in Lefts
          BY <1>1, <1>5, <1>8, <3>2, Zenon
        <5>2. o \in OldStates /\ gen \in Gens /\ Covers(X, k, v, left, o, gen)
          BY <1>1, <1>5, <3>2
        <5>3. o.left[c] = <<>>
          BY <2>1
        <5> QED
          BY <1>11, <3>1, <4>1, <5>1, <5>2, <5>3, LiveWorkCovers, ZenonT(30)
    <3> QED
      BY <1>12, <2>1, <3>3, Zenon DEF job, q, v
  <2>3. OldVals(us, k) = OldVals(ts, k)
    <3>1. \A i \in 1 .. n - 1 : i \in 1 .. n /\ i # p
      BY <1>1, <1>12
    <3>2. \A i \in 1 .. n - 1 : us[i][k] = ts[i][k]
      BY <1>6, <3>1, SMTT(30)
    <3> HIDE DEF n, p
    <3> QED
      BY <1>6, <3>2 DEF OldVals, n
  <2>4. OldLeft(us, gen2, pend2) = OldLeft(ts, gen, pend)
    BY <1>1, <1>6, <1>11, <1>12, SMTT(30) DEF OldLeft
  <2>5. LiveLeft(us, gen2, pend2) = [left EXCEPT ![c] = q]
    BY <1>1, <1>6, <1>11, <1>12, ZenonT(30) DEF LiveLeft, left
  <2>6. OldState(us, gen2, pend2, k, Base(b)) = WithRes(o, c, b)
    BY <1>5, <2>3, <2>4, SMTT(30) DEF OldState, WithRes
  <2>7. us[Len(us)][k] = Does(job, k, ts[n][k])
    BY <1>6, <1>7, <1>12, SMTT(30)
  <2>8. Base(b) \in [Clients -> Answers]
    OBVIOUS
  <2>9. Covers(Y, k, us[Len(us)][k], LiveLeft(us, gen2, pend2), OldState(us, gen2, pend2, k, Base(b)), gen2)
    BY <2>2, <2>5, <2>6, <2>7, SMTT(30)
  <2> HIDE DEF Base, Y
  <2>10. KeyGood(Y, k, us, gen2, pend2)
    BY <1>9, <2>8, <2>9, SMTT(30) DEF KeyGood
  <2> QED
    BY <2>10 DEF Y, gen2, pend2, job, q
<1>13. CASE p # n
  <2>1. o.left[c] = pend[c] /\ left[c] = <<>> /\ o.vals[p] = ts[p][k]
    <3>1. p \in 1 .. n - 1 /\ p \in Nat
      BY <1>1, <1>2, <1>13, SMTT(30)
    <3> QED
      BY <1>5, <1>13, <3>1, SMTT(30) DEF OldLeft, OldVals, LiveLeft, left
  <2> DEFINE m == OldStep(o, c, gen, k)
  <2>2. PICK b \in Answers : Covers(Y, k, ts[n][k], left, WithRes(m, c, b), gen2)
    <3>1. o.left[c] # <<>> /\ (Tail(o.left[c]) = <<>> \/ g = gen[c])
      BY <2>1
    <3>2. \E b \in Answers :
            Covers(Answered(X, c, Says(Head(o.left[c]), k, o.vals[gen[c]]), Len(Tail(o.left[c]))), k,
                   ts[n][k], left, WithRes(OldStep(o, c, gen, k), c, b), [gen EXCEPT ![c] = g])
      BY <1>1, <1>5, <1>8, <1>10, <2>1, <3>1, OldWorkCovers, ZenonT(30)
    <3> QED
      BY <2>1, <3>2, Zenon DEF job, q, gen2
  <2>3. /\ m.vals = [OldVals(ts, k) EXCEPT ![p] = Does(job, k, ts[p][k])]
        /\ m.left = [OldLeft(ts, gen, pend) EXCEPT ![c] = q]
        /\ m.res = [base EXCEPT ![c] = Says(job, k, ts[p][k])]
    BY <1>5, <2>1 DEF OldStep, job, q
  <2> HIDE DEF m
  <2>4. OldVals(us, k) = m.vals
    <3>1. p \in 1 .. n - 1 /\ p \in Nat /\ \A i \in 1 .. n - 1 : i \in 1 .. n
      BY <1>1, <1>2, <1>13
    <3> QED
      BY <1>1, <1>6, <1>7, <2>3, <3>1, ZenonT(30) DEF OldVals
  <2>5. OldLeft(us, gen2, pend2) = m.left
    BY <1>1, <1>6, <1>11, <1>13, <2>3, ZenonT(30) DEF OldLeft
  <2>6. LiveLeft(us, gen2, pend2) = left
    BY <1>1, <1>6, <1>11, <1>13, SMTT(30) DEF LiveLeft, left
  <2>7. [m.res EXCEPT ![c] = b] = Base(b)
    BY <2>3, Zenon
  <2>8. OldState(us, gen2, pend2, k, Base(b)) = WithRes(m, c, b)
    BY <2>4, <2>5, <2>7, ZenonT(30) DEF OldState, WithRes
  <2>9. us[Len(us)][k] = ts[n][k]
    <3>1. n \in 1 .. n
      BY <1>1, SMTT(30)
    <3> QED
      BY <1>6, <1>13, <3>1, SMTT(30)
  <2>10. Base(b) \in [Clients -> Answers]
    OBVIOUS
  <2>11. Covers(Y, k, us[Len(us)][k], LiveLeft(us, gen2, pend2), OldState(us, gen2, pend2, k, Base(b)), gen2)
    BY <2>2, <2>6, <2>8, <2>9, SMTT(30)
  <2> HIDE DEF Base, Y
  <2>12. KeyGood(Y, k, us, gen2, pend2)
    BY <1>9, <2>10, <2>11 DEF KeyGood
  <2> QED
    BY <2>12 DEF Y, gen2, pend2, job, q
<1> QED
  BY <1>12, <1>13

\* c gives up its last section, a read.
LEMMA GiveUpGood ==
  ASSUME NEW ts, NEW gen, NEW pend, ShardOK(ts, gen, pend), NEW k \in Keys, NEW X,
         KeyGood(X, k, ts, gen, pend), NEW c \in Clients, NEW g \in Nat,
         NEW job \in Jobs, job.do = "read", pend[c] = <<job>>,
         NEW next, next = [gen EXCEPT ![c] = g], NEW rest, rest = [pend EXCEPT ![c] = <<>>]
  PROVE  KeyGood(GivesUp(X, c), k, ts, next, rest)
<1> DEFINE gen2 == [gen EXCEPT ![c] = g]
           pend2 == [pend EXCEPT ![c] = <<>>]
           n == Len(ts)
           p == gen[c]
           Y == GivesUp(X, c)
<1>1. /\ gen \in [Clients -> Nat] /\ pend \in [Clients -> Seq(Jobs)] /\ n \in Nat /\ n >= 1
      /\ pend \in Lefts /\ gen \in Gens /\ ts \in Seq(Contents)
  BY DEF ShardOK, Gens, Lefts
<1>2. p \in 1 .. n
  <2>0. <<job>> # <<>>
    OBVIOUS
  <2>1. p \in Nat /\ p <= n /\ p # 0
    BY <1>1, <2>0, Zenon DEF ShardOK
  <2> QED
    BY <1>1, <2>1
<1>3. PICK base \in [Clients -> Answers] :
        Covers(X, k, ts[n][k], LiveLeft(ts, gen, pend), OldState(ts, gen, pend, k, base), gen)
  BY DEF KeyGood
<1> DEFINE o == OldState(ts, gen, pend, k, base)
           left == LiveLeft(ts, gen, pend)
           base2 == [base EXCEPT ![c] = "none"]
           v == ts[n][k]
<1>4. /\ o \in OldStates /\ left \in Lefts
      /\ o.left = OldLeft(ts, gen, pend) /\ o.vals = OldVals(ts, k) /\ o.res = base
  <2>1. o \in OldStates /\ left \in Lefts
    BY OldStateType
  <2> QED
    BY <2>1 DEF OldState
<1>5. Fit(X, k, pend) /\ Covers(X, k, v, left, o, gen)
  BY <1>3 DEF KeyGood
<1>6. Fit(Y, k, pend2)
  BY <1>1, <1>5, GivesUpFits, Zenon
<1>7. base2 \in [Clients -> Answers]
  BY DEF Answers
<1> HIDE DEF gen2, pend2, o, left, base2, v, Y
<1>8. /\ gen2 = [gen EXCEPT ![c] = g] /\ pend2 = [pend EXCEPT ![c] = <<>>]
      /\ base2 = [base EXCEPT ![c] = "none"] /\ Y = GivesUp(X, c)
  BY DEF gen2, pend2, base2, Y
<1>9. LiveLeft(ts, gen2, pend2) = [left EXCEPT ![c] = <<>>]
  BY <1>1, <1>8, Zenon DEF LiveLeft, left
<1>10. PICK m \in OldStates :
         /\ Covers(X, k, v, left, m, gen)
         /\ m.vals = OldVals(ts, k) /\ m.left = [OldLeft(ts, gen, pend) EXCEPT ![c] = <<>>]
         /\ [m.res EXCEPT ![c] = "none"] = base2
  <2>1. CASE p = n
    <3>1. OldLeft(ts, gen, pend) = [OldLeft(ts, gen, pend) EXCEPT ![c] = <<>>]
      BY <2>1 DEF OldLeft
    <3> QED
      BY <1>4, <1>5, <1>8, <3>1, ZenonT(30)
  <2>2. CASE p # n
    <3>1. p \in 1 .. n - 1 /\ p \in Nat
      BY <1>1, <1>2, <2>2, SMTT(30)
    <3>2. o.left[c] = <<job>> /\ o.vals[p] = ts[p][k]
      BY <1>4, <2>2, <3>1, SMTT(30) DEF OldLeft, OldVals
    <3>3. Head(o.left[c]) = job /\ Tail(o.left[c]) = <<>> /\ o.left[c] # <<>>
      BY <3>2
    <3>4. Does(job, k, o.vals[p]) = o.vals[p]
      BY DEF Does, After
    <3> DEFINE m == OldStep(o, c, gen, k)
    <3>5. /\ m.vals = [o.vals EXCEPT ![p] = o.vals[p]] /\ m.left = [o.left EXCEPT ![c] = <<>>]
          /\ m.res = [o.res EXCEPT ![c] = Says(job, k, o.vals[p])]
      BY <3>3, <3>4, Zenon DEF OldStep
    <3>6. m \in OldStates
      BY <1>1, <1>4, <3>3, OldStepType, ZenonT(30)
    <3>7. Covers(X, k, v, left, m, gen)
      BY <1>1, <1>4, <1>5, <3>3, CoversStep, ZenonT(30)
    <3> HIDE DEF m
    <3>8. m.vals = OldVals(ts, k)
      BY <1>4, <3>5, Zenon DEF OldVals
    <3>9. [m.res EXCEPT ![c] = "none"] = base2
      BY <1>4, <1>8, <3>5, ZenonT(30)
    <3> QED
      BY <1>4, <3>5, <3>6, <3>7, <3>8, <3>9, ZenonT(30)
  <2> QED
    BY <2>1, <2>2, Zenon
<1>11. m.left[c] = <<>>
  BY <1>10 DEF OldLeft
<1>12. Covers(Y, k, v, LiveLeft(ts, gen2, pend2), WithRes(m, c, "none"), gen2)
  BY <1>1, <1>4, <1>5, <1>8, <1>9, <1>10, <1>11, GivesUpCovers, ZenonT(30)
<1>13. OldLeft(ts, gen2, pend2) = m.left
  BY <1>1, <1>8, <1>10, ZenonT(30) DEF OldLeft
<1>14. OldState(ts, gen2, pend2, k, base2) = WithRes(m, c, "none")
  BY <1>10, <1>13, SMTT(30) DEF OldState, WithRes
<1>15. KeyGood(Y, k, ts, gen2, pend2)
  BY <1>6, <1>7, <1>12, <1>14, SMTT(30) DEF KeyGood, v
<1> QED
  BY <1>15 DEF Y, gen2, pend2

\* Clear, called by c, puts a new Btree in the place of the live one.
LEMMA ReplaceGood ==
  ASSUME NEW ts, NEW gen, NEW pend, ShardOK(ts, gen, pend), NEW k \in Keys, NEW X,
         KeyGood(X, k, ts, gen, pend), NEW c \in Clients, pend[c] = <<>>
  PROVE  KeyGood(Answered(Asks(X, c, <<ReplaceJob>>, k), c, "ok", 0), k, Append(ts, EmptyTree), gen, pend)
<1> DEFINE n == Len(ts)
           us == Append(ts, EmptyTree)
           Y == Asks(X, c, <<ReplaceJob>>, k)
<1>1. /\ gen \in [Clients -> Nat] /\ pend \in [Clients -> Seq(Jobs)] /\ n \in Nat /\ n >= 1
      /\ pend \in Lefts /\ gen \in Gens /\ ts \in Seq(Contents)
      /\ \A d \in Clients : gen[d] \in Nat /\ gen[d] <= n
  BY DEF ShardOK, Gens, Lefts
<1>2. PICK base \in [Clients -> Answers] :
        Covers(X, k, ts[n][k], LiveLeft(ts, gen, pend), OldState(ts, gen, pend, k, base), gen)
  BY DEF KeyGood
<1> DEFINE o == OldState(us, gen, pend, k, base)
           base2 == [base EXCEPT ![c] = "none"]
<1>3. /\ us \in Seq(Contents) /\ Len(us) = n + 1 /\ us[n + 1] = EmptyTree
      /\ \A i \in 1 .. n : us[i] = ts[i]
  <2>1. EmptyTree \in Contents
    BY DEF EmptyTree, Contents
  <2> QED
    BY <1>1, <2>1, SMTT(30)
<1>4. \A d \in Clients : gen[d] # n + 1
  BY <1>1
<1>5. ShardOK(us, gen, pend)
  <2>1. \A d \in Clients : gen[d] <= n + 1
    BY <1>1
  <2> QED
    BY <1>1, <1>3, <2>1, SMTT(30) DEF ShardOK
<1> HIDE DEF us
<1>6. o \in OldStates /\ o.res = base /\ o.vals = OldVals(us, k) /\ o.left = OldLeft(us, gen, pend)
  <2>1. o \in OldStates
    BY <1>5, OldStateType, Zenon
  <2> QED
    BY <2>1, Zenon DEF OldState
<1>7. OldLeft(us, gen, pend) = pend /\ LiveLeft(us, gen, pend) = NoLeft
  BY <1>1, <1>3, <1>4, SMTT(30) DEF OldLeft, LiveLeft, NoLeft
<1>8. OldVals(us, k)[n] = ts[n][k]
  <2>1. n \in 1 .. (n + 1) - 1 /\ n \in 1 .. n
    BY <1>1
  <2> QED
    BY <1>1, <1>3, <2>1, SMTT(30) DEF OldVals
<1>9. [OldVals(us, k) EXCEPT ![n] = NoValue] = OldVals(ts, k)
  <2>1. (n + 1) - 1 = n
    BY <1>1
  <2>2. OldVals(us, k) = [g \in Nat |-> IF g \in 1 .. n THEN ts[g][k] ELSE NoValue]
    BY <1>3, <2>1, SMTT(30) DEF OldVals
  <2>3. \A g \in Nat : g \in 1 .. n <=> g = n \/ g \in 1 .. n - 1
    BY <1>1
  <2>4. n \notin 1 .. n - 1
    BY <1>1
  <2> QED
    BY <1>1, <2>2, <2>3, <2>4, ZenonT(30) DEF OldVals
<1>10. LivePart(o, gen, n) = LiveLeft(ts, gen, pend)
  BY <1>6, <1>7 DEF LivePart, LiveLeft
<1>11. OldPart(o, gen, n) = OldState(ts, gen, pend, k, base)
  <2>1. [d \in Clients |-> IF gen[d] = n THEN <<>> ELSE o.left[d]] = OldLeft(ts, gen, pend)
    BY <1>6, <1>7 DEF OldLeft
  <2> QED
    BY <1>6, <1>9, <2>1, Zenon DEF OldPart, OldState
<1> HIDE DEF o
<1>12. Fit(X, k, pend) /\ o.vals[n] = ts[n][k] /\ o.left[c] = <<>>
  BY <1>6, <1>7, <1>8, Zenon DEF KeyGood
<1>13. Covers(X, k, o.vals[n], LivePart(o, gen, n), OldPart(o, gen, n), gen)
  BY <1>2, <1>10, <1>11, <1>12, ZenonT(30)
<1>14. [gen EXCEPT ![c] = gen[c]] = gen /\ gen[c] \in Nat
  BY <1>1
<1>15. Covers(Answered(Y, c, "ok", 0), k, NoValue, NoLeft, WithRes(o, c, "none"), gen)
  <2>1. Covers(Answered(Y, c, "ok", 0), k, NoValue, NoLeft, WithRes(o, c, "none"), [gen EXCEPT ![c] = gen[c]])
    BY <1>1, <1>6, <1>12, <1>13, <1>14, ReplaceCovers, ZenonT(30)
  <2> QED
    BY <1>14, <2>1
<1>16. OldState(us, gen, pend, k, base2) = WithRes(o, c, "none")
  BY <1>6, Zenon DEF OldState, WithRes
<1>17. us[Len(us)][k] = NoValue
  BY <1>3 DEF EmptyTree
<1>18. base2 \in [Clients -> Answers]
  BY DEF Answers
<1>19. Fit(Answered(Y, c, "ok", 0), k, pend)
  <2> DEFINE ops == <<ReplaceJob>>
             pend2 == [pend EXCEPT ![c] = ops]
  <2>1. ops \in Seq(Jobs)
    BY JobTypes
  <2>2. pend2 \in Lefts /\ [pend2 EXCEPT ![c] = <<>>] = pend
    BY <1>1, <2>1, Zenon DEF Lefts
  <2>3. Fit(Y, k, pend2)
    BY <1>1, <1>12, <2>1, AsksFits, ZenonT(30)
  <2> HIDE DEF pend2, Y
  <2>4. Fit(Answered(Y, c, "ok", 0), k, [pend2 EXCEPT ![c] = <<>>])
    BY <2>2, <2>3, LastAnswer, Zenon
  <2> QED
    BY <2>2, <2>4, Zenon
<1> HIDE DEF base2, Y
<1>20. KeyGood(Answered(Y, c, "ok", 0), k, us, gen, pend)
  BY <1>7, <1>15, <1>16, <1>17, <1>18, <1>19, ZenonT(30) DEF KeyGood
<1> QED
  BY <1>20 DEF Y, us

\* Nothing has been called yet.
LEMMA InitGood ==
  ASSUME NEW k \in Keys
  PROVE  KeyGood({Untouched}, k, <<EmptyTree>>, [c \in Clients |-> 0], NoLeft)
<1> DEFINE ts == <<EmptyTree>>
           gen == [c \in Clients |-> 0]
           base == [c \in Clients |-> "none"]
           o == OldState(ts, gen, NoLeft, k, base)
           X == {Untouched}
<1>1. EmptyTree \in Contents /\ NoLeft \in Lefts /\ gen \in Gens /\ base \in [Clients -> Answers]
  BY DEF EmptyTree, Contents, NoLeft, Lefts, Gens, Answers
<1>2. ts \in Seq(Contents) /\ Len(ts) = 1 /\ ts[1] = EmptyTree
  BY <1>1
<1>3. ShardOK(ts, gen, NoLeft)
  BY <1>1, <1>2, SMTT(30) DEF ShardOK, NoLeft
<1>4. o \in OldStates
  BY <1>1, <1>3, OldStateType, SMTT(30)
<1>5. OldLeft(ts, gen, NoLeft) = NoLeft /\ LiveLeft(ts, gen, NoLeft) = NoLeft
  BY DEF OldLeft, LiveLeft, NoLeft
<1>6. o.left = NoLeft /\ o.res = base
  BY <1>5 DEF OldState
<1>7. ts[Len(ts)][k] = NoValue
  BY <1>2 DEF EmptyTree
<1>8. Untouched = Config(NoValue, NoLeft, base)
  BY DEF Untouched, Config, NoLeft
<1> HIDE DEF o, base, ts, gen
<1>9. Reach(o, gen, k) \subseteq {o}
  <2>1. StepClosed({o}, gen, k)
    BY <1>6 DEF StepClosed, NoLeft
  <2> QED
    BY <1>1, <1>4, <2>1, ReachLeast, SMTT(30)
<1>10. Covers(X, k, ts[Len(ts)][k], LiveLeft(ts, gen, NoLeft), o, gen)
  BY <1>5, <1>6, <1>7, <1>8, <1>9, SMTT(30) DEF Covers
<1>11. Fit(X, k, NoLeft)
  <2>1. Untouched \in Configs
    <3>1. NoValue \in Stores
      BY DEF Stores
    <3> QED
      BY <1>1, <1>8, <3>1, SMTT(30) DEF Config, Configs
  <2>2. Untouched.left = NoLeft
    BY <1>8 DEF Config
  <2>3. \A c \in Clients : NoLeft[c] = <<>> /\ Len(NoLeft[c]) <= Len(NoLeft[c])
    BY DEF NoLeft
  <2> QED
    BY <2>1, <2>2, <2>3, SMTT(30) DEF Fit, Closed
<1> HIDE DEF X
<1>12. KeyGood(X, k, ts, gen, NoLeft)
  BY <1>1, <1>10, <1>11, SMTT(30) DEF KeyGood, o
<1> QED
  BY <1>12 DEF X, ts, gen

-----------------------------------------------------------------------------
(***************************************************************************)
(* The calls.                                                              *)
(***************************************************************************)
PendOf(r, s) == IF r.ptr[s] = 0 THEN <<>> ELSE r.jobs[s]

GenOf(calls, s)   == [c \in Clients |-> calls[c].ptr[s]]
PendsOf(calls, s) == [c \in Clients |-> PendOf(calls[c], s)]

\* A call that has nothing left holds no pointer; ForEach visits one shard
\* after the other.
CallOK(r) ==
  /\ r.op = "none" => r.jobs = NoJobs
  /\ r.jobs = NoJobs => r.ptr = NoPointers
  /\ r.op = "forEach" =>
       /\ \A s \in Shards : r.jobs[s] \in {<<>>, <<ReadJob(KeysOf(s))>>}
       /\ \A s, t \in Shards : t < s /\ r.ptr[s] # 0 => r.jobs[t] = <<>>

KeysGood ==
  \A k \in Keys : KeyGood(lin[k], k, trees[ShardOf[k]], GenOf(call, ShardOf[k]), PendsOf(call, ShardOf[k]))

CallsOK == \A c \in Clients : CallOK(call[c])

LinInv == Inv /\ CallsOK /\ KeysGood

LEMMA ShardIsOK ==
  ASSUME Inv, NEW s \in Shards
  PROVE  ShardOK(trees[s], GenOf(call, s), PendsOf(call, s))
<1>1. /\ trees[s] \in Seq(Contents) /\ Len(trees[s]) >= 1 /\ call \in [Clients -> CallType]
      /\ \A c \in Clients : call[c].ptr[s] <= Len(trees[s])
  BY DEF Inv, ShardedTypeOK
<1>2. \A c \in Clients : call[c].ptr[s] \in Nat /\ call[c].jobs[s] \in Seq(Jobs)
  BY <1>1 DEF CallType
<1>3. GenOf(call, s) \in Gens /\ \A c \in Clients : GenOf(call, s)[c] = call[c].ptr[s]
  BY <1>2 DEF GenOf, Gens
<1>4. /\ PendsOf(call, s) \in Lefts
      /\ \A c \in Clients : call[c].ptr[s] = 0 => PendsOf(call, s)[c] = <<>>
  <2>1. <<>> \in Seq(Jobs)
    OBVIOUS
  <2>2. \A c \in Clients : PendOf(call[c], s) \in Seq(Jobs)
    BY <1>2, <2>1 DEF PendOf
  <2> QED
    BY <2>2 DEF PendsOf, PendOf, Lefts
<1> QED
  BY <1>1, <1>3, <1>4 DEF ShardOK

\* A step of c changes its own pointer and what it has left.
CallMoves(c, new, s) ==
  /\ GenOf(call', s) = [GenOf(call, s) EXCEPT ![c] = new.ptr[s]]
  /\ PendsOf(call', s) = [PendsOf(call, s) EXCEPT ![c] = PendOf(new, s)]
  /\ GenOf(call, s)[c] = call[c].ptr[s]
  /\ PendsOf(call, s)[c] = PendOf(call[c], s)

LEMMA CallStep ==
  ASSUME call \in [Clients -> CallType], NEW c \in Clients, NEW new, call' = [call EXCEPT ![c] = new],
         NEW s
  PROVE  CallMoves(c, new, s)
<1> DEFINE gen == GenOf(call, s)
           pend == PendsOf(call, s)
           next == GenOf(call', s)
           rest == PendsOf(call', s)
<1>1. \A d \in Clients : call'[d] = IF d = c THEN new ELSE call[d]
  OBVIOUS
<1>2. next = [d \in Clients |-> IF d = c THEN new.ptr[s] ELSE gen[d]]
  BY <1>1 DEF GenOf
<1>3. rest = [d \in Clients |-> IF d = c THEN PendOf(new, s) ELSE pend[d]]
  BY <1>1 DEF PendsOf
<1>4. gen = [d \in Clients |-> call[d].ptr[s]] /\ pend = [d \in Clients |-> PendOf(call[d], s)]
  BY DEF GenOf, PendsOf
<1> HIDE DEF next, rest, gen, pend
<1>5. next = [gen EXCEPT ![c] = new.ptr[s]]
  BY <1>2, <1>4
<1>6. rest = [pend EXCEPT ![c] = PendOf(new, s)]
  BY <1>3, <1>4
<1>7. gen[c] = call[c].ptr[s] /\ pend[c] = PendOf(call[c], s)
  BY <1>4
<1> QED
  BY <1>5, <1>6, <1>7 DEF CallMoves, gen, pend, next, rest

\* The end of a lock section leaves what is left on the shards.
LEMMA LeavePend ==
  ASSUME NEW r \in CallType
  PROVE  /\ \A s \in Shards : PendOf(Leave(r), s) = PendOf(r, s)
         /\ Leave(r) = r \/ \A s \in Shards : r.jobs[s] = <<>>
         /\ CallOK(Leave(r)) \/ r.jobs # NoJobs
<1>1. CASE r.jobs # NoJobs
  BY <1>1 DEF Leave
<1>2. CASE r.jobs = NoJobs
  <2>1. \A s \in Shards : r.jobs[s] = <<>>
    BY <1>2 DEF NoJobs
  <2>2. Leave(r).ptr = NoPointers /\ Leave(r).jobs = NoJobs /\ Leave(r).op \in {"none", "sweep"}
    BY <1>2 DEF Leave, Idle, NewCall
  <2>3. \A s \in Shards : PendOf(Leave(r), s) = <<>> /\ PendOf(r, s) = <<>>
    BY <2>1, <2>2 DEF PendOf, NoPointers
  <2>4. CallOK(Leave(r))
    <3> DEFINE l == Leave(r)
    <3> HIDE DEF l
    <3>1. l.ptr = NoPointers /\ l.jobs = NoJobs /\ l.op # "forEach"
      BY <2>2 DEF l
    <3> QED
      BY <3>1 DEF CallOK, l
  <2> QED
    BY <2>1, <2>3, <2>4, SMTT(30)
<1> QED
  BY <1>1, <1>2

-----------------------------------------------------------------------------
\* A call starts or reads a pointer.
LEMMA AskStep ==
  ASSUME LinInv, NEW c \in Clients, NEW new \in CallType, call' = [call EXCEPT ![c] = new],
         trees' = trees, lin' = [k \in Keys |-> LinBegin(c, k)],
         \A s \in Shards :
           \/ call[c].ptr[s] = 0 /\ new.ptr[s] = Len(trees[s])
           \/ new.ptr[s] = call[c].ptr[s] /\ (new.ptr[s] = 0 \/ new.jobs[s] = call[c].jobs[s])
  PROVE  KeysGood'
<1> SUFFICES ASSUME NEW k \in Keys
    PROVE  KeyGood(lin'[k], k, trees'[ShardOf[k]], GenOf(call', ShardOf[k]), PendsOf(call', ShardOf[k]))
  BY Zenon DEF KeysGood
<1> DEFINE s == ShardOf[k]
           gen == GenOf(call, s)
           pend == PendsOf(call, s)
           next == GenOf(call', s)
           rest == PendsOf(call', s)
<1>1. s \in Shards
  BY ShardType
<1>2. call \in [Clients -> CallType] /\ call'[c] = new
  BY DEF LinInv, CallsOK, Inv, ShardedTypeOK
<1>3. /\ next = [gen EXCEPT ![c] = new.ptr[s]] /\ rest = [pend EXCEPT ![c] = PendOf(new, s)]
      /\ gen[c] = call[c].ptr[s] /\ pend[c] = PendOf(call[c], s)
  <2>1. CallMoves(c, new, s)
    BY <1>2, CallStep, Zenon
  <2> QED
    BY <2>1 DEF CallMoves
<1>4. ShardOK(trees[s], gen, pend) /\ KeyGood(lin[k], k, trees[s], gen, pend)
  BY <1>1, ShardIsOK, SMTT(30) DEF LinInv, CallsOK, KeysGood
<1>5. gen \in [Clients -> Nat] /\ pend \in [Clients -> Seq(Jobs)] /\ Len(trees[s]) >= 1
  BY <1>4 DEF ShardOK, Gens, Lefts
<1>6. lin'[k] = IF call[c].ptr[s] = 0 /\ new.ptr[s] # 0 THEN Asks(lin[k], c, new.jobs[s], k) ELSE lin[k]
  BY <1>2, SMTT(30) DEF LinBegin, Fresh
<1> HIDE DEF gen, pend, next, rest, s
<1>7. CASE call[c].ptr[s] = 0 /\ new.ptr[s] = Len(trees[s])
  <2>1. new.ptr[s] # 0 /\ pend[c] = <<>> /\ PendOf(new, s) = new.jobs[s]
    <3>1. Len(trees[s]) # 0
      BY <1>5
    <3> QED
      BY <1>3, <1>7, <3>1, SMTT(30) DEF PendOf
  <2>2. lin'[k] = Asks(lin[k], c, new.jobs[s], k)
    BY <1>6, <1>7, <2>1, SMTT(30)
  <2>3. new.jobs[s] \in Seq(Jobs)
    BY <1>1, SMTT(30) DEF CallType
  <2>4. next = [gen EXCEPT ![c] = Len(trees[s])] /\ rest = [pend EXCEPT ![c] = new.jobs[s]]
    BY <1>3, <1>7, <2>1, SMTT(30)
  <2>5. KeyGood(Asks(lin[k], c, new.jobs[s], k), k, trees[s], next, rest)
    BY <1>4, <2>1, <2>3, <2>4, AskGood, ZenonT(30)
  <2> QED
    BY <2>2, <2>5, SMTT(30) DEF next, rest, s
<1>8. CASE new.ptr[s] = call[c].ptr[s] /\ (new.ptr[s] = 0 \/ new.jobs[s] = call[c].jobs[s])
  <2>1. PendOf(new, s) = PendOf(call[c], s)
    BY <1>8, SMTT(30) DEF PendOf
  <2>2. next = gen /\ rest = pend
    BY <1>3, <1>5, <1>8, <2>1, SMTT(30)
  <2>3. lin'[k] = lin[k]
    BY <1>6, <1>8, SMTT(30)
  <2> QED
    BY <1>4, <2>2, <2>3, ZenonT(30) DEF next, rest, s
<1> QED
  BY <1>1, <1>7, <1>8, Zenon

\* A call that had no pointer is now new, with pointers to live Btrees only.
AskForm(c, new) ==
  /\ new \in CallType /\ CallOK(new) /\ call[c].ptr = NoPointers
  /\ call' = [call EXCEPT ![c] = new] /\ trees' = trees
  /\ \A s \in Shards : new.ptr[s] \in {0, Len(trees[s])}

LEMMA StartAsks ==
  ASSUME LinInv, NEW c \in Clients, NEW new \in CallType, NEW target, Start(c, new, target),
         CallOK(new), \A s \in Shards : new.ptr[s] \in {0, Len(trees[s])}
  PROVE  AskForm(c, new)
<1>1. call[c].op = "none" /\ CallOK(call[c])
  BY DEF Start, LinInv, CallsOK
<1>2. call[c].ptr = NoPointers
  BY <1>1 DEF CallOK
<1> QED
  BY <1>2 DEF AskForm, Start

LEMMA OneKeyAsks ==
  ASSUME LinInv, NEW c \in Clients, NEW op \in {"insert", "find", "delete"},
         NEW k \in Keys, NEW job \in Jobs, Start(c, OneKey(op, k, job), {})
  PROVE  \E new : AskForm(c, new)
<1> DEFINE new == OneKey(op, k, job)
<1>1. op \in Operations \union {"none", "sweep"} /\ ShardedTypeOK /\ ShardOf[k] \in Shards
  BY ShardType DEF Operations, LinInv, CallsOK, Inv
<1>2. /\ new \in CallType /\ new.op = op /\ new.jobs[ShardOf[k]] = <<job>>
      /\ \A s \in Shards : new.ptr[s] \in {0, Len(trees[s])}
  BY <1>1, OneKeyType, ZenonT(30)
<1>3. Start(c, new, {})
  OBVIOUS
<1> HIDE DEF new
<1>4. new.jobs # NoJobs
  <2>1. NoJobs[ShardOf[k]] = <<>>
    BY <1>1 DEF NoJobs
  <2>2. <<job>> # <<>>
    OBVIOUS
  <2> QED
    BY <1>2, <2>1, <2>2, Zenon
<1>5. CallOK(new)
  BY <1>2, <1>4, SMTT(30) DEF CallOK
<1>6. AskForm(c, new)
  BY <1>2, <1>3, <1>5, StartAsks, SMTT(30)
<1> QED
  BY <1>6

LEMMA NewCallAsks ==
  ASSUME LinInv, NEW c \in Clients, NEW op \in Operations, NEW jobs \in [Shards -> Seq(Jobs)],
         NEW target, Start(c, NewCall(op, jobs), target),
         op = "forEach" => jobs = RangeJobs(Keys)
  PROVE  \E new : AskForm(c, new)
<1> DEFINE new == NewCall(op, jobs)
<1>1. op \in Operations \union {"none", "sweep"} /\ op # "none"
  BY DEF Operations
<1>2. /\ new \in CallType /\ new.op = op /\ new.jobs = jobs /\ new.ptr = NoPointers
      /\ \A s \in Shards : new.ptr[s] = 0
  BY <1>1, NewCallType, SMTT(30)
<1>3. Start(c, new, target)
  OBVIOUS
<1> HIDE DEF new
<1>4. ASSUME op = "forEach", NEW s \in Shards
      PROVE  jobs[s] = <<ReadJob(KeysOf(s))>>
  <2>1. Keys \intersect KeysOf(s) = KeysOf(s)
    BY DEF KeysOf
  <2> QED
    BY <1>4, <2>1, Zenon DEF RangeJobs
<1>5. CallOK(new)
  BY <1>1, <1>2, <1>4, ZenonT(30) DEF CallOK
<1>6. AskForm(c, new)
  BY <1>2, <1>3, <1>5, StartAsks, SMTT(30)
<1> QED
  BY <1>6

LEMMA DeleteRangeNextAsks ==
  ASSUME LinInv, NEW c \in Clients, NEW k \in Keys, DeleteRangeNext(c, k)
  PROVE  \E new : AskForm(c, new)
<1> DEFINE new == [OneKey("sweep", k, DeleteJob(k)) EXCEPT !.rest = call[c].rest \ {k}]
           one == OneKey("sweep", k, DeleteJob(k))
<1>1. /\ call' = [call EXCEPT ![c] = new] /\ trees' = trees /\ call[c].jobs = NoJobs
      /\ CallOK(call[c])
  BY DEF DeleteRangeNext, LinInv, CallsOK
<1>2. ShardedTypeOK /\ call[c].rest \ {k} \in SUBSET Keys /\ ShardOf[k] \in Shards
  BY ShardType DEF LinInv, CallsOK, Inv, ShardedTypeOK, CallType
<1>3. "sweep" \in Operations \union {"none", "sweep"} /\ DeleteJob(k) \in Jobs
  BY JobTypes, SMTT(30)
<1>4. /\ one \in CallType /\ one.op = "sweep" /\ one.jobs[ShardOf[k]] = <<DeleteJob(k)>>
      /\ \A s \in Shards : one.ptr[s] \in {0, Len(trees[s])}
  BY <1>2, <1>3, OneKeyType, SMTT(30)
<1>5. new = [one EXCEPT !.rest = call[c].rest \ {k}]
  OBVIOUS
<1> HIDE DEF one, new
<1>6. new \in CallType /\ new.op = "sweep" /\ new.jobs = one.jobs /\ new.ptr = one.ptr
  BY <1>2, <1>4, <1>5, Zenon DEF CallType
<1>7. new.jobs # NoJobs
  <2>1. NoJobs[ShardOf[k]] = <<>>
    BY <1>2 DEF NoJobs
  <2>2. <<DeleteJob(k)>> # <<>>
    OBVIOUS
  <2> QED
    BY <1>4, <1>6, <2>1, <2>2, ZenonT(30)
<1>8. CallOK(new)
  BY <1>6, <1>7 DEF CallOK
<1>9. AskForm(c, new)
  BY <1>1, <1>4, <1>6, <1>8, ZenonT(30) DEF AskForm, CallOK
<1> QED
  BY <1>9

LEMMA BeginAsks ==
  ASSUME LinInv, NEW c \in Clients, Begin(c)
  PROVE  \E new : AskForm(c, new)
<1> DEFINE Goal == \E new : AskForm(c, new)
<1> HIDE DEF Goal
<1>1. ASSUME NEW q \in Pairs, Insert(c, q[1], q[2]) PROVE Goal
  <2>1. q[1] \in Keys /\ q[2] \in Values
    BY ShardedAssumption
  <2>2. InsertJob(q[1], q[2]) \in Jobs
    BY <2>1, JobTypes, SMTT(30)
  <2> QED
    BY <1>1, <2>1, <2>2, OneKeyAsks, SMTT(30) DEF Insert, Goal
<1>2. ASSUME NEW k \in Keys, Find(c, k) PROVE Goal
  <2>1. ReadJob({k}) \in Jobs
    BY JobTypes
  <2> QED
    BY <1>2, <2>1, OneKeyAsks, SMTT(30) DEF Find, Goal
<1>3. ASSUME NEW k \in Keys, Delete(c, k) PROVE Goal
  <2>1. DeleteJob(k) \in Jobs
    BY JobTypes
  <2> QED
    BY <1>3, <2>1, OneKeyAsks, SMTT(30) DEF Delete, Goal
<1>4. ASSUME NEW op \in {"range", "deleteRange"}, NEW ks \in SUBSET Keys, NEW target,
             Start(c, NewCall(op, RangeJobs(ks)), target)
      PROVE  Goal
  <2>1. RangeJobs(ks) \in [Shards -> Seq(Jobs)] /\ op \in Operations /\ op # "forEach"
    BY RangeJobsType DEF Operations
  <2> QED
    BY <1>4, <2>1, NewCallAsks, SMTT(30) DEF Goal
<1>5. ASSUME NEW q \in Ranges, GetRange(c, q[1], q[2]) \/ DeleteRange(c, q[1], q[2]) PROVE Goal
  <2>1. InRange(q[1], q[2]) \in SUBSET Keys
    BY DEF InRange
  <2> QED
    BY <1>4, <1>5, <2>1, SMTT(30) DEF GetRange, DeleteRange
<1>6. ASSUME NEW b \in Bulks, BulkInsert(c, b) PROVE Goal
  <2>1. [s \in Shards |-> Group(b, s)] \in [Shards -> Seq(Jobs)] /\ "bulk" \in Operations
    BY GroupAssumption DEF Operations
  <2> QED
    BY <1>6, <2>1, NewCallAsks, SMTT(30) DEF BulkInsert, Goal
<1>7. ASSUME Count(c) PROVE Goal
  <2>1. Start(c, NewCall("range", RangeJobs(Keys)), {}) /\ Keys \in SUBSET Keys
    BY <1>7 DEF Count
  <2> QED
    BY <1>4, <2>1, SMTT(30)
<1>8. ASSUME ForEach(c) PROVE Goal
  <2>1. RangeJobs(Keys) \in [Shards -> Seq(Jobs)] /\ "forEach" \in Operations
    BY RangeJobsType DEF Operations
  <2> QED
    BY <1>8, <2>1, NewCallAsks, SMTT(30) DEF ForEach, Goal
<1>9. ASSUME Clear(c) PROVE Goal
  <2> DEFINE jobs == [s \in Shards |-> <<ReplaceJob>>]
  <2>1. <<ReplaceJob>> \in Seq(Jobs)
    BY JobTypes
  <2>2. jobs \in [Shards -> Seq(Jobs)] /\ "clear" \in Operations
    BY <2>1, SMTT(30) DEF Operations
  <2>3. Start(c, NewCall("clear", jobs), Keys)
    BY <1>9 DEF Clear
  <2> HIDE DEF jobs
  <2> QED
    BY <2>2, <2>3, NewCallAsks, SMTT(30) DEF Goal
<1>10. ASSUME NEW k \in Keys, DeleteRangeNext(c, k) PROVE Goal
  BY <1>10, DeleteRangeNextAsks, SMTT(30) DEF Goal
<1>11. Goal
  BY <1>1, <1>2, <1>3, <1>5, <1>6, <1>7, <1>8, <1>9, <1>10, SMTT(30) DEF Begin
<1> QED
  BY <1>11 DEF Goal

-----------------------------------------------------------------------------
LEMMA CallsStayOK ==
  ASSUME LinInv, NEW c \in Clients, NEW new, call' = [call EXCEPT ![c] = new], CallOK(new)
  PROVE  CallsOK'
<1>1. call \in [Clients -> CallType] /\ \A d \in Clients : CallOK(call[d])
  BY DEF LinInv, CallsOK, Inv, ShardedTypeOK
<1>2. \A d \in Clients : call'[d] = IF d = c THEN new ELSE call[d]
  BY <1>1
<1>3. \A d \in Clients : CallOK(call'[d])
  BY <1>1, <1>2
<1> QED
  BY <1>3 DEF CallsOK

LEMMA BeginLin ==
  ASSUME LinInv, NEW c \in Clients, Begin(c), lin' = [k \in Keys |-> LinBegin(c, k)]
  PROVE  KeysGood' /\ CallsOK'
<1>1. PICK new : AskForm(c, new)
  BY BeginAsks
<1>2. /\ new \in CallType /\ CallOK(new) /\ call' = [call EXCEPT ![c] = new] /\ trees' = trees
      /\ \A s \in Shards : new.ptr[s] \in {0, Len(trees[s])}
      /\ \A s \in Shards : call[c].ptr[s] = 0
  BY <1>1, SMTT(30) DEF AskForm, NoPointers
<1>3. \A s \in Shards :
        \/ call[c].ptr[s] = 0 /\ new.ptr[s] = Len(trees[s])
        \/ new.ptr[s] = call[c].ptr[s] /\ (new.ptr[s] = 0 \/ new.jobs[s] = call[c].jobs[s])
  BY <1>2
<1>4. KeysGood'
  BY <1>2, <1>3, AskStep, Zenon
<1>5. CallsOK'
  BY <1>2, CallsStayOK, Zenon
<1> QED
  BY <1>4, <1>5, SMTT(30)

LEMMA ReadPointerLin ==
  ASSUME LinInv, NEW c \in Clients, NEW s \in Shards, ReadPointer(c, s),
         lin' = [k \in Keys |-> LinBegin(c, k)]
  PROVE  KeysGood' /\ CallsOK'
<1> DEFINE r == call[c]
           ptr == [r.ptr EXCEPT ![s] = Len(trees[s])]
           new == [r EXCEPT !.ptr = ptr]
<1>1. /\ ShardedTypeOK /\ r \in CallType /\ r.ptr \in [Shards -> Nat] /\ r.jobs \in [Shards -> Seq(Jobs)]
      /\ CallOK(r)
  BY Zenon DEF LinInv, CallsOK, Inv, ShardedTypeOK, CallType
<1>2. /\ ptr \in [Shards -> Nat] /\ ptr[s] = Len(trees[s])
      /\ \A t \in Shards : t # s => ptr[t] = r.ptr[t]
  BY <1>1 DEF ShardedTypeOK
<1>3. /\ call' = [call EXCEPT ![c] = new] /\ trees' = trees
      /\ r.ptr[s] = 0 /\ r.jobs[s] # <<>> /\ MayRead(r, s)
  BY DEF ReadPointer
<1> HIDE DEF ptr, r
<1>4. new \in CallType /\ new.op = r.op /\ new.jobs = r.jobs /\ new.rest = r.rest /\ new.ptr = ptr
  BY <1>1, <1>2, ZenonT(30) DEF CallType
<1> HIDE DEF new
<1>5. \A t \in Shards :
        \/ call[c].ptr[t] = 0 /\ new.ptr[t] = Len(trees[t])
        \/ new.ptr[t] = call[c].ptr[t] /\ (new.ptr[t] = 0 \/ new.jobs[t] = call[c].jobs[t])
  BY <1>2, <1>3, <1>4, SMTT(30) DEF r
<1>6. r.jobs # NoJobs /\ r.op # "none"
  BY <1>1, <1>3 DEF MayRead, NoJobs
<1>7. ASSUME r.op = "forEach", NEW u \in Shards, NEW t \in Shards, t < u, new.ptr[u] # 0
      PROVE  r.jobs[t] = <<>>
  <2>1. CASE u = s
    <3>1. \A v \in 1 .. s - 1 : r.jobs[v] = <<>>
      BY <1>3, <1>7, SMTT(30) DEF MayRead
    <3>2. t \in 1 .. s - 1
      BY <1>7, <2>1, ShardedAssumption, SMTT(30) DEF Shards
    <3> QED
      BY <3>1, <3>2, SMTT(30)
  <2>2. CASE u # s
    BY <1>1, <1>2, <1>4, <1>7, <2>2, ZenonT(30) DEF CallOK
  <2> QED
    BY <2>1, <2>2, SMTT(30)
<1>8. CallOK(new)
  BY <1>1, <1>4, <1>6, <1>7, ZenonT(30) DEF CallOK
<1>9. KeysGood'
  BY <1>3, <1>4, <1>5, AskStep, ZenonT(30)
<1>10. CallsOK'
  BY <1>3, <1>8, CallsStayOK, Zenon
<1> QED
  BY <1>9, <1>10

\* The end of a lock section: the keys of other shards.
LEMMA OtherKeys ==
  ASSUME LinInv, NEW c \in Clients, NEW new \in CallType, call' = [call EXCEPT ![c] = new],
         NEW k \in Keys, lin'[k] = lin[k], trees'[ShardOf[k]] = trees[ShardOf[k]],
         PendOf(new, ShardOf[k]) = PendOf(call[c], ShardOf[k]),
         new.ptr[ShardOf[k]] = call[c].ptr[ShardOf[k]] \/ PendOf(new, ShardOf[k]) = <<>>
  PROVE  KeyGood(lin'[k], k, trees'[ShardOf[k]], GenOf(call', ShardOf[k]), PendsOf(call', ShardOf[k]))
<1> DEFINE s == ShardOf[k]
           gen == GenOf(call, s)
           pend == PendsOf(call, s)
           next == GenOf(call', s)
           rest == PendsOf(call', s)
<1>1. s \in Shards /\ call \in [Clients -> CallType]
  BY ShardType DEF LinInv, CallsOK, Inv, ShardedTypeOK
<1>2. CallMoves(c, new, s)
  BY <1>1, CallStep, Zenon
<1>3. ShardOK(trees[s], gen, pend) /\ KeyGood(lin[k], k, trees[s], gen, pend)
  BY <1>1, ShardIsOK, Zenon DEF LinInv, CallsOK, KeysGood
<1>4. /\ next = [gen EXCEPT ![c] = new.ptr[s]] /\ rest = [pend EXCEPT ![c] = PendOf(new, s)]
      /\ gen[c] = call[c].ptr[s] /\ pend[c] = PendOf(call[c], s)
  BY <1>2 DEF CallMoves
<1>5. /\ gen \in [Clients -> Nat] /\ pend \in [Clients -> Seq(Jobs)] /\ new.ptr[s] \in Nat
      /\ PendOf(new, s) = pend[c]
      /\ new.ptr[s] = gen[c] \/ pend[c] = <<>>
  BY <1>1, <1>3, <1>4, Zenon DEF ShardOK, Gens, Lefts, CallType
<1>6. lin'[k] = lin[k] /\ trees'[s] = trees[s]
  BY Zenon
<1> HIDE DEF gen, pend, next, rest, s
<1>7. rest = pend
  BY <1>4, <1>5
<1>8. CASE new.ptr[s] = gen[c]
  <2>1. next = gen
    BY <1>4, <1>5, <1>8, SMTT(30)
  <2> QED
    BY <1>3, <1>6, <1>7, <2>1, ZenonT(30) DEF next, rest, s
<1>9. CASE pend[c] = <<>>
  <2>1. KeyGood(lin[k], k, trees[s], next, pend)
    BY <1>3, <1>4, <1>5, <1>9, MoveGood, ZenonT(30)
  <2> QED
    BY <1>6, <1>7, <2>1, SMTT(30) DEF next, rest, s
<1> QED
  BY <1>5, <1>8, <1>9, ZenonT(30)

\* What a lock section on shard s leaves of the call, before Leave.
WorkForm(c, s, r) ==
  /\ r \in CallType /\ r.op = call[c].op /\ r.ptr = call[c].ptr
  /\ r.jobs = [call[c].jobs EXCEPT ![s] = Tail(call[c].jobs[s])]
  /\ call' = [call EXCEPT ![c] = Leave(r)]

LEMMA WorkLeaves ==
  ASSUME Inv, NEW c \in Clients, NEW s \in Shards, Work(c, s)
  PROVE  \E r : WorkForm(c, s, r)
<1> DEFINE found == {k \in Job(c, s).keys : call[c].op = "deleteRange" /\ Tree(c, s)[k] # NoValue}
           jobs == [call[c].jobs EXCEPT ![s] = Tail(call[c].jobs[s])]
           r == [call[c] EXCEPT !.jobs = jobs, !.rest = call[c].rest \union found]
<1>1. call[c] \in CallType
  BY DEF Inv, ShardedTypeOK
<1>2. call[c].jobs[s] # <<>> /\ call' = [call EXCEPT ![c] = Leave(r)]
  BY DEF Work, Ready
<1>3. call[c].jobs \in [Shards -> Seq(Jobs)] /\ call[c].jobs[s] \in Seq(Jobs)
  BY <1>1 DEF CallType
<1>4. Job(c, s) \in Jobs /\ Tail(call[c].jobs[s]) \in Seq(Jobs)
  BY <1>2, <1>3, HeadTail, SMTT(30) DEF Job
<1>5. jobs \in [Shards -> Seq(Jobs)] /\ found \subseteq Keys
  BY <1>3, <1>4, Zenon DEF Jobs
<1>6. jobs = [call[c].jobs EXCEPT ![s] = Tail(call[c].jobs[s])]
  OBVIOUS
<1> HIDE DEF jobs, found
<1>7. r \in CallType /\ r.op = call[c].op /\ r.jobs = jobs /\ r.ptr = call[c].ptr
  BY <1>1, <1>5, ZenonT(30) DEF CallType
<1> HIDE DEF r
<1>8. WorkForm(c, s, r)
  BY <1>2, <1>6, <1>7, SMTT(30) DEF WorkForm
<1> QED
  BY <1>8

LEMMA WorkCallOK ==
  ASSUME LinInv, NEW c \in Clients, NEW s \in Shards, call[c].jobs[s] # <<>>, NEW r, WorkForm(c, s, r)
  PROVE  CallsOK'
<1>1. /\ r \in CallType /\ r.op = call[c].op /\ r.ptr = call[c].ptr
      /\ r.jobs = [call[c].jobs EXCEPT ![s] = Tail(call[c].jobs[s])]
      /\ call' = [call EXCEPT ![c] = Leave(r)]
  BY DEF WorkForm
<1>2. call[c].jobs \in [Shards -> Seq(Jobs)] /\ CallOK(call[c])
  BY DEF LinInv, CallsOK, Inv, ShardedTypeOK, CallType
<1>3. /\ r.jobs[s] = Tail(call[c].jobs[s])
      /\ \A t \in Shards : t # s => r.jobs[t] = call[c].jobs[t]
  BY <1>1, <1>2
<1>4. CASE r.jobs = NoJobs
  <2>1. CallOK(Leave(r))
    BY <1>1, <1>4, LeavePend, SMTT(30)
  <2> QED
    BY <1>1, <2>1, CallsStayOK, ZenonT(30)
<1>5. CASE r.jobs # NoJobs
  <2>1. Leave(r) = r
    BY <1>5, SMTT(30) DEF Leave
  <2>2. r.op # "none"
    BY <1>1, <1>2, SMTT(30) DEF CallOK, NoJobs
  <2>3. ASSUME r.op = "forEach"
        PROVE  r.jobs[s] = <<>>
    <3>1. call[c].jobs[s] = <<ReadJob(KeysOf(s))>>
      BY <1>1, <1>2, <2>3, SMTT(30) DEF CallOK
    <3> QED
      BY <1>3, <3>1, SMTT(30)
  <2>4. ASSUME r.op = "forEach", NEW t \in Shards
        PROVE  r.jobs[t] \in {<<>>, <<ReadJob(KeysOf(t))>>}
    <3>1. call[c].jobs[t] \in {<<>>, <<ReadJob(KeysOf(t))>>}
      BY <1>1, <1>2, <2>4, SMTT(30) DEF CallOK
    <3> QED
      BY <1>3, <2>3, <2>4, <3>1, ZenonT(30)
  <2>5. ASSUME r.op = "forEach", NEW u \in Shards, NEW t \in Shards, t < u, r.ptr[u] # 0
        PROVE  r.jobs[t] = <<>>
    <3>1. call[c].jobs[t] = <<>>
      BY <1>1, <1>2, <2>5, SMTT(30) DEF CallOK
    <3> QED
      BY <1>3, <2>3, <2>5, <3>1, SMTT(30)
  <2>6. CallOK(r)
    BY <1>5, <2>2, <2>4, <2>5, SMTT(30) DEF CallOK
  <2> QED
    BY <1>1, <2>1, <2>6, CallsStayOK, ZenonT(30)
<1> QED
  BY <1>4, <1>5, SMTT(30)

LEMMA WorkLin ==
  ASSUME LinInv, NEW c \in Clients, NEW s \in Shards, Work(c, s),
         lin' = [k \in Keys |-> LinWork(c, s, k)]
  PROVE  KeysGood' /\ CallsOK'
<1> DEFINE p == call[c].ptr[s]
           q == call[c].jobs[s]
<1>1. Inv /\ call \in [Clients -> CallType] /\ trees \in [Shards -> Seq(Contents)]
  BY DEF LinInv, CallsOK, Inv, ShardedTypeOK
<1>2. PICK r : WorkForm(c, s, r)
  BY <1>1, WorkLeaves, SMTT(30)
<1>3. /\ r \in CallType /\ r.op = call[c].op /\ r.ptr = call[c].ptr
      /\ r.jobs = [call[c].jobs EXCEPT ![s] = Tail(q)]
      /\ call' = [call EXCEPT ![c] = Leave(r)]
  BY <1>2, SMTT(30) DEF WorkForm
<1>4. /\ q # <<>> /\ p # 0
      /\ trees' = [trees EXCEPT ![s] = [trees[s] EXCEPT ![p] = Effect(Head(q), trees[s][p])]]
  BY DEF Work, Ready, Job
<1>5. /\ call[c].jobs \in [Shards -> Seq(Jobs)] /\ q \in Seq(Jobs)
  BY <1>1, SMTT(30) DEF CallType
<1>6. /\ trees'[s] = [trees[s] EXCEPT ![p] = Effect(Head(q), trees[s][p])]
      /\ \A t \in Shards : t # s => trees'[t] = trees[t]
  BY <1>1, <1>4, SMTT(30)
<1>7. r.jobs[s] = Tail(q) /\ \A t \in Shards : t # s => r.jobs[t] = call[c].jobs[t]
  BY <1>3, <1>5, SMTT(30)
<1> DEFINE new == Leave(r)
<1>8. /\ new \in CallType
      /\ \A t \in Shards : PendOf(new, t) = PendOf(r, t)
      /\ new = r \/ \A t \in Shards : r.jobs[t] = <<>>
  BY <1>3, LeavePend, LeaveKeeps, ZenonT(30)
<1>9. call' = [call EXCEPT ![c] = new]
  BY <1>3, SMTT(30)
<1>10. CallsOK'
  BY <1>2, <1>4, WorkCallOK, SMTT(30)
<1> HIDE DEF new
<1>11. PendOf(new, s) = Tail(q) /\ PendOf(call[c], s) = q
  BY <1>3, <1>4, <1>7, <1>8, SMTT(30) DEF PendOf
<1>12. ASSUME NEW k \in Keys, ShardOf[k] # s
       PROVE  KeyGood(lin'[k], k, trees'[ShardOf[k]], GenOf(call', ShardOf[k]), PendsOf(call', ShardOf[k]))
  <2>1. ShardOf[k] \in Shards
    BY ShardType, SMTT(30)
  <2>2. lin'[k] = lin[k] /\ trees'[ShardOf[k]] = trees[ShardOf[k]]
    BY <1>6, <1>12, <2>1, SMTT(30) DEF LinWork, KeysOf
  <2>3. /\ PendOf(new, ShardOf[k]) = PendOf(call[c], ShardOf[k])
        /\ new.ptr[ShardOf[k]] = call[c].ptr[ShardOf[k]] \/ PendOf(new, ShardOf[k]) = <<>>
    BY <1>3, <1>7, <1>8, <1>12, <2>1, SMTT(30) DEF PendOf
  <2> QED
    BY <1>8, <1>9, <2>2, <2>3, OtherKeys, ZenonT(30)
<1>13. ASSUME NEW k \in Keys, ShardOf[k] = s
       PROVE  KeyGood(lin'[k], k, trees'[s], GenOf(call', s), PendsOf(call', s))
  <2> DEFINE gen == GenOf(call, s)
             pend == PendsOf(call, s)
             next == GenOf(call', s)
             rest == PendsOf(call', s)
             us == trees'[s]
  <2>1. ShardOK(trees[s], gen, pend) /\ KeyGood(lin[k], k, trees[s], gen, pend)
    BY <1>1, <1>13, ShardIsOK, SMTT(30) DEF LinInv, CallsOK, KeysGood
  <2>2. CallMoves(c, new, s)
    BY <1>1, <1>9, CallStep, ZenonT(30)
  <2>3. /\ next = [gen EXCEPT ![c] = new.ptr[s]] /\ rest = [pend EXCEPT ![c] = Tail(q)]
        /\ gen[c] = p /\ pend[c] = q
    BY <1>11, <2>2, SMTT(30) DEF CallMoves
  <2>4. lin'[k] = Answered(lin[k], c, Says(Head(q), k, trees[s][p][k]), Len(Tail(q)))
    BY <1>13, SMTT(30) DEF LinWork, KeysOf, Job, Tree
  <2>5. new.ptr[s] \in Nat /\ (Tail(q) = <<>> \/ new.ptr[s] = p)
    BY <1>3, <1>7, <1>8, SMTT(30) DEF CallType
  <2>6. us = [trees[s] EXCEPT ![p] = Effect(Head(q), trees[s][p])]
    BY <1>6, SMTT(30)
  <2> HIDE DEF gen, pend, next, rest, us, p, q
  <2>7. us = [trees[s] EXCEPT ![gen[c]] = Effect(Head(pend[c]), trees[s][gen[c]])]
    BY <2>3, <2>6, SMTT(30)
  <2>8. rest = [pend EXCEPT ![c] = Tail(pend[c])] /\ pend[c] # <<>> /\ (Tail(pend[c]) = <<>> \/ new.ptr[s] = gen[c])
    BY <1>4, <2>3, <2>5, SMTT(30)
  <2>9. KeyGood(Answered(lin[k], c, Says(Head(pend[c]), k, trees[s][gen[c]][k]), Len(Tail(pend[c]))), k, us, next, rest)
    BY <2>1, <2>3, <2>5, <2>7, <2>8, WorkGood, ZenonT(30)
  <2>10. KeyGood(lin'[k], k, us, next, rest)
    BY <2>3, <2>4, <2>9, SMTT(30)
  <2> QED
    BY <2>10, SMTT(30) DEF us, next, rest
<1>14. KeysGood'
  BY <1>12, <1>13, SMTT(30) DEF KeysGood
<1> QED
  BY <1>10, <1>14, SMTT(30)

\* Reading changes no Btree.
LEMMA ReadEffect ==
  ASSUME NEW ts \in Seq(Contents), NEW p \in 1 .. Len(ts), NEW job \in Jobs, job.do = "read"
  PROVE  ts = [ts EXCEPT ![p] = Effect(job, ts[p])]
<1>1. ts[p] \in Contents
  OBVIOUS
<1>2. Effect(job, ts[p]) \in Contents /\ \A k \in Keys : Effect(job, ts[p])[k] = ts[p][k]
  BY <1>1, EffectType, SMTT(30)
<1>3. Effect(job, ts[p]) = ts[p]
  BY <1>1, <1>2, SMTT(30) DEF Contents
<1> QED
  BY <1>3

LEMMA StopForEachLin ==
  ASSUME LinInv, NEW c \in Clients, NEW s \in Shards, NEW last \in Keys, StopForEach(c, s, last),
         lin' = [k \in Keys |-> LinStop(c, s, k, last)]
  PROVE  KeysGood' /\ CallsOK'
<1> DEFINE p == call[c].ptr[s]
           job == ReadJob(KeysOf(s))
<1>1. Inv /\ call \in [Clients -> CallType] /\ trees \in [Shards -> Seq(Contents)] /\ CallOK(call[c])
  BY DEF LinInv, CallsOK, Inv, ShardedTypeOK
<1>2. /\ call[c].op = "forEach" /\ p # 0 /\ call[c].jobs[s] # <<>>
      /\ call' = [call EXCEPT ![c] = Idle] /\ trees' = trees
  BY SMTT(30) DEF StopForEach, Ready
<1>3. call[c].jobs[s] = <<job>>
  BY <1>1, <1>2, SMTT(30) DEF CallOK
<1>4. job \in Jobs /\ job.do = "read" /\ job.keys = KeysOf(s)
  BY JobTypes, SMTT(30) DEF ReadJob, KeysOf
<1>5. Idle \in CallType /\ \A t \in Shards : Idle.ptr[t] = 0 /\ PendOf(Idle, t) = <<>>
  BY IdleType, SMTT(30) DEF NoPointers, PendOf
<1>6. CallOK(Idle)
  <2>1. Idle.op = "none" /\ Idle.jobs = NoJobs /\ Idle.ptr = NoPointers
    BY DEF Idle, NewCall
  <2> QED
    BY <2>1, SMTT(30) DEF CallOK
<1>7. CallsOK'
  BY <1>2, <1>6, CallsStayOK, ZenonT(30)
<1>8. p \in Nat /\ p \in 1 .. Len(trees[s]) /\ trees[s] \in Seq(Contents)
  BY <1>1, <1>2, SMTT(30) DEF Inv, ShardedTypeOK, CallType
<1>9. ASSUME NEW k \in Keys, ShardOf[k] # s
       PROVE  KeyGood(lin'[k], k, trees'[ShardOf[k]], GenOf(call', ShardOf[k]), PendsOf(call', ShardOf[k]))
  <2> DEFINE t == ShardOf[k]
  <2>1. t \in Shards /\ t # s
    BY <1>9, ShardType, SMTT(30)
  <2>2. lin'[k] = lin[k] /\ trees'[t] = trees[t]
    BY <1>2, <1>9, SMTT(30) DEF LinStop, KeysOf, Visited
  <2>3. PendOf(call[c], t) = <<>>
    <3>1. CASE t < s
      BY <1>1, <1>2, <2>1, <3>1, SMTT(30) DEF CallOK, PendOf
    <3>2. CASE s < t
      BY <1>1, <1>2, <2>1, <3>2, SMTT(30) DEF CallOK, PendOf
    <3> QED
      BY <2>1, <3>1, <3>2, ShardedAssumption, SMTT(30) DEF Shards
  <2> QED
    BY <1>2, <1>5, <2>1, <2>2, <2>3, OtherKeys, ZenonT(30)
<1>10. ASSUME NEW k \in Keys, ShardOf[k] = s
       PROVE  KeyGood(lin'[k], k, trees'[s], GenOf(call', s), PendsOf(call', s))
  <2> DEFINE gen == GenOf(call, s)
             pend == PendsOf(call, s)
             next == GenOf(call', s)
             rest == PendsOf(call', s)
             ts == trees[s]
  <2>1. ShardOK(ts, gen, pend) /\ KeyGood(lin[k], k, ts, gen, pend)
    BY <1>1, <1>10, ShardIsOK, SMTT(30) DEF LinInv, CallsOK, KeysGood
  <2>2. CallMoves(c, Idle, s)
    BY <1>1, <1>2, CallStep, ZenonT(30)
  <2>3. PendOf(call[c], s) = <<job>>
    BY <1>2, <1>3, SMTT(30) DEF PendOf
  <2>4. /\ next = [gen EXCEPT ![c] = 0] /\ rest = [pend EXCEPT ![c] = <<>>]
        /\ gen[c] = p /\ pend[c] = <<job>>
    BY <1>5, <2>2, <2>3, ZenonT(30) DEF CallMoves
  <2>5. /\ k \in KeysOf(s) /\ trees'[s] = ts
        /\ lin'[k] = IF k \in Visited(s, last) THEN Answered(lin[k], c, ts[p][k], 0) ELSE GivesUp(lin[k], c)
    BY <1>2, <1>10, SMTT(30) DEF LinStop, KeysOf, Tree
  <2>6. ts = [ts EXCEPT ![p] = Effect(job, ts[p])]
    BY <1>4, <1>8, ReadEffect, SMTT(30)
  <2>7. Says(job, k, ts[p][k]) = ts[p][k]
    BY <1>4, <2>5, SMTT(30) DEF Says, Answer
  <2> HIDE DEF gen, pend, next, rest, ts, p, job
  <2>8. CASE k \in Visited(s, last)
    <3>1. Head(pend[c]) = job /\ Tail(pend[c]) = <<>> /\ Len(Tail(pend[c])) = 0 /\ pend[c] # <<>>
      BY <2>4
    <3>2. rest = [pend EXCEPT ![c] = Tail(pend[c])] /\ 0 \in Nat
      BY <2>4, <3>1, SMTT(30)
    <3>3. ts = [ts EXCEPT ![gen[c]] = Effect(Head(pend[c]), ts[gen[c]])]
      BY <2>4, <2>6, <3>1, SMTT(30)
    <3>4. KeyGood(Answered(lin[k], c, Says(Head(pend[c]), k, ts[gen[c]][k]), Len(Tail(pend[c]))), k, ts, next, rest)
      BY <2>1, <2>4, <3>1, <3>2, <3>3, WorkGood, ZenonT(30)
    <3>5. KeyGood(lin'[k], k, ts, next, rest)
      BY <2>4, <2>5, <2>7, <2>8, <3>1, <3>4, SMTT(30)
    <3> QED
      BY <2>5, <3>5, SMTT(30) DEF next, rest
  <2>9. CASE k \notin Visited(s, last)
    <3>1. KeyGood(GivesUp(lin[k], c), k, ts, next, rest)
      BY <1>4, <2>1, <2>4, GiveUpGood, ZenonT(30)
    <3> QED
      BY <2>5, <2>9, <3>1, SMTT(30) DEF next, rest
  <2> QED
    BY <2>8, <2>9, SMTT(30)
<1>11. KeysGood'
  BY <1>9, <1>10, SMTT(30) DEF KeysGood
<1> QED
  BY <1>7, <1>11, SMTT(30)

LEMMA ReplaceLin ==
  ASSUME LinInv, NEW c \in Clients, NEW s \in Shards, Replace(c, s),
         lin' = [k \in Keys |-> LinReplace(c, s, k)]
  PROVE  KeysGood' /\ CallsOK'
<1> DEFINE jobs == [call[c].jobs EXCEPT ![s] = <<>>]
           r == [call[c] EXCEPT !.jobs = jobs]
           new == Leave(r)
<1>1. /\ Inv /\ call \in [Clients -> CallType] /\ trees \in [Shards -> Seq(Contents)] /\ CallOK(call[c])
      /\ call[c] \in CallType
  BY DEF LinInv, CallsOK, Inv, ShardedTypeOK
<1>2. /\ call[c].op = "clear" /\ trees' = [trees EXCEPT ![s] = Append(trees[s], EmptyTree)]
      /\ call' = [call EXCEPT ![c] = new]
  BY SMTT(30) DEF Replace
<1>3. jobs \in [Shards -> Seq(Jobs)]
  BY <1>1 DEF CallType
<1> HIDE DEF jobs
<1>4. r \in CallType /\ r.op = "clear" /\ r.jobs = jobs /\ r.ptr = call[c].ptr
  BY <1>1, <1>2, <1>3, ZenonT(30) DEF CallType
<1>5. call[c].ptr = NoPointers
  BY <1>1, <1>2, SMTT(30) DEF Inv, SweepInv
<1> HIDE DEF r
<1>6. new \in CallType /\ new.ptr = NoPointers /\ \A t \in Shards : PendOf(new, t) = <<>>
  BY <1>4, <1>5, LeaveKeeps, SMTT(30) DEF PendOf, NoPointers
<1>7. CallOK(new)
  <2>1. CASE r.jobs = NoJobs
    BY <1>4, <2>1, LeavePend, SMTT(30)
  <2>2. CASE r.jobs # NoJobs
    <3>1. new = r
      BY <2>2 DEF Leave
    <3> QED
      BY <1>4, <2>2, <3>1, SMTT(30) DEF CallOK
  <2> QED
    BY <2>1, <2>2, SMTT(30)
<1>8. CallsOK'
  BY <1>2, <1>7, CallsStayOK, ZenonT(30)
<1> HIDE DEF new
<1>9. /\ trees'[s] = Append(trees[s], EmptyTree)
      /\ \A t \in Shards : t # s => trees'[t] = trees[t]
  BY <1>1, <1>2, SMTT(30)
<1>10. \A t \in Shards : PendOf(call[c], t) = <<>> /\ new.ptr[t] = call[c].ptr[t] /\ call[c].ptr[t] = 0
  BY <1>5, <1>6, SMTT(30) DEF PendOf, NoPointers
<1>11. ASSUME NEW k \in Keys, ShardOf[k] # s
       PROVE  KeyGood(lin'[k], k, trees'[ShardOf[k]], GenOf(call', ShardOf[k]), PendsOf(call', ShardOf[k]))
  <2>1. ShardOf[k] \in Shards
    BY ShardType
  <2>2. lin'[k] = lin[k] /\ trees'[ShardOf[k]] = trees[ShardOf[k]]
    BY <1>9, <1>11, <2>1, SMTT(30) DEF LinReplace, KeysOf
  <2> QED
    BY <1>2, <1>6, <1>10, <2>1, <2>2, OtherKeys, ZenonT(30)
<1>12. ASSUME NEW k \in Keys, ShardOf[k] = s
       PROVE  KeyGood(lin'[k], k, trees'[s], GenOf(call', s), PendsOf(call', s))
  <2> DEFINE gen == GenOf(call, s)
             pend == PendsOf(call, s)
             next == GenOf(call', s)
             rest == PendsOf(call', s)
             ts == trees[s]
  <2>1. ShardOK(ts, gen, pend) /\ KeyGood(lin[k], k, ts, gen, pend)
    BY <1>1, <1>12, ShardIsOK, SMTT(30) DEF LinInv, CallsOK, KeysGood
  <2>2. CallMoves(c, new, s)
    BY <1>1, <1>2, CallStep, ZenonT(30)
  <2>3. /\ next = [gen EXCEPT ![c] = 0] /\ rest = [pend EXCEPT ![c] = <<>>]
        /\ gen[c] = 0 /\ pend[c] = <<>>
    BY <1>6, <1>10, <2>2, ZenonT(30) DEF CallMoves
  <2>4. gen \in [Clients -> Nat] /\ pend \in [Clients -> Seq(Jobs)]
    BY <2>1, SMTT(30) DEF ShardOK, Gens, Lefts
  <2>5. lin'[k] = Answered(Asks(lin[k], c, <<ReplaceJob>>, k), c, "ok", 0) /\ trees'[s] = Append(ts, EmptyTree)
    BY <1>9, <1>12, SMTT(30) DEF LinReplace, KeysOf
  <2> HIDE DEF gen, pend, next, rest, ts
  <2>6. next = gen /\ rest = pend
    BY <2>3, <2>4, SMTT(30)
  <2>7. KeyGood(Answered(Asks(lin[k], c, <<ReplaceJob>>, k), c, "ok", 0), k, Append(ts, EmptyTree), gen, pend)
    BY <2>1, <2>3, ReplaceGood, SMTT(30)
  <2> QED
    BY <2>5, <2>6, <2>7, SMTT(30) DEF next, rest
<1>13. KeysGood'
  BY <1>11, <1>12 DEF KeysGood
<1> QED
  BY <1>8, <1>13

-----------------------------------------------------------------------------
LEMMA LinInitInv == LinInit => LinInv
<1> SUFFICES ASSUME LinInit PROVE LinInv
  OBVIOUS
<1>1. Inv
  BY InvInit DEF LinInit
<1>2. /\ \A c \in Clients : call[c] = Idle
      /\ \A s \in Shards : trees[s] = <<EmptyTree>>
      /\ \A k \in Keys : lin[k] = {Untouched}
  BY DEF LinInit, Init
<1>3. Idle.op = "none" /\ Idle.jobs = NoJobs /\ Idle.ptr = NoPointers
  BY DEF Idle, NewCall
<1>4. CallsOK
  BY <1>2, <1>3, SMTT(30) DEF CallsOK, CallOK
<1>5. ASSUME NEW k \in Keys
      PROVE  KeyGood(lin[k], k, trees[ShardOf[k]], GenOf(call, ShardOf[k]), PendsOf(call, ShardOf[k]))
  <2>1. ShardOf[k] \in Shards
    BY ShardType, SMTT(30)
  <2>2. Idle.ptr[ShardOf[k]] = 0
    BY <1>3, <2>1, SMTT(30) DEF NoPointers
  <2>3. GenOf(call, ShardOf[k]) = [c \in Clients |-> 0] /\ PendsOf(call, ShardOf[k]) = NoLeft
    BY <1>2, <2>2, SMTT(30) DEF GenOf, PendsOf, PendOf, NoLeft
  <2> QED
    BY <1>2, <2>1, <2>3, InitGood, SMTT(30)
<1>6. KeysGood
  BY <1>5 DEF KeysGood
<1> QED
  BY <1>1, <1>4, <1>6, SMTT(30) DEF LinInv

LEMMA LinNextInv == LinInv /\ [LinNext]_linVars => LinInv'
<1> SUFFICES ASSUME LinInv, [LinNext]_linVars PROVE LinInv'
  OBVIOUS
<1>1. CASE UNCHANGED linVars
  <2>1. UNCHANGED <<trees, call, doomed, lin>>
    BY <1>1, SMTT(30) DEF linVars, vars
  <2>2. Inv'
    BY <2>1, InvNext, SMTT(30) DEF LinInv, vars
  <2>3. CallsOK'
    BY <2>1, SMTT(30) DEF LinInv, CallsOK
  <2>4. KeysGood'
    BY <2>1 DEF LinInv, KeysGood
  <2> QED
    BY <2>2, <2>3, <2>4, SMTT(30) DEF LinInv
<1>2. CASE LinNext
  <2>1. Inv'
    <3>1. Next
      BY <1>2, SMTT(30) DEF LinNext, Next
    <3> QED
      BY <3>1, InvNext, SMTT(30) DEF LinInv
  <2>2. KeysGood' /\ CallsOK'
    BY <1>2, BeginLin, ReadPointerLin, WorkLin, ReplaceLin, StopForEachLin, SMTT(30) DEF LinNext
  <2> QED
    BY <2>1, <2>2 DEF LinInv
<1> QED
  BY <1>1, <1>2, SMTT(30)

\* The sharded tree is linearizable, key by key: the answers that Insert, Find,
\* Delete, GetRange, DeleteRange, BulkInsert, Count, ForEach and Clear give
\* about a key are those of one order of their lock sections that respects
\* which of them ended before which began.  It holds for every number of
\* shards and of goroutines, although Clear replaces the pointers under calls
\* that go on working on Btrees nobody else will see.
THEOREM KeysLinearizable == LinSpec => []KeyLinearizable
<1>1. LinInv => KeyLinearizable
  <2> SUFFICES ASSUME LinInv, NEW k \in Keys PROVE lin[k] # {}
    BY SMTT(30) DEF KeyLinearizable
  <2> DEFINE s == ShardOf[k]
             gen == GenOf(call, s)
             pend == PendsOf(call, s)
             ts == trees[s]
  <2>1. ShardOK(ts, gen, pend) /\ KeyGood(lin[k], k, ts, gen, pend)
    BY ShardType, ShardIsOK, SMTT(30) DEF LinInv, KeysGood
  <2> HIDE DEF s, gen, pend, ts
  <2>2. PICK base \in [Clients -> Answers] :
          Covers(lin[k], k, ts[Len(ts)][k], LiveLeft(ts, gen, pend), OldState(ts, gen, pend, k, base), gen)
    BY <2>1 DEF KeyGood
  <2>3. OldState(ts, gen, pend, k, base) \in OldStates /\ gen \in Gens
    BY <2>1, OldStateType, Zenon DEF ShardOK
  <2> QED
    BY <2>2, <2>3, CoversSome, SMTT(30)
<1> QED
  BY <1>1, LinInitInv, LinNextInv, PTL DEF LinSpec

=============================================================================
