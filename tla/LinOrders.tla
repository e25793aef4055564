------------------------------ MODULE LinOrders ------------------------------
(***************************************************************************)
(* The orders that the observer of ShardedLin keeps for one key: what they *)
(* become when an operation begins, takes effect, is answered or given up, *)
(* while other goroutines are left on Btrees that are out of the array.    *)
(***************************************************************************)
EXTENDS ShardedLin, Induction, FiniteSetTheorems

Stores  == Values \union {NoValue}
Answers == Stores \union {"ok", "missing", "deleted", "none"}
Lefts   == [Clients -> Seq(Jobs)]

Configs == [val : Stores, left : Lefts, res : [Clients -> Answers]]

\* The operations left, one element for each.
Slots(left) == UNION {{<<c, i>> : i \in 1 .. Len(left[c])} : c \in Clients}

\* X has with a configuration those after one more operation.
Closed(X, k) ==
  \A x \in X, c \in Clients : x.left[c] # <<>> => TakeEffect(x, c, k) \in X

-----------------------------------------------------------------------------
\* The effect and the answer of a lock section are of the right type.
LEMMA DoesType ==
  ASSUME NEW job \in Jobs, NEW k, NEW v \in Stores
  PROVE  Does(job, k, v) \in Stores /\ Says(job, k, v) \in Answers
<1>1. job.do \in {"insert", "delete", "read", "replace"} /\ job.value \in Stores
  BY DEF Jobs, Stores
<1>2. After(job, v) \in Stores
  BY <1>1 DEF After, Stores
<1>3. Answer(job, v) \in Answers
  BY <1>1 DEF Answer, Answers, Stores
<1> QED
  BY <1>2, <1>3 DEF Does, Says, Answers

LEMMA HeadTail ==
  ASSUME NEW q \in Seq(Jobs), q # <<>>
  PROVE  /\ Head(q) \in Jobs /\ Tail(q) \in Seq(Jobs)
         /\ Len(Tail(q)) = Len(q) - 1 /\ Len(q) \in Nat /\ Len(q) > 0
OBVIOUS

LEMMA TakeEffectType ==
  ASSUME NEW x \in Configs, NEW c \in Clients, NEW k, x.left[c] # <<>>
  PROVE  /\ TakeEffect(x, c, k) \in Configs
         /\ TakeEffect(x, c, k).left = [x.left EXCEPT ![c] = Tail(x.left[c])]
<1> DEFINE job == Head(x.left[c])
<1>1. x.left \in Lefts /\ x.res \in [Clients -> Answers] /\ x.val \in Stores
  BY DEF Configs
<1>2. x.left[c] \in Seq(Jobs)
  BY <1>1 DEF Lefts
<1>3. job \in Jobs /\ Tail(x.left[c]) \in Seq(Jobs)
  BY <1>2, HeadTail
<1> HIDE DEF job
<1>4. Does(job, k, x.val) \in Stores /\ Says(job, k, x.val) \in Answers
  BY <1>1, <1>3, DoesType
<1>5. /\ [x.left EXCEPT ![c] = Tail(x.left[c])] \in Lefts
      /\ [x.res EXCEPT ![c] = Says(job, k, x.val)] \in [Clients -> Answers]
  BY <1>1, <1>3, <1>4 DEF Lefts
<1>6. TakeEffect(x, c, k) =
        [val |-> Does(job, k, x.val), left |-> [x.left EXCEPT ![c] = Tail(x.left[c])],
         res |-> [x.res EXCEPT ![c] = Says(job, k, x.val)]]
  BY DEF TakeEffect, job
<1> QED
  BY <1>4, <1>5, <1>6 DEF Configs

-----------------------------------------------------------------------------
\* Finitely many operations are left, and one less after each.
LEMMA SlotsFinite ==
  ASSUME NEW left \in Lefts
  PROVE  IsFiniteSet(Slots(left)) /\ Cardinality(Slots(left)) \in Nat
<1> DEFINE Of(c) == {<<c, i>> : i \in 1 .. Len(left[c])}
           All == {Of(c) : c \in Clients}
<1>1. ASSUME NEW c \in Clients
      PROVE  IsFiniteSet(Of(c))
  <2> DEFINE pair == [i \in 1 .. Len(left[c]) |-> <<c, i>>]
  <2>1. Len(left[c]) \in Nat
    BY DEF Lefts
  <2>2. IsFiniteSet(1 .. Len(left[c]))
    BY <2>1, FS_Interval
  <2>3. pair \in Surjection(1 .. Len(left[c]), Of(c))
    BY Zenon DEF Surjection
  <2> HIDE DEF pair, Of
  <2> QED
    BY <2>2, <2>3, FS_Surjection
<1> DEFINE of == [c \in Clients |-> Of(c)]
<1>2. of \in Surjection(Clients, All)
  BY Zenon DEF Surjection
<1>3. IsFiniteSet(All)
  <2> HIDE DEF of, All
  <2> QED
    BY <1>2, LinAssumption, FS_Surjection
<1>4. \A T \in All : IsFiniteSet(T)
  BY <1>1
<1>5. IsFiniteSet(UNION All)
  <2> HIDE DEF All
  <2> QED
    BY <1>3, <1>4, FS_UNION
<1>6. Slots(left) = UNION All
  BY DEF Slots
<1> HIDE DEF All
<1> QED
  BY <1>5, <1>6, FS_CardinalityType

LEMMA SlotsShrink ==
  ASSUME NEW left \in Lefts, NEW c \in Clients, left[c] # <<>>
  PROVE  Cardinality(Slots(left)) =
           Cardinality(Slots([left EXCEPT ![c] = Tail(left[c])])) + 1
<1> DEFINE new == [left EXCEPT ![c] = Tail(left[c])]
           last == <<c, Len(left[c])>>
<1>1. /\ left[c] \in Seq(Jobs) /\ Len(left[c]) \in Nat /\ Len(left[c]) > 0
      /\ Tail(left[c]) \in Seq(Jobs) /\ Len(Tail(left[c])) = Len(left[c]) - 1
  BY HeadTail DEF Lefts
<1>2. \A d, i : <<d, i>> \in Slots(left) <=> d \in Clients /\ i \in 1 .. Len(left[d])
  BY DEF Slots
<1>3. \A d, i : <<d, i>> \in Slots(new) <=> d \in Clients /\ i \in 1 .. Len(new[d])
  BY DEF Slots
<1>4. new[c] = Tail(left[c]) /\ \A d \in Clients : d # c => new[d] = left[d]
  BY DEF Lefts
<1> HIDE DEF new
<1>5. \A d, i : <<d, i>> \in Slots(new) <=> <<d, i>> \in Slots(left) /\ <<d, i>> # last
  <2> SUFFICES ASSUME NEW d, NEW i
      PROVE <<d, i>> \in Slots(new) <=> <<d, i>> \in Slots(left) /\ <<d, i>> # last
    BY Zenon
  <2>1. CASE d = c
    <3>1. i \in 1 .. Len(new[c]) <=> i \in 1 .. Len(left[c]) /\ i # Len(left[c])
      BY <1>1, <1>4
    <3> QED
      BY <1>2, <1>3, <2>1, <3>1
  <2>2. CASE d # c
    BY <1>2, <1>3, <1>4, <2>2
  <2> QED
    BY <2>1, <2>2
<1>6. /\ \A y \in Slots(new) : \E d, i : y = <<d, i>>
      /\ \A y \in Slots(left) : \E d, i : y = <<d, i>>
  BY DEF Slots
<1>7. Slots(new) = Slots(left) \ {last}
  <2> HIDE DEF last
  <2> QED
    BY <1>5, <1>6
<1>8. last \in Slots(left)
  BY <1>1, <1>2
<1>9. IsFiniteSet(Slots(left)) /\ Cardinality(Slots(left)) \in Nat
  BY SlotsFinite
<1> HIDE DEF last
<1>10. Cardinality(Slots(new)) = Cardinality(Slots(left)) - 1
  <2>1. Cardinality(Slots(left) \ {last}) =
          IF last \in Slots(left) THEN Cardinality(Slots(left)) - 1 ELSE Cardinality(Slots(left))
    BY <1>9, FS_RemoveElement, Zenon
  <2> QED
    BY <1>7, <1>8, <2>1
<1>11. Cardinality(Slots(left)) = Cardinality(Slots(new)) + 1
  BY <1>9, <1>10
<1> QED
  BY <1>11, Zenon DEF new
-----------------------------------------------------------------------------
LEMMA OneMoreElements ==
  ASSUME NEW Y, NEW k
  PROVE  /\ Y \subseteq OneMore(Y, k)
         /\ \A y \in Y, c \in Clients : y.left[c] # <<>> => TakeEffect(y, c, k) \in OneMore(Y, k)
         /\ \A z \in OneMore(Y, k) :
              z \in Y \/ \E y \in Y, c \in Clients : y.left[c] # <<>> /\ z = TakeEffect(y, c, k)
<1>1. ASSUME NEW y \in Y, NEW c \in Clients, y.left[c] # <<>>
      PROVE  TakeEffect(y, c, k) \in OneMore(Y, k)
  <2> DEFINE pairs == {z \in Y \X Clients : z[1].left[z[2]] # <<>>}
  <2>1. <<y, c>> \in pairs /\ <<y, c>>[1] = y /\ <<y, c>>[2] = c
    BY <1>1
  <2>2. \E p \in pairs : TakeEffect(y, c, k) = TakeEffect(p[1], p[2], k)
    BY <2>1
  <2> QED
    BY <2>2 DEF OneMore
<1>2. ASSUME NEW z \in OneMore(Y, k), z \notin Y
      PROVE  \E y \in Y, c \in Clients : y.left[c] # <<>> /\ z = TakeEffect(y, c, k)
  <2>1. PICK p \in {w \in Y \X Clients : w[1].left[w[2]] # <<>>} : z = TakeEffect(p[1], p[2], k)
    BY <1>2 DEF OneMore
  <2> QED
    BY <2>1
<1> QED
  BY <1>1, <1>2 DEF OneMore

\* Closure adds what follows and nothing else: as long as something new is
\* found after n rounds, at least n operations are gone, so as many rounds as
\* there are operations find everything.
LEMMA ClosureCloses ==
  ASSUME NEW X \in SUBSET Configs, NEW k, NEW bound \in Lefts,
         \A x \in X, c \in Clients : Len(x.left[c]) <= Len(bound[c])
  PROVE  /\ X \subseteq Closure(X, k) /\ Closure(X, k) \in SUBSET Configs
         /\ Closed(Closure(X, k), k)
         /\ \A z \in Closure(X, k), c \in Clients : Len(z.left[c]) <= Len(bound[c])
<1> DEFINE Within == {x \in Configs : \A c \in Clients : Len(x.left[c]) <= Len(bound[c])}
           more[n \in Nat] == IF n = 0 THEN X ELSE OneMore(more[n - 1], k)
           pending == UNION {{<<y[2], i>> : i \in DOMAIN y[1].left[y[2]]} : y \in X \X Clients}
           size == Cardinality(pending)
           F == [Y \in SUBSET Within |-> OneMore(Y, k)]
<1>1. ASSUME NEW x \in Within, NEW c \in Clients, x.left[c] # <<>>
      PROVE  TakeEffect(x, c, k) \in Within
  <2>1. x \in Configs /\ x.left \in Lefts /\ \A d \in Clients : Len(x.left[d]) <= Len(bound[d])
    BY DEF Configs
  <2>2. /\ TakeEffect(x, c, k) \in Configs
        /\ TakeEffect(x, c, k).left = [x.left EXCEPT ![c] = Tail(x.left[c])]
    BY <1>1, <2>1, TakeEffectType
  <2>3. /\ Len(bound[c]) \in Nat /\ Len(Tail(x.left[c])) = Len(x.left[c]) - 1
        /\ Len(x.left[c]) \in Nat
    BY <1>1, <2>1, HeadTail DEF Lefts
  <2>4. \A d \in Clients : Len([x.left EXCEPT ![c] = Tail(x.left[c])][d]) <= Len(bound[d])
    BY <2>1, <2>3 DEF Lefts
  <2> QED
    BY <2>2, <2>4, Zenon
<1>2. X \in SUBSET Within
  OBVIOUS
<1> HIDE DEF Within
<1>3. F \in [SUBSET Within -> SUBSET Within]
  <2> SUFFICES ASSUME NEW Y \in SUBSET Within
      PROVE  OneMore(Y, k) \in SUBSET Within
    OBVIOUS
  <2> QED
    BY <1>1 DEF OneMore
<1>4. /\ more \in [Nat -> SUBSET Within] /\ more[0] = X
      /\ \A n \in Nat : more[n + 1] = OneMore(more[n], k)
  <2>1. PICK f \in [Nat -> SUBSET Within] : f[0] = X /\ \A n \in Nat : f[n + 1] = F[f[n]]
    <3> DEFINE Sets == SUBSET Within
    <3>1. F \in [Sets -> Sets] /\ X \in Sets
      BY <1>2, <1>3
    <3> HIDE DEF F, Sets, more, pending, size
    <3>2. \E f : IsIteration(f, Sets, F, X)
      BY <3>1, Iteration
    <3> QED
      BY <3>2, Zenon DEF Sets, IsIteration
  <2>2. \A n \in Nat : f[n + 1] = OneMore(f[n], k)
    BY <2>1, Zenon
  <2>3. f = [n \in Nat |-> IF n = 0 THEN X ELSE OneMore(f[n - 1], k)]
    <3>1. ASSUME NEW n \in Nat
          PROVE  f[n] = IF n = 0 THEN X ELSE OneMore(f[n - 1], k)
      <4>1. CASE n = 0
        BY <2>1, <4>1
      <4>2. CASE n # 0
        <5>1. n - 1 \in Nat /\ (n - 1) + 1 = n
          BY <4>2
        <5> QED
          BY <2>2, <4>2, <5>1
      <4> QED
        BY <4>1, <4>2
    <3> QED
      BY <2>1, <3>1
  <2>4. more = [n \in Nat |-> IF n = 0 THEN X ELSE OneMore(more[n - 1], k)]
    BY <2>3
  <2> HIDE DEF more
  <2>5. more[0] = X /\ \A n \in Nat : more[n + 1] = OneMore(more[n], k)
    <3>1. \A n \in Nat : more[n] = IF n = 0 THEN X ELSE OneMore(more[n - 1], k)
      BY <2>4
    <3> QED
      BY <3>1
  <2> DEFINE Good == {n \in Nat : more[n] \in SUBSET Within}
  <2>6. Nat \subseteq Good
    <3>1. 0 \in Good
      BY <1>2, <2>5
    <3>2. ASSUME NEW n \in Nat, n \in Good
          PROVE  n + 1 \in Good
      BY <1>3, <2>5, <3>2
    <3> HIDE DEF Good
    <3> QED
      BY <3>1, <3>2, SetInduction
  <2> QED
    BY <2>4, <2>5, <2>6
<1>5. Closure(X, k) = more[size]
  BY DEF Closure
<1> HIDE DEF more, F
<1>6. \A x \in X : Slots(x.left) \subseteq pending
  <2> SUFFICES ASSUME NEW x \in X, NEW c \in Clients, NEW i \in 1 .. Len(x.left[c])
      PROVE  <<c, i>> \in pending
    BY DEF Slots
  <2>1. <<x, c>> \in X \X Clients /\ <<x, c>>[1] = x /\ <<x, c>>[2] = c
    OBVIOUS
  <2>2. i \in DOMAIN x.left[c]
    BY DEF Configs, Lefts
  <2> QED
    BY <2>1, <2>2
<1>7. IsFiniteSet(pending) /\ size \in Nat
  <2>1. ASSUME NEW y \in X \X Clients, NEW i \in DOMAIN y[1].left[y[2]]
        PROVE  <<y[2], i>> \in Slots(bound)
    <3>1. y[1] \in X /\ y[2] \in Clients /\ y[1].left[y[2]] \in Seq(Jobs)
      BY DEF Configs, Lefts
    <3>2. i \in 1 .. Len(bound[y[2]])
      <4>1. i \in 1 .. Len(y[1].left[y[2]]) /\ Len(y[1].left[y[2]]) \in Nat
        BY <2>1, <3>1
      <4>2. Len(y[1].left[y[2]]) <= Len(bound[y[2]]) /\ Len(bound[y[2]]) \in Nat
        BY <3>1 DEF Lefts
      <4> QED
        BY <4>1, <4>2
    <3> QED
      BY <3>1, <3>2 DEF Slots
  <2>2. pending \in SUBSET Slots(bound)
    BY <2>1
  <2> HIDE DEF pending
  <2>3. IsFiniteSet(pending)
    BY <2>2, SlotsFinite, FS_Subset
  <2> QED
    BY <2>3, FS_CardinalityType
<1> DEFINE Left(z) == Cardinality(Slots(z.left))
           Fewer == {n \in Nat : \A z \in more[n] :
                       (n > 0 /\ z \in more[n - 1]) \/ Left(z) + n <= size}
<1>8. \A z \in Within : Left(z) \in Nat
  BY SlotsFinite DEF Within, Configs
<1>9. Nat \subseteq Fewer
  <2>1. 0 \in Fewer
    <3> SUFFICES ASSUME NEW z \in X
        PROVE  Left(z) + 0 <= size
      BY <1>4
    <3>1. Slots(z.left) \in SUBSET pending
      BY <1>6
    <3>2. Left(z) <= size
      <4> HIDE DEF pending
      <4> QED
        BY <1>7, <3>1, FS_Subset
    <3> QED
      BY <1>2, <1>7, <1>8, <3>2
  <2>2. ASSUME NEW n \in Nat, n \in Fewer
        PROVE  n + 1 \in Fewer
    <3> SUFFICES ASSUME NEW z \in more[n + 1], z \notin more[n]
        PROVE  Left(z) + (n + 1) <= size
      OBVIOUS
    <3>1. PICK y \in more[n], c \in Clients : y.left[c] # <<>> /\ z = TakeEffect(y, c, k)
      BY <1>4, OneMoreElements
    <3>2. ~ (n > 0 /\ y \in more[n - 1])
      <4> SUFFICES ASSUME n > 0, y \in more[n - 1]
          PROVE  FALSE
        OBVIOUS
      <4>1. n - 1 \in Nat /\ (n - 1) + 1 = n
        OBVIOUS
      <4>2. more[n] = OneMore(more[n - 1], k)
        BY <1>4, <4>1
      <4>3. z \in OneMore(more[n - 1], k)
        BY <3>1, OneMoreElements
      <4> QED
        BY <4>2, <4>3
    <3>3. Left(y) + n <= size
      <4>1. \A w \in more[n] : (n > 0 /\ w \in more[n - 1]) \/ Left(w) + n <= size
        BY <2>2
      <4> HIDE DEF Left, size
      <4> QED
        BY <3>1, <3>2, <4>1
    <3>4. y \in Within /\ y \in Configs /\ y.left \in Lefts
      <4>1. y \in Within
        BY <1>4, <3>1
      <4> QED
        BY <4>1 DEF Within, Configs
    <3>5. z.left = [y.left EXCEPT ![c] = Tail(y.left[c])]
      BY <3>1, <3>4, TakeEffectType
    <3>6. Left(y) = Left(z) + 1
      <4>1. Left(y) = Cardinality(Slots([y.left EXCEPT ![c] = Tail(y.left[c])])) + 1
        BY <3>1, <3>4, SlotsShrink
      <4> QED
        BY <3>5, <4>1, Zenon
    <3>7. z \in Within
      BY <1>4
    <3> HIDE DEF Left
    <3> QED
      BY <1>7, <1>8, <3>3, <3>4, <3>6, <3>7
  <2> HIDE DEF Fewer
  <2> QED
    BY <2>1, <2>2, SetInduction
<1>10. Closed(more[size], k)
  <2> SUFFICES ASSUME NEW y \in more[size], NEW c \in Clients, y.left[c] # <<>>
      PROVE  TakeEffect(y, c, k) \in more[size]
    BY DEF Closed
  <2>1. y \in Within /\ y.left \in Lefts
    BY <1>4, <1>7 DEF Within, Configs
  <2>2. Left(y) > 0
    <3>1. Left(y) = Cardinality(Slots([y.left EXCEPT ![c] = Tail(y.left[c])])) + 1
      BY <2>1, SlotsShrink
    <3>2. [y.left EXCEPT ![c] = Tail(y.left[c])] \in Lefts
      BY <2>1, HeadTail DEF Lefts
    <3>3. Cardinality(Slots([y.left EXCEPT ![c] = Tail(y.left[c])])) \in Nat
      BY <3>2, SlotsFinite
    <3> QED
      BY <3>1, <3>3
  <2>3. size > 0 /\ y \in more[size - 1]
    <3>1. (size > 0 /\ y \in more[size - 1]) \/ Left(y) + size <= size
      BY <1>7, <1>9
    <3> HIDE DEF Left
    <3> QED
      BY <1>7, <1>8, <2>1, <2>2, <3>1
  <2>4. size - 1 \in Nat /\ (size - 1) + 1 = size
    BY <1>7, <2>3
  <2>5. more[size] = OneMore(more[size - 1], k)
    BY <1>4, <2>4
  <2> QED
    BY <2>3, <2>5, OneMoreElements
<1>11. X \subseteq more[size]
  <2> DEFINE Has == {n \in Nat : X \subseteq more[n]}
  <2>1. 0 \in Has
    BY <1>4
  <2>2. \A n \in Nat : n \in Has => n + 1 \in Has
    BY <1>4, OneMoreElements
  <2>3. Nat \subseteq Has
    <3> HIDE DEF Has
    <3> QED
      BY <2>1, <2>2, SetInduction
  <2> QED
    BY <1>7, <2>3, Zenon
<1>12. more[size] \in SUBSET Within
  BY <1>4, <1>7, Zenon
<1> QED
  BY <1>5, <1>10, <1>11, <1>12, Zenon DEF Within

-----------------------------------------------------------------------------
(***************************************************************************)
(* The Btrees that a shard no longer has: their values of the key, what    *)
(* the goroutines that hold a pointer to one of them still have to do on   *)
(* it, and the answers.  gen is the generation each goroutine works on.    *)
(***************************************************************************)
OldStates == [vals : [Nat -> Stores], left : Lefts, res : [Clients -> Answers]]

OldStep(o, c, gen, k) ==
  LET job == Head(o.left[c])
      v   == o.vals[gen[c]]
  IN  [vals |-> [o.vals EXCEPT ![gen[c]] = Does(job, k, v)],
       left |-> [o.left EXCEPT ![c] = Tail(o.left[c])],
       res  |-> [o.res EXCEPT ![c] = Says(job, k, v)]]

WithRes(o, c, a) == [vals |-> o.vals, left |-> o.left, res |-> [o.res EXCEPT ![c] = a]]

StepClosed(Q, gen, k) ==
  \A o \in Q, c \in Clients : o.left[c] # <<>> => OldStep(o, c, gen, k) \in Q

\* What can become of o.
Reach(o, gen, k) ==
  {p \in OldStates : \A Q \in SUBSET OldStates : o \in Q /\ StepClosed(Q, gen, k) => p \in Q}

Done(p) == \A c \in Clients : p.left[c] = <<>>

Gens == [Clients -> Nat]

LEMMA OldStepType ==
  ASSUME NEW o \in OldStates, NEW c \in Clients, NEW gen \in Gens, NEW k, o.left[c] # <<>>
  PROVE  /\ OldStep(o, c, gen, k) \in OldStates
         /\ OldStep(o, c, gen, k).left = [o.left EXCEPT ![c] = Tail(o.left[c])]
<1> DEFINE job == Head(o.left[c])
           v == o.vals[gen[c]]
<1>1. /\ o.left \in Lefts /\ o.res \in [Clients -> Answers] /\ o.vals \in [Nat -> Stores]
      /\ gen[c] \in Nat
  BY DEF OldStates, Gens
<1>2. o.left[c] \in Seq(Jobs) /\ v \in Stores
  BY <1>1 DEF Lefts
<1>3. job \in Jobs /\ Tail(o.left[c]) \in Seq(Jobs)
  BY <1>2, HeadTail
<1> HIDE DEF job, v
<1>4. Does(job, k, v) \in Stores /\ Says(job, k, v) \in Answers
  BY <1>2, <1>3, DoesType
<1>5. /\ [o.left EXCEPT ![c] = Tail(o.left[c])] \in Lefts
      /\ [o.res EXCEPT ![c] = Says(job, k, v)] \in [Clients -> Answers]
      /\ [o.vals EXCEPT ![gen[c]] = Does(job, k, v)] \in [Nat -> Stores]
  BY <1>1, <1>3, <1>4 DEF Lefts
<1>6. OldStep(o, c, gen, k) =
        [vals |-> [o.vals EXCEPT ![gen[c]] = Does(job, k, v)],
         left |-> [o.left EXCEPT ![c] = Tail(o.left[c])],
         res  |-> [o.res EXCEPT ![c] = Says(job, k, v)]]
  BY DEF OldStep, job, v
<1> QED
  BY <1>5, <1>6 DEF OldStates

LEMMA WithResType ==
  ASSUME NEW o \in OldStates, NEW c \in Clients, NEW a \in Answers
  PROVE  WithRes(o, c, a) \in OldStates
BY DEF WithRes, OldStates

\* Reach is the least set with o that is closed under steps.
LEMMA ReachLeast ==
  ASSUME NEW o \in OldStates, NEW gen \in Gens, NEW k,
         NEW Q \in SUBSET OldStates, o \in Q, StepClosed(Q, gen, k)
  PROVE  Reach(o, gen, k) \subseteq Q
BY DEF Reach

LEMMA ReachSteps ==
  ASSUME NEW o \in OldStates, NEW gen \in Gens, NEW k
  PROVE  /\ Reach(o, gen, k) \in SUBSET OldStates
         /\ o \in Reach(o, gen, k)
         /\ StepClosed(Reach(o, gen, k), gen, k)
<1>1. o \in Reach(o, gen, k) /\ Reach(o, gen, k) \in SUBSET OldStates
  BY DEF Reach
<1>2. ASSUME NEW p \in Reach(o, gen, k), NEW c \in Clients, p.left[c] # <<>>
      PROVE  OldStep(p, c, gen, k) \in Reach(o, gen, k)
  <2>1. OldStep(p, c, gen, k) \in OldStates
    BY <1>1, <1>2, OldStepType, Zenon
  <2>2. ASSUME NEW Q \in SUBSET OldStates, o \in Q, StepClosed(Q, gen, k)
        PROVE  OldStep(p, c, gen, k) \in Q
    <3>1. p \in Q
      BY <1>2, <2>2 DEF Reach
    <3> QED
      BY <1>2, <2>2, <3>1 DEF StepClosed
  <2> QED
    BY <2>1, <2>2 DEF Reach
<1> QED
  BY <1>1, <1>2 DEF StepClosed

LEMMA ReachStep ==
  ASSUME NEW o \in OldStates, NEW gen \in Gens, NEW k, NEW c \in Clients, o.left[c] # <<>>
  PROVE  Reach(OldStep(o, c, gen, k), gen, k) \subseteq Reach(o, gen, k)
<1>1. OldStep(o, c, gen, k) \in OldStates
  BY OldStepType, Zenon
<1>2. OldStep(o, c, gen, k) \in Reach(o, gen, k)
  BY ReachSteps DEF StepClosed
<1> QED
  BY <1>1, <1>2, ReachSteps, ReachLeast

\* A goroutine that has nothing to do on an old Btree may have any answer and
\* any generation: the others go on in the same way.
LEMMA StepShift ==
  ASSUME NEW p \in OldStates, NEW c \in Clients, NEW d \in Clients, c # d,
         NEW gen \in Gens, NEW g \in Nat, NEW a \in Answers, NEW k, p.left[d] # <<>>
  PROVE  /\ OldStep(WithRes(p, c, a), d, [gen EXCEPT ![c] = g], k)
               = WithRes(OldStep(p, d, gen, k), c, a)
         /\ OldStep(p, d, gen, k).left[c] = p.left[c]
         /\ OldStep(p, d, gen, k).res[c] = p.res[c]
<1> DEFINE q == WithRes(p, c, a)
           new == [gen EXCEPT ![c] = g]
           v == p.vals[gen[d]]
           says == Says(Head(p.left[d]), k, v)
           does == Does(Head(p.left[d]), k, v)
<1>1. q.vals = p.vals /\ q.left = p.left /\ q.res = [p.res EXCEPT ![c] = a]
  BY DEF WithRes
<1>2. new[d] = gen[d]
  BY DEF Gens
<1> HIDE DEF q, new
<1>3. OldStep(q, d, new, k) =
        [vals |-> [p.vals EXCEPT ![gen[d]] = does], left |-> [p.left EXCEPT ![d] = Tail(p.left[d])],
         res  |-> [[p.res EXCEPT ![c] = a] EXCEPT ![d] = says]]
  BY <1>1, <1>2 DEF OldStep
<1>4. OldStep(p, d, gen, k) =
        [vals |-> [p.vals EXCEPT ![gen[d]] = does], left |-> [p.left EXCEPT ![d] = Tail(p.left[d])],
         res  |-> [p.res EXCEPT ![d] = says]]
  BY DEF OldStep
<1> HIDE DEF does, says
<1>5. /\ p.res \in [Clients -> Answers] /\ p.left \in [Clients -> Seq(Jobs)]
  BY DEF OldStates, Lefts
<1>6. [[p.res EXCEPT ![c] = a] EXCEPT ![d] = says] = [[p.res EXCEPT ![d] = says] EXCEPT ![c] = a]
  BY <1>5, Zenon
<1>7. OldStep(q, d, new, k) = WithRes(OldStep(p, d, gen, k), c, a)
  <2> DEFINE vals == [p.vals EXCEPT ![gen[d]] = does]
             left == [p.left EXCEPT ![d] = Tail(p.left[d])]
             res == [p.res EXCEPT ![d] = says]
  <2>1. OldStep(p, d, gen, k) = [vals |-> vals, left |-> left, res |-> res]
    BY <1>4
  <2>2. OldStep(q, d, new, k) = [vals |-> vals, left |-> left, res |-> [res EXCEPT ![c] = a]]
    BY <1>3, <1>6, Zenon
  <2> HIDE DEF vals, left, res
  <2> QED
    BY <2>1, <2>2 DEF WithRes
<1>8. OldStep(p, d, gen, k).left[c] = p.left[c] /\ OldStep(p, d, gen, k).res[c] = p.res[c]
  BY <1>4, <1>5
<1> QED
  BY <1>7, <1>8 DEF q, new

LEMMA ReachShift ==
  ASSUME NEW o \in OldStates, NEW c \in Clients, o.left[c] = <<>>,
         NEW gen \in Gens, NEW g \in Nat, NEW a \in Answers, NEW k,
         NEW q \in Reach(WithRes(o, c, a), [gen EXCEPT ![c] = g], k)
  PROVE  \E p \in Reach(o, gen, k) :
           p.left[c] = <<>> /\ p.res[c] = o.res[c] /\ q = WithRes(p, c, a)
<1> DEFINE new == [gen EXCEPT ![c] = g]
           R == Reach(o, gen, k)
           Q == {z \in OldStates : \E p \in R :
                   p.left[c] = <<>> /\ p.res[c] = o.res[c] /\ z = WithRes(p, c, a)}
<1>1. new \in Gens /\ WithRes(o, c, a) \in OldStates
  BY WithResType DEF Gens
<1>2. /\ R \in SUBSET OldStates /\ o \in R
      /\ \A p \in R, d \in Clients : p.left[d] # <<>> => OldStep(p, d, gen, k) \in R
  BY ReachSteps DEF StepClosed
<1> HIDE DEF R
<1>3. WithRes(o, c, a) \in Q
  BY <1>1, <1>2
<1>4. ASSUME NEW z \in Q, NEW d \in Clients, z.left[d] # <<>>
      PROVE  OldStep(z, d, new, k) \in Q
  <2>1. PICK p \in R : p.left[c] = <<>> /\ p.res[c] = o.res[c] /\ z = WithRes(p, c, a)
    BY <1>4
  <2>2. z.left = p.left /\ p \in OldStates
    BY <1>2, <2>1 DEF WithRes
  <2>3. d # c /\ p.left[d] # <<>>
    BY <1>4, <2>1, <2>2
  <2>4. /\ OldStep(z, d, new, k) = WithRes(OldStep(p, d, gen, k), c, a)
        /\ OldStep(p, d, gen, k).left[c] = <<>>
        /\ OldStep(p, d, gen, k).res[c] = o.res[c]
    BY <2>1, <2>2, <2>3, StepShift
  <2>5. OldStep(p, d, gen, k) \in R
    BY <1>2, <2>3
  <2>6. OldStep(z, d, new, k) \in OldStates
    BY <1>1, <1>4, OldStepType, Zenon
  <2> QED
    BY <2>4, <2>5, <2>6, Zenon
<1>5. StepClosed(Q, new, k)
  BY <1>4, Zenon DEF StepClosed
<1>6. q \in Q
  <2>1. Q \in SUBSET OldStates
    OBVIOUS
  <2> HIDE DEF Q
  <2> QED
    BY <1>1, <1>3, <1>5, <2>1, ReachLeast
<1> QED
  BY <1>6 DEF R

\* The goroutines on old Btrees can all finish.
LEMMA ReachDone ==
  ASSUME NEW o \in OldStates, NEW gen \in Gens, NEW k
  PROVE  \E p \in Reach(o, gen, k) : Done(p)
<1> DEFINE R == Reach(o, gen, k)
           size(p) == Cardinality(Slots(p.left))
           T == {size(p) : p \in R}
<1>1. /\ R \in SUBSET OldStates /\ o \in R
      /\ \A p \in R, d \in Clients : p.left[d] # <<>> => OldStep(p, d, gen, k) \in R
  BY ReachSteps DEF StepClosed
<1> HIDE DEF R
<1>2. \A p \in R : p.left \in Lefts
  BY <1>1 DEF OldStates
<1>3. \A p \in R : size(p) \in Nat
  BY <1>2, SlotsFinite
<1>4. T \in SUBSET Nat /\ T # {}
  <2> HIDE DEF size
  <2> QED
    BY <1>1, <1>3
<1>5. PICK x \in T : \A y \in T : x <= y
  <2> HIDE DEF T
  <2> QED
    BY <1>4, Least
<1>6. PICK p \in R : x = size(p)
  BY <1>5
<1>7. ASSUME NEW d \in Clients, p.left[d] # <<>>
      PROVE  FALSE
  <2> DEFINE n == OldStep(p, d, gen, k)
  <2>1. n \in R
    BY <1>1, <1>7
  <2>2. n.left = [p.left EXCEPT ![d] = Tail(p.left[d])]
    <3>1. p \in OldStates
      BY <1>1
    <3> QED
      BY <1>7, <3>1, OldStepType
  <2> HIDE DEF n
  <2>3. Cardinality(Slots(p.left)) = Cardinality(Slots([p.left EXCEPT ![d] = Tail(p.left[d])])) + 1
    BY <1>2, <1>7, SlotsShrink, Zenon
  <2>4. size(p) = size(n) + 1
    BY <2>2, <2>3, Zenon
  <2>5. size(p) <= size(n)
    BY <1>5, <1>6, <2>1
  <2> HIDE DEF size
  <2> QED
    BY <1>3, <2>1, <2>4, <2>5
<1> QED
  BY <1>7 DEF Done, R

-----------------------------------------------------------------------------
Config(v, left, res) == [val |-> v, left |-> left, res |-> res]

\* X has the value v and what is left on the live Btree, with the answers of
\* every way in which the goroutines on old Btrees may finish.
Covers(X, k, v, left, o, gen) ==
  \A p \in Reach(o, gen, k) : Done(p) => Config(v, left, p.res) \in X

LEMMA CoversSome ==
  ASSUME NEW X, NEW k, NEW v, NEW left, NEW o \in OldStates, NEW gen \in Gens,
         Covers(X, k, v, left, o, gen)
  PROVE  X # {}
BY ReachDone DEF Covers

LEMMA CoversStep ==
  ASSUME NEW X, NEW k, NEW v, NEW left, NEW o \in OldStates, NEW gen \in Gens,
         NEW c \in Clients, o.left[c] # <<>>, Covers(X, k, v, left, o, gen)
  PROVE  Covers(X, k, v, left, OldStep(o, c, gen, k), gen)
BY ReachStep DEF Covers

LEMMA CoversShift ==
  ASSUME NEW X, NEW Y, NEW k, NEW v, NEW w, NEW left, NEW rest,
         NEW o \in OldStates, NEW gen \in Gens, NEW c \in Clients, o.left[c] = <<>>,
         NEW g \in Nat, NEW a \in Answers,
         Covers(X, k, v, left, o, gen),
         \A r \in [Clients -> Answers] :
           Config(v, left, r) \in X /\ r[c] = o.res[c] => Config(w, rest, [r EXCEPT ![c] = a]) \in Y
  PROVE  Covers(Y, k, w, rest, WithRes(o, c, a), [gen EXCEPT ![c] = g])
<1> SUFFICES ASSUME NEW q \in Reach(WithRes(o, c, a), [gen EXCEPT ![c] = g], k), Done(q)
    PROVE  Config(w, rest, q.res) \in Y
  BY DEF Covers
<1>1. PICK p \in Reach(o, gen, k) :
        p.left[c] = <<>> /\ p.res[c] = o.res[c] /\ q = WithRes(p, c, a)
  BY ReachShift
<1>2. p \in OldStates
  BY <1>1, ReachSteps
<1>3. p.left = q.left /\ q.res = [p.res EXCEPT ![c] = a] /\ p.res \in [Clients -> Answers]
  BY <1>1, <1>2 DEF WithRes, OldStates
<1>4. Config(v, left, p.res) \in X
  BY <1>1, <1>3 DEF Covers, Done
<1> QED
  BY <1>1, <1>3, <1>4

\* A goroutine with nothing to do on old Btrees goes on to another one.
LEMMA CoversMove ==
  ASSUME NEW X, NEW k, NEW v, NEW left, NEW o \in OldStates, NEW gen \in Gens,
         NEW c \in Clients, o.left[c] = <<>>, NEW g \in Nat, Covers(X, k, v, left, o, gen)
  PROVE  Covers(X, k, v, left, o, [gen EXCEPT ![c] = g])
<1>1. o.res \in [Clients -> Answers] /\ o.res[c] \in Answers
  BY DEF OldStates
<1>2. WithRes(o, c, o.res[c]) = o
  BY <1>1 DEF WithRes, OldStates
<1>3. \A r \in [Clients -> Answers] : r[c] = o.res[c] => [r EXCEPT ![c] = o.res[c]] = r
  OBVIOUS
<1>4. Covers(X, k, v, left, WithRes(o, c, o.res[c]), [gen EXCEPT ![c] = g])
  BY <1>1, <1>3, CoversShift, Zenon
<1> QED
  BY <1>2, <1>4

-----------------------------------------------------------------------------
(***************************************************************************)
(* The steps of the observer.  Its configurations stay closed, and never   *)
(* have more operations left than the calls.                               *)
(***************************************************************************)
Fit(X, k, bound) ==
  /\ X \in SUBSET Configs /\ Closed(X, k)
  /\ \A x \in X, c \in Clients : Len(x.left[c]) <= Len(bound[c])

\* x with other operations left and another answer of client c.
Put(x, c, q, a) == Config(x.val, [x.left EXCEPT ![c] = q], [x.res EXCEPT ![c] = a])

LEMMA PutType ==
  ASSUME NEW x \in Configs, NEW c \in Clients, NEW q \in Seq(Jobs), NEW a \in Answers
  PROVE  /\ Put(x, c, q, a) \in Configs
         /\ Put(x, c, q, a).left = [x.left EXCEPT ![c] = q]
<1>1. x.left \in [Clients -> Seq(Jobs)] /\ x.res \in [Clients -> Answers] /\ x.val \in Stores
  BY DEF Configs, Lefts
<1>2. Put(x, c, q, a).left = [x.left EXCEPT ![c] = q]
  BY DEF Put, Config
<1>3. [x.left EXCEPT ![c] = q] \in Lefts /\ [x.res EXCEPT ![c] = a] \in [Clients -> Answers]
  BY <1>1 DEF Lefts
<1>4. Put(x, c, q, a) \in Configs
  BY <1>1, <1>3 DEF Put, Config, Configs
<1> QED
  BY <1>1, <1>2, <1>4

LEMMA PutForms ==
  ASSUME NEW x \in Configs, NEW c \in Clients, NEW q
  PROVE  /\ [x EXCEPT !.left[c] = q] = Put(x, c, q, x.res[c])
         /\ [x EXCEPT !.res[c] = "none"] = Put(x, c, x.left[c], "none")
         /\ [x EXCEPT !.left[c] = <<>>, !.res[c] = "none"] = Put(x, c, <<>>, "none")
<1>1. x.left \in [Clients -> Seq(Jobs)] /\ x.res \in [Clients -> Answers]
  BY DEF Configs, Lefts
<1>2. x = [val |-> x.val, left |-> x.left, res |-> x.res]
  BY DEF Configs
<1>3. [x.res EXCEPT ![c] = x.res[c]] = x.res /\ [x.left EXCEPT ![c] = x.left[c]] = x.left
  BY <1>1, Zenon
<1> DEFINE v == x.val
           l == x.left
           r == x.res
<1>4. x = [val |-> v, left |-> l, res |-> r]
  BY <1>2
<1> HIDE DEF v, l, r
<1>5. /\ [x EXCEPT !.left[c] = q] = [val |-> v, left |-> [l EXCEPT ![c] = q], res |-> r]
      /\ [x EXCEPT !.res[c] = "none"] = [val |-> v, left |-> l, res |-> [r EXCEPT ![c] = "none"]]
      /\ [x EXCEPT !.left[c] = <<>>, !.res[c] = "none"]
           = [val |-> v, left |-> [l EXCEPT ![c] = <<>>], res |-> [r EXCEPT ![c] = "none"]]
  <2>1. [x EXCEPT !.left[c] = q] = [val |-> v, left |-> [l EXCEPT ![c] = q], res |-> r]
    BY <1>4
  <2>2. [x EXCEPT !.res[c] = "none"] = [val |-> v, left |-> l, res |-> [r EXCEPT ![c] = "none"]]
    BY <1>4
  <2>3. [x EXCEPT !.left[c] = <<>>, !.res[c] = "none"]
           = [val |-> v, left |-> [l EXCEPT ![c] = <<>>], res |-> [r EXCEPT ![c] = "none"]]
    <3> DEFINE y == [x EXCEPT !.left[c] = <<>>]
    <3>1. y = [val |-> v, left |-> [l EXCEPT ![c] = <<>>], res |-> r]
      BY <1>4
    <3>2. [x EXCEPT !.left[c] = <<>>, !.res[c] = "none"] = [y EXCEPT !.res[c] = "none"]
      OBVIOUS
    <3> HIDE DEF y
    <3> QED
      BY <3>1, <3>2
  <2> QED
    BY <2>1, <2>2, <2>3
<1> QED
  BY <1>3, <1>5 DEF v, l, r, Put, Config

LEMMA TakeEffectShift ==
  ASSUME NEW x \in Configs, NEW c \in Clients, NEW d \in Clients, c # d, NEW q, NEW a, NEW k,
         x.left[d] # <<>>
  PROVE  /\ TakeEffect(Put(x, c, q, a), d, k) = Put(TakeEffect(x, d, k), c, q, a)
         /\ TakeEffect(x, d, k).left[c] = x.left[c]
         /\ TakeEffect(x, d, k).res[c] = x.res[c]
<1> DEFINE y == Put(x, c, q, a)
           l == [x.left EXCEPT ![c] = q]
           r == [x.res EXCEPT ![c] = a]
           says == Says(Head(x.left[d]), k, x.val)
           does == Does(Head(x.left[d]), k, x.val)
           tail == Tail(x.left[d])
<1>1. x.left \in [Clients -> Seq(Jobs)] /\ x.res \in [Clients -> Answers]
  BY DEF Configs, Lefts
<1>2. y.val = x.val /\ y.left = l /\ y.res = r /\ l[d] = x.left[d]
  BY <1>1 DEF Put, Config
<1>3. TakeEffect(y, d, k) = [val |-> does, left |-> [l EXCEPT ![d] = tail], res |-> [r EXCEPT ![d] = says]]
  <2> HIDE DEF y, l, r
  <2> QED
    BY <1>2 DEF TakeEffect
<1>4. TakeEffect(x, d, k) =
        [val |-> does, left |-> [x.left EXCEPT ![d] = tail], res |-> [x.res EXCEPT ![d] = says]]
  BY DEF TakeEffect
<1> HIDE DEF tail, says, does
<1>5. /\ [l EXCEPT ![d] = tail] = [[x.left EXCEPT ![d] = tail] EXCEPT ![c] = q]
      /\ [r EXCEPT ![d] = says] = [[x.res EXCEPT ![d] = says] EXCEPT ![c] = a]
      /\ [x.left EXCEPT ![d] = tail][c] = x.left[c]
      /\ [x.res EXCEPT ![d] = says][c] = x.res[c]
  <2>1. [l EXCEPT ![d] = tail] = [[x.left EXCEPT ![d] = tail] EXCEPT ![c] = q]
    BY <1>1, Zenon
  <2>2. [r EXCEPT ![d] = says] = [[x.res EXCEPT ![d] = says] EXCEPT ![c] = a]
    BY <1>1, Zenon
  <2>3. /\ [x.left EXCEPT ![d] = tail][c] = x.left[c]
        /\ [x.res EXCEPT ![d] = says][c] = x.res[c]
    BY <1>1
  <2> QED
    BY <2>1, <2>2, <2>3
<1> HIDE DEF l, r, y
<1> DEFINE left == [x.left EXCEPT ![d] = tail]
           res == [x.res EXCEPT ![d] = says]
<1>6. TakeEffect(x, d, k) = [val |-> does, left |-> left, res |-> res]
  BY <1>4
<1>7. TakeEffect(y, d, k) = [val |-> does, left |-> [left EXCEPT ![c] = q], res |-> [res EXCEPT ![c] = a]]
  BY <1>3, <1>5, Zenon
<1>8. left[c] = x.left[c] /\ res[c] = x.res[c]
  BY <1>5
<1> HIDE DEF left, res
<1> QED
  BY <1>6, <1>7, <1>8 DEF y, Put, Config

LEMMA AsksFits ==
  ASSUME NEW X, NEW k, NEW bound \in Lefts, Fit(X, k, bound), NEW c \in Clients, NEW ops \in Seq(Jobs)
  PROVE  /\ Fit(Asks(X, c, ops, k), k, [bound EXCEPT ![c] = ops])
         /\ \A x \in X : Put(x, c, ops, x.res[c]) \in Asks(X, c, ops, k)
<1> DEFINE Y == {[x EXCEPT !.left[c] = ops] : x \in X}
           new == [bound EXCEPT ![c] = ops]
<1>1. \A x \in X : x \in Configs /\ x.res[c] \in Answers
  BY DEF Fit, Configs
<1>2. ASSUME NEW x \in X
      PROVE  [x EXCEPT !.left[c] = ops] = Put(x, c, ops, x.res[c])
  <2>1. x \in Configs
    BY <1>1
  <2> QED
    BY <2>1, PutForms, Zenon
<1>3. Y = {Put(x, c, ops, x.res[c]) : x \in X}
  BY <1>2, ZenonT(30)
<1>4. new \in Lefts /\ new[c] = ops /\ \A d \in Clients : d # c => new[d] = bound[d]
  BY DEF Lefts
<1> HIDE DEF Y, new
<1>a. ASSUME NEW x \in X
      PROVE  /\ Put(x, c, ops, x.res[c]) \in Configs
             /\ Put(x, c, ops, x.res[c]).left[c] = ops
             /\ \A d \in Clients : d # c => Put(x, c, ops, x.res[c]).left[d] = x.left[d]
  <2>1. x \in Configs /\ x.res[c] \in Answers
    BY <1>1
  <2>2. Put(x, c, ops, x.res[c]) \in Configs
    BY <2>1, PutType, Zenon
  <2>3. Put(x, c, ops, x.res[c]).left = [x.left EXCEPT ![c] = ops]
    BY DEF Put, Config
  <2>4. x.left \in [Clients -> Seq(Jobs)]
    BY <2>1 DEF Configs, Lefts
  <2> QED
    BY <2>2, <2>3, <2>4
<1>5. Y \in SUBSET Configs
  BY <1>3, <1>a
<1>6. \A y \in Y, d \in Clients : Len(y.left[d]) <= Len(new[d])
  <2> SUFFICES ASSUME NEW x \in X, NEW d \in Clients
      PROVE  Len(Put(x, c, ops, x.res[c]).left[d]) <= Len(new[d])
    BY <1>3
  <2>1. /\ Put(x, c, ops, x.res[c]).left[c] = ops
        /\ d # c => Put(x, c, ops, x.res[c]).left[d] = x.left[d]
    BY <1>a
  <2>2. CASE d = c
    <3>1. Len(ops) <= Len(ops)
      OBVIOUS
    <3> QED
      BY <1>4, <2>1, <2>2, <3>1
  <2>3. CASE d # c
    BY <1>4, <2>1, <2>3 DEF Fit
  <2> QED
    BY <2>2, <2>3
<1>7. Asks(X, c, ops, k) = Closure(Y, k)
  BY DEF Asks, Y
<1>8. /\ Y \subseteq Closure(Y, k) /\ Closure(Y, k) \in SUBSET Configs
      /\ Closed(Closure(Y, k), k)
      /\ \A z \in Closure(Y, k), d \in Clients : Len(z.left[d]) <= Len(new[d])
  BY <1>4, <1>5, <1>6, ClosureCloses
<1>9. Fit(Asks(X, c, ops, k), k, new)
  BY <1>7, <1>8 DEF Fit
<1>10. \A x \in X : Put(x, c, ops, x.res[c]) \in Asks(X, c, ops, k)
  BY <1>3, <1>7, <1>8
<1> QED
  BY <1>9, <1>10 DEF new

\* What is left of X when c has no operation left, whatever the answer.
Ended(X, c) == {Put(x, c, <<>>, "none") : x \in X}

LEMMA EndedFits ==
  ASSUME NEW X, NEW k, NEW bound \in Lefts, Fit(X, k, bound), NEW c \in Clients
  PROVE  Fit(Ended(X, c), k, [bound EXCEPT ![c] = <<>>])
<1> DEFINE new == [bound EXCEPT ![c] = <<>>]
<1>1. \A x \in X : x \in Configs
  BY DEF Fit
<1>2. <<>> \in Seq(Jobs) /\ Len(<<>>) = 0 /\ "none" \in Answers
  BY DEF Answers
<1>3. new[c] = <<>> /\ \A d \in Clients : d # c => new[d] = bound[d]
  BY DEF Lefts
<1> HIDE DEF new
<1>4. ASSUME NEW x \in X
      PROVE  /\ Put(x, c, <<>>, "none") \in Configs /\ Put(x, c, <<>>, "none").left[c] = <<>>
             /\ \A d \in Clients : d # c => Put(x, c, <<>>, "none").left[d] = x.left[d]
  <2>1. x \in Configs
    BY <1>1
  <2>2. Put(x, c, <<>>, "none") \in Configs
    BY <1>2, <2>1, PutType, Zenon
  <2>3. Put(x, c, <<>>, "none").left = [x.left EXCEPT ![c] = <<>>]
    BY DEF Put, Config
  <2>4. x.left \in [Clients -> Seq(Jobs)]
    BY <2>1 DEF Configs, Lefts
  <2> QED
    BY <2>2, <2>3, <2>4
<1>5. Ended(X, c) \in SUBSET Configs
  BY <1>4 DEF Ended
<1>6. ASSUME NEW y \in Ended(X, c), NEW d \in Clients
      PROVE  Len(y.left[d]) <= Len(new[d])
  <2>1. PICK x \in X : y = Put(x, c, <<>>, "none")
    BY <1>6 DEF Ended
  <2>2. CASE d = c
    BY <1>2, <1>3, <1>4, <2>1, <2>2
  <2>3. CASE d # c
    BY <1>3, <1>4, <2>1, <2>3 DEF Fit
  <2> QED
    BY <2>2, <2>3
<1>7. ASSUME NEW y \in Ended(X, c), NEW d \in Clients, y.left[d] # <<>>
      PROVE  TakeEffect(y, d, k) \in Ended(X, c)
  <2>1. PICK x \in X : y = Put(x, c, <<>>, "none")
    BY <1>7 DEF Ended
  <2>2. d # c /\ x.left[d] # <<>>
    BY <1>4, <1>7, <2>1
  <2>3. TakeEffect(y, d, k) = Put(TakeEffect(x, d, k), c, <<>>, "none")
    BY <1>1, <2>1, <2>2, TakeEffectShift
  <2>4. TakeEffect(x, d, k) \in X
    BY <2>2 DEF Fit, Closed
  <2> QED
    BY <2>3, <2>4 DEF Ended
<1>8. Fit(Ended(X, c), k, new)
  BY <1>5, <1>6, <1>7 DEF Fit, Closed
<1> QED
  BY <1>8 DEF new

LEMMA GivesUpFits ==
  ASSUME NEW X, NEW k, NEW bound \in Lefts, Fit(X, k, bound), NEW c \in Clients
  PROVE  /\ GivesUp(X, c) = Ended(X, c)
         /\ Fit(GivesUp(X, c), k, [bound EXCEPT ![c] = <<>>])
<1>1. \A x \in X : [x EXCEPT !.left[c] = <<>>, !.res[c] = "none"] = Put(x, c, <<>>, "none")
  BY PutForms, Zenon DEF Fit
<1>2. GivesUp(X, c) = Ended(X, c)
  BY <1>1, Zenon DEF GivesUp, Ended
<1> QED
  BY <1>2, EndedFits

\* The configurations in which c has had the answer a and has nothing left.
Finished(X, c, a) == {x \in X : x.left[c] = <<>> /\ x.res[c] = a}

LEMMA LastAnswer ==
  ASSUME NEW X, NEW k, NEW bound \in Lefts, Fit(X, k, bound), NEW c \in Clients, NEW a
  PROVE  /\ Answered(X, c, a, 0) = Ended(Finished(X, c, a), c)
         /\ Fit(Answered(X, c, a, 0), k, [bound EXCEPT ![c] = <<>>])
<1> DEFINE Y == Finished(X, c, a)
<1>1. Y \in SUBSET Configs /\ Y \in SUBSET X
  BY DEF Fit, Finished
<1>2. ASSUME NEW x \in Y
      PROVE  [x EXCEPT !.res[c] = "none"] = Put(x, c, <<>>, "none")
  <2>1. x \in Configs /\ x.left[c] = <<>>
    BY <1>1 DEF Finished
  <2>2. [x EXCEPT !.res[c] = "none"] = Put(x, c, x.left[c], "none")
    BY <2>1, PutForms, Zenon
  <2> QED
    BY <2>1, <2>2
<1>3. Answered(X, c, a, 0) = {[x EXCEPT !.res[c] = "none"] : x \in Y}
  BY DEF Answered, Finished
<1>4. Answered(X, c, a, 0) = Ended(Y, c)
  <2> HIDE DEF Y
  <2> QED
    BY <1>2, <1>3 DEF Ended
<1>5. ASSUME NEW x \in Y, NEW d \in Clients, x.left[d] # <<>>
      PROVE  TakeEffect(x, d, k) \in Y
  <2>1. x \in Configs /\ x \in X /\ x.left[c] = <<>> /\ x.res[c] = a /\ d # c
    BY <1>1, <1>5 DEF Finished
  <2>2. TakeEffect(x, d, k).left[c] = x.left[c] /\ TakeEffect(x, d, k).res[c] = x.res[c]
    BY <1>5, <2>1, TakeEffectShift
  <2>3. TakeEffect(x, d, k) \in X
    BY <1>5, <2>1 DEF Fit, Closed
  <2> QED
    BY <2>1, <2>2, <2>3 DEF Finished
<1>6. \A x \in Y, d \in Clients : Len(x.left[d]) <= Len(bound[d])
  BY <1>1 DEF Fit
<1>7. Fit(Y, k, bound)
  BY <1>1, <1>5, <1>6 DEF Fit, Closed
<1> QED
  BY <1>4, <1>7, EndedFits

LEMMA AnswerFits ==
  ASSUME NEW X, NEW k, NEW bound \in Lefts, Fit(X, k, bound), NEW c \in Clients, NEW a,
         NEW q \in Seq(Jobs)
  PROVE  Fit(Answered(X, c, a, Len(q)), k, [bound EXCEPT ![c] = q])
<1> DEFINE new == [bound EXCEPT ![c] = q]
           n == Len(q)
           Y == {x \in X : Len(x.left[c]) <= n}
<1>1. CASE n = 0
  <2>1. q = <<>>
    BY <1>1
  <2> QED
    BY <1>1, <2>1, LastAnswer
<1>2. CASE n > 0
  <2>1. Answered(X, c, a, n) = Y
    BY <1>2 DEF Answered
  <2>2. new[c] = q /\ \A d \in Clients : d # c => new[d] = bound[d]
    BY DEF Lefts
  <2> HIDE DEF new
  <2>3. \A x \in Y, d \in Clients : Len(x.left[d]) <= Len(new[d])
    <3> SUFFICES ASSUME NEW x \in Y, NEW d \in Clients PROVE Len(x.left[d]) <= Len(new[d])
      OBVIOUS
    <3>1. CASE d = c
      BY <2>2, <3>1
    <3>2. CASE d # c
      BY <2>2, <3>2 DEF Fit
    <3> QED
      BY <3>1, <3>2
  <2>4. ASSUME NEW x \in Y, NEW d \in Clients, x.left[d] # <<>>
        PROVE  TakeEffect(x, d, k) \in Y
    <3>1. x \in Configs /\ x \in X /\ Len(x.left[c]) <= n
      BY DEF Fit
    <3>2. TakeEffect(x, d, k) \in X
      BY <2>4, <3>1 DEF Fit, Closed
    <3>3. TakeEffect(x, d, k).left = [x.left EXCEPT ![d] = Tail(x.left[d])]
      BY <2>4, <3>1, TakeEffectType
    <3>4. x.left \in [Clients -> Seq(Jobs)] /\ Len(x.left[c]) \in Nat
      BY <3>1 DEF Configs, Lefts
    <3>5. CASE d = c
      <4>1. TakeEffect(x, d, k).left[c] = Tail(x.left[c])
        BY <3>3, <3>4, <3>5
      <4>2. Len(Tail(x.left[c])) = Len(x.left[c]) - 1
        BY <2>4, <3>4, <3>5, HeadTail
      <4>3. n \in Nat
        OBVIOUS
      <4>4. Len(Tail(x.left[c])) <= n
        <5> HIDE DEF n
        <5> QED
          BY <3>1, <3>4, <4>2, <4>3
      <4> QED
        BY <3>2, <4>1, <4>4, Zenon
    <3>6. CASE d # c
      <4>1. TakeEffect(x, d, k).left[c] = x.left[c]
        BY <3>3, <3>4, <3>6
      <4> QED
        BY <3>1, <3>2, <4>1
    <3> QED
      BY <3>5, <3>6
  <2>5. Y \in SUBSET Configs
    BY DEF Fit
  <2>6. Fit(Y, k, new)
    BY <2>3, <2>4, <2>5 DEF Fit, Closed
  <2> QED
    BY <2>1, <2>6 DEF new
<1>3. n \in Nat
  OBVIOUS
<1> QED
  BY <1>1, <1>2, <1>3

-----------------------------------------------------------------------------
LEMMA SameRes ==
  ASSUME NEW o \in OldStates, NEW c \in Clients
  PROVE  WithRes(o, c, o.res[c]) = o /\ o.res[c] \in Answers
BY DEF WithRes, OldStates

\* An operation on the live Btree begins.
LEMMA AsksCovers ==
  ASSUME NEW X, NEW k, NEW bound \in Lefts, Fit(X, k, bound), NEW v, NEW left,
         NEW o \in OldStates, NEW gen \in Gens, Covers(X, k, v, left, o, gen),
         NEW c \in Clients, o.left[c] = <<>>, NEW g \in Nat, NEW ops \in Seq(Jobs)
  PROVE  Covers(Asks(X, c, ops, k), k, v, [left EXCEPT ![c] = ops], o, [gen EXCEPT ![c] = g])
<1>1. WithRes(o, c, o.res[c]) = o /\ o.res[c] \in Answers
  BY SameRes
<1>2. ASSUME NEW r \in [Clients -> Answers], Config(v, left, r) \in X, r[c] = o.res[c]
      PROVE  Config(v, [left EXCEPT ![c] = ops], [r EXCEPT ![c] = o.res[c]]) \in Asks(X, c, ops, k)
  <2>1. Config(v, left, r).res[c] = o.res[c]
    BY <1>2 DEF Config
  <2>2. Put(Config(v, left, r), c, ops, o.res[c]) \in Asks(X, c, ops, k)
    BY <1>2, <2>1, AsksFits, Zenon
  <2> QED
    BY <2>2 DEF Put, Config
<1>3. Covers(Asks(X, c, ops, k), k, v, [left EXCEPT ![c] = ops], WithRes(o, c, o.res[c]), [gen EXCEPT ![c] = g])
  BY <1>1, <1>2, CoversShift, Zenon
<1> QED
  BY <1>1, <1>3

LEMMA ConfigStep ==
  ASSUME NEW X, NEW k, NEW bound, Fit(X, k, bound), NEW v, NEW left, NEW r,
         NEW c \in Clients, left[c] # <<>>, Config(v, left, r) \in X
  PROVE  Config(Does(Head(left[c]), k, v), [left EXCEPT ![c] = Tail(left[c])],
                [r EXCEPT ![c] = Says(Head(left[c]), k, v)]) \in X
<1> DEFINE x == Config(v, left, r)
<1>1. x.left = left /\ x.val = v /\ x.res = r
  BY DEF Config
<1>2. TakeEffect(x, c, k) \in X
  <2> HIDE DEF x
  <2>1. x.left[c] # <<>>
    BY <1>1
  <2> QED
    BY <2>1 DEF Fit, Closed, x
<1>3. TakeEffect(x, c, k) =
        Config(Does(Head(left[c]), k, v), [left EXCEPT ![c] = Tail(left[c])],
               [r EXCEPT ![c] = Says(Head(left[c]), k, v)])
  <2> HIDE DEF x
  <2> QED
    BY <1>1 DEF TakeEffect, Config
<1> QED
  BY <1>2, <1>3

\* A lock section runs on the live Btree.
LEMMA LiveWorkCovers ==
  ASSUME NEW X, NEW k, NEW bound \in Lefts, Fit(X, k, bound), NEW v \in Stores, NEW left \in Lefts,
         NEW o \in OldStates, NEW gen \in Gens, Covers(X, k, v, left, o, gen),
         NEW c \in Clients, o.left[c] = <<>>, left[c] # <<>>, NEW g \in Nat,
         NEW rest, rest = [left EXCEPT ![c] = Tail(left[c])],
         NEW next, next = [gen EXCEPT ![c] = g]
  PROVE  \E b \in Answers :
           Covers(Answered(X, c, Says(Head(left[c]), k, v), Len(Tail(left[c]))), k,
                  Does(Head(left[c]), k, v), rest, WithRes(o, c, b), next)
<1> DEFINE job == Head(left[c])
           q == Tail(left[c])
           a == Says(job, k, v)
           w == Does(job, k, v)
           n == Len(q)
<1>1. job \in Jobs /\ q \in Seq(Jobs) /\ n \in Nat
  BY HeadTail DEF Lefts
<1>2. a \in Answers /\ w \in Stores
  BY <1>1, DoesType
<1>3. rest[c] = q
  BY DEF Lefts
<1>4. ASSUME NEW r \in [Clients -> Answers], Config(v, left, r) \in X
      PROVE  Config(w, rest, [r EXCEPT ![c] = a]) \in X
  BY <1>4, ConfigStep, Zenon
<1>a. Answered(X, c, a, 0) = Ended(Finished(X, c, a), c)
  BY LastAnswer, Zenon
<1> HIDE DEF job, a, w, q
<1>5. CASE n = 0
  <2>1. q = <<>>
    BY <1>1, <1>5
  <2>2. ASSUME NEW r \in [Clients -> Answers], Config(v, left, r) \in X
        PROVE  Config(w, rest, [r EXCEPT ![c] = "none"]) \in Answered(X, c, a, 0)
    <3> DEFINE x == Config(w, rest, [r EXCEPT ![c] = a])
    <3>1. x \in X /\ x.left[c] = <<>> /\ x.res[c] = a
      <4>1. x.left = rest /\ x.res = [r EXCEPT ![c] = a]
        BY DEF Config
      <4> QED
        BY <1>3, <1>4, <2>1, <2>2, <4>1, ZenonT(30)
    <3>2. x \in Finished(X, c, a)
      BY <3>1 DEF Finished
    <3>3. Put(x, c, <<>>, "none") \in Answered(X, c, a, 0)
      <4> HIDE DEF x
      <4> QED
        BY <1>a, <3>2 DEF Ended
    <3>4. Put(x, c, <<>>, "none")
            = Config(w, [rest EXCEPT ![c] = <<>>], [[r EXCEPT ![c] = a] EXCEPT ![c] = "none"])
      BY DEF Put, Config
    <3>5. [rest EXCEPT ![c] = <<>>] = rest
      BY <1>3, <2>1, Zenon DEF Lefts
    <3>6. [[r EXCEPT ![c] = a] EXCEPT ![c] = "none"] = [r EXCEPT ![c] = "none"]
      BY Zenon
    <3> QED
      BY <3>3, <3>4, <3>5, <3>6
  <2>3. "none" \in Answers
    BY DEF Answers
  <2>4. Covers(Answered(X, c, a, 0), k, w, rest, WithRes(o, c, "none"), next)
    BY <2>2, <2>3, CoversShift, ZenonT(30)
  <2> QED
    BY <1>5, <2>3, <2>4, Zenon DEF job, a, w, q
<1>6. CASE n > 0
  <2>1. ASSUME NEW r \in [Clients -> Answers], Config(v, left, r) \in X
        PROVE  Config(w, rest, [r EXCEPT ![c] = a]) \in Answered(X, c, a, n)
    <3> DEFINE x == Config(w, rest, [r EXCEPT ![c] = a])
    <3>1. x \in X
      BY <1>4, <2>1, ZenonT(30)
    <3>2. x.left[c] = q
      BY <1>3 DEF Config
    <3> HIDE DEF x
    <3>3. Len(x.left[c]) <= n
      BY <1>1, <3>2
    <3>4. x \in Answered(X, c, a, n)
      BY <1>6, <3>1, <3>3 DEF Answered
    <3> QED
      BY <3>4 DEF x
  <2>2. Covers(Answered(X, c, a, n), k, w, rest, WithRes(o, c, a), next)
    BY <1>2, <2>1, CoversShift, ZenonT(30)
  <2> QED
    BY <1>2, <2>2 DEF job, a, w, q
<1>7. n = 0 \/ n > 0
  BY <1>1
<1> QED
  BY <1>5, <1>6, <1>7, Zenon

\* The answer of c is known, and c has nothing left.
LEMMA AnswerCovers ==
  ASSUME NEW X, NEW k, NEW bound \in Lefts, Fit(X, k, bound), NEW v, NEW left \in Lefts,
         NEW o \in OldStates, NEW gen \in Gens, Covers(X, k, v, left, o, gen),
         NEW c \in Clients, o.left[c] = <<>>, left[c] = <<>>, NEW g \in Nat
  PROVE  Covers(Answered(X, c, o.res[c], 0), k, v, left, WithRes(o, c, "none"), [gen EXCEPT ![c] = g])
<1> DEFINE a == o.res[c]
<1>1. Answered(X, c, a, 0) = Ended(Finished(X, c, a), c)
  BY LastAnswer, ZenonT(30)
<1> HIDE DEF a
<1>2. ASSUME NEW r \in [Clients -> Answers], Config(v, left, r) \in X, r[c] = a
      PROVE  Config(v, left, [r EXCEPT ![c] = "none"]) \in Answered(X, c, a, 0)
  <2> DEFINE x == Config(v, left, r)
  <2>1. x.left[c] = <<>> /\ x.res[c] = a
    BY <1>2 DEF Config
  <2>2. Put(x, c, <<>>, "none") \in Answered(X, c, a, 0)
    <3> HIDE DEF x
    <3> QED
      BY <1>1, <1>2, <2>1 DEF Ended, Finished, x
  <2>3. Put(x, c, <<>>, "none") = Config(v, [left EXCEPT ![c] = <<>>], [r EXCEPT ![c] = "none"])
    BY DEF Put, Config
  <2>4. [left EXCEPT ![c] = <<>>] = left
    BY DEF Lefts
  <2> QED
    BY <2>2, <2>3, <2>4
<1>3. "none" \in Answers
  BY DEF Answers
<1>4. Covers(Answered(X, c, a, 0), k, v, left, WithRes(o, c, "none"), [gen EXCEPT ![c] = g])
  BY <1>2, <1>3, CoversShift, Zenon DEF a
<1> QED
  BY <1>4 DEF a

\* A lock section runs on an old Btree.
LEMMA OldWorkCovers ==
  ASSUME NEW X, NEW k, NEW bound \in Lefts, Fit(X, k, bound), NEW v, NEW left \in Lefts,
         NEW o \in OldStates, NEW gen \in Gens, Covers(X, k, v, left, o, gen),
         NEW c \in Clients, o.left[c] # <<>>, left[c] = <<>>, NEW g \in Nat,
         Tail(o.left[c]) = <<>> \/ g = gen[c]
  PROVE  \E b \in Answers :
           Covers(Answered(X, c, Says(Head(o.left[c]), k, o.vals[gen[c]]), Len(Tail(o.left[c]))), k,
                  v, left, WithRes(OldStep(o, c, gen, k), c, b), [gen EXCEPT ![c] = g])
<1> DEFINE q == Tail(o.left[c])
           n == Len(q)
           a == Says(Head(o.left[c]), k, o.vals[gen[c]])
           p == OldStep(o, c, gen, k)
<1>1. q \in Seq(Jobs) /\ n \in Nat
  BY HeadTail DEF OldStates, Lefts
<1>2. p \in OldStates /\ p.left[c] = q /\ p.res[c] = a
  <2>1. p \in OldStates /\ p.left = [o.left EXCEPT ![c] = q]
    BY OldStepType
  <2>2. p.res = [o.res EXCEPT ![c] = a]
    BY DEF OldStep
  <2>3. o.left \in [Clients -> Seq(Jobs)] /\ o.res \in [Clients -> Answers]
    BY DEF OldStates, Lefts
  <2> HIDE DEF p, q, a
  <2> QED
    BY <2>1, <2>2, <2>3
<1>3. Covers(X, k, v, left, p, gen)
  BY CoversStep
<1>4. WithRes(p, c, p.res[c]) = p /\ p.res[c] \in Answers
  BY <1>2, SameRes
<1> HIDE DEF p, q, a
<1>5. CASE n = 0
  <2>1. p.left[c] = <<>>
    BY <1>1, <1>2, <1>5
  <2>2. "none" \in Answers
    BY DEF Answers
  <2>3. Covers(Answered(X, c, p.res[c], 0), k, v, left, WithRes(p, c, "none"), [gen EXCEPT ![c] = g])
    BY <1>2, <1>3, <2>1, AnswerCovers, ZenonT(30)
  <2>4. Covers(Answered(X, c, a, n), k, v, left, WithRes(p, c, "none"), [gen EXCEPT ![c] = g])
    BY <1>2, <1>5, <2>3
  <2> QED
    BY <2>2, <2>4 DEF p, q, a
<1>6. CASE n > 0
  <2>1. q # <<>>
    BY <1>6
  <2>2. [gen EXCEPT ![c] = g] = gen
    BY <2>1 DEF q, Gens
  <2>3. ASSUME NEW x \in Reach(p, gen, k), Done(x)
        PROVE  Config(v, left, x.res) \in Answered(X, c, a, n)
    <3> DEFINE y == Config(v, left, x.res)
    <3>1. y \in X
      BY <1>3, <2>3 DEF Covers
    <3>2. y.left[c] = <<>>
      BY DEF Config
    <3> HIDE DEF y
    <3>3. Len(y.left[c]) <= n
      BY <1>1, <3>2
    <3>4. y \in Answered(X, c, a, n)
      BY <1>6, <3>1, <3>3 DEF Answered
    <3> QED
      BY <3>4 DEF y
  <2>4. Covers(Answered(X, c, a, n), k, v, left, p, gen)
    BY <2>3 DEF Covers
  <2>5. Covers(Answered(X, c, a, n), k, v, left, WithRes(p, c, p.res[c]), [gen EXCEPT ![c] = g])
    BY <1>4, <2>2, <2>4
  <2> QED
    BY <1>4, <2>5 DEF p, q, a
<1>7. n = 0 \/ n > 0
  BY <1>1
<1> QED
  BY <1>5, <1>6, <1>7, Zenon

\* A read is given up.
LEMMA GivesUpCovers ==
  ASSUME NEW X, NEW k, NEW bound \in Lefts, Fit(X, k, bound), NEW v, NEW left \in Lefts,
         NEW o \in OldStates, NEW gen \in Gens, Covers(X, k, v, left, o, gen),
         NEW c \in Clients, o.left[c] = <<>>, NEW g \in Nat,
         NEW rest, rest = [left EXCEPT ![c] = <<>>], NEW next, next = [gen EXCEPT ![c] = g]
  PROVE  Covers(GivesUp(X, c), k, v, rest, WithRes(o, c, "none"), next)
<1>1. GivesUp(X, c) = Ended(X, c)
  BY GivesUpFits, ZenonT(30)
<1>2. ASSUME NEW r \in [Clients -> Answers], Config(v, left, r) \in X
      PROVE  Config(v, [left EXCEPT ![c] = <<>>], [r EXCEPT ![c] = "none"]) \in GivesUp(X, c)
  <2>1. Put(Config(v, left, r), c, <<>>, "none") \in GivesUp(X, c)
    BY <1>1, <1>2 DEF Ended
  <2>2. Put(Config(v, left, r), c, <<>>, "none")
          = Config(v, [left EXCEPT ![c] = <<>>], [r EXCEPT ![c] = "none"])
    BY DEF Put, Config
  <2> QED
    BY <2>1, <2>2
<1>3. "none" \in Answers
  BY DEF Answers
<1>4. Covers(GivesUp(X, c), k, v, [left EXCEPT ![c] = <<>>], WithRes(o, c, "none"), [gen EXCEPT ![c] = g])
  BY <1>2, <1>3, CoversShift, ZenonT(30)
<1> QED
  BY <1>4

-----------------------------------------------------------------------------
(***************************************************************************)
(* Clear replaces the live Btree.  Everything left on it is now left on an *)
(* old one.                                                                *)
(***************************************************************************)
NoLeft == [c \in Clients |-> <<>>]

OldPart(p, gen, live) ==
  [vals |-> [p.vals EXCEPT ![live] = NoValue],
   left |-> [c \in Clients |-> IF gen[c] = live THEN <<>> ELSE p.left[c]],
   res  |-> p.res]

LivePart(p, gen, live) == [c \in Clients |-> IF gen[c] = live THEN p.left[c] ELSE <<>>]

LEMMA PartTypes ==
  ASSUME NEW p \in OldStates, NEW gen \in Gens, NEW live \in Nat
  PROVE  OldPart(p, gen, live) \in OldStates /\ LivePart(p, gen, live) \in Lefts
<1>1. p.left \in [Clients -> Seq(Jobs)] /\ p.res \in [Clients -> Answers] /\ p.vals \in [Nat -> Stores]
  BY DEF OldStates, Lefts
<1>2. <<>> \in Seq(Jobs) /\ NoValue \in Stores
  BY DEF Stores
<1>3. [p.vals EXCEPT ![live] = NoValue] \in [Nat -> Stores]
  BY <1>1, <1>2
<1>4. /\ [c \in Clients |-> IF gen[c] = live THEN <<>> ELSE p.left[c]] \in Lefts
      /\ [c \in Clients |-> IF gen[c] = live THEN p.left[c] ELSE <<>>] \in Lefts
  BY <1>1, <1>2 DEF Lefts
<1> QED
  BY <1>1, <1>3, <1>4 DEF OldStates, OldPart, LivePart

\* A step on the Btree that was live, and one on an older one.
LiveMoves(p, c, gen, live, k) ==
  LET job == Head(p.left[c])
      v   == p.vals[live]
      q   == OldStep(p, c, gen, k)
  IN  /\ OldPart(p, gen, live).left[c] = <<>> /\ LivePart(p, gen, live)[c] = p.left[c]
      /\ OldPart(q, gen, live) = WithRes(OldPart(p, gen, live), c, Says(job, k, v))
      /\ LivePart(q, gen, live) = [LivePart(p, gen, live) EXCEPT ![c] = Tail(p.left[c])]
      /\ q.vals[live] = Does(job, k, v)

OldMoves(p, c, gen, live, k) ==
  LET q == OldStep(p, c, gen, k)
  IN  /\ OldPart(p, gen, live).left[c] # <<>>
      /\ OldPart(q, gen, live) = OldStep(OldPart(p, gen, live), c, gen, k)
      /\ LivePart(q, gen, live) = LivePart(p, gen, live)
      /\ q.vals[live] = p.vals[live]

\* The old and the live part of the state after such a step.
LEMMA LivePartStep ==
  ASSUME NEW p \in OldStates, NEW gen \in Gens, NEW live \in Nat, NEW k,
         NEW c \in Clients, gen[c] = live, p.left[c] # <<>>
  PROVE  LiveMoves(p, c, gen, live, k)
<1> DEFINE says == Says(Head(p.left[c]), k, p.vals[live])
           does == Does(Head(p.left[c]), k, p.vals[live])
           tail == Tail(p.left[c])
           q == OldStep(p, c, gen, k)
<1>1. p.left \in [Clients -> Seq(Jobs)] /\ p.res \in [Clients -> Answers] /\ p.vals \in [Nat -> Stores]
  BY DEF OldStates, Lefts
<1>2. /\ q.vals = [p.vals EXCEPT ![live] = does] /\ q.left = [p.left EXCEPT ![c] = tail]
      /\ q.res = [p.res EXCEPT ![c] = says]
  BY DEF OldStep
<1>3. OldPart(p, gen, live).left[c] = <<>> /\ LivePart(p, gen, live)[c] = p.left[c]
  BY DEF OldPart, LivePart
<1> HIDE DEF q, tail, says, does
<1>4. q.vals[live] = does
  BY <1>1, <1>2
<1>5. LivePart(q, gen, live) = [LivePart(p, gen, live) EXCEPT ![c] = tail]
  BY <1>1, <1>2, Zenon DEF LivePart
<1>6. [q.vals EXCEPT ![live] = NoValue] = [p.vals EXCEPT ![live] = NoValue]
  BY <1>1, <1>2
<1>7. [d \in Clients |-> IF gen[d] = live THEN <<>> ELSE q.left[d]]
        = [d \in Clients |-> IF gen[d] = live THEN <<>> ELSE p.left[d]]
  BY <1>1, <1>2
<1>8. OldPart(q, gen, live) = WithRes(OldPart(p, gen, live), c, says)
  BY <1>2, <1>6, <1>7 DEF OldPart, WithRes
<1> QED
  BY <1>3, <1>4, <1>5, <1>8, Zenon DEF says, does, tail, q, LiveMoves

\* The same for a step on an older Btree.
LEMMA OldPartStep ==
  ASSUME NEW p \in OldStates, NEW gen \in Gens, NEW live \in Nat, NEW k,
         NEW c \in Clients, gen[c] # live, p.left[c] # <<>>
  PROVE  OldMoves(p, c, gen, live, k)
<1> DEFINE o == OldPart(p, gen, live)
           says == Says(Head(p.left[c]), k, p.vals[gen[c]])
           does == Does(Head(p.left[c]), k, p.vals[gen[c]])
           tail == Tail(p.left[c])
           q == OldStep(p, c, gen, k)
           rest == [d \in Clients |-> IF gen[d] = live THEN <<>> ELSE p.left[d]]
<1>1. /\ p.left \in [Clients -> Seq(Jobs)] /\ p.res \in [Clients -> Answers] /\ p.vals \in [Nat -> Stores]
      /\ gen[c] \in Nat
  BY DEF OldStates, Lefts, Gens
<1>2. /\ q.vals = [p.vals EXCEPT ![gen[c]] = does] /\ q.left = [p.left EXCEPT ![c] = tail]
      /\ q.res = [p.res EXCEPT ![c] = says]
  BY DEF OldStep
<1>3. o.vals = [p.vals EXCEPT ![live] = NoValue] /\ o.left = rest /\ o.res = p.res
  BY DEF OldPart
<1>4. o.left[c] = p.left[c] /\ o.vals[gen[c]] = p.vals[gen[c]]
  <2> HIDE DEF o
  <2> QED
    BY <1>1, <1>3
<1>5. OldStep(o, c, gen, k) =
        [vals |-> [o.vals EXCEPT ![gen[c]] = does], left |-> [o.left EXCEPT ![c] = tail],
         res |-> [o.res EXCEPT ![c] = says]]
  <2> HIDE DEF o
  <2> QED
    BY <1>4 DEF OldStep
<1> HIDE DEF q, o, tail, says, does
<1>6. [q.vals EXCEPT ![live] = NoValue] = [o.vals EXCEPT ![gen[c]] = does]
  BY <1>1, <1>2, <1>3, Zenon
<1>7. [d \in Clients |-> IF gen[d] = live THEN <<>> ELSE q.left[d]] = [rest EXCEPT ![c] = tail]
  BY <1>1, <1>2, ZenonT(30)
<1>8. OldPart(q, gen, live) = OldStep(o, c, gen, k)
  BY <1>2, <1>3, <1>5, <1>6, <1>7 DEF OldPart
<1>9. LivePart(q, gen, live) = LivePart(p, gen, live)
  BY <1>1, <1>2 DEF LivePart
<1>10. q.vals[live] = p.vals[live]
  BY <1>1, <1>2
<1> QED
  BY <1>4, <1>8, <1>9, <1>10, Zenon DEF q, o, OldMoves

\* Whatever is left can take effect before the replacement.
LEMMA Gather ==
  ASSUME NEW X, NEW k, NEW bound, Fit(X, k, bound),
         NEW o \in OldStates, NEW gen \in Gens, NEW live \in Nat,
         Covers(X, k, o.vals[live], LivePart(o, gen, live), OldPart(o, gen, live), gen),
         NEW p \in Reach(o, gen, k), Done(p)
  PROVE  Config(p.vals[live], NoLeft, p.res) \in X
<1> DEFINE Good(q) == Covers(X, k, q.vals[live], LivePart(q, gen, live), OldPart(q, gen, live), gen)
           Q == {q \in OldStates : Good(q)}
<1>1. ASSUME NEW q \in Q, NEW c \in Clients, q.left[c] # <<>>
      PROVE  OldStep(q, c, gen, k) \in Q
  <2> DEFINE n == OldStep(q, c, gen, k)
             old == OldPart(q, gen, live)
             left == LivePart(q, gen, live)
             v == q.vals[live]
  <2>1. q \in OldStates /\ n \in OldStates /\ old \in OldStates /\ left \in Lefts /\ v \in Stores
    <3>1. q \in OldStates
      OBVIOUS
    <3> QED
      BY <1>1, <3>1, OldStepType, PartTypes, ZenonT(30) DEF OldStates
  <2>2. Covers(X, k, v, left, old, gen)
    OBVIOUS
  <2>3. CASE gen[c] = live
    <3> DEFINE says == Says(Head(q.left[c]), k, v)
               does == Does(Head(q.left[c]), k, v)
               rest == [left EXCEPT ![c] = Tail(q.left[c])]
    <3>1. /\ old.left[c] = <<>> /\ left[c] = q.left[c]
          /\ OldPart(n, gen, live) = WithRes(old, c, says)
          /\ LivePart(n, gen, live) = rest
          /\ n.vals[live] = does
      <4>1. LiveMoves(q, c, gen, live, k)
        <5> HIDE DEF Q, n, old, left, v
        <5> QED  BY <1>1, <2>1, <2>3, LivePartStep, Zenon
      <4> QED
        BY <4>1, Zenon DEF LiveMoves
    <3>2. says \in Answers
      BY <1>1, <2>1, HeadTail, DoesType, Zenon DEF OldStates, Lefts
    <3>3. [gen EXCEPT ![c] = gen[c]] = gen /\ gen[c] \in Nat
      BY Zenon DEF Gens
    <3>4. \A r \in [Clients -> Answers] :
            Config(v, left, r) \in X => Config(does, rest, [r EXCEPT ![c] = says]) \in X
      <4> HIDE DEF v, left
      <4> SUFFICES ASSUME NEW r \in [Clients -> Answers], Config(v, left, r) \in X
          PROVE Config(does, rest, [r EXCEPT ![c] = says]) \in X
        BY Zenon
      <4>1. left[c] # <<>>
        BY <1>1, <3>1, Zenon
      <4> QED
        BY <3>1, <4>1, ConfigStep, Zenon
    <3> HIDE DEF says, does, rest, old, left, v, n, Q
    <3>5. Covers(X, k, does, rest, WithRes(old, c, says), [gen EXCEPT ![c] = gen[c]])
      BY <2>1, <2>2, <3>1, <3>2, <3>3, <3>4, CoversShift, ZenonT(30)
    <3>6. Covers(X, k, n.vals[live], LivePart(n, gen, live), OldPart(n, gen, live), gen)
      BY <3>1, <3>3, <3>5
    <3> QED
      BY <2>1, <3>6 DEF Q, n
  <2>4. CASE gen[c] # live
    <3>1. /\ old.left[c] # <<>>
          /\ OldPart(n, gen, live) = OldStep(old, c, gen, k)
          /\ LivePart(n, gen, live) = left
          /\ n.vals[live] = v
      <4>1. OldMoves(q, c, gen, live, k)
        <5> HIDE DEF Q, n, old, left, v
        <5> QED  BY <1>1, <2>1, <2>4, OldPartStep, ZenonT(30)
      <4> QED
        BY <4>1, Zenon DEF OldMoves
    <3> HIDE DEF old, left, v, n, Q
    <3>2. Covers(X, k, v, left, OldStep(old, c, gen, k), gen)
      BY <2>1, <2>2, <3>1, CoversStep
    <3>3. Covers(X, k, n.vals[live], LivePart(n, gen, live), OldPart(n, gen, live), gen)
      BY <3>1, <3>2
    <3> QED
      BY <2>1, <3>3 DEF Q, n
  <2> QED
    BY <2>3, <2>4
<1>2. StepClosed(Q, gen, k)
  BY <1>1 DEF StepClosed
<1>3. o \in Q /\ Q \in SUBSET OldStates
  OBVIOUS
<1>4. p \in Q
  <2> HIDE DEF Q
  <2> QED
    BY <1>2, <1>3, ReachLeast
<1> DEFINE old == OldPart(p, gen, live)
<1>5. p \in OldStates /\ Good(p) /\ old \in OldStates
  BY <1>4, PartTypes
<1>6. Done(old) /\ LivePart(p, gen, live) = NoLeft /\ old.res = p.res
  BY DEF Done, OldPart, LivePart, NoLeft
<1>7. old \in Reach(old, gen, k)
  BY <1>5, ReachSteps
<1>8. Config(p.vals[live], LivePart(p, gen, live), old.res) \in X
  <2> HIDE DEF old
  <2> QED
    BY <1>5, <1>6, <1>7 DEF Covers, old
<1> QED
  BY <1>6, <1>8

LEMMA ReplaceCovers ==
  ASSUME NEW X, NEW k \in Keys, NEW bound \in Lefts, Fit(X, k, bound),
         NEW o \in OldStates, NEW gen \in Gens, NEW live \in Nat,
         Covers(X, k, o.vals[live], LivePart(o, gen, live), OldPart(o, gen, live), gen),
         NEW c \in Clients, o.left[c] = <<>>, NEW g \in Nat
  PROVE  Covers(Answered(Asks(X, c, <<ReplaceJob>>, k), c, "ok", 0), k, NoValue, NoLeft,
                WithRes(o, c, "none"), [gen EXCEPT ![c] = g])
<1> DEFINE ops == <<ReplaceJob>>
           Y == Asks(X, c, ops, k)
           new == [bound EXCEPT ![c] = ops]
           one == [NoLeft EXCEPT ![c] = ops]
<1>1. ReplaceJob \in Jobs /\ ops \in Seq(Jobs) /\ ops # <<>> /\ Head(ops) = ReplaceJob /\ Tail(ops) = <<>>
  BY DEF ReplaceJob, ReadJob, InsertJob, DeleteJob, Jobs
<1>2. new \in Lefts
  BY <1>1 DEF Lefts
<1>3. Fit(Y, k, new) /\ \A x \in X : Put(x, c, ops, x.res[c]) \in Y
  BY <1>1, AsksFits, Zenon
<1>4. \A v : Does(ReplaceJob, k, v) = NoValue /\ Says(ReplaceJob, k, v) = "ok"
  BY DEF Does, Says, After, Answer, ReplaceJob
<1>5. one[c] = ops /\ [one EXCEPT ![c] = <<>>] = NoLeft /\ [NoLeft EXCEPT ![c] = <<>>] = NoLeft
      /\ NoLeft[c] = <<>>
  BY Zenon DEF NoLeft
<1> HIDE DEF Y, new, ops, one
<1>6. Answered(Y, c, "ok", 0) = Ended(Finished(Y, c, "ok"), c)
  BY <1>2, <1>3, LastAnswer, ZenonT(30)
<1> SUFFICES ASSUME NEW z \in Reach(WithRes(o, c, "none"), [gen EXCEPT ![c] = g], k), Done(z)
    PROVE  Config(NoValue, NoLeft, z.res) \in Answered(Y, c, "ok", 0)
  BY DEF Covers, Y, ops
<1>7. "none" \in Answers
  BY DEF Answers
<1>8. PICK p \in Reach(o, gen, k) :
        p.left[c] = <<>> /\ p.res[c] = o.res[c] /\ z = WithRes(p, c, "none")
  BY <1>7, ReachShift
<1>9. /\ p \in OldStates /\ p.left = z.left /\ z.res = [p.res EXCEPT ![c] = "none"]
      /\ p.res \in [Clients -> Answers]
  <2>1. p \in OldStates
    BY <1>8, ReachSteps
  <2> QED
    BY <1>8, <2>1 DEF WithRes, OldStates
<1>10. Done(p)
  BY <1>9 DEF Done
<1> DEFINE r == p.res
           v == p.vals[live]
<1>11. Config(v, NoLeft, r) \in X
  BY <1>10, Gather
<1> HIDE DEF r, v
<1>12. Config(v, one, r) \in Y
  <2>1. Config(v, NoLeft, r).res[c] = r[c]
    BY DEF Config
  <2>2. Put(Config(v, NoLeft, r), c, ops, r[c]) \in Y
    BY <1>3, <1>11, <2>1, ZenonT(30)
  <2>3. Put(Config(v, NoLeft, r), c, ops, r[c]) = Config(v, one, [r EXCEPT ![c] = r[c]])
    BY DEF Put, Config, one
  <2>4. [r EXCEPT ![c] = r[c]] = r
    BY <1>9 DEF r
  <2> QED
    BY <2>2, <2>3, <2>4
<1>13. Config(NoValue, NoLeft, [r EXCEPT ![c] = "ok"]) \in Y
  <2>1. Config(Does(Head(one[c]), k, v), [one EXCEPT ![c] = Tail(one[c])],
               [r EXCEPT ![c] = Says(Head(one[c]), k, v)]) \in Y
    <3>1. one[c] # <<>>
      BY <1>1, <1>5
    <3> QED
      BY <1>3, <1>12, <3>1, ConfigStep, ZenonT(30)
  <2>2. Head(one[c]) = ReplaceJob /\ Tail(one[c]) = <<>>
    BY <1>1, <1>5
  <2> QED
    BY <1>4, <1>5, <2>1, <2>2, Zenon
<1> DEFINE x == Config(NoValue, NoLeft, [r EXCEPT ![c] = "ok"])
<1>14. x.left[c] = <<>> /\ x.res[c] = "ok"
  <2>1. r \in [Clients -> Answers]
    BY <1>9 DEF r
  <2> QED
    BY <1>5, <2>1 DEF Config
<1>15. Put(x, c, <<>>, "none") \in Answered(Y, c, "ok", 0)
  <2> HIDE DEF x
  <2> QED
    BY <1>6, <1>13, <1>14 DEF Ended, Finished, x
<1>16. Put(x, c, <<>>, "none") =
         Config(NoValue, [NoLeft EXCEPT ![c] = <<>>], [[r EXCEPT ![c] = "ok"] EXCEPT ![c] = "none"])
  BY DEF Put, Config
<1>17. [[r EXCEPT ![c] = "ok"] EXCEPT ![c] = "none"] = z.res
  BY <1>9 DEF r
<1> QED
  BY <1>5, <1>15, <1>16, <1>17

=============================================================================
