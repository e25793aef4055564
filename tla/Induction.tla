----------------------------- MODULE Induction -----------------------------
(***************************************************************************)
(* Induction over the natural numbers in the form the proofs of this       *)
(* project use: the property is a set of numbers, not an operator.         *)
(***************************************************************************)
EXTENDS Integers, NaturalsInduction, WellFoundedInduction, TLAPS

\* A non-empty set of naturals has a least element.
LEMMA Least ==
  ASSUME NEW T \in SUBSET Nat, T # {}
  PROVE  \E x \in T : \A y \in T : x <= y
<1> DEFINE R == {ss \in Nat \X Nat : ss[1] < ss[2]}
<1>1. IsWellFoundedOn(R, Nat)
  BY NatLessThanWellFounded, Zenon DEF OpToRel
<1> HIDE DEF R
<1>2. PICK x \in T : \A y \in T : ~(<<y, x>> \in R)
  BY <1>1, WFMin, Zenon
<1>3. \A y \in T : ~ (y < x)
  BY <1>2, Zenon DEF R
<1> QED
  BY <1>3

\* A set with 0 and with the successor of each of its naturals has them all.
LEMMA SetInduction ==
  ASSUME NEW S, 0 \in S, \A n \in Nat : n \in S => n + 1 \in S
  PROVE  Nat \subseteq S
<1> SUFFICES ASSUME Nat \ S # {} PROVE FALSE
  OBVIOUS
<1>1. PICK x \in Nat \ S : \A y \in Nat \ S : x <= y
  BY Least, Zenon
<1>2. x # 0 /\ x - 1 \in Nat
  BY <1>1
<1>3. x - 1 \in S
  BY <1>1, <1>2
<1> QED
  BY <1>2, <1>3

\* The first n + 1 values of the iteration of F from a.
Iterates(g, a, F, n) ==
  g[0] = a /\ \A i \in 1 .. n : g[i] = F[g[i - 1]]

\* Two iterations of F from a agree as far as both go.
LEMMA IteratesUnique ==
  ASSUME NEW F, NEW a, NEW g, NEW h, NEW n \in Nat, NEW m \in Nat,
         Iterates(g, a, F, n), Iterates(h, a, F, m)
  PROVE  \A i \in Nat : i <= n /\ i <= m => g[i] = h[i]
<1> DEFINE Same == {i \in Nat : i <= n /\ i <= m => g[i] = h[i]}
<1>1. 0 \in Same
  BY DEF Iterates
<1>2. ASSUME NEW i \in Nat, i \in Same
      PROVE  i + 1 \in Same
  <2>1. CASE i + 1 <= n /\ i + 1 <= m
    <3>1. i + 1 \in 1 .. n /\ i + 1 \in 1 .. m /\ (i + 1) - 1 = i
      BY <2>1
    <3>2. g[i + 1] = F[g[i]] /\ h[i + 1] = F[h[i]]
      BY <3>1 DEF Iterates
    <3>3. g[i] = h[i]
      BY <1>2, <2>1
    <3> QED
      BY <3>2, <3>3
  <2> QED
    BY <2>1
<1> HIDE DEF Same
<1>3. Nat \subseteq Same
  BY <1>1, <1>2, SetInduction
<1> QED
  BY <1>3 DEF Same

IsIteration(f, S, F, a) ==
  f \in [Nat -> S] /\ f[0] = a /\ \A n \in Nat : f[n + 1] = F[f[n]]

\* A function on a set can be iterated from any of its elements.
LEMMA Iteration ==
  ASSUME NEW S, NEW F, F \in [S -> S], NEW a, a \in S
  PROVE  \E f : IsIteration(f, S, F, a)
<1> DEFINE Part(n) == {g \in [0 .. n -> S] : Iterates(g, a, F, n)}
           Some == {n \in Nat : Part(n) # {}}
<1>1. 0 \in Some
  <2>1. [i \in 0 .. 0 |-> a] \in Part(0)
    BY DEF Iterates
  <2> QED
    BY <2>1
<1>2. ASSUME NEW n \in Nat, n \in Some
      PROVE  n + 1 \in Some
  <2>1. PICK g \in [0 .. n -> S] : Iterates(g, a, F, n)
    BY <1>2
  <2> DEFINE h == [i \in 0 .. n + 1 |-> IF i <= n THEN g[i] ELSE F[g[n]]]
  <2>2. h \in [0 .. n + 1 -> S]
    <3>1. n \in 0 .. n /\ \A i \in 0 .. n + 1 : i <= n => i \in 0 .. n
      OBVIOUS
    <3> QED
      BY <2>1, <3>1
  <2>3. h[0] = a
    BY <2>1 DEF Iterates
  <2>4. ASSUME NEW i \in 1 .. n + 1
        PROVE  h[i] = F[h[i - 1]]
    <3>1. i \in 0 .. n + 1 /\ i - 1 \in 0 .. n + 1 /\ i - 1 <= n
      OBVIOUS
    <3>2. h[i - 1] = g[i - 1]
      BY <3>1
    <3>3. CASE i <= n
      BY <2>1, <3>1, <3>2, <3>3 DEF Iterates
    <3>4. CASE i = n + 1
      BY <3>1, <3>2, <3>4
    <3> QED
      BY <3>3, <3>4
  <2> HIDE DEF h
  <2>5. h \in Part(n + 1)
    BY <2>2, <2>3, <2>4 DEF Iterates
  <2> QED
    BY <2>5
<1> HIDE DEF Some
<1>3. Nat \subseteq Some
  BY <1>1, <1>2, SetInduction
<1> DEFINE G(n) == CHOOSE g \in Part(n) : TRUE
           f == [n \in Nat |-> G(n)[n]]
<1>4. \A n \in Nat : G(n) \in [0 .. n -> S] /\ Iterates(G(n), a, F, n)
  <2>1. \A n \in Nat : Part(n) # {}
    BY <1>3 DEF Some
  <2>2. \A n \in Nat : G(n) \in Part(n)
    BY <2>1
  <2> QED
    BY <2>2, Zenon
<1> HIDE DEF G
<1>5. f \in [Nat -> S]
  BY <1>4
<1>6. f[0] = a
  BY <1>4 DEF Iterates
<1>7. ASSUME NEW n \in Nat
      PROVE  f[n + 1] = F[f[n]]
  <2>1. G(n + 1)[n] = G(n)[n]
    BY <1>4, IteratesUnique
  <2>2. G(n + 1)[n + 1] = F[G(n + 1)[n]]
    <3>1. n + 1 \in 1 .. n + 1 /\ (n + 1) - 1 = n
      OBVIOUS
    <3>2. Iterates(G(n + 1), a, F, n + 1)
      BY <1>4
    <3> QED
      BY <3>1, <3>2 DEF Iterates
  <2> QED
    BY <2>1, <2>2
<1> HIDE DEF f
<1> QED
  BY <1>5, <1>6, <1>7 DEF IsIteration

=============================================================================
