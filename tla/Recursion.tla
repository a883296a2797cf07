------------------------------ MODULE Recursion ------------------------------
(***************************************************************************)
(* Induction over the natural numbers, and the existence of recursive      *)
(* functions, from the fact that every set of natural numbers that is not  *)
(* empty has a least element.  The library states induction for a          *)
(* predicate P(_); here it is stated for a set, and a recursive function   *)
(* is given by the functions that say where to stop and how to go on.      *)
(***************************************************************************)
EXTENDS Integers, WellFoundedInduction, TLAPS

LEMMA LessThanWellFounded == IsWellFoundedOn({p \in Nat \X Nat : p[1] < p[2]}, Nat)
BY NatLessThanWellFounded, Zenon DEF OpToRel

LEMMA LeastNumber ==
  ASSUME NEW T, T \subseteq Nat, T # {}
  PROVE  \E x \in T : \A y \in T : x <= y
<1> DEFINE R == {p \in Nat \X Nat : p[1] < p[2]}
<1>1. IsWellFoundedOn(R, Nat)
  BY LessThanWellFounded
<1>2. \A x, y \in Nat : x < y => <<x, y>> \in R
  OBVIOUS
<1> HIDE DEF R
<1>3. \E x \in T : \A y \in T : ~ (<<y, x>> \in R)
  BY <1>1, WFMin, Zenon
<1>4. PICK x \in T : \A y \in T : ~ (<<y, x>> \in R)
  BY <1>3
<1>5. \A y \in T : ~(y < x)
  BY <1>2, <1>4
<1> QED BY <1>5

\* Numbers, each of which is in a set if all smaller ones are.
LEMMA StrongInduction ==
  ASSUME NEW S, \A n \in Nat : (\A m \in 0 .. n - 1 : m \in S) => n \in S
  PROVE  \A n \in Nat : n \in S
<1> SUFFICES ASSUME Nat \ S # {} PROVE FALSE
  OBVIOUS
<1>1. PICK n \in Nat \ S : \A m \in Nat \ S : n <= m
  BY LeastNumber
<1>2. \A m \in 0 .. n - 1 : m \in S
  BY <1>1
<1> QED BY <1>1, <1>2

LEMMA Induction ==
  ASSUME NEW S, 0 \in S, \A n \in Nat : n \in S => n + 1 \in S
  PROVE  \A n \in Nat : n \in S
<1>1. ASSUME NEW n \in Nat, \A m \in 0 .. n - 1 : m \in S PROVE n \in S
  <2>1. CASE n = 0
    BY <2>1
  <2>2. CASE n # 0
    <3>1. n - 1 \in 0 .. n - 1 /\ n - 1 \in Nat /\ (n - 1) + 1 = n
      BY <2>2
    <3> QED BY <1>1, <3>1
  <2> QED BY <2>1, <2>2
<1> QED BY <1>1, StrongInduction

\* What a recursive function has to be: it starts with a value where there is
\* nothing before, and makes each other value from the one before it.
Right(f, d, start, first, prev, step) ==
  f[d] = IF d \in first THEN start ELSE step[<<f[prev[d]], d>>]

Recursive(f, D, start, first, prev, step) ==
  \A d \in D : Right(f, d, start, first, prev, step)

\* What comes before has a smaller rank.
Descends(D, rank, first, prev) ==
  /\ rank \in [D -> Nat]
  /\ \A d \in D \ first : prev[d] \in D /\ rank[prev[d]] < rank[d]

RightBelow(n, f, D, rank, start, first, prev, step) ==
  \A d \in D : rank[d] < n => Right(f, d, start, first, prev, step)

LEMMA RecursiveUnique ==
  ASSUME NEW D, NEW rank, NEW first, NEW prev, NEW start, NEW step,
         Descends(D, rank, first, prev),
         NEW n, n \in Nat, NEW f, RightBelow(n, f, D, rank, start, first, prev, step),
         NEW g, RightBelow(n, g, D, rank, start, first, prev, step)
  PROVE  \A d \in D : rank[d] < n => f[d] = g[d]
<1> USE DEF Descends, RightBelow
<1> DEFINE S == {r \in Nat : \A d \in D : rank[d] = r /\ r < n => f[d] = g[d]}
<1>1. ASSUME NEW r \in Nat, \A m \in 0 .. r - 1 : m \in S PROVE r \in S
  <2>1. ASSUME NEW d \in D, rank[d] = r, r < n PROVE f[d] = g[d]
    <3>1. CASE d \in first
      BY <2>1, <3>1 DEF Right
    <3>2. CASE d \notin first
      <4>1. prev[d] \in D /\ rank[prev[d]] \in 0 .. r - 1
        BY <2>1, <3>2
      <4>2. rank[prev[d]] \in S /\ rank[prev[d]] < n
        BY <1>1, <2>1, <4>1
      <4>3. f[prev[d]] = g[prev[d]]
        BY <4>1, <4>2
      <4> QED BY <2>1, <3>2, <4>3 DEF Right
    <3> QED BY <3>1, <3>2
  <2> QED BY <2>1
<1> HIDE DEF S
<1>2. \A r \in Nat : r \in S
  BY <1>1, StrongInduction
<1> QED BY <1>2 DEF S

\* It exists if what comes before is smaller.
LEMMA RecursiveExists ==
  ASSUME NEW D, NEW V, NEW rank, NEW first, NEW prev,
         NEW start, start \in V, NEW step, step \in [V \X D -> V],
         Descends(D, rank, first, prev)
  PROVE  \E f \in [D -> V] : Recursive(f, D, start, first, prev, step)
<1> USE DEF Descends
<1> DEFINE Ok(f, d) == Right(f, d, start, first, prev, step)
           Good(n) == {f \in [D -> V] : \A d \in D : rank[d] < n => Ok(f, d)}
           S == {n \in Nat : Good(n) # {}}
<1>1. 0 \in S
  <2>1. [d \in D |-> start] \in Good(0)
    OBVIOUS
  <2> QED BY <2>1
<1>2. ASSUME NEW n \in Nat, n \in S PROVE n + 1 \in S
  <2>1. PICK f \in [D -> V] : \A d \in D : rank[d] < n => Ok(f, d)
    BY <1>2
  <2> DEFINE next(d) == IF d \in first THEN start ELSE step[<<f[prev[d]], d>>]
             g == [d \in D |-> next(d)]
  <2>2. \A d \in D : next(d) \in V
    BY <2>1
  <2>3. g \in [D -> V]
    BY <2>2
  <2>4. ASSUME NEW d \in D, rank[d] < n PROVE g[d] = f[d]
    BY <2>1, <2>4 DEF Right
  <2>5. ASSUME NEW d \in D, rank[d] < n + 1, d \notin first
        PROVE  prev[d] \in D /\ rank[prev[d]] < n
    BY <2>5
  <2>6. \A d \in D : g[d] = next(d)
    OBVIOUS
  <2> HIDE DEF g
  <2>7. ASSUME NEW d \in D, rank[d] < n + 1 PROVE Ok(g, d)
    <3>1. CASE d \in first
      BY <2>6, <3>1 DEF Right
    <3>2. CASE d \notin first
      <4>1. g[prev[d]] = f[prev[d]]
        BY <2>4, <2>5, <2>7, <3>2
      <4> QED BY <2>6, <3>2, <4>1 DEF Right
    <3> QED BY <3>1, <3>2
  <2>8. g \in Good(n + 1)
    BY <2>3, <2>7
  <2> QED BY <2>8
<1>3. \A n \in Nat : Good(n) # {}
  <2> HIDE DEF Good
  <2>1. \A n \in Nat : n \in S => n + 1 \in S
    BY <1>2
  <2> HIDE DEF S
  <2>2. \A n \in Nat : n \in S
    BY <1>1, <2>1, Induction
  <2> QED BY <2>2 DEF S
<1> DEFINE Upto(n) == CHOOSE f \in [D -> V] : \A d \in D : rank[d] < n => Ok(f, d)
           h == [d \in D |-> Upto(rank[d] + 1)[d]]
<1>4. ASSUME NEW n \in Nat
      PROVE  Upto(n) \in [D -> V] /\ \A d \in D : rank[d] < n => Ok(Upto(n), d)
  BY <1>3
<1> HIDE DEF Upto
<1>5. \A d \in D : rank[d] \in Nat /\ rank[d] + 1 \in Nat
  OBVIOUS
<1>6. h \in [D -> V]
  BY <1>4, <1>5
<1>7. ASSUME NEW d \in D PROVE Ok(h, d)
  <2> DEFINE f == Upto(rank[d] + 1)
  <2>1. h[d] = f[d] /\ Ok(f, d)
    BY <1>4, <1>5
  <2>2. ASSUME d \notin first PROVE h[prev[d]] = f[prev[d]]
    <3> DEFINE p == prev[d]
               m == rank[p] + 1
               g == Upto(m)
    <3>1. p \in D /\ rank[p] < rank[d] /\ m \in Nat /\ rank[p] \in Nat
      BY <2>2
    <3>2. h[p] = g[p]
      BY <3>1
    <3>3. \A e \in D : rank[e] < m => Ok(g, e) /\ Ok(f, e)
      <4>1. \A e \in D : rank[e] < m => rank[e] < rank[d] + 1
        BY <1>5, <3>1
      <4> QED BY <1>4, <1>5, <3>1, <4>1
    <3> HIDE DEF f, g, h, p
    <3>4. \A e \in D : rank[e] < m => g[e] = f[e]
      <4>1. /\ RightBelow(m, f, D, rank, start, first, prev, step)
            /\ RightBelow(m, g, D, rank, start, first, prev, step)
        BY <3>3 DEF RightBelow
      <4>2. m \in Nat /\ Descends(D, rank, first, prev)
        BY <3>1
      <4> HIDE DEF m, Descends
      <4> QED BY <4>1, <4>2, RecursiveUnique
    <3>5. rank[p] < m
      BY <3>1
    <3> QED BY <3>1, <3>2, <3>4, <3>5 DEF p
  <2> HIDE DEF h, f
  <2> QED BY <2>1, <2>2 DEF Right
<1> HIDE DEF h
<1> QED BY <1>6, <1>7 DEF Recursive

=============================================================================
