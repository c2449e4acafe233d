----------------------------- MODULE WalkProofs -----------------------------
(***************************************************************************)
(* Walks that a recursive function makes round by round, adding to a set    *)
(* what is next of its members: Reached of Files, Chain of Fat32.  What a   *)
(* walk ends with is the least set that is closed under next, once it has   *)
(* gone as many rounds as there are things to reach.                        *)
(***************************************************************************)
EXTENDS Integers, FiniteSetTheorems, WellFoundedInduction, TLAPS

(* A set of numbers that is not empty has a least one.                      *)
LEMMA Least ==
  ASSUME NEW P, P \subseteq Nat, P # {}
  PROVE  \E m \in P : \A k \in P : m <= k
<1> DEFINE R == OpToRel(<, Nat)
<1>1. IsWellFoundedOn(R, Nat)
  BY NatLessThanWellFounded
<1>2. ASSUME NEW x \in Nat, NEW y \in Nat
      PROVE  <<x, y>> \in R <=> x < y
  BY DEF OpToRel
<1> HIDE DEF R
<1>3. PICK m \in P : \A k \in P : ~(<<k, m>> \in R)
  BY <1>1, WFMin
<1>4. ASSUME NEW k \in P PROVE m <= k
  <2>1. k \in Nat /\ m \in Nat
    OBVIOUS
  <2>2. ~(k < m)
    BY <1>2, <1>3, <2>1
  <2> QED
    BY <2>1, <2>2
<1> QED
  BY <1>4

(* Induction, stated of a set and not of a predicate.                       *)
LEMMA Climb ==
  ASSUME NEW a \in Nat, NEW b \in Nat, NEW Good, a \in Good,
         \A k \in a + 1 .. b : k - 1 \in Good => k \in Good
  PROVE  \A k \in a .. b : k \in Good
<1> DEFINE Bad == (a .. b) \ Good
<1>1. SUFFICES ASSUME Bad # {} PROVE FALSE
  OBVIOUS
<1>2. Bad \subseteq Nat
  OBVIOUS
<1>3. \E m \in Bad : \A k \in Bad : m <= k
  <2> HIDE DEF Bad
  <2> QED
    BY <1>1, <1>2, Least
<1>4. PICK m \in Bad : \A k \in Bad : m <= k
  BY <1>3
<1>5. m \in a + 1 .. b /\ m \notin Good
  OBVIOUS
<1>6. m - 1 \in a .. b /\ ~(m <= m - 1)
  BY <1>5
<1>7. m - 1 \in Good
  BY <1>4, <1>6
<1> QED
  BY <1>5, <1>7

(* One round of a walk: s and all that is next of it.                       *)
Further(s, next) == s \union UNION {next[x] : x \in s}
(* w lists the rounds of a walk from b, up to round m.                      *)
Stepped(w, b, next, m) ==
  w[0] = b /\ \A k \in 1 .. m : w[k] = Further(w[k - 1], next)
(* g is the function that Reached and Chain define by recursion.            *)
IsWithin(g, b, next, N) ==
  g = [k \in 0 .. N |-> IF k = 0 THEN b ELSE Further(g[k - 1], next)]

(* There is such a function: what a recursive definition chooses exists.    *)
LEMMA WithinExists ==
  ASSUME NEW N \in Nat, NEW b, NEW next
  PROVE  \E g : IsWithin(g, b, next, N)
<1> DEFINE Good == {m \in 0 .. N : \E g : Stepped(g, b, next, m)}
<1>1. 0 \in Good
  <2>1. Stepped([k \in {0} |-> b], b, next, 0)
    BY DEF Stepped
  <2> QED
    BY <2>1
<1>2. ASSUME NEW m \in 1 .. N, m - 1 \in Good PROVE m \in Good
  <2>1. PICK g : Stepped(g, b, next, m - 1)
    BY <1>2
  <2> DEFINE h == [k \in 0 .. m |-> IF k = m THEN Further(g[m - 1], next) ELSE g[k]]
  <2>2. Stepped(h, b, next, m)
    BY <2>1 DEF Stepped
  <2> QED
    BY <2>2
<1>3. N \in Good
  <2> HIDE DEF Good
  <2>1. \A m \in 0 .. N : m \in Good
    BY <1>1, <1>2, Climb
  <2> QED
    BY <2>1
<1>4. PICK g : Stepped(g, b, next, N)
  BY <1>3
<1> DEFINE h == [k \in 0 .. N |-> g[k]]
<1>5. ASSUME NEW k \in 0 .. N
      PROVE  h[k] = IF k = 0 THEN b ELSE Further(h[k - 1], next)
  <2>1. CASE k = 0
    BY <1>4, <2>1 DEF Stepped
  <2>2. CASE k # 0
    <3>1. k \in 1 .. N /\ k - 1 \in 0 .. N
      BY <2>2
    <3>2. h[k] = g[k] /\ h[k - 1] = g[k - 1]
      BY <3>1
    <3> QED
      BY <1>4, <2>2, <3>1, <3>2 DEF Stepped
  <2> QED
    BY <2>1, <2>2
<1>6. IsWithin(h, b, next, N)
  BY <1>5 DEF IsWithin
<1> QED
  BY <1>6

(* What a walk reaches is in every set that it begins in and that is closed *)
(* under next.                                                              *)
LEMMA WalkLeast ==
  ASSUME NEW N \in Nat, NEW b, NEW next, NEW w, Stepped(w, b, next, N),
         NEW S, b \subseteq S, \A x \in S : next[x] \subseteq S
  PROVE  w[N] \subseteq S
<1> DEFINE Good == {k \in 0 .. N : w[k] \subseteq S}
<1>1. 0 \in Good
  BY DEF Stepped
<1>2. ASSUME NEW k \in 1 .. N, k - 1 \in Good PROVE k \in Good
  BY <1>2 DEF Stepped, Further
<1>3. N \in Good
  <2> HIDE DEF Good
  <2>1. \A m \in 0 .. N : m \in Good
    BY <1>1, <1>2, Climb
  <2> QED
    BY <2>1
<1> QED
  BY <1>3

(* What it reaches is itself closed: a walk that adds something of V in     *)
(* every round would, after as many rounds as V has members, hold more than *)
(* those.                                                                   *)
LEMMA WalkClosed ==
  ASSUME NEW V, IsFiniteSet(V), NEW S, S \subseteq V, NEW n \in S, NEW next,
         \A x \in S : next[x] \subseteq S,
         NEW w, Stepped(w, {n}, next, Cardinality(V))
  PROVE  /\ n \in w[Cardinality(V)]
         /\ w[Cardinality(V)] \subseteq S
         /\ \A x \in w[Cardinality(V)] : next[x] \subseteq w[Cardinality(V)]
<1> DEFINE N == Cardinality(V)
<1>1. N \in Nat
  BY FS_CardinalityType
<1>2. Stepped(w, {n}, next, N)
  OBVIOUS
<1> HIDE DEF N
<1>3. \A k \in 0 .. N : n \in w[k] /\ w[k] \subseteq S
  <2> DEFINE Good == {k \in 0 .. N : n \in w[k] /\ w[k] \subseteq S}
  <2>1. 0 \in Good
    BY <1>1, <1>2 DEF Stepped
  <2>2. ASSUME NEW k \in 1 .. N, k - 1 \in Good PROVE k \in Good
    BY <1>1, <1>2, <2>2 DEF Stepped, Further
  <2>3. \A k \in 0 .. N : k \in Good
    <3> HIDE DEF Good
    <3> QED
      BY <1>1, <2>1, <2>2, Climb
  <2> QED
    BY <2>3
<1>4. ASSUME NEW k \in 1 .. N
      PROVE  w[k] = Further(w[k - 1], next) /\ w[k - 1] \subseteq w[k]
  <2>1. w[k] = Further(w[k - 1], next)
    BY <1>2 DEF Stepped
  <2> QED
    BY <2>1 DEF Further
<1>5. PICK j \in 1 .. N : w[j] = w[j - 1]
  <2>1. SUFFICES ASSUME \A k \in 1 .. N : w[k] # w[k - 1] PROVE FALSE
    OBVIOUS
  <2>2. \A k \in 0 .. N : IsFiniteSet(w[k]) /\ Cardinality(w[k]) \in Nat
    <3>1. TAKE k \in 0 .. N
    <3>2. w[k] \subseteq V
      BY <1>3
    <3> QED
      BY <3>2, FS_Subset, FS_CardinalityType
  <2> DEFINE Good == {k \in 0 .. N : Cardinality(w[k]) >= k + 1}
  <2>3. 0 \in Good
    <3>1. w[0] = {n}
      BY <1>2 DEF Stepped
    <3>2. Cardinality(w[0]) = 1
      BY <3>1, FS_Singleton
    <3> QED
      BY <1>1, <3>2
  <2>4. ASSUME NEW k \in 1 .. N, k - 1 \in Good PROVE k \in Good
    <3>1. k \in 0 .. N /\ k - 1 \in 0 .. N
      BY <1>1
    <3>2. Cardinality(w[k - 1]) >= k
      BY <2>2, <2>4, <3>1
    <3>3. w[k - 1] \subseteq w[k] /\ w[k - 1] # w[k]
      BY <1>4, <2>1
    <3>4. Cardinality(w[k - 1]) < Cardinality(w[k])
      BY <2>2, <3>1, <3>3, FS_Subset
    <3> QED
      BY <2>2, <3>1, <3>2, <3>4
  <2>5. N \in Good
    <3> HIDE DEF Good
    <3>1. \A k \in 0 .. N : k \in Good
      BY <1>1, <2>3, <2>4, Climb
    <3> QED
      BY <1>1, <3>1
  <2>6. w[N] \subseteq V /\ Cardinality(w[N]) \in Nat
    BY <1>1, <1>3, <2>2
  <2>7. Cardinality(w[N]) <= N
    BY <2>6, FS_Subset DEF N
  <2> QED
    BY <1>1, <2>5, <2>6, <2>7
<1>6. w[N] = w[j]
  <2> DEFINE Good == {k \in j .. N : w[k] = w[j]}
  <2>1. j \in Nat /\ j \in Good
    BY <1>1
  <2>2. ASSUME NEW k \in j + 1 .. N, k - 1 \in Good PROVE k \in Good
    <3>1. w[k - 1] = w[j - 1] /\ k \in 1 .. N
      BY <1>1, <1>5, <2>2
    <3>2. w[k] = w[j]
      BY <1>4, <3>1
    <3> QED
      BY <3>2
  <2>3. \A k \in j .. N : k \in Good
    <3> HIDE DEF Good
    <3> QED
      BY <1>1, <2>1, <2>2, Climb
  <2>4. N \in Good
    BY <1>1, <2>3
  <2> QED
    BY <2>4
<1>7. w[N] = Further(w[N], next)
  BY <1>4, <1>5, <1>6
<1>8. n \in w[N] /\ w[N] \subseteq S /\ \A x \in w[N] : next[x] \subseteq w[N]
  BY <1>1, <1>3, <1>7 DEF Further
<1> QED
  BY <1>8 DEF N
=============================================================================
