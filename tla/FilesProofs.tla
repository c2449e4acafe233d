---------------------------- MODULE FilesProofs ----------------------------
(***************************************************************************)
(* The tree and the descriptors (Files), for any nodes, names, programs    *)
(* and sizes of the descriptor table.                                      *)
(*                                                                         *)
(* Files walks the tree with a recursive function (Reached).  The first    *)
(* section finds out what such a walk reaches: the least set that is       *)
(* closed under the edges.  The next ones say what the operations do to    *)
(* the child lists, then to what is below and above a node; Forest is the  *)
(* invariant they keep.  The last ones count descriptors and state the     *)
(* theorems.                                                               *)
(***************************************************************************)
EXTENDS Files, WalkProofs

---------------------------------------------------------------------------
(* Walks.                                                                   *)

(* Reached is the last of as many rounds as there are nodes.                *)
LEMMA ReachedSteps ==
  ASSUME IsFiniteSet(Nodes), NEW n, NEW next
  PROVE  \E w : /\ Stepped(w, {n}, next, Cardinality(Nodes))
                /\ Reached(n, next) = w[Cardinality(Nodes)]
<1> DEFINE N == Cardinality(Nodes)
           w == CHOOSE g : IsWithin(g, {n}, next, N)
<1>1. N \in Nat
  BY FS_CardinalityType
<1>2. \E g : IsWithin(g, {n}, next, N)
  BY <1>1, WithinExists
<1>3. IsWithin(w, {n}, next, N)
  BY <1>2
<1>4. Reached(n, next) = w[N]
  BY DEF Reached, Further, IsWithin
<1> HIDE DEF w, N
<1>5. ASSUME NEW k \in 0 .. N
      PROVE  w[k] = IF k = 0 THEN {n} ELSE Further(w[k - 1], next)
  BY <1>3 DEF IsWithin
<1>6. Stepped(w, {n}, next, N)
  BY <1>1, <1>5 DEF Stepped
<1> QED
  BY <1>4, <1>6 DEF N

(* Every set with n that is closed under next holds what is reached from n. *)
LEMMA ReachedLeast ==
  ASSUME IsFiniteSet(Nodes), NEW n, NEW next, NEW S, n \in S, \A x \in S : next[x] \subseteq S
  PROVE  Reached(n, next) \subseteq S
<1>1. Cardinality(Nodes) \in Nat
  BY FS_CardinalityType
<1>2. PICK w : /\ Stepped(w, {n}, next, Cardinality(Nodes))
               /\ Reached(n, next) = w[Cardinality(Nodes)]
  BY ReachedSteps
<1>3. {n} \subseteq S
  OBVIOUS
<1> QED
  BY <1>1, <1>2, <1>3, WalkLeast

(* What is reached is itself closed.                                        *)
LEMMA ReachedClosed ==
  ASSUME IsFiniteSet(Nodes), NEW S, S \subseteq Nodes, NEW n \in S, NEW next,
         \A x \in S : next[x] \subseteq S
  PROVE  /\ n \in Reached(n, next)
         /\ \A x \in Reached(n, next) : next[x] \subseteq Reached(n, next)
<1>1. PICK w : /\ Stepped(w, {n}, next, Cardinality(Nodes))
               /\ Reached(n, next) = w[Cardinality(Nodes)]
  BY ReachedSteps
<1>2. /\ n \in w[Cardinality(Nodes)]
      /\ \A x \in w[Cardinality(Nodes)] : next[x] \subseteq w[Cardinality(Nodes)]
  BY <1>1, WalkClosed
<1> QED
  BY <1>1, <1>2

---------------------------------------------------------------------------
(* Lists of nodes.                                                          *)

(* RemoveFirst returns the list as it is, or without one occurrence.        *)
LEMMA Removed ==
  ASSUME NEW T, NEW s \in Seq(T), NEW n
  PROVE  /\ n \notin ToSet(s) => RemoveFirst(s, n) = s
         /\ n \in ToSet(s) => \E m \in 1 .. Len(s) :
              /\ s[m] = n
              /\ RemoveFirst(s, n) \in Seq(T)
              /\ Len(RemoveFirst(s, n)) = Len(s) - 1
              /\ \A k \in 1 .. Len(s) - 1 :
                   RemoveFirst(s, n)[k] = IF k < m THEN s[k] ELSE s[k + 1]
<1>1. CASE n \notin ToSet(s)
  <2>1. ~ \E i \in 1 .. Len(s) : s[i] = n
    BY <1>1 DEF ToSet
  <2> QED
    BY <1>1, <2>1 DEF RemoveFirst
<1>2. CASE n \in ToSet(s)
  <2> DEFINE I == {i \in 1 .. Len(s) : s[i] = n}
             j == SelectInSeq(s, LAMBDA v : v = n)
  <2>1. I # {} /\ I \subseteq Nat
    BY <1>2 DEF ToSet
  <2>2. j = Min(I)
    BY <2>1 DEF SelectInSeq
  <2>3. \A i \in I : i \in 1 .. Len(s) /\ s[i] = n
    OBVIOUS
  <2>4. RemoveFirst(s, n) = RemoveAt(s, j)
    <3>1. \E i \in 1 .. Len(s) : s[i] = n
      BY <2>1
    <3> QED
      BY <3>1 DEF RemoveFirst
  <2> HIDE DEF I, j
  <2>5. \E m \in I : \A k \in I : m <= k
    BY <2>1, Least
  <2>6. Min(I) \in I
    BY <2>5 DEF Min
  <2> DEFINE m == Min(I)
  <2>7. m \in 1 .. Len(s) /\ s[m] = n
    BY <2>3, <2>6
  <2>8. RemoveFirst(s, n) = SubSeq(s, 1, m - 1) \o SubSeq(s, m + 1, Len(s))
    BY <2>2, <2>4 DEF RemoveAt
  <2> HIDE DEF m
  <2> DEFINE u == SubSeq(s, 1, m - 1)
             v == SubSeq(s, m + 1, Len(s))
  <2>9. u \in Seq(T) /\ Len(u) = m - 1 /\ \A k \in 1 .. m - 1 : u[k] = s[k]
    BY <2>7
  <2>10. v \in Seq(T) /\ Len(v) = Len(s) - m /\ \A k \in 1 .. Len(s) - m : v[k] = s[m + k]
    BY <2>7
  <2> HIDE DEF u, v
  <2>11. u \o v \in Seq(T) /\ Len(u \o v) = Len(s) - 1
    BY <2>7, <2>9, <2>10
  <2>12. ASSUME NEW k \in 1 .. Len(s) - 1
         PROVE  (u \o v)[k] = IF k < m THEN s[k] ELSE s[k + 1]
    <3>0. k \in Int /\ m \in Int /\ Len(s) \in Int
      BY <2>7
    <3>1. CASE k < m
      BY <2>7, <2>9, <2>10, <3>1
    <3>2. CASE ~(k < m)
      <4>1. (u \o v)[k] = v[k - (m - 1)] /\ k - (m - 1) \in 1 .. Len(s) - m
        BY <2>7, <2>9, <2>10, <3>0, <3>2
      <4>2. v[k - (m - 1)] = s[m + (k - (m - 1))] /\ m + (k - (m - 1)) = k + 1
        BY <2>10, <3>0, <4>1
      <4> QED
        BY <3>2, <4>1, <4>2
    <3> QED
      BY <3>1, <3>2
  <2> QED
    BY <1>2, <2>7, <2>8, <2>11, <2>12 DEF u, v
<1> QED
  BY <1>1, <1>2

(* What every child list is: nodes, of that parent, with different names.   *)
ListIn(t, s, d) ==
  /\ s \in Seq(DOMAIN t)
  /\ \A i \in 1 .. Len(s) : t[s[i]].up = d
  /\ \A i, j \in 1 .. Len(s) : i # j => t[s[i]].name # t[s[j]].name

(* A child list stays one when a node is taken out of it.                   *)
LEMMA ListWithout ==
  ASSUME NEW t, NEW s, NEW d, ListIn(t, s, d), NEW n
  PROVE  /\ ListIn(t, RemoveFirst(s, n), d)
         /\ ToSet(RemoveFirst(s, n)) = ToSet(s) \ {n}
<1> DEFINE r == RemoveFirst(s, n)
<1>1. s \in Seq(DOMAIN t)
  BY DEF ListIn
<1>2. CASE n \notin ToSet(s)
  BY <1>1, <1>2, Removed
<1>3. CASE n \in ToSet(s)
  <2>1. PICK m \in 1 .. Len(s) :
          /\ s[m] = n
          /\ r \in Seq(DOMAIN t)
          /\ Len(r) = Len(s) - 1
          /\ \A k \in 1 .. Len(s) - 1 : r[k] = IF k < m THEN s[k] ELSE s[k + 1]
    BY <1>1, <1>3, Removed
  <2> HIDE DEF r
  <2> DEFINE at(k) == IF k < m THEN k ELSE k + 1
  <2>2. \A k \in 1 .. Len(r) : at(k) \in 1 .. Len(s) /\ at(k) # m /\ r[k] = s[at(k)]
    BY <1>1, <2>1
  <2>3. \A i, j \in 1 .. Len(r) : i # j => at(i) # at(j)
    BY <1>1, <2>1
  <2>4. \A i \in 1 .. Len(s) : i # m => \E k \in 1 .. Len(r) : at(k) = i
    <3>1. TAKE i \in 1 .. Len(s)
    <3>2. HAVE i # m
    <3>3. CASE i < m
      BY <1>1, <2>1, <3>3
    <3>4. CASE i > m
      <4>1. i - 1 \in 1 .. Len(r) /\ at(i - 1) = i
        BY <1>1, <2>1, <3>4
      <4> QED
        BY <4>1
    <3> QED
      BY <1>1, <2>1, <3>2, <3>3, <3>4
  <2> HIDE DEF at
  <2>5. \A i \in 1 .. Len(s) : i # m => s[i] # n
    BY <2>1 DEF ListIn
  <2>6. ToSet(r) = ToSet(s) \ {n}
    <3>1. DOMAIN r = 1 .. Len(r) /\ DOMAIN s = 1 .. Len(s)
      BY <1>1, <2>1
    <3>2. ToSet(r) = {r[k] : k \in 1 .. Len(r)} /\ ToSet(s) = {s[i] : i \in 1 .. Len(s)}
      BY <3>1 DEF ToSet
    <3>3. ASSUME NEW x \in ToSet(r) PROVE x \in ToSet(s) \ {n}
      BY <2>2, <2>5, <3>2
    <3>4. ASSUME NEW x \in ToSet(s) \ {n} PROVE x \in ToSet(r)
      <4>1. PICK i \in 1 .. Len(s) : s[i] = x
        BY <3>2
      <4>2. i # m
        BY <2>1, <4>1
      <4> QED
        BY <2>2, <2>4, <3>2, <4>1, <4>2
    <3> QED
      BY <3>3, <3>4
  <2>7. \A k \in 1 .. Len(r) : t[r[k]].up = d
    BY <2>2 DEF ListIn
  <2>8. \A i, j \in 1 .. Len(r) : i # j => t[r[i]].name # t[r[j]].name
    BY <2>2, <2>3 DEF ListIn
  <2>9. ListIn(t, r, d)
    BY <2>1, <2>7, <2>8 DEF ListIn
  <2> QED
    BY <2>6, <2>9 DEF r
<1> QED
  BY <1>2, <1>3

(* What Append adds to the nodes of a list.                                 *)
LEMMA Appended ==
  ASSUME NEW T, NEW s \in Seq(T), NEW n \in T
  PROVE  /\ Append(s, n) \in Seq(T)
         /\ ToSet(Append(s, n)) = ToSet(s) \union {n}
<1> DEFINE r == Append(s, n)
<1>1. r \in Seq(T) /\ DOMAIN r = 1 .. Len(s) + 1 /\ DOMAIN s = 1 .. Len(s)
  OBVIOUS
<1>2. \A i \in 1 .. Len(s) + 1 : r[i] = IF i = Len(s) + 1 THEN n ELSE s[i]
  OBVIOUS
<1>3. Len(s) \in Nat
  OBVIOUS
<1>4. ToSet(r) = {r[k] : k \in 1 .. Len(s) + 1} /\ ToSet(s) = {s[i] : i \in 1 .. Len(s)}
  BY <1>1 DEF ToSet
<1> HIDE DEF r
<1>5. ASSUME NEW x \in ToSet(r) PROVE x \in ToSet(s) \union {n}
  <2>1. PICK k \in 1 .. Len(s) + 1 : r[k] = x
    BY <1>4
  <2>2. k = Len(s) + 1 \/ k \in 1 .. Len(s)
    BY <1>3
  <2> QED
    BY <1>2, <1>4, <2>1, <2>2
<1>6. ASSUME NEW x \in ToSet(s) \union {n} PROVE x \in ToSet(r)
  <2>1. CASE x = n
    <3>1. Len(s) + 1 \in 1 .. Len(s) + 1
      BY <1>3
    <3> QED
      BY <1>2, <1>4, <2>1, <3>1
  <2>2. CASE x \in ToSet(s)
    <3>1. PICK i \in 1 .. Len(s) : s[i] = x
      BY <1>4, <2>2
    <3>2. i \in 1 .. Len(s) + 1 /\ i # Len(s) + 1
      BY <1>3
    <3> QED
      BY <1>2, <1>4, <3>1, <3>2
  <2> QED
    BY <1>6, <2>1, <2>2
<1>7. ToSet(r) = ToSet(s) \union {n}
  BY <1>5, <1>6
<1> QED
  BY <1>1, <1>7 DEF r

(* A child list stays one when a child with a new name is appended.         *)
LEMMA ListWith ==
  ASSUME NEW t, NEW s, NEW d, ListIn(t, s, d), NEW n \in DOMAIN t, t[n].up = d,
         \A i \in 1 .. Len(s) : t[s[i]].name # t[n].name
  PROVE  ListIn(t, Append(s, n), d)
<1>1. s \in Seq(DOMAIN t)
  BY DEF ListIn
<1>2. /\ Append(s, n) \in Seq(DOMAIN t)
      /\ Len(Append(s, n)) = Len(s) + 1 /\ Len(s) \in Nat
      /\ \A i \in 1 .. Len(s) + 1 : Append(s, n)[i] = IF i = Len(s) + 1 THEN n ELSE s[i]
  BY <1>1
<1>3. \A i \in 1 .. Len(s) + 1 : i # Len(s) + 1 => i \in 1 .. Len(s)
  BY <1>2
<1> QED
  BY <1>2, <1>3 DEF ListIn

---------------------------------------------------------------------------
(* Trees.                                                                   *)

(* The operators of Files, of any tree t: Kids and Parents, Below and       *)
(* Above, and what a path from the root names.                              *)
KidsOf(t) == [d \in DOMAIN t |-> ToSet(t[d].kids)]
ParentsOf(t) == [n \in DOMAIN t |-> {t[n].up} \ {None}]
BelowIn(t, n) == Reached(n, KidsOf(t))
AboveIn(t, n) == Reached(n, ParentsOf(t))
NamedIn(t) == BelowIn(t, Root)

(* Each list names nodes of that parent, the root has none.                 *)
Tree(t) ==
  /\ DOMAIN t \subseteq Nodes
  /\ \A n \in DOMAIN t : t[n] \in Node
  /\ \A d \in DOMAIN t : ListIn(t, t[d].kids, d)
  /\ Root \in DOMAIN t /\ t[Root].up = None

(* What a child list of a tree says of its nodes.                           *)
LEMMA KidOf ==
  ASSUME NEW t, Tree(t), NEW d \in DOMAIN t
  PROVE  /\ t[d].kids \in Seq(DOMAIN t)
         /\ ToSet(t[d].kids) = {t[d].kids[i] : i \in 1 .. Len(t[d].kids)}
         /\ KidsOf(t)[d] = ToSet(t[d].kids)
         /\ \A n \in ToSet(t[d].kids) : n \in DOMAIN t /\ t[n].up = d /\ n # Root
<1>1. ListIn(t, t[d].kids, d)
  BY DEF Tree
<1>2. t[d].kids \in Seq(DOMAIN t)
  BY <1>1 DEF ListIn
<1>3. DOMAIN t[d].kids = 1 .. Len(t[d].kids)
  BY <1>2
<1>4. ToSet(t[d].kids) = {t[d].kids[i] : i \in 1 .. Len(t[d].kids)}
  BY <1>3 DEF ToSet
<1>5. None # d
  BY FilesAssumption DEF Tree
<1>6. ASSUME NEW n \in ToSet(t[d].kids) PROVE n \in DOMAIN t /\ t[n].up = d /\ n # Root
  <2>1. PICK i \in 1 .. Len(t[d].kids) : t[d].kids[i] = n
    BY <1>4
  <2>2. n \in DOMAIN t /\ t[n].up = d
    BY <1>1, <1>2, <2>1 DEF ListIn
  <2> QED
    BY <1>5, <2>2 DEF Tree
<1> QED
  BY <1>2, <1>4, <1>6 DEF KidsOf

(* What is below n: n, and the children of all that is below n.             *)
LEMMA BelowIs ==
  ASSUME NEW t, Tree(t), NEW n \in DOMAIN t
  PROVE  /\ n \in BelowIn(t, n)
         /\ BelowIn(t, n) \subseteq DOMAIN t
         /\ \A x \in BelowIn(t, n) : ToSet(t[x].kids) \subseteq BelowIn(t, n)
<1>1. \A x \in DOMAIN t : KidsOf(t)[x] = ToSet(t[x].kids) /\ KidsOf(t)[x] \subseteq DOMAIN t
  BY KidOf
<1>2. IsFiniteSet(Nodes) /\ DOMAIN t \subseteq Nodes
  BY FilesAssumption DEF Tree
<1>3. BelowIn(t, n) \subseteq DOMAIN t
  BY <1>1, <1>2, ReachedLeast DEF BelowIn
<1>4. /\ n \in BelowIn(t, n)
      /\ \A x \in BelowIn(t, n) : KidsOf(t)[x] \subseteq BelowIn(t, n)
  BY <1>1, <1>2, ReachedClosed DEF BelowIn
<1> QED
  BY <1>1, <1>3, <1>4

(* What holds n and the kids of all it holds, holds all below n.            *)
LEMMA BelowLeast ==
  ASSUME NEW t, Tree(t), NEW n, NEW S, S \subseteq DOMAIN t, n \in S,
         \A x \in S : ToSet(t[x].kids) \subseteq S
  PROVE  BelowIn(t, n) \subseteq S
<1>1. \A x \in S : KidsOf(t)[x] \subseteq S
  BY KidOf
<1> QED
  BY <1>1, ReachedLeast, FilesAssumption DEF BelowIn

(* The parent of what is named is named, and lists it.                      *)
LEMMA NamedUp ==
  ASSUME NEW t, Tree(t), NEW n \in NamedIn(t), n # Root
  PROVE  t[n].up \in NamedIn(t) /\ n \in ToSet(t[t[n].up].kids)
<1> DEFINE S == {x \in NamedIn(t) : x # Root =>
                   t[x].up \in NamedIn(t) /\ x \in ToSet(t[t[x].up].kids)}
<1>1. /\ Root \in NamedIn(t) /\ NamedIn(t) \subseteq DOMAIN t
      /\ \A x \in NamedIn(t) : ToSet(t[x].kids) \subseteq NamedIn(t)
  BY BelowIs DEF NamedIn, Tree
<1>2. Root \in S /\ S \subseteq DOMAIN t
  BY <1>1
<1>3. ASSUME NEW x \in S, NEW y \in ToSet(t[x].kids) PROVE y \in S
  <2>1. x \in DOMAIN t /\ y \in NamedIn(t)
    BY <1>1, <1>2
  <2>2. t[y].up = x
    BY <2>1, KidOf
  <2> QED
    BY <2>1, <2>2
<1> HIDE DEF S
<1>4. NamedIn(t) \subseteq S
  BY <1>2, <1>3, BelowLeast DEF NamedIn
<1> QED
  BY <1>4 DEF S

(* The parent of what is below n, other than n, is below n.                 *)
LEMMA BelowUp ==
  ASSUME NEW t, Tree(t), NEW n \in DOMAIN t, NEW x \in BelowIn(t, n), x # n
  PROVE  t[x].up \in BelowIn(t, n)
<1> DEFINE S == {y \in BelowIn(t, n) : y # n => t[y].up \in BelowIn(t, n)}
<1>1. /\ n \in BelowIn(t, n) /\ BelowIn(t, n) \subseteq DOMAIN t
      /\ \A y \in BelowIn(t, n) : ToSet(t[y].kids) \subseteq BelowIn(t, n)
  BY BelowIs
<1>2. n \in S /\ S \subseteq DOMAIN t
  BY <1>1
<1>3. ASSUME NEW y \in S, NEW z \in ToSet(t[y].kids) PROVE z \in S
  <2>1. y \in DOMAIN t /\ z \in BelowIn(t, n)
    BY <1>1, <1>2
  <2>2. t[z].up = y
    BY <2>1, KidOf
  <2> QED
    BY <2>1, <2>2
<1> HIDE DEF S
<1>4. BelowIn(t, n) \subseteq S
  BY <1>2, <1>3, BelowLeast
<1> QED
  BY <1>4 DEF S

(* The root is below nothing but itself.                                    *)
LEMMA RootNotBelow ==
  ASSUME NEW t, Tree(t), NEW n \in DOMAIN t, n # Root
  PROVE  Root \notin BelowIn(t, n)
<1>1. BelowIn(t, n) \subseteq DOMAIN t
  BY BelowIs
<1>2. None \notin DOMAIN t /\ t[Root].up = None
  BY FilesAssumption DEF Tree
<1> QED
  BY <1>1, <1>2, BelowUp

(* No node that is named is below itself.                                   *)
LEMMA UpNotBelow ==
  ASSUME NEW t, Tree(t), NEW n \in NamedIn(t), n # Root
  PROVE  t[n].up \notin BelowIn(t, n)
<1>1. SUFFICES ASSUME t[n].up \in BelowIn(t, n) PROVE FALSE
  OBVIOUS
<1> DEFINE S == NamedIn(t) \ BelowIn(t, n)
<1>2. /\ Root \in NamedIn(t) /\ NamedIn(t) \subseteq DOMAIN t
      /\ \A x \in NamedIn(t) : ToSet(t[x].kids) \subseteq NamedIn(t)
  BY BelowIs DEF NamedIn, Tree
<1>3. n \in BelowIn(t, n) /\ Root \notin BelowIn(t, n)
  BY <1>2, BelowIs, RootNotBelow
<1>4. Root \in S /\ S \subseteq DOMAIN t
  BY <1>2, <1>3
<1>5. ASSUME NEW x \in S, NEW y \in ToSet(t[x].kids) PROVE y \in S
  <2>1. y \in NamedIn(t) /\ t[y].up = x
    BY <1>2, <1>4, KidOf
  <2> QED
    BY <1>1, <1>2, <2>1, BelowUp
<1> HIDE DEF S
<1>6. NamedIn(t) \subseteq S
  BY <1>4, <1>5, BelowLeast DEF NamedIn
<1> QED
  BY <1>3, <1>6 DEF S

(* What is above a named node: it, and the parents of all that is above it. *)
LEMMA AboveIs ==
  ASSUME NEW t, Tree(t), NEW n \in NamedIn(t)
  PROVE  /\ n \in AboveIn(t, n)
         /\ AboveIn(t, n) \subseteq NamedIn(t)
         /\ \A x \in AboveIn(t, n) : x # Root => t[x].up \in AboveIn(t, n)
<1>1. NamedIn(t) \subseteq DOMAIN t
  BY BelowIs DEF NamedIn, Tree
<1>2. \A x \in NamedIn(t) : ParentsOf(t)[x] = {t[x].up} \ {None}
  BY <1>1 DEF ParentsOf
<1>3. \A x \in NamedIn(t) : ParentsOf(t)[x] \subseteq NamedIn(t)
  BY <1>2, NamedUp DEF Tree
<1>4. IsFiniteSet(Nodes) /\ NamedIn(t) \subseteq Nodes
  BY <1>1, FilesAssumption DEF Tree
<1>5. /\ n \in AboveIn(t, n) /\ AboveIn(t, n) \subseteq NamedIn(t)
      /\ \A x \in AboveIn(t, n) : ParentsOf(t)[x] \subseteq AboveIn(t, n)
  <2>1. AboveIn(t, n) \subseteq NamedIn(t)
    BY <1>3, <1>4, ReachedLeast DEF AboveIn
  <2>2. /\ n \in AboveIn(t, n)
        /\ \A x \in AboveIn(t, n) : ParentsOf(t)[x] \subseteq AboveIn(t, n)
    BY <1>3, <1>4, ReachedClosed DEF AboveIn
  <2> QED
    BY <2>1, <2>2
<1>6. ASSUME NEW x \in AboveIn(t, n), x # Root PROVE t[x].up \in AboveIn(t, n)
  <2>1. t[x].up \in NamedIn(t)
    BY <1>5, <1>6, NamedUp
  <2>2. t[x].up # None
    BY <1>4, <2>1, FilesAssumption
  <2> QED
    BY <1>2, <1>5, <2>2
<1> QED
  BY <1>5, <1>6

(* What is below n has n above it.                                          *)
LEMMA BelowAbove ==
  ASSUME NEW t, Tree(t), NEW n \in NamedIn(t), NEW x \in BelowIn(t, n)
  PROVE  x \in NamedIn(t) /\ n \in AboveIn(t, x)
<1> DEFINE S == {y \in NamedIn(t) : n \in AboveIn(t, y)}
<1>1. /\ NamedIn(t) \subseteq DOMAIN t
      /\ \A y \in NamedIn(t) : ToSet(t[y].kids) \subseteq NamedIn(t)
  BY BelowIs DEF NamedIn, Tree
<1>2. n \in S /\ S \subseteq DOMAIN t
  BY <1>1, AboveIs
<1>3. ASSUME NEW y \in S, NEW z \in ToSet(t[y].kids) PROVE z \in S
  <2>1. z \in NamedIn(t) /\ t[z].up = y /\ z # Root
    BY <1>1, <1>2, KidOf
  <2>2. y \in AboveIn(t, z)
    BY <2>1, AboveIs
  <2>3. \A w \in AboveIn(t, z) : ParentsOf(t)[w] \subseteq AboveIn(t, z)
    <3>1. TAKE w \in AboveIn(t, z)
    <3>2. w \in DOMAIN t
      BY <1>1, <2>1, AboveIs
    <3>3. ParentsOf(t)[w] = {t[w].up} \ {None}
      BY <3>2 DEF ParentsOf
    <3>4. w # Root => t[w].up \in AboveIn(t, z)
      BY <2>1, AboveIs
    <3> QED
      BY <3>3, <3>4 DEF Tree
  <2>4. AboveIn(t, y) \subseteq AboveIn(t, z)
    BY <2>2, <2>3, ReachedLeast, FilesAssumption DEF AboveIn
  <2> QED
    BY <2>1, <2>4
<1> HIDE DEF S
<1>4. BelowIn(t, n) \subseteq S
  BY <1>2, <1>3, BelowLeast
<1> QED
  BY <1>4 DEF S

---------------------------------------------------------------------------
(* What the operations do to a tree.                                        *)

(* A child list is one in every tree where its nodes have the same parent   *)
(* and names.                                                               *)
LEMMA ListFrom ==
  ASSUME NEW t, NEW u, NEW s, NEW d, ListIn(t, s, d), s \in Seq(DOMAIN u),
         \A i \in 1 .. Len(s) : u[s[i]].up = t[s[i]].up /\ u[s[i]].name = t[s[i]].name
  PROVE  ListIn(u, s, d)
BY DEF ListIn

(* What list_unlink (Unlinked) changes: the one list that has n.            *)
LEMMA UnlinkedIs ==
  ASSUME NEW t, Tree(t), NEW n \in NamedIn(t), n # Root
  PROVE  LET u == Unlinked(t, n)
         IN  /\ DOMAIN u = DOMAIN t
             /\ \A x \in DOMAIN t :
                  /\ u[x] \in Node
                  /\ u[x].dir = t[x].dir /\ u[x].up = t[x].up /\ u[x].name = t[x].name
                  /\ ListIn(t, u[x].kids, x)
                  /\ ToSet(u[x].kids) = ToSet(t[x].kids) \ {n}
<1> DEFINE a == t[n].up
           r == RemoveFirst(t[a].kids, n)
           u == [t EXCEPT ![a].kids = RemoveFirst(@, n)]
<1>1. NamedIn(t) \subseteq DOMAIN t
  BY BelowIs DEF NamedIn, Tree
<1>2. a \in DOMAIN t /\ n \in DOMAIN t
  BY <1>1, NamedUp
<1>3. Unlinked(t, n) = u
  BY <1>2 DEF Unlinked
<1>4. ListIn(t, r, a) /\ ToSet(r) = ToSet(t[a].kids) \ {n}
  BY <1>2, ListWithout DEF Tree
<1>5. r \in Seq(Nodes)
  <2>1. r \in Seq(DOMAIN t) /\ DOMAIN t \subseteq Nodes
    BY <1>4 DEF ListIn, Tree
  <2> QED
    BY <2>1
<1> HIDE DEF r
<1>6. /\ DOMAIN u = DOMAIN t
      /\ \A x \in DOMAIN t : u[x] = IF x = a THEN [t[x] EXCEPT !.kids = r] ELSE t[x]
  BY <1>2 DEF r
<1> HIDE DEF u
<1>7. ASSUME NEW x \in DOMAIN t
      PROVE  /\ u[x] \in Node
             /\ u[x].dir = t[x].dir /\ u[x].up = t[x].up /\ u[x].name = t[x].name
             /\ ListIn(t, u[x].kids, x)
             /\ ToSet(u[x].kids) = ToSet(t[x].kids) \ {n}
  <2>1. t[x] \in Node /\ ListIn(t, t[x].kids, x)
    BY DEF Tree
  <2>2. CASE x = a
    <3>1. u[x] = [t[x] EXCEPT !.kids = r]
      BY <1>6, <2>2
    <3>2. u[x] \in Node
      BY <1>5, <2>1, <3>1 DEF Node
    <3>3. u[x].dir = t[x].dir /\ u[x].up = t[x].up /\ u[x].name = t[x].name /\ u[x].kids = r
      BY <2>1, <3>1 DEF Node
    <3> QED
      BY <1>4, <2>2, <3>2, <3>3
  <2>3. CASE x # a
    <3>1. u[x] = t[x]
      BY <1>6, <2>3
    <3>2. n \notin ToSet(t[x].kids)
      BY <2>3, KidOf
    <3> QED
      BY <2>1, <3>1, <3>2
  <2> QED
    BY <2>2, <2>3
<1> QED
  BY <1>3, <1>6, <1>7

(* n, taken out of its list: what is below it is still below it, and all    *)
(* else is named as before.                                                 *)
LEMMA TakenOut ==
  ASSUME NEW t, Tree(t), NEW n \in NamedIn(t), n # Root,
         NEW u, Tree(u), DOMAIN u = DOMAIN t,
         \A x \in DOMAIN t : ToSet(u[x].kids) = ToSet(t[x].kids) \ {n}
  PROVE  BelowIn(u, n) = BelowIn(t, n) /\ NamedIn(t) = NamedIn(u) \union BelowIn(u, n)
<1>1. /\ Root \in NamedIn(t) /\ NamedIn(t) \subseteq DOMAIN t
      /\ \A x \in NamedIn(t) : ToSet(t[x].kids) \subseteq NamedIn(t)
  BY BelowIs DEF NamedIn, Tree
<1>2. /\ Root \in NamedIn(u) /\ NamedIn(u) \subseteq DOMAIN t
      /\ \A x \in NamedIn(u) : ToSet(u[x].kids) \subseteq NamedIn(u)
  BY BelowIs DEF NamedIn, Tree
<1>3. /\ n \in BelowIn(t, n) /\ BelowIn(t, n) \subseteq DOMAIN t
      /\ \A x \in BelowIn(t, n) : ToSet(t[x].kids) \subseteq BelowIn(t, n)
  BY <1>1, BelowIs
<1>4. /\ n \in BelowIn(u, n) /\ BelowIn(u, n) \subseteq DOMAIN t
      /\ \A x \in BelowIn(u, n) : ToSet(u[x].kids) \subseteq BelowIn(u, n)
  BY <1>1, BelowIs
<1>5. BelowIn(u, n) \subseteq BelowIn(t, n)
  <2>1. \A x \in BelowIn(t, n) : ToSet(u[x].kids) \subseteq BelowIn(t, n)
    BY <1>3
  <2> QED
    BY <1>3, <2>1, BelowLeast
<1>6. \A x \in BelowIn(u, n) : ToSet(t[x].kids) \subseteq BelowIn(u, n)
  <2>1. TAKE x \in BelowIn(u, n)
  <2>2. x \in BelowIn(t, n) /\ x \in DOMAIN t /\ x # t[n].up
    BY <1>3, <1>5, UpNotBelow
  <2>3. n \notin ToSet(t[x].kids)
    BY <2>2, KidOf
  <2> QED
    BY <1>4, <2>2, <2>3
<1>7. BelowIn(t, n) \subseteq BelowIn(u, n)
  BY <1>4, <1>6, BelowLeast
<1>8. NamedIn(u) \subseteq NamedIn(t)
  <2>1. \A x \in NamedIn(t) : ToSet(u[x].kids) \subseteq NamedIn(t)
    BY <1>1
  <2>2. BelowIn(u, Root) \subseteq NamedIn(t)
    BY <1>1, <2>1, BelowLeast
  <2> QED
    BY <2>2 DEF NamedIn
<1>9. BelowIn(t, n) \subseteq NamedIn(t)
  BY BelowAbove
<1>10. NamedIn(t) \subseteq NamedIn(u) \union BelowIn(u, n)
  <2> DEFINE S == NamedIn(u) \union BelowIn(u, n)
  <2>1. Root \in S /\ S \subseteq DOMAIN t
    BY <1>2, <1>4
  <2>2. ASSUME NEW x \in S PROVE ToSet(t[x].kids) \subseteq S
    <3>1. CASE x \in BelowIn(u, n)
      BY <1>6, <3>1
    <3>2. CASE x \in NamedIn(u)
      <4>1. ToSet(u[x].kids) = ToSet(t[x].kids) \ {n}
        BY <1>2, <3>2
      <4> QED
        BY <1>2, <1>4, <3>2, <4>1
    <3> QED
      BY <3>1, <3>2
  <2> HIDE DEF S
  <2>3. NamedIn(t) \subseteq S
    BY <2>1, <2>2, BelowLeast DEF NamedIn
  <2> QED
    BY <2>3 DEF S
<1> QED
  BY <1>5, <1>7, <1>8, <1>9, <1>10

(* fs_move: n is taken out, and gets its new parent and its new name.       *)
MovedTo(t, n, d, name) == [Unlinked(t, n) EXCEPT ![n].up = d, ![n].name = name]

(* What u has of t after fs_move of n into d as name.                       *)
Moves(t, u, n, d, name) ==
  /\ Tree(u) /\ DOMAIN u = DOMAIN t
  /\ \A x \in DOMAIN t : ToSet(u[x].kids) = ToSet(t[x].kids) \ {n}
  /\ \A x \in DOMAIN t \ {n} :
       u[x].dir = t[x].dir /\ u[x].up = t[x].up /\ u[x].name = t[x].name
  /\ u[n].dir = t[n].dir /\ u[n].up = d /\ u[n].name = name

(* fs_move does that.                                                       *)
LEMMA Moved ==
  ASSUME NEW t, Tree(t), NEW n \in NamedIn(t), n # Root, NEW d \in Nodes, NEW name \in Names,
         NEW u, u = MovedTo(t, n, d, name)
  PROVE  Moves(t, u, n, d, name)
<1> DEFINE v == Unlinked(t, n)
<1>1. /\ DOMAIN v = DOMAIN t
      /\ \A x \in DOMAIN t :
           /\ v[x] \in Node
           /\ v[x].dir = t[x].dir /\ v[x].up = t[x].up /\ v[x].name = t[x].name
           /\ ListIn(t, v[x].kids, x)
           /\ ToSet(v[x].kids) = ToSet(t[x].kids) \ {n}
  BY UnlinkedIs
<1>2. n \in DOMAIN t
  BY BelowIs DEF NamedIn, Tree
<1>3. /\ DOMAIN u = DOMAIN t
      /\ \A x \in DOMAIN t : u[x] = IF x = n THEN [v[n] EXCEPT !.up = d, !.name = name] ELSE v[x]
  <2> DEFINE w == [v EXCEPT ![n].up = d, ![n].name = name]
  <2>1. /\ DOMAIN w = DOMAIN t
        /\ \A x \in DOMAIN t : w[x] = IF x = n THEN [v[n] EXCEPT !.up = d, !.name = name] ELSE v[x]
    <3> HIDE DEF v
    <3> QED
      BY <1>1, <1>2
  <2>2. u = w
    BY Zenon DEF MovedTo
  <2> HIDE DEF w, v
  <2> QED
    BY <2>1, <2>2
<1> HIDE DEF v
<1>4. ASSUME NEW x \in DOMAIN t
      PROVE  /\ u[x] \in Node
             /\ u[x].dir = t[x].dir /\ u[x].kids = v[x].kids
             /\ u[x].up = IF x = n THEN d ELSE t[x].up
             /\ u[x].name = IF x = n THEN name ELSE t[x].name
  <2>1. v[x] \in Node
    BY <1>1
  <2>2. CASE x = n
    <3>1. u[x] = [v[x] EXCEPT !.up = d, !.name = name]
      BY <1>3, <2>2
    <3>2. u[x] \in Node
      BY <2>1, <3>1 DEF Node
    <3>3. u[x].dir = v[x].dir /\ u[x].kids = v[x].kids /\ u[x].up = d /\ u[x].name = name
      BY <2>1, <3>1 DEF Node
    <3> QED
      BY <1>1, <2>2, <3>2, <3>3
  <2>3. CASE x # n
    BY <1>1, <1>3, <2>3
  <2> QED
    BY <2>2, <2>3
<1>5. ASSUME NEW x \in DOMAIN t PROVE ListIn(u, u[x].kids, x)
  <2> DEFINE s == v[x].kids
  <2>1. ListIn(t, s, x) /\ u[x].kids = s
    BY <1>1, <1>4
  <2>2. s \in Seq(DOMAIN t) /\ n \notin ToSet(s)
    BY <1>1 DEF ListIn
  <2> HIDE DEF s
  <2>3. \A i \in 1 .. Len(s) : s[i] \in DOMAIN t /\ s[i] # n
    <3>1. DOMAIN s = 1 .. Len(s)
      BY <2>2
    <3>2. \A i \in 1 .. Len(s) : s[i] \in ToSet(s)
      BY <3>1 DEF ToSet
    <3> QED
      BY <2>2, <3>2
  <2>4. s \in Seq(DOMAIN u)
    BY <1>3, <2>2
  <2>5. \A i \in 1 .. Len(s) : u[s[i]].up = t[s[i]].up /\ u[s[i]].name = t[s[i]].name
    BY <1>4, <2>3
  <2> QED
    BY <2>1, <2>4, <2>5, ListFrom
<1>6. Tree(u)
  <2>1. Root \in DOMAIN u /\ u[Root].up = None
    BY <1>3, <1>4 DEF Tree
  <2> QED
    BY <1>3, <1>4, <1>5, <2>1 DEF Tree
<1>7. \A x \in DOMAIN t : ToSet(u[x].kids) = ToSet(t[x].kids) \ {n}
  BY <1>1, <1>4
<1> QED
  BY <1>2, <1>3, <1>4, <1>6, <1>7 DEF v, Moves

(* What may be under n in t may be under n in u, when u has all the edges   *)
(* of t but those to some nodes without children.                           *)
LEMMA BelowKept ==
  ASSUME NEW t, Tree(t), NEW u, Tree(u), NEW cut, NEW n \in DOMAIN t \cap DOMAIN u,
         DOMAIN t \subseteq DOMAIN u \union cut,
         \A x \in DOMAIN t \cap DOMAIN u :
           ToSet(t[x].kids) \subseteq ToSet(u[x].kids) \union cut,
         \A x \in DOMAIN t \cap cut : ToSet(t[x].kids) \subseteq cut
  PROVE  BelowIn(t, n) \subseteq BelowIn(u, n) \union cut
<1> DEFINE S == (BelowIn(u, n) \union cut) \cap DOMAIN t
<1>1. /\ n \in BelowIn(u, n) /\ BelowIn(u, n) \subseteq DOMAIN u
      /\ \A x \in BelowIn(u, n) : ToSet(u[x].kids) \subseteq BelowIn(u, n)
  BY BelowIs
<1>2. n \in S /\ S \subseteq DOMAIN t
  BY <1>1
<1>3. ASSUME NEW x \in S PROVE ToSet(t[x].kids) \subseteq S
  <2>1. ToSet(t[x].kids) \subseteq DOMAIN t
    BY <1>2, KidOf
  <2>2. CASE x \in cut
    BY <1>2, <2>1, <2>2
  <2>3. CASE x \notin cut
    <3>1. x \in BelowIn(u, n) /\ x \in DOMAIN t \cap DOMAIN u
      BY <1>1, <2>3
    <3>2. ToSet(t[x].kids) \subseteq ToSet(u[x].kids) \union cut
      BY <3>1
    <3>3. ToSet(u[x].kids) \subseteq BelowIn(u, n)
      BY <1>1, <3>1
    <3> QED
      BY <2>1, <3>2, <3>3
  <2> QED
    BY <2>2, <2>3
<1> HIDE DEF S
<1>4. BelowIn(t, n) \subseteq S
  BY <1>2, <1>3, BelowLeast
<1> QED
  BY <1>4 DEF S

(* fs_create: n is allocated, and not yet in a list.                        *)
WithNew(t, n, node) == [x \in DOMAIN t \union {n} |-> IF x = n THEN node ELSE t[x]]

(* What u has of t after node_new allocates n.                              *)
Adds(t, u, n, node) ==
  /\ Tree(u) /\ DOMAIN u = DOMAIN t \union {n}
  /\ u[n] = node
  /\ \A x \in DOMAIN t : u[x] = t[x]
  /\ ToSet(u[n].kids) = {}
  /\ BelowIn(u, n) = {n} /\ NamedIn(u) = NamedIn(t)

(* node_new does that.                                                      *)
LEMMA Allocated ==
  ASSUME NEW t, Tree(t), NEW n \in Nodes \ DOMAIN t, NEW d \in DOMAIN t, NEW name \in Names,
         NEW dir \in BOOLEAN,
         NEW u, u = WithNew(t, n, NewNode(dir, d, name))
  PROVE  Adds(t, u, n, NewNode(dir, d, name))
<1>1. DOMAIN u = DOMAIN t \union {n} /\ u[n] = NewNode(dir, d, name)
  BY DEF WithNew
<1>2. \A x \in DOMAIN t : u[x] = t[x]
  BY DEF WithNew
<1>3. /\ u[n].kids = <<>> /\ u[n].up = d /\ u[n] \in Node /\ ToSet(u[n].kids) = {}
  <2>1. u[n] = [dir |-> dir, up |-> d, name |-> name, kids |-> <<>>]
    BY <1>1 DEF NewNode
  <2>2. u[n] \in Node
    BY <2>1 DEF Node, Tree
  <2>3. ToSet(<<>>) = {}
    BY DEF ToSet
  <2> QED
    BY <2>1, <2>2, <2>3
<1>4. \A x \in DOMAIN u : u[x] \in Node
  BY <1>1, <1>2, <1>3 DEF Tree
<1>5. \A x \in DOMAIN u : ListIn(u, u[x].kids, x)
  <2>1. TAKE x \in DOMAIN u
  <2>2. CASE x = n
    <3>1. <<>> \in Seq(DOMAIN u) /\ 1 .. Len(<<>>) = {}
      OBVIOUS
    <3>2. ListIn(u, <<>>, x)
      BY <3>1 DEF ListIn
    <3> QED
      BY <1>3, <2>2, <3>2
  <2>3. CASE x # n
    <3>1. x \in DOMAIN t /\ u[x].kids = t[x].kids
      BY <1>1, <1>2, <2>3
    <3> DEFINE s == t[x].kids
    <3>2. ListIn(t, s, x) /\ s \in Seq(DOMAIN t)
      BY <3>1 DEF Tree, ListIn
    <3> HIDE DEF s
    <3>3. s \in Seq(DOMAIN u) /\ \A i \in 1 .. Len(s) : s[i] \in DOMAIN t
      BY <1>1, <3>2
    <3>4. \A i \in 1 .. Len(s) : u[s[i]].up = t[s[i]].up /\ u[s[i]].name = t[s[i]].name
      BY <1>2, <3>3
    <3>5. ListIn(u, s, x)
      BY <3>2, <3>3, <3>4, ListFrom
    <3> QED
      BY <3>1, <3>5 DEF s
  <2> QED
    BY <2>2, <2>3
<1>6. Tree(u)
  BY <1>1, <1>2, <1>4, <1>5 DEF Tree
<1>7. BelowIn(u, n) = {n}
  <2>1. n \in BelowIn(u, n)
    BY <1>1, <1>6, BelowIs
  <2>2. BelowIn(u, n) \subseteq {n}
    BY <1>1, <1>3, <1>6, BelowLeast
  <2> QED
    BY <2>1, <2>2
<1>8. NamedIn(u) = NamedIn(t)
  <2>1. /\ Root \in NamedIn(t) /\ NamedIn(t) \subseteq DOMAIN t
        /\ \A x \in NamedIn(t) : ToSet(t[x].kids) \subseteq NamedIn(t)
    BY BelowIs DEF NamedIn, Tree
  <2>2. \A x \in NamedIn(t) : ToSet(u[x].kids) \subseteq NamedIn(t)
    BY <1>2, <2>1
  <2>3. BelowIn(u, Root) \subseteq NamedIn(t)
    BY <1>1, <1>6, <2>1, <2>2, BelowLeast
  <2>4. BelowIn(t, Root) \subseteq BelowIn(u, Root)
    <3> DEFINE cut == {}
    <3>1. Root \in DOMAIN t \cap DOMAIN u /\ DOMAIN t \subseteq DOMAIN u \union cut
      BY <1>1 DEF Tree
    <3>2. \A x \in DOMAIN t \cap DOMAIN u : ToSet(t[x].kids) \subseteq ToSet(u[x].kids) \union cut
      BY <1>2
    <3>3. \A x \in DOMAIN t \cap cut : ToSet(t[x].kids) \subseteq cut
      OBVIOUS
    <3> HIDE DEF cut
    <3>4. BelowIn(t, Root) \subseteq BelowIn(u, Root) \union cut
      BY <1>6, <3>1, <3>2, <3>3, BelowKept
    <3> QED
      BY <3>4 DEF cut
  <2> QED
    BY <2>3, <2>4 DEF NamedIn
<1> QED
  BY <1>1, <1>2, <1>3, <1>6, <1>7, <1>8 DEF Adds

(* n is stored at the end of the list s of its parent d.                    *)
HungOn(t, n, d, s) == [t EXCEPT ![d].kids = Append(s, n)]

(* What u has of t after n is stored behind s as the list of d.             *)
Hangs(t, u, n, d, s) ==
  /\ Tree(u) /\ DOMAIN u = DOMAIN t
  /\ \A x \in DOMAIN t \ {d} : u[x] = t[x]
  /\ \A x \in DOMAIN t :
       u[x].dir = t[x].dir /\ u[x].up = t[x].up /\ u[x].name = t[x].name
  /\ u[d].kids = Append(s, n) /\ ToSet(u[d].kids) = ToSet(s) \union {n}

(* The store does that.                                                     *)
LEMMA Hung ==
  ASSUME NEW t, Tree(t), NEW d \in DOMAIN t, NEW s, ListIn(t, s, d),
         NEW n \in DOMAIN t, t[n].up = d,
         \A i \in 1 .. Len(s) : t[s[i]].name # t[n].name,
         NEW u, u = HungOn(t, n, d, s)
  PROVE  Hangs(t, u, n, d, s)
<1> DEFINE r == Append(s, n)
<1>1. s \in Seq(DOMAIN t) /\ DOMAIN t \subseteq Nodes
  BY DEF ListIn, Tree
<1>2. ListIn(t, r, d) /\ r \in Seq(DOMAIN t) /\ ToSet(r) = ToSet(s) \union {n}
  BY <1>1, Appended, ListWith
<1>3. r \in Seq(Nodes)
  BY <1>1, <1>2
<1> HIDE DEF r
<1>4. /\ DOMAIN u = DOMAIN t
      /\ \A x \in DOMAIN t : u[x] = IF x = d THEN [t[x] EXCEPT !.kids = r] ELSE t[x]
  BY DEF HungOn, r
<1>5. /\ u[d] \in Node
      /\ u[d].dir = t[d].dir /\ u[d].up = t[d].up /\ u[d].name = t[d].name /\ u[d].kids = r
  <2>1. t[d] \in Node /\ u[d] = [t[d] EXCEPT !.kids = r]
    BY <1>4 DEF Tree
  <2>2. u[d] \in Node
    BY <1>3, <2>1 DEF Node
  <2> QED
    BY <2>1, <2>2 DEF Node
<1>6. \A x \in DOMAIN t \ {d} : u[x] = t[x]
  BY <1>4
<1>7. \A x \in DOMAIN t :
        /\ u[x] \in Node
        /\ u[x].dir = t[x].dir /\ u[x].up = t[x].up /\ u[x].name = t[x].name
        /\ u[x].kids = IF x = d THEN r ELSE t[x].kids
  BY <1>5, <1>6 DEF Tree
<1>8. \A x \in DOMAIN u : ListIn(u, u[x].kids, x)
  <2>1. TAKE x \in DOMAIN u
  <2> DEFINE w == u[x].kids
  <2>2. ListIn(t, w, x)
    BY <1>2, <1>4, <1>7 DEF Tree
  <2>3. w \in Seq(DOMAIN t)
    BY <2>2 DEF ListIn
  <2> HIDE DEF w
  <2>4. w \in Seq(DOMAIN u) /\ \A i \in 1 .. Len(w) : w[i] \in DOMAIN t
    BY <1>4, <2>3
  <2>5. ListIn(u, w, x)
    BY <1>7, <2>2, <2>4, ListFrom
  <2> QED
    BY <2>5 DEF w
<1>9. Tree(u)
  BY <1>4, <1>7, <1>8 DEF Tree
<1> QED
  BY <1>2, <1>4, <1>5, <1>6, <1>7, <1>9 DEF r, Hangs

(* fs_remove_node: n and all below it is freed.                             *)
Without(t, n) == [x \in DOMAIN t \ BelowIn(t, n) |-> Unlinked(t, n)[x]]

(* What u has of t after n and all below it is freed.                       *)
Prunes(t, u, n) ==
  /\ Tree(u) /\ DOMAIN u = DOMAIN t \ BelowIn(t, n)
  /\ \A x \in DOMAIN t \ BelowIn(t, n) :
       u[x].dir = t[x].dir /\ u[x].up = t[x].up /\ u[x].name = t[x].name
  /\ \A x \in DOMAIN t \ BelowIn(t, n) : ToSet(u[x].kids) = ToSet(t[x].kids) \ {n}
  /\ NamedIn(t) \subseteq NamedIn(u) \union BelowIn(t, n)

(* fs_remove_node does that.                                                *)
LEMMA Pruned ==
  ASSUME NEW t, Tree(t), NEW n \in NamedIn(t), n # Root,
         NEW u, u = Without(t, n)
  PROVE  Prunes(t, u, n)
<1> DEFINE v == Unlinked(t, n)
           freed == BelowIn(t, n)
<1>1. /\ DOMAIN v = DOMAIN t
      /\ \A x \in DOMAIN t :
           /\ v[x] \in Node
           /\ v[x].dir = t[x].dir /\ v[x].up = t[x].up /\ v[x].name = t[x].name
           /\ ListIn(t, v[x].kids, x)
           /\ ToSet(v[x].kids) = ToSet(t[x].kids) \ {n}
  BY UnlinkedIs
<1>2. n \in DOMAIN t
  BY BelowIs DEF NamedIn, Tree
<1>3. /\ n \in freed /\ freed \subseteq DOMAIN t /\ Root \notin freed
      /\ \A x \in freed : ToSet(t[x].kids) \subseteq freed
  BY <1>2, BelowIs, RootNotBelow
<1>4. \A x \in freed \ {n} : t[x].up \in freed
  BY <1>2, BelowUp
<1> HIDE DEF v, freed
<1>5. DOMAIN u = DOMAIN t \ freed /\ \A x \in DOMAIN t \ freed : u[x] = v[x]
  BY DEF Without, v, freed
<1>6. ASSUME NEW x \in DOMAIN u
      PROVE  /\ u[x] \in Node /\ ListIn(u, u[x].kids, x)
             /\ u[x].dir = t[x].dir /\ u[x].up = t[x].up /\ u[x].name = t[x].name
             /\ ToSet(u[x].kids) = ToSet(t[x].kids) \ {n}
  <2>1. x \in DOMAIN t /\ x \notin freed /\ u[x] = v[x]
    BY <1>5
  <2> DEFINE s == v[x].kids
  <2>2. ListIn(t, s, x) /\ ToSet(s) = ToSet(t[x].kids) \ {n}
    BY <1>1, <2>1
  <2>3. s \in Seq(DOMAIN t)
    BY <2>2 DEF ListIn
  <2>4. \A i \in 1 .. Len(s) : s[i] \in DOMAIN u
    <3>1. TAKE i \in 1 .. Len(s)
    <3>2. DOMAIN s = 1 .. Len(s)
      BY <2>3
    <3>3. s[i] \in ToSet(s)
      BY <3>2 DEF ToSet
    <3>4. s[i] \in DOMAIN t /\ s[i] # n /\ t[s[i]].up = x
      BY <2>1, <2>2, <3>3, KidOf
    <3> QED
      BY <1>4, <1>5, <2>1, <3>4
  <2>5. s \in Seq(DOMAIN u)
    <3> HIDE DEF s
    <3> QED
      BY <2>3, <2>4
  <2>6. \A i \in 1 .. Len(s) : u[s[i]].up = t[s[i]].up /\ u[s[i]].name = t[s[i]].name
    BY <1>1, <1>5, <2>4
  <2>7. ListIn(u, s, x)
    BY <2>2, <2>5, <2>6, ListFrom
  <2> QED
    BY <1>1, <2>1, <2>2, <2>7
<1>7. Tree(u)
  <2>1. Root \in DOMAIN u /\ u[Root].up = None
    BY <1>3, <1>5, <1>6 DEF Tree
  <2> QED
    BY <1>5, <1>6, <2>1 DEF Tree
<1>8. BelowIn(t, Root) \subseteq BelowIn(u, Root) \union freed
  <2>1. Root \in DOMAIN t \cap DOMAIN u /\ DOMAIN t \subseteq DOMAIN u \union freed
    BY <1>3, <1>5, <1>7 DEF Tree
  <2>2. \A x \in DOMAIN t \cap DOMAIN u : ToSet(t[x].kids) \subseteq ToSet(u[x].kids) \union freed
    BY <1>3, <1>6
  <2> QED
    BY <1>3, <1>7, <2>1, <2>2, BelowKept
<1> QED
  BY <1>5, <1>6, <1>7, <1>8 DEF v, freed, NamedIn, Prunes

---------------------------------------------------------------------------
(* The inductive invariant of the tree.                                     *)

(* What hangs on the append to come, and the files it will cut off.         *)
FlyingIn(t, l) == IF l = None THEN {} ELSE BelowIn(t, l.n)
CutIn(t, l) == IF l = None THEN {} ELSE ToSet(t[l.d].kids) \ ToSet(l.list)

(* The append to come: its node is in no list yet, its list is a child list *)
(* without a sibling of that name, and what it will cut off are files.      *)
LinkIn(t, l) ==
  l # None =>
    /\ l.n \in DOMAIN t \ {Root} /\ l.d \in NamedIn(t) /\ t[l.n].up = l.d
    /\ ListIn(t, l.list, l.d)
    /\ \A i \in 1 .. Len(l.list) : t[l.list[i]].name # t[l.n].name
    /\ \A x \in DOMAIN t : l.n \notin ToSet(t[x].kids)
    /\ \A x \in CutIn(t, l) : ToSet(t[x].kids) = {} /\ ~t[x].dir

(* Nothing is cut off: every node is named or hangs on the append to come,  *)
(* and is in its parent's list.                                             *)
WholeIn(t, l) ==
  /\ DOMAIN t = NamedIn(t) \union FlyingIn(t, l)
  /\ \A n, d \in DOMAIN t :
       t[n].up = d /\ (l = None \/ n # l.n) => n \in ToSet(t[d].kids)

(* The inductive invariant of the tree.  m is mixed: once a program's file  *)
(* was cut off, the lists are still lists of a tree, but no longer of all   *)
(* nodes.                                                                   *)
Forest(t, l, m) ==
  Tree(t) /\ LinkIn(t, l) /\ m \in BOOLEAN /\ (~m => WholeIn(t, l))

(* What kmain may refer to.                                                 *)
HeldIn(t, l) == ((NamedIn(t) \union FlyingIn(t, l)) \ CutIn(t, l)) \union {None, Freed}

(* What is named holds the root and the children of all it holds.           *)
LEMMA NamedIs ==
  ASSUME NEW t, Tree(t)
  PROVE  /\ Root \in NamedIn(t) /\ NamedIn(t) \subseteq DOMAIN t
         /\ None \notin DOMAIN t /\ Freed \notin DOMAIN t
         /\ \A x \in NamedIn(t) : ToSet(t[x].kids) \subseteq NamedIn(t)
<1>1. DOMAIN t \subseteq Nodes /\ None \notin Nodes /\ Freed \notin Nodes
  BY FilesAssumption DEF Tree
<1> QED
  BY <1>1, BelowIs DEF NamedIn, Tree

(* fs_move's checks and unlinking keep the tree; what kmain refers to       *)
(* stays.                                                                   *)
LEMMA MoveKeeps ==
  ASSUME Forest(tree, link, mixed), KIdle, mixed' = mixed,
         NEW n \in Named, NEW d \in Named, NEW name \in Names, Move(n, d, name)
  PROVE  /\ Forest(tree', link', mixed')
         /\ HeldIn(tree, link) = HeldIn(tree', link')
         /\ DOMAIN tree' = DOMAIN tree
         /\ tree'[n].up = d /\ \A x \in DOMAIN tree \ {n} : tree'[x].up = tree[x].up
<1> DEFINE t == tree
           u == tree'
<1>1. Tree(t) /\ n \in NamedIn(t) /\ d \in NamedIn(t) /\ n # Root /\ link = None
  BY DEF Forest, Named, Below, Kids, NamedIn, BelowIn, KidsOf, Move, MayMove, KIdle
<1>2. NamedIn(t) \subseteq DOMAIN t /\ Root \in NamedIn(t) /\ NamedIn(t) \subseteq Nodes
  BY <1>1, NamedIs DEF Tree
<1>3. u = MovedTo(t, n, d, name)
  BY Zenon DEF Move, MovedTo
<1> HIDE DEF t, u
<1>4. /\ Tree(u) /\ DOMAIN u = DOMAIN t
      /\ \A x \in DOMAIN t : ToSet(u[x].kids) = ToSet(t[x].kids) \ {n}
      /\ \A x \in DOMAIN t \ {n} :
           u[x].dir = t[x].dir /\ u[x].up = t[x].up /\ u[x].name = t[x].name
      /\ u[n].dir = t[n].dir /\ u[n].up = d /\ u[n].name = name
  <2>1. Tree(t) /\ n \in NamedIn(t) /\ n # Root /\ d \in Nodes /\ u = MovedTo(t, n, d, name)
    BY <1>1, <1>2, <1>3
  <2>2. Moves(t, u, n, d, name)
    BY <2>1, Moved
  <2> QED
    BY <2>2 DEF Moves
<1> DEFINE s == RemoveFirst(t[d].kids, n)
           l == [n |-> n, d |-> d, list |-> s]
<1>5. link' = l
  BY DEF Move, StartLink, t
<1>6. ListIn(t, s, d) /\ ToSet(s) = ToSet(t[d].kids) \ {n}
  BY <1>1, <1>2, ListWithout DEF Tree
<1> HIDE DEF s
<1>7. l # None
  <2>1. s \in Seq(DOMAIN t) /\ DOMAIN t \subseteq Nodes
    BY <1>1, <1>6 DEF ListIn, Tree
  <2>2. s \in Seq(Nodes)
    BY <2>1
  <2> QED
    BY <1>1, <1>2, <2>2, FilesAssumption
<1>8. l.n = n /\ l.d = d /\ l.list = s
  OBVIOUS
<1> HIDE DEF l
<1>9. BelowIn(u, n) = BelowIn(t, n) /\ NamedIn(t) = NamedIn(u) \union BelowIn(u, n)
  BY <1>1, <1>4, TakenOut
<1>10. FlyingIn(u, l) = BelowIn(u, n) /\ FlyingIn(t, None) = {}
  BY <1>7, <1>8 DEF FlyingIn
<1>11. CutIn(u, l) = {} /\ CutIn(t, None) = {}
  BY <1>1, <1>2, <1>4, <1>6, <1>7, <1>8 DEF CutIn
<1>12. d \in NamedIn(u)
  <2>1. d \notin BelowIn(t, n)
    <3>1. n \notin AboveIn(t, d)
      BY DEF Move, MayMove, IsAncestor, Above, Parents, AboveIn, ParentsOf, t
    <3> QED
      BY <1>1, <3>1, BelowAbove
  <2> QED
    BY <1>1, <1>9, <2>1
<1>13. \A i \in 1 .. Len(s) : s[i] \in DOMAIN t /\ s[i] # n /\ t[s[i]].name # name
  <2>1. TAKE i \in 1 .. Len(s)
  <2>2. s \in Seq(DOMAIN t)
    BY <1>6 DEF ListIn
  <2>3. s[i] \in ToSet(s)
    BY <2>2 DEF ToSet
  <2>4. \A x \in ToSet(t[d].kids) : t[x].name # name
    BY DEF Move, MayMove, Child, t
  <2> QED
    BY <1>6, <2>2, <2>3, <2>4
<1>14. ListIn(u, s, d)
  <2>1. s \in Seq(DOMAIN u)
    BY <1>4, <1>6 DEF ListIn
  <2> QED
    BY <1>4, <1>6, <1>13, <2>1, ListFrom
<1>15. LinkIn(u, l)
  <2>1. n \in DOMAIN u \ {Root}
    BY <1>1, <1>2, <1>4
  <2>2. \A x \in DOMAIN u : n \notin ToSet(u[x].kids)
    BY <1>4
  <2>3. \A i \in 1 .. Len(s) : u[s[i]].name # u[n].name
    BY <1>4, <1>13
  <2> QED
    BY <1>4, <1>8, <1>11, <1>12, <1>14, <2>1, <2>2, <2>3 DEF LinkIn
<1>16. ASSUME WholeIn(t, None) PROVE WholeIn(u, l)
  <2>1. DOMAIN u = NamedIn(u) \union FlyingIn(u, l)
    BY <1>4, <1>9, <1>10, <1>16 DEF WholeIn
  <2>2. ASSUME NEW x \in DOMAIN u, NEW y \in DOMAIN u, u[x].up = y, x # n
        PROVE  x \in ToSet(u[y].kids)
    <3>1. t[x].up = y /\ x \in DOMAIN t /\ y \in DOMAIN t
      BY <1>4, <2>2
    <3>2. x \in ToSet(t[y].kids)
      BY <1>16, <3>1 DEF WholeIn
    <3> QED
      BY <1>4, <2>2, <3>1, <3>2
  <2> QED
    BY <1>7, <1>8, <2>1, <2>2 DEF WholeIn
<1>17. Forest(u, l, mixed)
  BY <1>1, <1>4, <1>15, <1>16 DEF Forest, t
<1>18. HeldIn(t, None) = HeldIn(u, l)
  BY <1>9, <1>10, <1>11 DEF HeldIn
<1> QED
  BY <1>1, <1>4, <1>5, <1>17, <1>18 DEF t, u

(* fs_remove_node keeps the tree; what kmain refers to stays, or is freed.  *)
LEMMA RemoveKeeps ==
  ASSUME Forest(tree, link, mixed), KIdle, link' = link, mixed' = mixed,
         NEW n \in Named, n # Root, tree' = Without(tree, n)
  PROVE  /\ Forest(tree', link', mixed')
         /\ DOMAIN tree' = DOMAIN tree \ BelowIn(tree, n)
         /\ \A x \in HeldIn(tree, link) :
              (IF x \in BelowIn(tree, n) THEN Freed ELSE x) \in HeldIn(tree', link')
<1> DEFINE t == tree
           u == tree'
           freed == BelowIn(t, n)
<1>1. Tree(t) /\ n \in NamedIn(t) /\ link = None /\ u = Without(t, n)
  BY DEF Forest, Named, Below, Kids, NamedIn, BelowIn, KidsOf, KIdle
<1>2. Forest(t, None, mixed)
  BY <1>1
<1> HIDE DEF t, u, freed
<1>3. /\ Tree(u) /\ DOMAIN u = DOMAIN t \ freed
      /\ \A x \in DOMAIN u : ToSet(u[x].kids) = ToSet(t[x].kids) \ {n}
      /\ NamedIn(t) \subseteq NamedIn(u) \union freed
  <2>1. Prunes(t, u, n)
    BY <1>1, Pruned
  <2> QED
    BY <2>1 DEF Prunes, freed
<1>4. \A x \in DOMAIN u : u[x].up = t[x].up
  <2>1. Prunes(t, u, n)
    BY <1>1, Pruned
  <2> QED
    BY <2>1 DEF Prunes
<1>5. n \in freed /\ freed \subseteq DOMAIN t /\ NamedIn(u) \subseteq DOMAIN u
  BY <1>1, <1>3, NamedIs, BelowIs DEF freed
<1>6. ASSUME WholeIn(t, None) PROVE WholeIn(u, None)
  <2>1. DOMAIN u = NamedIn(u)
    BY <1>3, <1>5, <1>6 DEF WholeIn, FlyingIn
  <2>2. ASSUME NEW x \in DOMAIN u, NEW y \in DOMAIN u, u[x].up = y PROVE x \in ToSet(u[y].kids)
    <3>1. x \in DOMAIN t /\ y \in DOMAIN t /\ t[x].up = y /\ x # n
      BY <1>3, <1>4, <1>5, <2>2
    <3>2. x \in ToSet(t[y].kids)
      BY <1>6, <3>1 DEF WholeIn
    <3> QED
      BY <1>3, <3>1, <3>2
  <2> QED
    BY <2>1, <2>2 DEF WholeIn, FlyingIn
<1>7. Forest(u, None, mixed)
  BY <1>2, <1>3, <1>6 DEF Forest, LinkIn
<1>8. \A x \in HeldIn(t, None) : (IF x \in freed THEN Freed ELSE x) \in HeldIn(u, None)
  BY <1>3 DEF HeldIn, FlyingIn, CutIn
<1> QED
  BY <1>1, <1>3, <1>7, <1>8 DEF t, u, freed

(* kmain's store.  What it does not cut off is named from now on.           *)
LEMMA LinkKeeps ==
  ASSUME Forest(tree, link, mixed), KLink
  PROVE  /\ Forest(tree', link', mixed') /\ HeldIn(tree, link) \subseteq HeldIn(tree', link')
         /\ DOMAIN tree' = DOMAIN tree /\ \A x \in DOMAIN tree : tree'[x].up = tree[x].up
<1> DEFINE t == tree
           u == tree'
           l == link
           cut == CutIn(t, l)
<1>1. /\ Tree(t) /\ l # None /\ LinkIn(t, l) /\ link' = None
      /\ u = HungOn(t, l.n, l.d, l.list)
      /\ mixed' \in BOOLEAN /\ (~mixed' => ~mixed /\ t[l.d].kids = l.list)
      /\ ~mixed => WholeIn(t, l)
  BY DEF KLink, Forest, HungOn
<1> HIDE DEF t, u, l
<1> DEFINE n == l.n
           d == l.d
           s == l.list
<1>2. /\ n \in DOMAIN t \ {Root} /\ d \in NamedIn(t) /\ t[n].up = d
      /\ ListIn(t, s, d)
      /\ \A i \in 1 .. Len(s) : t[s[i]].name # t[n].name
      /\ \A x \in DOMAIN t : n \notin ToSet(t[x].kids)
      /\ \A x \in cut : ToSet(t[x].kids) = {} /\ ~t[x].dir
      /\ cut = ToSet(t[d].kids) \ ToSet(s)
  BY <1>1 DEF LinkIn, CutIn
<1>3. u = HungOn(t, n, d, s) /\ FlyingIn(t, l) = BelowIn(t, n)
  BY <1>1 DEF FlyingIn
<1> HIDE DEF n, d, s, cut
<1>4. d \in DOMAIN t /\ Root \in NamedIn(t) /\ NamedIn(t) \subseteq DOMAIN t
  BY <1>1, <1>2, NamedIs
<1>5. /\ Tree(u) /\ DOMAIN u = DOMAIN t
      /\ \A x \in DOMAIN t : u[x].up = t[x].up
      /\ \A x \in DOMAIN t \ {d} : u[x] = t[x]
      /\ ToSet(u[d].kids) = ToSet(s) \union {n} /\ u[d].kids = Append(s, n)
  <2>1. Hangs(t, u, n, d, s)
    BY <1>1, <1>2, <1>3, <1>4, Hung
  <2> QED
    BY <2>1 DEF Hangs
<1>6. \A x \in DOMAIN t : ToSet(t[x].kids) \subseteq ToSet(u[x].kids) \union cut
  BY <1>2, <1>5
<1>7. /\ BelowIn(t, Root) \subseteq BelowIn(u, Root) \union cut
      /\ BelowIn(t, n) \subseteq BelowIn(u, n) \union cut
  <2>1. DOMAIN t \cap DOMAIN u = DOMAIN t /\ DOMAIN t \subseteq DOMAIN u \union cut
    BY <1>5
  <2>2. \A x \in DOMAIN t \cap cut : ToSet(t[x].kids) \subseteq cut
    BY <1>2
  <2>3. \A x \in DOMAIN t \cap DOMAIN u : ToSet(t[x].kids) \subseteq ToSet(u[x].kids) \union cut
    BY <1>6
  <2>4. Root \in DOMAIN t \cap DOMAIN u /\ n \in DOMAIN t \cap DOMAIN u
    BY <1>2, <1>4, <1>5
  <2>5. BelowIn(t, Root) \subseteq BelowIn(u, Root) \union cut
    BY <1>1, <1>5, <2>1, <2>2, <2>3, <2>4, BelowKept
  <2>6. BelowIn(t, n) \subseteq BelowIn(u, n) \union cut
    BY <1>1, <1>5, <2>1, <2>2, <2>3, <2>4, BelowKept
  <2> QED
    BY <2>5, <2>6
<1>8. BelowIn(u, n) \subseteq NamedIn(u)
  <2>1. d \notin cut
    <3>1. SUFFICES ASSUME d \in ToSet(t[d].kids) PROVE FALSE
      BY <1>2
    <3>2. t[d].up = d /\ d # Root
      BY <1>1, <1>4, <3>1, KidOf
    <3>3. d \in BelowIn(t, d)
      BY <1>1, <1>4, BelowIs
    <3> QED
      BY <1>1, <1>2, <3>2, <3>3, UpNotBelow
  <2>2. d \in NamedIn(u)
    BY <1>2, <1>7, <2>1 DEF NamedIn
  <2>3. n \in NamedIn(u)
    BY <1>5, <2>2, NamedIs
  <2> QED
    BY <1>5, <2>3, BelowAbove
<1>9. NamedIn(t) \union BelowIn(t, n) \subseteq NamedIn(u) \union cut
  BY <1>7, <1>8 DEF NamedIn
<1>10. ASSUME ~mixed' PROVE WholeIn(u, None)
  <2>1. WholeIn(t, l) /\ t[d].kids = s /\ cut = {}
    BY <1>1, <1>2, <1>10 DEF d, s
  <2>2. DOMAIN u = NamedIn(u)
    BY <1>3, <1>5, <1>9, <2>1, NamedIs DEF WholeIn
  <2>3. ASSUME NEW x \in DOMAIN u, NEW y \in DOMAIN u, u[x].up = y PROVE x \in ToSet(u[y].kids)
    <3>1. x \in DOMAIN t /\ y \in DOMAIN t /\ t[x].up = y
      BY <1>5, <2>3
    <3>2. CASE x = n
      BY <1>2, <1>5, <3>1, <3>2
    <3>3. CASE x # n
      <4>1. x \in ToSet(t[y].kids)
        BY <2>1, <3>1, <3>3 DEF WholeIn, n
      <4> QED
        BY <1>6, <2>1, <3>1, <4>1
    <3> QED
      BY <3>2, <3>3
  <2> QED
    BY <2>2, <2>3 DEF WholeIn, FlyingIn
<1>11. Forest(u, None, mixed')
  BY <1>1, <1>5, <1>10 DEF Forest, LinkIn
<1>12. HeldIn(t, l) \subseteq HeldIn(u, None)
  BY <1>3, <1>9 DEF HeldIn, FlyingIn, CutIn, cut
<1> QED
  BY <1>1, <1>5, <1>11, <1>12 DEF t, u, l

(* In a whole tree the parent of every node but the root is allocated.      *)
LEMMA WholeUp ==
  ASSUME NEW t, Tree(t), NEW l, LinkIn(t, l), WholeIn(t, l), NEW x \in DOMAIN t, x # Root,
         l = None \/ x # l.n
  PROVE  t[x].up \in DOMAIN t
<1>1. CASE x \in NamedIn(t)
  BY <1>1, NamedUp, NamedIs
<1>2. CASE x \notin NamedIn(t)
  <2>1. l # None /\ x \in BelowIn(t, l.n) /\ x # l.n /\ l.n \in DOMAIN t
    BY <1>2 DEF WholeIn, FlyingIn, LinkIn
  <2> QED
    BY <2>1, BelowUp, BelowIs
<1> QED
  BY <1>1, <1>2

(* kmain's fs_create keeps the tree.                                        *)
LEMMA CreateKeeps ==
  ASSUME Forest(tree, link, mixed), NEW d \in Dirs, NEW name \in Names, NEW dir \in BOOLEAN,
         KCreate(d, name, dir)
  PROVE  /\ Forest(tree', link', mixed') /\ HeldIn(tree, link) \subseteq HeldIn(tree', link')
         /\ DOMAIN tree \subseteq DOMAIN tree' /\ \A x \in DOMAIN tree : tree'[x] = tree[x]
<1> DEFINE t == tree
           u == tree'
<1>1. PICK n \in Nodes \ DOMAIN t :
        /\ tree' = [x \in DOMAIN tree \union {n} |->
                     IF x = n THEN NewNode(dir, d, name) ELSE tree[x]]
        /\ StartLink(n, d)
  BY DEF KCreate
<1>2. u = WithNew(t, n, NewNode(dir, d, name))
  BY <1>1, Zenon DEF WithNew
<1> DEFINE s == RemoveFirst(t[d].kids, n)
           l == [n |-> n, d |-> d, list |-> s]
<1>3. /\ Tree(t) /\ d \in NamedIn(t) /\ link = None /\ link' = l /\ mixed' = mixed
      /\ \A x \in ToSet(t[d].kids) : t[x].name # name
  BY <1>1 DEF KCreate, Forest, Dirs, Named, Below, Kids, NamedIn, BelowIn, KidsOf, KIdle, StartLink,
              Child
<1>4. Forest(t, None, mixed)
  BY <1>3
<1> HIDE DEF t, u
<1>5. Root \in NamedIn(t) /\ NamedIn(t) \subseteq DOMAIN t /\ d \in DOMAIN t /\ n \notin DOMAIN t
  BY <1>3, NamedIs
<1>6. ListIn(t, s, d) /\ ToSet(s) = ToSet(t[d].kids)
  <2>1. n \notin ToSet(t[d].kids)
    BY <1>3, <1>5, KidOf
  <2>2. ListIn(t, t[d].kids, d)
    BY <1>3, <1>5 DEF Tree
  <2>3. ListIn(t, s, d) /\ ToSet(s) = ToSet(t[d].kids) \ {n}
    BY <2>2, ListWithout
  <2> QED
    BY <2>1, <2>3
<1> HIDE DEF s
<1>7. s \in Seq(DOMAIN t) /\ s \in Seq(Nodes)
  <2>1. s \in Seq(DOMAIN t) /\ DOMAIN t \subseteq Nodes
    BY <1>3, <1>6 DEF ListIn, Tree
  <2> QED
    BY <2>1
<1>8. l # None
  BY <1>3, <1>5, <1>7, FilesAssumption DEF Tree
<1>9. l.n = n /\ l.d = d /\ l.list = s
  OBVIOUS
<1> HIDE DEF l
<1>10. /\ Tree(u) /\ DOMAIN u = DOMAIN t \union {n}
       /\ u[n] = NewNode(dir, d, name) /\ ToSet(u[n].kids) = {}
       /\ BelowIn(u, n) = {n} /\ NamedIn(u) = NamedIn(t)
       /\ \A x \in DOMAIN t : u[x] = t[x]
  <2>1. Adds(t, u, n, NewNode(dir, d, name))
    BY <1>2, <1>3, <1>5, Allocated
  <2> QED
    BY <2>1 DEF Adds
<1>11. \A x \in DOMAIN t : u[x] = t[x]
  BY <1>10
<1>12. u[n].up = d /\ u[n].name = name
  BY <1>10 DEF NewNode
<1>13. FlyingIn(u, l) = {n} /\ FlyingIn(t, None) = {}
  BY <1>8, <1>9, <1>10 DEF FlyingIn
<1>14. CutIn(u, l) = {} /\ CutIn(t, None) = {}
  BY <1>5, <1>6, <1>8, <1>9, <1>11 DEF CutIn
<1>15. LinkIn(u, l)
  <2>1. n \in DOMAIN u \ {Root} /\ d \in NamedIn(u)
    BY <1>3, <1>5, <1>10
  <2>2. \A i \in 1 .. Len(s) : s[i] \in DOMAIN t /\ s[i] \in ToSet(s)
    BY <1>7 DEF ToSet
  <2>3. ListIn(u, s, d)
    <3>1. s \in Seq(DOMAIN u)
      BY <1>7, <1>10
    <3> QED
      BY <1>6, <1>11, <2>2, <3>1, ListFrom
  <2>4. \A i \in 1 .. Len(s) : u[s[i]].name # u[n].name
    BY <1>3, <1>6, <1>11, <1>12, <2>2
  <2>5. \A x \in DOMAIN u : n \notin ToSet(u[x].kids)
    <3> TAKE x \in DOMAIN u
    <3>1. CASE x = n
      BY <1>10, <3>1
    <3>2. CASE x # n
      <4>1. x \in DOMAIN t /\ u[x] = t[x]
        BY <1>10, <1>11, <3>2
      <4> QED
        BY <1>3, <1>5, <4>1, KidOf
    <3> QED
      BY <3>1, <3>2
  <2> QED
    BY <1>9, <1>12, <1>14, <2>1, <2>3, <2>4, <2>5 DEF LinkIn
<1>16. ASSUME WholeIn(t, None) PROVE WholeIn(u, l)
  <2>1. DOMAIN u = NamedIn(u) \union FlyingIn(u, l)
    BY <1>10, <1>13, <1>16 DEF WholeIn
  <2>2. ASSUME NEW x \in DOMAIN u, NEW y \in DOMAIN u, u[x].up = y, x # n
        PROVE  x \in ToSet(u[y].kids)
    <3>1. x \in DOMAIN t /\ t[x].up = y
      BY <1>10, <1>11, <2>2
    <3>2. x # Root
      BY <1>3, <1>10, <3>1, NamedIs DEF Tree
    <3>3. y \in DOMAIN t
      BY <1>3, <1>4, <1>16, <3>1, <3>2, WholeUp DEF Forest
    <3>4. x \in ToSet(t[y].kids)
      BY <1>16, <3>1, <3>3 DEF WholeIn
    <3> QED
      BY <1>11, <3>3, <3>4
  <2> QED
    BY <1>8, <1>9, <2>1, <2>2 DEF WholeIn
<1>17. Forest(u, l, mixed)
  BY <1>4, <1>10, <1>15, <1>16 DEF Forest
<1>18. HeldIn(t, None) \subseteq HeldIn(u, l)
  BY <1>10, <1>13, <1>14 DEF HeldIn
<1> QED
  BY <1>3, <1>10, <1>11, <1>17, <1>18 DEF t, u

(* The effect on the tree of a program's fs_create.                         *)
OpensNew(n, d, name) ==
  tree' = [x \in DOMAIN tree \union {n} |->
             IF x = n THEN NewNode(FALSE, d, name)
             ELSE IF x = d THEN [tree[d] EXCEPT !.kids = Append(@, n)] ELSE tree[x]]

(* A program's fs_create keeps the tree, also while kmain is about to       *)
(* append.                                                                  *)
LEMMA OpenNewKeeps ==
  ASSUME Forest(tree, link, mixed), NEW d \in Dirs, NEW name \in Names, Child(d, name) = {},
         NEW n \in Nodes \ DOMAIN tree, OpensNew(n, d, name), link' = link, mixed' = mixed
  PROVE  /\ Forest(tree', link', mixed') /\ HeldIn(tree, link) \subseteq HeldIn(tree', link')
         /\ DOMAIN tree \subseteq DOMAIN tree' /\ \A x \in DOMAIN tree : tree'[x].up = tree[x].up
<1> DEFINE t == tree
           u == tree'
           l == link
           w == WithNew(t, n, NewNode(FALSE, d, name))
           s == t[d].kids
<1>1. /\ Forest(t, l, mixed) /\ d \in NamedIn(t) /\ t[d].dir
      /\ \A x \in ToSet(t[d].kids) : t[x].name # name
  BY DEF Forest, Dirs, Named, Below, Kids, NamedIn, BelowIn, KidsOf, Child
<1>2. Tree(t) /\ LinkIn(t, l)
  BY <1>1 DEF Forest
<1>3. /\ Root \in NamedIn(t) /\ NamedIn(t) \subseteq DOMAIN t /\ d \in DOMAIN t /\ d # n
      /\ n \notin DOMAIN t
  BY <1>1, <1>2, NamedIs
<1>4. u = HungOn(w, n, d, s)
  <2> DEFINE node == NewNode(FALSE, d, name)
  <2>1. w = [x \in DOMAIN t \union {n} |-> IF x = n THEN node ELSE t[x]]
    BY DEF WithNew
  <2>2. u = [x \in DOMAIN t \union {n} |->
               IF x = n THEN node ELSE IF x = d THEN [t[d] EXCEPT !.kids = Append(@, n)] ELSE t[x]]
    BY DEF OpensNew
  <2> HIDE DEF node, t, u, w
  <2>3. HungOn(w, n, d, s) = [x \in DOMAIN w |->
          IF x = d THEN [w[d] EXCEPT !.kids = Append(s, n)] ELSE w[x]]
    BY <1>3, <2>1 DEF HungOn
  <2> QED
    BY <1>3, <2>1, <2>2, <2>3
<1> HIDE DEF t, u, l, w
<1>5. /\ Tree(w) /\ DOMAIN w = DOMAIN t \union {n}
      /\ w[n] = NewNode(FALSE, d, name) /\ ToSet(w[n].kids) = {}
      /\ \A x \in DOMAIN t : w[x] = t[x]
  <2>1. Adds(t, w, n, NewNode(FALSE, d, name))
    BY <1>2, <1>3, Allocated DEF w, t
  <2> QED
    BY <2>1 DEF Adds
<1>6. w[n].up = d /\ w[n].name = name /\ ~w[n].dir
  BY <1>5 DEF NewNode
<1>7. s = w[d].kids /\ ListIn(w, s, d) /\ s \in Seq(DOMAIN t)
  <2>1. s = w[d].kids /\ d \in DOMAIN t /\ d \in DOMAIN w
    BY <1>3, <1>5
  <2>2. ListIn(w, w[d].kids, d) /\ ListIn(t, s, d)
    BY <1>2, <1>5, <2>1 DEF Tree
  <2> HIDE DEF s
  <2>3. s \in Seq(DOMAIN t)
    BY <2>2 DEF ListIn
  <2> QED
    BY <2>1, <2>2, <2>3
<1> HIDE DEF s
<1>8. \A i \in 1 .. Len(s) : w[s[i]].name # w[n].name
  <2> TAKE i \in 1 .. Len(s)
  <2>1. s[i] \in DOMAIN t /\ s[i] \in ToSet(s)
    BY <1>7 DEF ToSet
  <2> QED
    BY <1>1, <1>5, <1>6, <2>1 DEF s
<1>9. /\ Tree(u) /\ DOMAIN u = DOMAIN t \union {n}
      /\ \A x \in DOMAIN w \ {d} : u[x] = w[x]
      /\ \A x \in DOMAIN w : u[x].dir = w[x].dir /\ u[x].up = w[x].up /\ u[x].name = w[x].name
      /\ ToSet(u[d].kids) = ToSet(t[d].kids) \union {n}
  <2>1. Hangs(w, u, n, d, s)
    BY <1>3, <1>4, <1>5, <1>6, <1>7, <1>8, Hung
  <2> QED
    BY <1>5, <2>1 DEF Hangs, s
<1>10. /\ u[n].up = d /\ ~u[n].dir /\ ToSet(u[n].kids) = {}
       /\ \A x \in DOMAIN t : u[x].dir = t[x].dir /\ u[x].up = t[x].up /\ u[x].name = t[x].name
       /\ \A x \in DOMAIN t \ {d} : u[x] = t[x]
       /\ \A x \in DOMAIN t : ToSet(t[x].kids) \subseteq ToSet(u[x].kids)
  BY <1>3, <1>5, <1>6, <1>9
<1>11. ASSUME NEW x \in DOMAIN t PROVE BelowIn(t, x) \subseteq BelowIn(u, x)
  <2> DEFINE cut == {}
  <2>1. DOMAIN t \subseteq DOMAIN u \union cut /\ x \in DOMAIN t \cap DOMAIN u
    BY <1>9
  <2>2. \A y \in DOMAIN t \cap DOMAIN u : ToSet(t[y].kids) \subseteq ToSet(u[y].kids) \union cut
    BY <1>10
  <2>3. \A y \in DOMAIN t \cap cut : ToSet(t[y].kids) \subseteq cut
    OBVIOUS
  <2> HIDE DEF cut
  <2>4. BelowIn(t, x) \subseteq BelowIn(u, x) \union cut
    BY <1>2, <1>9, <2>1, <2>2, <2>3, BelowKept
  <2> QED
    BY <2>4 DEF cut
<1>12. NamedIn(t) \subseteq NamedIn(u) /\ n \in NamedIn(u)
  <2>1. NamedIn(t) \subseteq NamedIn(u)
    BY <1>3, <1>11 DEF NamedIn
  <2> QED
    BY <1>1, <1>9, <2>1, NamedIs
<1>13. FlyingIn(t, l) \subseteq FlyingIn(u, l) /\ FlyingIn(t, l) \subseteq DOMAIN t
  BY <1>2, <1>11, BelowIs DEF FlyingIn, LinkIn
<1>14. CutIn(u, l) \subseteq CutIn(t, l) \union {n} /\ CutIn(t, l) \subseteq DOMAIN t
  <2>1. CASE l = None
    BY <2>1 DEF CutIn
  <2>2. CASE l # None
    <3>1. l.d \in DOMAIN t
      BY <1>2, <1>3, <2>2 DEF LinkIn
    <3>2. ToSet(u[l.d].kids) \subseteq ToSet(t[l.d].kids) \union {n}
      BY <1>9, <1>10, <3>1
    <3>3. ToSet(t[l.d].kids) \subseteq DOMAIN t
      BY <1>2, <3>1, KidOf
    <3> QED
      BY <2>2, <3>2, <3>3 DEF CutIn
  <2> QED
    BY <2>1, <2>2
<1>15. ASSUME l # None PROVE LinkIn(u, l)
  <2>1. /\ l.n \in DOMAIN t \ {Root} /\ l.d \in NamedIn(t) /\ t[l.n].up = l.d
        /\ ListIn(t, l.list, l.d)
        /\ \A i \in 1 .. Len(l.list) : t[l.list[i]].name # t[l.n].name
        /\ \A x \in DOMAIN t : l.n \notin ToSet(t[x].kids)
        /\ \A x \in CutIn(t, l) : ToSet(t[x].kids) = {} /\ ~t[x].dir
    BY <1>2, <1>15 DEF LinkIn
  <2>2. l.n \in DOMAIN u \ {Root} /\ l.d \in NamedIn(u) /\ u[l.n].up = l.d
    BY <1>9, <1>10, <1>12, <2>1
  <2>3. l.list \in Seq(DOMAIN t) /\ \A i \in 1 .. Len(l.list) : l.list[i] \in DOMAIN t
    BY <2>1 DEF ListIn
  <2>4. ListIn(u, l.list, l.d)
    <3>1. l.list \in Seq(DOMAIN u)
      BY <1>9, <2>3
    <3> QED
      BY <1>10, <2>1, <2>3, <3>1, ListFrom
  <2>5. \A i \in 1 .. Len(l.list) : u[l.list[i]].name # u[l.n].name
    BY <1>10, <2>1, <2>3
  <2>6. \A x \in DOMAIN u : l.n \notin ToSet(u[x].kids)
    <3> TAKE x \in DOMAIN u
    <3>1. l.n # n
      BY <1>3, <2>1
    <3>2. x = n \/ x = d \/ x \in DOMAIN t \ {d}
      BY <1>9
    <3> QED
      BY <1>3, <1>9, <1>10, <2>1, <3>1, <3>2
  <2>7. \A x \in CutIn(u, l) : ToSet(u[x].kids) = {} /\ ~u[x].dir
    <3> TAKE x \in CutIn(u, l)
    <3>1. CASE x = n
      BY <1>10, <3>1
    <3>2. CASE x # n
      <4>1. x \in CutIn(t, l) /\ x \in DOMAIN t
        BY <1>14, <3>2
      <4>2. x # d
        BY <1>1, <2>1, <4>1
      <4> QED
        BY <1>10, <2>1, <4>1, <4>2
    <3> QED
      BY <3>1, <3>2
  <2> QED
    BY <2>2, <2>4, <2>5, <2>6, <2>7 DEF LinkIn
<1>16. ASSUME WholeIn(t, l) PROVE WholeIn(u, l)
  <2>1. DOMAIN u = NamedIn(u) \union FlyingIn(u, l)
    <3>1. NamedIn(u) \subseteq DOMAIN u /\ FlyingIn(u, l) \subseteq DOMAIN u
      BY <1>2, <1>9, NamedIs, BelowIs DEF FlyingIn, LinkIn
    <3> QED
      BY <1>9, <1>12, <1>13, <1>16, <3>1 DEF WholeIn
  <2>2. ASSUME NEW x \in DOMAIN u, NEW y \in DOMAIN u, u[x].up = y, l = None \/ x # l.n
        PROVE  x \in ToSet(u[y].kids)
    <3>1. CASE x = n
      BY <1>9, <1>10, <2>2, <3>1
    <3>2. CASE x # n
      <4>1. x \in DOMAIN t /\ t[x].up = y
        BY <1>9, <1>10, <2>2, <3>2
      <4>2. x # Root
        BY <1>2, <1>9, <4>1, NamedIs DEF Tree
      <4>3. y \in DOMAIN t
        BY <1>2, <1>16, <2>2, <4>1, <4>2, WholeUp
      <4>4. x \in ToSet(t[y].kids)
        BY <1>16, <2>2, <4>1, <4>3 DEF WholeIn
      <4> QED
        BY <1>10, <4>3, <4>4
    <3> QED
      BY <3>1, <3>2
  <2> QED
    BY <2>1, <2>2 DEF WholeIn
<1>17. Forest(u, l, mixed)
  BY <1>1, <1>9, <1>15, <1>16 DEF Forest, LinkIn
<1>18. HeldIn(t, l) \subseteq HeldIn(u, l)
  BY <1>3, <1>12, <1>13, <1>14 DEF HeldIn
<1> QED
  BY <1>9, <1>10, <1>17, <1>18 DEF t, u, l

---------------------------------------------------------------------------
(* The invariant, and the steps that keep it.                               *)

(* What the Explorer has selected is in the folder it shows.                *)
SelIn(t, place, view) ==
  place = "explorer" /\ view["sel"] # None =>
    view["sel"] \in DOMAIN t /\ view["dir"] \in DOMAIN t /\ t[view["sel"]].up = view["dir"]

(* The invariant of the nodes and of what refers to them: the tree, kmain's *)
(* current directories and clipboard, and the Explorer's folder and         *)
(* selection.                                                               *)
FilesInv ==
  /\ Forest(tree, link, mixed)
  /\ ui \in {"shell", "explorer"}
  /\ {cwd, oldcwd, clip} \subseteq HeldIn(tree, link)
  /\ pane \in [{"dir", "sel", "prev"} -> HeldIn(tree, link)]
  /\ SelIn(tree, ui, pane)

(* The operators of Files in the terms of this module.                      *)
LEMMA Walks ==
  ASSUME FilesInv
  PROVE  /\ Tree(tree) /\ Named = NamedIn(tree) /\ Dirs \subseteq Named
         /\ \A n : Below(n) = BelowIn(tree, n) /\ Above(n) = AboveIn(tree, n)
         /\ KIdle => /\ HeldIn(tree, link) = Named \union {None, Freed}
                     /\ HeldIn(tree, link) \cap DOMAIN tree \subseteq Named
<1>1. Tree(tree) /\ Named = NamedIn(tree) /\ Dirs \subseteq Named
  BY DEF FilesInv, Forest, Named, Below, Kids, NamedIn, BelowIn, KidsOf, Dirs
<1>2. \A n : Below(n) = BelowIn(tree, n) /\ Above(n) = AboveIn(tree, n)
  BY DEF Below, Kids, BelowIn, KidsOf, Above, AboveIn, Parents, ParentsOf
<1>3. KIdle => HeldIn(tree, link) = Named \union {None, Freed}
  BY <1>1 DEF KIdle, HeldIn, FlyingIn, CutIn
<1> QED
  BY <1>1, <1>2, <1>3, NamedIs

(* fs_init's tree has the invariant.                                        *)
LEMMA InitKeeps ==
  ASSUME FilesInit
  PROVE  FilesInv
<1>1. PICK bin \in Nodes \ {Root} :
        tree = [n \in {Root, bin} |->
                  IF n = Root THEN [NewNode(TRUE, None, None) EXCEPT !.kids = <<bin>>]
                  ELSE NewNode(TRUE, Root, Bin)]
  BY DEF FilesInit
<1>2. /\ DOMAIN tree = {Root, bin}
      /\ tree[Root] = [dir |-> TRUE, up |-> None, name |-> None, kids |-> <<bin>>]
      /\ tree[bin] = [dir |-> TRUE, up |-> Root, name |-> Bin, kids |-> <<>>]
  BY <1>1 DEF NewNode
<1>3. Tree(tree)
  <2>1. \A n \in DOMAIN tree : tree[n] \in Node
    <3>1. <<bin>> \in Seq(Nodes) /\ <<>> \in Seq(Nodes)
      OBVIOUS
    <3>2. tree[Root] \in Node
      BY <1>2, <3>1 DEF Node
    <3>3. tree[bin] \in Node
      BY <1>2, <3>1, FilesAssumption DEF Node
    <3> QED
      BY <1>2, <3>2, <3>3
  <2>2. ListIn(tree, <<bin>>, Root)
    BY <1>2 DEF ListIn
  <2>3. ListIn(tree, <<>>, bin)
    <3>1. <<>> \in Seq(DOMAIN tree) /\ 1 .. Len(<<>>) = {}
      OBVIOUS
    <3> QED
      BY <3>1 DEF ListIn
  <2>4. \A d \in DOMAIN tree : ListIn(tree, tree[d].kids, d)
    BY <1>2, <2>2, <2>3
  <2> QED
    BY <1>2, <2>1, <2>4, FilesAssumption DEF Tree
<1>4. ToSet(tree[Root].kids) = {bin}
  BY <1>2 DEF ToSet
<1>5. NamedIn(tree) = DOMAIN tree
  BY <1>2, <1>3, <1>4, NamedIs
<1>6. link = None /\ mixed = FALSE
  BY DEF FilesInit
<1>7. FlyingIn(tree, None) = {} /\ CutIn(tree, None) = {}
  BY DEF FlyingIn, CutIn
<1>8. WholeIn(tree, None)
  <2>1. \A n, d \in DOMAIN tree : tree[n].up = d => n \in ToSet(tree[d].kids)
    BY <1>2, <1>4, FilesAssumption
  <2> QED
    BY <1>5, <1>7, <2>1 DEF WholeIn
<1>9. Forest(tree, link, mixed)
  BY <1>3, <1>6, <1>8 DEF Forest, LinkIn
<1>10. HeldIn(tree, link) = DOMAIN tree \union {None, Freed}
  BY <1>5, <1>6, <1>7 DEF HeldIn
<1>11. Root \in DOMAIN tree
  BY <1>2
<1>12. pane = [dir |-> Root, sel |-> None, prev |-> None] /\ pane["sel"] = None
  BY DEF FilesInit
<1>13. pane \in [{"dir", "sel", "prev"} -> HeldIn(tree, link)]
  BY <1>10, <1>11, <1>12
<1>14. SelIn(tree, ui, pane)
  BY <1>12 DEF SelIn
<1> QED
  BY <1>9, <1>10, <1>11, <1>13, <1>14 DEF FilesInit, FilesInv

(* fs_remove_node, in the hands of the shell or of the Explorer.            *)
LEMMA RemoveNodeKeeps ==
  ASSUME FilesInv, KIdle, link' = link, mixed' = mixed, ui' = ui, NEW n \in Named,
         NEW view, view \in [{"dir", "sel", "prev"} -> HeldIn(tree, link)],
         ui = "explorer" => view["sel"] = None,
         RemoveNode(n, view)
  PROVE  FilesInv'
<1> DEFINE freed == BelowIn(tree, n)
<1>1. /\ n # Root
      /\ tree' = [x \in DOMAIN tree \ freed |-> Unlinked(tree, n)[x]]
      /\ cwd' = IF CwdAfter(n) \in freed THEN Freed ELSE CwdAfter(n)
      /\ oldcwd' = IF oldcwd \in freed THEN Freed ELSE oldcwd
      /\ clip' = IF clip \in freed THEN Freed ELSE clip
      /\ pane' = [r \in DOMAIN view |-> IF view[r] \in freed THEN Freed ELSE view[r]]
  BY Walks DEF RemoveNode
<1>2. tree' = Without(tree, n)
  BY <1>1 DEF Without
<1>3. /\ Forest(tree', link', mixed') /\ DOMAIN tree' = DOMAIN tree \ freed
      /\ \A x \in HeldIn(tree, link) :
           (IF x \in freed THEN Freed ELSE x) \in HeldIn(tree', link')
  BY <1>1, <1>2, RemoveKeeps DEF FilesInv
<1>4. CwdAfter(n) \in HeldIn(tree, link)
  <2>1. tree[n].up \in Named
    BY <1>1, Walks, NamedUp
  <2> QED
    BY <2>1, Walks DEF CwdAfter, FilesInv
<1>5. None \notin freed
  BY Walks, NamedIs, BelowIs DEF freed
<1> HIDE DEF freed
<1>6. {cwd', oldcwd', clip'} \subseteq HeldIn(tree', link')
  BY <1>1, <1>3, <1>4 DEF FilesInv
<1>7. pane' \in [{"dir", "sel", "prev"} -> HeldIn(tree', link')]
  BY <1>1, <1>3
<1>8. SelIn(tree', ui', pane')
  <2>1. "sel" \in DOMAIN view
    OBVIOUS
  <2> QED
    BY <1>1, <1>5, <2>1 DEF SelIn
<1> QED
  BY <1>3, <1>6, <1>7, <1>8 DEF FilesInv

(* Nodes are added or moved about: what kmain held, it holds.               *)
LEMMA GrowKeeps ==
  ASSUME FilesInv, Forest(tree', link', mixed'), HeldIn(tree, link) \subseteq HeldIn(tree', link'),
         DOMAIN tree \subseteq DOMAIN tree',
         \A x \in DOMAIN tree : tree'[x].up = tree[x].up,
         UNCHANGED <<ui, cwd, oldcwd, clip, pane>>
  PROVE  FilesInv'
<1>1. pane' \in [{"dir", "sel", "prev"} -> HeldIn(tree', link')]
  <2> DEFINE H == HeldIn(tree, link)
             G == HeldIn(tree', link')
  <2>1. pane \in [{"dir", "sel", "prev"} -> H] /\ H \subseteq G
    BY DEF FilesInv
  <2> HIDE DEF H, G
  <2>2. pane \in [{"dir", "sel", "prev"} -> G]
    BY <2>1
  <2> QED
    BY <2>2 DEF G
<1>2. SelIn(tree', ui', pane')
  BY DEF FilesInv, SelIn
<1> QED
  BY <1>1, <1>2 DEF FilesInv

(* fs_move in the hands of the Explorer, which then shows view.             *)
LEMMA ExplorerMoveKeeps ==
  ASSUME FilesInv, KIdle, mixed' = mixed, UNCHANGED <<ui, cwd, oldcwd>>,
         NEW n \in Named, NEW d \in Named, NEW name \in Names, Move(n, d, name),
         clip' \in {clip, None},
         pane' \in [{"dir", "sel", "prev"} -> HeldIn(tree, link)],
         pane'["sel"] = None \/ (pane'["sel"] = n /\ pane'["dir"] = d)
  PROVE  FilesInv'
<1>1. /\ Forest(tree', link', mixed') /\ HeldIn(tree, link) = HeldIn(tree', link')
      /\ DOMAIN tree' = DOMAIN tree /\ tree'[n].up = d
  BY MoveKeeps DEF FilesInv
<1>2. n \in DOMAIN tree /\ d \in DOMAIN tree
  BY Walks, NamedIs
<1>3. SelIn(tree', ui', pane')
  BY <1>1, <1>2 DEF SelIn
<1>4. {cwd', oldcwd', clip'} \subseteq HeldIn(tree', link')
  BY <1>1 DEF FilesInv, HeldIn
<1> QED
  BY <1>1, <1>3, <1>4 DEF FilesInv

(* Every step keeps the invariant of the nodes.                             *)
LEMMA FilesStep ==
  ASSUME FilesInv, [FilesNext]_filevars
  PROVE  FilesInv'
<1>1. ASSUME UNCHANGED <<ui, tree, link, cwd, oldcwd, clip, pane, mixed>> PROVE FilesInv'
  BY <1>1 DEF FilesInv, Forest
<1>2. CASE UNCHANGED filevars
  BY <1>1, <1>2 DEF filevars
<1>3. CASE KLink
  <2>1. UNCHANGED <<ui, cwd, oldcwd, clip, pane>>
    BY <1>3 DEF KLink
  <2>2. /\ Forest(tree', link', mixed') /\ HeldIn(tree, link) \subseteq HeldIn(tree', link')
        /\ DOMAIN tree' = DOMAIN tree /\ \A x \in DOMAIN tree : tree'[x].up = tree[x].up
    BY <1>3, LinkKeeps DEF FilesInv
  <2> QED
    BY <2>1, <2>2, GrowKeeps
<1>4. ASSUME NEW d \in Dirs, NEW name \in Names, NEW dir \in BOOLEAN, KCreate(d, name, dir)
      PROVE  FilesInv'
  <2>1. UNCHANGED <<ui, cwd, oldcwd, clip, pane>>
    BY <1>4 DEF KCreate
  <2>2. /\ Forest(tree', link', mixed') /\ HeldIn(tree, link) \subseteq HeldIn(tree', link')
        /\ DOMAIN tree \subseteq DOMAIN tree' /\ \A x \in DOMAIN tree : tree'[x] = tree[x]
    BY <1>4, CreateKeeps DEF FilesInv
  <2>3. \A x \in DOMAIN tree : tree'[x].up = tree[x].up
    BY <2>2
  <2> QED
    BY <2>1, <2>2, <2>3, GrowKeeps
<1>5. ASSUME NEW d \in Dirs, NEW name \in Names, NEW n \in Named, KMove(n, d, name)
      PROVE  FilesInv'
  <2>1. KIdle /\ ui = "shell" /\ mixed' = mixed /\ Move(n, d, name) /\ d \in Named
        /\ UNCHANGED <<ui, cwd, oldcwd, clip, pane>>
    BY <1>5, Walks DEF KMove, At
  <2>2. Forest(tree', link', mixed') /\ HeldIn(tree, link) = HeldIn(tree', link')
    BY <2>1, MoveKeeps DEF FilesInv
  <2>3. SelIn(tree', ui', pane')
    BY <2>1 DEF SelIn
  <2> QED
    BY <2>1, <2>2, <2>3 DEF FilesInv
<1>6. ASSUME NEW d \in Dirs, NEW name \in Names, NEW p \in Users,
             SysOpenOld(p, d, name) \/ SysOpenNew(p, d, name)
      PROVE  FilesInv'
  <2>1. CASE SysOpenOld(p, d, name)
    BY <1>1, <2>1 DEF SysOpenOld
  <2>2. CASE SysOpenNew(p, d, name)
    <3>1. /\ Child(d, name) = {} /\ link' = link /\ mixed' = mixed
          /\ UNCHANGED <<ui, cwd, oldcwd, clip, pane>>
      BY <2>2 DEF SysOpenNew
    <3>2. PICK n \in Nodes \ DOMAIN tree : OpensNew(n, d, name)
      BY <2>2 DEF SysOpenNew, OpensNew
    <3>3. /\ Forest(tree', link', mixed') /\ HeldIn(tree, link) \subseteq HeldIn(tree', link')
          /\ DOMAIN tree \subseteq DOMAIN tree' /\ \A x \in DOMAIN tree : tree'[x].up = tree[x].up
      BY <3>1, <3>2, OpenNewKeeps DEF FilesInv
    <3> QED
      BY <3>1, <3>3, GrowKeeps
  <2> QED
    BY <1>6, <2>1, <2>2
<1>7. ASSUME NEW n \in Named, KRemove(n) PROVE FilesInv'
  BY <1>7, RemoveNodeKeeps DEF KRemove, At, FilesInv
<1>8. ASSUME NEW d \in Dirs, KChdir(d) \/ KSandbox(d) \/ Go(d) PROVE FilesInv'
  <2>1. KIdle /\ UNCHANGED <<tree, link, mixed, clip, ui>>
    BY <1>8 DEF KChdir, KSandbox, Go, At
  <2>2. d \in HeldIn(tree, link) /\ None \in HeldIn(tree, link)
    BY <2>1, Walks DEF HeldIn
  <2>3. CASE KChdir(d) \/ KSandbox(d)
    <3>1. UNCHANGED pane /\ {cwd', oldcwd'} \subseteq {cwd, oldcwd, d}
      BY <2>3 DEF KChdir, KSandbox
    <3> QED
      BY <2>1, <2>2, <3>1 DEF FilesInv, Forest
  <2>4. CASE Go(d)
    <3>1. UNCHANGED <<cwd, oldcwd>> /\ pane' = [dir |-> d, sel |-> None, prev |-> pane.dir]
      BY <2>4 DEF Go
    <3>2. pane.dir \in HeldIn(tree, link)
      BY DEF FilesInv
    <3>3. pane' \in [{"dir", "sel", "prev"} -> HeldIn(tree, link)] /\ pane'["sel"] = None
      BY <2>2, <3>1, <3>2
    <3> QED
      BY <2>1, <3>1, <3>3 DEF FilesInv, Forest, SelIn
  <2> QED
    BY <1>8, <2>3, <2>4
<1>9. CASE KSandboxEnds
  <2>1. None \in HeldIn(tree, link)
    BY DEF HeldIn
  <2> QED
    BY <1>9, <2>1 DEF KSandboxEnds, FilesInv, Forest
<1>10. CASE GoBack
  <2>1. /\ UNCHANGED <<ui, tree, link, cwd, oldcwd, clip, mixed>>
        /\ pane' = [dir |-> pane.prev, sel |-> None, prev |-> None]
    BY <1>10 DEF GoBack
  <2>2. pane.prev \in HeldIn(tree, link) /\ None \in HeldIn(tree, link)
    BY DEF FilesInv, HeldIn
  <2>3. pane' \in [{"dir", "sel", "prev"} -> HeldIn(tree, link)] /\ pane'["sel"] = None
    BY <2>1, <2>2
  <2> QED
    BY <2>1, <2>3 DEF FilesInv, Forest, SelIn
<1>11. CASE Click
  <2>1. PICK n \in ToSet(tree[pane.dir].kids) : pane' = [pane EXCEPT !.sel = n]
    BY <1>11 DEF Click
  <2>2. KIdle /\ Alive(pane.dir) /\ UNCHANGED <<ui, tree, link, cwd, oldcwd, clip, mixed>>
    BY <1>11 DEF Click, At
  <2>3. pane \in [{"dir", "sel", "prev"} -> HeldIn(tree, link)]
    BY DEF FilesInv
  <2>4. pane.dir \in Named
    BY <2>2, <2>3, Walks DEF Alive
  <2>5. n \in Named /\ n \in DOMAIN tree /\ tree[n].up = pane.dir
    <3>1. pane.dir \in DOMAIN tree
      BY <2>2 DEF Alive
    <3> QED
      BY <2>1, <2>4, <3>1, Walks, NamedIs, KidOf
  <2>6. pane' \in [{"dir", "sel", "prev"} -> HeldIn(tree, link)]
    BY <2>1, <2>2, <2>3, <2>5, Walks
  <2>7. pane'["sel"] = n /\ pane'["dir"] = pane.dir
    BY <2>1, <2>3
  <2>8. SelIn(tree', ui', pane')
    BY <2>2, <2>5, <2>7 DEF SelIn, Alive
  <2> QED
    BY <2>2, <2>6, <2>8 DEF FilesInv, Forest
<1>12. CASE CutSel
  <2>1. pane.sel \in HeldIn(tree, link)
    BY DEF FilesInv
  <2> QED
    BY <1>12, <2>1 DEF CutSel, FilesInv, Forest
<1>13. ASSUME NEW name \in Names, Paste(name) \/ Rename(name) \/ Delete(name) PROVE FilesInv'
  <2>1. KIdle /\ ui = "explorer" /\ UNCHANGED <<ui, mixed>>
    BY <1>13 DEF Paste, Rename, Delete, At
  <2>2. pane \in [{"dir", "sel", "prev"} -> HeldIn(tree, link)] /\ None \in HeldIn(tree, link)
    BY DEF FilesInv, HeldIn
  <2>3. \A x \in HeldIn(tree, link) : Alive(x) => x \in Named
    BY <2>1, Walks DEF Alive
  <2>4. CASE Paste(name)
    <3>1. /\ Move(clip, pane.dir, name) /\ UNCHANGED <<cwd, oldcwd>> /\ clip' = None
          /\ pane' = [pane EXCEPT !.sel = clip] /\ Alive(clip) /\ Alive(pane.dir)
      BY <2>4 DEF Paste
    <3>2. clip \in Named /\ pane.dir \in Named /\ clip \in HeldIn(tree, link)
      BY <2>2, <2>3, <3>1 DEF FilesInv
    <3>3. /\ pane' \in [{"dir", "sel", "prev"} -> HeldIn(tree, link)]
          /\ pane'["sel"] = clip /\ pane'["dir"] = pane.dir
      BY <2>2, <3>1, <3>2
    <3> QED
      BY <2>1, <3>1, <3>2, <3>3, ExplorerMoveKeeps
  <2>5. CASE Rename(name)
    <3>1. /\ Move(pane.sel, tree[pane.sel].up, name) /\ UNCHANGED <<cwd, oldcwd, clip, pane>>
          /\ Alive(pane.sel) /\ tree[pane.sel].up \in DOMAIN tree
      BY <2>5 DEF Rename
    <3>2. pane.sel \in Named /\ pane.sel # Root
      BY <2>2, <2>3, <3>1 DEF Move, MayMove
    <3>3. tree[pane.sel].up \in Named
      BY <3>2, Walks, NamedUp
    <3>4. pane["sel"] = None \/ pane["dir"] = tree[pane.sel].up
      BY <2>1 DEF FilesInv, SelIn
    <3> QED
      BY <2>1, <2>2, <3>1, <3>2, <3>3, <3>4, ExplorerMoveKeeps
  <2>6. CASE Delete(name)
    <3> DEFINE view == [pane EXCEPT !.sel = None]
    <3>1. Alive(pane.sel) /\ pane.sel \in Named
      BY <2>2, <2>3, <2>6 DEF Delete
    <3>2. view \in [{"dir", "sel", "prev"} -> HeldIn(tree, link)] /\ view["sel"] = None
      BY <2>2
    <3>3. CASE RemoveNode(pane.sel, view) /\ UNCHANGED link
      BY <2>1, <3>1, <3>2, <3>3, RemoveNodeKeeps
    <3>4. ASSUME NEW d \in Child(Root, Bin), Move(pane.sel, d, name), pane' = view,
                 UNCHANGED <<cwd, oldcwd, clip>>
          PROVE  FilesInv'
      <4>1. d \in Named
        BY Walks, NamedIs DEF Child
      <4> QED
        BY <2>1, <3>1, <3>2, <3>4, <4>1, ExplorerMoveKeeps
    <3> QED
      BY <2>6, <3>3, <3>4 DEF Delete
  <2> QED
    BY <1>13, <2>4, <2>5, <2>6
<1>14. ASSUME NEW p \in Users,
              \/ \E what \in Devices : SysOpenOther(p, what)
              \/ SysOpenProcFails(p)
              \/ \E d \in Fds : SysClose(p, d)
              \/ SysExitFiles(p)
              \/ KExecFiles(p)
       PROVE  FilesInv'
  BY <1>1, <1>14 DEF SysOpenOther, SysOpenProcFails, SysClose, SysExitFiles, KExecFiles
<1> QED
  BY <1>2, <1>3, <1>4, <1>5, <1>6, <1>7, <1>8, <1>9, <1>10, <1>11, <1>12, <1>13, <1>14
  DEF FilesNext

---------------------------------------------------------------------------
(* Descriptors.                                                             *)

(* What a descriptor may hold; which descriptors hold one of kinds; what is *)
(* behind those that are open.                                              *)
Slots == Devices \union DOMAIN tree \union {None, Freed}
Open(f, kinds) == {x \in Users \X Fds : f[x[1]][x[2]] \in kinds}
Opened == Nodes \union Devices \union {Freed}

(* The invariant of the descriptors: the file objects and /proc texts are   *)
(* counted, and a program that does not run has none open.                  *)
FdsInv ==
  /\ alive \subseteq Users
  /\ fds \in [Users -> [Fds -> Slots]]
  /\ \A p \in Users \ alive, d \in Fds : fds[p][d] = None
  /\ lost \in [{"object", "buffer"} -> Nat] /\ lost.object + lost.buffer <= MaxLost
  /\ DescriptorsCounted

(* Descriptors can be counted.                                              *)
LEMMA OpenFinite ==
  ASSUME NEW f, NEW kinds
  PROVE  IsFiniteSet(Open(f, kinds)) /\ Cardinality(Open(f, kinds)) \in Nat
<1>1. IsFiniteSet(Users) /\ IsFiniteSet(Fds)
  BY FilesAssumption, FS_Interval DEF Fds
<1>2. IsFiniteSet(Users \X Fds)
  BY <1>1, FS_Product
<1>3. Open(f, kinds) \subseteq Users \X Fds
  BY DEF Open
<1> QED
  BY <1>2, <1>3, FS_Subset, FS_CardinalityType

(* Only d of p changes, to what.                                            *)
Becomes(f, g, p, d, what) ==
  \A q \in Users, e \in Fds : g[q][e] = IF q = p /\ e = d THEN what ELSE f[q][e]

(* How the descriptors that hold one of kinds change with one of them.      *)
LEMMA OpenSet ==
  ASSUME NEW f, NEW g, NEW p \in Users, NEW d \in Fds, NEW what, Becomes(f, g, p, d, what),
         NEW kinds
  PROVE  /\ what \in kinds => Open(g, kinds) = Open(f, kinds) \union {<<p, d>>}
         /\ what \notin kinds => Open(g, kinds) = Open(f, kinds) \ {<<p, d>>}
         /\ <<p, d>> \in Open(f, kinds) <=> f[p][d] \in kinds
<1>1. ASSUME NEW q \in Users, NEW e \in Fds
      PROVE  g[q][e] = IF q = p /\ e = d THEN what ELSE f[q][e]
  BY DEF Becomes
<1>2. ASSUME NEW x \in Users \X Fds
      PROVE  g[x[1]][x[2]] = IF x = <<p, d>> THEN what ELSE f[x[1]][x[2]]
  <2>1. PICK q \in Users, e \in Fds : x = <<q, e>>
    OBVIOUS
  <2> QED
    BY <1>1, <2>1
<1>3. <<p, d>> \in Users \X Fds
  OBVIOUS
<1>4. CASE what \in kinds
  BY <1>2, <1>3, <1>4 DEF Open
<1>5. CASE what \notin kinds
  BY <1>2, <1>3, <1>5 DEF Open
<1> QED
  BY <1>3, <1>4, <1>5 DEF Open

(* A free descriptor is taken ...                                           *)
LEMMA OpenCounts ==
  ASSUME NEW f, NEW g, NEW p \in Users, NEW d \in Fds, NEW what, Becomes(f, g, p, d, what),
         NEW kinds, None \notin kinds
  PROVE  /\ f[p][d] = None /\ what \in kinds =>
              Cardinality(Open(g, kinds)) = Cardinality(Open(f, kinds)) + 1
         /\ f[p][d] = None /\ what \notin kinds =>
              Cardinality(Open(g, kinds)) = Cardinality(Open(f, kinds))
<1> DEFINE A == Open(f, kinds)
<1>1. /\ what \in kinds => Open(g, kinds) = A \union {<<p, d>>}
      /\ what \notin kinds => Open(g, kinds) = A \ {<<p, d>>}
      /\ <<p, d>> \in A <=> f[p][d] \in kinds
  BY OpenSet, Zenon
<1>2. IsFiniteSet(A) /\ Cardinality(A) \in Nat
  BY OpenFinite
<1> HIDE DEF A
<1>3. /\ Cardinality(A \union {<<p, d>>}) =
           IF <<p, d>> \in A THEN Cardinality(A) ELSE Cardinality(A) + 1
      /\ Cardinality(A \ {<<p, d>>}) =
           IF <<p, d>> \in A THEN Cardinality(A) - 1 ELSE Cardinality(A)
  BY <1>2, FS_AddElement, FS_RemoveElement
<1> QED
  BY <1>1, <1>3 DEF A

(* ... and one that is open is given back.                                  *)
LEMMA GivenCounts ==
  ASSUME NEW f, NEW g, NEW p \in Users, NEW d \in Fds, Becomes(f, g, p, d, None),
         NEW kinds, None \notin kinds
  PROVE  /\ f[p][d] \in kinds =>
              Cardinality(Open(g, kinds)) = Cardinality(Open(f, kinds)) - 1
         /\ f[p][d] \notin kinds =>
              Cardinality(Open(g, kinds)) = Cardinality(Open(f, kinds))
<1> DEFINE A == Open(f, kinds)
<1>1. /\ None \in kinds => Open(g, kinds) = A \union {<<p, d>>}
      /\ None \notin kinds => Open(g, kinds) = A \ {<<p, d>>}
      /\ <<p, d>> \in A <=> f[p][d] \in kinds
  BY OpenSet, Zenon
<1>2. IsFiniteSet(A) /\ Cardinality(A) \in Nat
  BY OpenFinite
<1> HIDE DEF A
<1>3. Cardinality(A \ {<<p, d>>}) = IF <<p, d>> \in A THEN Cardinality(A) - 1 ELSE Cardinality(A)
  BY <1>2, FS_RemoveElement
<1> QED
  BY <1>1, <1>3 DEF A

(* The descriptor SYS_OPEN takes is free.                                   *)
LEMMA LowestFree ==
  ASSUME NEW p, FreeFds(p) # {}
  PROVE  LowestFd(p) \in Fds /\ fds[p][LowestFd(p)] = None
<1>1. FreeFds(p) \subseteq Nat
  BY DEF FreeFds, Fds
<1>2. \E d \in FreeFds(p) : \A e \in FreeFds(p) : d <= e
  BY <1>1, Least
<1>3. LowestFd(p) \in FreeFds(p)
  BY <1>2 DEF LowestFd
<1> QED
  BY <1>3 DEF FreeFds

(* SYS_OPEN, with or without a free descriptor, keeps the counts.           *)
LEMMA InstallCounts ==
  ASSUME FdsInv, NEW p \in alive, NEW what \in Nodes \union Devices,
         Install(p, what) \/ UNCHANGED <<fds, objects, buffers>>,
         DOMAIN tree \subseteq DOMAIN tree', what \in DOMAIN tree' \union Devices,
         UNCHANGED <<alive, lost>>
  PROVE  FdsInv'
<1> DEFINE S == Slots
           T == Slots'
<1>1. fds \in [Users -> [Fds -> S]] /\ S \subseteq T /\ what \in T /\ p \in Users
  BY DEF FdsInv, Slots
<1>2. /\ None \notin Opened /\ what \in Opened
      /\ {"proc"} \subseteq Opened /\ (what \in {"proc"} <=> what = "proc")
  BY FilesAssumption DEF Opened, Devices
<1> HIDE DEF S, T
<1>3. CASE UNCHANGED <<fds, objects, buffers>>
  <2>1. fds' \in [Users -> [Fds -> T]]
    BY <1>1, <1>3
  <2> QED
    BY <1>3, <2>1 DEF FdsInv, DescriptorsCounted, OpenOn, T
<1>4. CASE Install(p, what) /\ FreeFds(p) # {}
  <2> DEFINE d == LowestFd(p)
  <2>1. d \in Fds /\ fds[p][d] = None
    BY <1>4, LowestFree
  <2>2. /\ fds' = [fds EXCEPT ![p][d] = what]
        /\ objects' = objects + 1 /\ buffers' = buffers + IsProc(what)
    BY <1>4 DEF Install
  <2> HIDE DEF d
  <2>10. Becomes(fds, fds', p, d, what)
    BY <1>1, <2>1, <2>2 DEF Becomes
  <2>3. Cardinality(Open(fds', Opened)) = Cardinality(Open(fds, Opened)) + 1
    BY <1>1, <1>2, <2>1, <2>10, OpenCounts
  <2>4. Cardinality(Open(fds', {"proc"})) = Cardinality(Open(fds, {"proc"})) + IsProc(what)
    <3> DEFINE kinds == {"proc"}
    <3>1. None \notin kinds /\ (what \in kinds <=> what = "proc")
      BY <1>2
    <3>2. Cardinality(Open(fds, kinds)) \in Nat
      BY OpenFinite
    <3> HIDE DEF kinds
    <3>3. CASE what = "proc"
      <4>1. Cardinality(Open(fds', kinds)) = Cardinality(Open(fds, kinds)) + 1
        BY <1>1, <2>1, <2>10, <3>1, <3>3, OpenCounts
      <4> QED
        BY <3>3, <4>1 DEF IsProc, kinds
    <3>4. CASE what # "proc"
      <4>1. Cardinality(Open(fds', kinds)) = Cardinality(Open(fds, kinds))
        BY <1>1, <2>1, <2>10, <3>1, <3>4, OpenCounts
      <4> QED
        BY <3>2, <3>4, <4>1 DEF IsProc, kinds
    <3> QED
      BY <3>3, <3>4
  <2>5. fds' \in [Users -> [Fds -> T]]
    BY <1>1, <2>1, <2>2
  <2>6. \A q \in Users \ alive', e \in Fds : fds'[q][e] = None
    BY <1>1, <2>2 DEF FdsInv
  <2>7. DescriptorsCounted'
    <3>1. /\ objects = Cardinality(Open(fds, Opened)) + lost.object
          /\ buffers = Cardinality(Open(fds, {"proc"})) + lost.buffer
          /\ lost.object \in Nat /\ lost.buffer \in Nat
      BY DEF FdsInv, DescriptorsCounted, OpenOn, Open, Opened
    <3>2. /\ objects' = Cardinality(Open(fds', Opened)) + lost'.object
          /\ buffers' = Cardinality(Open(fds', {"proc"})) + lost'.buffer
      BY <2>2, <2>3, <2>4, <3>1, OpenFinite DEF IsProc
    <3> QED
      BY <3>2 DEF DescriptorsCounted, OpenOn, Open, Opened
  <2> QED
    BY <2>5, <2>6, <2>7 DEF FdsInv, T
<1>5. CASE Install(p, what) /\ FreeFds(p) = {}
  <2>1. UNCHANGED <<fds, objects, buffers>>
    BY <1>5 DEF Install
  <2> QED
    BY <1>3, <2>1
<1> QED
  BY <1>3, <1>4, <1>5

(* The invariant, with the numbers known to be numbers.                     *)
LEMMA CountsAre ==
  ASSUME FilesInv, FdsInv
  PROVE  /\ objects = Cardinality(Open(fds, Opened)) + lost.object
         /\ buffers = Cardinality(Open(fds, {"proc"})) + lost.buffer
         /\ lost.object \in Nat /\ lost.buffer \in Nat
         /\ Cardinality(Open(fds, Opened)) \in Nat /\ Cardinality(Open(fds, {"proc"})) \in Nat
         /\ fds \in [Users -> [Fds -> Slots]] /\ Slots \subseteq Opened \union {None}
         /\ None \notin Opened /\ None \notin {"proc"}
         /\ \A p \in Users, d \in Fds : fds[p][d] # None <=> fds[p][d] \in Opened
<1>1. /\ objects = Cardinality(Open(fds, Opened)) + lost.object
      /\ buffers = Cardinality(Open(fds, {"proc"})) + lost.buffer
  BY DEF FdsInv, DescriptorsCounted, OpenOn, Open, Opened
<1>2. lost.object \in Nat /\ lost.buffer \in Nat /\ fds \in [Users -> [Fds -> Slots]]
  BY DEF FdsInv
<1>3. DOMAIN tree \subseteq Nodes
  BY DEF FilesInv, Forest, Tree
<1>4. /\ Slots \subseteq Opened \union {None}
      /\ None \notin Opened /\ None \notin {"proc"}
  BY <1>3, FilesAssumption DEF Slots, Opened, Devices
<1>5. \A p \in Users, d \in Fds : fds[p][d] # None <=> fds[p][d] \in Opened
  BY <1>2, <1>4
<1> QED
  BY <1>1, <1>2, <1>4, <1>5, OpenFinite

(* What a change of fds, objects, buffers and lost has to show.             *)
LEMMA CountsKept ==
  ASSUME alive' \subseteq Users, fds' \in [Users -> [Fds -> Slots']],
         \A p \in Users \ alive', d \in Fds : fds'[p][d] = None,
         lost' \in [{"object", "buffer"} -> Nat], lost'.object + lost'.buffer <= MaxLost,
         objects' = Cardinality(Open(fds', Opened)) + lost'.object,
         buffers' = Cardinality(Open(fds', {"proc"})) + lost'.buffer
  PROVE  FdsInv'
<1>1. DescriptorsCounted'
  BY DEF DescriptorsCounted, OpenOn, Open, Opened
<1> QED
  BY <1>1 DEF FdsInv

(* SYS_CLOSE keeps the counts.                                              *)
LEMMA CloseCounts ==
  ASSUME FilesInv, FdsInv, NEW p \in Users, NEW d \in Fds, SysClose(p, d)
  PROVE  FdsInv'
<1>1. /\ p \in alive /\ fds[p][d] # None /\ fds' = [fds EXCEPT ![p][d] = None]
      /\ objects' = objects - 1 /\ buffers' = buffers - IsProc(fds[p][d])
      /\ UNCHANGED <<tree, alive, lost>>
  BY DEF SysClose
<1>2. fds \in [Users -> [Fds -> Slots]] /\ None \in Slots /\ Slots' = Slots
  BY <1>1 DEF FdsInv, Slots
<1>3. Becomes(fds, fds', p, d, None)
  BY <1>1, <1>2 DEF Becomes
<1>4. Cardinality(Open(fds', Opened)) = Cardinality(Open(fds, Opened)) - 1
  BY <1>1, <1>3, CountsAre, GivenCounts
<1> DEFINE kinds == {"proc"}
<1>5. None \notin kinds /\ (fds[p][d] \in kinds <=> fds[p][d] = "proc")
  BY CountsAre
<1>6. Cardinality(Open(fds, kinds)) \in Nat
  BY OpenFinite
<1> HIDE DEF kinds
<1>7. Cardinality(Open(fds', kinds)) = Cardinality(Open(fds, kinds)) - IsProc(fds[p][d])
  <2>1. CASE fds[p][d] = "proc"
    <3>1. fds[p][d] \in kinds
      BY <1>5, <2>1
    <3>2. Cardinality(Open(fds', kinds)) = Cardinality(Open(fds, kinds)) - 1
      BY <1>3, <1>5, <3>1, GivenCounts
    <3> QED
      BY <2>1, <3>2 DEF IsProc
  <2>2. CASE fds[p][d] # "proc"
    <3>1. Cardinality(Open(fds', kinds)) = Cardinality(Open(fds, kinds))
      BY <1>3, <1>5, <2>2, GivenCounts
    <3> QED
      BY <1>6, <2>2, <3>1 DEF IsProc
  <2> QED
    BY <2>1, <2>2
<1>8. /\ objects' = Cardinality(Open(fds', Opened)) + lost'.object
      /\ buffers' = Cardinality(Open(fds', {"proc"})) + lost'.buffer
  <2>1. IsProc(fds[p][d]) \in Nat
    BY DEF IsProc
  <2>2. /\ objects = Cardinality(Open(fds, Opened)) + lost.object
        /\ buffers = Cardinality(Open(fds, {"proc"})) + lost.buffer
        /\ lost.object \in Nat /\ lost.buffer \in Nat
        /\ Cardinality(Open(fds, Opened)) \in Nat /\ Cardinality(Open(fds, {"proc"})) \in Nat
    BY CountsAre
  <2>3. lost'.object = lost.object /\ lost'.buffer = lost.buffer
    BY <1>1
  <2> QED
    BY <1>1, <1>4, <1>7, <2>1, <2>2, <2>3 DEF kinds
<1>9. fds' \in [Users -> [Fds -> Slots']]
  BY <1>1, <1>2
<1>10. \A q \in Users \ alive', e \in Fds : fds'[q][e] = None
  BY <1>1, <1>2 DEF FdsInv
<1>11. lost' \in [{"object", "buffer"} -> Nat] /\ lost'.object + lost'.buffer <= MaxLost
       /\ alive' \subseteq Users
  BY <1>1 DEF FdsInv
<1> QED
  BY <1>8, <1>9, <1>10, <1>11, CountsKept

(* What one program has open, counted on its own.                           *)
LEMMA OfOne ==
  ASSUME NEW p, NEW D, IsFiniteSet(D)
  PROVE  IsFiniteSet({p} \X D) /\ Cardinality({p} \X D) = Cardinality(D)
<1>1. IsFiniteSet({p}) /\ Cardinality({p}) = 1 /\ Cardinality(D) \in Nat
  BY FS_Singleton, FS_CardinalityType
<1>2. IsFiniteSet({p} \X D) /\ Cardinality({p} \X D) = Cardinality({p}) * Cardinality(D)
  BY <1>1, FS_Product
<1> QED
  BY <1>1, <1>2

(* p's descriptors close, no other's changes.                               *)
Exits(f, g, p) == \A q \in Users, d \in Fds : g[q][d] = IF q = p THEN None ELSE f[q][d]

(* A program that exits closes as many descriptors as it has open.          *)
LEMMA ExitedCount ==
  ASSUME NEW f, NEW g, NEW p \in Users, NEW kinds, None \notin kinds, Exits(f, g, p)
  PROVE  Cardinality(Open(g, kinds)) =
           Cardinality(Open(f, kinds)) - Cardinality({d \in Fds : f[p][d] \in kinds})
<1> DEFINE D == {d \in Fds : f[p][d] \in kinds}
           A == Open(f, kinds)
           B == {p} \X D
<1>1. IsFiniteSet(D)
  <2>1. IsFiniteSet(Fds)
    BY FilesAssumption, FS_Interval DEF Fds
  <2> QED
    BY <2>1, FS_Subset
<1>2. B \subseteq A
  BY DEF Open
<1>3. Open(g, kinds) = A \ B
  <2>1. ASSUME NEW x \in Open(g, kinds) PROVE x \in A \ B
    BY DEF Open, Exits
  <2>2. ASSUME NEW x \in A \ B PROVE x \in Open(g, kinds)
    <3>1. PICK q \in Users, d \in Fds : x = <<q, d>> /\ f[q][d] \in kinds
      BY DEF Open
    <3>2. q # p
      BY <3>1
    <3> QED
      BY <3>1, <3>2 DEF Open, Exits
  <2> QED
    BY <2>1, <2>2
<1>4. IsFiniteSet(A) /\ Cardinality(B) = Cardinality(D)
  BY <1>1, OpenFinite, OfOne
<1> HIDE DEF A, B, D
<1>5. Cardinality(A \ B) = Cardinality(A) - Cardinality(A \cap B) /\ A \cap B = B
  BY <1>2, <1>4, FS_Difference
<1> QED
  BY <1>3, <1>4, <1>5 DEF A, D

(* proc_exit keeps the counts.                                              *)
LEMMA ExitCounts ==
  ASSUME FilesInv, FdsInv, NEW p \in Users, SysExitFiles(p)
  PROVE  FdsInv'
<1>1. /\ p \in alive /\ alive' = alive \ {p} /\ fds' = [fds EXCEPT ![p] = [d \in Fds |-> None]]
      /\ objects' = objects - Cardinality(Fds \ FreeFds(p))
      /\ buffers' = buffers - Cardinality({d \in Fds : fds[p][d] = "proc"})
      /\ UNCHANGED <<tree, lost>>
  BY DEF SysExitFiles
<1>2. fds \in [Users -> [Fds -> Slots]] /\ None \in Slots /\ Slots' = Slots
  BY <1>1 DEF FdsInv, Slots
<1>3. Exits(fds, fds', p)
  BY <1>1, <1>2 DEF Exits
<1>4. Cardinality(Open(fds', Opened)) =
        Cardinality(Open(fds, Opened)) - Cardinality({d \in Fds : fds[p][d] \in Opened})
  <2>1. None \notin Opened
    BY CountsAre
  <2> QED
    BY <1>3, <2>1, ExitedCount
<1>5. Cardinality(Open(fds', {"proc"})) =
        Cardinality(Open(fds, {"proc"})) - Cardinality({d \in Fds : fds[p][d] \in {"proc"}})
  BY <1>3, CountsAre, ExitedCount
<1>6. /\ {d \in Fds : fds[p][d] \in Opened} = Fds \ FreeFds(p)
      /\ {d \in Fds : fds[p][d] \in {"proc"}} = {d \in Fds : fds[p][d] = "proc"}
  BY CountsAre DEF FreeFds
<1>7. /\ Cardinality(Fds \ FreeFds(p)) \in Nat
      /\ Cardinality({d \in Fds : fds[p][d] = "proc"}) \in Nat
  <2>1. IsFiniteSet(Fds)
    BY FilesAssumption, FS_Interval DEF Fds
  <2>2. IsFiniteSet(Fds \ FreeFds(p)) /\ IsFiniteSet({d \in Fds : fds[p][d] = "proc"})
    BY <2>1, FS_Subset
  <2> QED
    BY <2>2, FS_CardinalityType
<1>8. /\ objects' = Cardinality(Open(fds', Opened)) + lost'.object
      /\ buffers' = Cardinality(Open(fds', {"proc"})) + lost'.buffer
  <2>1. /\ objects = Cardinality(Open(fds, Opened)) + lost.object
        /\ buffers = Cardinality(Open(fds, {"proc"})) + lost.buffer
        /\ lost.object \in Nat /\ lost.buffer \in Nat
        /\ Cardinality(Open(fds, Opened)) \in Nat /\ Cardinality(Open(fds, {"proc"})) \in Nat
    BY CountsAre
  <2>2. lost'.object = lost.object /\ lost'.buffer = lost.buffer
    BY <1>1
  <2>3. Cardinality(Open(fds', Opened)) = Cardinality(Open(fds, Opened)) - Cardinality(Fds \ FreeFds(p))
    BY <1>4, <1>6
  <2>4. Cardinality(Open(fds', {"proc"})) =
          Cardinality(Open(fds, {"proc"})) - Cardinality({d \in Fds : fds[p][d] = "proc"})
    BY <1>5, <1>6
  <2> QED
    BY <1>1, <1>7, <2>1, <2>2, <2>3, <2>4
<1>9. fds' \in [Users -> [Fds -> Slots']]
  BY <1>1, <1>2
<1>10. \A q \in Users \ alive', e \in Fds : fds'[q][e] = None
  BY <1>1, <1>3 DEF FdsInv
<1>11. lost' \in [{"object", "buffer"} -> Nat] /\ lost'.object + lost'.buffer <= MaxLost
       /\ alive' \subseteq Users
  BY <1>1 DEF FdsInv
<1> QED
  BY <1>8, <1>9, <1>10, <1>11, CountsKept

(* proc_exec keeps the counts, and so does one that fails.                  *)
LEMMA ExecCounts ==
  ASSUME FilesInv, FdsInv, NEW p \in Users, KExecFiles(p)
  PROVE  FdsInv'
<1>1. /\ p \notin alive /\ objects' = objects + Std /\ UNCHANGED <<tree, buffers>>
  BY DEF KExecFiles
<1>2. fds \in [Users -> [Fds -> Slots]] /\ Slots' = Slots /\ "dev" \in Slots /\ None \in Slots
  BY <1>1 DEF FdsInv, Slots, Devices
<1>3. /\ objects = Cardinality(Open(fds, Opened)) + lost.object
      /\ buffers = Cardinality(Open(fds, {"proc"})) + lost.buffer
      /\ lost.object \in Nat /\ lost.buffer \in Nat /\ lost.object + lost.buffer <= MaxLost
      /\ lost \in [{"object", "buffer"} -> Nat]
      /\ Cardinality(Open(fds, Opened)) \in Nat /\ Cardinality(Open(fds, {"proc"})) \in Nat
  BY CountsAre DEF FdsInv
<1>4. Std \in Nat /\ Std <= MaxFd /\ MaxFd \in Nat /\ MaxLost \in Nat
  BY FilesAssumption
<1>5. CASE alive' = alive \union {p} /\ UNCHANGED lost
           /\ fds' = [fds EXCEPT ![p] = [d \in Fds |-> IF d < Std THEN "dev" ELSE None]]
  <2>1. \A q \in Users, d \in Fds :
          fds'[q][d] = IF q = p THEN IF d < Std THEN "dev" ELSE None ELSE fds[q][d]
    BY <1>2, <1>5
  <2>2. fds' \in [Users -> [Fds -> Slots']]
    BY <1>2, <1>5
  <2>3. \A d \in Fds : fds[p][d] = None
    BY <1>1 DEF FdsInv
  <2> DEFINE D == 0 .. Std - 1
             A == Open(fds, Opened)
             B == {p} \X D
  <2>4. D \subseteq Fds /\ \A d \in Fds : d < Std <=> d \in D
    BY <1>4 DEF Fds
  <2>5. IsFiniteSet(D) /\ Cardinality(D) = Std
    BY <1>4, FS_Interval
  <2>6. "dev" \in Opened /\ "dev" # "proc" /\ None \notin Opened /\ None \notin {"proc"}
    BY CountsAre DEF Opened, Devices
  <2> HIDE DEF D
  <2>7. Open(fds', Opened) = A \union B
    <3>1. ASSUME NEW x \in Open(fds', Opened) PROVE x \in A \union B
      <4>1. PICK q \in Users, d \in Fds : x = <<q, d>> /\ fds'[q][d] \in Opened
        BY DEF Open
      <4>2. CASE q = p
        BY <2>1, <2>4, <2>6, <4>1, <4>2
      <4>3. CASE q # p
        BY <2>1, <4>1, <4>3 DEF Open
      <4> QED
        BY <4>2, <4>3
    <3>2. ASSUME NEW x \in A PROVE x \in Open(fds', Opened)
      <4>1. PICK q \in Users, d \in Fds : x = <<q, d>> /\ fds[q][d] \in Opened
        BY DEF Open
      <4>2. q # p
        BY <2>3, <2>6, <4>1
      <4> QED
        BY <2>1, <4>1, <4>2 DEF Open
    <3>3. ASSUME NEW x \in B PROVE x \in Open(fds', Opened)
      <4>1. PICK d \in D : x = <<p, d>>
        OBVIOUS
      <4> QED
        BY <2>1, <2>4, <2>6, <4>1 DEF Open
    <3> QED
      BY <3>1, <3>2, <3>3
  <2>8. Open(fds', {"proc"}) = Open(fds, {"proc"})
    <3>1. \A q \in Users, d \in Fds : fds'[q][d] = "proc" <=> fds[q][d] = "proc"
      BY <2>1, <2>3, <2>6
    <3> QED
      BY <3>1 DEF Open
  <2>9. A \cap B = {}
    BY <2>3, <2>6 DEF Open
  <2>10. /\ IsFiniteSet(A) /\ IsFiniteSet(B)
         /\ Cardinality(B) = Std /\ Cardinality(A \cap B) = 0
    BY <2>5, <2>9, OpenFinite, OfOne, FS_EmptySet
  <2> HIDE DEF A, B
  <2>11. Cardinality(Open(fds', Opened)) = Cardinality(A) + Std
    <3>1. Cardinality(A \union B) = Cardinality(A) + Cardinality(B) - Cardinality(A \cap B)
      BY <2>10, FS_Union
    <3>2. Cardinality(A) \in Nat
      BY <2>10, FS_CardinalityType
    <3> QED
      BY <1>4, <2>7, <2>10, <3>1, <3>2
  <2>12. /\ objects' = Cardinality(Open(fds', Opened)) + lost'.object
         /\ buffers' = Cardinality(Open(fds', {"proc"})) + lost'.buffer
    BY <1>1, <1>3, <1>4, <1>5, <2>8, <2>11 DEF A
  <2>13. \A q \in Users \ alive', e \in Fds : fds'[q][e] = None
    BY <1>5, <2>1 DEF FdsInv
  <2>14. alive' \subseteq Users
    BY <1>5 DEF FdsInv
  <2> QED
    BY <1>3, <1>5, <2>2, <2>12, <2>13, <2>14, CountsKept
<1>6. CASE /\ lost.object + lost.buffer + Std <= MaxLost
           /\ lost' = [lost EXCEPT !.object = @ + Std]
           /\ UNCHANGED <<alive, fds>>
  <2>1. lost'.object = lost.object + Std /\ lost'.buffer = lost.buffer
    BY <1>3, <1>6
  <2>2. lost' \in [{"object", "buffer"} -> Nat]
    BY <1>3, <1>4, <1>6
  <2>3. lost'.object + lost'.buffer <= MaxLost
    BY <1>3, <1>4, <1>6, <2>1
  <2>4. /\ objects' = Cardinality(Open(fds', Opened)) + lost'.object
        /\ buffers' = Cardinality(Open(fds', {"proc"})) + lost'.buffer
    BY <1>1, <1>3, <1>4, <1>6, <2>1
  <2>5. /\ alive' \subseteq Users /\ fds' \in [Users -> [Fds -> Slots']]
        /\ \A q \in Users \ alive', e \in Fds : fds'[q][e] = None
    BY <1>2, <1>6 DEF FdsInv
  <2> QED
    BY <2>2, <2>3, <2>4, <2>5, CountsKept
<1> QED
  BY <1>5, <1>6 DEF KExecFiles

(* Descriptors of a freed node stay open.                                   *)
LEMMA RemoveCounts ==
  ASSUME FilesInv, FdsInv, KIdle, link' = link, mixed' = mixed, NEW n \in Named, NEW view,
         RemoveNode(n, view), UNCHANGED <<alive, objects, buffers, lost>>
  PROVE  FdsInv'
<1> DEFINE freed == BelowIn(tree, n)
           Left(x) == IF x \in freed THEN Freed ELSE x
<1>1. /\ n # Root /\ tree' = Without(tree, n)
      /\ fds' = [p \in Users |-> [d \in Fds |-> Left(fds[p][d])]]
  BY Walks DEF RemoveNode, Without
<1>2. DOMAIN tree' = DOMAIN tree \ freed
  BY <1>1, RemoveKeeps DEF FilesInv
<1>3. freed \subseteq Nodes
  BY Walks, NamedIs, BelowIs DEF Tree
<1>4. /\ None \notin freed /\ "proc" \notin freed /\ Freed # "proc" /\ Freed # None
      /\ Freed \in Opened /\ \A x \in freed : x \in Opened /\ x # "proc"
  BY <1>3, FilesAssumption DEF Opened
<1>5. fds \in [Users -> [Fds -> Slots]]
  BY DEF FdsInv
<1> HIDE DEF freed
<1>6. \A p \in Users, d \in Fds :
        /\ fds'[p][d] = Left(fds[p][d]) /\ fds[p][d] \in Slots
        /\ fds'[p][d] \in Opened <=> fds[p][d] \in Opened
        /\ fds'[p][d] = "proc" <=> fds[p][d] = "proc"
        /\ fds[p][d] = None => fds'[p][d] = None
  BY <1>1, <1>4, <1>5
<1>7. Open(fds', Opened) = Open(fds, Opened) /\ Open(fds', {"proc"}) = Open(fds, {"proc"})
  BY <1>6 DEF Open
<1>8. fds' \in [Users -> [Fds -> Slots']]
  <2>1. \A x \in Slots : Left(x) \in Slots'
    BY <1>2, <1>4 DEF Slots
  <2> QED
    BY <1>1, <1>6, <2>1
<1>9. \A p \in Users \ alive', d \in Fds : fds'[p][d] = None
  BY <1>6 DEF FdsInv
<1>10. /\ objects' = Cardinality(Open(fds', Opened)) + lost'.object
       /\ buffers' = Cardinality(Open(fds', {"proc"})) + lost'.buffer
  BY <1>7, CountsAre
<1>11. lost' \in [{"object", "buffer"} -> Nat] /\ lost'.object + lost'.buffer <= MaxLost
       /\ alive' \subseteq Users
  BY DEF FdsInv
<1> QED
  BY <1>8, <1>9, <1>10, <1>11, CountsKept

(* Steps that leave the descriptors alone.                                  *)
LEMMA QuietCounts ==
  ASSUME FdsInv, DOMAIN tree \subseteq DOMAIN tree',
         UNCHANGED <<alive, fds, objects, buffers, lost>>
  PROVE  FdsInv'
<1> DEFINE S == Slots
           T == Slots'
<1>1. fds \in [Users -> [Fds -> S]] /\ S \subseteq T
  BY DEF FdsInv, Slots
<1> HIDE DEF S, T
<1>2. fds' \in [Users -> [Fds -> T]]
  BY <1>1
<1> QED
  BY <1>2 DEF FdsInv, DescriptorsCounted, OpenOn, T

(* Every step keeps the counts.                                             *)
LEMMA FdsStep ==
  ASSUME FilesInv, FdsInv, [FilesNext]_filevars
  PROVE  FdsInv'
<1>1. ASSUME UNCHANGED <<tree, alive, fds, objects, buffers, lost>> PROVE FdsInv'
  BY <1>1, QuietCounts
<1>2. CASE UNCHANGED filevars
  BY <1>1, <1>2 DEF filevars
<1>3. CASE KLink
  <2>1. DOMAIN tree' = DOMAIN tree
    BY <1>3, LinkKeeps DEF FilesInv
  <2> QED
    BY <1>3, <2>1, QuietCounts DEF KLink
<1>4. ASSUME NEW d \in Dirs, NEW name \in Names, NEW dir \in BOOLEAN, KCreate(d, name, dir)
      PROVE  FdsInv'
  <2>1. DOMAIN tree \subseteq DOMAIN tree'
    BY <1>4, CreateKeeps DEF FilesInv
  <2>2. UNCHANGED <<alive, fds, objects, buffers, lost>>
    BY <1>4 DEF KCreate
  <2> QED
    BY <2>1, <2>2, QuietCounts
<1>5. ASSUME KIdle, mixed' = mixed, NEW n \in Named, NEW d \in Named, NEW name \in Names,
             Move(n, d, name), UNCHANGED <<alive, fds, objects, buffers, lost>>
      PROVE  FdsInv'
  <2>1. DOMAIN tree' = DOMAIN tree
    BY <1>5, MoveKeeps DEF FilesInv
  <2> QED
    BY <1>5, <2>1, QuietCounts
<1>6. ASSUME NEW d \in Dirs, NEW name \in Names, NEW n \in Named, KMove(n, d, name)
      PROVE  FdsInv'
  BY <1>5, <1>6, Walks DEF KMove, At
<1>7. ASSUME NEW d \in Dirs, NEW name \in Names, NEW p \in Users, SysOpenOld(p, d, name)
      PROVE  FdsInv'
  <2>1. PICK n \in Child(d, name) : Install(p, n)
    BY <1>7 DEF SysOpenOld
  <2>2. p \in alive /\ UNCHANGED <<tree, alive, lost>>
    BY <1>7 DEF SysOpenOld
  <2>3. d \in DOMAIN tree
    BY Walks, NamedIs
  <2>4. n \in DOMAIN tree /\ n \in Nodes
    BY <2>3, Walks, KidOf DEF Child, Tree
  <2> QED
    BY <2>1, <2>2, <2>4, InstallCounts
<1>8. ASSUME NEW d \in Dirs, NEW name \in Names, NEW p \in Users, SysOpenNew(p, d, name)
      PROVE  FdsInv'
  <2>1. PICK n \in Nodes \ DOMAIN tree :
          /\ OpensNew(n, d, name)
          /\ Install(p, n) \/ UNCHANGED <<fds, objects, buffers>>
    BY <1>8 DEF SysOpenNew, OpensNew
  <2>2. DOMAIN tree' = DOMAIN tree \union {n}
    BY <2>1 DEF OpensNew
  <2>3. p \in alive /\ UNCHANGED <<alive, lost>>
    BY <1>8 DEF SysOpenNew
  <2> QED
    BY <2>1, <2>2, <2>3, InstallCounts
<1>9. ASSUME NEW n \in Named, KRemove(n) PROVE FdsInv'
  BY <1>9, RemoveCounts DEF KRemove, At
<1>10. ASSUME NEW d \in Dirs, KChdir(d) \/ KSandbox(d) \/ Go(d) PROVE FdsInv'
  BY <1>1, <1>10 DEF KChdir, KSandbox, Go
<1>11. CASE KSandboxEnds \/ GoBack \/ Click \/ CutSel
  BY <1>1, <1>11 DEF KSandboxEnds, GoBack, Click, CutSel
<1>12. ASSUME NEW name \in Names, Paste(name) \/ Rename(name) \/ Delete(name) PROVE FdsInv'
  <2>1. KIdle /\ UNCHANGED <<mixed, alive, objects, buffers, lost>>
    BY <1>12 DEF Paste, Rename, Delete, At
  <2>2. \A x \in HeldIn(tree, link) : Alive(x) => x \in Named
    BY <2>1, Walks DEF Alive
  <2>3. {clip, pane.dir, pane.sel} \subseteq HeldIn(tree, link)
    BY DEF FilesInv
  <2>4. CASE Paste(name)
    BY <1>5, <2>1, <2>2, <2>3, <2>4 DEF Paste
  <2>5. CASE Rename(name)
    <3>1. /\ Move(pane.sel, tree[pane.sel].up, name) /\ UNCHANGED fds /\ pane.sel # Root
          /\ pane.sel \in Named
      BY <2>2, <2>3, <2>5 DEF Rename, Move, MayMove
    <3>2. tree[pane.sel].up \in Named
      BY <3>1, Walks, NamedUp
    <3> QED
      BY <1>5, <2>1, <3>1, <3>2
  <2>6. CASE Delete(name)
    <3> DEFINE view == [pane EXCEPT !.sel = None]
    <3>1. pane.sel \in Named
      BY <2>2, <2>3, <2>6 DEF Delete
    <3>2. CASE RemoveNode(pane.sel, view) /\ UNCHANGED link
      BY <2>1, <3>1, <3>2, RemoveCounts
    <3>3. ASSUME NEW d \in Child(Root, Bin), Move(pane.sel, d, name), UNCHANGED fds
          PROVE  FdsInv'
      <4>1. d \in Named
        BY Walks, NamedIs DEF Child
      <4> QED
        BY <1>5, <2>1, <3>1, <3>3, <4>1
    <3> QED
      BY <2>6, <3>2, <3>3 DEF Delete
  <2> QED
    BY <1>12, <2>4, <2>5, <2>6
<1>13. ASSUME NEW p \in Users, NEW what \in Devices, SysOpenOther(p, what) PROVE FdsInv'
  BY <1>13, InstallCounts DEF SysOpenOther
<1>14. ASSUME NEW p \in Users, SysOpenProcFails(p) PROVE FdsInv'
  <2>1. /\ lost.object + lost.buffer < MaxLost /\ buffers' = buffers + 1
        /\ lost' = [lost EXCEPT !.buffer = @ + 1]
        /\ UNCHANGED <<tree, alive, fds, objects>>
    BY <1>14 DEF SysOpenProcFails
  <2>2. /\ objects = Cardinality(Open(fds, Opened)) + lost.object
        /\ buffers = Cardinality(Open(fds, {"proc"})) + lost.buffer
        /\ lost.object \in Nat /\ lost.buffer \in Nat /\ MaxLost \in Nat
        /\ lost \in [{"object", "buffer"} -> Nat]
        /\ Cardinality(Open(fds, {"proc"})) \in Nat
    BY CountsAre, FilesAssumption DEF FdsInv
  <2>3. lost'.object = lost.object /\ lost'.buffer = lost.buffer + 1
    BY <2>1, <2>2
  <2>4. lost' \in [{"object", "buffer"} -> Nat]
    BY <2>1, <2>2
  <2>5. lost'.object + lost'.buffer <= MaxLost
    BY <2>1, <2>2, <2>3
  <2>6. /\ objects' = Cardinality(Open(fds', Opened)) + lost'.object
        /\ buffers' = Cardinality(Open(fds', {"proc"})) + lost'.buffer
    BY <2>1, <2>2, <2>3
  <2>7. /\ alive' \subseteq Users /\ fds' \in [Users -> [Fds -> Slots']]
        /\ \A q \in Users \ alive', e \in Fds : fds'[q][e] = None
    BY <2>1 DEF FdsInv, Slots
  <2> QED
    BY <2>4, <2>5, <2>6, <2>7, CountsKept
<1>15. ASSUME NEW p \in Users, NEW d \in Fds, SysClose(p, d) PROVE FdsInv'
  BY <1>15, CloseCounts
<1>16. ASSUME NEW p \in Users, SysExitFiles(p) PROVE FdsInv'
  BY <1>16, ExitCounts
<1>17. ASSUME NEW p \in Users, KExecFiles(p) PROVE FdsInv'
  BY <1>17, ExecCounts
<1> QED
  BY <1>2, <1>3, <1>4, <1>6, <1>7, <1>8, <1>9, <1>10, <1>11, <1>12, <1>13, <1>14, <1>15, <1>16, <1>17
  DEF FilesNext

(* No program runs at first.                                                *)
LEMMA FdsInit ==
  ASSUME FilesInit
  PROVE  FdsInv
<1>1. /\ alive = {} /\ fds = [p \in Users |-> [d \in Fds |-> None]]
      /\ objects = 0 /\ buffers = 0 /\ lost = [object |-> 0, buffer |-> 0]
  BY DEF FilesInit
<1>2. lost.object = 0 /\ lost.buffer = 0 /\ lost \in [{"object", "buffer"} -> Nat]
  BY <1>1
<1>3. None \notin Opened /\ None \notin {"proc"}
  BY FilesAssumption DEF Opened, Devices
<1>4. Open(fds, Opened) = {} /\ Open(fds, {"proc"}) = {}
  BY <1>1, <1>3 DEF Open
<1>5. Cardinality(Open(fds, Opened)) = 0 /\ Cardinality(Open(fds, {"proc"})) = 0
  BY <1>4, FS_EmptySet
<1>6. DescriptorsCounted
  BY <1>1, <1>2, <1>5 DEF DescriptorsCounted, OpenOn, Open, Opened
<1>7. fds \in [Users -> [Fds -> Slots]] /\ \A p \in Users, d \in Fds : fds[p][d] = None
  BY <1>1 DEF Slots
<1>8. lost.object + lost.buffer <= MaxLost
  BY <1>2, FilesAssumption
<1> QED
  BY <1>1, <1>2, <1>6, <1>7, <1>8 DEF FdsInv

---------------------------------------------------------------------------
(* Theorems.                                                                *)

(* ramfs.c, vfs.c, proc.c: the tree is one, what refers to nodes refers to  *)
(* nodes that are allocated and can be named, or that fs_remove freed, and  *)
(* the file objects are counted, in every state.                            *)
THEOREM FilesInvariant == FilesSpec => [](FilesInv /\ FdsInv)
<1>1. FilesInit => FilesInv /\ FdsInv
  BY InitKeeps, FdsInit
<1>2. FilesInv /\ FdsInv /\ [FilesNext]_filevars => FilesInv' /\ FdsInv'
  BY FilesStep, FdsStep
<1> QED
  BY <1>1, <1>2, PTL DEF FilesSpec

(* The types are part of it.                                                *)
LEMMA TypeFollows ==
  ASSUME FilesInv, FdsInv
  PROVE  FilesTypeOK
<1>1. Tree(tree) /\ LinkIn(tree, link) /\ mixed \in BOOLEAN
  BY DEF FilesInv, Forest
<1>2. DOMAIN tree \subseteq Nodes /\ \A n \in DOMAIN tree : tree[n] \in Node
  BY <1>1 DEF Tree
<1>3. HeldIn(tree, link) \subseteq Pointers
  <2>1. NamedIn(tree) \subseteq DOMAIN tree /\ FlyingIn(tree, link) \subseteq DOMAIN tree
    BY <1>1, NamedIs, BelowIs DEF FlyingIn, LinkIn
  <2> QED
    BY <2>1 DEF HeldIn, Pointers
<1>4. {cwd, oldcwd, clip} \subseteq Pointers
  BY <1>3 DEF FilesInv
<1>5. pane \in [{"dir", "sel", "prev"} -> Pointers]
  <2> DEFINE H == HeldIn(tree, link)
  <2>1. pane \in [{"dir", "sel", "prev"} -> H] /\ H \subseteq Pointers
    BY <1>3 DEF FilesInv
  <2> HIDE DEF H
  <2> QED
    BY <2>1
<1>6. link = None \/ ({link.n, link.d} \subseteq DOMAIN tree /\ link.list \in Seq(Nodes))
  <2>1. SUFFICES ASSUME link # None
                 PROVE  {link.n, link.d} \subseteq DOMAIN tree /\ link.list \in Seq(Nodes)
    OBVIOUS
  <2>2. link.n \in DOMAIN tree /\ link.d \in NamedIn(tree) /\ link.list \in Seq(DOMAIN tree)
    BY <1>1, <2>1 DEF LinkIn, ListIn
  <2>3. link.list \in Seq(Nodes)
    BY <1>2, <2>2
  <2> QED
    BY <1>1, <2>2, <2>3, NamedIs
<1>7. fds \in [Users -> [Fds -> Pointers \union Devices]]
  <2>1. Slots = Pointers \union Devices
    BY DEF Slots, Pointers
  <2> QED
    BY <2>1 DEF FdsInv
<1>8. objects \in Nat /\ buffers \in Nat
  BY CountsAre
<1>9. lost \in [{"object", "buffer"} -> 0 .. MaxLost]
  <2>1. /\ lost \in [{"object", "buffer"} -> Nat] /\ lost["object"] \in Nat
        /\ lost["buffer"] \in Nat /\ lost["object"] + lost["buffer"] <= MaxLost
        /\ MaxLost \in Nat
    BY FilesAssumption DEF FdsInv
  <2>2. lost["object"] \in 0 .. MaxLost /\ lost["buffer"] \in 0 .. MaxLost
    BY <2>1
  <2> QED
    BY <2>1, <2>2
<1> QED
  BY <1>1, <1>2, <1>4, <1>5, <1>6, <1>7, <1>8, <1>9 DEF FilesTypeOK, FilesInv, FdsInv

(* The type invariant of Files.                                             *)
THEOREM FilesTyped == FilesSpec => []FilesTypeOK
<1>1. FilesInv /\ FdsInv => FilesTypeOK
  BY TypeFollows
<1> QED
  BY <1>1, FilesInvariant, PTL

(* What TreeOK says of the lists follows from it.                           *)
LEMMA TreeFollows ==
  ASSUME FilesInv
  PROVE  TreeOK
<1>1. SUFFICES ASSUME ~mixed
               PROVE  LET flying == IF link = None THEN {} ELSE Below(link.n)
                      IN  /\ DOMAIN tree = Named \union flying
                          /\ \A d, n \in DOMAIN tree :
                               n \in ToSet(tree[d].kids) <=>
                                 tree[n].up = d /\ (link = None \/ n # link.n)
                          /\ \A d \in DOMAIN tree : \A i, k \in 1 .. Len(tree[d].kids) :
                               i # k => tree[tree[d].kids[i]].name # tree[tree[d].kids[k]].name
  BY DEF TreeOK
<1>2. Tree(tree) /\ LinkIn(tree, link) /\ WholeIn(tree, link)
  BY <1>1 DEF FilesInv, Forest
<1>3. DOMAIN tree = Named \union (IF link = None THEN {} ELSE Below(link.n))
  BY <1>2, Walks DEF WholeIn, FlyingIn
<1>4. ASSUME NEW d \in DOMAIN tree, NEW n \in DOMAIN tree
      PROVE  n \in ToSet(tree[d].kids) <=> tree[n].up = d /\ (link = None \/ n # link.n)
  <2>1. ASSUME n \in ToSet(tree[d].kids) PROVE tree[n].up = d /\ (link = None \/ n # link.n)
    BY <1>2, <2>1, KidOf DEF LinkIn
  <2>2. ASSUME tree[n].up = d, link = None \/ n # link.n PROVE n \in ToSet(tree[d].kids)
    BY <1>2, <2>2 DEF WholeIn
  <2> QED
    BY <2>1, <2>2
<1>5. \A d \in DOMAIN tree : \A i, k \in 1 .. Len(tree[d].kids) :
        i # k => tree[tree[d].kids[i]].name # tree[tree[d].kids[k]].name
  BY <1>2 DEF Tree, ListIn
<1> QED
  BY <1>3, <1>4, <1>5

(* ramfs.c: fs_create, fs_move and fs_remove_node, in kmain and in the      *)
(* calls of programs that interrupt it, keep one tree: each node is in      *)
(* exactly one list, the one of its parent, and is named from the root.     *)
(* Holds for any number of nodes, names and programs, until kmain's append  *)
(* cuts off a program's file.                                               *)
THEOREM TreeIsOne == FilesSpec => []TreeOK
<1>1. FilesInv => TreeOK
  BY TreeFollows
<1> QED
  BY <1>1, FilesInvariant, PTL

(* vfs.c, proc.c: every file object is behind exactly one descriptor and    *)
(* every /proc text behind one file object, whatever programs open, close,  *)
(* start and exit, but for those that failing calls lost.                   *)
THEOREM ObjectsCounted == FilesSpec => []DescriptorsCounted
<1>1. FdsInv => DescriptorsCounted
  BY DEF FdsInv
<1> QED
  BY <1>1, FilesInvariant, PTL

(* What is left of a folder after fs_remove_node below it.                  *)
LEMMA RemovedIs ==
  ASSUME FilesInv, NEW n \in Named, NEW view, RemoveNode(n, view)
  PROVE  /\ n # Root /\ n \in DOMAIN tree
         /\ tree[n].up \in Named /\ tree[n].up \in DOMAIN tree
         /\ tree[n].up \notin BelowIn(tree, n)
         /\ n \in BelowIn(tree, n) /\ None \notin BelowIn(tree, n)
         /\ DOMAIN tree' = DOMAIN tree \ BelowIn(tree, n)
         /\ cwd' = IF CwdAfter(n) \in BelowIn(tree, n) THEN Freed ELSE CwdAfter(n)
         /\ pane' = [r \in DOMAIN view |->
                       IF view[r] \in BelowIn(tree, n) THEN Freed ELSE view[r]]
<1> DEFINE freed == BelowIn(tree, n)
<1>1. /\ n # Root
      /\ tree' = [x \in DOMAIN tree \ freed |-> Unlinked(tree, n)[x]]
      /\ cwd' = IF CwdAfter(n) \in freed THEN Freed ELSE CwdAfter(n)
      /\ pane' = [r \in DOMAIN view |-> IF view[r] \in freed THEN Freed ELSE view[r]]
  BY Walks DEF RemoveNode
<1>2. n \in DOMAIN tree /\ Tree(tree)
  BY Walks, NamedIs
<1>3. tree[n].up \in Named /\ tree[n].up \in DOMAIN tree /\ tree[n].up \notin freed
  BY <1>1, Walks, NamedIs, NamedUp, UpNotBelow
<1>4. n \in freed /\ None \notin freed
  BY <1>2, NamedIs, BelowIs
<1>5. DOMAIN tree' = DOMAIN tree \ freed
  BY <1>1
<1> QED
  BY <1>1, <1>2, <1>3, <1>4, <1>5

(* What a step may do to the Explorer's pane.                               *)
LEMMA PaneStep ==
  ASSUME FilesInv, [FilesNext]_filevars, ui = "explorer"
  PROVE  pane'.sel # Freed /\ (pane'.dir = Freed => Freed \in {pane.dir, pane.prev})
<1>1. /\ pane \in [{"dir", "sel", "prev"} -> HeldIn(tree, link)]
      /\ pane["sel"] # None => pane["sel"] \in DOMAIN tree
  BY DEF FilesInv, SelIn
<1>2. Freed \notin DOMAIN tree /\ Freed # None
  BY FilesAssumption, NamedIs DEF FilesInv, Forest
<1>3. pane["sel"] # Freed
  BY <1>1, <1>2
<1>4. ASSUME UNCHANGED pane
      PROVE  pane'.sel # Freed /\ (pane'.dir = Freed => Freed \in {pane.dir, pane.prev})
  BY <1>3, <1>4
<1>5. CASE UNCHANGED filevars
  BY <1>4, <1>5 DEF filevars
<1>6. CASE KLink \/ KSandboxEnds \/ CutSel
  BY <1>4, <1>6 DEF KLink, KSandboxEnds, CutSel
<1>7. ASSUME NEW d \in Dirs, NEW name \in Names,
             \/ \E dir \in BOOLEAN : KCreate(d, name, dir)
             \/ \E n \in Named : KMove(n, d, name)
             \/ \E p \in Users : SysOpenOld(p, d, name) \/ SysOpenNew(p, d, name)
      PROVE  UNCHANGED pane
  BY <1>7 DEF KCreate, KMove, SysOpenOld, SysOpenNew
<1>8. ASSUME NEW n \in Named PROVE ~KRemove(n)
  BY DEF KRemove, At
<1>9. ASSUME NEW d \in Dirs, KChdir(d) \/ KSandbox(d) PROVE UNCHANGED pane
  BY <1>9 DEF KChdir, KSandbox
<1>10. ASSUME NEW d \in Dirs, Go(d)
       PROVE  pane'.sel # Freed /\ (pane'.dir = Freed => Freed \in {pane.dir, pane.prev})
  <2>1. pane'.sel = None /\ pane'.dir = d
    BY <1>10 DEF Go
  <2>2. d \in DOMAIN tree
    BY Walks, NamedIs
  <2> QED
    BY <1>2, <2>1, <2>2
<1>11. CASE GoBack
  BY <1>2, <1>11 DEF GoBack
<1>12. CASE Click
  <2>1. PICK n \in ToSet(tree[pane.dir].kids) : pane' = [pane EXCEPT !.sel = n]
    BY <1>12 DEF Click
  <2>2. pane.dir \in DOMAIN tree
    BY <1>12 DEF Click, Alive
  <2>3. n \in DOMAIN tree
    BY <2>1, <2>2, Walks, KidOf
  <2>4. pane'.sel = n /\ pane'.dir = pane.dir
    BY <1>1, <2>1
  <2> QED
    BY <1>2, <2>3, <2>4
<1>13. ASSUME NEW name \in Names, Paste(name) \/ Rename(name) \/ Delete(name)
       PROVE  pane'.sel # Freed /\ (pane'.dir = Freed => Freed \in {pane.dir, pane.prev})
  <2>1. CASE Paste(name)
    <3>1. pane' = [pane EXCEPT !.sel = clip] /\ clip \in DOMAIN tree
      BY <2>1 DEF Paste, Alive
    <3>2. pane'.sel = clip /\ pane'.dir = pane.dir
      BY <1>1, <3>1
    <3> QED
      BY <1>2, <3>1, <3>2
  <2>2. CASE Rename(name)
    BY <1>4, <2>2 DEF Rename
  <2>3. CASE Delete(name)
    <3> DEFINE view == [pane EXCEPT !.sel = None]
    <3>1. view["sel"] = None /\ view["dir"] = pane.dir /\ DOMAIN view = {"dir", "sel", "prev"}
      BY <1>1
    <3>2. pane.sel \in DOMAIN tree /\ KIdle
      BY <2>3 DEF Delete, Alive, At
    <3>3. pane.sel \in Named /\ tree[pane.sel].up = pane.dir
      BY <1>1, <1>2, <3>2, Walks, NamedIs DEF FilesInv, SelIn
    <3> HIDE DEF view
    <3>4. CASE RemoveNode(pane.sel, view)
      <4>1. /\ pane.dir \notin BelowIn(tree, pane.sel) /\ None \notin BelowIn(tree, pane.sel)
            /\ pane' = [r \in DOMAIN view |->
                          IF view[r] \in BelowIn(tree, pane.sel) THEN Freed ELSE view[r]]
        BY <3>3, <3>4, RemovedIs
      <4>2. pane'["sel"] = None /\ pane'["dir"] = pane.dir
        BY <3>1, <4>1
      <4> QED
        BY <1>2, <4>2
    <3>5. CASE pane' = view
      BY <1>2, <3>1, <3>5
    <3> QED
      BY <2>3, <3>4, <3>5 DEF Delete, view
  <2> QED
    BY <1>13, <2>1, <2>2, <2>3
<1>14. ASSUME NEW p \in Users,
              \/ \E what \in Devices : SysOpenOther(p, what)
              \/ SysOpenProcFails(p)
              \/ \E d \in Fds : SysClose(p, d)
              \/ SysExitFiles(p)
              \/ KExecFiles(p)
       PROVE  UNCHANGED pane
  BY <1>14 DEF SysOpenOther, SysOpenProcFails, SysClose, SysExitFiles, KExecFiles
<1> QED
  BY <1>4, <1>5, <1>6, <1>7, <1>8, <1>9, <1>10, <1>11, <1>12, <1>13, <1>14 DEF FilesNext

(* app_files.c: the Explorer's selection is never a freed node, and its     *)
(* folder is one only when Back returns to it.                              *)
THEOREM SelectionHolds == FilesSpec => PaneHolds
<1>1. FilesInv /\ [FilesNext]_filevars =>
        [ ui = "explorer" =>
            /\ pane'.sel # Freed
            /\ pane'.dir = Freed => Freed \in {pane.dir, pane.prev} ]_filevars
  BY PaneStep
<1> QED
  BY <1>1, FilesInvariant, PTL DEF FilesSpec, PaneHolds

(* fs_remove_node leaves a dangling current directory only with its parent  *)
(* gone.                                                                    *)
LEMMA CwdRemoved ==
  ASSUME FilesInv, KIdle, NEW n \in Named, NEW view, RemoveNode(n, view),
         cwd' = Freed, cwd # Freed
  PROVE  tree[cwd].up \notin DOMAIN tree'
<1> DEFINE freed == BelowIn(tree, n)
<1>1. /\ n \in DOMAIN tree
      /\ tree[n].up \notin freed /\ tree[n].up \in DOMAIN tree /\ n \in freed
      /\ DOMAIN tree' = DOMAIN tree \ freed
      /\ cwd' = IF CwdAfter(n) \in freed THEN Freed ELSE CwdAfter(n)
  BY RemovedIs
<1>2. Freed \notin DOMAIN tree
  BY NamedIs DEF FilesInv, Forest
<1>3. cwd # n
  <2>1. ASSUME cwd = n PROVE FALSE
    <3>1. CwdAfter(n) = tree[n].up
      BY <2>1 DEF CwdAfter
    <3>2. cwd' = tree[n].up
      BY <1>1, <3>1
    <3> QED
      BY <1>1, <1>2, <3>2
  <2> QED
    BY <2>1
<1>4. CwdAfter(n) = cwd
  BY <1>3 DEF CwdAfter
<1>5. cwd \in freed
  BY <1>1, <1>4
<1>6. tree[cwd].up \in freed
  BY <1>1, <1>3, <1>5, Walks, BelowUp
<1> QED
  BY <1>1, <1>6

(* What a step may do to the current directory.                             *)
LEMMA CwdStep ==
  ASSUME FilesInv, [FilesNext]_filevars, cwd' = Freed, cwd # Freed
  PROVE  oldcwd = Freed \/ tree[cwd].up \notin DOMAIN tree'
<1>1. cwd' # cwd
  OBVIOUS
<1>2. FilesNext
  BY <1>1 DEF filevars
<1>3. CASE KLink \/ GoBack \/ Click \/ CutSel
  BY <1>1, <1>3 DEF KLink, GoBack, Click, CutSel
<1>4. ASSUME NEW d \in Dirs, NEW name \in Names,
             \/ \E dir \in BOOLEAN : KCreate(d, name, dir)
             \/ \E n \in Named : KMove(n, d, name)
             \/ \E p \in Users : SysOpenOld(p, d, name) \/ SysOpenNew(p, d, name)
      PROVE  FALSE
  BY <1>1, <1>4 DEF KCreate, KMove, SysOpenOld, SysOpenNew
<1>5. ASSUME NEW n \in Named, KRemove(n) PROVE tree[cwd].up \notin DOMAIN tree'
  BY <1>5, CwdRemoved DEF KRemove, At
<1>6. ASSUME NEW d \in Dirs, KChdir(d) \/ KSandbox(d) \/ Go(d) PROVE FALSE
  <2>1. d # Freed
    BY Walks, NamedIs
  <2> QED
    BY <1>1, <1>6, <2>1 DEF KChdir, KSandbox, Go
<1>7. CASE KSandboxEnds
  BY <1>7 DEF KSandboxEnds
<1>8. ASSUME NEW name \in Names, Paste(name) \/ Rename(name) \/ Delete(name)
      PROVE  tree[cwd].up \notin DOMAIN tree'
  <2> DEFINE view == [pane EXCEPT !.sel = None]
  <2>1. KIdle /\ Delete(name)
    BY <1>1, <1>8 DEF Paste, Rename, Delete, At
  <2>2. pane.sel \in Named
    <3>1. pane.sel \in HeldIn(tree, link) /\ Alive(pane.sel)
      BY <2>1 DEF FilesInv, Delete
    <3> QED
      BY <2>1, <3>1, Walks DEF Alive
  <2>3. RemoveNode(pane.sel, view)
    BY <1>1, <2>1 DEF Delete
  <2> QED
    BY <2>1, <2>2, <2>3, CwdRemoved
<1>9. ASSUME NEW p \in Users,
             \/ \E what \in Devices : SysOpenOther(p, what)
             \/ SysOpenProcFails(p)
             \/ \E d \in Fds : SysClose(p, d)
             \/ SysExitFiles(p)
             \/ KExecFiles(p)
      PROVE  FALSE
  BY <1>1, <1>9 DEF SysOpenOther, SysOpenProcFails, SysClose, SysExitFiles, KExecFiles
<1> QED
  BY <1>2, <1>3, <1>4, <1>5, <1>6, <1>7, <1>8, <1>9 DEF FilesNext

(* fs_remove_node: the current directory dangles only when its parent was   *)
(* removed with it, or when cmd_sandbox brings back one that was removed.   *)
THEOREM CwdHolds == FilesSpec => CwdOutlivesRm
<1>1. FilesInv /\ [FilesNext]_filevars =>
        [ cwd' = Freed /\ cwd # Freed =>
            oldcwd = Freed \/ tree[cwd].up \notin DOMAIN tree' ]_filevars
  BY CwdStep
<1> QED
  BY <1>1, FilesInvariant, PTL DEF FilesSpec, CwdOutlivesRm

(* Only a purge frees anything, and what it frees is below the purged node. *)
LEMMA Purged ==
  ASSUME FilesInv, [FilesNext]_filevars, ui = "explorer", NEW x \in DOMAIN tree \ DOMAIN tree'
  PROVE  \E a \in Above(x) : tree[a].name = Bin
<1>1. DOMAIN tree' # DOMAIN tree
  OBVIOUS
<1>2. FilesNext
  BY <1>1 DEF filevars
<1>3. CASE KLink
  BY <1>1, <1>3, LinkKeeps DEF FilesInv
<1>4. ASSUME NEW d \in Dirs, NEW name \in Names,
             \/ \E dir \in BOOLEAN : KCreate(d, name, dir)
             \/ \E n \in Named : KMove(n, d, name)
             \/ \E p \in Users : SysOpenOld(p, d, name) \/ SysOpenNew(p, d, name)
      PROVE  FALSE
  <2>1. ASSUME NEW dir \in BOOLEAN, KCreate(d, name, dir) PROVE FALSE
    <3>1. DOMAIN tree \subseteq DOMAIN tree'
      BY <2>1, CreateKeeps DEF FilesInv
    <3> QED
      BY <3>1
  <2>2. ASSUME NEW n \in Named, KMove(n, d, name) PROVE FALSE
    BY <2>2 DEF KMove, At
  <2>3. ASSUME NEW p \in Users, SysOpenOld(p, d, name) PROVE FALSE
    BY <1>1, <2>3 DEF SysOpenOld
  <2>4. ASSUME NEW p \in Users, SysOpenNew(p, d, name) PROVE FALSE
    <3>1. PICK n \in Nodes \ DOMAIN tree : OpensNew(n, d, name)
      BY <2>4 DEF SysOpenNew, OpensNew
    <3>2. DOMAIN tree' = DOMAIN tree \union {n}
      BY <3>1 DEF OpensNew
    <3> QED
      BY <3>2
  <2> QED
    BY <1>4, <2>1, <2>2, <2>3, <2>4
<1>5. ASSUME NEW n \in Named PROVE ~KRemove(n)
  BY DEF KRemove, At
<1>6. ASSUME NEW d \in Dirs, KChdir(d) \/ KSandbox(d) \/ Go(d) PROVE FALSE
  BY <1>1, <1>6 DEF KChdir, KSandbox, Go
<1>7. CASE KSandboxEnds \/ GoBack \/ Click \/ CutSel
  BY <1>1, <1>7 DEF KSandboxEnds, GoBack, Click, CutSel
<1>8. ASSUME NEW name \in Names, Paste(name) \/ Rename(name) \/ Delete(name)
      PROVE  \E a \in Above(x) : tree[a].name = Bin
  <2>1. KIdle /\ mixed' = mixed
    BY <1>8 DEF Paste, Rename, Delete, At
  <2>2. \A y \in HeldIn(tree, link) : Alive(y) => y \in Named
    BY <2>1, Walks DEF Alive
  <2>3. {clip, pane.dir, pane.sel} \subseteq HeldIn(tree, link)
    BY DEF FilesInv
  <2>4. ASSUME NEW n \in Named, NEW d \in Named, Move(n, d, name) PROVE FALSE
    BY <1>1, <2>1, <2>4, MoveKeeps DEF FilesInv
  <2>5. ~Paste(name)
    BY <2>2, <2>3, <2>4 DEF Paste
  <2>6. ~Rename(name)
    <3>1. SUFFICES ASSUME Rename(name) PROVE FALSE
      OBVIOUS
    <3>2. /\ Move(pane.sel, tree[pane.sel].up, name) /\ pane.sel # Root
          /\ pane.sel \in Named
      BY <2>2, <2>3, <3>1 DEF Rename, Move, MayMove
    <3>3. tree[pane.sel].up \in Named
      BY <3>2, Walks, NamedUp
    <3> QED
      BY <2>4, <3>2, <3>3
  <2>7. Delete(name) /\ pane.sel \in Named
    BY <1>8, <2>2, <2>3, <2>5, <2>6 DEF Delete
  <2> DEFINE n == pane.sel
             view == [pane EXCEPT !.sel = None]
  <2>8. ~ \E d \in Child(Root, Bin) : Move(n, d, name)
    <3>1. Child(Root, Bin) \subseteq Named
      BY Walks, NamedIs DEF Child
    <3> QED
      BY <2>4, <2>7, <3>1
  <2>9. Purges(n) /\ RemoveNode(n, view)
    BY <2>7, <2>8 DEF Delete
  <2> HIDE DEF n, view
  <2>10. n \in Named /\ tree[tree[n].up].name = Bin
    BY <2>7, <2>9 DEF Purges, n
  <2>11. x \in BelowIn(tree, n) /\ n # Root
    BY <2>9, <2>10, RemovedIs
  <2>12. x \in Named /\ n \in AboveIn(tree, x)
    BY <2>10, <2>11, Walks, BelowAbove
  <2>13. tree[n].up \in AboveIn(tree, x)
    BY <2>11, <2>12, Walks, AboveIs
  <2> QED
    BY <2>10, <2>13, Walks
<1>9. ASSUME NEW p \in Users,
             \/ \E what \in Devices : SysOpenOther(p, what)
             \/ SysOpenProcFails(p)
             \/ \E d \in Fds : SysClose(p, d)
             \/ SysExitFiles(p)
             \/ KExecFiles(p)
      PROVE  FALSE
  BY <1>1, <1>9 DEF SysOpenOther, SysOpenProcFails, SysClose, SysExitFiles, KExecFiles
<1> QED
  BY <1>2, <1>3, <1>4, <1>5, <1>6, <1>7, <1>8, <1>9 DEF FilesNext

(* delete_sel: all that the Explorer frees was below a folder named .trash. *)
THEOREM PurgesTheBin == FilesSpec => BinOnly
<1>1. FilesInv /\ [FilesNext]_filevars =>
        [ ui = "explorer" => \A n \in DOMAIN tree \ DOMAIN tree' :
            \E a \in Above(n) : tree[a].name = Bin ]_filevars
  BY Purged
<1> QED
  BY <1>1, FilesInvariant, PTL DEF FilesSpec, BinOnly
=============================================================================
