-------------------------- MODULE MigrationsProofs --------------------------
(***************************************************************************)
(* Theorems about Migrations, for any processes, any list of migrations    *)
(* and any dependencies: first about the sort, then about the behaviours.  *)
(***************************************************************************)
EXTENDS Migrations, FiniteSetTheorems, TLAPS

(***************************************************************************)
(* Induction over an interval: a set with 0 and the successor of each of   *)
(* its members is all of the interval.                                     *)
(***************************************************************************)
LEMMA Upward ==
  ASSUME NEW N \in Nat, NEW T, 0 \in T, \A n \in 1 .. N : n - 1 \in T => n \in T
  PROVE  \A n \in 0 .. N : n \in T
<1> DEFINE F == {n \in 0 .. N : n \notin T}
           R == OpToRel(<, Nat)
<1>1. SUFFICES ASSUME F # {} PROVE FALSE
  OBVIOUS
<1>2. F \in SUBSET Nat
  OBVIOUS
<1> HIDE DEF F
<1>3. PICK n \in F : \A m \in F : n <= m
  <2>1. IsWellFoundedOn(R, Nat)
    BY NatLessThanWellFounded
  <2>2. \A m, n \in Nat : m < n => <<m, n>> \in R
    BY DEF OpToRel
  <2> HIDE DEF R
  <2>3. PICK n \in F : \A m \in F : <<m, n>> \notin R
    BY <1>1, <1>2, <2>1, WFMin
  <2>4. \A m \in F : m \in Nat /\ n \in Nat /\ ~ (m < n)
    BY <1>2, <2>2, <2>3
  <2>5. \A m \in F : n <= m
    BY <2>4
  <2> QED BY <2>5
<1>4. n \in 0 .. N /\ n \notin T
  BY DEF F
<1>5. n \in 1 .. N /\ n - 1 \in 0 .. N /\ ~ (n <= n - 1)
  BY <1>4
<1>6. n - 1 \in T
  BY <1>3, <1>5 DEF F
<1> QED BY <1>4, <1>5, <1>6

\* What is defined step by step: h says how the n-th value follows from the one before.
Steps(f, N, X, b, h) ==
    f \in [0 .. N -> X] /\ f[0] = b /\ \A n \in 1 .. N : f[n] = h[n][f[n - 1]]

LEMMA StepByStep ==
  ASSUME NEW N \in Nat, NEW X, NEW b \in X, NEW h \in [1 .. N -> [X -> X]]
  PROVE  \E f : Steps(f, N, X, b, h)
<1> DEFINE Good(f, n) == /\ f \in [0 .. n -> X] /\ f[0] = b
                         /\ \A i \in 1 .. n : f[i] = h[i][f[i - 1]]
           T == {n \in 0 .. N : \E f : Good(f, n)}
<1>1. 0 \in T
  <2> DEFINE f == [i \in 0 .. 0 |-> b]
  <2>1. Good(f, 0)
    OBVIOUS
  <2> HIDE DEF f
  <2> QED BY <2>1
<1>2. ASSUME NEW n \in 1 .. N, n - 1 \in T PROVE n \in T
  <2>1. PICK f : Good(f, n - 1)
    BY <1>2
  <2> DEFINE x == h[n][f[n - 1]]
             g == [i \in 0 .. n |-> IF i = n THEN x ELSE f[i]]
  <2>2. n \in Nat \ {0} /\ n - 1 \in 0 .. n - 1 /\ f[n - 1] \in X
    BY <2>1
  <2>3. x \in X
    BY <2>2
  <2>4. g[n] = h[n][f[n - 1]] /\ g[n - 1] = f[n - 1]
    BY <2>2
  <2> HIDE DEF x
  <2>5. g \in [0 .. n -> X] /\ g[0] = b
    BY <2>1, <2>2, <2>3
  <2>6. ASSUME NEW i \in 1 .. n PROVE g[i] = h[i][g[i - 1]]
    <3>1. CASE i = n
      BY <2>4, <3>1
    <3>2. CASE i # n
      <4>1. i \in 1 .. n - 1 /\ i - 1 \in 0 .. n /\ i - 1 # n /\ i \in 0 .. n
        BY <2>2, <3>2
      <4>2. g[i] = f[i] /\ g[i - 1] = f[i - 1]
        BY <3>2, <4>1
      <4> QED BY <2>1, <4>1, <4>2
    <3> QED BY <3>1, <3>2
  <2> HIDE DEF g
  <2>7. Good(g, n)
    BY <2>5, <2>6
  <2> HIDE DEF Good
  <2> QED BY <2>7
<1> HIDE DEF T
<1>3. \A n \in 0 .. N : n \in T
  BY <1>1, <1>2, Upward
<1>4. N \in T
  BY <1>3
<1> QED BY <1>4 DEF T, Steps

-----------------------------------------------------------------------------
(***************************************************************************)
(* Without a circle, what is pending can be gone through with dependencies *)
(* first.                                                                  *)
(***************************************************************************)
Deps(deps, v) == Elements(deps[v])

LEMMA CatalogueIsFinite ==
  ASSUME NEW pending \in SUBSET Elements(Catalogue)
  PROVE  IsFiniteSet(pending) /\ pending \subseteq Versions
<1>1. Len(Catalogue) \in Nat /\ DOMAIN Catalogue = 1 .. Len(Catalogue)
      /\ \A i \in DOMAIN Catalogue : Catalogue[i] \in Versions
  BY MigrationsAssumption
<1>2. IsFiniteSet(DOMAIN Catalogue)
  BY <1>1, FS_Interval
<1> DEFINE E == Elements(Catalogue)
           f == [i \in DOMAIN Catalogue |-> Catalogue[i]]
<1>3. f \in Surjection(DOMAIN Catalogue, E)
  BY DEF Elements, Surjection
<1> HIDE DEF f
<1>4. IsFiniteSet(E)
  BY <1>2, <1>3, FS_Surjection
<1>5. IsFiniteSet(pending)
  BY <1>4, FS_Subset
<1> QED BY <1>1, <1>5 DEF Elements

\* Some of them depend on none of the others.
LEMMA Minimal ==
  ASSUME NEW deps, NEW P, IsFiniteSet(P), ~Circular(deps, P), NEW T \in SUBSET P, T # {}
  PROVE  \E v \in T : Deps(deps, v) \cap T = {}
<1> SUFFICES ASSUME \A v \in T : Deps(deps, v) \cap T # {} PROVE FALSE
  OBVIOUS
<1> DEFINE N == Cardinality(T)
           h == [n \in 1 .. N |-> [v \in T |-> CHOOSE d \in T : d \in Deps(deps, v)]]
<1>1. IsFiniteSet(T) /\ N \in Nat /\ Cardinality(P) \in Nat /\ N <= Cardinality(P)
  BY FS_Subset, FS_CardinalityType
<1>2. \A v \in T : (CHOOSE d \in T : d \in Deps(deps, v)) \in T \cap Deps(deps, v)
  OBVIOUS
<1>3. PICK t \in T : TRUE
  OBVIOUS
<1>4. h \in [1 .. N -> [T -> T]] /\ \A n \in 1 .. N, v \in T : h[n][v] \in Deps(deps, v)
  BY <1>2
<1> HIDE DEF h, N
<1>5. PICK f \in [0 .. N -> T] : f[0] = t /\ \A n \in 1 .. N : f[n] = h[n][f[n - 1]]
  <2>1. N \in Nat /\ t \in T
    BY <1>1
  <2>2. h \in [1 .. N -> [T -> T]]
    BY <1>4
  <2>3. PICK f : Steps(f, N, T, t, h)
    BY <2>1, <2>2, StepByStep
  <2> QED BY <2>3 DEF Steps
<1>6. \A n \in 1 .. N : f[n] \in Deps(deps, f[n - 1])
  <2> TAKE n \in 1 .. N
  <2>1. n - 1 \in 0 .. N
    BY <1>1
  <2>2. f[n - 1] \in T /\ f[n] = h[n][f[n - 1]]
    BY <1>5, <2>1
  <2> QED BY <1>4, <2>2
<1>7. PICK x, y \in 0 .. N : x # y /\ f[x] = f[y]
  <2>1. IsFiniteSet(0 .. N) /\ Cardinality(0 .. N) = N + 1
    BY <1>1, FS_Interval
  <2>2. Cardinality(T) < Cardinality(0 .. N)
    BY <1>1, <2>1 DEF N
  <2> QED BY <1>1, <2>1, <2>2, FS_PigeonHole
<1>8. PICK i, j \in 0 .. N : i < j /\ f[i] = f[j]
  BY <1>1, <1>7
<1> DEFINE n == j - i
           path == [k \in 0 .. n |-> f[i + k]]
<1>9. n \in 1 .. Cardinality(P) /\ n \in Nat
  BY <1>1, <1>8
<1>10. \A k \in 0 .. n : i + k \in 0 .. N
  BY <1>1, <1>8
<1>11. path \in [0 .. n -> P]
  BY <1>10
<1>12. i + 0 = i /\ i + n = j /\ 0 \in 0 .. n /\ n \in 0 .. n
  BY <1>1, <1>8
<1>13. path[0] = path[n]
  BY <1>8, <1>12
<1>14. ASSUME NEW k \in 1 .. n PROVE path[k] \in Elements(deps[path[k - 1]])
  <2>1. i + k \in 1 .. N /\ i + (k - 1) = (i + k) - 1 /\ k \in 0 .. n /\ k - 1 \in 0 .. n
    BY <1>1, <1>8
  <2>2. path[k] = f[i + k] /\ path[k - 1] = f[(i + k) - 1]
    BY <2>1
  <2> QED BY <1>6, <2>1, <2>2 DEF Deps
<1> HIDE DEF n, path
<1> QED BY <1>9, <1>11, <1>13, <1>14 DEF Circular

\* Whatever can always be extended by one whose dependencies it has, extends to all.
LEMMA Exhausts ==
  ASSUME NEW deps, NEW P, IsFiniteSet(P), ~Circular(deps, P),
         NEW K \in SUBSET SUBSET P, {} \in K,
         \A D \in K : \A v \in P \ D : Deps(deps, v) \cap P \subseteq D => D \cup {v} \in K
  PROVE  P \in K
<1> DEFINE N == Cardinality(P)
           T == {n \in 0 .. N : \E D \in K : Cardinality(D) = n}
<1>1. N \in Nat
  BY FS_CardinalityType
<1>2. 0 \in T
  BY <1>1, FS_EmptySet
<1>3. ASSUME NEW n \in 1 .. N, n - 1 \in T PROVE n \in T
  <2>1. PICK D \in K : Cardinality(D) = n - 1
    BY <1>3
  <2>2. D \in SUBSET P /\ IsFiniteSet(D)
    BY FS_Subset
  <2>3. D # P
    BY <1>1, <2>1
  <2>4. PICK v \in P \ D : Deps(deps, v) \cap (P \ D) = {}
    <3> DEFINE R == P \ D
    <3>1. R \in SUBSET P /\ R # {}
      BY <2>2, <2>3
    <3> HIDE DEF R
    <3>2. \E v \in R : Deps(deps, v) \cap R = {}
      BY <3>1, Minimal
    <3> QED BY <3>2 DEF R
  <2>5. Deps(deps, v) \cap P \subseteq D
    BY <2>4
  <2>6. D \cup {v} \in K
    BY <2>5
  <2>7. Cardinality(D \cup {v}) = Cardinality(D) + 1
    BY <2>2, FS_AddElement
  <2>8. Cardinality(D \cup {v}) = n
    BY <1>1, <2>1, <2>7
  <2> QED BY <1>1, <2>6, <2>8
<1> HIDE DEF T
<1>4. \A n \in 0 .. N : n \in T
  BY <1>1, <1>2, <1>3, Upward
<1>5. N \in T
  BY <1>1, <1>4
<1>6. PICK D \in K : Cardinality(D) = N
  BY <1>5 DEF T
<1>7. D = P
  BY <1>6, FS_Subset
<1> QED BY <1>7

-----------------------------------------------------------------------------
(***************************************************************************)
(* What visiting a list does, if it is known of each of its members.       *)
(***************************************************************************)
Lists == Seq(Versions)
Listing(g, seq) == \A n \in 1 .. Len(seq) : g[seq[n]] \in [Lists -> Lists]
Along(g, seq) == [n \in 1 .. Len(seq) |-> g[seq[n]]]

LEMMA ListFacts ==
  ASSUME NEW s \in Lists
  PROVE  /\ Len(s) \in Nat /\ DOMAIN s = 1 .. Len(s)
         /\ \A n \in 1 .. Len(s) : s[n] \in Versions
         /\ Elements(s) = {s[n] : n \in 1 .. Len(s)} /\ Elements(s) \subseteq Versions
<1>1. Len(s) \in Nat /\ DOMAIN s = 1 .. Len(s) /\ \A n \in 1 .. Len(s) : s[n] \in Versions
  BY DEF Lists
<1> QED BY <1>1 DEF Elements

LEMMA AfterFacts ==
  ASSUME NEW g, NEW seq \in Lists, NEW s \in Lists, Listing(g, seq)
  PROVE  \E u : Steps(u, Len(seq), Lists, s, Along(g, seq)) /\ After(g, seq, s) = u[Len(seq)]
<1> DEFINE N == Len(seq)
           h == Along(g, seq)
           Rec(u) == [n \in 0 .. N |-> IF n = 0 THEN s ELSE g[seq[n]][u[n - 1]]]
           w == CHOOSE u : u = Rec(u)
<1>1. N \in Nat /\ h \in [1 .. N -> [Lists -> Lists]] /\ \A n \in 1 .. N : h[n] = g[seq[n]]
  BY ListFacts DEF Listing, Along
<1>2. After(g, seq, s) = w[N]
  BY DEF After
<1> HIDE DEF N, h
<1>3. PICK f : Steps(f, N, Lists, s, h)
  BY <1>1, StepByStep
<1>4. f = Rec(f)
  <2>1. f \in [0 .. N -> Lists] /\ f[0] = s /\ \A n \in 1 .. N : f[n] = g[seq[n]][f[n - 1]]
    BY <1>1, <1>3 DEF Steps
  <2>2. \A n \in 0 .. N : n # 0 => n \in 1 .. N
    BY <1>1
  <2> QED BY <2>1, <2>2
<1>5. w = Rec(w)
  BY <1>4
<1> HIDE DEF w
<1>6. /\ DOMAIN w = 0 .. N /\ w = [n \in 0 .. N |-> w[n]]
      /\ \A n \in 0 .. N : w[n] = IF n = 0 THEN s ELSE g[seq[n]][w[n - 1]]
  BY <1>5
<1>7. w[0] = s /\ \A n \in 1 .. N : w[n] = h[n][w[n - 1]]
  <2>1. 0 \in 0 .. N /\ \A n \in 1 .. N : n \in 0 .. N /\ n # 0
    BY <1>1
  <2> QED BY <1>1, <1>6, <2>1
<1>8. \A n \in 0 .. N : w[n] \in Lists
  <2> DEFINE T == {n \in 0 .. N : w[n] \in Lists}
  <2>1. 0 \in T
    BY <1>1, <1>7
  <2>2. ASSUME NEW n \in 1 .. N, n - 1 \in T PROVE n \in T
    <3>1. w[n - 1] \in Lists /\ h[n] \in [Lists -> Lists] /\ w[n] = h[n][w[n - 1]]
      BY <1>1, <1>7, <2>2
    <3>2. n \in 0 .. N
      BY <1>1
    <3>3. w[n] \in Lists
      BY <3>1
    <3> QED BY <3>2, <3>3
  <2> HIDE DEF T
  <2>3. \A n \in 0 .. N : n \in T
    BY <1>1, <2>1, <2>2, Upward
  <2> QED BY <2>3 DEF T
<1>9. Steps(w, N, Lists, s, h)
  BY <1>6, <1>7, <1>8 DEF Steps
<1> QED BY <1>2, <1>9 DEF N, h

LEMMA AfterType ==
  ASSUME NEW g, NEW seq \in Lists, NEW s \in Lists, Listing(g, seq)
  PROVE  After(g, seq, s) \in Lists
<1>1. PICK u : Steps(u, Len(seq), Lists, s, Along(g, seq)) /\ After(g, seq, s) = u[Len(seq)]
  BY AfterFacts
<1>2. Len(seq) \in 0 .. Len(seq)
  BY ListFacts
<1> QED BY <1>1, <1>2 DEF Steps

LEMMA AfterAlike ==
  ASSUME NEW g, NEW k, NEW seq \in Lists, NEW s \in Lists, Listing(g, seq),
         \A n \in 1 .. Len(seq) : k[seq[n]] = g[seq[n]]
  PROVE  After(k, seq, s) = After(g, seq, s)
<1> DEFINE N == Len(seq)
           h == Along(g, seq)
<1>1. Along(k, seq) = h /\ Listing(k, seq)
  BY DEF Along, Listing
<1>2. N \in Nat
  BY ListFacts
<1>3. PICK u : Steps(u, N, Lists, s, h) /\ After(g, seq, s) = u[N]
  BY AfterFacts
<1>4. PICK w : Steps(w, N, Lists, s, h) /\ After(k, seq, s) = w[N]
  BY <1>1, AfterFacts
<1> HIDE DEF N, h
<1> DEFINE T == {n \in 0 .. N : u[n] = w[n]}
<1>5. 0 \in T
  BY <1>2, <1>3, <1>4 DEF Steps
<1>6. ASSUME NEW n \in 1 .. N, n - 1 \in T PROVE n \in T
  <2>1. u[n - 1] = w[n - 1] /\ u[n] = h[n][u[n - 1]] /\ w[n] = h[n][w[n - 1]]
    BY <1>3, <1>4, <1>6 DEF Steps
  <2>2. n \in 0 .. N
    BY <1>2
  <2> QED BY <2>1, <2>2
<1> HIDE DEF T
<1>7. \A n \in 0 .. N : n \in T
  BY <1>2, <1>5, <1>6, Upward
<1>8. N \in 0 .. N
  BY <1>2
<1> QED BY <1>3, <1>4, <1>7, <1>8 DEF T

-----------------------------------------------------------------------------
(***************************************************************************)
(* Visiting: without a circle there is a function that does what visit     *)
(* says, and any such function makes lists of migrations.                  *)
(***************************************************************************)
VisitOf(deps, P, g, v, s) ==
    IF v \in P \ Elements(s) THEN Append(After(g, deps[v], s), v) ELSE s

\* g does so for the migrations of D and for those that are not pending.
Visits(g, deps, P, D) ==
    /\ g \in [Versions -> [Lists -> Lists]]
    /\ \A v \in D \cup (Versions \ P) : \A s \in Lists : g[v][s] = VisitOf(deps, P, g, v, s)

LEMMA DepsFacts ==
  ASSUME NEW deps \in Dependencies, NEW v \in Versions
  PROVE  /\ deps[v] \in Lists /\ Deps(deps, v) \subseteq Versions
         /\ Deps(deps, v) = {deps[v][n] : n \in 1 .. Len(deps[v])}
<1>1. deps[v] \in Lists
  BY MigrationsAssumption DEF Lists
<1> QED BY <1>1, ListFacts DEF Deps

LEMMA VisitExists ==
  ASSUME NEW deps \in Dependencies, NEW P \in SUBSET Elements(Catalogue), ~Circular(deps, P)
  PROVE  \E g : Visits(g, deps, P, P)
<1> DEFINE K == {D \in SUBSET P : /\ \A v \in D : Deps(deps, v) \cap P \subseteq D
                                  /\ \E g : Visits(g, deps, P, D)}
<1>1. IsFiniteSet(P) /\ P \subseteq Versions
  BY CatalogueIsFinite
<1>2. {} \in K
  <2> DEFINE g == [v \in Versions |-> [s \in Lists |-> s]]
  <2>1. g \in [Versions -> [Lists -> Lists]]
    OBVIOUS
  <2>2. \A v \in Versions, s \in Lists : g[v][s] = s
    OBVIOUS
  <2> HIDE DEF g
  <2>3. Visits(g, deps, P, {})
    BY <2>1, <2>2 DEF Visits, VisitOf
  <2> QED BY <2>3
<1>3. ASSUME NEW D \in K, NEW v \in P \ D, Deps(deps, v) \cap P \subseteq D
      PROVE  D \cup {v} \in K
  <2>1. PICK g : Visits(g, deps, P, D)
    BY <1>3
  <2> DEFINE k == [w \in Versions |->
                    IF w = v THEN [s \in Lists |-> VisitOf(deps, P, g, v, s)] ELSE g[w]]
             E == D \cup {v}
  <2>2. g \in [Versions -> [Lists -> Lists]] /\ v \in Versions /\ deps[v] \in Lists
    BY <1>1, <2>1, DepsFacts DEF Visits
  <2>3. \A w \in Versions : deps[w] \in Lists /\ Listing(g, deps[w])
    BY <2>2, DepsFacts, ListFacts DEF Listing
  <2>4. \A s \in Lists : VisitOf(deps, P, g, v, s) \in Lists
    <3> TAKE s \in Lists
    <3>1. After(g, deps[v], s) \in Lists
      BY <2>2, <2>3, AfterType
    <3>2. Append(After(g, deps[v], s), v) \in Lists
      BY <2>2, <3>1 DEF Lists
    <3> QED BY <3>2 DEF VisitOf
  <2>5. k \in [Versions -> [Lists -> Lists]]
    <3> DEFINE fv == [s \in Lists |-> VisitOf(deps, P, g, v, s)]
    <3>1. fv \in [Lists -> Lists]
      BY <2>4
    <3> HIDE DEF fv
    <3>2. [w \in Versions |-> IF w = v THEN fv ELSE g[w]] \in [Versions -> [Lists -> Lists]]
      BY <2>2, <3>1
    <3> QED BY <3>2 DEF fv
  <2>6. \A w \in Versions : w # v => k[w] = g[w]
    OBVIOUS
  <2>7. \A s \in Lists : k[v][s] = VisitOf(deps, P, g, v, s)
    BY <2>2
  <2> HIDE DEF k
  <2>8. \A w \in E : Deps(deps, w) \cap P \subseteq D
    BY <1>3
  <2>9. ASSUME NEW w \in E \cup (Versions \ P), NEW s \in Lists
        PROVE  k[w][s] = VisitOf(deps, P, k, w, s)
    <3>1. w \in Versions
      BY <1>1, <1>3
    <3>2. k[w][s] = VisitOf(deps, P, g, w, s)
      BY <1>3, <2>1, <2>6, <2>7, <3>1 DEF Visits
    <3>3. CASE w \notin P
      BY <3>2, <3>3 DEF VisitOf
    <3>4. CASE w \in P
      <4>1. \A n \in 1 .. Len(deps[w]) : k[deps[w][n]] = g[deps[w][n]]
        <5> TAKE n \in 1 .. Len(deps[w])
        <5>1. deps[w][n] \in Deps(deps, w) /\ deps[w][n] \in Versions
          BY <3>1, DepsFacts
        <5>2. w \in E
          BY <3>4
        <5>3. deps[w][n] # v
          BY <1>3, <2>8, <5>1, <5>2
        <5> QED BY <2>6, <5>1, <5>3
      <4>2. After(k, deps[w], s) = After(g, deps[w], s)
        BY <2>3, <3>1, <4>1, AfterAlike
      <4> QED BY <3>2, <4>2 DEF VisitOf
    <3> QED BY <3>3, <3>4
  <2>10. Visits(k, deps, P, E)
    BY <2>5, <2>9 DEF Visits
  <2>11. E \in SUBSET P /\ \A w \in E : Deps(deps, w) \cap P \subseteq E
    BY <1>3, <2>8
  <2> QED BY <2>10, <2>11
<1> HIDE DEF K
<1>4. K \in SUBSET SUBSET P
  BY DEF K
<1>5. P \in K
  BY <1>1, <1>2, <1>3, <1>4, Exhausts
<1> QED BY <1>5 DEF K

\* The function Sorted goes by.
LEMMA SortedByVisit ==
  ASSUME NEW deps \in Dependencies, NEW P \in SUBSET Elements(Catalogue), ~Circular(deps, P)
  PROVE  \E g : Visits(g, deps, P, P) /\ Sorted(deps, P) = After(g, Catalogue, <<>>)
<1> DEFINE Rec(g) == [v \in Versions |->
                        [s \in Seq(Versions) |->
                            IF v \in P \ Elements(s) THEN Append(After(g, deps[v], s), v) ELSE s]]
           visit == CHOOSE g : g = Rec(g)
<1>1. Sorted(deps, P) = After(visit, Catalogue, <<>>)
  BY DEF Sorted
<1>2. P \subseteq Versions /\ IsFiniteSet(P)
  BY CatalogueIsFinite
<1>3. \E g : g = Rec(g)
  <2>1. PICK g : Visits(g, deps, P, P)
    BY VisitExists
  <2>2. /\ g \in [Versions -> [Seq(Versions) -> Seq(Versions)]]
        /\ \A v \in Versions : \A s \in Seq(Versions) :
            g[v][s] = IF v \in P \ Elements(s) THEN Append(After(g, deps[v], s), v) ELSE s
    BY <1>2, <2>1 DEF Visits, VisitOf, Lists
  <2> DEFINE body(v, s) ==
                IF v \in P \ Elements(s) THEN Append(After(g, deps[v], s), v) ELSE s
  <2>3. \A v \in Versions : \A s \in Seq(Versions) : g[v][s] = body(v, s)
    BY <2>2
  <2> HIDE DEF body
  <2>4. \A v \in Versions : g[v] = [s \in Seq(Versions) |-> body(v, s)]
    BY <2>2, <2>3
  <2>5. g = [v \in Versions |-> [s \in Seq(Versions) |-> body(v, s)]]
    BY <2>2, <2>4
  <2>6. g = Rec(g)
    BY <2>5 DEF body
  <2> HIDE DEF Rec
  <2> QED BY <2>6
<1>4. visit = Rec(visit)
  BY <1>3
<1> HIDE DEF visit
<1>5. /\ visit = [v \in Versions |-> visit[v]]
      /\ \A v \in Versions : visit[v] = [s \in Lists |-> VisitOf(deps, P, visit, v, s)]
  BY <1>4 DEF VisitOf, Lists
<1>6. \A v \in Versions : v \notin P => visit[v] \in [Lists -> Lists]
  BY <1>5 DEF VisitOf
<1> DEFINE K == {D \in SUBSET P : \A v \in D : visit[v] \in [Lists -> Lists]}
<1>7. ASSUME NEW D \in K, NEW v \in P \ D, Deps(deps, v) \cap P \subseteq D
      PROVE  D \cup {v} \in K
  <2>1. v \in Versions /\ deps[v] \in Lists
    BY <1>2, DepsFacts
  <2>2. Listing(visit, deps[v])
    <3> SUFFICES ASSUME NEW n \in 1 .. Len(deps[v])
                 PROVE  visit[deps[v][n]] \in [Lists -> Lists]
      BY DEF Listing
    <3>1. deps[v][n] \in Deps(deps, v) /\ deps[v][n] \in Versions
      BY <2>1, DepsFacts
    <3>2. CASE deps[v][n] \in P
      <4>1. deps[v][n] \in D
        BY <1>7, <3>1, <3>2
      <4> QED BY <4>1
    <3>3. CASE deps[v][n] \notin P
      BY <1>6, <3>1, <3>3
    <3> QED BY <3>2, <3>3
  <2>3. \A s \in Lists : VisitOf(deps, P, visit, v, s) \in Lists
    <3> TAKE s \in Lists
    <3>1. After(visit, deps[v], s) \in Lists
      BY <2>1, <2>2, AfterType
    <3>2. Append(After(visit, deps[v], s), v) \in Lists
      BY <2>1, <3>1 DEF Lists
    <3> QED BY <3>2 DEF VisitOf
  <2>4. visit[v] \in [Lists -> Lists]
    BY <1>5, <2>1, <2>3
  <2> QED BY <2>4
<1>8. {} \in K /\ K \in SUBSET SUBSET P
  OBVIOUS
<1> HIDE DEF K
<1>9. P \in K
  BY <1>2, <1>7, <1>8, Exhausts
<1>10. \A v \in Versions : visit[v] \in [Lists -> Lists]
  BY <1>6, <1>9 DEF K
<1>11. visit \in [Versions -> [Lists -> Lists]]
  BY <1>5, <1>10
<1>12. \A v \in Versions, s \in Lists : visit[v][s] = VisitOf(deps, P, visit, v, s)
  BY <1>5
<1>13. \A v \in P \cup (Versions \ P) : v \in Versions
  BY <1>2
<1>14. Visits(visit, deps, P, P)
  BY <1>11, <1>12, <1>13 DEF Visits
<1> QED BY <1>1, <1>14

-----------------------------------------------------------------------------
(***************************************************************************)
(* A list in the making has different migrations, each after what it       *)
(* depends on.                                                             *)
(***************************************************************************)
InOrder(deps, P, s) ==
    /\ s \in Lists /\ Elements(s) \subseteq P
    /\ \A i, j \in 1 .. Len(s) : s[i] = s[j] => i = j
    /\ \A i \in 1 .. Len(s) : \A d \in Deps(deps, s[i]) \cap P : \E j \in 1 .. i - 1 : s[j] = d

LEMMA OneMore ==
  ASSUME NEW deps, NEW P \in SUBSET Versions, NEW s, InOrder(deps, P, s),
         NEW v \in P, v \notin Elements(s), Deps(deps, v) \cap P \subseteq Elements(s)
  PROVE  /\ InOrder(deps, P, Append(s, v))
         /\ Elements(Append(s, v)) = Elements(s) \cup {v}
<1> DEFINE N == Len(s)
           t == Append(s, v)
<1>1. /\ s \in Lists /\ N \in Nat /\ Elements(s) = {s[n] : n \in 1 .. N}
      /\ \A n \in 1 .. N : s[n] \in Elements(s)
  BY ListFacts DEF InOrder
<1>2. t \in Lists /\ Len(t) = N + 1 /\ t[N + 1] = v /\ \A n \in 1 .. N : t[n] = s[n]
  BY <1>1 DEF Lists
<1> HIDE DEF N, t
<1>3. \A n \in 1 .. N + 1 : n = N + 1 \/ n \in 1 .. N
  BY <1>1
<1>4. N + 1 \in 1 .. N + 1 /\ \A n \in 1 .. N : n \in 1 .. N + 1
  BY <1>1
<1>5. Elements(t) = Elements(s) \cup {v}
  <2>1. Elements(t) = {t[n] : n \in 1 .. N + 1}
    BY <1>2, ListFacts
  <2> QED BY <1>1, <1>2, <1>3, <1>4, <2>1
<1>6. ASSUME NEW i \in 1 .. N + 1, NEW j \in 1 .. N + 1, t[i] = t[j] PROVE i = j
  <2>1. CASE i = N + 1 /\ j \in 1 .. N
    BY <1>1, <1>2, <1>6, <2>1
  <2>2. CASE j = N + 1 /\ i \in 1 .. N
    BY <1>1, <1>2, <1>6, <2>2
  <2>3. CASE i \in 1 .. N /\ j \in 1 .. N
    BY <1>2, <1>6, <2>3 DEF InOrder, N
  <2> QED BY <1>3, <2>1, <2>2, <2>3
<1>7. ASSUME NEW i \in 1 .. N + 1, NEW d \in Deps(deps, t[i]) \cap P
      PROVE  \E j \in 1 .. i - 1 : t[j] = d
  <2>1. CASE i = N + 1
    <3>1. d \in Elements(s)
      BY <1>2, <1>7, <2>1
    <3>2. PICK j \in 1 .. N : s[j] = d
      BY <1>1, <3>1
    <3>3. j \in 1 .. i - 1 /\ t[j] = d
      BY <1>1, <1>2, <2>1, <3>2
    <3> QED BY <3>3
  <2>2. CASE i \in 1 .. N
    <3>1. d \in Deps(deps, s[i]) \cap P
      BY <1>2, <1>7, <2>2
    <3>2. PICK j \in 1 .. i - 1 : s[j] = d
      BY <2>2, <3>1 DEF InOrder, N
    <3>3. j \in 1 .. N
      BY <1>1, <2>2
    <3>4. t[j] = d
      BY <1>2, <3>2, <3>3
    <3> QED BY <3>4
  <2> QED BY <1>3, <2>1, <2>2
<1>8. Elements(t) \subseteq P
  BY <1>5 DEF InOrder
<1>9. InOrder(deps, P, t)
  BY <1>2, <1>6, <1>7, <1>8 DEF InOrder
<1> QED BY <1>5, <1>9 DEF t

\* Visiting v puts it on the list, and of the others no more than D has.
Handles(g, deps, P, D, v) ==
    \A s : InOrder(deps, P, s) =>
        /\ InOrder(deps, P, g[v][s])
        /\ Elements(s) \cup {v} \subseteq Elements(g[v][s])
        /\ Elements(g[v][s]) \subseteq Elements(s) \cup D

HandlesAll(g, deps, P, D) == D \subseteq P /\ \A v \in D : Handles(g, deps, P, D, v)

\* r is s with what is pending of seq added, and no more than D has.
Adds(deps, P, D, seq, s, r) ==
    /\ InOrder(deps, P, r)
    /\ Elements(s) \subseteq Elements(r) /\ Elements(r) \subseteq Elements(s) \cup D
    /\ Elements(seq) \cap P \subseteq Elements(r)

Within(seq, P, D) == Elements(seq) \cap P \subseteq D

LEMMA AfterHandles ==
  ASSUME NEW deps \in Dependencies, NEW P \in SUBSET Versions, NEW g, Visits(g, deps, P, P),
         NEW D, HandlesAll(g, deps, P, D),
         NEW seq \in Lists, Within(seq, P, D), NEW s, InOrder(deps, P, s)
  PROVE  Adds(deps, P, D, seq, s, After(g, seq, s))
<1> DEFINE N == Len(seq)
<1>1. N \in Nat /\ Elements(seq) = {seq[n] : n \in 1 .. N} /\ \A n \in 1 .. N : seq[n] \in Versions
  BY ListFacts
<1>2. s \in Lists
  BY DEF InOrder
<1>3. Listing(g, seq)
  BY <1>1 DEF Listing, Visits
<1>4. PICK u : Steps(u, N, Lists, s, Along(g, seq)) /\ After(g, seq, s) = u[N]
  BY <1>2, <1>3, AfterFacts
<1>5. u[0] = s /\ \A n \in 1 .. N : u[n] = g[seq[n]][u[n - 1]]
  BY <1>4 DEF Steps, Along
<1> HIDE DEF N
<1> DEFINE Fine(n) == /\ InOrder(deps, P, u[n])
                      /\ Elements(s) \subseteq Elements(u[n])
                      /\ Elements(u[n]) \subseteq Elements(s) \cup D
                      /\ \A i \in 1 .. n : seq[i] \in P => seq[i] \in Elements(u[n])
           T == {n \in 0 .. N : Fine(n)}
<1>6. 0 \in T
  BY <1>1, <1>5
<1>7. ASSUME NEW n \in 1 .. N, n - 1 \in T PROVE n \in T
  <2> DEFINE a == u[n - 1]
             b == u[n]
             v == seq[n]
  <2>1. /\ b = g[v][a] /\ v \in Versions /\ InOrder(deps, P, a) /\ a \in Lists
        /\ Elements(s) \subseteq Elements(a) /\ Elements(a) \subseteq Elements(s) \cup D
        /\ \A i \in 1 .. n - 1 : seq[i] \in P => seq[i] \in Elements(a)
    BY <1>1, <1>5, <1>7 DEF InOrder
  <2>2. v \in P => v \in D
    BY <1>1 DEF Within
  <2> HIDE DEF a, b, v
  <2>3. /\ InOrder(deps, P, b) /\ Elements(a) \subseteq Elements(b)
        /\ Elements(b) \subseteq Elements(a) \cup D /\ (v \in P => v \in Elements(b))
    <3>1. CASE v \in P
      BY <2>1, <2>2, <3>1 DEF Handles, HandlesAll
    <3>2. CASE v \notin P
      <4>1. b = a
        BY <2>1, <3>2 DEF Visits, VisitOf
      <4> QED BY <2>1, <3>2, <4>1
    <3> QED BY <3>1, <3>2
  <2>4. \A i \in 1 .. n : i = n \/ i \in 1 .. n - 1
    BY <1>1
  <2>5. \A i \in 1 .. n : seq[i] \in P => seq[i] \in Elements(b)
    BY <2>1, <2>3, <2>4 DEF v
  <2>6. Fine(n)
    BY <2>1, <2>3, <2>5 DEF b
  <2>7. n \in 0 .. N
    BY <1>1
  <2> HIDE DEF Fine
  <2> QED BY <2>6, <2>7
<1> HIDE DEF T
<1>8. \A n \in 0 .. N : n \in T
  BY <1>1, <1>6, <1>7, Upward
<1>9. N \in T
  BY <1>1, <1>8
<1>10. Fine(N)
  BY <1>9 DEF T
<1> QED BY <1>1, <1>4, <1>10 DEF Adds

LEMMA AllHandled ==
  ASSUME NEW deps \in Dependencies, NEW P \in SUBSET Elements(Catalogue), ~Circular(deps, P),
         NEW g, Visits(g, deps, P, P)
  PROVE  HandlesAll(g, deps, P, P)
<1> DEFINE K == {D \in SUBSET P : HandlesAll(g, deps, P, D)}
<1>1. IsFiniteSet(P) /\ P \in SUBSET Versions
  BY CatalogueIsFinite
<1>2. ASSUME NEW D \in K, NEW v \in P \ D, Deps(deps, v) \cap P \subseteq D
      PROVE  D \cup {v} \in K
  <2> DEFINE E == D \cup {v}
  <2>1. v \in Versions /\ deps[v] \in Lists /\ Elements(deps[v]) \cap P \subseteq D
    BY <1>1, <1>2, DepsFacts DEF Deps
  <2>2. \A w \in D : Handles(g, deps, P, E, w)
    BY <1>2 DEF Handles, HandlesAll
  <2>3. ASSUME NEW s, InOrder(deps, P, s)
        PROVE  /\ InOrder(deps, P, g[v][s])
               /\ Elements(s) \cup {v} \subseteq Elements(g[v][s])
               /\ Elements(g[v][s]) \subseteq Elements(s) \cup E
    <3> DEFINE r == After(g, deps[v], s)
    <3>1. s \in Lists
      BY <2>3 DEF InOrder
    <3>2. g[v][s] = IF v \in P \ Elements(s) THEN Append(r, v) ELSE s
      BY <2>1, <3>1 DEF Visits, VisitOf
    <3>3. CASE v \in Elements(s)
      BY <2>3, <3>2, <3>3
    <3>4. CASE v \notin Elements(s)
      <4> HIDE DEF r
      <4>1. /\ InOrder(deps, P, r)
            /\ Elements(s) \subseteq Elements(r) /\ Elements(r) \subseteq Elements(s) \cup D
            /\ Deps(deps, v) \cap P \subseteq Elements(r)
        <5>1. HandlesAll(g, deps, P, D) /\ Within(deps[v], P, D)
          BY <2>1 DEF Within
        <5> HIDE DEF K
        <5>2. Adds(deps, P, D, deps[v], s, r)
          BY <1>1, <2>1, <2>3, <5>1, AfterHandles DEF r
        <5> QED BY <5>2 DEF Adds, Deps
      <4>2. v \notin Elements(r)
        BY <1>2, <3>4, <4>1
      <4>3. InOrder(deps, P, Append(r, v)) /\ Elements(Append(r, v)) = Elements(r) \cup {v}
        BY <1>1, <4>1, <4>2, OneMore
      <4>4. g[v][s] = Append(r, v)
        BY <3>2, <3>4
      <4> QED BY <4>1, <4>3, <4>4
    <3> QED BY <3>3, <3>4
  <2>4. Handles(g, deps, P, E, v)
    BY <2>3 DEF Handles
  <2> QED BY <2>2, <2>4 DEF HandlesAll
<1>3. {} \in K /\ K \in SUBSET SUBSET P
  BY DEF HandlesAll
<1> HIDE DEF K
<1>4. P \in K
  BY <1>1, <1>2, <1>3, Exhausts
<1> QED BY <1>4 DEF K

(***************************************************************************)
(* sortMigrations: for any list of migrations and any dependencies without *)
(* a circle, what is pending is sorted, each migration once and after      *)
(* those it depends on.                                                    *)
(***************************************************************************)
THEOREM SortIsRight ==
  ASSUME NEW deps \in Dependencies, NEW pending \in SUBSET Elements(Catalogue),
         ~Circular(deps, pending)
  PROVE  SortsWell(deps, pending, Sorted(deps, pending))
<1> DEFINE r == Sorted(deps, pending)
<1>1. pending \in SUBSET Versions
  BY CatalogueIsFinite
<1>2. PICK g : Visits(g, deps, pending, pending) /\ r = After(g, Catalogue, <<>>)
  BY SortedByVisit
<1>3. HandlesAll(g, deps, pending, pending)
  BY <1>2, AllHandled
<1>4. Catalogue \in Lists /\ <<>> \in Lists
  BY MigrationsAssumption DEF Lists
<1>5. InOrder(deps, pending, <<>>) /\ Elements(<<>>) = {}
  BY <1>4 DEF InOrder, Elements
<1>6. Within(Catalogue, pending, pending)
  BY DEF Within
<1> HIDE DEF r
<1>7. /\ InOrder(deps, pending, r) /\ Elements(r) \subseteq Elements(<<>>) \cup pending
      /\ Elements(Catalogue) \cap pending \subseteq Elements(r)
  <2>1. Adds(deps, pending, pending, Catalogue, <<>>, r)
    BY <1>1, <1>2, <1>3, <1>4, <1>5, <1>6, AfterHandles
  <2> QED BY <2>1 DEF Adds
<1>8. Elements(r) = pending
  BY <1>5, <1>7
<1>9. r \in Lists /\ DOMAIN r = 1 .. Len(r)
  BY <1>7, ListFacts DEF InOrder
<1>10. SortsWell(deps, pending, r)
  BY <1>7, <1>8, <1>9 DEF SortsWell, InOrder, Deps, Lists
<1> QED BY <1>10 DEF r

Working == {"up", "record", "failed", "failedrecord"}

(***************************************************************************)
(* A process at work has a list of different migrations of the catalogue,  *)
(* and the first of them is the one in hand.                               *)
(***************************************************************************)
ListOK(s) ==
    /\ s.pc \in Working => Len(s.todo) > 0
    /\ \A i \in DOMAIN s.todo : s.todo[i] \in Elements(Catalogue)
    /\ \A i, j \in DOMAIN s.todo : s.todo[i] = s.todo[j] => i = j

Typed == TypeOK /\ \A r \in Runners : ListOK(run[r])

Statuses == {"idle", "done", "up", "record", "failed", "failedrecord"}
Slot == [pc : Statuses, todo : Seq(Versions), ok : BOOLEAN]

LEMMA IdleIsTyped ==
  ASSUME NEW p \in {"idle", "done"}, NEW ok \in BOOLEAN, NEW s,
         s = [pc |-> p, todo |-> <<>>, ok |-> ok]
  PROVE  s \in Slot /\ ListOK(s)
<1>1. s.pc = p /\ s.todo = <<>> /\ DOMAIN s.todo = {}
  OBVIOUS
<1>2. p \in Statuses /\ <<>> \in Seq(Versions)
  BY DEF Statuses
<1>3. s \in Slot
  BY <1>2 DEF Slot
<1> QED
  BY <1>1, <1>3 DEF ListOK, Working

\* A step that gives r the slot s keeps the slots typed if s is.
LEMMA SlotsStayTyped ==
  ASSUME Typed, NEW r \in Runners, NEW s \in Slot, ListOK(s),
         run' = [run EXCEPT ![r] = s]
  PROVE  /\ run' \in [Runners -> Slot] /\ \A x \in Runners : ListOK(run'[x])
         /\ run'[r] = s /\ \A x \in Runners \ {r} : run'[x] = run[x]
BY DEF Typed, TypeOK, Slot, Statuses

LEMMA SlotTyped ==
  ASSUME Typed, NEW r \in Runners
  PROVE  run[r] \in Slot /\ ListOK(run[r])
BY DEF Typed, TypeOK, Slot, Statuses

\* The first of the list, and the rest of it.
LEMMA FirstAndRest ==
  ASSUME Typed, NEW r \in Runners, run[r].pc \in Working
  PROVE  /\ Head(run[r].todo) = run[r].todo[1]
         /\ Head(run[r].todo) \in Versions
         /\ 1 \in DOMAIN run[r].todo
         /\ Tail(run[r].todo) \in Seq(Versions)
         /\ Len(Tail(run[r].todo)) = Len(run[r].todo) - 1
         /\ \A i \in DOMAIN Tail(run[r].todo) :
                i + 1 \in DOMAIN run[r].todo /\ Tail(run[r].todo)[i] = run[r].todo[i + 1]
         /\ Elements(run[r].todo) = {Head(run[r].todo)} \cup Elements(Tail(run[r].todo))
<1> DEFINE todo == run[r].todo
<1>1. todo \in Seq(Versions) /\ Len(todo) > 0
  BY SlotTyped DEF Slot, ListOK
<1>2. /\ Head(todo) = todo[1] /\ Head(todo) \in Versions /\ 1 \in DOMAIN todo
      /\ Tail(todo) \in Seq(Versions) /\ Len(Tail(todo)) = Len(todo) - 1
      /\ \A i \in DOMAIN Tail(todo) : i + 1 \in DOMAIN todo /\ Tail(todo)[i] = todo[i + 1]
  BY <1>1
<1>3. ASSUME NEW i \in DOMAIN todo, i # 1
      PROVE  i - 1 \in DOMAIN Tail(todo) /\ Tail(todo)[i - 1] = todo[i]
  BY <1>1, <1>3
<1>4. Elements(todo) \subseteq {Head(todo)} \cup Elements(Tail(todo))
  <2>1. SUFFICES ASSUME NEW i \in DOMAIN todo
                 PROVE  todo[i] \in {Head(todo)} \cup Elements(Tail(todo))
    BY DEF Elements
  <2>2. CASE i = 1
    BY <2>2, <1>2
  <2>3. CASE i # 1
    BY <2>3, <1>3 DEF Elements
  <2> QED
    BY <2>2, <2>3
<1>5. {Head(todo)} \cup Elements(Tail(todo)) \subseteq Elements(todo)
  BY <1>2 DEF Elements
<1> QED
  BY <1>2, <1>4, <1>5

-----------------------------------------------------------------------------
(***************************************************************************)
(* What each action does to a slot.                                        *)
(***************************************************************************)
LEMMA EndsTyped ==
  ASSUME Typed, NEW r \in Runners, NEW ok \in BOOLEAN, Ends(r, ok)
  PROVE  /\ run' \in [Runners -> Slot] /\ \A x \in Runners : ListOK(run'[x])
         /\ run'[r].pc = "done" /\ run'[r].todo = <<>>
         /\ \A x \in Runners \ {r} : run'[x] = run[x]
<1> DEFINE s == [pc |-> "done", todo |-> <<>>, ok |-> ok]
<1>1. s \in Slot /\ ListOK(s) /\ s.pc = "done" /\ s.todo = <<>>
  BY IdleIsTyped
<1>2. run' = [run EXCEPT ![r] = s]
  BY DEF Ends
<1> QED
  BY <1>1, <1>2, SlotsStayTyped

\* Only the stage of r changes, to one at work.
LEMMA MovesTyped ==
  ASSUME Typed, NEW r \in Runners, run[r].pc \in Working, NEW p \in Working,
         run' = [run EXCEPT ![r].pc = p]
  PROVE  /\ run' \in [Runners -> Slot] /\ \A x \in Runners : ListOK(run'[x])
         /\ run'[r].pc = p /\ run'[r].todo = run[r].todo
         /\ \A x \in Runners \ {r} : run'[x] = run[x]
<1> DEFINE s == [run[r] EXCEPT !.pc = p]
<1>1. s \in Slot /\ ListOK(s) /\ s.pc = p /\ s.todo = run[r].todo
  BY SlotTyped DEF Slot, ListOK, Working, Statuses
<1>2. run' = [run EXCEPT ![r] = s]
  BY DEF Typed, TypeOK
<1> QED
  BY <1>1, <1>2, SlotsStayTyped

\* The migration in hand is struck off.
LEMMA NextTyped ==
  ASSUME Typed, NEW r \in Runners, run[r].pc \in Working, Len(run[r].todo) # 1,
         run' = [run EXCEPT ![r].pc = "up", ![r].todo = Tail(@)]
  PROVE  /\ run' \in [Runners -> Slot] /\ \A x \in Runners : ListOK(run'[x])
         /\ run'[r].pc = "up" /\ run'[r].todo = Tail(run[r].todo)
         /\ \A x \in Runners \ {r} : run'[x] = run[x]
<1> DEFINE s == [[run[r] EXCEPT !.pc = "up"] EXCEPT !.todo = Tail(run[r].todo)]
<1>1. s \in Slot /\ s.pc = "up" /\ s.todo = Tail(run[r].todo)
  BY SlotTyped, FirstAndRest DEF Slot, Statuses
<1>2. Len(s.todo) > 0
  <2>1. Len(run[r].todo) > 0 /\ Len(run[r].todo) \in Nat
    BY SlotTyped DEF Slot, ListOK
  <2>2. Len(Tail(run[r].todo)) = Len(run[r].todo) - 1
    BY FirstAndRest
  <2>3. ASSUME NEW n \in Nat, NEW k, n > 0, n # 1, k = n - 1
        PROVE  k > 0
    BY <2>3
  <2>4. Len(Tail(run[r].todo)) > 0
    BY ONLY <2>1, <2>2, <2>3, Len(run[r].todo) # 1
  <2>5. s.todo = Tail(run[r].todo)
    BY <1>1
  <2> HIDE DEF s
  <2> QED
    BY <2>4, <2>5
<1>3. \A i, j \in DOMAIN s.todo : s.todo[i] = s.todo[j] => i = j
  <2>1. SUFFICES ASSUME NEW i \in DOMAIN s.todo, NEW j \in DOMAIN s.todo, s.todo[i] = s.todo[j]
                 PROVE  i = j
    OBVIOUS
  <2>2. i \in Int /\ j \in Int
    BY <1>1, FirstAndRest DEF Slot
  <2>3. i + 1 = j + 1
    BY <1>1, <2>1, FirstAndRest, SlotTyped DEF ListOK
  <2> QED
    BY <2>2, <2>3
<1>4. \A i \in DOMAIN s.todo : s.todo[i] \in Elements(Catalogue)
  BY <1>1, FirstAndRest, SlotTyped DEF ListOK
<1>5. ListOK(s)
  BY <1>2, <1>3, <1>4 DEF ListOK
<1>6. run' = [run EXCEPT ![r] = s]
  BY DEF Typed, TypeOK
<1> QED
  BY <1>1, <1>5, <1>6, SlotsStayTyped

\* The list a call starts with.
LEMMA StartTyped ==
  ASSUME Typed, NEW r \in Runners, Pending # {}, ~Circular(dependsOn, Pending),
         run' = [run EXCEPT ![r] = [pc |-> "up", ok |-> TRUE,
                                    todo |-> Sorted(dependsOn, Pending)]]
  PROVE  /\ run' \in [Runners -> Slot] /\ \A x \in Runners : ListOK(run'[x])
         /\ run'[r].pc = "up" /\ run'[r].todo = Sorted(dependsOn, Pending)
         /\ \A x \in Runners \ {r} : run'[x] = run[x]
         /\ SortsWell(dependsOn, Pending, run'[r].todo)
<1> DEFINE todo == Sorted(dependsOn, Pending)
           s == [pc |-> "up", ok |-> TRUE, todo |-> todo]
<1>1. SortsWell(dependsOn, Pending, todo)
  <2>1. dependsOn \in Dependencies /\ Pending \in SUBSET Elements(Catalogue)
    BY DEF Typed, TypeOK, Pending
  <2> QED
    BY <2>1, SortIsRight
<1>2. todo \in Seq(Versions) /\ Elements(todo) = Pending
  BY <1>1 DEF SortsWell
<1>3. Len(todo) > 0
  <2>1. PICK v : v \in Elements(todo)
    BY <1>2
  <2>2. PICK i \in DOMAIN todo : TRUE
    BY <2>1 DEF Elements
  <2> QED
    BY <1>2, <2>2
<1>4. \A i \in DOMAIN todo : todo[i] \in Elements(Catalogue)
  BY <1>2 DEF Elements, Pending
<1>5. \A i, j \in DOMAIN todo : todo[i] = todo[j] => i = j
  BY <1>1 DEF SortsWell
<1> HIDE DEF todo
<1>6. s \in Slot /\ s.todo = todo /\ s.pc = "up"
  BY <1>2 DEF Slot, Statuses
<1>7. ListOK(s)
  BY <1>3, <1>4, <1>5, <1>6 DEF ListOK
<1> QED
  BY <1>1, <1>6, <1>7, SlotsStayTyped DEF todo

-----------------------------------------------------------------------------
(***************************************************************************)
(* Types.                                                                  *)
(***************************************************************************)
LEMMA InitTyped == Init => Typed
<1> SUFFICES ASSUME Init PROVE Typed
  OBVIOUS
<1>1. Idle \in Slot /\ ListOK(Idle)
  BY IdleIsTyped DEF Idle
<1>2. run \in [Runners -> Slot] /\ \A r \in Runners : ListOK(run[r])
  BY <1>1 DEF Init
<1>3. calls \in 0 .. MaxCalls
  BY MigrationsAssumption DEF Init
<1> QED
  BY <1>2, <1>3 DEF Init, Typed, TypeOK, Slot, Statuses

\* What is left when the slots are typed.
LEMMA RestTyped ==
  ASSUME Typed, run' \in [Runners -> Slot], \A x \in Runners : ListOK(run'[x]),
         records' \in [Versions -> {"none", "success", "failed"}],
         dependsOn' = dependsOn, calls' \in 0 .. MaxCalls,
         times' \in [Runners -> [Versions -> Nat]],
         unrecorded' \in [Runners -> [Versions -> Nat]]
  PROVE  Typed'
BY DEF Typed, TypeOK, Slot, Statuses

LEMMA ForgetsTyped ==
  ASSUME Typed, NEW r \in Runners, run[r].pc \in Working, Forgets(r)
  PROVE  unrecorded' \in [Runners -> [Versions -> Nat]]
BY FirstAndRest DEF Typed, TypeOK, Forgets

LEMMA RecordTyped ==
  ASSUME Typed, NEW r \in Runners, run[r].pc \in Working, NEW x \in {"success", "failed"},
         records' = [records EXCEPT ![Head(run[r].todo)] = x]
  PROVE  records' \in [Versions -> {"none", "success", "failed"}]
BY FirstAndRest DEF Typed, TypeOK

LEMMA NextTypedAll == Typed /\ [Next]_vars => Typed'
<1> SUFFICES ASSUME Typed, [Next]_vars PROVE Typed'
  OBVIOUS
<1>0. /\ records \in [Versions -> {"none", "success", "failed"}]
      /\ calls \in 0 .. MaxCalls
      /\ times \in [Runners -> [Versions -> Nat]]
      /\ unrecorded \in [Runners -> [Versions -> Nat]]
  BY DEF Typed, TypeOK
<1>1. ASSUME NEW r \in Runners, RunMigrations(r) PROVE Typed'
  <2>1. calls' \in 0 .. MaxCalls
    BY <1>0, <1>1, MigrationsAssumption DEF RunMigrations, Called
  <2>2. run' \in [Runners -> Slot] /\ \A x \in Runners : ListOK(run'[x])
    BY <1>1, EndsTyped, StartTyped DEF RunMigrations
  <2> QED
    BY <1>0, <1>1, <2>1, <2>2, RestTyped DEF RunMigrations
<1>2. ASSUME NEW r \in Runners, RollbackMigrations(r) PROVE Typed'
  <2>1. calls' \in 0 .. MaxCalls
    BY <1>0, <1>2, MigrationsAssumption DEF RollbackMigrations, Called
  <2>2. run' \in [Runners -> Slot] /\ \A x \in Runners : ListOK(run'[x])
    BY <1>2, EndsTyped DEF RollbackMigrations
  <2> QED
    BY <1>0, <1>2, <2>1, <2>2, RestTyped DEF RollbackMigrations
<1>3. ASSUME NEW r \in Runners, Up(r) PROVE Typed'
  <2>1. run' \in [Runners -> Slot] /\ \A x \in Runners : ListOK(run'[x])
    BY <1>3, MovesTyped DEF Up, Working
  <2>2. times' \in [Runners -> [Versions -> Nat]]
    BY <1>0, <1>3, FirstAndRest DEF Up, Working
  <2> QED
    BY <1>0, <1>3, <2>1, <2>2, RestTyped DEF Up
<1>4. ASSUME NEW r \in Runners, UpFails(r) PROVE Typed'
  <2>1. run' \in [Runners -> Slot] /\ \A x \in Runners : ListOK(run'[x])
    BY <1>4, MovesTyped DEF UpFails, Working
  <2> QED
    BY <1>0, <1>4, <2>1, RestTyped DEF UpFails
<1>5. ASSUME NEW r \in Runners, RecordSuccess(r) PROVE Typed'
  <2>1. run[r].pc \in Working
    BY <1>5 DEF RecordSuccess, Working
  <2>2. run' \in [Runners -> Slot] /\ \A x \in Runners : ListOK(run'[x])
    BY <1>5, <2>1, EndsTyped, NextTyped DEF RecordSuccess
  <2>3. records' \in [Versions -> {"none", "success", "failed"}]
    BY <1>5, <2>1, RecordTyped DEF RecordSuccess
  <2> QED
    BY <1>0, <1>5, <2>2, <2>3, RestTyped DEF RecordSuccess
<1>6. ASSUME NEW r \in Runners, RecordSuccessFails(r) PROVE Typed'
  <2>1. run[r].pc \in Working
    BY <1>6 DEF RecordSuccessFails, Working
  <2>2. run' \in [Runners -> Slot] /\ \A x \in Runners : ListOK(run'[x])
    BY <1>6, <2>1, MovesTyped DEF RecordSuccessFails, Working
  <2>3. records' \in [Versions -> {"none", "success", "failed"}]
    BY <1>0, <1>6, <2>1, RecordTyped DEF RecordSuccessFails
  <2> QED
    BY <1>0, <1>6, <2>2, <2>3, RestTyped DEF RecordSuccessFails
<1>7. ASSUME NEW r \in Runners, RecordFailure(r) PROVE Typed'
  <2>1. run[r].pc \in Working
    BY <1>7 DEF RecordFailure, Working
  <2>2. run' \in [Runners -> Slot] /\ \A x \in Runners : ListOK(run'[x])
    BY <1>7, EndsTyped DEF RecordFailure
  <2>3. records' \in [Versions -> {"none", "success", "failed"}]
    BY <1>7, <2>1, RecordTyped DEF RecordFailure
  <2> QED
    BY <1>0, <1>7, <2>2, <2>3, RestTyped DEF RecordFailure
<1>8. ASSUME NEW r \in Runners, RecordFailureFails(r) PROVE Typed'
  <2>1. run[r].pc \in Working
    BY <1>8 DEF RecordFailureFails, Working
  <2>2. run' \in [Runners -> Slot] /\ \A x \in Runners : ListOK(run'[x])
    BY <1>8, EndsTyped DEF RecordFailureFails
  <2> QED
    BY <1>0, <1>8, <2>1, <2>2, ForgetsTyped, RestTyped DEF RecordFailureFails
<1>9. ASSUME NEW r \in Runners, Crash(r) PROVE Typed'
  <2>1. run[r].pc \in Working
    BY <1>9 DEF Crash, Working
  <2>2. Idle \in Slot /\ ListOK(Idle)
    BY IdleIsTyped DEF Idle
  <2>3. run' \in [Runners -> Slot] /\ \A x \in Runners : ListOK(run'[x])
    BY <1>9, <2>2, SlotsStayTyped DEF Crash
  <2> QED
    BY <1>0, <1>9, <2>1, <2>3, ForgetsTyped, RestTyped DEF Crash
<1>10. CASE UNCHANGED vars
  BY <1>10 DEF vars, Typed, TypeOK, ListOK
<1> QED
  BY <1>1, <1>2, <1>3, <1>4, <1>5, <1>6, <1>7, <1>8, <1>9, <1>10 DEF Next

(***************************************************************************)
(* The table has a status for each version and a process a list of them.   *)
(***************************************************************************)
THEOREM TypeCorrect == Spec => []TypeOK
<1>1. Typed => TypeOK
  BY DEF Typed
<1> QED
  BY <1>1, InitTyped, NextTypedAll, PTL DEF Spec

LEMMA TypedAlways == Spec => []Typed
BY InitTyped, NextTypedAll, PTL DEF Spec

-----------------------------------------------------------------------------
(***************************************************************************)
(* Once for each process.  A completed migration that has no record yet is *)
(* the one in hand; any other that is without a record, or still to do, is *)
(* as often without a trace as it was completed.                           *)
(***************************************************************************)
InHand(r) == run[r].pc \in {"record", "failedrecord"}

OnceFor(r, v) ==
    /\ times[r][v] <= 1 + unrecorded[r][v]
    /\ records[v] = "none" \/ v \in Elements(run[r].todo) =>
            (InHand(r) /\ v = Head(run[r].todo)) \/ times[r][v] <= unrecorded[r][v]

OnceInv == \A r \in Runners, v \in Versions : OnceFor(r, v)

LEMMA InitOnce == Init => OnceInv
BY DEF Init, OnceInv, OnceFor, Idle, Elements

\* Records are never taken back, so that the others' counts stay right.
LEMMA OthersOnce ==
  ASSUME Typed, OnceInv, NEW r \in Runners,
         \A x \in Runners \ {r} : /\ run'[x] = run[x] /\ times'[x] = times[x]
                                  /\ unrecorded'[x] = unrecorded[x],
         \A v \in Versions : records'[v] = "none" => records[v] = "none",
         \A v \in Versions : OnceFor(r, v)'
  PROVE  OnceInv'
<1>1. ASSUME NEW x \in Runners \ {r}, NEW v \in Versions PROVE OnceFor(x, v)'
  BY <1>1 DEF OnceInv, OnceFor, InHand
<1> QED
  BY <1>1 DEF OnceInv

\* The migration in hand is not in the rest of the list.
LEMMA HeadOnce ==
  ASSUME Typed, NEW r \in Runners, run[r].pc \in Working
  PROVE  Head(run[r].todo) \notin Elements(Tail(run[r].todo))
<1>1. SUFFICES ASSUME NEW i \in DOMAIN Tail(run[r].todo), Tail(run[r].todo)[i] = Head(run[r].todo)
               PROVE  FALSE
  BY DEF Elements
<1>2. i + 1 \in DOMAIN run[r].todo /\ run[r].todo[i + 1] = run[r].todo[1] /\ 1 \in DOMAIN run[r].todo
  BY <1>1, FirstAndRest
<1>3. i + 1 = 1
  BY <1>2, SlotTyped DEF ListOK
<1>4. i \in 1 .. Len(Tail(run[r].todo)) /\ Tail(run[r].todo) \in Seq(Versions)
  BY FirstAndRest
<1> QED
  BY <1>3, <1>4

\* A process that stops without a record of the migration in hand counts it.
LEMMA ForgetsOnce ==
  ASSUME Typed, OnceInv, NEW r \in Runners, run[r].pc \in Working, Forgets(r),
         times' = times, records' = records, run'[r].todo = <<>>
  PROVE  /\ \A x \in Runners \ {r} : unrecorded'[x] = unrecorded[x]
         /\ \A v \in Versions : OnceFor(r, v)'
<1> DEFINE h == Head(run[r].todo)
<1>1. h \in Versions
  BY FirstAndRest
<1>2. unrecorded \in [Runners -> [Versions -> Nat]] /\ times \in [Runners -> [Versions -> Nat]]
  BY DEF Typed, TypeOK
<1>3. Elements(run'[r].todo) = {}
  BY DEF Elements
<1>4. CASE InHand(r)
  <2>1. unrecorded' = [unrecorded EXCEPT ![r][h] = @ + 1]
    BY <1>4 DEF Forgets, InHand
  <2> HIDE DEF h
  <2>2. \A x \in Runners \ {r} : unrecorded'[x] = unrecorded[x]
    BY <2>1, <1>2
  <2>3. \A v \in Versions : unrecorded'[r][v] = IF v = h THEN unrecorded[r][h] + 1 ELSE unrecorded[r][v]
    BY <2>1, <1>1, <1>2
  <2>4. ASSUME NEW v \in Versions PROVE OnceFor(r, v)'
    <3>1. times[r][v] \in Nat /\ unrecorded[r][v] \in Nat /\ times[r][v] <= 1 + unrecorded[r][v]
      BY <1>2 DEF OnceInv, OnceFor
    <3>2. CASE v = h
      <4>1. unrecorded'[r][v] = unrecorded[r][v] + 1
        BY <3>2, <2>3
      <4>2. times'[r][v] <= unrecorded'[r][v] /\ times'[r][v] <= 1 + unrecorded'[r][v]
        BY <3>1, <4>1
      <4> QED
        BY <4>2 DEF OnceFor
    <3>3. CASE v # h
      BY <3>1, <3>3, <2>3, <1>3 DEF OnceFor, OnceInv, h
    <3> QED
      BY <3>2, <3>3
  <2> QED
    BY <2>2, <2>4
<1>5. CASE ~InHand(r)
  <2>1. unrecorded' = unrecorded
    BY <1>5 DEF Forgets, InHand
  <2>2. ASSUME NEW v \in Versions PROVE OnceFor(r, v)'
    BY <1>3, <1>5, <2>1 DEF OnceFor, OnceInv
  <2> QED
    BY <2>1, <2>2
<1> QED
  BY <1>4, <1>5

LEMMA NextOnce == Typed /\ OnceInv /\ [Next]_vars => OnceInv'
<1> SUFFICES ASSUME Typed, OnceInv, [Next]_vars PROVE OnceInv'
  OBVIOUS
<1>0. /\ records \in [Versions -> {"none", "success", "failed"}]
      /\ times \in [Runners -> [Versions -> Nat]]
      /\ unrecorded \in [Runners -> [Versions -> Nat]]
  BY DEF Typed, TypeOK
<1>e. Elements(<<>>) = {}
  BY DEF Elements
<1>1. ASSUME NEW r \in Runners, RunMigrations(r) PROVE OnceInv'
  <2>0. UNCHANGED <<records, times, unrecorded>> /\ ~InHand(r)
    BY <1>1 DEF RunMigrations, Called, InHand
  <2>1. \A x \in Runners \ {r} : run'[x] = run[x]
    BY <1>1, EndsTyped, StartTyped DEF RunMigrations
  <2>2. Elements(run'[r].todo) \subseteq Pending
    BY <1>1, <1>e, EndsTyped, StartTyped DEF RunMigrations, SortsWell
  <2>3. ASSUME NEW v \in Versions PROVE OnceFor(r, v)'
    BY <2>0, <2>2 DEF OnceFor, OnceInv, Pending
  <2> QED
    BY <2>0, <2>1, <2>3, OthersOnce
<1>2. ASSUME NEW r \in Runners, RollbackMigrations(r) PROVE OnceInv'
  <2>0. UNCHANGED <<records, times, unrecorded>> /\ ~InHand(r)
    BY <1>2 DEF RollbackMigrations, Called, InHand
  <2>1. run'[r].todo = <<>> /\ \A x \in Runners \ {r} : run'[x] = run[x]
    BY <1>2, EndsTyped DEF RollbackMigrations
  <2>2. ASSUME NEW v \in Versions PROVE OnceFor(r, v)'
    BY <2>0, <2>1, <1>e DEF OnceFor, OnceInv
  <2> QED
    BY <2>0, <2>1, <2>2, OthersOnce
<1>3. ASSUME NEW r \in Runners, Up(r) PROVE OnceInv'
  <2> DEFINE h == Head(run[r].todo)
  <2>0. UNCHANGED <<records, unrecorded>> /\ ~InHand(r) /\ run[r].pc \in Working
    BY <1>3 DEF Up, InHand, Working
  <2>1. /\ run'[r].pc = "record" /\ run'[r].todo = run[r].todo
        /\ \A x \in Runners \ {r} : run'[x] = run[x]
    BY <1>3, <2>0, MovesTyped DEF Up, Working
  <2>2. h \in Versions /\ h \in Elements(run[r].todo)
    BY <2>0, FirstAndRest
  <2>3. times' = [times EXCEPT ![r][h] = @ + 1]
    BY <1>3 DEF Up
  <2>4. \A x \in Runners \ {r} : times'[x] = times[x]
    BY <2>3, <1>0
  <2>5. ASSUME NEW v \in Versions PROVE OnceFor(r, v)'
    <3>1. times[r][v] \in Nat /\ unrecorded[r][v] \in Nat /\ OnceFor(r, v)
      BY <1>0 DEF OnceInv
    <3>2. CASE v = h
      <4>1. times[r][v] <= unrecorded[r][v] /\ times'[r][v] = times[r][v] + 1
        BY <3>1, <3>2, <2>0, <2>2, <2>3, <1>0 DEF OnceFor
      <4>2. InHand(r)' /\ v = Head(run'[r].todo)
        BY <3>2, <2>1 DEF InHand
      <4> QED
        BY <3>1, <4>1, <4>2, <2>0 DEF OnceFor
    <3>3. CASE v # h
      <4>1. times'[r][v] = times[r][v]
        BY <3>3, <2>2, <2>3, <1>0
      <4> QED
        BY <3>1, <4>1, <2>0, <2>1 DEF OnceFor
    <3> QED
      BY <3>2, <3>3
  <2> QED
    BY <2>0, <2>1, <2>4, <2>5, OthersOnce
<1>4. ASSUME NEW r \in Runners, UpFails(r) PROVE OnceInv'
  <2>0. UNCHANGED <<records, times, unrecorded>> /\ ~InHand(r) /\ run[r].pc \in Working
    BY <1>4 DEF UpFails, InHand, Working
  <2>1. run'[r].todo = run[r].todo /\ \A x \in Runners \ {r} : run'[x] = run[x]
    BY <1>4, <2>0, MovesTyped DEF UpFails, Working
  <2>2. ASSUME NEW v \in Versions PROVE OnceFor(r, v)'
    BY <2>0, <2>1 DEF OnceFor, OnceInv
  <2> QED
    BY <2>0, <2>1, <2>2, OthersOnce
<1>5. ASSUME NEW r \in Runners, RecordSuccess(r) PROVE OnceInv'
  <2> DEFINE h == Head(run[r].todo)
  <2>0. UNCHANGED <<times, unrecorded>> /\ run[r].pc \in Working
    BY <1>5 DEF RecordSuccess, Working
  <2>1. h \in Versions /\ records' = [records EXCEPT ![h] = "success"]
    BY <1>5, <2>0, FirstAndRest DEF RecordSuccess
  <2>2. /\ run'[r].todo = <<>> \/ run'[r].todo = Tail(run[r].todo)
        /\ \A x \in Runners \ {r} : run'[x] = run[x]
    BY <1>5, <2>0, EndsTyped, NextTyped DEF RecordSuccess
  <2>3. Elements(run'[r].todo) \subseteq Elements(run[r].todo) \ {h}
    BY <2>0, <2>2, <1>e, FirstAndRest, HeadOnce
  <2>4. records'[h] = "success" /\ \A v \in Versions : records'[v] = "none" => records[v] = "none"
    BY <2>1, <1>0
  <2>5. ASSUME NEW v \in Versions PROVE OnceFor(r, v)'
    <3>1. OnceFor(r, v)
      BY DEF OnceInv
    <3> HIDE DEF h
    <3>2. v # h \/ ~(records'[v] = "none" \/ v \in Elements(run'[r].todo))
      BY <2>3, <2>4
    <3> QED
      BY <3>1, <3>2, <2>0, <2>3, <2>4 DEF OnceFor, h
  <2> QED
    BY <2>0, <2>2, <2>4, <2>5, OthersOnce
<1>6. ASSUME NEW r \in Runners, RecordSuccessFails(r) PROVE OnceInv'
  <2>0. UNCHANGED <<times, unrecorded>> /\ run[r].pc \in Working /\ InHand(r)
    BY <1>6 DEF RecordSuccessFails, InHand, Working
  <2>1. /\ run'[r].pc = "failedrecord" /\ run'[r].todo = run[r].todo
        /\ \A x \in Runners \ {r} : run'[x] = run[x]
    BY <1>6, <2>0, MovesTyped DEF RecordSuccessFails, Working
  <2>2. \A v \in Versions : records'[v] = "none" => records[v] = "none"
    BY <1>0, <1>6, <2>0, FirstAndRest DEF RecordSuccessFails
  <2>3. ASSUME NEW v \in Versions PROVE OnceFor(r, v)'
    BY <2>0, <2>1, <2>2 DEF OnceFor, OnceInv, InHand
  <2> QED
    BY <2>0, <2>1, <2>2, <2>3, OthersOnce
<1>7. ASSUME NEW r \in Runners, RecordFailure(r) PROVE OnceInv'
  <2> DEFINE h == Head(run[r].todo)
  <2>0. UNCHANGED <<times, unrecorded>> /\ run[r].pc \in Working
    BY <1>7 DEF RecordFailure, Working
  <2>1. h \in Versions /\ records' = [records EXCEPT ![h] = "failed"]
    BY <1>7, <2>0, FirstAndRest DEF RecordFailure
  <2>2. run'[r].todo = <<>> /\ \A x \in Runners \ {r} : run'[x] = run[x]
    BY <1>7, EndsTyped DEF RecordFailure
  <2>3. records'[h] = "failed" /\ \A v \in Versions : records'[v] = "none" => records[v] = "none"
    BY <2>1, <1>0
  <2>4. ASSUME NEW v \in Versions PROVE OnceFor(r, v)'
    <3>1. OnceFor(r, v)
      BY DEF OnceInv
    <3> HIDE DEF h
    <3>2. v \notin Elements(run'[r].todo) /\ (v = h => records'[v] # "none")
      BY <2>2, <2>3, <1>e
    <3> QED
      BY <3>1, <3>2, <2>0, <2>3 DEF OnceFor, h
  <2> QED
    BY <2>0, <2>2, <2>3, <2>4, OthersOnce
<1>8. ASSUME NEW r \in Runners, RecordFailureFails(r) PROVE OnceInv'
  <2>0. UNCHANGED <<records, times>> /\ run[r].pc \in Working
    BY <1>8 DEF RecordFailureFails, Working
  <2>1. run'[r].todo = <<>> /\ \A x \in Runners \ {r} : run'[x] = run[x]
    BY <1>8, EndsTyped DEF RecordFailureFails
  <2> QED
    BY <1>8, <2>0, <2>1, ForgetsOnce, OthersOnce DEF RecordFailureFails
<1>9. ASSUME NEW r \in Runners, Crash(r) PROVE OnceInv'
  <2>0. UNCHANGED <<records, times>> /\ run[r].pc \in Working
    BY <1>9 DEF Crash, Working
  <2>1. run'[r].todo = <<>> /\ \A x \in Runners \ {r} : run'[x] = run[x]
    BY <1>9 DEF Crash, Idle, Typed, TypeOK
  <2> QED
    BY <1>9, <2>0, <2>1, ForgetsOnce, OthersOnce DEF Crash
<1>10. CASE UNCHANGED vars
  BY <1>10 DEF vars, OnceInv, OnceFor, InHand
<1> QED
  BY <1>1, <1>2, <1>3, <1>4, <1>5, <1>6, <1>7, <1>8, <1>9, <1>10 DEF Next

(***************************************************************************)
(* getPendingMigrations and recordMigration: one process completes a       *)
(* migration once, and again only as often as it stopped between the       *)
(* migration and its record, for any number of processes at work.          *)
(***************************************************************************)
THEOREM OnceForEachProcess == Spec => []OncePerProcess
<1>1. OnceInv => OncePerProcess
  BY DEF OnceInv, OnceFor, OncePerProcess
<1> QED
  BY <1>1, InitOnce, NextOnce, TypedAlways, PTL DEF Spec

-----------------------------------------------------------------------------
(***************************************************************************)
(* Order, and nothing left out.  A migration is settled when it was        *)
(* applied or is recorded as failed, and stays so, as the one who records  *)
(* a success has applied it.  All that a process at work no longer has in  *)
(* its list is settled, and so is what a migration of the list depends on, *)
(* unless it comes before it there.                                        *)
(***************************************************************************)
Settled(v) == Applied(v) \/ records[v] = "failed"
Listed == Elements(Catalogue)

OrderFor(s) ==
    s.pc \in Working =>
        /\ \A v \in Listed \ Elements(s.todo) : Settled(v)
        /\ \A i \in DOMAIN s.todo : \A d \in Elements(dependsOn[s.todo[i]]) \cap Listed :
                Settled(d) \/ \E j \in 1 .. i - 1 : s.todo[j] = d

OrderInv ==
    /\ \A v \in Versions : records[v] = "success" => Applied(v)
    /\ \A r \in Runners : InHand(r) => Applied(Head(run[r].todo))
    /\ \A r \in Runners : OrderFor(run[r])
    /\ DependenciesFirst

LEMMA InitOrder == Init => OrderInv
BY DEF Init, OrderInv, OrderFor, InHand, Idle, Applied, DependenciesFirst, Working

LEMMA ListedAreVersions == Listed \subseteq Versions
BY MigrationsAssumption DEF Listed, Elements

\* What a step does to the two tables: more is applied and no success is made up.
Grows ==
    /\ dependsOn' = dependsOn
    /\ \A v \in Versions : Applied(v) => Applied(v)'
    /\ \A v \in Versions : records'[v] = records[v] \/ records'[v] = "failed"
                                \/ (records'[v] = "success" /\ Applied(v))

LEMMA SettledStays ==
  ASSUME Grows, OrderInv, NEW v \in Versions, Settled(v)
  PROVE  Settled(v)'
BY DEF Grows, Settled, OrderInv

LEMMA SuccessStays ==
  ASSUME Grows, OrderInv
  PROVE  \A v \in Versions : records'[v] = "success" => Applied(v)'
BY DEF Grows, OrderInv

\* The order of a list that stays as it is, or loses its settled first.
LEMMA OrderStays ==
  ASSUME Grows, OrderInv, NEW s, NEW u, OrderFor(s), s.pc \in Working, u.todo = s.todo
  PROVE  OrderFor(u)'
<1>1. ASSUME NEW v \in Listed \ Elements(u.todo) PROVE Settled(v)'
  BY <1>1, SettledStays, ListedAreVersions DEF OrderFor
<1>2. ASSUME NEW i \in DOMAIN u.todo, NEW d \in Elements(dependsOn'[u.todo[i]]) \cap Listed
      PROVE  Settled(d)' \/ \E j \in 1 .. i - 1 : u.todo[j] = d
  <2>1. Settled(d) \/ \E j \in 1 .. i - 1 : u.todo[j] = d
    BY <1>2 DEF OrderFor, Grows
  <2> QED
    BY <2>1, SettledStays, ListedAreVersions
<1> QED
  BY <1>1, <1>2 DEF OrderFor, Listed, Elements

LEMMA OrderOfRest ==
  ASSUME Typed, Grows, OrderInv, NEW r \in Runners, run[r].pc \in Working,
         Settled(Head(run[r].todo)), NEW u, u.todo = Tail(run[r].todo)
  PROVE  OrderFor(u)'
<1> DEFINE todo == run[r].todo
           rest == Tail(run[r].todo)
<1>0. /\ OrderFor(run[r]) /\ Elements(todo) = {Head(todo)} \cup Elements(rest)
      /\ rest \in Seq(Versions) /\ Head(todo) = todo[1] /\ Head(todo) \in Versions
      /\ \A i \in DOMAIN rest : i + 1 \in DOMAIN todo /\ rest[i] = todo[i + 1]
      /\ Len(rest) = Len(todo) - 1 /\ todo \in Seq(Versions)
  BY FirstAndRest, SlotTyped DEF OrderInv, Slot
<1>1. ASSUME NEW v \in Listed \ Elements(u.todo) PROVE Settled(v)'
  <2>1. v = Head(todo) \/ v \in Listed \ Elements(todo)
    BY <1>0
  <2>2. Settled(v)
    BY <2>1, <1>0 DEF OrderFor
  <2> QED
    BY <2>2, SettledStays, ListedAreVersions
<1>2. ASSUME NEW i \in DOMAIN u.todo, NEW d \in Elements(dependsOn'[u.todo[i]]) \cap Listed
      PROVE  Settled(d)' \/ \E j \in 1 .. i - 1 : u.todo[j] = d
  <2>0. i \in 1 .. Len(rest) /\ u.todo[i] = todo[i + 1] /\ i + 1 \in DOMAIN todo
    BY <1>0
  <2>1. Settled(d) \/ \E j \in 1 .. i : todo[j] = d
    <3>1. d \in Elements(dependsOn[todo[i + 1]]) \cap Listed /\ (i + 1) - 1 = i
      BY <2>0 DEF Grows
    <3>2. Settled(d) \/ \E j \in 1 .. (i + 1) - 1 : todo[j] = d
      BY <3>1, <2>0, <1>0 DEF OrderFor
    <3> QED
      BY <3>1, <3>2
  <2>2. CASE Settled(d)
    BY <2>2, SettledStays, ListedAreVersions
  <2>3. ASSUME NEW j \in 1 .. i, todo[j] = d
        PROVE  Settled(d)' \/ \E k \in 1 .. i - 1 : u.todo[k] = d
    <3>1. CASE j = 1
      BY <3>1, <2>3, <1>0, SettledStays
    <3>2. CASE j # 1
      <4>1. j - 1 \in 1 .. i - 1 /\ j - 1 \in DOMAIN rest /\ (j - 1) + 1 = j
        BY <3>2, <2>0, <1>0
      <4>2. rest[j - 1] = d
        BY <4>1, <2>3, <1>0
      <4> QED
        BY <4>1, <4>2
    <3> QED
      BY <3>1, <3>2
  <2> QED
    BY <2>1, <2>2, <2>3
<1> QED
  BY <1>1, <1>2 DEF OrderFor, Listed, Elements

\* A list that was just sorted.
LEMMA OrderOfSorted ==
  ASSUME Typed, OrderInv, Grows, NEW u,
         SortsWell(dependsOn, Pending, u.todo)
  PROVE  OrderFor(u)'
<1>1. ASSUME NEW v \in Listed, v \notin Pending PROVE Settled(v)'
  <2>1. records[v] \in {"success", "failed"}
    BY <1>1, ListedAreVersions DEF Pending, Typed, TypeOK, Listed
  <2>2. Settled(v)
    BY <2>1, ListedAreVersions DEF Settled, OrderInv
  <2> QED
    BY <2>2, SettledStays, ListedAreVersions
<1>2. \A v \in Listed \ Elements(u.todo) : Settled(v)'
  BY <1>1 DEF SortsWell
<1>3. ASSUME NEW i \in DOMAIN u.todo, NEW d \in Elements(dependsOn'[u.todo[i]]) \cap Listed
      PROVE  Settled(d)' \/ \E j \in 1 .. i - 1 : u.todo[j] = d
  BY <1>1, <1>3 DEF SortsWell, Grows
<1> QED
  BY <1>2, <1>3 DEF OrderFor, Listed, Elements

\* What the other processes rely on stays, whatever one of them does.
LEMMA OthersOrder ==
  ASSUME Typed, OrderInv, Grows, NEW r \in Runners,
         \A x \in Runners \ {r} : run'[x] = run[x],
         InHand(r)' => Applied(Head(run[r].todo))',
         OrderFor(run[r])', DependenciesFirst'
  PROVE  OrderInv'
<1>1. \A v \in Versions : records'[v] = "success" => Applied(v)'
  BY SuccessStays
<1>2. ASSUME NEW x \in Runners, InHand(x)' PROVE Applied(Head(run[x].todo))'
  <2>1. CASE x = r
    BY <1>2, <2>1
  <2>2. CASE x # r
    <3>1. InHand(x) /\ run'[x] = run[x]
      BY <1>2, <2>2 DEF InHand
    <3>2. Applied(Head(run[x].todo)) /\ Head(run[x].todo) \in Versions
      BY <3>1, FirstAndRest DEF OrderInv, InHand, Working
    <3> QED
      BY <3>1, <3>2 DEF Grows, Applied
  <2> QED
    BY <2>1, <2>2
<1>3. ASSUME NEW x \in Runners PROVE OrderFor(run[x])'
  <2>1. CASE x # r /\ run[x].pc \in Working
    BY <2>1, OrderStays DEF OrderInv
  <2>2. CASE x # r /\ run[x].pc \notin Working
    BY <2>2 DEF OrderFor
  <2> QED
    BY <2>1, <2>2
<1> QED
  BY <1>1, <1>2, <1>3 DEF OrderInv

\* A step that applies nothing keeps the dependencies first.
LEMMA FirstStays ==
  ASSUME OrderInv, Grows, times' = times
  PROVE  DependenciesFirst'
<1> SUFFICES ASSUME NEW v \in Versions, Applied(v)',
                    NEW d \in Elements(dependsOn'[v]) \cap Listed
             PROVE  Settled(d)'
  BY DEF DependenciesFirst, Settled, Listed, Elements
<1>1. Settled(d)
  BY DEF Grows, Applied, OrderInv, DependenciesFirst, Settled, Listed
<1> QED
  BY <1>1, SettledStays, ListedAreVersions

\* Nothing changes but a process and, perhaps, the record of what it has in hand.
LEMMA SameGrows ==
  ASSUME times' = times, dependsOn' = dependsOn, records' = records
  PROVE  Grows
BY DEF Grows, Applied

LEMMA RecordGrows ==
  ASSUME Typed, OrderInv, NEW r \in Runners, run[r].pc \in Working, NEW x \in {"success", "failed"},
         x = "success" => InHand(r),
         times' = times, dependsOn' = dependsOn,
         records' = [records EXCEPT ![Head(run[r].todo)] = x]
  PROVE  Grows
<1> DEFINE h == Head(run[r].todo)
<1>1. h \in Versions /\ (x = "success" => Applied(h))
  BY FirstAndRest DEF OrderInv
<1>2. records \in [Versions -> {"none", "success", "failed"}]
  BY DEF Typed, TypeOK
<1> HIDE DEF h
<1>3. \A v \in Versions : records'[v] = IF v = h THEN x ELSE records[v]
  BY <1>1, <1>2 DEF h
<1>4. \A v \in Versions : records'[v] = records[v] \/ records'[v] = "failed"
                            \/ (records'[v] = "success" /\ Applied(v))
  BY <1>1, <1>3
<1>5. \A v \in Versions : Applied(v) => Applied(v)'
  BY DEF Applied
<1> QED
  BY <1>4, <1>5 DEF Grows

\* A process that has ended relies on nothing.
LEMMA EndedOrder ==
  ASSUME Typed, OrderInv, Grows, times' = times, NEW r \in Runners,
         \A x \in Runners \ {r} : run'[x] = run[x], run'[r].pc \in {"idle", "done"}
  PROVE  OrderInv'
<1>1. OrderFor(run[r])' /\ ~InHand(r)'
  BY DEF OrderFor, InHand, Working
<1> QED
  BY <1>1, OthersOrder, FirstStays

\* A process that goes on with the same list.
LEMMA SameListOrder ==
  ASSUME Typed, OrderInv, Grows, NEW r \in Runners, run[r].pc \in Working,
         \A x \in Runners \ {r} : run'[x] = run[x], run'[r].todo = run[r].todo,
         InHand(r)' => Applied(Head(run[r].todo))', DependenciesFirst'
  PROVE  OrderInv'
<1>1. OrderFor(run[r])'
  BY OrderStays DEF OrderInv
<1> QED
  BY <1>1, OthersOrder

LEMMA NextOrder == Typed /\ OrderInv /\ [Next]_vars => OrderInv'
<1> SUFFICES ASSUME Typed, OrderInv, [Next]_vars PROVE OrderInv'
  OBVIOUS
<1>0. times \in [Runners -> [Versions -> Nat]]
  BY DEF Typed, TypeOK
<1>1. ASSUME NEW r \in Runners, RunMigrations(r) PROVE OrderInv'
  <2>1. Grows /\ times' = times
    BY <1>1, SameGrows DEF RunMigrations
  <2>2. CASE \E ok \in BOOLEAN : Ends(r, ok)
    BY <2>1, <2>2, EndsTyped, EndedOrder
  <2>3. CASE /\ Pending # {} /\ ~Circular(dependsOn, Pending)
             /\ run' = [run EXCEPT ![r] = [pc |-> "up", ok |-> TRUE,
                                           todo |-> Sorted(dependsOn, Pending)]]
    <3>1. /\ run'[r].pc = "up" /\ SortsWell(dependsOn, Pending, run'[r].todo)
          /\ \A x \in Runners \ {r} : run'[x] = run[x]
      BY <2>3, StartTyped
    <3>2. OrderFor(run[r])' /\ ~InHand(r)'
      BY <2>1, <3>1, OrderOfSorted DEF InHand
    <3> QED
      BY <2>1, <3>1, <3>2, OthersOrder, FirstStays
  <2> QED
    BY <1>1, <2>2, <2>3 DEF RunMigrations
<1>2. ASSUME NEW r \in Runners, RollbackMigrations(r) PROVE OrderInv'
  <2>1. Grows /\ times' = times
    BY <1>2, SameGrows DEF RollbackMigrations
  <2> QED
    BY <1>2, <2>1, EndsTyped, EndedOrder DEF RollbackMigrations
<1>3. ASSUME NEW r \in Runners, Up(r) PROVE OrderInv'
  <2> DEFINE h == Head(run[r].todo)
  <2>1. run[r].pc \in Working /\ records' = records /\ dependsOn' = dependsOn
    BY <1>3 DEF Up, Working
  <2>2. run'[r].todo = run[r].todo /\ \A x \in Runners \ {r} : run'[x] = run[x]
    BY <1>3, <2>1, MovesTyped DEF Up, Working
  <2>3. h \in Versions /\ h = run[r].todo[1] /\ 1 \in DOMAIN run[r].todo
    BY <2>1, FirstAndRest
  <2>4. times' = [times EXCEPT ![r][h] = @ + 1]
    BY <1>3 DEF Up
  <2> HIDE DEF h
  <2>5. /\ times'[r][h] = times[r][h] + 1
        /\ \A x \in Runners, v \in Versions : x # r \/ v # h => times'[x][v] = times[x][v]
    BY <2>3, <2>4, <1>0
  <2>6. /\ \E x \in Runners : times'[x][h] > 0
        /\ \A v \in Versions : Applied(v) => Applied(v)'
        /\ \A v \in Versions : Applied(v)' => Applied(v) \/ v = h
    <3>1. \A x \in Runners, v \in Versions : times[x][v] \in Nat
      BY <1>0
    <3>2. times'[r][h] > 0
      BY <2>3, <2>5, <3>1
    <3>3. ASSUME NEW v \in Versions, Applied(v) PROVE Applied(v)'
      BY <2>5, <3>2, <3>3 DEF Applied
    <3>4. ASSUME NEW v \in Versions, Applied(v)', v # h PROVE Applied(v)
      BY <2>5, <3>4 DEF Applied
    <3> QED
      BY <3>2, <3>3, <3>4
  <2>7. Grows
    BY <2>1, <2>6 DEF Grows
  <2>8. \A d \in Elements(dependsOn[h]) \cap Listed : Settled(d)
    BY <2>1, <2>3 DEF OrderInv, OrderFor
  <2>9. DependenciesFirst'
    <3>1. SUFFICES ASSUME NEW v \in Versions, Applied(v)',
                          NEW d \in Elements(dependsOn'[v]) \cap Listed
                   PROVE  Settled(d)'
      BY DEF DependenciesFirst, Settled, Listed, Elements
    <3>2. Settled(d)
      BY <2>1, <2>6, <2>8, <3>1 DEF OrderInv, DependenciesFirst, Settled, Listed
    <3> QED
      BY <2>7, <3>2, SettledStays, ListedAreVersions
  <2> QED
    BY <2>1, <2>2, <2>6, <2>7, <2>9, SameListOrder DEF h, Applied
<1>4. ASSUME NEW r \in Runners, UpFails(r) PROVE OrderInv'
  <2>1. run[r].pc \in Working /\ Grows /\ times' = times
    BY <1>4, SameGrows DEF UpFails, Working
  <2>2. /\ run'[r].pc = "failed" /\ run'[r].todo = run[r].todo
        /\ \A x \in Runners \ {r} : run'[x] = run[x]
    BY <1>4, <2>1, MovesTyped DEF UpFails, Working
  <2> QED
    BY <2>1, <2>2, SameListOrder, FirstStays DEF InHand
<1>5. ASSUME NEW r \in Runners, RecordSuccess(r) PROVE OrderInv'
  <2>1. run[r].pc \in Working /\ InHand(r) /\ times' = times
    BY <1>5 DEF RecordSuccess, Working, InHand
  <2>2. Grows
    BY <1>5, <2>1, RecordGrows DEF RecordSuccess
  <2>3. CASE Ends(r, TRUE)
    BY <2>1, <2>2, <2>3, EndsTyped, EndedOrder
  <2>4. CASE Len(run[r].todo) # 1 /\ run' = [run EXCEPT ![r].pc = "up", ![r].todo = Tail(@)]
    <3>1. /\ run'[r].pc = "up" /\ run'[r].todo = Tail(run[r].todo)
          /\ \A x \in Runners \ {r} : run'[x] = run[x]
      BY <2>1, <2>4, NextTyped
    <3>2. Settled(Head(run[r].todo))
      BY <2>1 DEF OrderInv, Settled
    <3>3. OrderFor(run[r])' /\ ~InHand(r)'
      BY <2>1, <2>2, <3>1, <3>2, OrderOfRest DEF InHand
    <3> QED
      BY <2>1, <2>2, <3>1, <3>3, OthersOrder, FirstStays
  <2> QED
    BY <1>5, <2>3, <2>4 DEF RecordSuccess
<1>6. ASSUME NEW r \in Runners, RecordSuccessFails(r) PROVE OrderInv'
  <2>1. run[r].pc \in Working /\ InHand(r) /\ times' = times
    BY <1>6 DEF RecordSuccessFails, Working, InHand
  <2>2. Grows
    BY <1>6, <2>1, RecordGrows, SameGrows DEF RecordSuccessFails
  <2>3. run'[r].todo = run[r].todo /\ \A x \in Runners \ {r} : run'[x] = run[x]
    BY <1>6, <2>1, MovesTyped DEF RecordSuccessFails, Working
  <2>4. Applied(Head(run[r].todo))'
    BY <2>1, <2>3 DEF OrderInv, Applied
  <2> QED
    BY <2>1, <2>2, <2>3, <2>4, SameListOrder, FirstStays
<1>7. ASSUME NEW r \in Runners, RecordFailure(r) PROVE OrderInv'
  <2>1. run[r].pc \in Working /\ times' = times
    BY <1>7 DEF RecordFailure, Working
  <2>2. Grows
    BY <1>7, <2>1, RecordGrows DEF RecordFailure
  <2> QED
    BY <1>7, <2>1, <2>2, EndsTyped, EndedOrder DEF RecordFailure
<1>8. ASSUME NEW r \in Runners, RecordFailureFails(r) PROVE OrderInv'
  <2>1. Grows /\ times' = times
    BY <1>8, SameGrows DEF RecordFailureFails
  <2> QED
    BY <1>8, <2>1, EndsTyped, EndedOrder DEF RecordFailureFails
<1>9. ASSUME NEW r \in Runners, Crash(r) PROVE OrderInv'
  <2>1. Grows /\ times' = times
    BY <1>9, SameGrows DEF Crash
  <2>2. run'[r].pc = "idle" /\ \A x \in Runners \ {r} : run'[x] = run[x]
    BY <1>9 DEF Crash, Idle, Typed, TypeOK
  <2> QED
    BY <2>1, <2>2, EndedOrder
<1>10. CASE UNCHANGED vars
  BY <1>10 DEF vars, OrderInv, OrderFor, InHand, Settled, Applied, DependenciesFirst
<1> QED
  BY <1>1, <1>2, <1>3, <1>4, <1>5, <1>6, <1>7, <1>8, <1>9, <1>10 DEF Next

(***************************************************************************)
(* sortMigrations and the stop at the first failure: a migration is        *)
(* applied after those it depends on, but for those recorded as failed.    *)
(***************************************************************************)
THEOREM OrderIsKept == Spec => []DependenciesFirst
<1>1. OrderInv => DependenciesFirst
  BY DEF OrderInv
<1> QED
  BY <1>1, InitOrder, NextOrder, TypedAlways, PTL DEF Spec

(***************************************************************************)
(* runMigrations: what a process at work no longer has to do was applied,  *)
(* by whichever process, or is recorded as failed.                         *)
(***************************************************************************)
THEOREM NoneIsLeftOut == Spec => []LeftOutOnlyIfFailed
<1>1. OrderInv => LeftOutOnlyIfFailed
  BY DEF OrderInv, OrderFor, LeftOutOnlyIfFailed, Settled, Listed, Working
<1> QED
  BY <1>1, InitOrder, NextOrder, TypedAlways, PTL DEF Spec
=============================================================================
