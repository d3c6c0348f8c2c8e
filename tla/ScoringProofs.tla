---------------------------- MODULE ScoringProofs ----------------------------
(***************************************************************************)
(* What validation and scoring guarantee for any question, with any number *)
(* of options and any marks, and for any answer to it.                     *)
(***************************************************************************)
EXTENDS Scoring, FiniteSetTheorems, TLAPS

(***************************************************************************)
(* Induction over an interval: a set with 0 and the successor of each of   *)
(* its members is all of the interval.                                     *)
(***************************************************************************)
LEMMA Least ==
  ASSUME NEW T \in SUBSET Nat, T # {}
  PROVE  \E n \in T : \A m \in T : n <= m
<1> DEFINE R == OpToRel(<, Nat)
<1>1. IsWellFoundedOn(R, Nat)
  BY NatLessThanWellFounded
<1>2. \A m, n \in Nat : m < n => <<m, n>> \in R
  BY DEF OpToRel
<1> HIDE DEF R
<1>3. PICK n \in T : \A m \in T : <<m, n>> \notin R
  BY <1>1, WFMin
<1>4. \A m \in T : m \in Nat /\ n \in Nat /\ ~ (m < n)
  BY <1>2, <1>3
<1>5. \A m \in T : n <= m
  BY <1>4
<1> QED BY <1>5

LEMMA Upward ==
  ASSUME NEW N \in Nat, NEW T, 0 \in T, \A n \in 1 .. N : n - 1 \in T => n \in T
  PROVE  \A n \in 0 .. N : n \in T
<1> DEFINE F == {n \in 0 .. N : n \notin T}
<1>1. SUFFICES ASSUME F # {} PROVE FALSE
  OBVIOUS
<1>2. F \in SUBSET Nat
  OBVIOUS
<1> HIDE DEF F
<1>3. PICK n \in F : \A m \in F : n <= m
  BY <1>1, <1>2, Least
<1>4. n \in 0 .. N /\ n \notin T
  BY DEF F
<1>5. n \in 1 .. N /\ n - 1 \in 0 .. N /\ ~ (n <= n - 1)
  BY <1>4
<1>6. n - 1 \in T
  BY <1>3, <1>5 DEF F
<1> QED BY <1>4, <1>5, <1>6

-----------------------------------------------------------------------------
(***************************************************************************)
(* Sums.                                                                   *)
(***************************************************************************)
\* g has the sums of the beginnings of f.
SumsUpTo(g, f) ==
    /\ g \in [0 .. Len(f) -> Int] /\ g[0] = 0
    /\ \A n \in 1 .. Len(f) : g[n] = g[n - 1] + f[n]

LEMMA SumsExist ==
  ASSUME NEW f \in Seq(Int)
  PROVE  \E g : SumsUpTo(g, f)
<1> DEFINE N == Len(f)
           Good(g, n) == /\ g \in [0 .. n -> Int] /\ g[0] = 0
                         /\ \A i \in 1 .. n : g[i] = g[i - 1] + f[i]
           T == {n \in 0 .. N : \E g : Good(g, n)}
<1>1. N \in Nat /\ \A i \in 1 .. N : f[i] \in Int
  OBVIOUS
<1> HIDE DEF N
<1>2. 0 \in T
  <2> DEFINE g == [i \in 0 .. 0 |-> 0]
  <2>1. Good(g, 0)
    OBVIOUS
  <2> HIDE DEF g
  <2> QED BY <1>1, <2>1
<1>3. ASSUME NEW n \in 1 .. N, n - 1 \in T PROVE n \in T
  <2>1. PICK g : Good(g, n - 1)
    BY <1>3
  <2> DEFINE h == [i \in 0 .. n |-> IF i = n THEN g[n - 1] + f[n] ELSE g[i]]
  <2>2. n \in Nat \ {0} /\ n - 1 \in 0 .. n - 1 /\ f[n] \in Int /\ g[n - 1] \in Int
    BY <1>1, <2>1
  <2>3. h \in [0 .. n -> Int] /\ h[0] = 0
    BY <2>1, <2>2
  <2>4. ASSUME NEW i \in 1 .. n PROVE h[i] = h[i - 1] + f[i]
    <3>1. i = n \/ i \in 1 .. n - 1
      BY <2>2
    <3>2. i \in 0 .. n /\ i - 1 \in 0 .. n /\ i - 1 # n
      BY <2>2
    <3> QED BY <2>1, <3>1, <3>2
  <2> HIDE DEF h
  <2>5. Good(h, n)
    BY <2>3, <2>4
  <2> HIDE DEF Good
  <2> QED BY <1>1, <2>5
<1> HIDE DEF T
<1>4. N \in T
  <2>1. \A n \in 0 .. N : n \in T
    BY <1>1, <1>2, <1>3, Upward
  <2> QED BY <1>1, <2>1
<1> QED BY <1>4 DEF T, SumsUpTo, N

LEMMA SumIsLast ==
  ASSUME NEW f \in Seq(Int)
  PROVE  \E g : SumsUpTo(g, f) /\ Sum(f) = g[Len(f)]
<1> DEFINE Rec(g) == [n \in 0 .. Len(f) |-> IF n = 0 THEN 0 ELSE g[n - 1] + f[n]]
           s == CHOOSE g : g = Rec(g)
<1>1. Sum(f) = s[Len(f)]
  BY DEF Sum
<1>2. Len(f) \in Nat /\ \A i \in 1 .. Len(f) : f[i] \in Int
  OBVIOUS
<1>3. \E g : g = Rec(g)
  <2>1. PICK g : SumsUpTo(g, f)
    BY SumsExist
  <2>2. g \in [0 .. Len(f) -> Int]
        /\ \A n \in 0 .. Len(f) : g[n] = IF n = 0 THEN 0 ELSE g[n - 1] + f[n]
    BY <1>2, <2>1 DEF SumsUpTo
  <2>3. g = Rec(g)
    BY <2>2
  <2> QED BY <2>3
<1>4. s = Rec(s)
  BY <1>3
<1> HIDE DEF s
<1>5. /\ DOMAIN s = 0 .. Len(f) /\ s[0] = 0 /\ s = [n \in 0 .. Len(f) |-> s[n]]
      /\ \A n \in 1 .. Len(f) : s[n] = s[n - 1] + f[n]
  BY <1>2, <1>4
<1>6. \A n \in 0 .. Len(f) : s[n] \in Int
  <2> DEFINE T == {n \in 0 .. Len(f) : s[n] \in Int}
  <2>1. 0 \in T
    BY <1>2, <1>5
  <2>2. ASSUME NEW n \in 1 .. Len(f), n - 1 \in T PROVE n \in T
    <3>1. s[n - 1] \in Int /\ s[n] = s[n - 1] + f[n] /\ f[n] \in Int
      BY <1>2, <1>5, <2>2
    <3>2. s[n] \in Int
      BY <3>1
    <3> QED BY <3>2
  <2> HIDE DEF T
  <2>3. \A n \in 0 .. Len(f) : n \in T
    BY <1>2, <2>1, <2>2, Upward
  <2> QED BY <2>3 DEF T
<1>7. SumsUpTo(s, f)
  BY <1>5, <1>6 DEF SumsUpTo
<1> QED BY <1>1, <1>7

LEMMA SumType ==
  ASSUME NEW f \in Seq(Int)
  PROVE  Sum(f) \in Int
<1>1. PICK g : SumsUpTo(g, f) /\ Sum(f) = g[Len(f)]
  BY SumIsLast
<1>2. Len(f) \in Nat
  OBVIOUS
<1> QED BY <1>1, <1>2 DEF SumsUpTo

LEMMA SumOrder ==
  ASSUME NEW f \in Seq(Int), NEW h \in Seq(Int), Len(h) = Len(f),
         \A i \in 1 .. Len(f) : f[i] <= h[i]
  PROVE  /\ Sum(f) <= Sum(h)
         /\ (\E i \in 1 .. Len(f) : f[i] < h[i]) => Sum(f) < Sum(h)
<1> DEFINE N == Len(f)
<1>1. PICK a : SumsUpTo(a, f) /\ Sum(f) = a[N]
  BY SumIsLast
<1>2. PICK b : SumsUpTo(b, h) /\ Sum(h) = b[N]
  BY SumIsLast
<1>3. N \in Nat /\ \A i \in 1 .. N : f[i] \in Int /\ h[i] \in Int /\ f[i] <= h[i]
  OBVIOUS
<1>4. /\ a[0] = 0 /\ b[0] = 0 /\ \A n \in 0 .. N : a[n] \in Int /\ b[n] \in Int
      /\ \A n \in 1 .. N : a[n] = a[n - 1] + f[n] /\ b[n] = b[n - 1] + h[n]
  BY <1>1, <1>2 DEF SumsUpTo
<1> HIDE DEF N
<1> DEFINE T == {n \in 0 .. N : /\ a[n] <= b[n]
                                /\ (\E i \in 1 .. n : f[i] < h[i]) => a[n] < b[n]}
<1>5. 0 \in T
  BY <1>3, <1>4
<1>6. ASSUME NEW n \in 1 .. N, n - 1 \in T PROVE n \in T
  <2>1. /\ n \in 0 .. N /\ n - 1 \in 0 .. N /\ f[n] \in Int /\ h[n] \in Int /\ f[n] <= h[n]
        /\ a[n] = a[n - 1] + f[n] /\ b[n] = b[n - 1] + h[n] /\ a[n] \in Int /\ b[n] \in Int
        /\ a[n - 1] \in Int /\ b[n - 1] \in Int
    BY <1>3, <1>4
  <2>2. /\ a[n - 1] <= b[n - 1]
        /\ (\E i \in 1 .. n - 1 : f[i] < h[i]) => a[n - 1] < b[n - 1]
    BY <1>6
  <2>3. a[n] <= b[n]
    BY <2>1, <2>2
  <2>4. ASSUME NEW i \in 1 .. n, f[i] < h[i] PROVE a[n] < b[n]
    <3>1. CASE i = n
      BY <2>1, <2>2, <2>4, <3>1
    <3>2. CASE i # n
      <4>1. i \in 1 .. n - 1
        BY <3>2
      <4>2. a[n - 1] < b[n - 1]
        BY <2>2, <2>4, <4>1
      <4> QED BY <2>1, <4>2
    <3> QED BY <3>1, <3>2
  <2> QED BY <2>1, <2>3, <2>4
<1> HIDE DEF T
<1>7. \A n \in 0 .. N : n \in T
  BY <1>3, <1>5, <1>6, Upward
<1>8. N \in T
  BY <1>3, <1>7
<1> QED BY <1>1, <1>2, <1>8 DEF T, N

LEMMA SumOfTwo ==
  ASSUME NEW f \in Seq(Int), NEW h \in Seq(Int), NEW k \in Seq(Int),
         Len(h) = Len(f), Len(k) = Len(f), \A i \in 1 .. Len(f) : k[i] = f[i] + h[i]
  PROVE  Sum(k) = Sum(f) + Sum(h)
<1> DEFINE N == Len(f)
<1>1. PICK a : SumsUpTo(a, f) /\ Sum(f) = a[N]
  BY SumIsLast
<1>2. PICK b : SumsUpTo(b, h) /\ Sum(h) = b[N]
  BY SumIsLast
<1>3. PICK c : SumsUpTo(c, k) /\ Sum(k) = c[N]
  BY SumIsLast
<1>4. N \in Nat /\ \A i \in 1 .. N : f[i] \in Int /\ h[i] \in Int /\ k[i] = f[i] + h[i]
  OBVIOUS
<1>5. /\ a[0] = 0 /\ b[0] = 0 /\ c[0] = 0
      /\ \A n \in 0 .. N : a[n] \in Int /\ b[n] \in Int /\ c[n] \in Int
      /\ \A n \in 1 .. N : /\ a[n] = a[n - 1] + f[n] /\ b[n] = b[n - 1] + h[n]
                           /\ c[n] = c[n - 1] + k[n]
  BY <1>1, <1>2, <1>3 DEF SumsUpTo
<1> HIDE DEF N
<1> DEFINE T == {n \in 0 .. N : c[n] = a[n] + b[n]}
<1>6. 0 \in T
  BY <1>4, <1>5
<1>7. ASSUME NEW n \in 1 .. N, n - 1 \in T PROVE n \in T
  <2>1. /\ n \in 0 .. N /\ n - 1 \in 0 .. N /\ f[n] \in Int /\ h[n] \in Int /\ k[n] = f[n] + h[n]
        /\ a[n] = a[n - 1] + f[n] /\ b[n] = b[n - 1] + h[n] /\ c[n] = c[n - 1] + k[n]
        /\ a[n - 1] \in Int /\ b[n - 1] \in Int /\ c[n - 1] = a[n - 1] + b[n - 1]
    BY <1>4, <1>5, <1>7
  <2>2. c[n] = a[n] + b[n]
    BY <2>1
  <2> QED BY <2>1, <2>2
<1> HIDE DEF T
<1>8. \A n \in 0 .. N : n \in T
  BY <1>4, <1>6, <1>7, Upward
<1>9. N \in T
  BY <1>4, <1>8
<1> QED BY <1>1, <1>2, <1>3, <1>9 DEF T, N

LEMMA SumOfOne ==
  ASSUME NEW f \in Seq(Int), NEW m \in 1 .. Len(f), \A i \in 1 .. Len(f) : i # m => f[i] = 0
  PROVE  Sum(f) = f[m]
<1> DEFINE N == Len(f)
<1>1. PICK a : SumsUpTo(a, f) /\ Sum(f) = a[N]
  BY SumIsLast
<1>2. N \in Nat /\ m \in 1 .. N /\ f[m] \in Int /\ \A i \in 1 .. N : i # m => f[i] = 0
  OBVIOUS
<1>3. /\ a[0] = 0 /\ \A n \in 0 .. N : a[n] \in Int
      /\ \A n \in 1 .. N : a[n] = a[n - 1] + f[n]
  BY <1>1 DEF SumsUpTo
<1> HIDE DEF N
<1> DEFINE T == {n \in 0 .. N : a[n] = IF n < m THEN 0 ELSE f[m]}
<1>4. 0 \in T
  BY <1>2, <1>3
<1>5. ASSUME NEW n \in 1 .. N, n - 1 \in T PROVE n \in T
  <2>1. /\ n \in 0 .. N /\ n - 1 \in 0 .. N /\ a[n] = a[n - 1] + f[n] /\ a[n - 1] \in Int
        /\ a[n - 1] = IF n - 1 < m THEN 0 ELSE f[m]
    BY <1>3, <1>5
  <2>2. CASE n = m
    BY <1>2, <2>1, <2>2
  <2>3. CASE n # m
    <3>1. f[n] = 0 /\ (n - 1 < m <=> n < m)
      BY <1>2, <2>3
    <3>2. a[n] = a[n - 1]
      BY <2>1, <3>1
    <3> QED BY <2>1, <3>1, <3>2
  <2> QED BY <2>2, <2>3
<1> HIDE DEF T
<1>6. \A n \in 0 .. N : n \in T
  BY <1>2, <1>4, <1>5, Upward
<1>7. N \in T
  BY <1>2, <1>6
<1>8. ~ (N < m)
  BY <1>2
<1> QED BY <1>1, <1>7, <1>8 DEF T, N

\* Of marks that are numbers: the total of some of the options.
Marks(opts) == (\E S : opts \in Seq(S)) /\ \A i \in 1 .. Len(opts) : opts[i].marks \in Int

Weights(opts, S) == [i \in DOMAIN opts |-> IF i \in S THEN opts[i].marks ELSE 0]

LEMMA WeightsType ==
  ASSUME NEW opts, Marks(opts), NEW S
  PROVE  /\ Len(opts) \in Nat /\ DOMAIN opts = 1 .. Len(opts)
         /\ Weights(opts, S) \in Seq(Int) /\ Len(Weights(opts, S)) = Len(opts)
         /\ \A i \in 1 .. Len(opts) :
               Weights(opts, S)[i] = IF i \in S THEN opts[i].marks ELSE 0
         /\ Total(opts, S) = Sum(Weights(opts, S))
<1>1. /\ Len(opts) \in Nat /\ DOMAIN opts = 1 .. Len(opts)
      /\ \A i \in 1 .. Len(opts) : opts[i].marks \in Int
  BY DEF Marks
<1>2. Total(opts, S) = Sum(Weights(opts, S))
  BY DEF Total, Weights
<1>3. Weights(opts, S) = [i \in 1 .. Len(opts) |-> IF i \in S THEN opts[i].marks ELSE 0]
  BY <1>1 DEF Weights
<1> DEFINE n == Len(opts)
<1>4. /\ Weights(opts, S) \in [1 .. n -> Int]
      /\ \A i \in 1 .. n : Weights(opts, S)[i] = IF i \in S THEN opts[i].marks ELSE 0
  BY <1>1, <1>3
<1>5. Weights(opts, S) \in Seq(Int) /\ Len(Weights(opts, S)) = n
  BY <1>1, <1>4
<1> QED BY <1>1, <1>2, <1>4, <1>5

LEMMA TotalType ==
  ASSUME NEW opts, Marks(opts), NEW S
  PROVE  Total(opts, S) \in Int
  BY WeightsType, SumType

LEMMA TotalAlike ==
  ASSUME NEW opts, NEW rows, DOMAIN rows = DOMAIN opts, NEW S,
         \A i \in S : i \in DOMAIN opts => rows[i].marks = opts[i].marks
  PROVE  Total(rows, S) = Total(opts, S)
<1>1. Weights(rows, S) = Weights(opts, S)
  BY DEF Weights
<1> QED BY <1>1 DEF Total, Weights

LEMMA TotalUnion ==
  ASSUME NEW opts, Marks(opts), NEW S, NEW T, S \cap T = {}
  PROVE  Total(opts, S \cup T) = Total(opts, S) + Total(opts, T)
<1> DEFINE f == Weights(opts, S)
           h == Weights(opts, T)
           k == Weights(opts, S \cup T)
           n == Len(opts)
<1>1. \A i \in 1 .. n : opts[i].marks \in Int
  BY DEF Marks
<1>2. /\ f \in Seq(Int) /\ Len(f) = n /\ Total(opts, S) = Sum(f)
      /\ \A i \in 1 .. n : f[i] = IF i \in S THEN opts[i].marks ELSE 0
  BY WeightsType
<1>3. /\ h \in Seq(Int) /\ Len(h) = n /\ Total(opts, T) = Sum(h)
      /\ \A i \in 1 .. n : h[i] = IF i \in T THEN opts[i].marks ELSE 0
  BY WeightsType
<1>4. /\ k \in Seq(Int) /\ Len(k) = n /\ Total(opts, S \cup T) = Sum(k)
      /\ \A i \in 1 .. n : k[i] = IF i \in S \cup T THEN opts[i].marks ELSE 0
  BY WeightsType
<1> HIDE DEF f, h, k, n
<1>5. \A i \in 1 .. n : k[i] = f[i] + h[i]
  <2> TAKE i \in 1 .. n
  <2>1. opts[i].marks \in Int /\ ~ (i \in S /\ i \in T)
    BY <1>1
  <2>2. /\ f[i] = IF i \in S THEN opts[i].marks ELSE 0
        /\ h[i] = IF i \in T THEN opts[i].marks ELSE 0
        /\ k[i] = IF i \in S \/ i \in T THEN opts[i].marks ELSE 0
    BY <1>2, <1>3, <1>4
  <2> QED BY <2>1, <2>2
<1>6. Sum(k) = Sum(f) + Sum(h)
  BY <1>2, <1>3, <1>4, <1>5, SumOfTwo
<1> QED BY <1>2, <1>3, <1>4, <1>6

LEMMA TotalOfNone ==
  ASSUME NEW opts, Marks(opts)
  PROVE  Total(opts, {}) = 0
<1>1. Total(opts, {} \cup {}) = Total(opts, {}) + Total(opts, {})
  BY TotalUnion
<1>2. {} \cup {} = {}
  OBVIOUS
<1>3. PICK t \in Int : t = Total(opts, {})
  BY TotalType
<1>4. t = t + t
  BY <1>1, <1>2, <1>3
<1>5. t = 0
  BY <1>4
<1> QED BY <1>3, <1>5

LEMMA TotalOfOne ==
  ASSUME NEW opts, Marks(opts), NEW i \in DOMAIN opts
  PROVE  Total(opts, {i}) = opts[i].marks
<1> DEFINE f == Weights(opts, {i})
<1>1. /\ f \in Seq(Int) /\ Len(f) = Len(opts) /\ Total(opts, {i}) = Sum(f)
      /\ \A j \in 1 .. Len(opts) : f[j] = IF j \in {i} THEN opts[j].marks ELSE 0
      /\ i \in 1 .. Len(opts)
  BY WeightsType
<1> HIDE DEF f
<1>2. f[i] = opts[i].marks /\ \A j \in 1 .. Len(opts) : j # i => f[j] = 0
  BY <1>1
<1>3. Sum(f) = f[i]
  BY <1>1, <1>2, SumOfOne
<1> QED BY <1>1, <1>2, <1>3

\* Of options worth something, fewer are worth less.
LEMMA TotalOrder ==
  ASSUME NEW opts, Marks(opts), NEW T \in SUBSET DOMAIN opts, NEW S \in SUBSET T,
         \A i \in T : opts[i].marks > 0
  PROVE  /\ 0 <= Total(opts, S) /\ Total(opts, S) <= Total(opts, T)
         /\ S # {} => 0 < Total(opts, S)
         /\ S # T => Total(opts, S) < Total(opts, T)
<1> DEFINE n == Len(opts)
           W(U) == Weights(opts, U)
<1>1. n \in Nat /\ DOMAIN opts = 1 .. n /\ \A i \in 1 .. n : opts[i].marks \in Int
  BY WeightsType DEF Marks
<1>2. ASSUME NEW A \in SUBSET T, NEW B \in SUBSET T, A \subseteq B
      PROVE  /\ Total(opts, A) <= Total(opts, B)
             /\ A # B => Total(opts, A) < Total(opts, B)
  <2>1. /\ W(A) \in Seq(Int) /\ Len(W(A)) = n /\ Total(opts, A) = Sum(W(A))
        /\ \A i \in 1 .. n : W(A)[i] = IF i \in A THEN opts[i].marks ELSE 0
    BY WeightsType
  <2>2. /\ W(B) \in Seq(Int) /\ Len(W(B)) = n /\ Total(opts, B) = Sum(W(B))
        /\ \A i \in 1 .. n : W(B)[i] = IF i \in B THEN opts[i].marks ELSE 0
    BY WeightsType
  <2> DEFINE a == W(A)
             b == W(B)
  <2> HIDE DEF W, n
  <2>3. \A i \in 1 .. n : i \in T => opts[i].marks > 0
    OBVIOUS
  <2>4. \A i \in 1 .. n : a[i] <= b[i]
    BY <1>1, <1>2, <2>1, <2>2, <2>3
  <2>5. A # B => \E i \in 1 .. n : a[i] < b[i]
    <3>1. SUFFICES ASSUME A # B PROVE \E i \in 1 .. n : a[i] < b[i]
      OBVIOUS
    <3>2. PICK i \in B : i \notin A
      BY <1>2, <3>1
    <3>3. i \in 1 .. n /\ a[i] = 0 /\ b[i] = opts[i].marks /\ opts[i].marks > 0
      BY <1>1, <2>1, <2>2, <2>3, <3>2
    <3> QED BY <3>3
  <2> HIDE DEF a, b
  <2>6. /\ a \in Seq(Int) /\ b \in Seq(Int) /\ Len(a) = n /\ Len(b) = n
        /\ Total(opts, A) = Sum(a) /\ Total(opts, B) = Sum(b)
    BY <2>1, <2>2 DEF a, b
  <2>7. /\ Sum(a) <= Sum(b)
        /\ (\E i \in 1 .. n : a[i] < b[i]) => Sum(a) < Sum(b)
    BY <2>4, <2>6, SumOrder
  <2> QED BY <2>5, <2>6, <2>7
<1> HIDE DEF W, n
<1>3. /\ Total(opts, {}) = 0 /\ Total(opts, {}) <= Total(opts, S)
      /\ {} # S => Total(opts, {}) < Total(opts, S)
  BY <1>2, TotalOfNone
<1>4. /\ Total(opts, S) <= Total(opts, T) /\ S # T => Total(opts, S) < Total(opts, T)
  BY <1>2
<1> QED BY <1>2, <1>3, <1>4

\* Shares of some options that do not meet: together they are worth what the
\* options of all of them are worth.
LEMMA SumOfTotals ==
  ASSUME NEW opts, Marks(opts), NEW f \in Seq(Int), NEW P,
         \A m \in 1 .. Len(f) : f[m] = Total(opts, P[m]),
         \A a, b \in 1 .. Len(f) : a # b => P[a] \cap P[b] = {}
  PROVE  Sum(f) = Total(opts, UNION {P[m] : m \in 1 .. Len(f)})
<1> DEFINE n == Len(f)
           U(m) == UNION {P[a] : a \in 1 .. m}
<1>1. PICK c : SumsUpTo(c, f) /\ Sum(f) = c[n]
  BY SumIsLast
<1>2. n \in Nat
  OBVIOUS
<1>3. /\ c[0] = 0 /\ \A m \in 1 .. n : c[m] = c[m - 1] + Total(opts, P[m])
  BY <1>1 DEF SumsUpTo
<1>4. \A a, b \in 1 .. n : a # b => P[a] \cap P[b] = {}
  OBVIOUS
<1> HIDE DEF n
<1> DEFINE T == {m \in 0 .. n : c[m] = Total(opts, U(m))}
<1>5. 0 \in T
  <2>1. U(0) = {}
    OBVIOUS
  <2>2. Total(opts, {}) = 0
    BY TotalOfNone
  <2>3. c[0] = Total(opts, U(0))
    BY <1>3, <2>1, <2>2
  <2> HIDE DEF U
  <2> QED BY <1>2, <2>3
<1>6. ASSUME NEW m \in 1 .. n, m - 1 \in T PROVE m \in T
  <2>1. U(m) = U(m - 1) \cup P[m]
    <3>1. \A a : a \in 1 .. m <=> a \in 1 .. m - 1 \/ a = m
      BY <1>2
    <3> QED BY <3>1
  <2>2. U(m - 1) \cap P[m] = {}
    <3>1. \A a \in 1 .. m - 1 : a \in 1 .. n /\ a # m
      BY <1>2
    <3> QED BY <1>4, <3>1
  <2> HIDE DEF U
  <2>3. Total(opts, U(m)) = Total(opts, U(m - 1)) + Total(opts, P[m])
    <3>1. \A A, B : A \cap B = {} => Total(opts, A \cup B) = Total(opts, A) + Total(opts, B)
      BY TotalUnion
    <3>2. Total(opts, U(m - 1) \cup P[m]) = Total(opts, U(m - 1)) + Total(opts, P[m])
      BY <2>2, <3>1
    <3> QED BY <2>1, <3>2
  <2>4. c[m - 1] = Total(opts, U(m - 1)) /\ m \in 0 .. n
    BY <1>2, <1>6
  <2> QED BY <1>3, <2>3, <2>4
<1> HIDE DEF T
<1>7. \A m \in 0 .. n : m \in T
  BY <1>2, <1>5, <1>6, Upward
<1>8. n \in T
  BY <1>2, <1>7
<1> QED BY <1>1, <1>8 DEF T, n

-----------------------------------------------------------------------------
(***************************************************************************)
(* Scores.                                                                 *)
(***************************************************************************)
LEMMA RowsFacts ==
  ASSUME NEW opts \in Seq(OptionRow)
  PROVE  /\ Marks(opts) /\ DOMAIN opts = 1 .. Len(opts) /\ Len(opts) \in Nat
         /\ Correct(opts) \in SUBSET DOMAIN opts /\ IsFiniteSet(Correct(opts))
<1>1. DOMAIN opts = 1 .. Len(opts) /\ Len(opts) \in Nat
  OBVIOUS
<1>2. \A i \in 1 .. Len(opts) : opts[i] \in OptionRow
  OBVIOUS
<1>3. \A i \in 1 .. Len(opts) : opts[i].marks \in Int
  BY <1>2 DEF OptionRow
<1>4. Marks(opts)
  BY <1>3 DEF Marks
<1>5. Correct(opts) \in SUBSET DOMAIN opts
  BY DEF Correct
<1>6. IsFiniteSet(Correct(opts))
  <2>1. IsFiniteSet(1 .. Len(opts))
    BY <1>1, FS_Interval
  <2> QED BY <1>1, <1>5, <2>1, FS_Subset
<1> QED BY <1>1, <1>4, <1>5, <1>6

\* The correct options that an answer has right.
Asked(opts, reply) == {i \in Correct(opts) : Place(opts, i) <= Len(reply.blanks)}
Filled(opts, reply) ==
    {i \in Asked(opts, reply) :
        /\ opts[i].text # "" /\ reply.blanks[Place(opts, i)][1] = opts[i].text
        /\ opts[i].caseSensitive => reply.blanks[Place(opts, i)][2]}
Matched(opts, ed, reply) ==
    {i \in Correct(opts) : \E m \in DOMAIN reply.matches :
        reply.matches[m] = <<Id(ed, i), opts[i].matchWith>>}
Selected(opts, ed, reply) == {i \in Correct(opts) : Id(ed, i) \in Range(reply.selected)}

LEMMA MultipleAnswer ==
  ASSUME NEW q, NEW opts, NEW ed, NEW reply
  PROVE  MultipleAnswerScore(q, opts, ed, reply) =
            IF q.allowPartialScoring THEN Total(opts, Selected(opts, ed, reply))
            ELSE IF Correct(opts) # {} /\ Range(reply.selected) = Ids(ed, Correct(opts))
                 THEN q.marks ELSE 0
  BY DEF MultipleAnswerScore, Selected

LEMMA FillBlank ==
  ASSUME NEW q, NEW opts, NEW reply
  PROVE  FillBlankScore(q, opts, reply) =
            IF q.allowPartialScoring THEN Total(opts, Filled(opts, reply))
            ELSE IF Asked(opts, reply) # {} /\ Filled(opts, reply) = Asked(opts, reply)
                 THEN q.marks ELSE 0
  BY DEF FillBlankScore, Filled, Asked

\* What each match is worth: the option it has right, if any.
LEMMA MatchesAddUp ==
  ASSUME NEW opts \in Seq(OptionRow), NEW ed, NEW reply \in Reply, IsInjective(reply.matches),
         NEW q, q.allowPartialScoring
  PROVE  MatchScore(q, opts, ed, reply) = Total(opts, Matched(opts, ed, reply))
<1> DEFINE ms == reply.matches
           n == Len(ms)
           Hits(i, m) == ms[m] = <<Id(ed, i), opts[i].matchWith>>
           P == [m \in 1 .. n |-> {i \in Correct(opts) : Hits(i, m)}]
           f == [m \in DOMAIN ms |-> Total(opts, {i \in Correct(opts) : Hits(i, m)})]
<1>1. MatchScore(q, opts, ed, reply) = Sum(f)
  BY DEF MatchScore
<1>2. n \in Nat /\ DOMAIN ms = 1 .. n
  BY DEF Reply
<1>3. Marks(opts)
  BY RowsFacts
<1>4. \A m \in 1 .. n : P[m] = {i \in Correct(opts) : Hits(i, m)}
  OBVIOUS
<1>5. \A S : Total(opts, S) \in Int
  BY <1>3, TotalType
<1>6. f = [m \in 1 .. n |-> Total(opts, P[m])]
  BY <1>2, <1>4
<1> HIDE DEF f
<1>7. f \in Seq(Int) /\ Len(f) = n /\ \A m \in 1 .. n : f[m] = Total(opts, P[m])
  BY <1>2, <1>5, <1>6
<1>8. \A a, b \in 1 .. n : a # b => P[a] \cap P[b] = {}
  BY <1>2 DEF IsInjective
<1>9. UNION {P[m] : m \in 1 .. n} = Matched(opts, ed, reply)
  <2>1. ASSUME NEW i
        PROVE  i \in Matched(opts, ed, reply) <=> \E m \in 1 .. n : i \in P[m]
    <3>1. i \in Matched(opts, ed, reply) <=> i \in Correct(opts) /\ \E m \in 1 .. n : Hits(i, m)
      BY <1>2 DEF Matched
    <3>2. \A m \in 1 .. n : i \in P[m] <=> i \in Correct(opts) /\ Hits(i, m)
      OBVIOUS
    <3> HIDE DEF Hits, P
    <3> QED BY <3>1, <3>2
  <2> HIDE DEF P
  <2> QED BY <2>1
<1> HIDE DEF P
<1>10. Sum(f) = Total(opts, UNION {P[m] : m \in 1 .. Len(f)})
  <2>1. /\ \A m \in 1 .. Len(f) : f[m] = Total(opts, P[m])
        /\ \A a, b \in 1 .. Len(f) : a # b => P[a] \cap P[b] = {}
    BY <1>7, <1>8
  <2> HIDE DEF n
  <2> QED BY <1>3, <1>7, <2>1, SumOfTotals
<1> QED BY <1>1, <1>7, <1>9, <1>10

LEMMA MatchInFull ==
  ASSUME NEW opts, NEW ed, NEW reply, NEW q, ~q.allowPartialScoring
  PROVE  MatchScore(q, opts, ed, reply) =
            IF /\ Correct(opts) # {} /\ reply.matches # <<>>
               /\ Matched(opts, ed, reply) = Correct(opts)
            THEN q.marks ELSE 0
  BY DEF MatchScore, Matched

\* The types whose options can be worth something each.
Shared == {"multiple_answer", "fill_blank", "match"}
Earned(q, opts, ed, reply) ==
    CASE q.type = "multiple_answer" -> Selected(opts, ed, reply)
      [] q.type = "fill_blank" -> Filled(opts, reply)
      [] q.type = "match" -> Matched(opts, ed, reply)

LEMMA EarnedFacts ==
  ASSUME NEW q, q.type \in Shared, NEW opts, NEW ed, NEW reply
  PROVE  Earned(q, opts, ed, reply) \subseteq Correct(opts)
  BY DEF Earned, Shared, Selected, Filled, Asked, Matched

LEMMA PartialScore ==
  ASSUME NEW q, q.type \in Shared, q.allowPartialScoring, NEW opts \in Seq(OptionRow), NEW ed,
         NEW reply \in Reply, IsInjective(reply.matches)
  PROVE  Score(q, opts, ed, reply) = Total(opts, Earned(q, opts, ed, reply))
<1>1. CASE q.type = "multiple_answer"
  BY <1>1, MultipleAnswer DEF Score, Earned, SingleChoice
<1>2. CASE q.type = "fill_blank"
  BY <1>2, FillBlank DEF Score, Earned, SingleChoice
<1>3. CASE q.type = "match"
  BY <1>3, MatchesAddUp DEF Score, Earned, SingleChoice
<1> QED BY <1>1, <1>2, <1>3 DEF Shared

LEMMA WholeScore ==
  ASSUME NEW q, q.type \in Types, ~ (q.type \in Shared /\ q.allowPartialScoring),
         NEW opts, NEW ed, NEW reply
  PROVE  Score(q, opts, ed, reply) \in {0, q.marks}
<1>1. CASE q.type = "multiple_answer"
  BY <1>1, MultipleAnswer DEF Score, Shared, SingleChoice
<1>2. CASE q.type = "fill_blank"
  BY <1>2, FillBlank DEF Score, Shared, SingleChoice
<1>3. CASE q.type = "match"
  BY <1>3, MatchInFull DEF Score, Shared, SingleChoice
<1>4. CASE q.type \in SingleChoice \cup {"dropdown"}
  <2>1. Score(q, opts, ed, reply) = MCQScore(q, opts, ed, reply)
    BY <1>4 DEF Score, SingleChoice
  <2>2. MCQScore(q, opts, ed, reply) \in {0, q.marks}
    BY DEF MCQScore
  <2> QED BY <2>1, <2>2
<1>5. CASE q.type \notin Shared \cup SingleChoice \cup {"dropdown"}
  BY <1>5 DEF Score, Shared, SingleChoice
<1> QED BY <1>1, <1>2, <1>3, <1>4, <1>5 DEF Shared

LEMMA ScoreType ==
  ASSUME NEW q \in QuestionRow, NEW opts \in Seq(OptionRow), NEW ed, NEW reply \in Reply
  PROVE  Score(q, opts, ed, reply) \in Int
<1>0. Marks(opts) /\ q.type \in Types /\ q.marks \in Int
  BY RowsFacts DEF QuestionRow
<1>1. CASE ~ (q.type \in Shared /\ q.allowPartialScoring)
  <2>1. Score(q, opts, ed, reply) \in {0, q.marks}
    BY <1>0, <1>1, WholeScore
  <2> QED BY <1>0, <2>1
<1>2. CASE q.type = "multiple_answer" /\ q.allowPartialScoring
  BY <1>0, <1>2, MultipleAnswer, TotalType DEF Score, SingleChoice
<1>3. CASE q.type = "fill_blank" /\ q.allowPartialScoring
  BY <1>0, <1>3, FillBlank, TotalType DEF Score, SingleChoice
<1>4. CASE q.type = "match" /\ q.allowPartialScoring
  <2> DEFINE ms == reply.matches
             f == [m \in DOMAIN ms |-> Total(opts, {i \in Correct(opts) :
                                            ms[m] = <<Id(ed, i), opts[i].matchWith>>})]
  <2>1. Score(q, opts, ed, reply) = Sum(f)
    BY <1>4 DEF Score, MatchScore, SingleChoice
  <2>2. Len(ms) \in Nat /\ DOMAIN ms = 1 .. Len(ms)
    BY DEF Reply
  <2>3. \A S : Total(opts, S) \in Int
    BY <1>0, TotalType
  <2>4. f \in [1 .. Len(ms) -> Int]
    BY <2>2, <2>3
  <2> HIDE DEF f, ms
  <2>5. f \in Seq(Int)
    BY <2>2, <2>4
  <2> QED BY <2>1, <2>5, SumType
<1> QED BY <1>1, <1>2, <1>3, <1>4 DEF Shared

\* A question worth its marks never gives more than them, and less than all of
\* them for less than all of its options.
LEMMA PartialWithin ==
  ASSUME NEW q \in QuestionRow, q.type \in Shared, q.allowPartialScoring,
         NEW opts \in Seq(OptionRow), NEW ed, NEW reply \in Reply, NoRepeats(reply),
         Consistent(q, opts), Marked(q, opts)
  PROVE  LET score == Score(q, opts, ed, reply)
             E == Earned(q, opts, ed, reply)
         IN  /\ score \in 0 .. q.marks
             /\ score = q.marks <=> E = Correct(opts)
             /\ score > 0 <=> E # {}
<1> DEFINE score == Score(q, opts, ed, reply)
           E == Earned(q, opts, ed, reply)
           C == Correct(opts)
<1>1. /\ Marks(opts) /\ C \in SUBSET DOMAIN opts /\ \A i \in C : opts[i].marks > 0
      /\ Total(opts, C) = q.marks /\ q.marks \in Int
  BY RowsFacts DEF Consistent, Marked, QuestionRow
<1>2. score = Total(opts, E) /\ E \in SUBSET C
  BY PartialScore, EarnedFacts DEF NoRepeats
<1>3. Total(opts, E) \in Int /\ Total(opts, {}) = 0
  BY <1>1, TotalType, TotalOfNone
<1> HIDE DEF C, E, score
<1>4. /\ 0 <= Total(opts, E) /\ Total(opts, E) <= Total(opts, C)
      /\ E # {} => 0 < Total(opts, E)
      /\ E # C => Total(opts, E) < Total(opts, C)
  BY <1>1, <1>2, TotalOrder
<1>5. E = {} => score = 0
  BY <1>2, <1>3
<1>6. E = C => score = q.marks
  BY <1>1, <1>2
<1>7. PICK t \in Int : t = Total(opts, E)
  BY <1>3
<1>8. /\ score = t /\ 0 <= t /\ t <= q.marks /\ (E # {} => 0 < t)
      /\ (E # C => t < q.marks) /\ (E = {} => t = 0) /\ (E = C => t = q.marks)
  BY <1>1, <1>2, <1>4, <1>5, <1>6, <1>7
<1>9. score \in 0 .. q.marks /\ (score = q.marks <=> E = C) /\ (score > 0 <=> E # {})
  BY <1>1, <1>8
<1> QED BY <1>9 DEF C, E, score

LEMMA ScoreWithin ==
  ASSUME NEW q \in QuestionRow, NEW opts \in Seq(OptionRow), NEW ed, NEW reply \in Reply,
         NoRepeats(reply), Consistent(q, opts), Marked(q, opts)
  PROVE  Score(q, opts, ed, reply) \in 0 .. q.marks
<1>1. q.type \in Types /\ q.marks \in Int /\ q.marks > 0
  BY DEF QuestionRow, Marked
<1>2. CASE q.type \in Shared /\ q.allowPartialScoring
  BY <1>2, PartialWithin
<1>3. CASE ~ (q.type \in Shared /\ q.allowPartialScoring)
  <2>1. Score(q, opts, ed, reply) \in {0, q.marks}
    BY <1>1, <1>3, WholeScore
  <2> QED BY <1>1, <2>1
<1> QED BY <1>2, <1>3

\* One correct option: it is selected, and nothing else.
LEMMA OneChoice ==
  ASSUME NEW q \in QuestionRow, OneAnswer(q), NEW opts \in Seq(OptionRow), NEW ed,
         NEW reply \in Reply, Consistent(q, opts), Marked(q, opts)
  PROVE  \E c \in DOMAIN opts :
            /\ Correct(opts) = {c}
            /\ Score(q, opts, ed, reply) = IF reply.selected = <<Id(ed, c)>> THEN q.marks ELSE 0
<1>1. Correct(opts) \in SUBSET DOMAIN opts /\ IsFiniteSet(Correct(opts))
      /\ Cardinality(Correct(opts)) = 1 /\ DOMAIN opts = 1 .. Len(opts) /\ Len(opts) \in Nat
  BY RowsFacts DEF Consistent
<1>2. PICK c : Correct(opts) = {c}
  BY <1>1, FS_Singleton
<1>3. c \in DOMAIN opts /\ c <= c
  BY <1>1, <1>2
<1>4. Score(q, opts, ed, reply) = MCQScore(q, opts, ed, reply)
  BY DEF Score, OneAnswer, SingleChoice
<1>5. MCQScore(q, opts, ed, reply) = IF reply.selected = <<Id(ed, c)>> THEN q.marks ELSE 0
  BY <1>2, <1>3 DEF MCQScore
<1> QED BY <1>2, <1>3, <1>4, <1>5

LEMMA PlaceFacts ==
  ASSUME NEW opts \in Seq(OptionRow), NEW i \in Correct(opts)
  PROVE  Place(opts, i) \in Nat \ {0} /\ Place(opts, i) <= Cardinality(Correct(opts))
<1> DEFINE B == {j \in Correct(opts) : j <= i}
<1>1. /\ IsFiniteSet(Correct(opts)) /\ Correct(opts) \in SUBSET DOMAIN opts
      /\ DOMAIN opts = 1 .. Len(opts) /\ Len(opts) \in Nat
  BY RowsFacts
<1>2. B \in SUBSET Correct(opts) /\ i \in B
  BY <1>1
<1>3. Place(opts, i) = Cardinality(B)
  BY DEF Place
<1> HIDE DEF B
<1>4. IsFiniteSet(B) /\ Cardinality(B) <= Cardinality(Correct(opts)) /\ Cardinality(B) \in Nat
  BY <1>1, <1>2, FS_Subset, FS_CardinalityType
<1>5. Cardinality(B) # 0
  BY <1>2, <1>4, FS_EmptySet
<1> QED BY <1>3, <1>4, <1>5

LEMMA IdsFacts ==
  ASSUME NEW ed, NEW S, NEW i
  PROVE  Id(ed, i) \in Ids(ed, S) <=> i \in S
  BY DEF Id, Ids

\* As many blanks as the question has, and none of them without a text.
Complete(q, opts, reply) ==
    q.type = "fill_blank" => /\ Len(reply.blanks) >= Cardinality(Correct(opts))
                             /\ \A i \in Correct(opts) : opts[i].text # ""

\* What a right answer has right: every correct option.
LEMMA RightIsAll ==
  ASSUME NEW q \in QuestionRow, q.type \in Shared, NEW opts \in Seq(OptionRow), NEW ed,
         NEW reply \in Reply, Complete(q, opts, reply)
  PROVE  /\ q.type = "fill_blank" => Asked(opts, reply) = Correct(opts)
         /\ Right(q, opts, ed, reply) <=>
               /\ Earned(q, opts, ed, reply) = Correct(opts)
               /\ q.type = "multiple_answer" /\ ~q.allowPartialScoring =>
                      Range(reply.selected) \subseteq Ids(ed, Correct(opts))
<1> DEFINE C == Correct(opts)
<1>0. Len(reply.blanks) \in Nat /\ DOMAIN reply.blanks = 1 .. Len(reply.blanks)
      /\ \A j \in 1 .. Len(reply.blanks) : reply.blanks[j] \in STRING \X BOOLEAN
  <2> DEFINE blanks == reply.blanks
             B == STRING \X BOOLEAN
  <2>1. blanks \in Seq(B)
    BY DEF Reply
  <2> HIDE DEF blanks, B
  <2>2. /\ Len(blanks) \in Nat /\ DOMAIN blanks = 1 .. Len(blanks)
        /\ \A j \in 1 .. Len(blanks) : blanks[j] \in B
    BY <2>1
  <2> QED BY <2>2 DEF blanks, B
<1>1. ASSUME q.type = "fill_blank" PROVE Asked(opts, reply) = C
  <2>1. \A i \in C : Place(opts, i) <= Len(reply.blanks)
    <3> TAKE i \in C
    <3>1. Place(opts, i) \in Nat /\ Place(opts, i) <= Cardinality(C)
      BY PlaceFacts
    <3>2. IsFiniteSet(C)
      BY RowsFacts
    <3>3. Len(reply.blanks) >= Cardinality(C)
      BY <1>1 DEF Complete
    <3> HIDE DEF C
    <3>4. Cardinality(C) \in Nat
      BY <3>2, FS_CardinalityType
    <3> DEFINE n == Len(reply.blanks)
               c == Cardinality(C)
               p == Place(opts, i)
    <3>5. n \in Nat /\ c \in Nat /\ p \in Nat /\ p <= c /\ n >= c
      BY <1>0, <3>1, <3>3, <3>4
    <3> HIDE DEF n, c, p
    <3>6. p <= n
      BY <3>5
    <3> QED BY <3>6 DEF n, p
  <2> QED BY <2>1 DEF Asked
<1>2. CASE q.type = "multiple_answer"
  <2>1. Earned(q, opts, ed, reply) = Selected(opts, ed, reply)
    BY <1>2 DEF Earned
  <2>2. Right(q, opts, ed, reply) <=>
            /\ Ids(ed, C) \subseteq Range(reply.selected)
            /\ q.allowPartialScoring \/ Range(reply.selected) \subseteq Ids(ed, C)
    BY <1>2 DEF Right, SingleChoice
  <2>3. Ids(ed, C) \subseteq Range(reply.selected) <=> Selected(opts, ed, reply) = C
    BY DEF Ids, Selected
  <2> QED BY <1>2, <2>1, <2>2, <2>3
<1>3. CASE q.type = "match"
  <2>1. Earned(q, opts, ed, reply) = Matched(opts, ed, reply)
    BY <1>3 DEF Earned
  <2>2. Right(q, opts, ed, reply) <=>
            {<<Id(ed, i), opts[i].matchWith>> : i \in C} \subseteq Range(reply.matches)
    BY <1>3 DEF Right, SingleChoice
  <2>3. {<<Id(ed, i), opts[i].matchWith>> : i \in C} \subseteq Range(reply.matches)
            <=> Matched(opts, ed, reply) = C
    BY DEF Matched, Range
  <2> QED BY <1>3, <2>1, <2>2, <2>3
<1>4. CASE q.type = "fill_blank"
  <2>1. Earned(q, opts, ed, reply) = Filled(opts, reply) /\ Asked(opts, reply) = C
    BY <1>1, <1>4 DEF Earned
  <2>2. Right(q, opts, ed, reply) <=>
            \A i \in C : reply.blanks[Place(opts, i)] \in
                            {opts[i].text} \X {TRUE, opts[i].caseSensitive}
    BY <1>4 DEF Right, SingleChoice
  <2>3. ASSUME NEW i \in C
        PROVE  reply.blanks[Place(opts, i)] \in {opts[i].text} \X {TRUE, opts[i].caseSensitive}
                    <=> i \in Filled(opts, reply)
    <3> DEFINE b == reply.blanks[Place(opts, i)]
               t == opts[i].text
               cs == opts[i].caseSensitive
    <3>1. b \in STRING \X BOOLEAN
      <4>1. Place(opts, i) \in Nat \ {0} /\ Place(opts, i) <= Len(reply.blanks)
        BY <2>1, PlaceFacts DEF Asked
      <4> DEFINE n == Len(reply.blanks)
                 p == Place(opts, i)
      <4>2. n \in Nat /\ p \in Nat \ {0} /\ p <= n
        BY <1>0, <4>1
      <4> HIDE DEF n, p
      <4>3. p \in 1 .. n
        BY <4>2
      <4> QED BY <1>0, <4>3 DEF n, p
    <3>2. cs \in BOOLEAN
      <4>1. i \in DOMAIN opts
        BY RowsFacts
      <4>2. opts[i] \in OptionRow
        <5> HIDE DEF C, b, t, cs
        <5> QED BY <4>1
      <4> QED BY <4>2 DEF OptionRow
    <3>3. t # ""
      BY <1>4 DEF Complete
    <3>4. i \in Filled(opts, reply) <=> b[1] = t /\ (cs => b[2])
      BY <2>1, <3>3 DEF Filled
    <3> HIDE DEF b, t, cs
    <3>5. b \in {t} \X {TRUE, cs} <=> b[1] = t /\ (cs => b[2])
      BY <3>1, <3>2
    <3> QED BY <3>4, <3>5 DEF b, t, cs
  <2>4. Filled(opts, reply) \subseteq C
    BY <2>1 DEF Filled
  <2> QED BY <1>4, <2>1, <2>2, <2>3, <2>4
<1> QED BY <1>1, <1>2, <1>3, <1>4 DEF Shared

-----------------------------------------------------------------------------
(***************************************************************************)
(* What the properties say of one score.                                   *)
(***************************************************************************)
LEMMA FullMarks ==
  ASSUME NEW q \in QuestionRow, OneAnswer(q) \/ q.type \in Shared, NEW opts \in Seq(OptionRow),
         NEW ed, NEW reply \in Reply, NoRepeats(reply), Complete(q, opts, reply),
         Consistent(q, opts), Marked(q, opts)
  PROVE  Score(q, opts, ed, reply) = q.marks <=> Right(q, opts, ed, reply)
<1> DEFINE C == Correct(opts)
           E == Earned(q, opts, ed, reply)
           score == Score(q, opts, ed, reply)
<1>1. q.marks # 0 /\ C # {}
  BY DEF Marked, Consistent, QuestionRow
<1>2. CASE OneAnswer(q)
  <2>1. PICK c : C = {c} /\ score = IF reply.selected = <<Id(ed, c)>> THEN q.marks ELSE 0
    BY <1>2, OneChoice
  <2>2. Right(q, opts, ed, reply) <=> \E i \in C : reply.selected = <<Id(ed, i)>>
    <3>1. q.type = "mcq" \/ q.type = "true_false" \/ q.type = "dropdown"
      BY <1>2 DEF OneAnswer, SingleChoice
    <3> HIDE DEF C
    <3>2. \A r : Right(q, opts, ed, r) <=> \E i \in Correct(opts) : r.selected = <<Id(ed, i)>>
      BY <3>1 DEF Right, SingleChoice
    <3> QED BY <3>2 DEF C
  <2> HIDE DEF C, score
  <2> QED BY <1>1, <2>1, <2>2 DEF score
<1>3. CASE q.type \in Shared /\ q.allowPartialScoring
  <2>1. score = q.marks <=> E = C
    BY <1>3, PartialWithin
  <2>2. Right(q, opts, ed, reply) <=> E = C
    BY <1>3, RightIsAll
  <2> QED BY <2>1, <2>2
<1>4. CASE q.type \in Shared /\ ~q.allowPartialScoring
  <2>1. /\ q.type = "fill_blank" => Asked(opts, reply) = C
        /\ Right(q, opts, ed, reply) <=>
               E = C /\ (q.type = "multiple_answer" => Range(reply.selected) \subseteq Ids(ed, C))
    BY <1>4, RightIsAll
  <2>2. CASE q.type = "multiple_answer"
    <3>1. score = IF C # {} /\ Range(reply.selected) = Ids(ed, C) THEN q.marks ELSE 0
      BY <1>4, <2>2, MultipleAnswer DEF Score, SingleChoice
    <3>2. E = C <=> Ids(ed, C) \subseteq Range(reply.selected)
      BY <2>2 DEF Earned, Selected, Ids
    <3>3. Right(q, opts, ed, reply) <=> Range(reply.selected) = Ids(ed, C)
      <4> DEFINE chosen == Range(reply.selected)
                 key == Ids(ed, C)
      <4> HIDE DEF C, E, score, chosen, key
      <4>1. Right(q, opts, ed, reply) <=> key \subseteq chosen /\ chosen \subseteq key
        BY <2>1, <2>2, <3>2 DEF chosen, key
      <4>2. key \subseteq chosen /\ chosen \subseteq key <=> chosen = key
        OBVIOUS
      <4> QED BY <4>1, <4>2 DEF chosen, key
    <3> HIDE DEF C, E, score
    <3>4. score = q.marks <=> Range(reply.selected) = Ids(ed, C)
      BY <1>1, <3>1
    <3> QED BY <3>3, <3>4 DEF score
  <2>3. CASE q.type = "fill_blank"
    <3>1. /\ score = IF C # {} /\ Filled(opts, reply) = C THEN q.marks ELSE 0
          /\ E = Filled(opts, reply)
      BY <1>4, <2>1, <2>3, FillBlank DEF Score, SingleChoice, Earned
    <3> HIDE DEF C, E, score
    <3> QED BY <1>1, <2>1, <2>3, <3>1 DEF score
  <2>4. CASE q.type = "match"
    <3>1. /\ score = IF C # {} /\ reply.matches # <<>> /\ Matched(opts, ed, reply) = C
                     THEN q.marks ELSE 0
          /\ E = Matched(opts, ed, reply)
      BY <1>4, <2>4, MatchInFull DEF Score, SingleChoice, Earned
    <3>2. reply.matches = <<>> => E = {}
      BY <3>1 DEF Matched
    <3> HIDE DEF C, E, score
    <3> QED BY <1>1, <2>1, <2>4, <3>1, <3>2 DEF score
  <2> QED BY <1>4, <2>2, <2>3, <2>4 DEF Shared
<1> QED BY <1>2, <1>3, <1>4

\* Nothing but x is selected, and it once.
LEMMA OnlyOne ==
  ASSUME NEW S, NEW s \in Seq(S), IsInjective(s), NEW x
  PROVE  Range(s) = {x} <=> s = <<x>>
<1>1. ASSUME s = <<x>> PROVE Range(s) = {x}
  BY <1>1 DEF Range
<1>2. ASSUME Range(s) = {x} PROVE s = <<x>>
  <2>1. Len(s) \in Nat /\ DOMAIN s = 1 .. Len(s)
    OBVIOUS
  <2>2. \A i \in 1 .. Len(s) : s[i] = x
    BY <1>2, <2>1 DEF Range
  <2>3. \A i, j \in 1 .. Len(s) : i = j
    BY <2>1, <2>2 DEF IsInjective
  <2>4. \E i \in 1 .. Len(s) : TRUE
    BY <1>2, <2>1 DEF Range
  <2>5. Len(s) = 1
    <3>1. Len(s) >= 1
      BY <2>1, <2>4
    <3>2. ~ (Len(s) >= 2)
      <4>1. SUFFICES ASSUME Len(s) >= 2 PROVE FALSE
        OBVIOUS
      <4>2. 1 \in 1 .. Len(s) /\ 2 \in 1 .. Len(s)
        BY <2>1, <4>1
      <4>3. 1 = 2
        BY <2>3, <4>2
      <4> QED BY <4>3
    <3> QED BY <2>1, <3>1, <3>2
  <2>6. s[1] = x
    BY <2>2, <2>5
  <2> QED BY <2>1, <2>5, <2>6
<1> QED BY <1>1, <1>2

LEMMA ShownIfScored ==
  ASSUME NEW q \in QuestionRow,
         q.type = "multiple_answer" \/ (q.type \in SingleChoice /\ ~q.allowPartialScoring),
         NEW opts \in Seq(OptionRow), NEW ed, NEW reply \in Reply, NoRepeats(reply),
         Consistent(q, opts), Marked(q, opts)
  PROVE  IsCorrect(q, opts, ed, reply, Score(q, opts, ed, reply), TRUE)
            <=> Score(q, opts, ed, reply) > 0
<1> DEFINE C == Correct(opts)
           score == Score(q, opts, ed, reply)
           chosen == Range(reply.selected)
<1>1. q.marks \in Int /\ q.marks > 0 /\ C # {}
  BY DEF Marked, Consistent, QuestionRow
<1>2. IsCorrect(q, opts, ed, reply, score, TRUE) <=> SelectionShown(q, opts, ed, reply, TRUE)
  BY DEF IsCorrect, SingleChoice
<1>3. SelectionShown(q, opts, ed, reply, TRUE) <=>
        IF q.allowPartialScoring THEN chosen \cap Ids(ed, C) # {}
        ELSE Ids(ed, C) # {} /\ chosen = Ids(ed, C)
  BY DEF SelectionShown
<1>4. Ids(ed, C) # {}
  BY <1>1 DEF Ids
<1>5. CASE q.type \in SingleChoice /\ ~q.allowPartialScoring
  <2>1. PICK c : C = {c} /\ score = IF reply.selected = <<Id(ed, c)>> THEN q.marks ELSE 0
    BY <1>5, OneChoice DEF OneAnswer
  <2>2. Ids(ed, C) = {Id(ed, c)}
    BY <2>1 DEF Ids
  <2>3. chosen = {Id(ed, c)} <=> reply.selected = <<Id(ed, c)>>
    BY OnlyOne DEF NoRepeats, Reply
  <2> HIDE DEF C, score, chosen
  <2>4. score > 0 <=> reply.selected = <<Id(ed, c)>>
    BY <1>1, <2>1
  <2> QED BY <1>2, <1>3, <1>5, <2>2, <2>3, <2>4 DEF score
<1>6. CASE q.type = "multiple_answer" /\ q.allowPartialScoring
  <2>1. score > 0 <=> Earned(q, opts, ed, reply) # {}
    BY <1>6, PartialWithin DEF Shared
  <2>2. Earned(q, opts, ed, reply) = {i \in C : Id(ed, i) \in chosen}
    BY <1>6 DEF Earned, Selected
  <2>3. Earned(q, opts, ed, reply) # {} <=> chosen \cap Ids(ed, C) # {}
    BY <2>2 DEF Ids
  <2> QED BY <1>2, <1>3, <1>6, <2>1, <2>3
<1>7. CASE q.type = "multiple_answer" /\ ~q.allowPartialScoring
  <2>1. score = IF C # {} /\ chosen = Ids(ed, C) THEN q.marks ELSE 0
    BY <1>7, MultipleAnswer DEF Score, SingleChoice
  <2> HIDE DEF C, score, chosen
  <2>2. score > 0 <=> chosen = Ids(ed, C)
    BY <1>1, <2>1
  <2> QED BY <1>2, <1>3, <1>4, <1>7, <2>2 DEF score
<1> QED BY <1>5, <1>6, <1>7

-----------------------------------------------------------------------------
(***************************************************************************)
(* Validation.                                                             *)
(***************************************************************************)
LEMMA RowsType ==
  ASSUME NEW opts \in Seq(OptionDto) \cup {None}
  PROVE  Rows(opts) \in Seq(OptionRow)
<1>1. CASE opts = None
  BY <1>1 DEF Rows
<1>2. CASE opts # None
  <2> DEFINE row(i) == [opts[i] EXCEPT !.marks = IF opts[i].marks = None THEN 0 ELSE opts[i].marks]
  <2>1. opts \in Seq(OptionDto)
    BY <1>2
  <2>2. Len(opts) \in Nat /\ DOMAIN opts = 1 .. Len(opts)
        /\ \A i \in 1 .. Len(opts) : opts[i] \in OptionDto
    BY <2>1
  <2>3. Rows(opts) = [i \in 1 .. Len(opts) |-> row(i)]
    BY <1>2, <2>2 DEF Rows
  <2>4. ASSUME NEW i \in 1 .. Len(opts) PROVE row(i) \in OptionRow
    <3>1. opts[i] \in OptionDto
      BY <2>2
    <3> DEFINE o == opts[i]
    <3> HIDE DEF o
    <3>2. ASSUME o \in OptionDto
          PROVE  [o EXCEPT !.marks = IF o.marks = None THEN 0 ELSE o.marks] \in OptionRow
      BY <3>2 DEF OptionDto, OptionRow
    <3> QED BY <3>1, <3>2 DEF o
  <2> HIDE DEF row
  <2>5. [i \in 1 .. Len(opts) |-> row(i)] \in [1 .. Len(opts) -> OptionRow]
    BY <2>4
  <2> QED BY <2>2, <2>3, <2>5
<1> QED BY <1>1, <1>2

LEMMA RowType ==
  ASSUME NEW dto \in QuestionDto
  PROVE  Row(dto) \in QuestionRow
  BY DEF Row, QuestionDto, QuestionRow

\* What is stored of the options that are sent.
LEMMA RowsKeep ==
  ASSUME NEW opts \in Seq(OptionDto), opts # None
  PROVE  /\ DOMAIN Rows(opts) = DOMAIN opts /\ Correct(Rows(opts)) = Correct(opts)
         /\ \A i \in DOMAIN opts :
                /\ Rows(opts)[i].blankIndex = opts[i].blankIndex
                /\ opts[i].marks # None => Rows(opts)[i].marks = opts[i].marks
<1>1. \A i \in DOMAIN opts : opts[i] \in OptionDto
  OBVIOUS
<1>2. /\ DOMAIN Rows(opts) = DOMAIN opts
      /\ \A i \in DOMAIN opts : Rows(opts)[i] =
            [opts[i] EXCEPT !.marks = IF opts[i].marks = None THEN 0 ELSE opts[i].marks]
  BY DEF Rows
<1>3. \A i \in DOMAIN opts :
        /\ Rows(opts)[i].isCorrect = opts[i].isCorrect
        /\ Rows(opts)[i].blankIndex = opts[i].blankIndex
        /\ opts[i].marks # None => Rows(opts)[i].marks = opts[i].marks
  <2> TAKE i \in DOMAIN opts
  <2> DEFINE o == opts[i]
             r == Rows(opts)[i]
  <2>1. o \in OptionDto /\ r = [o EXCEPT !.marks = IF o.marks = None THEN 0 ELSE o.marks]
    BY <1>1, <1>2
  <2> HIDE DEF o, r
  <2>2. r.isCorrect = o.isCorrect /\ r.blankIndex = o.blankIndex
        /\ (o.marks # None => r.marks = o.marks)
    BY <2>1 DEF OptionDto
  <2> QED BY <2>2 DEF o, r
<1> QED BY <1>2, <1>3 DEF Correct

\* A question that is accepted has something to get right, and is worth its marks.
LEMMA AcceptedFits ==
  ASSUME NEW dto \in QuestionDto, Accepts(dto, dto.options, FALSE),
         dto.gradingType \notin FormStyle,
         dto.type \notin {"rating", "subjective", "essay", "file"},
         dto.marks # None, dto.options \notin {None, <<>>},
         dto.type = "fill_blank" =>
            \A i \in Correct(dto.options) : dto.options[i].blankIndex # None
  PROVE  LET opts == dto.options
         IN  /\ Correct(opts) # {}
             /\ OneAnswer(dto) => Cardinality(Correct(opts)) = 1
             /\ dto.allowPartialScoring => /\ \A i \in Correct(opts) : opts[i].marks # None
                                           /\ Total(opts, Correct(opts)) = dto.marks
<1> DEFINE opts == dto.options
           C == Correct(opts)
           W == WithBlank(opts, FALSE)
<1>1. OptionsFit(dto, opts, FALSE) /\ (dto.allowPartialScoring => PartialFits(dto, opts, FALSE))
  BY DEF Accepts, Fits
<1>2. dto.type \in {"mcq", "true_false", "multiple_answer", "fill_blank", "match", "dropdown",
                    "checkbox"}
  BY DEF QuestionDto, Types, SingleChoice
<1>3. CASE dto.type \in SingleChoice
  <2>1. Cardinality(C) = 1
    BY <1>1, <1>3 DEF OptionsFit
  <2>2. C # {}
    <3> HIDE DEF C
    <3>1. Cardinality({}) = 0
      BY FS_EmptySet
    <3> QED BY <2>1, <3>1
  <2>3. ~dto.allowPartialScoring
    BY <1>1, <1>3 DEF PartialFits, SingleChoice
  <2> QED BY <2>1, <2>2, <2>3
<1>4. CASE dto.type = "multiple_answer"
  <2>1. C # {} /\ ~OneAnswer(dto)
    BY <1>1, <1>4 DEF OptionsFit, OneAnswer, SingleChoice
  <2>2. ASSUME dto.allowPartialScoring
        PROVE  (\A i \in C : opts[i].marks # None) /\ Total(opts, C) = dto.marks
    BY <1>1, <1>4, <2>2 DEF PartialFits, ChoicesPartial, AddUp
  <2> QED BY <2>1, <2>2
<1>5. CASE dto.type = "match"
  <2>1. C # {} /\ ~OneAnswer(dto)
    BY <1>1, <1>5 DEF OptionsFit, MatchesFit, OneAnswer, SingleChoice
  <2>2. ASSUME dto.allowPartialScoring
        PROVE  (\A i \in C : opts[i].marks # None) /\ Total(opts, C) = dto.marks
    BY <1>1, <1>5, <2>2 DEF PartialFits, ChoicesPartial, AddUp
  <2> QED BY <2>1, <2>2
<1>6. CASE dto.type = "fill_blank"
  <2>1. C # {} /\ ~OneAnswer(dto)
    BY <1>1, <1>6 DEF OptionsFit, BlanksFit, OneAnswer, SingleChoice
  <2>2. W \cap C = C
    BY <1>6 DEF WithBlank, Correct
  <2>3. ASSUME dto.allowPartialScoring
        PROVE  (\A i \in C : opts[i].marks # None) /\ Total(opts, C) = dto.marks
    <3>1. BlanksPartial(dto, opts, FALSE)
      BY <1>1, <1>6, <2>3 DEF PartialFits
    <3>2. /\ \A i \in W \cap C : opts[i].marks # None
          /\ Total(opts, W \cap C) = dto.marks
      BY <3>1 DEF BlanksPartial, AddUp
    <3> HIDE DEF W, C
    <3> QED BY <2>2, <3>2
  <2> QED BY <2>1, <2>3
<1>7. CASE dto.type \in {"dropdown", "checkbox"}
  <2>1. C # {} /\ (OneAnswer(dto) => Cardinality(C) = 1)
    BY <1>1, <1>7 DEF OptionsFit, DropdownFits, OneAnswer, SingleChoice
  <2>2. ~dto.allowPartialScoring
    BY <1>1, <1>7 DEF PartialFits
  <2> QED BY <2>1, <2>2
<1> QED BY <1>2, <1>3, <1>4, <1>5, <1>6, <1>7 DEF SingleChoice

LEMMA AcceptedIsConsistent ==
  ASSUME NEW dto \in QuestionDto, Accepts(dto, dto.options, FALSE),
         dto.gradingType \notin FormStyle,
         dto.type \notin {"rating", "subjective", "essay", "file"},
         dto.marks # None, dto.options \notin {None, <<>>},
         NEW q, q = Row(dto), NEW opts, opts = Rows(dto.options),
         dto.type = "fill_blank" => \A i \in Correct(opts) : opts[i].blankIndex # None
  PROVE  Consistent(q, opts)
<1> DEFINE given == dto.options
           C == Correct(given)
<1>1. given \in Seq(OptionDto) /\ given # None
  BY DEF QuestionDto
<1>2. /\ DOMAIN opts = DOMAIN given /\ Correct(opts) = C
      /\ \A i \in DOMAIN given :
            /\ opts[i].blankIndex = given[i].blankIndex
            /\ given[i].marks # None => opts[i].marks = given[i].marks
  BY <1>1, RowsKeep
<1>3. C \subseteq DOMAIN given
  BY DEF Correct
<1>4. /\ C # {} /\ (OneAnswer(dto) => Cardinality(C) = 1)
      /\ dto.allowPartialScoring => /\ \A i \in C : given[i].marks # None
                                    /\ Total(given, C) = dto.marks
  <2>1. dto.type = "fill_blank" => \A i \in Correct(dto.options) : dto.options[i].blankIndex # None
    BY <1>2, <1>3
  <2> QED BY <2>1, AcceptedFits
<1>5. /\ q.type = dto.type /\ q.allowPartialScoring = dto.allowPartialScoring
      /\ q.marks = dto.marks /\ q.allowMultiple = dto.allowMultiple
  BY DEF Row
<1>6. OneAnswer(q) <=> OneAnswer(dto)
  BY <1>5 DEF OneAnswer
<1>7. ASSUME dto.allowPartialScoring PROVE Total(opts, C) = dto.marks
  <2>1. Total(opts, C) = Total(given, C)
    <3>1. \A i \in C : opts[i].marks = given[i].marks
      BY <1>2, <1>3, <1>4, <1>7
    <3> HIDE DEF C
    <3> QED BY <1>2, <3>1, TotalAlike
  <2> QED BY <1>4, <1>7, <2>1
<1> QED BY <1>2, <1>4, <1>5, <1>6, <1>7 DEF Consistent

-----------------------------------------------------------------------------
(***************************************************************************)
(* The state: its types, and that an edition has one list of options.      *)
(***************************************************************************)
Edits == {NoEdit} \cup [pc : {"delete", "save"}, options : Seq(OptionDto)]
Answers(ed) == {Unanswered}
    \cup [pc : {"read"}, seen : QuestionRow, reply : Reply]
    \cup [pc : {"given"}, seen : QuestionRow, reply : Reply, of : 1 .. ed, score : Int]

Typed ==
    /\ question \in QuestionRow \cup {None}
    /\ options \in Seq(OptionRow)
    /\ edits \in 0 .. MaxEdits /\ edition \in 1 .. edits + 1
    /\ edit \in Edits /\ (edit # NoEdit => edition <= edits)
    /\ created \in QuestionDto \cup {None}
    /\ answer \in [Students -> Answers(edition)]

LEMMA AnswersGrow ==
  ASSUME NEW m \in Nat, NEW n \in Nat, m <= n
  PROVE  Answers(m) \subseteq Answers(n)
<1>1. 1 .. m \subseteq 1 .. n
  OBVIOUS
<1> QED BY <1>1 DEF Answers

LEMMA TypedInit ==
  Init => Typed
<1>1. 0 \in 0 .. MaxEdits /\ 1 \in 1 .. 0 + 1
  BY ScoringAssumption
<1>2. Unanswered \in Answers(1) /\ NoEdit \in Edits
  BY DEF Answers, Edits
<1> QED BY <1>1, <1>2 DEF Init, Typed

LEMMA TypedCreate ==
  ASSUME Typed, NEW dto \in Dtos, Create(dto)
  PROVE  Typed'
<1>1. dto \in QuestionDto
  BY ScoringAssumption
<1>2. Row(dto) \in QuestionRow /\ Rows(dto.options) \in Seq(OptionRow)
  BY <1>1, RowType, RowsType DEF QuestionDto
<1> QED BY <1>1, <1>2 DEF Typed, Create

LEMMA UpdatedRow ==
  ASSUME Typed, NEW patch \in Patches, Update(patch)
  PROVE  question' \in QuestionRow
<1>1. patch \in Patch
  BY ScoringAssumption
<1>2. question \in QuestionRow
  BY DEF Typed, Update
<1> DEFINE Field(f) == IF f \in DOMAIN patch /\ patch[f] # None THEN patch[f] ELSE question[f]
<1>3. DOMAIN question = {"type", "marks", "allowPartialScoring", "allowMultiple", "gradingType"}
  BY <1>2 DEF QuestionRow
<1>4. question' = [f \in DOMAIN question |-> Field(f)]
  BY DEF Update
<1>5. /\ question["type"] \in Types /\ question["marks"] \in Int
      /\ question["allowPartialScoring"] \in BOOLEAN
      /\ question["allowMultiple"] \in BOOLEAN /\ question["gradingType"] \in Gradings
  BY <1>2 DEF QuestionRow
<1>6. /\ DOMAIN patch = {"type", "marks", "allowPartialScoring", "options"}
      /\ patch["type"] \in Types \cup {None} /\ patch["marks"] \in Int \cup {None}
      /\ patch["allowPartialScoring"] \in BOOLEAN \cup {None}
  BY <1>1 DEF Patch
<1>7. /\ Field("type") \in Types /\ Field("marks") \in Int
      /\ Field("allowPartialScoring") \in BOOLEAN
      /\ Field("allowMultiple") \in BOOLEAN /\ Field("gradingType") \in Gradings
  BY <1>5, <1>6
<1> HIDE DEF Field
<1>8. [f \in DOMAIN question |-> Field(f)] =
          [type |-> Field("type"), marks |-> Field("marks"),
           allowPartialScoring |-> Field("allowPartialScoring"),
           allowMultiple |-> Field("allowMultiple"), gradingType |-> Field("gradingType")]
  BY <1>3
<1> QED BY <1>4, <1>7, <1>8 DEF QuestionRow

LEMMA TypedUpdate ==
  ASSUME Typed, NEW patch \in Patches, Update(patch)
  PROVE  Typed'
<1>1. patch \in Patch /\ MaxEdits \in Nat
  BY ScoringAssumption
<1>2. question \in QuestionRow /\ edit = NoEdit /\ edits < MaxEdits /\ edits' = edits + 1
  BY DEF Typed, Update
<1>3. question' \in QuestionRow
  BY UpdatedRow
<1>4. edit' \in Edits
  <2>1. patch.options \in Seq(OptionDto) \cup {None}
    BY <1>1 DEF Patch
  <2>2. edit' = IF patch.options = None THEN NoEdit
               ELSE [pc |-> "delete", options |-> patch.options]
    BY DEF Update
  <2> QED BY <2>1, <2>2 DEF Edits
<1>5. /\ edits' \in 0 .. MaxEdits /\ edition' \in 1 .. edits' + 1 /\ edition' <= edits'
      /\ edition' = edition /\ options' = options /\ created' = created /\ answer' = answer
  BY <1>1, <1>2 DEF Typed, Update
<1> QED BY <1>3, <1>4, <1>5 DEF Typed

LEMMA TypedEdit ==
  ASSUME Typed, DeleteOptions \/ SaveOptions \/ UpdateFails
  PROVE  Typed'
<1>0. MaxEdits \in Nat
  BY ScoringAssumption
<1>1. CASE DeleteOptions
  <2>1. edit \in [pc : {"delete", "save"}, options : Seq(OptionDto)] /\ edit # NoEdit
    BY <1>1 DEF DeleteOptions, Typed, Edits, NoEdit
  <2>2. [edit EXCEPT !.pc = "save"] \in Edits /\ <<>> \in Seq(OptionRow)
    BY <2>1 DEF Edits
  <2> QED BY <1>1, <2>1, <2>2 DEF DeleteOptions, Typed
<1>2. CASE SaveOptions
  <2>1. edit.options \in Seq(OptionDto) /\ edit # NoEdit
    BY <1>2 DEF SaveOptions, Typed, Edits, NoEdit
  <2>2. Rows(edit.options) \in Seq(OptionRow)
    BY <2>1, RowsType
  <2>3. edition \in Nat /\ edits \in 0 .. MaxEdits /\ edition >= 1 /\ edition <= edits
    BY <2>1, <1>0 DEF Typed
  <2>4. /\ edition' = edition + 1 /\ edits' = edits /\ edit' = NoEdit
        /\ answer' = answer /\ question' = question /\ created' = created
        /\ options' = Rows(edit.options)
    BY <1>2 DEF SaveOptions
  <2>5. edition' \in 1 .. edits' + 1 /\ edition \in Nat /\ edition' \in Nat /\ edition <= edition'
    BY <1>0, <2>3, <2>4
  <2>6. Answers(edition) \subseteq Answers(edition')
    BY <2>5, AnswersGrow
  <2>7. answer' \in [Students -> Answers(edition')]
    BY <2>4, <2>6 DEF Typed
  <2>8. NoEdit \in Edits
    BY DEF Edits
  <2> QED BY <2>2, <2>3, <2>4, <2>5, <2>7, <2>8 DEF Typed
<1>3. CASE UpdateFails
  BY <1>3 DEF UpdateFails, Typed, Edits
<1> QED BY <1>1, <1>2, <1>3

LEMMA TypedSubmit ==
  ASSUME Typed, NEW s \in Students, Submit(s)
  PROVE  Typed'
<1>1. question \in QuestionRow /\ question.type \in Types
  BY DEF Typed, Submit, QuestionRow
<1>2. PICK ed \in 1 .. edition : \E reply \in Replies[question.type][ed] :
        answer' = [answer EXCEPT ![s] = [pc |-> "read", seen |-> question, reply |-> reply]]
  BY DEF Submit
<1>3. PICK reply \in Replies[question.type][ed] :
        answer' = [answer EXCEPT ![s] = [pc |-> "read", seen |-> question, reply |-> reply]]
  BY <1>2
<1>4. ed \in 1 .. MaxEdits + 1
  BY ScoringAssumption DEF Typed
<1>5. reply \in Reply
  BY <1>1, <1>3, <1>4, ScoringAssumption
<1> DEFINE a == [pc |-> "read", seen |-> question, reply |-> reply]
<1>6. a \in Answers(edition)
  BY <1>1, <1>5 DEF Answers
<1> HIDE DEF a
<1>7. answer' = [answer EXCEPT ![s] = a]
  BY <1>3 DEF a
<1>8. answer' \in [Students -> Answers(edition)]
  BY <1>6, <1>7 DEF Typed
<1> QED BY <1>8 DEF Typed, Submit

LEMMA Reading ==
  ASSUME Typed, NEW s \in Students, answer[s].pc = "read"
  PROVE  answer[s].seen \in QuestionRow /\ answer[s].reply \in Reply
  BY DEF Typed, Answers, Unanswered

\* The answer scored: with the options as they are.
Given(a, opts, ed) ==
    [pc |-> "given", seen |-> a.seen, reply |-> a.reply, of |-> ed,
     score |-> Score(a.seen, opts, ed, a.reply)]

LEMMA ScoreStep ==
  ASSUME NEW s, ScoreAnswer(s)
  PROVE  /\ answer[s].pc = "read"
         /\ answer' = [answer EXCEPT ![s] = Given(answer[s], options, edition)]
         /\ UNCHANGED <<question, options, edition, edit, edits, created>>
  BY DEF ScoreAnswer, Given

LEMMA TypedScore ==
  ASSUME Typed, NEW s \in Students, ScoreAnswer(s)
  PROVE  Typed'
<1>1. /\ answer[s].pc = "read"
      /\ answer' = [answer EXCEPT ![s] = Given(answer[s], options, edition)]
      /\ UNCHANGED <<question, options, edition, edit, edits, created>>
  BY ScoreStep
<1>2. answer[s].seen \in QuestionRow /\ answer[s].reply \in Reply
  BY <1>1, Reading
<1>3. Score(answer[s].seen, options, edition, answer[s].reply) \in Int
  BY <1>2, ScoreType DEF Typed
<1>4. edition \in 1 .. edition
  BY DEF Typed
<1>5. Given(answer[s], options, edition) \in Answers(edition)
  BY <1>2, <1>3, <1>4 DEF Given, Answers
<1>6. answer' \in [Students -> Answers(edition)]
  BY <1>1, <1>5 DEF Typed
<1> QED BY <1>1, <1>6 DEF Typed

LEMMA TypedStep ==
  ASSUME Typed, [Next]_vars
  PROVE  Typed'
<1>1. CASE UNCHANGED vars
  BY <1>1 DEF vars, Typed
<1> QED BY <1>1, TypedCreate, TypedUpdate, TypedEdit, TypedSubmit, TypedScore DEF Next

LEMMA AlwaysTyped == Spec => []Typed
  BY TypedInit, TypedStep, PTL DEF Spec

(***************************************************************************)
(* The rows, the requests and the answers are what their types say, for    *)
(* any questions, changes and answers, and the editions are no more than   *)
(* the changes.                                                            *)
(***************************************************************************)
THEOREM TypeCorrect == Spec => []TypeOK
<1>1. ASSUME Typed PROVE TypeOK
  <2>1. edition \in 1 .. MaxEdits + 1
    BY <1>1, ScoringAssumption DEF Typed
  <2>2. edit = NoEdit \/ (edit.pc \in {"delete", "save"} /\ edit.options \in Seq(OptionDto))
    BY <1>1 DEF Typed, Edits
  <2>3. ASSUME NEW s \in Students, NEW a, a = answer[s]
        PROVE  \/ a = Unanswered
               \/ /\ a.pc \in {"read", "given"} /\ a.seen \in QuestionRow /\ a.reply \in Reply
                  /\ a.pc = "given" => a.score \in Int /\ a.of \in 1 .. edition
    <3>1. a \in Answers(edition)
      BY <1>1, <2>3 DEF Typed
    <3> QED BY <3>1 DEF Answers
  <2> QED BY <1>1, <2>1, <2>2, <2>3 DEF TypeOK, Typed
<1> QED BY <1>1, AlwaysTyped, PTL

-----------------------------------------------------------------------------
(***************************************************************************)
(* A question that was not changed is as it was accepted.                  *)
(***************************************************************************)
AsAccepted(dto) ==
    /\ Accepts(dto, dto.options, FALSE)
    /\ question = Row(dto) /\ options = Rows(dto.options)

CreatedInv == created # None /\ edits = 0 => AsAccepted(created)

LEMMA CreatedStep ==
  ASSUME Typed, CreatedInv, [Next]_vars
  PROVE  CreatedInv'
<1>1. ASSUME NEW dto \in Dtos, Create(dto) PROVE CreatedInv'
  BY <1>1 DEF Create, CreatedInv, AsAccepted
<1>2. ASSUME NEW patch \in Patches, Update(patch) PROVE CreatedInv'
  <2>1. edits' # 0
    BY <1>2, ScoringAssumption DEF Update, Typed
  <2> QED BY <2>1 DEF CreatedInv
<1>3. CASE DeleteOptions \/ SaveOptions \/ UpdateFails
  <2>1. edit # NoEdit /\ edits' = edits
    BY <1>3 DEF DeleteOptions, SaveOptions, UpdateFails, NoEdit
  <2>2. edits # 0
    BY <2>1, ScoringAssumption DEF Typed
  <2> QED BY <2>1, <2>2 DEF CreatedInv
<1>4. ASSUME NEW s \in Students, Submit(s) \/ ScoreAnswer(s) PROVE CreatedInv'
  <2>1. UNCHANGED <<question, options, edits, created>>
    BY <1>4 DEF Submit, ScoreAnswer
  <2> QED BY <2>1 DEF CreatedInv, AsAccepted
<1>5. CASE UNCHANGED vars
  BY <1>5 DEF vars, CreatedInv, AsAccepted
<1> QED BY <1>1, <1>2, <1>3, <1>4, <1>5 DEF Next

(***************************************************************************)
(* The score of an answer is that of the options of its edition, as long   *)
(* as they are there.                                                      *)
(***************************************************************************)
NoneGiven == question = None => \A s \in Students : answer[s] = Unanswered

ScoredBy(a, opts, ed) ==
    a.pc = "given" /\ a.of = ed /\ opts # <<>> => a.score = Score(a.seen, opts, ed, a.reply)

ScoresInv == NoneGiven /\ \A s \in Students : ScoredBy(answer[s], options, edition)

LEMMA ScoresStep ==
  ASSUME Typed, ScoresInv, [Next]_vars
  PROVE  ScoresInv'
<1>1. ASSUME NEW dto \in Dtos, Create(dto) PROVE ScoresInv'
  <2>1. question' # None \/ question' = None
    OBVIOUS
  <2>2. \A s \in Students : answer[s] = Unanswered /\ answer' = answer
    BY <1>1 DEF Create, ScoresInv, NoneGiven
  <2>3. \A s \in Students : ScoredBy(answer'[s], options', edition')
    BY <2>2 DEF ScoredBy, Unanswered
  <2> QED BY <2>2, <2>3 DEF ScoresInv, NoneGiven
<1>2. ASSUME NEW patch \in Patches, Update(patch) PROVE ScoresInv'
  <2>1. question # None /\ UNCHANGED <<options, edition, answer>>
    BY <1>2 DEF Update
  <2>2. question' # None
    <3>1. question' \in QuestionRow
      BY <1>2, UpdatedRow
    <3> QED BY <3>1, ScoringAssumption
  <2> QED BY <2>1, <2>2 DEF ScoresInv, NoneGiven
<1>3. CASE DeleteOptions
  <2>1. options' = <<>> /\ UNCHANGED <<question, answer>>
    BY <1>3 DEF DeleteOptions
  <2>2. \A s \in Students : ScoredBy(answer'[s], options', edition')
    BY <2>1 DEF ScoredBy
  <2> QED BY <2>1, <2>2 DEF ScoresInv, NoneGiven
<1>4. CASE SaveOptions
  <2>1. edition' = edition + 1 /\ UNCHANGED <<question, answer>>
    BY <1>4 DEF SaveOptions
  <2>2. ASSUME NEW s \in Students, answer[s].pc = "given" PROVE answer[s].of # edition'
    <3>1. answer[s] \in Answers(edition) /\ edition \in Nat
      BY DEF Typed
    <3>2. answer[s].of \in 1 .. edition
      BY <2>2, <3>1 DEF Answers, Unanswered
    <3> QED BY <2>1, <3>1, <3>2
  <2>3. \A s \in Students : ScoredBy(answer'[s], options', edition')
    BY <2>1, <2>2 DEF ScoredBy
  <2> QED BY <2>1, <2>3 DEF ScoresInv, NoneGiven
<1>5. CASE UpdateFails \/ UNCHANGED vars
  BY <1>5 DEF UpdateFails, vars, ScoresInv, NoneGiven
<1>6. ASSUME NEW s \in Students, Submit(s) PROVE ScoresInv'
  <2>1. /\ question # None /\ UNCHANGED <<question, options, edition>>
        /\ \E a : a.pc = "read" /\ answer' = [answer EXCEPT ![s] = a]
    BY <1>6 DEF Submit
  <2>2. PICK a : a.pc = "read" /\ answer' = [answer EXCEPT ![s] = a]
    BY <2>1
  <2>3. \A x \in Students : answer'[x] = IF x = s THEN a ELSE answer[x]
    BY <2>2 DEF Typed
  <2>4. \A x \in Students : ScoredBy(answer'[x], options, edition)
    BY <2>2, <2>3 DEF ScoredBy, ScoresInv
  <2> QED BY <2>1, <2>4 DEF ScoresInv, NoneGiven
<1>7. ASSUME NEW s \in Students, ScoreAnswer(s) PROVE ScoresInv'
  <2>1. /\ answer[s].pc = "read"
        /\ answer' = [answer EXCEPT ![s] = Given(answer[s], options, edition)]
        /\ UNCHANGED <<question, options, edition>>
    BY <1>7, ScoreStep
  <2>2. question # None
    BY <2>1 DEF ScoresInv, NoneGiven, Unanswered
  <2>3. \A x \in Students :
            answer'[x] = IF x = s THEN Given(answer[s], options, edition) ELSE answer[x]
    BY <2>1 DEF Typed
  <2>4. ScoredBy(Given(answer[s], options, edition), options, edition)
    BY DEF ScoredBy, Given
  <2>5. \A x \in Students : ScoredBy(answer'[x], options, edition)
    BY <2>3, <2>4 DEF ScoresInv
  <2> QED BY <2>1, <2>2, <2>5 DEF ScoresInv, NoneGiven
<1> QED BY <1>1, <1>2, <1>3, <1>4, <1>5, <1>6, <1>7 DEF Next

StateInv == Typed /\ CreatedInv /\ ScoresInv

LEMMA AlwaysInState == Spec => []StateInv
<1>1. Init => StateInv
  <2>1. Init => CreatedInv /\ ScoresInv
    BY DEF Init, CreatedInv, ScoresInv, NoneGiven, ScoredBy, Unanswered
  <2> QED BY <2>1, TypedInit DEF StateInv
<1>2. StateInv /\ [Next]_vars => StateInv'
  BY TypedStep, CreatedStep, ScoresStep DEF StateInv
<1> QED BY <1>1, <1>2, PTL DEF Spec

-----------------------------------------------------------------------------
(***************************************************************************)
(* validateQuestionOptions: whatever question it accepts, of any number of *)
(* options with any marks, is consistent: it has something to get right,   *)
(* one thing if one can be answered, and the options add up to its marks   *)
(* if they count.                                                          *)
(***************************************************************************)
THEOREM ValidationHolds == Spec => []ValidationSuffices
<1>1. ASSUME StateInv,
             created # None, edits = 0, created.gradingType \notin FormStyle,
             created.type \notin {"rating", "subjective", "essay", "file"},
             created.marks # None, created.options \notin {None, <<>>},
             created.type = "fill_blank" =>
                \A i \in Correct(options) : options[i].blankIndex # None
      PROVE  Consistent(question, options)
  <2>1. created \in QuestionDto /\ AsAccepted(created)
    BY <1>1 DEF StateInv, Typed, CreatedInv
  <2> QED BY <1>1, <2>1, AcceptedIsConsistent DEF AsAccepted
<1>2. StateInv => ValidationSuffices
  BY <1>1 DEF ValidationSuffices
<1> QED BY <1>2, AlwaysInState, PTL

(***************************************************************************)
(* getAttemptAnswersheet: of the choices of any answer to any consistent   *)
(* question, those shown as correct are those that scored, until the       *)
(* question changes.                                                       *)
(***************************************************************************)
THEOREM SheetIsRight == Spec => []SheetAgrees
<1>1. ASSUME StateInv, edit = NoEdit, NEW s \in Students, NEW a, a = answer[s],
             a.pc = "given", a.seen = question, a.of = edition,
             \/ question.type = "multiple_answer"
             \/ question.type \in SingleChoice /\ ~question.allowPartialScoring,
             Consistent(question, options), Marked(question, options), NoRepeats(a.reply)
      PROVE  IsCorrect(question, options, edition, a.reply, a.score, TRUE) <=> a.score > 0
  <2>1. a.seen \in QuestionRow /\ a.reply \in Reply
    BY <1>1 DEF StateInv, Typed, Answers, Unanswered
  <2>2. options \in Seq(OptionRow) /\ options # <<>>
    BY <1>1 DEF StateInv, Typed, Consistent, Correct
  <2>3. a.score = Score(question, options, edition, a.reply)
    BY <1>1, <2>2 DEF StateInv, ScoresInv, ScoredBy
  <2>4. question \in QuestionRow
    BY <1>1, <2>1
  <2> QED BY <1>1, <2>1, <2>2, <2>3, <2>4, ShownIfScored
<1>2. StateInv => SheetAgrees
  BY <1>1 DEF SheetAgrees
<1> QED BY <1>2, AlwaysInState, PTL

\* The steps that score an answer.
LEMMA ScoredStep ==
  ASSUME Typed, [Next]_vars, NEW s \in Students, Scored(s)
  PROVE  /\ answer[s].seen \in QuestionRow /\ answer[s].reply \in Reply
         /\ options \in Seq(OptionRow)
         /\ answer'[s].score = Score(answer[s].seen, options, edition, answer[s].reply)
<1>1. answer[s].pc = "read" /\ answer'[s].pc = "given"
  BY DEF Scored
<1>2. PICK t \in Students : Submit(t) \/ ScoreAnswer(t)
  <2>1. answer' # answer
    BY <1>1
  <2> QED BY <2>1 DEF Next, vars, Create, Update, DeleteOptions, SaveOptions, UpdateFails
<1>3. ~Submit(t) \/ t # s
  BY <1>1 DEF Submit
<1>4. CASE t # s
  <2>1. \E b : answer' = [answer EXCEPT ![t] = b]
    BY <1>2 DEF Submit, ScoreAnswer
  <2>2. answer'[s] = answer[s]
    BY <1>4, <2>1 DEF Typed
  <2> QED BY <1>1, <2>2
<1>5. CASE t = s
  <2>1. answer' = [answer EXCEPT ![s] = Given(answer[s], options, edition)]
    BY <1>2, <1>3, <1>5, ScoreStep
  <2>2. answer'[s] = Given(answer[s], options, edition)
    BY <2>1 DEF Typed
  <2> QED BY <1>1, <2>2, Reading DEF Given, Typed
<1> QED BY <1>4, <1>5

(***************************************************************************)
(* calculateQuestionScore: no answer without repetitions to any question   *)
(* earns less than nothing or more than its marks, if what is scored is    *)
(* consistent.                                                             *)
(***************************************************************************)
THEOREM ScoresAreWithinMarks == Spec => ScoreWithinMarks
<1> DEFINE Within == \A s \in Students :
                /\ Scored(s) /\ NoRepeats(answer[s].reply)
                /\ Consistent(answer[s].seen, options) /\ Marked(answer[s].seen, options)
                => answer'[s].score \in 0 .. answer[s].seen.marks
<1>1. Typed /\ [Next]_vars => Within
  BY ScoredStep, ScoreWithin
<1>2. Typed /\ [Next]_vars => [Within]_vars
  BY <1>1
<1> HIDE DEF Within
<1>3. Spec => [][Within]_vars
  BY <1>2, AlwaysTyped, PTL DEF Spec
<1> QED BY <1>3 DEF Within, ScoreWithinMarks

(***************************************************************************)
(* calculateQuestionScore: the right answers to any consistent question    *)
(* that is scored, and no others, earn its marks.                          *)
(***************************************************************************)
THEOREM FullMarksAreEarned == Spec => FullMarksIfRight
<1> DEFINE Full == \A s \in Students :
        LET q == answer[s].seen
            reply == answer[s].reply
        IN  /\ Scored(s) /\ NoRepeats(reply)
            /\ Consistent(q, options) /\ Marked(q, options)
            /\ OneAnswer(q) \/ q.type \in {"multiple_answer", "fill_blank", "match"}
            /\ q.type = "fill_blank" =>
                    /\ Len(reply.blanks) >= Cardinality(Correct(options))
                    /\ \A i \in Correct(options) : options[i].text # ""
            => (answer'[s].score = q.marks <=> Right(q, options, edition, reply))
<1>1. Typed /\ [Next]_vars => Full
  <2> SUFFICES ASSUME Typed, [Next]_vars, NEW s \in Students, NEW q, q = answer[s].seen,
                      NEW reply, reply = answer[s].reply,
                      Scored(s), NoRepeats(reply), Consistent(q, options), Marked(q, options),
                      OneAnswer(q) \/ q.type \in {"multiple_answer", "fill_blank", "match"},
                      q.type = "fill_blank" =>
                        /\ Len(reply.blanks) >= Cardinality(Correct(options))
                        /\ \A i \in Correct(options) : options[i].text # ""
               PROVE  answer'[s].score = q.marks <=> Right(q, options, edition, reply)
    OBVIOUS
  <2>1. /\ q \in QuestionRow /\ reply \in Reply /\ options \in Seq(OptionRow)
        /\ answer'[s].score = Score(q, options, edition, reply)
    BY ScoredStep
  <2>2. Complete(q, options, reply) /\ (OneAnswer(q) \/ q.type \in Shared)
    BY DEF Complete, Shared
  <2> QED BY <2>1, <2>2, FullMarks
<1>2. Typed /\ [Next]_vars => [Full]_vars
  BY <1>1
<1> HIDE DEF Full
<1>3. Spec => [][Full]_vars
  BY <1>2, AlwaysTyped, PTL DEF Spec
<1> QED BY <1>3 DEF Full, FullMarksIfRight
=============================================================================
