---------------------------- MODULE PluginsProofs ----------------------------
(***************************************************************************)
(* What the plugin manager guarantees for any plugins, hooks, priorities,  *)
(* services and number of events at once.                                  *)
(***************************************************************************)
EXTENDS Plugins, FiniteSetTheorems, TLAPS

(***************************************************************************)
(* Ranks.  R is a total order on the finite set K: each place from 1 to    *)
(* the size of K is that of one element.                                   *)
(***************************************************************************)
Orders(R, K) ==
    /\ \A i \in K : <<i, i>> \in R
    /\ \A i, j \in K : <<i, j>> \in R \/ <<j, i>> \in R
    /\ \A i, j \in K : <<i, j>> \in R /\ <<j, i>> \in R => i = j
    /\ \A i, j, k \in K : <<i, j>> \in R /\ <<j, k>> \in R => <<i, k>> \in R

LEMMA Ranks ==
  ASSUME NEW K, IsFiniteSet(K), NEW R, Orders(R, K)
  PROVE  /\ \A i \in K : Place(i, K, R) \in 1 .. Cardinality(K)
         /\ \A i, j \in K : i # j /\ <<i, j>> \in R => Place(i, K, R) < Place(j, K, R)
         /\ \A i, j \in K : Place(i, K, R) = Place(j, K, R) => i = j
         /\ \A n \in 1 .. Cardinality(K) : \E i \in K : Place(i, K, R) = n
<1> DEFINE Down(i) == {j \in K : <<j, i>> \in R}
           rank == [i \in K |-> Place(i, K, R)]
           T == 1 .. Cardinality(K)
<1>0. \A i \in K : rank[i] = Cardinality(Down(i)) /\ rank[i] = Place(i, K, R)
  BY DEF Place
<1>1. Cardinality(K) \in Nat
  BY FS_CardinalityType
<1>2. ASSUME NEW i \in K
      PROVE  /\ IsFiniteSet(Down(i)) /\ i \in Down(i)
             /\ Cardinality(Down(i)) \in T /\ Cardinality(Down(i)) \in Nat
  <2>1. Down(i) \in SUBSET K /\ i \in Down(i)
    BY DEF Orders
  <2>2. IsFiniteSet(Down(i)) /\ Cardinality(Down(i)) <= Cardinality(K)
    BY <2>1, FS_Subset
  <2>3. Cardinality(Down(i)) \in Nat /\ Cardinality(Down(i)) # 0
    BY <2>1, <2>2, FS_CardinalityType, FS_EmptySet
  <2> QED BY <1>1, <2>1, <2>2, <2>3
<1>3. ASSUME NEW i \in K, NEW j \in K, i # j, <<i, j>> \in R
      PROVE  Cardinality(Down(i)) < Cardinality(Down(j))
  <2>1. Down(i) \in SUBSET Down(j) /\ j \in Down(j) /\ j \notin Down(i)
    BY <1>3 DEF Orders
  <2>2. IsFiniteSet(Down(j)) /\ Cardinality(Down(i)) \in Nat /\ Cardinality(Down(j)) \in Nat
    BY <1>2
  <2>3. /\ Cardinality(Down(i)) <= Cardinality(Down(j))
        /\ Cardinality(Down(i)) # Cardinality(Down(j))
    BY <2>1, <2>2, FS_Subset
  <2> HIDE DEF Down
  <2> QED BY <2>2, <2>3
<1> HIDE DEF Down, rank
<1>4. rank \in [K -> T] /\ \A i, j \in K : i # j /\ <<i, j>> \in R => rank[i] < rank[j]
  BY <1>0, <1>2, <1>3 DEF rank
<1>5. ASSUME NEW i \in K, NEW j \in K, rank[i] = rank[j] PROVE i = j
  <2>1. rank[i] \in Int /\ rank[j] \in Int
    BY <1>1, <1>4
  <2>2. i # j => rank[i] < rank[j] \/ rank[j] < rank[i]
    BY <1>4 DEF Orders
  <2> QED BY <1>5, <2>1, <2>2
<1>6. IsFiniteSet(T) /\ Cardinality(T) = Cardinality(K)
  BY <1>1, FS_Interval
<1>7. rank \in Injection(K, T)
  BY <1>4, <1>5 DEF Injection, IsInjective
<1>8. rank \in Surjection(K, T)
  BY <1>6, <1>7, FS_Injection
<1>9. \A n \in T : \E i \in K : rank[i] = n
  BY <1>8 DEF Surjection
<1> QED BY <1>0, <1>4, <1>5, <1>9


(***************************************************************************)
(* The entries of old at the indices K, and no others, are in new, where   *)
(* at says.                                                                *)
(***************************************************************************)
Moved(old, new, K, at) ==
    /\ at \in [K -> DOMAIN new]
    /\ \A i \in K : new[at[i]] = old[i]
    /\ \A i, j \in K : at[i] = at[j] => i = j
    /\ \A n \in DOMAIN new : \E i \in K : at[i] = n

\* By a total order on the indices, as sorting and removing do it.
Places(K, R) == [i \in K |-> Place(i, K, R)]

LEMMA MovedByRank ==
  ASSUME NEW S, NEW seq \in Seq(S), NEW K \in SUBSET DOMAIN seq, NEW R, Orders(R, K)
  PROVE  /\ Arranged(seq, K, R) \in Seq(S) /\ Len(Arranged(seq, K, R)) = Cardinality(K)
         /\ Moved(seq, Arranged(seq, K, R), K, Places(K, R))
         /\ \A i \in K : Places(K, R)[i] = Place(i, K, R)
         /\ \A i, j \in K : i # j /\ <<i, j>> \in R => Places(K, R)[i] < Places(K, R)[j]
<1> DEFINE rank == Places(K, R)
           new == Arranged(seq, K, R)
           N == 1 .. Cardinality(K)
           From(n) == CHOOSE i \in K : Place(i, K, R) = n
<1>1. IsFiniteSet(K) /\ Cardinality(K) \in Nat
  <2>1. Len(seq) \in Nat /\ DOMAIN seq = 1 .. Len(seq)
    OBVIOUS
  <2>2. IsFiniteSet(1 .. Len(seq))
    BY <2>1, FS_Interval
  <2> QED BY <2>1, <2>2, FS_Subset, FS_CardinalityType
<1>2. /\ rank \in [K -> N]
      /\ \A i, j \in K : i # j /\ <<i, j>> \in R => rank[i] < rank[j]
      /\ \A i, j \in K : rank[i] = rank[j] => i = j
      /\ \A n \in N : \E i \in K : rank[i] = n
  <2>1. /\ \A i \in K : Place(i, K, R) \in N
        /\ \A i, j \in K : i # j /\ <<i, j>> \in R => Place(i, K, R) < Place(j, K, R)
        /\ \A i, j \in K : Place(i, K, R) = Place(j, K, R) => i = j
        /\ \A n \in N : \E i \in K : Place(i, K, R) = n
    BY <1>1, Ranks
  <2> QED BY <2>1 DEF Places
<1>3. \A i \in K : rank[i] = Place(i, K, R)
  BY DEF Places
<1> HIDE DEF rank
<1>4. ASSUME NEW n \in N PROVE From(n) \in K /\ rank[From(n)] = n
  BY <1>2, <1>3
<1>5. \A i \in K : From(rank[i]) = i
  BY <1>2, <1>4
<1>6. new = [n \in N |-> seq[From(n)]]
  BY DEF Arranged
<1> HIDE DEF From
<1>7. \A n \in N : seq[From(n)] \in S
  BY <1>4
<1>8. new \in Seq(S) /\ Len(new) = Cardinality(K) /\ DOMAIN new = N
  BY <1>1, <1>6, <1>7
<1>9. Moved(seq, new, K, rank)
  BY <1>2, <1>5, <1>6, <1>8 DEF Moved
<1> QED BY <1>2, <1>3, <1>8, <1>9 DEF rank

\* Removing keeps the order, and moves nothing to the right.
LEMMA PickMoves ==
  ASSUME NEW S, NEW seq \in Seq(S), NEW K \in SUBSET DOMAIN seq
  PROVE  /\ Pick(seq, K) \in Seq(S)
         /\ \E at : /\ Moved(seq, Pick(seq, K), K, at)
                    /\ \A i \in K : at[i] <= i
                    /\ \A i, j \in K : i < j => at[i] < at[j]
<1> DEFINE R == {p \in K \X K : p[1] <= p[2]}
           new == Pick(seq, K)
<1>1. DOMAIN seq = 1 .. Len(seq) /\ Len(seq) \in Nat /\ \A i \in K : i \in Nat \ {0}
  OBVIOUS
<1>2. \A i, j \in K : <<i, j>> \in R <=> i <= j
  OBVIOUS
<1>4. new = Arranged(seq, K, R)
  BY DEF Pick
<1>3. \A i \in K : Place(i, K, R) = Cardinality({j \in K : <<j, i>> \in R})
  BY DEF Place
<1> HIDE DEF R, new
<1>5. Orders(R, K)
  BY <1>1, <1>2 DEF Orders
<1>6. new \in Seq(S)
  BY <1>4, <1>5, MovedByRank
<1> DEFINE at == Places(K, R)
<1>7. /\ Moved(seq, new, K, at)
      /\ \A i \in K : at[i] = Place(i, K, R)
      /\ \A i, j \in K : i # j /\ <<i, j>> \in R => at[i] < at[j]
  BY <1>4, <1>5, MovedByRank
<1> HIDE DEF at
<1>8. ASSUME NEW i \in K PROVE at[i] <= i
  <2> DEFINE B == {j \in K : <<j, i>> \in R}
  <2>1. i \in Nat /\ IsFiniteSet(1 .. i) /\ Cardinality(1 .. i) = i
    BY <1>1, FS_Interval
  <2>2. B \in SUBSET (1 .. i)
    BY <1>1, <1>2, <2>1
  <2>3. at[i] = Cardinality(B)
    BY <1>3, <1>7
  <2>4. Cardinality(B) <= Cardinality(1 .. i)
    BY <2>1, <2>2, FS_Subset
  <2> QED BY <2>1, <2>3, <2>4
<1>9. ASSUME NEW i \in K, NEW j \in K, i < j PROVE at[i] < at[j]
  <2>1. i # j /\ <<i, j>> \in R
    BY <1>1, <1>2, <1>9
  <2> QED BY <1>7, <2>1
<1> QED BY <1>6, <1>7, <1>8, <1>9 DEF new

\* Higher priorities first.
Ordered(seq) ==
    \A i, j \in DOMAIN seq : i < j => Priority[seq[i]] >= Priority[seq[j]]

\* Sorting orders, and moves nothing to the left that has nothing lower before it.
LEMMA SortedMoves ==
  ASSUME NEW seq \in Seq(Hooks)
  PROVE  /\ Sorted(seq) \in Seq(Hooks) /\ Ordered(Sorted(seq))
         /\ \E at : /\ Moved(seq, Sorted(seq), DOMAIN seq, at)
                    /\ \A i \in DOMAIN seq :
                          (\A j \in 1 .. i : Priority[seq[j]] >= Priority[seq[i]]) => i <= at[i]
<1> DEFINE K == DOMAIN seq
           Rank(i) == Priority[seq[i]]
           R == {p \in K \X K : \/ Rank(p[1]) > Rank(p[2])
                                \/ Rank(p[1]) = Rank(p[2]) /\ p[1] <= p[2]}
           new == Sorted(seq)
           at == Places(K, R)
<1>1. /\ K = 1 .. Len(seq) /\ Len(seq) \in Nat /\ \A i \in K : i \in Nat \ {0}
      /\ \A i \in K : Rank(i) \in Int
  BY PluginsAssumption
<1>2. \A i, j \in K :
         <<i, j>> \in R <=> (Rank(i) > Rank(j)) \/ (Rank(i) = Rank(j) /\ i <= j)
  OBVIOUS
<1>3. \A i \in K : Place(i, K, R) = Cardinality({j \in K : <<j, i>> \in R})
  BY DEF Place
<1>4. new = Arranged(seq, K, R)
  BY DEF Sorted
<1> HIDE DEF R, new, at, Rank
<1>5. Orders(R, K)
  <2>1. /\ \A i \in K : <<i, i>> \in R
        /\ \A i, j \in K : <<i, j>> \in R \/ <<j, i>> \in R
        /\ \A i, j \in K : <<i, j>> \in R /\ <<j, i>> \in R => i = j
    BY <1>1, <1>2
  <2>2. \A i, j, k \in K : <<i, j>> \in R /\ <<j, k>> \in R => <<i, k>> \in R
    BY <1>1, <1>2
  <2> QED BY <2>1, <2>2 DEF Orders
<1>6. /\ new \in Seq(Hooks) /\ Moved(seq, new, K, at)
      /\ \A i \in K : at[i] = Place(i, K, R)
      /\ \A i, j \in K : i # j /\ <<i, j>> \in R => at[i] < at[j]
  <2>1. K \in SUBSET DOMAIN seq
    OBVIOUS
  <2> HIDE DEF K
  <2> QED BY <1>4, <1>5, <2>1, MovedByRank DEF at
<1>7. ASSUME NEW m \in DOMAIN new, NEW n \in DOMAIN new, m < n
      PROVE  Priority[new[m]] >= Priority[new[n]]
  <2>1. PICK i \in K : at[i] = m
    BY <1>6 DEF Moved
  <2>2. PICK j \in K : at[j] = n
    BY <1>6 DEF Moved
  <2>3. new[m] = seq[i] /\ new[n] = seq[j]
    BY <1>6, <2>1, <2>2 DEF Moved
  <2>4. m \in Int /\ n \in Int
    BY <1>6
  <2>5. ~ (<<j, i>> \in R)
    BY <1>6, <1>7, <2>1, <2>2, <2>4
  <2>6. Rank(i) >= Rank(j)
    BY <1>1, <1>2, <2>5
  <2> QED BY <2>3, <2>6 DEF Rank
<1>8. ASSUME NEW i \in K, \A j \in 1 .. i : Priority[seq[j]] >= Priority[seq[i]]
      PROVE  i <= at[i]
  <2> DEFINE B == {j \in K : <<j, i>> \in R}
  <2>1. i \in Nat /\ IsFiniteSet(1 .. i) /\ Cardinality(1 .. i) = i
    BY <1>1, FS_Interval
  <2>2. IsFiniteSet(B)
    <3>1. IsFiniteSet(1 .. Len(seq))
      BY <1>1, FS_Interval
    <3> QED BY <1>1, <3>1, FS_Subset
  <2>3. ASSUME NEW j \in 1 .. i PROVE j \in B
    <3>1. j \in K /\ j <= i
      BY <1>1
    <3>2. Rank(j) >= Rank(i)
      BY <1>8 DEF Rank
    <3> QED BY <1>1, <1>2, <3>1, <3>2
  <2>4. (1 .. i) \in SUBSET B
    BY <2>3
  <2>5. at[i] = Cardinality(B) /\ Cardinality(B) \in Nat
    BY <1>3, <1>6, <2>2, FS_CardinalityType
  <2>6. Cardinality(1 .. i) <= Cardinality(B)
    BY <2>2, <2>4, FS_Subset
  <2> QED BY <2>1, <2>5, <2>6
<1>9. Ordered(new)
  BY <1>7 DEF Ordered
<1> QED BY <1>6, <1>8, <1>9 DEF new

\* h occurs once in seq.
Once(seq, h) == Cardinality({i \in DOMAIN seq : seq[i] = h}) = 1

LEMMA OnceMeans ==
  ASSUME NEW seq \in Seq(Hooks), NEW h
  PROVE  Once(seq, h) <=> \E i \in DOMAIN seq : /\ seq[i] = h
                                                /\ \A j \in DOMAIN seq : seq[j] = h => j = i
<1> DEFINE B == {i \in DOMAIN seq : seq[i] = h}
<1>1. IsFiniteSet(B)
  <2>1. DOMAIN seq = 1 .. Len(seq) /\ Len(seq) \in Nat
    OBVIOUS
  <2>2. IsFiniteSet(1 .. Len(seq))
    BY <2>1, FS_Interval
  <2> QED BY <2>1, <2>2, FS_Subset
<1>2. Cardinality(B) = 1 <=> \E i : B = {i}
  BY <1>1, FS_Singleton
<1>3. ASSUME NEW i, B = {i}
      PROVE  i \in DOMAIN seq /\ seq[i] = h /\ \A j \in DOMAIN seq : seq[j] = h => j = i
  <2>1. \A j : j \in B <=> j = i
    BY <1>3
  <2> QED BY <2>1
<1>4. ASSUME NEW i \in DOMAIN seq, seq[i] = h, \A j \in DOMAIN seq : seq[j] = h => j = i
      PROVE  B = {i}
  BY <1>4
<1> HIDE DEF B
<1> QED BY <1>2, <1>3, <1>4 DEF Once, B

-----------------------------------------------------------------------------
(***************************************************************************)
(* Types.                                                                  *)
(***************************************************************************)
\* What loop r under way notices when the array becomes new.
Noticed(r, new, in) ==
    LET moved == Passed(r, new) # Passed(r, hooks)
    IN  /\ loop'[r].next = loop[r].next /\ loop'[r].ran = loop[r].ran
        /\ loop'[r].live = (loop[r].live /\ new # <<>>)
        /\ loop'[r].present = {h \in loop[r].present : Once(new, h)}
        /\ loop'[r].pushed = (loop[r].pushed \/ (in /\ moved))
        /\ loop'[r].pulled = (loop[r].pulled \/ (~in /\ moved))

LEMMA NoticeFacts ==
  ASSUME TypeOK, NEW new, NEW in \in BOOLEAN, Notice(new, in)
  PROVE  /\ loop' \in [Runs -> Loop]
         /\ \A r \in Runs : IF pc[r] = "hook" THEN Noticed(r, new, in) ELSE loop'[r] = loop[r]
<1> DEFINE Moves(r) == Passed(r, new) # Passed(r, hooks)
           Seen(r) == [loop[r] EXCEPT
                          !.live = @ /\ new # <<>>,
                          !.present = {h \in @ : Cardinality({i \in DOMAIN new : new[i] = h}) = 1},
                          !.pushed = @ \/ (in /\ Moves(r)),
                          !.pulled = @ \/ (~in /\ Moves(r))]
<1>1. loop' = [r \in Runs |-> IF pc[r] = "hook" THEN Seen(r) ELSE loop[r]]
  BY DEF Notice
<1>2. ASSUME NEW r \in Runs PROVE loop[r] \in Loop
  BY DEF TypeOK
<1>3. ASSUME NEW r \in Runs
      PROVE  /\ Seen(r) \in Loop /\ Seen(r).next = loop[r].next /\ Seen(r).ran = loop[r].ran
             /\ Seen(r).live = (loop[r].live /\ new # <<>>)
             /\ Seen(r).present = {h \in loop[r].present : Once(new, h)}
             /\ Seen(r).pushed = (loop[r].pushed \/ (in /\ Moves(r)))
             /\ Seen(r).pulled = (loop[r].pulled \/ (~in /\ Moves(r)))
  <2> DEFINE live == loop[r].live /\ new # <<>>
             present == {h \in loop[r].present : Once(new, h)}
             pushed == loop[r].pushed \/ (in /\ Moves(r))
             pulled == loop[r].pulled \/ (~in /\ Moves(r))
  <2>1. /\ live \in BOOLEAN /\ present \in SUBSET Hooks
        /\ pushed \in BOOLEAN /\ pulled \in BOOLEAN
    BY <1>2 DEF Loop
  <2>2. Seen(r) = [loop[r] EXCEPT !.live = live, !.present = present,
                                  !.pushed = pushed, !.pulled = pulled]
    BY DEF Once
  <2> HIDE DEF Seen, live, present, pushed, pulled
  <2>3. /\ Seen(r) \in Loop /\ Seen(r).next = loop[r].next /\ Seen(r).ran = loop[r].ran
        /\ Seen(r).live = live /\ Seen(r).present = present
        /\ Seen(r).pushed = pushed /\ Seen(r).pulled = pulled
    BY <1>2, <2>1, <2>2 DEF Loop
  <2> QED BY <2>3 DEF live, present, pushed, pulled
<1> HIDE DEF Seen
<1>4. loop' \in [Runs -> Loop]
  BY <1>1, <1>2, <1>3
<1>5. ASSUME NEW r \in Runs
      PROVE  IF pc[r] = "hook" THEN Noticed(r, new, in) ELSE loop'[r] = loop[r]
  <2>1. loop'[r] = IF pc[r] = "hook" THEN Seen(r) ELSE loop[r]
    BY <1>1
  <2>2. CASE pc[r] = "hook"
    BY <1>3, <2>1, <2>2 DEF Noticed
  <2> QED BY <2>1, <2>2
<1> QED BY <1>4, <1>5

\* The loop of r in state l goes on to the next hook, or is over.
Onward(r, l) ==
    /\ l.live /\ l.next \in DOMAIN hooks
    /\ pc'[r] = "hook" /\ calls'[r] = [s \in Services |-> NoCall]
    /\ loop'[r].next = l.next + 1 /\ loop'[r].ran = Append(l.ran, hooks[l.next])
    /\ loop'[r].live = l.live /\ loop'[r].present = l.present
    /\ loop'[r].pushed = l.pushed /\ loop'[r].pulled = l.pulled

Leaves(r, l) ==
    /\ ~l.live \/ l.next > Len(hooks)
    /\ pc'[r] = "send" /\ calls'[r] = Calls /\ loop'[r] = l

CallTypes == [Services -> Call]

LEMMA CallsTyped ==
  /\ Calls \in CallTypes /\ [s \in Services |-> NoCall] \in CallTypes
  /\ NoCall.state = "none" /\ NoCall.tries = 0
  BY DEF Calls, CallTypes, Call, CallStates, NoCall

LEMMA AdvanceFacts ==
  ASSUME TypeOK, NEW r \in Runs, NEW l \in Loop, Advance(r, l)
  PROVE  /\ loop' \in [Runs -> Loop]
         /\ pc' \in [Runs -> {"idle", "hook", "send", "done"}]
         /\ calls' \in [Runs -> CallTypes]
         /\ \A t \in Runs : t # r => pc'[t] = pc[t] /\ loop'[t] = loop[t] /\ calls'[t] = calls[t]
         /\ Onward(r, l) \/ Leaves(r, l)
<1>1. /\ loop \in [Runs -> Loop] /\ pc \in [Runs -> {"idle", "hook", "send", "done"}]
      /\ calls \in [Runs -> CallTypes] /\ hooks \in Seq(Hooks)
  BY DEF TypeOK, CallTypes
<1>2. CASE l.live /\ l.next <= Len(hooks)
  <2> DEFINE m == [l EXCEPT !.next = @ + 1, !.ran = Append(@, hooks[l.next])]
             none == [s \in Services |-> NoCall]
  <2>1. l.next \in DOMAIN hooks /\ hooks[l.next] \in Hooks
    BY <1>1, <1>2 DEF Loop
  <2>2. /\ m \in Loop /\ m.next = l.next + 1 /\ m.ran = Append(l.ran, hooks[l.next])
        /\ m.live = l.live /\ m.present = l.present
        /\ m.pushed = l.pushed /\ m.pulled = l.pulled
    <3> DEFINE next == l.next + 1
               ran == Append(l.ran, hooks[l.next])
    <3>1. next \in Nat \ {0} /\ ran \in Seq(Hooks)
      BY <2>1 DEF Loop
    <3>2. m = [l EXCEPT !.next = next, !.ran = ran]
      OBVIOUS
    <3> HIDE DEF m, next, ran
    <3>3. /\ m \in Loop /\ m.next = next /\ m.ran = ran
          /\ m.live = l.live /\ m.present = l.present
          /\ m.pushed = l.pushed /\ m.pulled = l.pulled
      BY <3>1, <3>2 DEF Loop
    <3> QED BY <3>3 DEF next, ran
  <2>3. /\ pc' = [pc EXCEPT ![r] = "hook"] /\ loop' = [loop EXCEPT ![r] = m]
        /\ calls' = [calls EXCEPT ![r] = none]
    BY <1>2 DEF Advance
  <2>4. none \in CallTypes
    BY CallsTyped
  <2> HIDE DEF m, none
  <2>5. /\ pc'[r] = "hook" /\ loop'[r] = m /\ calls'[r] = none
        /\ \A t \in Runs : t # r => pc'[t] = pc[t] /\ loop'[t] = loop[t] /\ calls'[t] = calls[t]
    BY <1>1, <2>3
  <2>6. Onward(r, l)
    BY <1>2, <2>1, <2>2, <2>5 DEF Onward, none
  <2> QED BY <1>1, <2>2, <2>3, <2>4, <2>5, <2>6
<1>3. CASE ~ (l.live /\ l.next <= Len(hooks))
  <2>1. /\ pc' = [pc EXCEPT ![r] = "send"] /\ loop' = [loop EXCEPT ![r] = l]
        /\ calls' = [calls EXCEPT ![r] = Calls]
    BY <1>3 DEF Advance
  <2>2. Calls \in CallTypes
    BY CallsTyped
  <2>3. /\ pc'[r] = "send" /\ loop'[r] = l /\ calls'[r] = Calls
        /\ \A t \in Runs : t # r => pc'[t] = pc[t] /\ loop'[t] = loop[t] /\ calls'[t] = calls[t]
    BY <1>1, <2>1
  <2>4. l.next \in Int /\ Len(hooks) \in Int
    BY <1>1 DEF Loop
  <2>5. Leaves(r, l)
    BY <1>3, <2>3, <2>4 DEF Leaves
  <2> QED BY <1>1, <2>1, <2>2, <2>3, <2>5
<1> QED BY <1>2, <1>3

LEMMA NewLoopTyped ==
  ASSUME TypeOK
  PROVE  /\ NewLoop \in Loop /\ NewLoop.live = (hooks # <<>>) /\ NewLoop.next = 1
         /\ NewLoop.ran = <<>> /\ NewLoop.present = {h \in Hooks : Once(hooks, h)}
  BY DEF NewLoop, Loop, Once

\* What the events under way notice of a step: nothing, or the new array.
LEMMA TriggerShape ==
  ASSUME TypeOK, NEW r \in Runs, TriggerEvent(r)
  PROVE  \E l \in Loop :
            /\ l = NewLoop /\ Advance(r, l) /\ pc[r] \in {"idle", "done"}
            /\ UNCHANGED <<plugins, hooks, services, changes, overwritten>>
  BY NewLoopTyped DEF TriggerEvent

LEMMA SettleShape ==
  ASSUME TypeOK, NEW r \in Runs, HookSettles(r)
  PROVE  \E l \in Loop :
            /\ l.live = loop[r].live /\ l.next = loop[r].next /\ l.ran = loop[r].ran
            /\ l.present = loop[r].present /\ l.pushed = loop[r].pushed
            /\ l.pulled = loop[r].pulled
            /\ Advance(r, l) /\ pc[r] = "hook"
            /\ UNCHANGED <<plugins, hooks, services, changes, overwritten>>
<1>1. PICK fails \in BOOLEAN : Advance(r, [loop[r] EXCEPT !.failed = @ \/ fails])
  BY DEF HookSettles
<1> DEFINE l == [loop[r] EXCEPT !.failed = @ \/ fails]
<1>2. loop[r] \in Loop
  BY DEF TypeOK
<1>3. /\ l \in Loop
      /\ l.live = loop[r].live /\ l.next = loop[r].next /\ l.ran = loop[r].ran
      /\ l.present = loop[r].present /\ l.pushed = loop[r].pushed /\ l.pulled = loop[r].pulled
  BY <1>2 DEF Loop
<1> HIDE DEF l
<1>4. Advance(r, l) /\ pc[r] = "hook"
      /\ UNCHANGED <<plugins, hooks, services, changes, overwritten>>
  BY <1>1 DEF HookSettles, l
<1> QED BY <1>3, <1>4

LEMMA RegisterShape ==
  ASSUME TypeOK, NEW o \in Objects, RegisterPlugin(o)
  PROVE  /\ plugins' \in [Ids -> Objects \cup {NULL}]
         /\ Id[o] \in Ids /\ plugins'[Id[o]] = o
         /\ \A i \in Ids : i # Id[o] => plugins'[i] = plugins[i]
         /\ overwritten' = IF plugins[Id[o]] = NULL THEN overwritten
                           ELSE overwritten \cup {Id[o]}
         /\ hooks \o HooksOf[o] \in Seq(Hooks)
         /\ hooks' = Sorted(hooks \o HooksOf[o]) /\ hooks' \in Seq(Hooks)
         /\ Notice(hooks', TRUE) /\ services' \subseteq Services /\ changes' \in 0 .. MaxChanges
         /\ UNCHANGED <<pc, calls>>
<1>1. /\ plugins \in [Ids -> Objects \cup {NULL}] /\ hooks \in Seq(Hooks)
      /\ services \subseteq Services /\ changes \in 0 .. MaxChanges
  BY DEF TypeOK
<1>2. /\ Id[o] \in Ids /\ HooksOf[o] \in Seq(Hooks) /\ ServiceOf[o] \in Services \cup {NULL}
      /\ MaxChanges \in Nat
  BY PluginsAssumption
<1>3. hooks \o HooksOf[o] \in Seq(Hooks)
  BY <1>1, <1>2
<1>4. Sorted(hooks \o HooksOf[o]) \in Seq(Hooks)
  BY <1>3, SortedMoves
<1>5. /\ plugins' = [plugins EXCEPT ![Id[o]] = o]
      /\ overwritten' = IF plugins[Id[o]] = NULL THEN overwritten
                        ELSE overwritten \cup {Id[o]}
      /\ hooks' = Sorted(hooks \o HooksOf[o]) /\ Notice(hooks', TRUE)
      /\ services' = services \cup ({ServiceOf[o]} \ {NULL})
      /\ changes < MaxChanges /\ changes' = changes + 1
      /\ UNCHANGED <<pc, calls>>
  BY Zenon DEF RegisterPlugin, Change
<1>6. /\ plugins' \in [Ids -> Objects \cup {NULL}] /\ plugins'[Id[o]] = o
      /\ \A i \in Ids : i # Id[o] => plugins'[i] = plugins[i]
  BY <1>1, <1>2, <1>5
<1>7. services' \subseteq Services /\ changes' \in 0 .. MaxChanges
  BY <1>1, <1>2, <1>5
<1>8. hooks' \in Seq(Hooks)
  BY <1>4, <1>5
<1> QED BY <1>2, <1>3, <1>5, <1>6, <1>7, <1>8

\* The indices that stay when the plugin o is unregistered.
Staying(o) == {i \in DOMAIN hooks : \/ hooks[i] \notin RangeOf(HooksOf[o])
                                    \/ \E j \in 1 .. i - 1 : hooks[j] = hooks[i]}

LEMMA UnregisterShape ==
  ASSUME TypeOK, NEW i \in Ids, UnregisterPlugin(i), NEW o, o = plugins[i]
  PROVE  /\ o \in Objects /\ Id[o] = i
         /\ hooks' = Pick(hooks, Staying(o)) /\ hooks' \in Seq(Hooks)
         /\ Notice(hooks', FALSE) /\ changes' \in 0 .. MaxChanges
         /\ plugins' = [plugins EXCEPT ![i] = NULL]
         /\ UNCHANGED <<services, pc, calls, overwritten>>
<1>1. o \in Objects /\ Id[o] = i /\ hooks \in Seq(Hooks) /\ changes \in 0 .. MaxChanges
  BY DEF TypeOK, UnregisterPlugin
<1>2. Staying(o) \in SUBSET DOMAIN hooks
  BY DEF Staying
<1>3. Pick(hooks, Staying(o)) \in Seq(Hooks)
  BY <1>1, <1>2, PickMoves
<1>4. hooks' = Pick(hooks, Staying(o))
  BY DEF UnregisterPlugin, Without, Staying
<1>5. /\ Notice(hooks', FALSE) /\ changes < MaxChanges /\ changes' = changes + 1
      /\ plugins' = [plugins EXCEPT ![i] = NULL]
      /\ UNCHANGED <<services, pc, calls, overwritten>>
  BY Zenon DEF UnregisterPlugin, Change
<1>6. changes' \in 0 .. MaxChanges
  BY <1>1, <1>5, PluginsAssumption
<1>7. hooks' \in Seq(Hooks)
  BY <1>3, <1>4
<1> QED BY <1>1, <1>4, <1>5, <1>6, <1>7

LEMMA SetCallShape ==
  ASSUME TypeOK, NEW r \in Runs, NEW s \in Services, NEW call \in Call, SetCall(r, s, call)
  PROVE  /\ calls' \in [Runs -> CallTypes]
         /\ \A t \in Runs, u \in Services :
               calls'[t][u] = IF t = r /\ u = s THEN call ELSE calls[t][u]
         /\ UNCHANGED <<plugins, hooks, services, pc, loop, changes, overwritten>>
<1>1. calls \in [Runs -> [Services -> Call]]
  BY DEF TypeOK
<1> QED BY <1>1 DEF SetCall, CallTypes

\* A call is answered, fails, or is sent again.
LEMMA CallShape ==
  ASSUME TypeOK, NEW r \in Runs, NEW s \in Services,
         Answered(r, s) \/ Failed(r, s) \/ RetryWebhook(r, s)
  PROVE  \E call \in Call :
            /\ SetCall(r, s, call)
            /\ \/ calls[r][s].state = "posted" /\ call.tries = calls[r][s].tries
                  /\ \/ call.state = "acked"
                     \/ call.state = "waiting" /\ call.tries <= Retries[s]
                     \/ call.state = "exhausted" /\ call.tries > Retries[s]
               \/ calls[r][s].state = "waiting" /\ call.state = "posted"
                  /\ call.tries = calls[r][s].tries + 1
<1>1. calls[r][s] \in Call /\ Retries[s] \in Nat
  BY PluginsAssumption DEF TypeOK
<1>2. CASE Answered(r, s)
  <2> DEFINE call == [calls[r][s] EXCEPT !.state = "acked"]
  <2>1. SetCall(r, s, call) /\ calls[r][s].state = "posted"
    BY <1>2 DEF Answered
  <2>2. call \in Call /\ call.state = "acked" /\ call.tries = calls[r][s].tries
    BY <1>1 DEF Call, CallStates
  <2> HIDE DEF call
  <2> QED BY <2>1, <2>2
<1>3. CASE Failed(r, s)
  <2> DEFINE state == IF calls[r][s].tries <= Retries[s] THEN "waiting" ELSE "exhausted"
             call == [calls[r][s] EXCEPT !.state = state]
  <2>1. SetCall(r, s, call) /\ calls[r][s].state = "posted"
    BY <1>3 DEF Failed
  <2>2. state \in CallStates
    BY DEF CallStates
  <2>3. call \in Call /\ call.state = state /\ call.tries = calls[r][s].tries
    BY <1>1, <2>2 DEF Call
  <2>4. calls[r][s].tries \in Nat
    BY <1>1 DEF Call
  <2>5. \/ call.state = "waiting" /\ call.tries <= Retries[s]
        \/ call.state = "exhausted" /\ call.tries > Retries[s]
    BY <1>1, <2>3, <2>4
  <2> HIDE DEF call
  <2> QED BY <2>1, <2>3, <2>5
<1>4. CASE RetryWebhook(r, s)
  <2> DEFINE call == [calls[r][s] EXCEPT !.state = "posted", !.tries = @ + 1]
  <2>1. SetCall(r, s, call) /\ calls[r][s].state = "waiting"
    BY <1>4 DEF RetryWebhook
  <2>2. call \in Call /\ call.state = "posted" /\ call.tries = calls[r][s].tries + 1
    <3> DEFINE tries == calls[r][s].tries + 1
    <3>1. tries \in Nat /\ call = [calls[r][s] EXCEPT !.state = "posted", !.tries = tries]
      BY <1>1 DEF Call
    <3> HIDE DEF tries, call
    <3>2. call \in Call /\ call.state = "posted" /\ call.tries = tries
      BY <1>1, <3>1 DEF Call, CallStates
    <3> QED BY <3>2 DEF tries
  <2> HIDE DEF call
  <2> QED BY <2>1, <2>2
<1> QED BY <1>2, <1>3, <1>4

LEMMA TypesInit == Init => TypeOK
<1> SUFFICES ASSUME Init PROVE TypeOK
  OBVIOUS
<1>1. /\ plugins = [i \in Ids |-> NULL] /\ hooks = <<>> /\ services = {} /\ changes = 0
      /\ pc = [r \in Runs |-> "idle"] /\ loop = [r \in Runs |-> NewLoop]
      /\ calls = [r \in Runs |-> [s \in Services |-> NoCall]] /\ overwritten = {}
  BY DEF Init
<1>2. [s \in Services |-> NoCall] \in CallTypes
  BY CallsTyped
<1>3. NewLoop \in Loop
  BY <1>1 DEF NewLoop, Loop
<1>4. loop \in [Runs -> Loop] /\ calls \in [Runs -> CallTypes]
  BY <1>1, <1>2, <1>3
<1> QED BY <1>1, <1>4, PluginsAssumption DEF TypeOK, CallTypes

LEMMA TypesStep == TypeOK /\ [Next]_vars => TypeOK'
<1> SUFFICES ASSUME TypeOK, [Next]_vars PROVE TypeOK'
  OBVIOUS
<1>0. /\ plugins \in [Ids -> Objects \cup {NULL}]
      /\ \A i \in Ids : plugins[i] # NULL => Id[plugins[i]] = i
      /\ hooks \in Seq(Hooks) /\ services \subseteq Services
      /\ pc \in [Runs -> {"idle", "hook", "send", "done"}]
      /\ loop \in [Runs -> Loop] /\ calls \in [Runs -> CallTypes]
      /\ changes \in 0 .. MaxChanges /\ overwritten \subseteq Ids
  BY DEF TypeOK, CallTypes
<1>1. ASSUME NEW o \in Objects, RegisterPlugin(o) PROVE TypeOK'
  <2>1. loop' \in [Runs -> Loop]
    BY <1>1, NoticeFacts, RegisterShape
  <2>2. \A i \in Ids : plugins'[i] # NULL => Id[plugins'[i]] = i
    BY <1>0, <1>1, RegisterShape
  <2>4. /\ Id[o] \in Ids
        /\ overwritten' = IF plugins[Id[o]] = NULL THEN overwritten
                          ELSE overwritten \cup {Id[o]}
    BY <1>1, RegisterShape
  <2>3. overwritten' \subseteq Ids
    BY <1>0, <2>4
  <2> QED BY <1>0, <1>1, <2>1, <2>2, <2>3, RegisterShape DEF TypeOK, CallTypes
<1>2. ASSUME NEW i \in Ids, UnregisterPlugin(i) PROVE TypeOK'
  <2>1. /\ hooks' \in Seq(Hooks) /\ Notice(hooks', FALSE) /\ changes' \in 0 .. MaxChanges
        /\ plugins' = [plugins EXCEPT ![i] = NULL]
        /\ UNCHANGED <<services, pc, calls, overwritten>>
    BY <1>2, UnregisterShape
  <2>2. loop' \in [Runs -> Loop]
    BY <2>1, NoticeFacts
  <2>3. /\ plugins' \in [Ids -> Objects \cup {NULL}]
        /\ \A k \in Ids : plugins'[k] # NULL => Id[plugins'[k]] = k
    BY <1>0, <2>1
  <2> QED BY <1>0, <2>1, <2>2, <2>3 DEF TypeOK, CallTypes
<1>3. ASSUME NEW s \in Services, RegisterExternalService(s) \/ UnregisterExternalService(s)
      PROVE  TypeOK'
  BY <1>0, <1>3, PluginsAssumption
     DEF RegisterExternalService, UnregisterExternalService, Change, TypeOK, CallTypes
<1>4. ASSUME NEW r \in Runs, TriggerEvent(r) \/ HookSettles(r) PROVE TypeOK'
  <2>1. PICK l \in Loop : /\ Advance(r, l)
                          /\ UNCHANGED <<plugins, hooks, services, changes, overwritten>>
    BY <1>4, TriggerShape, SettleShape
  <2>2. /\ loop' \in [Runs -> Loop] /\ calls' \in [Runs -> CallTypes]
        /\ pc' \in [Runs -> {"idle", "hook", "send", "done"}]
    BY <2>1, AdvanceFacts
  <2> QED BY <1>0, <2>1, <2>2 DEF TypeOK, CallTypes
<1>5. ASSUME NEW r \in Runs, Finish(r) PROVE TypeOK'
  BY <1>0, <1>5 DEF Finish, TypeOK, CallTypes
<1>6. ASSUME NEW r \in Runs, NEW s \in Services,
             Answered(r, s) \/ Failed(r, s) \/ RetryWebhook(r, s)
      PROVE  TypeOK'
  <2>1. PICK call \in Call : SetCall(r, s, call)
    BY <1>6, CallShape
  <2> QED BY <1>0, <2>1, SetCallShape DEF TypeOK, CallTypes
<1>7. CASE UNCHANGED vars
  BY <1>7 DEF vars, TypeOK
<1> QED BY <1>1, <1>2, <1>3, <1>4, <1>5, <1>6, <1>7 DEF Next

\* Plugins, hooks, loops and calls keep their types, and every plugin is kept
\* under its own id, in registerPlugin and in unregisterPlugin.
THEOREM TypeCorrect == Spec => []TypeOK
  BY TypesInit, TypesStep, PTL DEF Spec

-----------------------------------------------------------------------------
(***************************************************************************)
(* Webhooks.                                                               *)
(***************************************************************************)
Tried(call, n) ==
    /\ call.state = "none" => call.tries = 0
    /\ call.state \in {"posted", "acked"} => call.tries <= 1 + n
    /\ call.state = "waiting" => call.tries <= n
    /\ call.state = "exhausted" => call.tries = 1 + n

CallsInv ==
    \A r \in Runs, s \in Services :
        /\ Tried(calls[r][s], Retries[s])
        /\ pc[r] = "done" => calls[r][s].state \in {"none", "acked", "exhausted"}

LEMMA CallsStep == TypeOK /\ CallsInv /\ [Next]_vars => CallsInv'
<1> SUFFICES ASSUME TypeOK, CallsInv, [Next]_vars PROVE CallsInv'
  OBVIOUS
<1>0. \A r \in Runs, s \in Services : calls[r][s] \in Call /\ Retries[s] \in Nat
  BY PluginsAssumption DEF TypeOK
<1>1. ASSUME UNCHANGED <<pc, calls>> PROVE CallsInv'
  BY <1>1 DEF CallsInv
<1>2. ASSUME NEW r \in Runs, TriggerEvent(r) \/ HookSettles(r) PROVE CallsInv'
  <2>1. PICK l \in Loop : Advance(r, l)
    BY <1>2, TriggerShape, SettleShape
  <2>2. /\ \A t \in Runs : t # r => pc'[t] = pc[t] /\ calls'[t] = calls[t]
        /\ pc'[r] # "done"
        /\ calls'[r] = Calls \/ calls'[r] = [s \in Services |-> NoCall]
    BY <2>1, AdvanceFacts DEF Onward, Leaves
  <2>3. ASSUME NEW s \in Services PROVE Tried(calls'[r][s], Retries[s])
    <3>1. calls'[r][s] \in {NoCall, [state |-> "posted", tries |-> 1]}
      BY <2>2 DEF Calls
    <3> QED BY <1>0, <3>1, CallsTyped DEF Tried
  <2>4. ASSUME NEW t \in Runs, NEW s \in Services
        PROVE  /\ Tried(calls'[t][s], Retries[s])
               /\ pc'[t] = "done" => calls'[t][s].state \in {"none", "acked", "exhausted"}
    <3>1. CASE t = r
      BY <2>2, <2>3, <3>1
    <3>2. CASE t # r
      BY <2>2, <3>2 DEF CallsInv
    <3> QED BY <3>1, <3>2
  <2> QED BY <2>4 DEF CallsInv, Tried
<1>3. ASSUME NEW r \in Runs, Finish(r) PROVE CallsInv'
  BY <1>3 DEF Finish, CallsInv, TypeOK
<1>4. ASSUME NEW r \in Runs, NEW s \in Services,
             Answered(r, s) \/ Failed(r, s) \/ RetryWebhook(r, s)
      PROVE  CallsInv'
  <2>1. PICK call \in Call :
           /\ SetCall(r, s, call)
           /\ \/ calls[r][s].state = "posted" /\ call.tries = calls[r][s].tries
                 /\ \/ call.state = "acked"
                    \/ call.state = "waiting" /\ call.tries <= Retries[s]
                    \/ call.state = "exhausted" /\ call.tries > Retries[s]
              \/ calls[r][s].state = "waiting" /\ call.state = "posted"
                 /\ call.tries = calls[r][s].tries + 1
    BY <1>4, CallShape
  <2>2. /\ calls[r][s] \in Call /\ Retries[s] \in Nat
        /\ Tried(calls[r][s], Retries[s]) /\ pc[r] # "done"
    BY <1>0, <2>1 DEF CallsInv
  <2>3. Tried(call, Retries[s])
    <3>1. call.tries \in Nat /\ calls[r][s].tries \in Nat
      BY <2>2 DEF Call
    <3> QED BY <2>1, <2>2, <3>1 DEF Tried
  <2>4. UNCHANGED pc /\ \A t \in Runs, u \in Services :
               calls'[t][u] = IF t = r /\ u = s THEN call ELSE calls[t][u]
    BY <2>1, SetCallShape
  <2>5. ASSUME NEW t \in Runs, NEW u \in Services
        PROVE  /\ Tried(calls'[t][u], Retries[u])
               /\ pc'[t] = "done" => calls'[t][u].state \in {"none", "acked", "exhausted"}
    BY <2>2, <2>3, <2>4 DEF CallsInv
  <2> QED BY <2>5 DEF CallsInv, Tried
<1>5. ASSUME NEW o \in Objects, RegisterPlugin(o) PROVE CallsInv'
  BY <1>1, <1>5 DEF RegisterPlugin
<1>6. ASSUME NEW i \in Ids, UnregisterPlugin(i) PROVE CallsInv'
  BY <1>1, <1>6 DEF UnregisterPlugin
<1>7. ASSUME NEW s \in Services, RegisterExternalService(s) \/ UnregisterExternalService(s)
      PROVE  CallsInv'
  BY <1>1, <1>7 DEF RegisterExternalService, UnregisterExternalService
<1> QED BY <1>1, <1>2, <1>3, <1>4, <1>5, <1>6, <1>7 DEF Next, vars

(***************************************************************************)
(* triggerWebhook and retryWebhook: whatever the services and their limits *)
(* are, a service that an event called has answered when the event is      *)
(* over, or was tried as often as it allows, and never more often.         *)
(***************************************************************************)
THEOREM CallsAreTried == Spec => []AnsweredOrExhausted
<1>1. Init => CallsInv
  <2>1. \A r \in Runs, s \in Services : Init => calls[r][s] = NoCall /\ pc[r] = "idle"
    BY DEF Init
  <2> QED BY <2>1, CallsTyped, PluginsAssumption DEF CallsInv, Tried
<1>2. TypeOK /\ CallsInv => AnsweredOrExhausted
  <2> SUFFICES ASSUME TypeOK, CallsInv, NEW r \in Runs, NEW s \in Services
               PROVE  /\ calls[r][s].tries <= 1 + Retries[s]
                      /\ pc[r] = "done" /\ calls[r][s].tries > 0 /\ calls[r][s].state # "acked"
                            => calls[r][s].tries = 1 + Retries[s]
    BY DEF AnsweredOrExhausted
  <2>1. calls[r][s] \in Call /\ Retries[s] \in Nat
    BY PluginsAssumption DEF TypeOK
  <2>2. calls[r][s].tries \in Nat /\ calls[r][s].state \in CallStates
    BY <2>1 DEF Call
  <2> QED BY <2>1, <2>2 DEF CallsInv, Tried, CallStates
<1> QED BY <1>1, <1>2, CallsStep, TypeCorrect, PTL DEF Spec

-----------------------------------------------------------------------------
(***************************************************************************)
(* Whose hooks run.                                                        *)
(***************************************************************************)
Owns(o, h) == h \in RangeOf(HooksOf[o])
Known(o) == plugins[Id[o]] = o \/ Id[o] \in overwritten

OwnersInv ==
    /\ \A i \in DOMAIN hooks : \E o \in Objects : Owns(o, hooks[i]) /\ Known(o)
    /\ \A o \in Objects : Id[o] \notin overwritten =>
            \A i, j \in DOMAIN hooks : hooks[i] = hooks[j] /\ Owns(o, hooks[i]) => i = j

LEMMA OneOwner ==
  ASSUME NEW o \in Objects, NEW p \in Objects, NEW h, Owns(o, h), Owns(p, h)
  PROVE  o = p
  BY PluginsAssumption DEF Owns, RangeOf

LEMMA RegisterKeepsOwners ==
  ASSUME TypeOK, OwnersInv, NEW o \in Objects, RegisterPlugin(o) PROVE OwnersInv'
<1> DEFINE old == hooks \o HooksOf[o]
           n == Len(hooks)
<1>1. /\ hooks \in Seq(Hooks) /\ HooksOf[o] \in Seq(Hooks) /\ old \in Seq(Hooks)
      /\ n \in Nat /\ DOMAIN hooks = 1 .. n
  BY RegisterShape, PluginsAssumption DEF TypeOK
<1>2. \A k \in DOMAIN old : \/ k \in DOMAIN hooks /\ old[k] = hooks[k]
                            \/ /\ k \notin DOMAIN hooks /\ k - n \in DOMAIN HooksOf[o]
                               /\ old[k] = HooksOf[o][k - n] /\ Owns(o, old[k])
  <2>1. /\ DOMAIN old = 1 .. n + Len(HooksOf[o])
        /\ \A k \in 1 .. n + Len(HooksOf[o]) :
              old[k] = IF k <= n THEN hooks[k] ELSE HooksOf[o][k - n]
    BY <1>1
  <2> QED BY <1>1, <2>1 DEF Owns, RangeOf
<1>3. PICK at : Moved(old, hooks', DOMAIN old, at)
  BY <1>1, RegisterShape, SortedMoves
<1>4. /\ Id[o] \in Ids /\ plugins'[Id[o]] = o
      /\ \A i \in Ids : i # Id[o] => plugins'[i] = plugins[i]
      /\ overwritten' = IF plugins[Id[o]] = NULL THEN overwritten
                        ELSE overwritten \cup {Id[o]}
  BY RegisterShape
<1>5. NULL \notin Objects /\ \A p \in Objects : Id[p] \in Ids
  BY PluginsAssumption
<1> HIDE DEF old, n
<1>6. ASSUME NEW p \in Objects, Known(p) PROVE plugins'[Id[p]] = p \/ Id[p] \in overwritten'
  BY <1>4, <1>5, <1>6 DEF Known
<1>7. ASSUME NEW i \in DOMAIN hooks' PROVE \E p \in Objects : Owns(p, hooks'[i]) /\ Known(p)'
  <2>1. PICK k \in DOMAIN old : hooks'[i] = old[k]
    BY <1>3 DEF Moved
  <2>2. CASE k \in DOMAIN hooks /\ old[k] = hooks[k]
    <3>1. PICK p \in Objects : Owns(p, hooks[k]) /\ Known(p)
      BY <2>2 DEF OwnersInv
    <3> QED BY <1>6, <2>1, <2>2, <3>1 DEF Known
  <2>3. CASE Owns(o, old[k])
    BY <1>4, <2>1, <2>3 DEF Known
  <2> QED BY <1>2, <2>2, <2>3
<1>8. ASSUME NEW p \in Objects, Id[p] \notin overwritten', NEW k \in DOMAIN old,
             NEW l \in DOMAIN old, old[k] = old[l], Owns(p, old[k])
      PROVE  k = l
  <2>1. Id[p] \notin overwritten
    BY <1>4, <1>8
  <2>2. CASE k \in DOMAIN hooks /\ l \in DOMAIN hooks
    BY <1>2, <1>8, <2>1, <2>2 DEF OwnersInv
  <2>3. CASE k \notin DOMAIN hooks /\ l \notin DOMAIN hooks
    <3>1. k - n = l - n
      BY <1>2, <1>8, <2>3, PluginsAssumption
    <3>2. k \in Int /\ l \in Int /\ n \in Int
      BY <1>1
    <3> QED BY <3>1, <3>2
  <2>4. ASSUME NEW a \in DOMAIN old, NEW b \in DOMAIN old, old[a] = old[b], Owns(p, old[a]),
               a \in DOMAIN hooks, b \notin DOMAIN hooks
        PROVE  FALSE
    <3>1. Owns(o, old[b]) /\ old[a] = hooks[a]
      BY <1>2, <2>4
    <3>2. p = o
      BY <2>4, <3>1, OneOwner
    <3>3. PICK q \in Objects : Owns(q, hooks[a]) /\ Known(q)
      BY <2>4 DEF OwnersInv
    <3>4. q = o
      BY <2>4, <3>1, <3>3, OneOwner
    <3>5. plugins[Id[o]] = o
      BY <2>1, <3>2, <3>3, <3>4 DEF Known
    <3> QED BY <1>4, <1>5, <1>8, <3>2, <3>5
  <2> QED BY <1>8, <2>2, <2>3, <2>4
<1>9. ASSUME NEW p \in Objects, Id[p] \notin overwritten', NEW i \in DOMAIN hooks',
             NEW j \in DOMAIN hooks', hooks'[i] = hooks'[j], Owns(p, hooks'[i])
      PROVE  i = j
  <2>1. PICK k \in DOMAIN old : at[k] = i /\ hooks'[i] = old[k]
    BY <1>3 DEF Moved
  <2>2. PICK l \in DOMAIN old : at[l] = j /\ hooks'[j] = old[l]
    BY <1>3 DEF Moved
  <2> QED BY <1>8, <1>9, <2>1, <2>2
<1> QED BY <1>7, <1>9 DEF OwnersInv, Owns

LEMMA UnregisterKeepsOwners ==
  ASSUME TypeOK, OwnersInv, NEW i \in Ids, UnregisterPlugin(i) PROVE OwnersInv'
<1>1. PICK o : o = plugins[i]
  OBVIOUS
<1>2. /\ o \in Objects /\ Id[o] = i /\ hooks' = Pick(hooks, Staying(o))
      /\ plugins' = [plugins EXCEPT ![i] = NULL] /\ UNCHANGED overwritten
      /\ hooks \in Seq(Hooks) /\ plugins \in [Ids -> Objects \cup {NULL}]
  BY <1>1, UnregisterShape DEF TypeOK
<1>3. Staying(o) \in SUBSET DOMAIN hooks
  BY DEF Staying
<1>4. PICK at : Moved(hooks, hooks', Staying(o), at)
  BY <1>2, <1>3, PickMoves
<1>5. ASSUME NEW n \in DOMAIN hooks'
      PROVE  \E p \in Objects : Owns(p, hooks'[n]) /\ Known(p)'
  <2>1. PICK k \in Staying(o) : hooks'[n] = hooks[k]
    BY <1>4 DEF Moved
  <2>2. PICK p \in Objects : Owns(p, hooks[k]) /\ Known(p)
    BY <1>3, <2>1 DEF OwnersInv
  <2>3. CASE Id[p] \in overwritten
    BY <1>2, <2>1, <2>2, <2>3 DEF Known
  <2>4. CASE Id[p] \notin overwritten /\ Id[p] # i
    BY <1>2, <2>1, <2>2, <2>4, PluginsAssumption DEF Known
  <2>5. CASE Id[p] \notin overwritten /\ Id[p] = i
    <3>1. p = o
      BY <1>1, <2>2, <2>5 DEF Known
    <3>2. PICK j \in 1 .. k - 1 : hooks[j] = hooks[k]
      BY <2>1, <2>2, <3>1 DEF Staying, Owns
    <3>3. j \in DOMAIN hooks /\ k \in DOMAIN hooks /\ j # k
      BY <1>2, <1>3, <2>1
    <3> QED BY <2>2, <2>5, <3>2, <3>3 DEF OwnersInv
  <2> QED BY <2>3, <2>4, <2>5
<1>6. ASSUME NEW p \in Objects, Id[p] \notin overwritten', NEW m \in DOMAIN hooks',
             NEW n \in DOMAIN hooks', hooks'[m] = hooks'[n], Owns(p, hooks'[m])
      PROVE  m = n
  <2>1. PICK k \in Staying(o) : at[k] = m /\ hooks'[m] = hooks[k]
    BY <1>4 DEF Moved
  <2>2. PICK l \in Staying(o) : at[l] = n /\ hooks'[n] = hooks[l]
    BY <1>4 DEF Moved
  <2>3. k \in DOMAIN hooks /\ l \in DOMAIN hooks /\ Id[p] \notin overwritten
    BY <1>2, <1>3, <1>6
  <2> QED BY <1>6, <2>1, <2>2, <2>3 DEF OwnersInv
<1> QED BY <1>5, <1>6 DEF OwnersInv, Owns

LEMMA OwnersStep == TypeOK /\ OwnersInv /\ [Next]_vars => OwnersInv'
<1> SUFFICES ASSUME TypeOK, OwnersInv, [Next]_vars PROVE OwnersInv'
  OBVIOUS
<1>1. ASSUME UNCHANGED <<plugins, hooks, overwritten>> PROVE OwnersInv'
  BY <1>1 DEF OwnersInv, Owns, Known
<1>2. ASSUME NEW r \in Runs, TriggerEvent(r) \/ HookSettles(r) PROVE OwnersInv'
  BY <1>1, <1>2 DEF TriggerEvent, HookSettles
<1>3. ASSUME NEW r \in Runs, Finish(r) PROVE OwnersInv'
  BY <1>1, <1>3 DEF Finish
<1>4. ASSUME NEW r \in Runs, NEW s \in Services,
             Answered(r, s) \/ Failed(r, s) \/ RetryWebhook(r, s)
      PROVE  OwnersInv'
  BY <1>1, <1>4, CallShape, SetCallShape
<1>5. ASSUME NEW s \in Services, RegisterExternalService(s) \/ UnregisterExternalService(s)
      PROVE  OwnersInv'
  BY <1>1, <1>5 DEF RegisterExternalService, UnregisterExternalService
<1> QED BY <1>1, <1>2, <1>3, <1>4, <1>5, RegisterKeepsOwners, UnregisterKeepsOwners
        DEF Next, vars

(***************************************************************************)
(* registerPlugin and unregisterPlugin: whatever objects are registered in *)
(* whatever order, no hook stays behind without its plugin unless an id    *)
(* was registered again while in use.  The induction needs that a plugin   *)
(* whose id never was has each hook in the array once, as                  *)
(* unregisterPlugin removes one.                                           *)
(***************************************************************************)
THEOREM HooksAreOwned == Spec => []NoOrphans
<1>1. Init => OwnersInv
  BY DEF Init, OwnersInv
<1>2. OwnersInv => NoOrphans
  BY DEF OwnersInv, NoOrphans, Owns, Known
<1> QED BY <1>1, <1>2, OwnersStep, TypeCorrect, PTL DEF Spec

-----------------------------------------------------------------------------
(***************************************************************************)
(* Which hooks an event runs.                                              *)
(***************************************************************************)
\* The hooks there all along have run at most once, if none was put in front
\* of the loop's index.
RunOnce(l) ==
    ~l.pushed => \A h \in l.present : \A i, j \in DOMAIN l.ran :
                    l.ran[i] = h /\ l.ran[j] = h => i = j

\* Under way in seq: of the hooks there all along, those before the index have
\* run unless one was taken out there, and those from the index on have not
\* unless one was put in.
Underway(l, seq) ==
    /\ ~l.live => l.present = {}
    /\ \A h \in l.present : Once(seq, h)
    /\ ~l.pulled => \A i \in DOMAIN seq :
                        i < l.next /\ seq[i] \in l.present => seq[i] \in RangeOf(l.ran)
    /\ ~l.pushed => \A i \in DOMAIN seq :
                        i >= l.next /\ seq[i] \in l.present => seq[i] \notin RangeOf(l.ran)

Complete(l) == ~l.pulled => l.present \subseteq RangeOf(l.ran)

LoopOK(r) ==
    \A l \in Loop, seq \in Seq(Hooks) : l = loop[r] /\ seq = hooks =>
        /\ RunOnce(l)
        /\ pc[r] = "hook" => Underway(l, seq)
        /\ pc[r] \in {"send", "done"} => Complete(l)

LoopsInv ==
    /\ \A seq \in Seq(Hooks) : seq = hooks => Ordered(seq)
    /\ \A r \in Runs : LoopOK(r)

LEMMA NewLoopUnderway ==
  ASSUME TypeOK
  PROVE  RunOnce(NewLoop) /\ Underway(NewLoop, hooks)
<1> DEFINE l == NewLoop
<1>1. /\ l.live = (hooks # <<>>) /\ l.next = 1 /\ l.ran = <<>> /\ hooks \in Seq(Hooks)
      /\ l.present = {h \in Hooks : Once(hooks, h)}
  BY NewLoopTyped DEF TypeOK
<1> HIDE DEF l
<1>2. DOMAIN l.ran = {} /\ RangeOf(l.ran) = {}
  BY <1>1 DEF RangeOf
<1>3. ASSUME hooks = <<>>, NEW h PROVE ~Once(hooks, h)
  <2>1. DOMAIN hooks = {}
    BY <1>3
  <2> QED BY <1>1, <2>1, OnceMeans
<1>4. ~l.live => l.present = {}
  BY <1>1, <1>3
<1>5. \A i \in DOMAIN hooks : ~ (i < l.next)
  BY <1>1
<1>6. RunOnce(l)
  BY <1>2 DEF RunOnce
<1>7. Underway(l, hooks)
  BY <1>1, <1>2, <1>4, <1>5 DEF Underway
<1> QED BY <1>6, <1>7 DEF l

\* The loop goes on: the hook at the index runs.
LEMMA OnwardKeeps ==
  ASSUME NEW seq \in Seq(Hooks), NEW l \in Loop, NEW m \in Loop,
         RunOnce(l), Underway(l, seq), l.next \in DOMAIN seq,
         m.next = l.next + 1, m.ran = Append(l.ran, seq[l.next]), m.live = l.live,
         m.present = l.present, m.pushed = l.pushed, m.pulled = l.pulled
  PROVE  RunOnce(m) /\ Underway(m, seq)
<1> DEFINE n == l.next
           k == Len(l.ran)
<1>1. /\ n \in Nat \ {0} /\ l.ran \in Seq(Hooks) /\ k \in Nat /\ DOMAIN l.ran = 1 .. k
      /\ l.present \subseteq Hooks /\ seq[n] \in Hooks
  BY DEF Loop
<1>2. /\ DOMAIN m.ran = 1 .. k + 1 /\ m.ran[k + 1] = seq[n]
      /\ \A i \in 1 .. k : m.ran[i] = l.ran[i]
  BY <1>1
<1>3. \A h : h \in RangeOf(m.ran) <=> h \in RangeOf(l.ran) \/ h = seq[n]
  BY <1>1, <1>2 DEF RangeOf
<1> HIDE DEF k
<1>4. ASSUME NEW i \in DOMAIN seq, i # n, seq[i] \in l.present PROVE seq[i] # seq[n]
  <2>1. Once(seq, seq[i])
    BY <1>4 DEF Underway
  <2> QED BY <1>4, <2>1, OnceMeans
<1>5. ASSUME ~m.pulled, NEW i \in DOMAIN seq, i < m.next, seq[i] \in m.present
      PROVE  seq[i] \in RangeOf(m.ran)
  <2>1. i < n \/ i = n
    BY <1>1, <1>5
  <2> QED BY <1>3, <1>5, <2>1 DEF Underway
<1>6. ASSUME ~m.pushed, NEW i \in DOMAIN seq, i >= m.next, seq[i] \in m.present
      PROVE  seq[i] \notin RangeOf(m.ran)
  <2>1. i >= n /\ i # n
    BY <1>1, <1>6
  <2> QED BY <1>3, <1>4, <1>6, <2>1 DEF Underway
<1>7. Underway(m, seq)
  BY <1>5, <1>6 DEF Underway
<1>8. ASSUME ~m.pushed, NEW h \in m.present, NEW i \in DOMAIN m.ran, NEW j \in DOMAIN m.ran,
             m.ran[i] = h, m.ran[j] = h
      PROVE  i = j
  <2>1. h = seq[n] => h \notin RangeOf(l.ran)
    BY <1>1, <1>8 DEF Underway
  <2>2. \A a \in 1 .. k : l.ran[a] \in RangeOf(l.ran)
    BY <1>1 DEF RangeOf
  <2>3. CASE i \in 1 .. k /\ j \in 1 .. k
    BY <1>1, <1>2, <1>8, <2>3 DEF RunOnce
  <2>4. CASE i = k + 1 /\ j = k + 1
    BY <2>4
  <2>5. CASE i = k + 1 /\ j \in 1 .. k
    BY <1>2, <1>8, <2>1, <2>2, <2>5
  <2>6. CASE j = k + 1 /\ i \in 1 .. k
    BY <1>2, <1>8, <2>1, <2>2, <2>6
  <2> QED BY <1>1, <1>2, <2>3, <2>4, <2>5, <2>6
<1>9. RunOnce(m)
  BY <1>8 DEF RunOnce
<1> QED BY <1>7, <1>9

\* The loop ends: nothing is left at its index.
LEMMA LeavesComplete ==
  ASSUME NEW seq \in Seq(Hooks), NEW l \in Loop, Underway(l, seq),
         ~l.live \/ l.next > Len(seq)
  PROVE  Complete(l)
<1>1. ASSUME ~l.pulled, NEW h \in l.present PROVE h \in RangeOf(l.ran)
  <2>1. l.live /\ Once(seq, h)
    BY <1>1 DEF Underway
  <2>2. PICK i \in DOMAIN seq : seq[i] = h
    BY <2>1, OnceMeans
  <2>3. i < l.next
    BY <2>1, <2>2 DEF Loop
  <2> QED BY <1>1, <2>2, <2>3 DEF Underway
<1> QED BY <1>1 DEF Complete

\* What a loop at index n has passed is as before.
Same(old, new, n) == \A i \in Nat : i < n =>
    /\ i \in DOMAIN old <=> i \in DOMAIN new
    /\ i \in DOMAIN old => new[i] = old[i]

LEMMA PassedSame ==
  ASSUME TypeOK, NEW r \in Runs, NEW new \in Seq(Hooks), Passed(r, new) = Passed(r, hooks),
         NEW n, n = loop[r].next
  PROVE  Same(hooks, new, n)
<1> DEFINE P(seq) == {j \in DOMAIN seq : j < n}
           F(seq) == [i \in P(seq) |-> seq[i]]
<1>1. F(new) = F(hooks)
  BY DEF Passed
<1>2. \A seq : DOMAIN F(seq) = P(seq) /\ \A i \in P(seq) : F(seq)[i] = seq[i]
  OBVIOUS
<1> HIDE DEF F
<1>3. P(new) = P(hooks)
  BY <1>1, <1>2
<1>4. \A i \in P(hooks) : new[i] = hooks[i]
  BY <1>1, <1>2, <1>3
<1>5. ASSUME NEW i \in Nat, i < n
      PROVE  /\ i \in DOMAIN hooks <=> i \in DOMAIN new
             /\ i \in DOMAIN hooks => new[i] = hooks[i]
  <2>1. \A seq : i \in P(seq) <=> i \in DOMAIN seq
    BY <1>5
  <2> HIDE DEF P
  <2> QED BY <1>3, <1>4, <2>1
<1> QED BY <1>5 DEF Same

\* What an array keeps of another: registering moves what was there to the
\* right, unregistering what stays to the left.
RightOf(old, new) == \A k \in DOMAIN old : \E i \in DOMAIN new : k <= i /\ new[i] = old[k]
LeftOf(old, new) == \A i \in DOMAIN new : \E k \in DOMAIN old : i <= k /\ new[i] = old[k]

\* What a loop has seen of the new array: l before, m after.
Sees(l, m, new, in, same) ==
    /\ m.next = l.next /\ m.ran = l.ran /\ m.live = (l.live /\ new # <<>>)
    /\ m.present = {h \in l.present : Once(new, h)}
    /\ ~m.pushed => ~l.pushed /\ (in => same)
    /\ ~m.pulled => ~l.pulled /\ (~in => same)

LEMMA SeesRunOnce ==
  ASSUME NEW l, NEW m, NEW new, NEW in, NEW same, Sees(l, m, new, in, same), RunOnce(l)
  PROVE  RunOnce(m)
  BY DEF Sees, RunOnce

LEMMA SeesUnderway ==
  ASSUME NEW old \in Seq(Hooks), NEW new \in Seq(Hooks), NEW l \in Loop, NEW m \in Loop,
         NEW in, NEW same, Sees(l, m, new, in, same), Underway(l, old),
         same => Same(old, new, l.next),
         in => RightOf(old, new), ~in => LeftOf(old, new)
  PROVE  Underway(m, new)
<1>0. \A i \in DOMAIN new : i \in Nat
  OBVIOUS
<1>1. \A i \in DOMAIN old : i \in Nat
  OBVIOUS
<1>2. l.next \in Nat /\ m.next = l.next /\ m.ran = l.ran
  BY DEF Sees, Loop
<1>3. \A h \in m.present : h \in l.present /\ Once(new, h) /\ Once(old, h)
  BY DEF Sees, Underway
<1>4. ~m.live => m.present = {}
  <2>1. ASSUME new = <<>>, NEW h PROVE ~Once(new, h)
    <3>1. DOMAIN new = {}
      BY <2>1
    <3> QED BY <3>1, OnceMeans
  <2>2. ~m.live => ~l.live \/ new = <<>>
    BY DEF Sees
  <2>3. ~l.live => l.present = {}
    BY DEF Underway
  <2> QED BY <1>3, <2>1, <2>2, <2>3
<1>5. ASSUME ~m.pulled, NEW i \in DOMAIN new, i < m.next, new[i] \in m.present
      PROVE  new[i] \in RangeOf(m.ran)
  <2> DEFINE h == new[i]
  <2>1. PICK k \in DOMAIN old : old[k] = h
    BY <1>3, <1>5, OnceMeans
  <2>2. h \in l.present /\ ~l.pulled
    BY <1>3, <1>5 DEF Sees
  <2>3. CASE in
    <3>1. PICK j \in DOMAIN new : k <= j /\ new[j] = old[k]
      BY <2>3 DEF RightOf
    <3>2. j = i
      BY <1>3, <1>5, <2>1, <3>1, OnceMeans
    <3>3. k < l.next
      BY <1>0, <1>1, <1>2, <1>5, <3>1, <3>2
    <3> QED BY <1>2, <2>1, <2>2, <3>3 DEF Underway
  <2>4. CASE ~in
    <3>1. Same(old, new, l.next)
      BY <1>5, <2>4 DEF Sees
    <3>2. i \in DOMAIN old /\ old[i] = h
      BY <1>0, <1>2, <1>5, <3>1 DEF Same
    <3> QED BY <1>2, <1>5, <2>2, <3>2 DEF Underway
  <2> QED BY <2>3, <2>4
<1>6. ASSUME ~m.pushed, NEW i \in DOMAIN new, i >= m.next, new[i] \in m.present
      PROVE  new[i] \notin RangeOf(m.ran)
  <2> DEFINE h == new[i]
  <2>1. h \in l.present /\ ~l.pushed
    BY <1>3, <1>6 DEF Sees
  <2>2. CASE in
    <3>1. Same(old, new, l.next)
      BY <1>6, <2>2 DEF Sees
    <3>2. PICK k \in DOMAIN old : old[k] = h
      BY <1>3, <1>6, OnceMeans
    <3>3. ASSUME k < l.next PROVE FALSE
      <4>1. k \in DOMAIN new /\ new[k] = h
        BY <1>1, <3>1, <3>2, <3>3 DEF Same
      <4>2. k = i
        BY <1>3, <1>6, <4>1, OnceMeans
      <4> QED BY <1>0, <1>2, <1>6, <3>3, <4>2
    <3>4. k >= l.next
      BY <1>1, <1>2, <3>3
    <3> QED BY <1>2, <2>1, <3>2, <3>4 DEF Underway
  <2>3. CASE ~in
    <3>1. PICK k \in DOMAIN old : i <= k /\ new[i] = old[k]
      BY <2>3 DEF LeftOf
    <3>2. k >= l.next
      BY <1>0, <1>1, <1>2, <1>6, <3>1
    <3> QED BY <1>2, <2>1, <3>1, <3>2 DEF Underway
  <2> QED BY <2>2, <2>3
<1> QED BY <1>3, <1>4, <1>5, <1>6 DEF Underway

\* Both moves of the array keep what is known of the loops.
LEMMA NoticeKeepsLoops ==
  ASSUME TypeOK, LoopsInv, NEW new \in Seq(Hooks), hooks' = new, NEW in \in BOOLEAN,
         Notice(new, in), UNCHANGED pc, Ordered(new),
         in => RightOf(hooks, new), ~in => LeftOf(hooks, new)
  PROVE  LoopsInv'
<1>1. /\ loop \in [Runs -> Loop] /\ loop' \in [Runs -> Loop] /\ hooks \in Seq(Hooks)
      /\ \A r \in Runs : IF pc[r] = "hook" THEN Noticed(r, new, in) ELSE loop'[r] = loop[r]
  BY NoticeFacts DEF TypeOK
<1>2. ASSUME NEW r \in Runs, NEW l \in Loop, l = loop[r], NEW m \in Loop, m = loop'[r]
      PROVE  /\ RunOnce(m)
             /\ pc[r] = "hook" => Underway(m, new)
             /\ pc[r] \in {"send", "done"} => Complete(m)
  <2>1. /\ RunOnce(l)
        /\ pc[r] = "hook" => Underway(l, hooks)
        /\ pc[r] \in {"send", "done"} => Complete(l)
    BY <1>1, <1>2 DEF LoopsInv, LoopOK
  <2>2. CASE pc[r] # "hook"
    BY <1>1, <1>2, <2>1, <2>2
  <2>3. CASE pc[r] = "hook"
    <3>1. PICK same \in BOOLEAN : same = (Passed(r, new) = Passed(r, hooks))
      OBVIOUS
    <3>2. same => Same(hooks, new, l.next)
      BY <1>2, <3>1, PassedSame
    <3>3. Noticed(r, new, in)
      BY <1>1, <2>3
    <3>4. Sees(l, m, new, in, same)
      BY <1>2, <3>1, <3>3 DEF Noticed, Sees
    <3>5. RunOnce(m)
      BY <2>1, <3>4, SeesRunOnce
    <3>6. Underway(m, new)
      BY <1>1, <2>1, <2>3, <3>2, <3>4, SeesUnderway
    <3> QED BY <2>3, <3>5, <3>6
  <2> QED BY <2>2, <2>3
<1>3. ASSUME NEW r \in Runs, NEW m \in Loop, m = loop'[r]
      PROVE  /\ RunOnce(m)
             /\ pc[r] = "hook" => Underway(m, new)
             /\ pc[r] \in {"send", "done"} => Complete(m)
  BY <1>1, <1>2, <1>3
<1>4. \A r \in Runs : LoopOK(r)'
  BY <1>3 DEF LoopOK
<1> QED BY <1>4 DEF LoopsInv

LEMMA RegisterKeepsLoops ==
  ASSUME TypeOK, LoopsInv, NEW o \in Objects, RegisterPlugin(o) PROVE LoopsInv'
<1> DEFINE old == hooks \o HooksOf[o]
<1>1. /\ hooks \in Seq(Hooks) /\ HooksOf[o] \in Seq(Hooks) /\ old \in Seq(Hooks)
      /\ hooks' = Sorted(old) /\ hooks' \in Seq(Hooks) /\ UNCHANGED pc
  BY RegisterShape, PluginsAssumption DEF TypeOK
<1>2. Notice(hooks', TRUE)
  BY Zenon DEF RegisterPlugin
<1>3. /\ \A k \in DOMAIN hooks : /\ k \in DOMAIN old /\ old[k] = hooks[k]
                                 /\ k \in Nat /\ (1 .. k) \subseteq DOMAIN hooks
  BY <1>1
<1> HIDE DEF old
<1>4. PICK at : /\ Moved(old, hooks', DOMAIN old, at)
                /\ \A i \in DOMAIN old :
                      (\A j \in 1 .. i : Priority[old[j]] >= Priority[old[i]]) => i <= at[i]
  BY <1>1, SortedMoves
<1>5. Ordered(hooks')
  BY <1>1, SortedMoves
<1>6. ASSUME NEW k \in DOMAIN hooks PROVE \E i \in DOMAIN hooks' : k <= i /\ hooks'[i] = hooks[k]
  <2>1. Ordered(hooks)
    BY <1>1 DEF LoopsInv
  <2>2. ASSUME NEW j \in 1 .. k PROVE Priority[old[j]] >= Priority[old[k]]
    <3>1. j \in DOMAIN hooks /\ old[j] = hooks[j] /\ old[k] = hooks[k]
      BY <1>3
    <3>2. hooks[k] \in Hooks /\ Priority[hooks[k]] \in Int
      BY <1>1, PluginsAssumption
    <3>3. j < k \/ j = k
      BY <1>3
    <3> QED BY <2>1, <3>1, <3>2, <3>3 DEF Ordered
  <2>3. k <= at[k]
    BY <1>3, <1>4, <2>2
  <2> QED BY <1>3, <1>4, <2>3 DEF Moved
<1>7. RightOf(hooks, hooks')
  BY <1>6 DEF RightOf
<1>8. PICK new \in Seq(Hooks) : new = hooks'
  BY <1>1
<1>9. PICK in \in BOOLEAN : in = TRUE
  OBVIOUS
<1>10. Notice(new, in)
  BY Zenon, <1>2, <1>8, <1>9
<1>11. Ordered(new) /\ RightOf(hooks, new)
  BY <1>5, <1>7, <1>8
<1> QED BY <1>1, <1>8, <1>9, <1>10, <1>11, NoticeKeepsLoops

LEMMA UnregisterKeepsLoops ==
  ASSUME TypeOK, LoopsInv, NEW i \in Ids, UnregisterPlugin(i) PROVE LoopsInv'
<1>1. PICK o : o = plugins[i]
  OBVIOUS
<1>2. /\ hooks' = Pick(hooks, Staying(o)) /\ hooks' \in Seq(Hooks)
      /\ hooks \in Seq(Hooks) /\ UNCHANGED pc
  BY <1>1, UnregisterShape DEF TypeOK
<1>3. Notice(hooks', FALSE)
  BY Zenon DEF UnregisterPlugin
<1>4. Staying(o) \in SUBSET DOMAIN hooks
  BY DEF Staying
<1>5. PICK at : /\ Moved(hooks, hooks', Staying(o), at)
                /\ \A k \in Staying(o) : at[k] <= k
                /\ \A j, k \in Staying(o) : j < k => at[j] < at[k]
  BY <1>2, <1>4, PickMoves
<1>6. Ordered(hooks)
  BY <1>2 DEF LoopsInv
<1>7. ASSUME NEW m \in DOMAIN hooks', NEW n \in DOMAIN hooks', m < n
      PROVE  Priority[hooks'[m]] >= Priority[hooks'[n]]
  <2>1. PICK j \in Staying(o) : at[j] = m /\ hooks'[m] = hooks[j]
    BY <1>5 DEF Moved
  <2>2. PICK k \in Staying(o) : at[k] = n /\ hooks'[n] = hooks[k]
    BY <1>5 DEF Moved
  <2>3. j \in DOMAIN hooks /\ k \in DOMAIN hooks /\ j \in Nat /\ k \in Nat /\ m \in Nat /\ n \in Nat
    BY <1>2, <1>4
  <2>4. j # k /\ ~ (k < j)
    BY <1>5, <1>7, <2>1, <2>2, <2>3
  <2>5. j < k
    BY <2>3, <2>4
  <2> QED BY <1>6, <2>1, <2>2, <2>3, <2>5 DEF Ordered
<1>8. ASSUME NEW n \in DOMAIN hooks' PROVE \E k \in DOMAIN hooks : n <= k /\ hooks'[n] = hooks[k]
  <2>1. PICK k \in Staying(o) : at[k] = n /\ hooks'[n] = hooks[k]
    BY <1>5 DEF Moved
  <2> QED BY <1>4, <1>5, <2>1
<1>9. PICK new \in Seq(Hooks) : new = hooks'
  BY <1>2
<1>10. PICK in \in BOOLEAN : in = FALSE
  OBVIOUS
<1>11. Notice(new, in)
  BY Zenon, <1>3, <1>9, <1>10
<1>12. Ordered(new) /\ LeftOf(hooks, new)
  BY <1>7, <1>8, <1>9 DEF Ordered, LeftOf
<1> QED BY <1>2, <1>9, <1>10, <1>11, <1>12, NoticeKeepsLoops

\* A loop that advances, from the state l in which the last hook left it.
LEMMA AdvanceKeepsLoops ==
  ASSUME TypeOK, LoopsInv, NEW r \in Runs, NEW l \in Loop, Advance(r, l),
         RunOnce(l), Underway(l, hooks), UNCHANGED hooks
  PROVE  LoopsInv'
<1>1. /\ loop' \in [Runs -> Loop] /\ hooks \in Seq(Hooks) /\ hooks' = hooks
      /\ \A t \in Runs : t # r => pc'[t] = pc[t] /\ loop'[t] = loop[t]
      /\ Onward(r, l) \/ Leaves(r, l)
  BY AdvanceFacts DEF TypeOK
<1>2. ASSUME NEW m \in Loop, m = loop'[r]
      PROVE  /\ RunOnce(m)
             /\ pc'[r] = "hook" => Underway(m, hooks)
             /\ pc'[r] \in {"send", "done"} => Complete(m)
  <2>1. CASE Onward(r, l)
    <3>1. /\ l.next \in DOMAIN hooks /\ m.next = l.next + 1
          /\ m.ran = Append(l.ran, hooks[l.next]) /\ m.live = l.live
          /\ m.present = l.present /\ m.pushed = l.pushed /\ m.pulled = l.pulled
          /\ pc'[r] = "hook"
      BY <1>2, <2>1 DEF Onward
    <3>2. RunOnce(m) /\ Underway(m, hooks)
      BY <1>1, <3>1, OnwardKeeps
    <3> QED BY <3>1, <3>2
  <2>2. CASE Leaves(r, l)
    <3>1. m = l /\ pc'[r] = "send" /\ (~l.live \/ l.next > Len(hooks))
      BY <1>2, <2>2 DEF Leaves
    <3>2. Complete(l)
      BY <1>1, <3>1, LeavesComplete
    <3> QED BY <3>1, <3>2
  <2> QED BY <1>1, <2>1, <2>2
<1>3. LoopOK(r)'
  BY <1>1, <1>2 DEF LoopOK
<1>4. ASSUME NEW t \in Runs, t # r PROVE LoopOK(t)'
  <2>1. LoopOK(t)
    BY DEF LoopsInv
  <2> QED BY <1>1, <1>4, <2>1 DEF LoopOK
<1>5. \A t \in Runs : LoopOK(t)'
  BY <1>3, <1>4
<1> QED BY <1>1, <1>5 DEF LoopsInv

LEMMA LoopsStep == TypeOK /\ LoopsInv /\ [Next]_vars => LoopsInv'
<1> SUFFICES ASSUME TypeOK, LoopsInv, [Next]_vars PROVE LoopsInv'
  OBVIOUS
<1>1. ASSUME UNCHANGED <<hooks, pc, loop>> PROVE LoopsInv'
  BY <1>1 DEF LoopsInv, LoopOK
<1>2. ASSUME NEW r \in Runs, TriggerEvent(r) PROVE LoopsInv'
  <2>1. PICK l \in Loop : l = NewLoop /\ Advance(r, l) /\ UNCHANGED hooks
    BY <1>2, TriggerShape
  <2>2. RunOnce(l) /\ Underway(l, hooks)
    BY <2>1, NewLoopUnderway
  <2> QED BY <2>1, <2>2, AdvanceKeepsLoops
<1>3. ASSUME NEW r \in Runs, HookSettles(r) PROVE LoopsInv'
  <2>1. PICK l \in Loop :
            /\ l.live = loop[r].live /\ l.next = loop[r].next /\ l.ran = loop[r].ran
            /\ l.present = loop[r].present /\ l.pushed = loop[r].pushed
            /\ l.pulled = loop[r].pulled
            /\ Advance(r, l) /\ pc[r] = "hook" /\ UNCHANGED hooks
    BY <1>3, SettleShape
  <2>2. PICK k \in Loop : k = loop[r]
    BY DEF TypeOK
  <2>3. hooks \in Seq(Hooks)
    BY DEF TypeOK
  <2>4. RunOnce(k) /\ Underway(k, hooks)
    BY <2>1, <2>2, <2>3 DEF LoopsInv, LoopOK
  <2>5. RunOnce(l) /\ Underway(l, hooks)
    BY <2>1, <2>2, <2>4 DEF RunOnce, Underway
  <2> QED BY <2>1, <2>5, AdvanceKeepsLoops
<1>4. ASSUME NEW r \in Runs, Finish(r) PROVE LoopsInv'
  <2>1. /\ pc[r] = "send" /\ UNCHANGED <<hooks, loop>> /\ pc' = [pc EXCEPT ![r] = "done"]
        /\ pc \in [Runs -> {"idle", "hook", "send", "done"}]
    BY <1>4 DEF Finish, TypeOK
  <2>2. ASSUME NEW t \in Runs PROVE LoopOK(t)'
    <3>1. LoopOK(t)
      BY DEF LoopsInv
    <3> QED BY <2>1, <3>1 DEF LoopOK
  <2> QED BY <2>1, <2>2 DEF LoopsInv
<1>5. ASSUME NEW r \in Runs, NEW s \in Services,
             Answered(r, s) \/ Failed(r, s) \/ RetryWebhook(r, s)
      PROVE  LoopsInv'
  BY <1>1, <1>5, CallShape, SetCallShape
<1>6. ASSUME NEW s \in Services, RegisterExternalService(s) \/ UnregisterExternalService(s)
      PROVE  LoopsInv'
  BY <1>1, <1>6 DEF RegisterExternalService, UnregisterExternalService
<1> QED BY <1>1, <1>2, <1>3, <1>4, <1>5, <1>6, RegisterKeepsLoops, UnregisterKeepsLoops
        DEF Next, vars

(***************************************************************************)
(* executeInternalPlugins: however many events are under way and whatever  *)
(* is registered and removed while their handlers are awaited, a hook that *)
(* is there all along is passed over only if a hook was removed in front   *)
(* of the loop's index, and runs twice only if one was registered there.   *)
(* The induction needs that the array is always in the order of the        *)
(* priorities: only then does sorting move nothing to the left, into what  *)
(* the loop has passed already.                                            *)
(***************************************************************************)
THEOREM EventsRunHooksOnce == Spec => []HooksRunOnce
<1>1. Init => LoopsInv
  <2> SUFFICES ASSUME Init PROVE LoopsInv
    OBVIOUS
  <2>1. /\ hooks = <<>> /\ loop = [r \in Runs |-> NewLoop] /\ pc = [r \in Runs |-> "idle"]
    BY DEF Init
  <2>2. RunOnce(NewLoop)
    BY TypesInit, NewLoopUnderway
  <2>3. \A r \in Runs : LoopOK(r)
    BY <2>1, <2>2 DEF LoopOK
  <2>4. \A seq : seq = <<>> => Ordered(seq)
    BY DEF Ordered
  <2> QED BY <2>1, <2>3, <2>4 DEF LoopsInv
<1>2. TypeOK /\ LoopsInv => HooksRunOnce
  <2> SUFFICES ASSUME TypeOK, LoopsInv, NEW r \in Runs
               PROVE  /\ pc[r] \in {"send", "done"} /\ ~loop[r].pulled
                              => loop[r].present \subseteq RangeOf(loop[r].ran)
                      /\ ~loop[r].pushed
                              => \A h \in loop[r].present : \A i, j \in DOMAIN loop[r].ran :
                                      loop[r].ran[i] = h /\ loop[r].ran[j] = h => i = j
    BY DEF HooksRunOnce
  <2>1. PICK l \in Loop : l = loop[r]
    BY DEF TypeOK
  <2>2. hooks \in Seq(Hooks)
    BY DEF TypeOK
  <2>3. RunOnce(l) /\ (pc[r] \in {"send", "done"} => Complete(l))
    BY <2>1, <2>2 DEF LoopsInv, LoopOK
  <2> QED BY <2>1, <2>3 DEF RunOnce, Complete
<1> QED BY <1>1, <1>2, LoopsStep, TypeCorrect, PTL DEF Spec
=============================================================================
