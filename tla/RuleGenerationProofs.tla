------------------------ MODULE RuleGenerationProofs ------------------------
(***************************************************************************)
(* Theorems about RuleGeneration, for any rules, questions and changes of  *)
(* them, and any number of starts and connections.                         *)
(***************************************************************************)
EXTENDS RuleGeneration, FiniteSetTheorems, SequenceTheorems, TLAPS

(***************************************************************************)
(* Draws.                                                                  *)
(***************************************************************************)
LEMMA OrdersAre ==
  ASSUME NEW S, NEW n \in Nat, NEW s \in Orders(S, n)
  PROVE  /\ s \in Seq(S) /\ Len(s) = n /\ IsInjective(s)
         /\ Range(s) \subseteq S
         /\ IsFiniteSet(Range(s)) /\ Cardinality(Range(s)) = n
<1>1. s \in [1 .. n -> S] /\ IsInjective(s)
  BY DEF Orders
<1>2. s \in Seq(S) /\ Len(s) = n /\ Range(s) \subseteq S
  BY <1>1 DEF Range
<1>3. s \in Bijection(1 .. n, Range(s))
  BY <1>1 DEF Bijection, Injection, Surjection, Range
<1>4. ExistsBijection(1 .. n, Range(s))
  BY <1>3 DEF ExistsBijection
<1>5. IsFiniteSet(1 .. n) /\ Cardinality(1 .. n) = n
  BY FS_Interval
<1> QED
  BY <1>1, <1>2, <1>4, <1>5, FS_Bijection

\* slice takes no more than there is, and what it is asked for if that is there.
LEMMA SlicedIs ==
  ASSUME NEW m \in Nat, NEW number \in Int
  PROVE  /\ Sliced(m, number) \in 0 .. m
         /\ number \in 0 .. m => Sliced(m, number) = number
BY DEF Sliced

LEMMA SelectionsAreOrders ==
  ASSUME NEW S, NEW pool \in Seq(S), IsInjective(pool), NEW number \in Int,
         NEW strategy, NEW s \in Selections(strategy, pool, number)
  PROVE  s \in Orders(Range(pool), Sliced(Len(pool), number))
<1> DEFINE n == Sliced(Len(pool), number)
<1>0. n \in 0 .. Len(pool)
  BY SlicedIs
<1> USE DEF Selections
<1> HIDE DEF n
<1>1. CASE strategy = "sequential"
  <2>1. s = SubSeq(pool, 1, n)
    BY <1>1 DEF n
  <2>2. s \in [1 .. n -> Range(pool)] /\ \A i \in 1 .. n : s[i] = pool[i]
    <3>1. n \in Nat /\ n <= Len(pool) /\ DOMAIN pool = 1 .. Len(pool) /\ Len(pool) \in Nat
      BY <1>0
    <3>2. \A i \in 1 .. n : pool[i] \in Range(pool)
      BY <3>1 DEF Range
    <3>3. /\ SubSeq(pool, 1, n) \in Seq(Range(pool))
          /\ Len(SubSeq(pool, 1, n)) = IF 1 <= n THEN n - 1 + 1 ELSE 0
          /\ \A i \in 1 .. n - 1 + 1 : SubSeq(pool, 1, n)[i] = pool[1 + i - 1]
      BY <3>1, <3>2, SubSeqProperties
    <3>4. Len(s) = n /\ s \in Seq(Range(pool)) /\ \A i \in 1 .. n : s[i] = pool[i]
      BY <2>1, <3>1, <3>3
    <3> QED
      BY <3>4
  <2>3. IsInjective(s)
    BY <1>0, <2>2, DOMAIN pool = 1 .. Len(pool) DEF IsInjective
  <2> QED
    BY <2>2, <2>3 DEF Orders, n
<1>2. CASE strategy # "sequential"
  BY <1>2 DEF n
<1> QED
  BY <1>1, <1>2

\* All of the heaviest are drawn when as many are drawn as there are.
LEMMA AllAreDrawn ==
  ASSUME NEW S, NEW n \in Nat, NEW pool \in HeaviestFirst(S, n), NEW s \in Orders(Range(pool), n)
  PROVE  /\ Range(s) = Range(pool)
         /\ \A q \in S \ Range(s), p \in Range(s) : Marks[q] <= Marks[p]
<1>1. pool \in Orders(S, n)
  BY DEF HeaviestFirst
<1>2. IsFiniteSet(Range(pool)) /\ Cardinality(Range(pool)) = n
  BY <1>1, OrdersAre
<1>3. Range(s) \subseteq Range(pool) /\ Cardinality(Range(s)) = n
  BY OrdersAre
<1>4. Range(s) = Range(pool)
  BY <1>2, <1>3, FS_Subset
<1>5. ASSUME NEW q \in S \ Range(s), NEW p \in Range(s) PROVE Marks[q] <= Marks[p]
  <2>1. PICK i \in DOMAIN pool : p = pool[i]
    BY <1>4 DEF Range
  <2> QED
    BY <1>4, <2>1 DEF HeaviestFirst
<1> QED
  BY <1>4, <1>5

-----------------------------------------------------------------------------
(***************************************************************************)
(* What a start has in hand: the rules as it read them, by priority, a     *)
(* block that keeps to its rule for each it is done with, and the others   *)
(* still to do.                                                            *)
(***************************************************************************)
Keeps(block, plan) ==
    /\ Cardinality(Range(block.questions)) = Len(block.questions)
    /\ plan.number >= 0 => Len(block.questions) = plan.number
    /\ Range(block.questions) \subseteq block.from
    /\ /\ plan.mode = "DYNAMIC" /\ plan.number >= 0
       /\ block.rule.strategy = "weighted" /\ block.rule.number = plan.number
       => \A q \in block.from \ Range(block.questions), p \in Range(block.questions) :
            Marks[q] <= Marks[p]

Slot == [pc : Stages, todo : Seq(Rules), plan : Seq(TestRule), rule : TestRule \cup {NULL},
         paper : Seq(Block)]

ByPriority(plan) == \A i, j \in DOMAIN plan : j <= i => plan[j].priority >= plan[i].priority

SlotOK(s) ==
    /\ s \in Slot
    /\ s.pc = "find" => s.rule \in TestRule /\ s.todo # <<>>
    /\ s.pc \in {"select", "find", "done"} =>
            /\ Len(s.todo) + Len(s.paper) = Len(s.plan)
            /\ ByPriority(s.plan)
            /\ \A i \in DOMAIN s.paper : Keeps(s.paper[i], s.plan[i])
    /\ s.pc = "done" => s.todo = <<>>
    /\ s.pc \in {"connect", "rules"} => s.paper = <<>>

Data ==
    /\ rules \in [Rules -> TestRule \cup {NULL}]
    /\ bank \subseteq Questions /\ published \in BOOLEAN /\ edits \in 0 .. MaxEdits
    /\ author \in [Authors -> {"idle", "connect", "ask", "commit"}]

Inv ==
    /\ Data
    /\ DOMAIN start = Attempts
    /\ \A a \in Attempts : SlotOK(start[a])

LEMMA NotStartedOK ==
  ASSUME NEW p \in {"none", "connect", "rules", "failed"}
  PROVE  SlotOK([NotStarted EXCEPT !.pc = p])
<1> DEFINE s == [NotStarted EXCEPT !.pc = p]
<1>1. s = [pc |-> p, todo |-> <<>>, plan |-> <<>>, rule |-> NULL, paper |-> <<>>]
  BY DEF NotStarted
<1>2. /\ p \in Stages /\ p \notin {"select", "find", "done"}
      /\ <<>> \in Seq(Rules) /\ <<>> \in Seq(TestRule) /\ <<>> \in Seq(Block)
  BY DEF Stages
<1>3. s \in Slot
  BY <1>1, <1>2 DEF Slot
<1>4. s.pc = p /\ s.paper = <<>>
  BY <1>1
<1> QED
  BY <1>2, <1>3, <1>4 DEF SlotOK

LEMMA InitInv == Init => Inv
<1> SUFFICES ASSUME Init PROVE Inv
  OBVIOUS
<1>1. SlotOK(NotStarted)
  <2>1. NotStarted = [NotStarted EXCEPT !.pc = "none"]
    BY DEF NotStarted
  <2> QED
    BY <2>1, NotStartedOK
<1>2. Data
  BY RuleGenerationAssumption DEF Init, Data
<1> QED
  BY <1>1, <1>2 DEF Init, Inv

\* A start changes nothing but itself.
LEMMA GoesInv ==
  ASSUME Inv, NEW a \in Attempts, NEW s, SlotOK(s), Goes(a, s)
  PROVE  Inv'
<1>1. start' = [start EXCEPT ![a] = s] /\ UNCHANGED <<data, author>>
  BY DEF Goes
<1>2. Data'
  BY <1>1 DEF Inv, Data, data
<1>3. DOMAIN start' = Attempts /\ \A b \in Attempts : SlotOK(start'[b])
  BY <1>1 DEF Inv
<1>4. \A b \in Attempts : SlotOK(start[b])'
  BY <1>3 DEF SlotOK, Slot, Keeps, ByPriority
<1> QED
  BY <1>2, <1>3, <1>4 DEF Inv

LEMMA FailsInv ==
  ASSUME Inv, NEW a \in Attempts, Fails(a)
  PROVE  Inv'
BY GoesInv, NotStartedOK DEF Fails

LEMMA SumKept ==
  ASSUME NEW t \in Seq(Rules), t # <<>>, NEW p \in Seq(Block), NEW b \in Block
  PROVE  Len(Tail(t)) + Len(Append(p, b)) = Len(t) + Len(p)
<1>1. Len(Tail(t)) = Len(t) - 1 /\ Len(Append(p, b)) = Len(p) + 1
  OBVIOUS
<1>2. ASSUME NEW k \in Nat, NEW m \in Nat
      PROVE  (k - 1) + (m + 1) = k + m
  OBVIOUS
<1>3. Len(t) \in Nat /\ Len(p) \in Nat
  OBVIOUS
<1> QED
  BY <1>1, <1>2, <1>3

\* The rule in hand was read.
LEMMA PlannedIs ==
  ASSUME Inv, NEW a \in Attempts, start[a].pc \in {"select", "find"}, start[a].todo # <<>>
  PROVE  /\ Planned(a) \in TestRule
         /\ Len(start[a].paper) + 1 \in DOMAIN start[a].plan
         /\ Head(start[a].todo) \in Rules
<1>1. SlotOK(start[a])
  BY DEF Inv
<1>2. /\ start[a].todo \in Seq(Rules) /\ start[a].paper \in Seq(Block)
      /\ start[a].plan \in Seq(TestRule)
      /\ Len(start[a].todo) + Len(start[a].paper) = Len(start[a].plan)
  BY <1>1 DEF SlotOK, Slot
<1>3. Len(start[a].todo) \in Nat \ {0} /\ Len(start[a].paper) \in Nat
  BY <1>2
<1>4. Len(start[a].paper) + 1 \in 1 .. Len(start[a].plan)
  <2>1. ASSUME NEW k \in Nat \ {0}, NEW m \in Nat, NEW n, k + m = n
        PROVE  m + 1 \in 1 .. n
    BY <2>1
  <2> QED
    BY ONLY <1>2, <1>3, <2>1
<1> QED
  BY <1>2, <1>4 DEF Planned

(***************************************************************************)
(* A block that is drawn keeps to the rule in hand.                        *)
(***************************************************************************)
LEMMA DrawsInv ==
  ASSUME Inv, NEW a \in Attempts, start[a].pc \in {"select", "find"}, start[a].todo # <<>>,
         NEW rule \in TestRule, NEW from \in SUBSET Questions,
         NEW pool \in Seq(from), IsInjective(pool),
         ( /\ Planned(a).mode = "DYNAMIC" /\ Planned(a).number >= 0
           /\ rule.strategy = "weighted" /\ rule.number = Planned(a).number )
         => pool \in HeaviestFirst(from, rule.number),
         Draws(a, rule, from, pool)
  PROVE  Inv'
<1> DEFINE plan == Planned(a)
           n == plan.number
           k == Sliced(Len(pool), n)
<1>1. CASE Len(pool) < n
  BY <1>1, FailsInv DEF Draws
<1>2. CASE ~(Len(pool) < n)
  <2>1. PICK s \in Selections(plan.strategy, pool, n) :
            Goes(a, [start[a] EXCEPT !.pc = "select", !.todo = Tail(@), !.rule = NULL,
                        !.paper = Append(@, [rule |-> rule, from |-> from, questions |-> s])])
    BY <1>2 DEF Draws
  <2> DEFINE block == [rule |-> rule, from |-> from, questions |-> s]
             old == start[a]
             new == [start[a] EXCEPT !.pc = "select", !.todo = Tail(@), !.rule = NULL,
                                     !.paper = Append(@, block)]
  <2>2. plan \in TestRule /\ n \in Int /\ Len(pool) \in Nat
    BY PlannedIs DEF TestRule
  <2> HIDE DEF plan, n
  <2>3. k \in Nat /\ (n >= 0 => k = n)
    BY <1>2, <2>2, SlicedIs
  <2>4. s \in Orders(Range(pool), k)
    BY <2>1, <2>2, SelectionsAreOrders
  <2> HIDE DEF k
  <2>5. Range(pool) \subseteq from /\ from \subseteq Questions
    BY DEF Range
  <2>6. s \in Seq(Questions) /\ Len(s) = k /\ Cardinality(Range(s)) = k /\ Range(s) \subseteq from
    <3>1. s \in Seq(Range(pool)) /\ Len(s) = k /\ Cardinality(Range(s)) = k
          /\ Range(s) \subseteq Range(pool)
      BY <2>3, <2>4, OrdersAre
    <3> QED
      BY <3>1, <2>5
  <2>7. block \in Block
    BY <2>6 DEF Block
  <2>8. Keeps(block, plan)
    <3>1. ASSUME plan.mode = "DYNAMIC", n >= 0, rule.strategy = "weighted", rule.number = n
          PROVE  \A q \in from \ Range(s), p \in Range(s) : Marks[q] <= Marks[p]
      <4>1. pool \in HeaviestFirst(from, k)
        BY <2>3, <3>1 DEF plan, n
      <4> QED
        BY <2>3, <2>4, <4>1, AllAreDrawn
    <3>2. plan.number >= 0 => Len(s) = plan.number
      BY <2>3, <2>6 DEF n
    <3>3. block.questions = s /\ block.from = from /\ block.rule = rule
      OBVIOUS
    <3> HIDE DEF block
    <3> QED
      BY <3>1, <3>2, <3>3, <2>6 DEF Keeps, n
  <2>9. SlotOK(old)
    BY DEF Inv
  <2>10. /\ old \in Slot /\ old.todo \in Seq(Rules) /\ old.paper \in Seq(Block)
         /\ old.plan \in Seq(TestRule)
         /\ Len(old.todo) + Len(old.paper) = Len(old.plan) /\ ByPriority(old.plan)
         /\ \A i \in DOMAIN old.paper : Keeps(old.paper[i], old.plan[i])
    BY <2>9 DEF SlotOK, Slot
  <2>11. /\ Tail(old.todo) \in Seq(Rules) /\ Len(Tail(old.todo)) = Len(old.todo) - 1
         /\ Append(old.paper, block) \in Seq(Block)
         /\ Len(Append(old.paper, block)) = Len(old.paper) + 1
         /\ \A i \in 1 .. Len(old.paper) : Append(old.paper, block)[i] = old.paper[i]
         /\ Append(old.paper, block)[Len(old.paper) + 1] = block
    <3> HIDE DEF block
    <3> QED
      BY <2>7, <2>10
  <2> HIDE DEF block
  <2>12. /\ new \in Slot /\ new.pc = "select" /\ new.plan = old.plan
         /\ new.todo = Tail(old.todo) /\ new.paper = Append(old.paper, block)
    BY <2>10, <2>11 DEF Slot, Stages
  <2>13. ASSUME NEW i \in DOMAIN new.paper PROVE Keeps(new.paper[i], new.plan[i])
    <3>1. i \in 1 .. Len(old.paper) + 1 /\ Len(old.paper) \in Nat
      BY <2>10, <2>11, <2>12
    <3>2. CASE i = Len(old.paper) + 1
      <4>1. new.paper[i] = block /\ new.plan[i] = plan
        BY <3>2, <2>11, <2>12 DEF plan, Planned
      <4> QED
        BY <4>1, <2>8
    <3>3. CASE i # Len(old.paper) + 1
      <4>1. i \in 1 .. Len(old.paper)
        BY <3>1, <3>3
      <4>2. new.paper[i] = old.paper[i] /\ new.plan[i] = old.plan[i] /\ i \in DOMAIN old.paper
        BY <4>1, <2>10, <2>11, <2>12
      <4> QED
        BY <4>2, <2>10
    <3> QED
      BY <3>2, <3>3
  <2>14. Len(new.todo) + Len(new.paper) = Len(new.plan)
    <3>1. Len(Tail(old.todo)) + Len(Append(old.paper, block)) = Len(old.plan)
      BY <2>7, <2>10, SumKept
    <3> HIDE DEF new
    <3> QED
      BY <2>12, <3>1
  <2> HIDE DEF new
  <2>15. SlotOK(new)
    BY <2>10, <2>12, <2>13, <2>14 DEF SlotOK
  <2> QED
    BY <2>1, <2>15, GoesInv DEF new, block
<1> QED
  BY <1>1, <1>2

-----------------------------------------------------------------------------
(***************************************************************************)
(* What the statements before a draw give a start.                         *)
(***************************************************************************)
LEMMA ReadRulesInv ==
  ASSUME Inv, NEW a \in Attempts, ReadRules(a)
  PROVE  Inv'
<1> DEFINE active == {k \in Rules : rules[k] # NULL /\ rules[k].active}
<1>1. Cardinality(active) \in Nat
  BY RuleGenerationAssumption, FS_Subset, FS_CardinalityType
<1>2. PICK order \in Orders(active, Cardinality(active)) :
        /\ \A i, j \in DOMAIN order : i < j => rules[order[i]].priority >= rules[order[j]].priority
        /\ Goes(a, [start[a] EXCEPT !.pc = "select", !.todo = order,
                                    !.plan = [i \in DOMAIN order |-> rules[order[i]]]])
  BY DEF ReadRules
<1> DEFINE plan == [i \in DOMAIN order |-> rules[order[i]]]
           new == [start[a] EXCEPT !.pc = "select", !.todo = order, !.plan = plan]
<1>3. order \in Seq(active) /\ Len(order) = Cardinality(active)
  BY <1>1, OrdersAre
<1>4. order \in Seq(Rules) /\ \A i \in DOMAIN order : rules[order[i]] \in TestRule
  <2>1. \A i \in DOMAIN order : order[i] \in active
    BY <1>3
  <2>2. \A k \in active : rules[k] \in TestRule
    BY DEF Inv, Data
  <2>3. active \subseteq Rules
    OBVIOUS
  <2> HIDE DEF active
  <2> QED
    BY <1>3, <2>1, <2>2, <2>3
<1>5. plan \in Seq(TestRule) /\ Len(plan) = Len(order)
  BY <1>4
<1>6. ByPriority(plan)
  <2>1. SUFFICES ASSUME NEW i \in DOMAIN plan, NEW j \in DOMAIN plan, j <= i
                 PROVE  plan[j].priority >= plan[i].priority
    BY DEF ByPriority
  <2>2. i \in Int /\ j \in Int /\ i \in DOMAIN order /\ j \in DOMAIN order
    BY <1>4
  <2>3. plan[i].priority \in Int
    BY <2>2, <1>4 DEF TestRule
  <2>4. CASE j = i
    BY <2>3, <2>4
  <2>5. CASE j < i
    BY <1>2, <2>2, <2>5
  <2> QED
    BY <2>1, <2>2, <2>4, <2>5
<1>7. start[a].paper = <<>> /\ start[a] \in Slot
  BY DEF ReadRules, Inv, SlotOK
<1> HIDE DEF plan
<1>8. /\ new \in Slot /\ new.pc = "select" /\ new.todo = order /\ new.plan = plan
      /\ new.paper = <<>>
  BY <1>4, <1>5, <1>7 DEF Slot, Stages
<1>9. Len(order) + Len(<<>>) = Len(plan)
  BY <1>3, <1>5
<1> HIDE DEF new
<1>10. SlotOK(new)
  BY <1>6, <1>8, <1>9 DEF SlotOK
<1> QED
  BY <1>2, <1>10, GoesInv DEF new, plan

LEMMA PreselectedInv ==
  ASSUME Inv, NEW a \in Attempts, DrawPreselected(a)
  PROVE  Inv'
<1> DEFINE rows == Preselected[Head(start[a].todo)]
<1>1. /\ start[a].pc = "select" /\ start[a].todo # <<>> /\ Planned(a).mode = "PRESELECTED"
      /\ Draws(a, Planned(a), Range(rows), rows)
  BY DEF DrawPreselected
<1>2. Planned(a) \in TestRule /\ Head(start[a].todo) \in Rules
  BY <1>1, PlannedIs
<1>3. rows \in Seq(Questions) /\ IsInjective(rows)
  BY <1>2, RuleGenerationAssumption
<1> HIDE DEF rows
<1>4. rows \in Seq(Range(rows)) /\ Range(rows) \in SUBSET Questions
  BY <1>3 DEF Range
<1> QED
  BY <1>1, <1>2, <1>3, <1>4, DrawsInv

LEMMA ReadAgainInv ==
  ASSUME Inv, NEW a \in Attempts, ReadRuleAgain(a)
  PROVE  Inv'
<1> DEFINE row == rules[Head(start[a].todo)]
           new == [start[a] EXCEPT !.pc = "find", !.rule = row]
<1>1. start[a].pc = "select" /\ start[a].todo # <<>>
  BY DEF ReadRuleAgain
<1>2. CASE Fails(a)
  BY <1>2, FailsInv
<1>3. CASE row # NULL /\ Goes(a, new)
  <2>1. row \in TestRule
    BY <1>1, <1>3, PlannedIs DEF Inv, Data
  <2>2. SlotOK(start[a])
    BY DEF Inv
  <2> HIDE DEF row
  <2>3. /\ new \in Slot /\ new.pc = "find" /\ new.rule = row /\ new.todo = start[a].todo
        /\ new.plan = start[a].plan /\ new.paper = start[a].paper
    BY <2>1, <2>2 DEF SlotOK, Slot, Stages
  <2> HIDE DEF new
  <2>4. SlotOK(new)
    BY <1>1, <2>1, <2>2, <2>3 DEF SlotOK
  <2> QED
    BY <1>3, <2>4, GoesInv
<1> QED
  BY <1>2, <1>3 DEF ReadRuleAgain

LEMMA DynamicInv ==
  ASSUME Inv, NEW a \in Attempts, DrawDynamic(a)
  PROVE  Inv'
<1> DEFINE rule == start[a].rule
           from == bank \cap rule.matches
<1>1. start[a].pc = "find" /\ rule \in TestRule /\ start[a].todo # <<>>
  BY DEF DrawDynamic, Inv, SlotOK
<1>2. from \in SUBSET Questions /\ rule.number \in Int
  BY <1>1 DEF Inv, Data, TestRule
<1>3. CASE Fails(a)
  BY <1>3, FailsInv
<1>4. CASE /\ ~(Cardinality(from) < rule.number)
           /\ \E pool \in Pools(rule.strategy, from, rule.number) : Draws(a, rule, from, pool)
  <2>1. PICK pool \in Pools(rule.strategy, from, rule.number) : Draws(a, rule, from, pool)
    BY <1>4
  <2> DEFINE k == Sliced(Cardinality(from), rule.number)
  <2> HIDE DEF rule, from
  <2>2. Cardinality(from) \in Nat
    BY <1>2, RuleGenerationAssumption, FS_Subset, FS_CardinalityType
  <2>3. k \in Nat /\ (rule.number \in 0 .. Cardinality(from) => k = rule.number)
    BY <1>2, <2>2, SlicedIs
  <2>4. /\ pool \in Orders(from, k)
        /\ rule.strategy = "weighted" => pool \in HeaviestFirst(from, k)
    BY <2>1 DEF Pools, HeaviestFirst
  <2> HIDE DEF k
  <2>5. pool \in Seq(from) /\ IsInjective(pool)
    BY <2>3, <2>4, OrdersAre
  <2>6. ASSUME rule.strategy = "weighted", rule.number >= 0
        PROVE  pool \in HeaviestFirst(from, rule.number)
    BY <1>2, <1>4, <2>2, <2>3, <2>4, <2>6
  <2> QED
    BY <1>1, <1>2, <2>1, <2>5, <2>6, DrawsInv
<1> QED
  BY <1>3, <1>4 DEF DrawDynamic

LEMMA CommitInv ==
  ASSUME Inv, NEW a \in Attempts, Commit(a)
  PROVE  Inv'
<1> DEFINE new == [start[a] EXCEPT !.pc = "done"]
<1>1. SlotOK(start[a]) /\ start[a].pc = "select" /\ start[a].todo = <<>> /\ Goes(a, new)
  BY DEF Commit, Inv
<1>2. /\ new \in Slot /\ new.pc = "done" /\ new.todo = start[a].todo
      /\ new.plan = start[a].plan /\ new.paper = start[a].paper
  BY <1>1 DEF SlotOK, Slot, Stages
<1> HIDE DEF new
<1>3. SlotOK(new)
  BY <1>1, <1>2 DEF SlotOK
<1> QED
  BY <1>1, <1>3, GoesInv

LEMMA ConnectInv ==
  ASSUME Inv, NEW a \in Attempts, StartConnect(a)
  PROVE  Inv'
<1> DEFINE new == [start[a] EXCEPT !.pc = "rules"]
<1>1. SlotOK(start[a]) /\ start[a].pc = "connect" /\ Goes(a, new)
  BY DEF StartConnect, Inv
<1>2. new \in Slot /\ new.pc = "rules" /\ new.paper = start[a].paper
  BY <1>1 DEF SlotOK, Slot, Stages
<1> HIDE DEF new
<1>3. SlotOK(new)
  BY <1>1, <1>2 DEF SlotOK
<1> QED
  BY <1>1, <1>3, GoesInv

\* What others do leaves the starts alone.
LEMMA OthersInv ==
  ASSUME Inv, start' = start, Data'
  PROVE  Inv'
<1>0. DOMAIN start' = Attempts /\ \A b \in Attempts : SlotOK(start'[b])
  BY DEF Inv
<1>1. \A b \in Attempts : SlotOK(start[b])'
  BY <1>0 DEF SlotOK, Slot, Keeps, ByPriority
<1> QED
  BY <1>0, <1>1 DEF Inv

LEMMA AuthorsInv ==
  ASSUME Inv, NEW w \in Authors, NEW from, NEW to \in {"idle", "connect", "ask", "commit"},
         AuthorGoes(w, from, to)
  PROVE  Inv'
BY OthersInv DEF AuthorGoes, Inv, Data, data

LEMMA EditInv ==
  ASSUME Inv, Edit
  PROVE  Inv'
<1>0. Data /\ RuleRows \subseteq TestRule /\ MaxEdits \in Nat
  BY RuleGenerationAssumption DEF Inv
<1>1. ASSUME Changes PROVE edits' \in 0 .. MaxEdits /\ start' = start /\ author' = author
  BY <1>0, <1>1 DEF Changes, Data
<1>2. ASSUME NEW k \in Rules, RemoveRule(k) PROVE Inv'
  BY <1>0, <1>1, <1>2, OthersInv DEF RemoveRule, Data
<1>3. ASSUME NEW k \in Rules, NEW row \in RuleRows, CreateRule(k, row) \/ UpdateRule(k, row) PROVE Inv'
  BY <1>0, <1>1, <1>3, OthersInv DEF CreateRule, UpdateRule, Data
<1>4. ASSUME NEW q \in Questions, SetQuestionStatus(q) PROVE Inv'
  BY <1>0, <1>1, <1>4, OthersInv DEF SetQuestionStatus, Data
<1>5. ASSUME SetTestStatus PROVE Inv'
  BY <1>0, <1>1, <1>5, OthersInv DEF SetTestStatus, Data
<1> QED
  BY <1>2, <1>3, <1>4, <1>5 DEF Edit

LEMMA NextInv == Inv /\ [Next]_vars => Inv'
<1> SUFFICES ASSUME Inv, [Next]_vars PROVE Inv'
  OBVIOUS
<1>1. ASSUME NEW a \in Attempts, StartBegin(a) PROVE Inv'
  BY <1>1, NotStartedOK, GoesInv DEF StartBegin
<1>2. ASSUME NEW a \in Attempts, StartStep(a) PROVE Inv'
  BY <1>2, ReadRulesInv, PreselectedInv, CommitInv, ConnectInv, ReadAgainInv, DynamicInv
     DEF StartStep
<1>3. ASSUME NEW a \in Attempts, Abort(a) PROVE Inv'
  BY <1>3, FailsInv DEF Abort
<1>4. ASSUME NEW w \in Authors, AuthorBegin(w) \/ AuthorStep(w) PROVE Inv'
  BY <1>4, AuthorsInv DEF AuthorBegin, AuthorStep, AuthorConnect, AuthorAsk, AuthorCommit
<1>5. CASE Edit
  BY <1>5, EditInv
<1>6. CASE UNCHANGED vars
  BY <1>6, OthersInv DEF vars, Inv, Data
<1> QED
  BY <1>1, <1>2, <1>3, <1>4, <1>5, <1>6 DEF Next

LEMMA InvAlways == Spec => []Inv
BY InitInv, NextInv, PTL DEF Spec

(***************************************************************************)
(* Rows, starts and transactions are what their types say.                 *)
(***************************************************************************)
THEOREM TypeCorrect == Spec => []TypeOK
<1>1. Inv => TypeOK
  BY DEF Inv, Data, SlotOK, Slot, TypeOK
<1> QED
  BY <1>1, InvAlways, PTL

(***************************************************************************)
(* generateRuleBasedTestQuestions: whatever authors change while papers    *)
(* are drawn, a committed paper has a block for each rule as the start     *)
(* first read it, by priority, of different questions that it was to draw  *)
(* from, and exactly its number of them unless that is negative.  If the   *)
(* pool service was asked by weight for as many, they are the heaviest;    *)
(* of a PRESELECTED rule they need not be.                                 *)
(***************************************************************************)
THEOREM PapersMatchRules == Spec => []PaperMatchesRules
<1>1. Inv => PaperMatchesRules
  <2> SUFFICES ASSUME Inv, NEW a \in Attempts, start[a].pc = "done"
               PROVE  /\ Len(start[a].paper) = Len(start[a].plan)
                      /\ ByPriority(start[a].plan)
                      /\ \A i \in DOMAIN start[a].paper : Keeps(start[a].paper[i], start[a].plan[i])
                      /\ start[a].plan \in Seq(TestRule) /\ start[a].paper \in Seq(Block)
    BY DEF PaperMatchesRules, Keeps, ByPriority
  <2>1. SlotOK(start[a])
    BY DEF Inv
  <2>2. /\ start[a].plan \in Seq(TestRule) /\ start[a].paper \in Seq(Block)
        /\ start[a].todo = <<>> /\ Len(start[a].todo) + Len(start[a].paper) = Len(start[a].plan)
    BY <2>1 DEF SlotOK, Slot
  <2>3. Len(start[a].paper) = Len(start[a].plan)
    <3>1. Len(start[a].todo) = 0 /\ Len(start[a].paper) \in Nat
      BY <2>2
    <3>2. \A k \in Nat : 0 + k = k
      OBVIOUS
    <3> QED
      BY <2>2, <3>1, <3>2
  <2> QED
    BY <2>1, <2>2, <2>3 DEF SlotOK
<1> QED
  BY <1>1, InvAlways, PTL
=============================================================================
