--------------------------- MODULE RuleGeneration ---------------------------
(***************************************************************************)
(* The paper of an attempt at a rule-based test: within the transaction of *)
(* startAttempt generateRuleBasedTestQuestions reads the rules once, and   *)
(* draws questions for one after the other, from rows chosen beforehand    *)
(* (PRESELECTED) or from question-pool.service (DYNAMIC), which reads the  *)
(* rule again.  The pool service does not get the transaction: its queries *)
(* need a second connection while the first is held, as do those of three  *)
(* transactions of authors.  Rules and questions change meanwhile.         *)
(***************************************************************************)
EXTENDS FiniteSets, Functions, Integers, Sequences

CONSTANTS
    Attempts,     \* starts of the test
    Authors,      \* requests of create of a question, updateTestStructure and cloneTest
    Rules,
    Questions,
    Marks,        \* of each question
    Preselected,  \* the rows each rule has in testQuestions, in their order
    RuleRows,     \* what authors make of a rule
    Connections,  \* how many connections to the database there are
    MaxEdits,     \* bound on the changes of rules, questions and status
    NULL

Strategies == {"random", "sequential", "weighted"}

\* "matches" is what the criteria select of the published questions.  CreateRuleDto
\* asks for a number of questions and not for a positive one.
TestRule == [number: Int, priority: Int, strategy: Strategies,
             mode: {"PRESELECTED", "DYNAMIC"}, active: BOOLEAN, matches: SUBSET Questions]

ASSUME RuleGenerationAssumption ==
    /\ Marks \in [Questions -> Int]
    /\ Preselected \in [Rules -> Seq(Questions)] /\ \A k \in Rules : IsInjective(Preselected[k])
    /\ RuleRows \subseteq TestRule
    /\ IsFiniteSet(Rules) /\ IsFiniteSet(Questions) /\ Connections \in Nat \ {0} /\ MaxEdits \in Nat
    /\ NULL \notin TestRule

VARIABLES
    rules,      \* the rows of the test's rules, NULL where there is none
    bank,       \* the published questions
    published,  \* the status of the test
    start,      \* the starts: what each has read and drawn
    author,     \* where the authors' transactions are
    edits       \* how many changes there have been

vars == <<rules, bank, published, start, author, edits>>
data == <<rules, bank, published, edits>>

\* A block of a paper: the rule as it was read last, what it was drawn from, and
\* the questions drawn.
Block == [rule: TestRule, from: SUBSET Questions, questions: Seq(Questions)]

Stages == {"none", "connect", "rules", "select", "find", "done", "failed"}
NotStarted == [pc |-> "none", todo |-> <<>>, plan |-> <<>>, rule |-> NULL, paper |-> <<>>]

Init == /\ rules \in [Rules -> RuleRows \cup {NULL}]
        /\ bank = Questions
        /\ published \in BOOLEAN
        /\ start = [a \in Attempts |-> NotStarted]
        /\ author = [w \in Authors |-> "idle"]
        /\ edits = 0

Holding == {a \in Attempts : start[a].pc \in {"rules", "select", "find"}}
Working == {w \in Authors : author[w] \in {"ask", "commit"}}
ConnectionLeft == Cardinality(Holding) + Cardinality(Working) < Connections

Goes(a, new) == start' = [start EXCEPT ![a] = new] /\ UNCHANGED <<data, author>>
Fails(a) == Goes(a, [NotStarted EXCEPT !.pc = "failed"])

\* How many slice(0, n) takes of m: a negative n counts from the end.
Sliced(m, n) ==
    IF n < 0 THEN (IF m + n > 0 THEN m + n ELSE 0) ELSE IF n < m THEN n ELSE m

\* n different questions of S, in any order.
Orders(S, n) == {s \in [1 .. n -> S] : IsInjective(s)}

ByMarks(s) == \A i, j \in DOMAIN s : i <= j => Marks[s[i]] >= Marks[s[j]]

\* selectWeightedQuestions
HeaviestFirst(S, n) ==
    {s \in Orders(S, n) :
        ByMarks(s) /\ \A q \in S \ Range(s), i \in DOMAIN s : Marks[q] <= Marks[s[i]]}

\* selectQuestions of the pool, which no ORDER BY precedes.
Pools(strategy, S, n) ==
    LET k == Sliced(Cardinality(S), n)
    IN  IF strategy = "weighted" THEN HeaviestFirst(S, k) ELSE Orders(S, k)

\* selectQuestionsFromPool, selectQuestionsFromRule: by weight is at random here.
Selections(strategy, s, n) ==
    LET k == Sliced(Len(s), n)
    IN  IF strategy = "sequential" THEN {SubSeq(s, 1, k)} ELSE Orders(Range(s), k)

-----------------------------------------------------------------------------
StartBegin(a) ==
    /\ start[a] = NotStarted /\ published /\ ConnectionLeft
    /\ Goes(a, [NotStarted EXCEPT !.pc = "connect"])

StartConnect(a) ==
    /\ start[a].pc = "connect" /\ ConnectionLeft
    /\ Goes(a, [start[a] EXCEPT !.pc = "rules"])

\* By priority only: rules of the same come in any order.
ReadRules(a) ==
    LET active == {k \in Rules : rules[k] # NULL /\ rules[k].active}
    IN  /\ start[a].pc = "rules"
        /\ \E order \in Orders(active, Cardinality(active)) :
            /\ \A i, j \in DOMAIN order : i < j => rules[order[i]].priority >= rules[order[j]].priority
            /\ LET plan == [i \in DOMAIN order |-> rules[order[i]]]
               IN  Goes(a, [start[a] EXCEPT !.pc = "select", !.todo = order, !.plan = plan])

\* The rule in hand, as the start first read it.
Planned(a) == start[a].plan[Len(start[a].paper) + 1]

\* Mutant: what the pool gives is taken to be enough.
DrawsUnchecked(a, rule, from, pool) ==
    \E s \in Selections(Planned(a).strategy, pool, Planned(a).number) :
        LET block == [rule |-> rule, from |-> from, questions |-> s]
        IN  Goes(a, [start[a] EXCEPT !.pc = "select", !.todo = Tail(@), !.rule = NULL,
                                     !.paper = Append(@, block)])

Draws(a, rule, from, pool) ==
    IF Len(pool) < Planned(a).number THEN Fails(a)
    ELSE \E s \in Selections(Planned(a).strategy, pool, Planned(a).number) :
            LET block == [rule |-> rule, from |-> from, questions |-> s]
            IN  Goes(a, [start[a] EXCEPT !.pc = "select", !.todo = Tail(@), !.rule = NULL,
                                         !.paper = Append(@, block)])

DrawPreselected(a) ==
    /\ start[a].pc = "select" /\ start[a].todo # <<>> /\ Planned(a).mode = "PRESELECTED"
    /\ LET rows == Preselected[Head(start[a].todo)]
       IN  Draws(a, Planned(a), Range(rows), rows)

\* Mutant: nothing comes back for a rule that is gone or inactive.
ReadRuleAgainOrHang(a) ==
    /\ start[a].pc = "select" /\ start[a].todo # <<>> /\ Planned(a).mode = "DYNAMIC"
    /\ ConnectionLeft
    /\ LET row == rules[Head(start[a].todo)]
       IN  /\ row # NULL /\ row.active
           /\ Goes(a, [start[a] EXCEPT !.pc = "find", !.rule = row])

\* Mutant: the pool is asked for whatever became of the rule.
ReadRuleAgainUnchecked(a) ==
    /\ start[a].pc = "select" /\ start[a].todo # <<>> /\ Planned(a).mode = "DYNAMIC"
    /\ ConnectionLeft
    /\ Goes(a, [start[a] EXCEPT !.pc = "find", !.rule = rules[Head(start[a].todo)]])

\* generateQuestionPool, on another connection.
ReadRuleAgain(a) ==
    /\ start[a].pc = "select" /\ start[a].todo # <<>> /\ Planned(a).mode = "DYNAMIC"
    /\ ConnectionLeft
    /\ LET row == rules[Head(start[a].todo)]
       IN  IF row = NULL \/ ~row.active THEN Fails(a)
           ELSE Goes(a, [start[a] EXCEPT !.pc = "find", !.rule = row])

DrawDynamic(a) ==
    LET rule == start[a].rule
        from == bank \cap rule.matches
    IN  /\ start[a].pc = "find" /\ ConnectionLeft
        /\ IF Cardinality(from) < rule.number THEN Fails(a)
           ELSE \E pool \in Pools(rule.strategy, from, rule.number) : Draws(a, rule, from, pool)

\* The rows of the paper are inserted and the transaction is committed.
Commit(a) ==
    /\ start[a].pc = "select" /\ start[a].todo = <<>>
    /\ Goes(a, [start[a] EXCEPT !.pc = "done"])

\* Any statement may fail; all is rolled back.
Abort(a) == start[a].pc \in {"connect", "rules", "select", "find"} /\ Fails(a)

-----------------------------------------------------------------------------
\* Transactions that ask another connection: create of a question for a test,
\* updateTestStructure, cloneTest.
AuthorGoes(w, from, to) == /\ author[w] = from
                           /\ author' = [author EXCEPT ![w] = to]
                           /\ UNCHANGED <<data, start>>

AuthorBegin(w) == AuthorGoes(w, "idle", "connect")
AuthorConnect(w) == ConnectionLeft /\ AuthorGoes(w, "connect", "ask")
AuthorAsk(w) == ConnectionLeft /\ AuthorGoes(w, "ask", "commit")
AuthorCommit(w) == AuthorGoes(w, "commit", "idle")

Changes == ConnectionLeft /\ edits < MaxEdits /\ edits' = edits + 1 /\ UNCHANGED <<start, author>>

\* create asks whether the test is published before it awaits the insertion, and
\* update moves a rule to any test: a rule can come to a published test.
CreateRule(k, row) ==
    /\ rules[k] = NULL
    /\ rules' = [rules EXCEPT ![k] = row]
    /\ Changes /\ UNCHANGED <<bank, published>>

UpdateRule(k, row) ==
    /\ rules[k] \notin {NULL, row}
    /\ rules' = [rules EXCEPT ![k] = row]
    /\ Changes /\ UNCHANGED <<bank, published>>

RemoveRule(k) ==
    /\ rules[k] # NULL
    /\ rules' = [rules EXCEPT ![k] = NULL]
    /\ Changes /\ UNCHANGED <<bank, published>>

SetQuestionStatus(q) ==
    /\ bank' = IF q \in bank THEN bank \ {q} ELSE bank \cup {q}
    /\ Changes /\ UNCHANGED <<rules, published>>

SetTestStatus ==
    /\ published' = ~published
    /\ Changes /\ UNCHANGED <<rules, bank>>

Edit == \/ \E k \in Rules : RemoveRule(k) \/ \E row \in RuleRows : CreateRule(k, row) \/ UpdateRule(k, row)
        \/ \E q \in Questions : SetQuestionStatus(q)
        \/ SetTestStatus

StartStep(a) == \/ ReadRules(a) \/ DrawPreselected(a) \/ Commit(a)
                \/ StartConnect(a) \/ ReadRuleAgain(a) \/ DrawDynamic(a)

AuthorStep(w) == AuthorConnect(w) \/ AuthorAsk(w) \/ AuthorCommit(w)

Next == \/ \E a \in Attempts : StartBegin(a) \/ StartStep(a) \/ Abort(a)
        \/ \E w \in Authors : AuthorBegin(w) \/ AuthorStep(w)
        \/ Edit

Spec == Init /\ [][Next]_vars

\* Statements are answered, and one who waits gets a connection that stays left.
FairSpec == /\ Spec
            /\ \A a \in Attempts : WF_vars(StartStep(a))
            /\ \A w \in Authors : WF_vars(AuthorStep(w))

-----------------------------------------------------------------------------
\* Rows, starts and transactions are what their types say.
TypeOK ==
    /\ rules \in [Rules -> TestRule \cup {NULL}]
    /\ bank \subseteq Questions /\ published \in BOOLEAN /\ edits \in 0 .. MaxEdits
    /\ author \in [Authors -> {"idle", "connect", "ask", "commit"}]
    /\ \A a \in Attempts :
        /\ start[a].pc \in Stages
        /\ start[a].todo \in Seq(Rules) /\ start[a].plan \in Seq(TestRule)
        /\ start[a].paper \in Seq(Block)
        /\ start[a].pc = "find" => start[a].rule \in TestRule

(***************************************************************************)
(* A committed paper keeps to the rules as they were when the start read   *)
(* them, whatever became of rules and questions meanwhile: a block of each *)
(* rule, by priority, of different questions that it was to draw from, and *)
(* exactly its number of them, unless that is negative.  The heaviest of   *)
(* them come of a DYNAMIC rule that the pool service found to ask for as   *)
(* many by weight; nothing weighs the rows of a PRESELECTED one.           *)
(***************************************************************************)
PaperMatchesRules ==
    \A a \in Attempts : start[a].pc = "done" =>
        /\ Len(start[a].paper) = Len(start[a].plan)
        /\ \A i \in DOMAIN start[a].paper :
            LET block == start[a].paper[i]
                plan == start[a].plan[i]
                drawn == Range(block.questions)
            IN  /\ \A j \in 1 .. i : start[a].plan[j].priority >= plan.priority
                /\ Cardinality(drawn) = Len(block.questions)
                /\ plan.number >= 0 => Len(block.questions) = plan.number
                /\ drawn \subseteq block.from
                /\ /\ plan.mode = "DYNAMIC" /\ plan.number >= 0
                   /\ block.rule.strategy = "weighted" /\ block.rule.number = plan.number
                   => \A q \in block.from \ drawn, p \in drawn : Marks[q] <= Marks[p]

(***************************************************************************)
(* A start ends, with a paper or an error, and none waits for ever for a   *)
(* connection that another holds while it waits itself.  This is so with   *)
(* more connections than transactions, whatever the rules become.          *)
(***************************************************************************)
StartsFinish ==
    \A a \in Attempts : start[a].pc = "connect" ~> start[a].pc \in {"done", "failed"}
=============================================================================
