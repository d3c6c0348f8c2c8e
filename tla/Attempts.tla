------------------------------ MODULE Attempts ------------------------------
(***************************************************************************)
(* The attempts of one learner at one test, as                             *)
(* src/modules/attempts/attempts.service.ts keeps them in the tables       *)
(* testAttempts and testUserAnswers, and the five handlers that write      *)
(* them: startAttempt, submitAnswer, submitAttempt, reviewAttempt and      *)
(* reviewTestAttempt.                                                      *)
(*                                                                         *)
(* A handler is a request slot that moves through its awaits, one action   *)
(* for each stretch of code between two of them.  What it read it keeps in *)
(* its slot, and between its steps the other slots run: nothing in the     *)
(* code locks a row or checks a version, and the database runs at READ     *)
(* COMMITTED.  Which requests may be in flight together is the constant    *)
(* Overlap: the service itself accepts any two (Overlap = SUBSET Kinds),   *)
(* and Overlap = {} is a client that waits for every answer.               *)
(***************************************************************************)
EXTENDS Integers, Sequences, FiniteSets, FiniteSetsExt

CONSTANTS
    Requests,    \* slots for requests being handled
    AttemptIds,  \* ids of testAttempts rows
    AnswerIds,   \* ids of testUserAnswers rows
    Questions,   \* questions of the test
    ParentOf,    \* the parentId of each question, or NULL
    Compulsory,  \* questions whose testQuestions row has isCompulsory
    Subjective,  \* questions of type SUBJECTIVE or ESSAY
    Marks,       \* scores an answer can be given
    Tests,       \* the configurations of the test that are considered
    Batches,     \* bodies of POST /attempts/:id/answers
    Reviews,     \* bodies of the two review endpoints
    Overlap,     \* sets of kinds of request that may be in flight together
    NULL

Kinds == {"start", "answer", "submit", "review", "import"}

GradingTypes == {"quiz", "assessment", "feedback", "reflection.prompt"}

Test == [type: {"plain", "rule_based"}, gradingType: GradingTypes,
         isObjective: BOOLEAN, allowResubmission: BOOLEAN,
         attempts: Nat, passingMarks: Int]

\* An answer as it reaches submitAnswer: the score calculateQuestionScore will
\* give it, and the child questions its selected options open.
AnswerInput == [question: Questions, score: Marks, opens: SUBSET Questions]

ReviewInput == [question: Questions, score: Marks]

(***************************************************************************)
(* Rows.  NULL is SQL's NULL.                                              *)
(***************************************************************************)
AttemptRow == [attempt: Nat, status: {"I", "S"}, reviewStatus: {"P", "U", "R"},
               score: Int \cup {NULL}, result: {"P", "F", NULL}]

AnswerRow == [id: AnswerIds, attempt: AttemptIds, question: Questions,
              score: Int, opens: SUBSET Questions, reviewStatus: {"P", "R"}]

Columns == {"attempt", "status", "reviewStatus", "score", "result"}

NoRow == [attempt |-> 0, status |-> "I", reviewStatus |-> "P",
          score |-> NULL, result |-> NULL]

ASSUME ParamsAssumption ==
    /\ Tests \subseteq Test
    /\ ParentOf \in [Questions -> Questions \cup {NULL}]
    /\ Compulsory \subseteq Questions
    /\ Subjective \subseteq Questions
    /\ Marks \subseteq Int /\ 0 \in Marks
    /\ Batches \subseteq Seq(AnswerInput)
    /\ Reviews \subseteq Seq(ReviewInput)
    /\ Overlap \subseteq SUBSET Kinds
    /\ NULL \notin Questions \cup AttemptIds \cup AttemptRow
    /\ NULL \notin Int \cup Kinds \cup {"P", "F"}

ASSUME SlotsAssumption == IsFiniteSet(Requests) /\ Requests # {}

(***************************************************************************)
(* A request slot: what the handler has in its local variables.            *)
(***************************************************************************)
Stages == {"idle", "start", "answer.read", "answer.stage", "answer.commit",
           "submit.validate", "submit.score", "review.read", "review.answers",
           "lms", "save.reload", "save.write"}

Slot == [kind: Kinds \cup {NULL}, pc: Stages, att: AttemptIds \cup {NULL},
         ent: AttemptRow, batch: Seq(AnswerInput), review: Seq(ReviewInput),
         seen: SUBSET AnswerRow, drop: SUBSET AnswerIds,
         update: SUBSET AnswerRow, insert: SUBSET AnswerRow,
         dirty: SUBSET Columns, clear: BOOLEAN, count: Nat \cup {NULL}]

IdleSlot == [kind |-> NULL, pc |-> "idle", att |-> NULL, ent |-> NoRow,
             batch |-> <<>>, review |-> <<>>, seen |-> {}, drop |-> {},
             update |-> {}, insert |-> {}, dirty |-> {},
             clear |-> FALSE, count |-> NULL]

LmsMessage == [attempt: AttemptIds, result: {"P", "F"}]

VARIABLES
    test,        \* the tests row
    testStatus,  \* its status column, which PATCH /tests can change; "draft"
                 \* is any status but published and archived
    window,      \* the clock against startDate and endDate
    attempts,    \* testAttempts: AttemptIds -> row, NULL where there is none
    answers,     \* testUserAnswers: a set of rows
    req,         \* the request slots
    lms,         \* the result the LMS holds for this learner and test
    lmsPosted,   \* PATCHes to the LMS that nothing awaits any more
    outdated     \* auxiliary: attempts whose answers moved past their score

dbvars == <<test, testStatus, window, attempts, answers>>
lmsvars == <<lms, lmsPosted>>
vars == <<dbvars, req, lmsvars, outdated>>

TypeOK ==
    /\ test \in Tests
    /\ testStatus \in {"draft", "published", "archived"}
    /\ window \in {"before", "open", "after"}
    /\ attempts \in [AttemptIds -> AttemptRow \cup {NULL}]
    /\ answers \in SUBSET AnswerRow
    /\ req \in [Requests -> Slot]
    /\ lms \in {"P", "F", NULL}
    /\ lmsPosted \in SUBSET LmsMessage
    /\ outdated \in SUBSET AttemptIds

Init ==
    /\ test \in Tests
    /\ testStatus = "published"
    /\ window \in {"before", "open"}
    /\ attempts = [a \in AttemptIds |-> NULL]
    /\ answers = {}
    /\ req = [r \in Requests |-> IdleSlot]
    /\ lms = NULL
    /\ lmsPosted = {}
    /\ outdated = {}

(***************************************************************************)
(* Helpers.                                                                *)
(***************************************************************************)
Started == {a \in AttemptIds : attempts[a] # NULL}

RowsOf(a) == {x \in answers : x.attempt = a}

SumOfScores(rows) == MapThenSumSet(LAMBDA x : x.score, rows)

\* COALESCE(SUM(score), 0), and what parseFloat and Number(...) || 0 make of it.
TotalScore(a) ==
    LET sum == SumOfScores(RowsOf(a))
    IN  IF sum \in Int THEN sum ELSE 0

IsChild(q) == ParentOf[q] # NULL

IsFormStyle(t) ==
    t.gradingType \in {"feedback", "reflection.prompt", "assessment"}

IsScored(t) == t.gradingType \in {"quiz", "assessment"}

\* The row attempt.resolvedTestId points to: for a rule-based test a GENERATED
\* test that copies no more than the title, the duration, the passing marks,
\* the description and the status, every other column keeping its default.
ResolvedTest ==
    IF test.type = "rule_based"
    THEN [test EXCEPT !.gradingType = "quiz", !.isObjective = FALSE,
                      !.allowResubmission = FALSE, !.attempts = 1]
    ELSE test

\* What submitAttempt checks: the endDate of the resolved test, and a generated
\* test has none.
SubmissionEnded == window = "after" /\ test.type = "plain"

\* A generated test's questions are never compulsory.
CompulsoryQuestions == IF test.type = "rule_based" THEN {} ELSE Compulsory

ResultFor(score) == IF score >= test.passingMarks THEN "P" ELSE "F"

\* Sets with one of the rows of R for each question R has rows of: what a Map
\* keyed by questionId keeps of them, the query giving them in no fixed order.
OneRowEach(R) ==
    {T \in SUBSET R :
        /\ \A x \in R : \E y \in T : y.question = x.question
        /\ \A x, y \in T : x.question = y.question => x = y}

\* TypeORM's save(entity): the columns in which the entity differs from the row
\* as it is reloaded, and later an UPDATE that sets those columns.
Dirty(ent, row) == {c \in Columns : ent[c] # row[c]}

Overlay(row, ent, cols) ==
    [attempt |-> IF "attempt" \in cols THEN ent.attempt ELSE row.attempt,
     status |-> IF "status" \in cols THEN ent.status ELSE row.status,
     reviewStatus |-> IF "reviewStatus" \in cols THEN ent.reviewStatus
                                                 ELSE row.reviewStatus,
     score |-> IF "score" \in cols THEN ent.score ELSE row.score,
     result |-> IF "result" \in cols THEN ent.result ELSE row.result]

MayBegin(r, k) ==
    /\ req[r].pc = "idle"
    /\ \A s \in Requests : req[s].pc # "idle" => {k, req[s].kind} \in Overlap

Becomes(r, slot) == req' = [req EXCEPT ![r] = slot]

Finish(r) == Becomes(r, IdleSlot)

-----------------------------------------------------------------------------
(***************************************************************************)
(* startAttempt.  The test is loaded and checked; then one query looks for *)
(* an attempt that is in the way while another counts the attempts, each   *)
(* on a connection of its own; last, a transaction inserts the new row     *)
(* with the number the count gave.  The row numbered and the limit checked *)
(* are those of the count, however old it is by then.                      *)
(***************************************************************************)
StartBegin(r) ==
    /\ MayBegin(r, "start")
    /\ testStatus = "published"
    /\ window = "open"
    /\ Becomes(r, [req[r] EXCEPT !.kind = "start", !.pc = "start"])
    /\ UNCHANGED <<dbvars, lmsvars, outdated>>

\* An attempt that startAttempt returns or stumbles over.
InTheWay(row) == test.allowResubmission \/ row.reviewStatus = "P"

\* Mutant of StartFind: no attempt is ever in the way.
StartFindNothing(r) ==
    /\ req[r].pc = "start"
    /\ ~req[r].clear
    /\ Becomes(r, [req[r] EXCEPT !.clear = TRUE])
    /\ UNCHANGED <<dbvars, lmsvars, outdated>>

StartFind(r) ==
    /\ req[r].pc = "start"
    /\ ~req[r].clear
    /\ IF \E a \in Started : InTheWay(attempts[a])
       THEN Finish(r)
       ELSE Becomes(r, [req[r] EXCEPT !.clear = TRUE])
    /\ UNCHANGED <<dbvars, lmsvars, outdated>>

StartCount(r) ==
    /\ req[r].pc = "start"
    /\ req[r].count = NULL
    /\ Becomes(r, [req[r] EXCEPT !.count = Cardinality(Started)])
    /\ UNCHANGED <<dbvars, lmsvars, outdated>>

StartRefuse(r) ==
    /\ req[r].pc = "start"
    /\ req[r].clear
    /\ req[r].count # NULL
    /\ req[r].count >= test.attempts
    /\ Finish(r)
    /\ UNCHANGED <<dbvars, lmsvars, outdated>>

\* An attempt opened by request r with the given number.
Opened(r, number) ==
    /\ \E a \in AttemptIds \ Started :
          attempts' = [attempts EXCEPT ![a] = [NoRow EXCEPT !.attempt = number]]
    /\ Finish(r)
    /\ UNCHANGED <<test, testStatus, window, answers, lmsvars, outdated>>

\* Mutants of StartCreate: the limit is not looked at; the number is the count;
\* the number is that of the attempts there are at the insert.
StartCreateAnyway(r) ==
    /\ req[r].pc = "start"
    /\ req[r].clear
    /\ req[r].count # NULL
    /\ Opened(r, req[r].count + 1)

StartCreateUncounted(r) ==
    /\ req[r].pc = "start"
    /\ req[r].clear
    /\ req[r].count # NULL
    /\ req[r].count < test.attempts
    /\ Opened(r, req[r].count)

StartCreateRecounted(r) ==
    /\ req[r].pc = "start"
    /\ req[r].clear
    /\ req[r].count # NULL
    /\ req[r].count < test.attempts
    /\ Opened(r, Cardinality(Started) + 1)

StartCreate(r) ==
    /\ req[r].pc = "start"
    /\ req[r].clear
    /\ req[r].count # NULL
    /\ req[r].count < test.attempts
    /\ Opened(r, req[r].count + 1)

-----------------------------------------------------------------------------
(***************************************************************************)
(* submitAnswer.  One transaction: load the attempt, load its answers,     *)
(* delete child answers and stage the rows to write, save the attempt,     *)
(* commit.  The status is checked on the attempt as it was first loaded.   *)
(***************************************************************************)
\* Mutant of AnswerBegin: the status of the attempt is not looked at.
AnswerBeginAnyway(r, a, b) ==
    /\ MayBegin(r, "answer")
    /\ a \in Started
    /\ b # <<>>
    /\ window # "after"
    /\ Becomes(r, [req[r] EXCEPT !.kind = "answer", !.pc = "answer.read",
                          !.att = a, !.ent = attempts[a], !.batch = b])
    /\ UNCHANGED <<dbvars, lmsvars, outdated>>

AnswerBegin(r, a, b) ==
    /\ MayBegin(r, "answer")
    /\ a \in Started
    /\ b # <<>>
    /\ window # "after"
    /\ attempts[a].status = "I" \/ test.allowResubmission
    /\ Becomes(r, [req[r] EXCEPT !.kind = "answer", !.pc = "answer.read",
                          !.att = a, !.ent = attempts[a], !.batch = b])
    /\ UNCHANGED <<dbvars, lmsvars, outdated>>

\* Mutant of AnswerRead: the answers that exist are not loaded.
AnswerReadNothing(r) ==
    /\ req[r].pc = "answer.read"
    /\ Becomes(r, [req[r] EXCEPT !.pc = "answer.stage", !.seen = {}])
    /\ UNCHANGED <<dbvars, lmsvars, outdated>>

AnswerRead(r) ==
    /\ req[r].pc = "answer.read"
    /\ Becomes(r, [req[r] EXCEPT !.pc = "answer.stage",
                          !.seen = RowsOf(req[r].att)])
    /\ UNCHANGED <<dbvars, lmsvars, outdated>>

Asked(b) == {b[i].question : i \in DOMAIN b}

\* Mutant of Scored: the review status of an attempt, which answers do not have.
ScoredUnderReview(x) ==
    [score |-> IF IsScored(test) THEN x.score ELSE 0,
     reviewStatus |-> IF IsScored(test) /\ ~test.isObjective THEN "U" ELSE "R"]

\* The score and review status an answer is stored with.
Scored(x) ==
    [score |-> IF IsScored(test) THEN x.score ELSE 0,
     reviewStatus |-> IF IsScored(test) /\ ~test.isObjective THEN "P" ELSE "R"]

\* Mutant of CleanedUp: every answer seen is deleted, not those to children.
CleanedUpAll(a, b, seen) ==
    LET answered == {x.question : x \in seen}
        needed == \/ answered \cap Asked(b) # {}
                  \/ \E q \in Asked(b) : IsChild(q)
    IN  IF needed
        THEN {x.id : x \in {y \in RowsOf(a) : y.question \in answered}}
        ELSE {}

\* The ids of the rows cleanupChildQuestion deletes: every answer to a child
\* question that was seen to be answered, when the batch changes an answer or
\* has a child question in it.
CleanedUp(a, b, seen) ==
    LET children == {x.question : x \in {y \in seen : IsChild(y.question)}}
        needed == \/ \E x \in seen : x.question \in Asked(b)
                  \/ \E q \in Asked(b) : IsChild(q)
    IN  IF needed
        THEN {x.id : x \in {y \in RowsOf(a) : y.question \in children}}
        ELSE {}

\* The last answer batch b has for question q.
LastGiven(b, q) ==
    {b[i] : i \in {i \in DOMAIN b :
                      /\ b[i].question = q
                      /\ \A j \in DOMAIN b : b[j].question = q => j <= i}}

\* An existing answer takes the last value the batch has for its question.
Rewritten(rows, b) ==
    UNION {{[row EXCEPT !.opens = x.opens, !.score = Scored(x).score,
                        !.reviewStatus = Scored(x).reviewStatus] :
               x \in LastGiven(b, row.question)} : row \in rows}

NewRow(id, a, x) ==
    [id |-> id, attempt |-> a, question |-> x.question, opens |-> x.opens,
     score |-> Scored(x).score, reviewStatus |-> Scored(x).reviewStatus]

Ids(rows) == {x.id : x \in rows}

\* Ids that no row has, nor any transaction still knows: a UUID is never used
\* twice, and here an id is free again only when everyone has forgotten it.
FreshIds ==
    AnswerIds \ (Ids(answers) \cup
                 UNION {Ids(req[r].seen) \cup req[r].drop \cup
                        Ids(req[r].update) \cup Ids(req[r].insert) : r \in Requests})

\* A row that was read and is gone when it is saved (the cleanup of this very
\* transaction may have deleted it) is inserted again under its own id.
AnswerStage(r) ==
    LET a == req[r].att
        b == req[r].batch
        drop == CleanedUp(a, b, req[r].seen)
        existing == {x \in req[r].seen : x.question \in Asked(b)}
        known == {x.question : x \in existing}
        new == {i \in DOMAIN b : b[i].question \notin known}
        here == Ids(answers) \ drop
    IN  /\ req[r].pc = "answer.stage"
        /\ \E kept \in OneRowEach(existing), id \in [new -> FreshIds] :
              /\ \A i, j \in new : id[i] = id[j] => i = j
              /\ LET saved == Rewritten(kept, b)
                 IN  Becomes(r, [req[r] EXCEPT
                        !.pc = "answer.commit",
                        !.drop = drop,
                        !.update = {x \in saved : x.id \in here},
                        !.insert = {x \in saved : x.id \notin here}
                                      \cup {NewRow(id[i], a, b[i]) : i \in new},
                        !.dirty = Dirty(req[r].ent, attempts[a])])
        /\ UNCHANGED <<dbvars, lmsvars, outdated>>

\* The commit.  An UPDATE of a row that another transaction deleted meanwhile
\* changes nothing, and an INSERT of one it inserted again fails (see Abort).
AnswerCommit(r) ==
    LET q == req[r]
        rest == {x \in answers : x.id \notin q.drop}
        updated == {x \in q.update : x.id \in Ids(rest)}
    IN  /\ q.pc = "answer.commit"
        /\ Ids(rest) \cap Ids(q.insert) = {}
        /\ answers' = {x \in rest : x.id \notin Ids(updated)}
                      \cup updated \cup q.insert
        /\ attempts' = [attempts EXCEPT ![q.att] = Overlay(@, q.ent, q.dirty)]
        /\ outdated' = IF q.ent.status = "S" THEN outdated \cup {q.att} ELSE outdated
        /\ Finish(r)
        /\ UNCHANGED <<test, testStatus, window, lmsvars>>

-----------------------------------------------------------------------------
(***************************************************************************)
(* submitAttempt.  No transaction: the attempt is loaded and checked, the  *)
(* compulsory questions are validated, the answers are summed up and the   *)
(* entity is saved, each with a query of its own.                          *)
(***************************************************************************)
SubmitBegin(r, a) ==
    /\ MayBegin(r, "submit")
    /\ a \in Started
    /\ ~SubmissionEnded
    /\ attempts[a].status = "I" \/ ResolvedTest.allowResubmission
    /\ Becomes(r, [req[r] EXCEPT !.kind = "submit", !.pc = "submit.validate",
                          !.att = a, !.ent = attempts[a]])
    /\ UNCHANGED <<dbvars, lmsvars, outdated>>

Unanswered(a) == {q \in CompulsoryQuestions : \A x \in RowsOf(a) : x.question # q}

\* A child question is required of a form-style test only when an option that
\* opens it is selected in the answer to its parent.
Required(t, shown) ==
    {q \in Questions :
        \/ ~IsFormStyle(t)
        \/ ~IsChild(q)
        \/ \E x \in shown : x.question = ParentOf[q] /\ q \in x.opens}

SubmitValidate(r) ==
    /\ req[r].pc = "submit.validate"
    /\ \E shown \in OneRowEach(RowsOf(req[r].att)) :
          IF Unanswered(req[r].att) \cap Required(ResolvedTest, shown) = {}
          THEN Becomes(r, [req[r] EXCEPT !.pc = "submit.score"])
          ELSE Finish(r)
    /\ UNCHANGED <<dbvars, lmsvars, outdated>>

\* Mutant of Submitted: a form-style attempt keeps the result it had.
SubmittedKeepingResult(ent, total) ==
    LET t == ResolvedTest
    IN  IF IsFormStyle(t)
        THEN [ent EXCEPT !.status = "S", !.score = NULL]
        ELSE IF t.isObjective
        THEN [ent EXCEPT !.status = "S", !.score = total,
                         !.reviewStatus = "R", !.result = ResultFor(total)]
        ELSE [ent EXCEPT !.status = "S", !.score = total, !.reviewStatus = "P"]

\* What the entity becomes, given the sum of its answers' scores.
Submitted(ent, total) ==
    LET t == ResolvedTest
    IN  IF IsFormStyle(t)
        THEN [ent EXCEPT !.status = "S", !.score = NULL, !.result = NULL]
        ELSE IF t.isObjective
        THEN [ent EXCEPT !.status = "S", !.score = total,
                         !.reviewStatus = "R", !.result = ResultFor(total)]
        ELSE [ent EXCEPT !.status = "S", !.score = total, !.reviewStatus = "P"]

\* A pass of an objective test is sent to the LMS here, before the entity is
\* saved, by a call nothing waits for.
SubmitScore(r) ==
    LET a == req[r].att
        ent == Submitted(req[r].ent, TotalScore(a))
        passed == /\ ~IsFormStyle(ResolvedTest)
                  /\ ResolvedTest.isObjective
                  /\ ent.result = "P"
    IN  /\ req[r].pc = "submit.score"
        /\ Becomes(r, [req[r] EXCEPT !.pc = "save.reload", !.ent = ent])
        /\ lmsPosted' = IF passed
                        THEN lmsPosted \cup {[attempt |-> a, result |-> "P"]}
                        ELSE lmsPosted
        /\ UNCHANGED <<dbvars, lms, outdated>>

-----------------------------------------------------------------------------
(***************************************************************************)
(* attemptRepository.save(attempt), the end of submitAttempt and of both   *)
(* reviews: reload the row, then update the columns that differ.           *)
(***************************************************************************)
SaveReload(r) ==
    /\ req[r].pc = "save.reload"
    /\ Becomes(r, [req[r] EXCEPT !.pc = "save.write",
                          !.dirty = Dirty(req[r].ent, attempts[req[r].att])])
    /\ UNCHANGED <<dbvars, lmsvars, outdated>>

SaveWrite(r) ==
    LET q == req[r]
    IN  /\ q.pc = "save.write"
        /\ attempts' = [attempts EXCEPT ![q.att] = Overlay(@, q.ent, q.dirty)]
        /\ outdated' = outdated \ {q.att}
        /\ Finish(r)
        /\ UNCHANGED <<test, testStatus, window, answers, lmsvars>>

-----------------------------------------------------------------------------
(***************************************************************************)
(* reviewAttempt.  The subjective answers are read before the reviewed     *)
(* scores are written, and it is in that older list that answers still     *)
(* pending are looked for.                                                 *)
(***************************************************************************)
ReviewBegin(r, a, v) ==
    /\ MayBegin(r, "review")
    /\ a \in Started
    /\ test.type = "plain" => testStatus # "archived"
    /\ ~ResolvedTest.isObjective
    /\ attempts[a].status = "S"
    /\ Becomes(r, [req[r] EXCEPT !.kind = "review", !.pc = "review.read",
                          !.att = a, !.ent = attempts[a], !.review = v])
    /\ UNCHANGED <<dbvars, lmsvars, outdated>>

ReviewRead(r) ==
    LET rows == RowsOf(req[r].att)
    IN  /\ req[r].pc = "review.read"
        /\ Becomes(r, [req[r] EXCEPT
                      !.pc = "review.answers",
                      !.seen = IF req[r].kind = "review"
                                  THEN {x \in rows : x.question \in Subjective}
                                  ELSE rows])
        /\ UNCHANGED <<dbvars, lmsvars, outdated>>

\* One UPDATE for each answer reviewed; it reaches every row of the question.
ReviewAnswer(r) ==
    LET q == req[r]
        v == Head(q.review)
        hit == {x \in RowsOf(q.att) : x.question = v.question}
    IN  /\ q.pc = "review.answers"
        /\ q.kind = "review"
        /\ q.review # <<>>
        /\ answers' = (answers \ hit) \cup
                      {[x EXCEPT !.score = v.score, !.reviewStatus = "R"] : x \in hit}
        /\ Becomes(r, [req[r] EXCEPT !.review = Tail(q.review)])
        /\ UNCHANGED <<test, testStatus, window, attempts, lmsvars, outdated>>

ReviewScored(r, total) ==
    LET q == req[r]
        pending == \E x \in q.seen : x.reviewStatus # "R"
    IN  /\ q.pc = "review.answers"
        /\ q.kind = "review"
        /\ q.review = <<>>
        /\ IF pending
           THEN Becomes(r, [q EXCEPT !.pc = "save.reload", !.ent.score = total,
                                     !.ent.reviewStatus = "U"])
           ELSE Becomes(r, [q EXCEPT !.pc = "lms", !.ent.score = total,
                                     !.ent.reviewStatus = "R",
                                     !.ent.result = ResultFor(total)])
        /\ UNCHANGED <<dbvars, lmsvars, outdated>>

\* Mutant of ReviewScore: the sum of the answers read before the review.
ReviewScoreStale(r) ==
    ReviewScored(r, SumOfScores(req[r].seen))

ReviewScore(r) == ReviewScored(r, TotalScore(req[r].att))

-----------------------------------------------------------------------------
(***************************************************************************)
(* reviewTestAttempt.  The attempt is picked by test and learner: the      *)
(* newest, or without allowResubmission the newest submitted.  Each        *)
(* reviewed answer is saved as the loop reaches it, so an answer that is   *)
(* missing ends the request with those before it written.                  *)
(***************************************************************************)
Newest(S) == {a \in S : \A b \in S : attempts[b].attempt <= attempts[a].attempt}

ImportCandidates ==
    IF test.allowResubmission THEN Started
    ELSE {a \in Started : attempts[a].status = "S"}

ImportBegin(r, v) ==
    /\ MayBegin(r, "import")
    /\ testStatus # "archived"
    /\ \E a \in Newest(ImportCandidates) :
          /\ attempts[a].status = "S"
          /\ Becomes(r, [req[r] EXCEPT !.kind = "import", !.pc = "review.read",
                                !.att = a, !.ent = attempts[a],
                                !.review = v])
    /\ UNCHANGED <<dbvars, lmsvars, outdated>>

\* The entity that was read is saved whole: its answer text with the new score.
ImportAnswer(r) ==
    LET q == req[r]
        v == Head(q.review)
    IN  /\ q.pc = "review.answers"
        /\ q.kind = "import"
        /\ q.review # <<>>
        /\ \E x \in q.seen :
              /\ x.question = v.question
              /\ answers' = {y \in answers : y.id # x.id} \cup
                            {[x EXCEPT !.score = v.score, !.reviewStatus = "R"]}
        /\ Becomes(r, [req[r] EXCEPT !.review = Tail(q.review)])
        /\ UNCHANGED <<test, testStatus, window, attempts, lmsvars, outdated>>

\* "User answers not found".
ImportMissing(r) ==
    LET q == req[r]
    IN  /\ q.pc = "review.answers"
        /\ q.kind = "import"
        /\ q.review # <<>>
        /\ \A x \in q.seen : x.question # Head(q.review).question
        /\ outdated' = outdated \cup {q.att}
        /\ Finish(r)
        /\ UNCHANGED <<dbvars, lmsvars>>

ImportScore(r) ==
    LET q == req[r]
        total == TotalScore(q.att)
    IN  /\ q.pc = "review.answers"
        /\ q.kind = "import"
        /\ q.review = <<>>
        /\ Becomes(r, [req[r] EXCEPT !.pc = "lms",
                              !.ent.score = total,
                              !.ent.reviewStatus = "R",
                              !.ent.result = ResultFor(total)])
        /\ UNCHANGED <<dbvars, lmsvars, outdated>>

-----------------------------------------------------------------------------
(***************************************************************************)
(* updateLmsTestProgress, awaited by both reviews, and the LMS.  A call    *)
(* can fail before or after the LMS took the update, or be given up after  *)
(* ten seconds and still arrive.  reviewAttempt ignores what it returns;   *)
(* reviewTestAttempt throws, and does not save the attempt.                *)
(***************************************************************************)
LmsDone(r) ==
    /\ req[r].pc = "lms"
    /\ lms' = req[r].ent.result
    /\ Becomes(r, [req[r] EXCEPT !.pc = "save.reload"])
    /\ UNCHANGED <<dbvars, lmsPosted, outdated>>

LmsFailed(r) ==
    LET q == req[r]
    IN  /\ q.pc = "lms"
        /\ \/ UNCHANGED lmsvars
           \/ lms' = q.ent.result /\ UNCHANGED lmsPosted
           \/ /\ lmsPosted' = lmsPosted \cup
                              {[attempt |-> q.att, result |-> q.ent.result]}
              /\ UNCHANGED lms
        /\ IF q.kind = "review"
           THEN Becomes(r, [q EXCEPT !.pc = "save.reload"]) /\ UNCHANGED outdated
           ELSE Finish(r) /\ outdated' = outdated \cup {q.att}
        /\ UNCHANGED dbvars

LmsArrives(m) ==
    /\ lms' = m.result
    /\ lmsPosted' = lmsPosted \ {m}
    /\ UNCHANGED <<dbvars, req, outdated>>

LmsLost(m) ==
    /\ lmsPosted' = lmsPosted \ {m}
    /\ UNCHANGED <<dbvars, req, lms, outdated>>

-----------------------------------------------------------------------------
(***************************************************************************)
(* A query fails or the process stops: the request is gone, a transaction  *)
(* it had open is rolled back, and what it wrote outside one stays.        *)
(***************************************************************************)
Abort(r) ==
    /\ req[r].pc # "idle"
    /\ outdated' = IF req[r].kind \in {"review", "import"}
                   THEN outdated \cup {req[r].att} ELSE outdated
    /\ Finish(r)
    /\ UNCHANGED <<dbvars, lmsvars>>

(***************************************************************************)
(* Around the service: the clock, and authors who publish and archive.     *)
(***************************************************************************)
TimePasses ==
    /\ \/ window = "before" /\ window' = "open"
       \/ window = "open" /\ window' = "after"
    /\ UNCHANGED <<test, testStatus, attempts, answers, req, lmsvars, outdated>>

SetTestStatus ==
    /\ testStatus # "archived"
    /\ testStatus' \in {"draft", "published", "archived"} \ {testStatus}
    /\ UNCHANGED <<test, window, attempts, answers, req, lmsvars, outdated>>

-----------------------------------------------------------------------------
StartStep(r) ==
    StartFind(r) \/ StartCount(r) \/ StartRefuse(r) \/ StartCreate(r)

AnswerStep(r) == AnswerRead(r) \/ AnswerStage(r) \/ AnswerCommit(r)

SubmitStep(r) == SubmitValidate(r) \/ SubmitScore(r)

ReviewStep(r) ==
    \/ ReviewRead(r) \/ ReviewAnswer(r) \/ ReviewScore(r)
    \/ ImportAnswer(r) \/ ImportMissing(r) \/ ImportScore(r)
    \/ LmsDone(r) \/ LmsFailed(r)

SaveStep(r) == SaveReload(r) \/ SaveWrite(r)

Begin(r) ==
    \/ StartBegin(r)
    \/ \E a \in AttemptIds, b \in Batches : AnswerBegin(r, a, b)
    \/ \E a \in AttemptIds : SubmitBegin(r, a)
    \/ \E a \in AttemptIds, v \in Reviews : ReviewBegin(r, a, v)
    \/ \E v \in Reviews : ImportBegin(r, v)

Next ==
    \/ \E r \in Requests :
          \/ Begin(r) \/ StartStep(r) \/ AnswerStep(r) \/ SubmitStep(r)
          \/ ReviewStep(r) \/ SaveStep(r) \/ Abort(r)
    \/ \E m \in lmsPosted : LmsArrives(m) \/ LmsLost(m)
    \/ TimePasses
    \/ SetTestStatus

Spec == Init /\ [][Next]_vars

-----------------------------------------------------------------------------
(***************************************************************************)
(* What holds however requests overlap.                                    *)
(***************************************************************************)

\* startAttempt reads the count and inserts later, so the limit can be passed,
\* but never by more than the requests that were in flight together.
OvershootBounded ==
    Cardinality(Started) <= test.attempts - 1 + Cardinality(Requests)

\* Every attempt carries a number that the limit allows and that does not
\* exceed the number of attempts there are, even when the limit was passed:
\* no save of a stale entity ever changes it.
NumbersWithinLimit ==
    \A a \in Started : /\ attempts[a].attempt \in 1 .. test.attempts
                       /\ attempts[a].attempt <= Cardinality(Started)

Graded(row) ==
    \/ row.status = "S"
    \/ row.reviewStatus # "P"
    \/ row.score # NULL
    \/ row.result # NULL

\* An attempt that is submitted, scored or reviewed has an answer to every
\* compulsory question that is not a child question: the check submitAttempt
\* makes on one read of the answers is not undone by a batch that commits
\* later, nor by any save of an older entity.
GradedOnlyWhenComplete ==
    \A a \in Started : Graded(attempts[a]) =>
        \A q \in CompulsoryQuestions :
            ~IsChild(q) => \E x \in RowsOf(a) : x.question = q

(***************************************************************************)
(* What holds when a client waits for each answer (Overlap = {}).          *)
(***************************************************************************)

\* Attempts are numbered 1, 2, 3, ... within the limit, none twice.
NumbersSequential ==
    /\ {attempts[a].attempt : a \in Started} = 1 .. Cardinality(Started)
    /\ Cardinality(Started) <= test.attempts

\* No more than one attempt is in progress or waits for its review; when the
\* attempt can be resubmitted there is no other at all.
OneCurrentAttempt ==
    Cardinality({a \in Started : InTheWay(attempts[a])}) <= 1

\* testUserAnswers has one row for each question answered, through any number
\* of batches, cleanups and reviews (it has no unique constraint).
OneAnswerPerQuestion ==
    \A x, y \in answers :
        x.attempt = y.attempt /\ x.question = y.question => x = y

\* Between requests the score of a submitted attempt is the sum of its answers'
\* scores, unless answers were given after the submission or a review of it
\* ended half-way; a form-style attempt has none until it is reviewed.
ScoreIsTotal ==
    \A a \in Started \ outdated :
        /\ attempts[a].status = "S"
        /\ \A r \in Requests : req[r].att # a
        => \/ attempts[a].score = TotalScore(a)
           \/ IsFormStyle(ResolvedTest) /\ attempts[a].score = NULL

\* A reviewed attempt has the result its score earns, or neither.
ReviewedResultMatches ==
    \A a \in Started : attempts[a].reviewStatus = "R" =>
        \/ attempts[a].score = NULL /\ attempts[a].result = NULL
        \/ /\ attempts[a].score # NULL
           /\ attempts[a].result = ResultFor(attempts[a].score)

Given(a) == {[id |-> x.id, opens |-> x.opens] : x \in RowsOf(a)}

\* Once an attempt that cannot be resubmitted is submitted, the answers that
\* were given in it stay as they are; reviews change scores only.
AnswersFrozen ==
    [][\A a \in Started :
          attempts[a].status = "S" /\ ~test.allowResubmission
             => Given(a)' = Given(a)]_vars

PhaseOf(row) ==
    IF row = NULL THEN "none"
    ELSE IF row.status = "I" THEN "open"
    ELSE IF row.reviewStatus = "P" THEN "pending"
    ELSE IF row.reviewStatus = "U" THEN "partial" ELSE "final"

Lifecycle == INSTANCE AttemptLifecycle
                WITH limit <- test.attempts, resubmit <- test.allowResubmission,
                     phase <- [a \in AttemptIds |-> PhaseOf(attempts[a])]

\* Every handler takes effect on the attempts as the one atomic operation the
\* API describes.
ImplementsLifecycle == Lifecycle!Spec
=============================================================================

