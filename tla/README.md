# Formal model of the assessment service

This directory models the shiksha assessment service (`src/`, NestJS, TypeORM on
PostgreSQL, Redis) in TLA+, checks it with TLC on small instances, and proves part of
it with TLAPS for every instance.  Paths below are relative to the service's own
repository (`src/modules/...`); PROJECT.json maps every definition to its lines.

## 1. The system

| Component | State | Operations | Modelled |
|---|---|---|---|
| Attempt handling (`modules/attempts`) | tables `testAttempts`, `testUserAnswers` | start, submit answers, submit, review, import a review, update the LMS; resume, answer sheet, result (read only) | `Attempts`, `AttemptLifecycle`: every operation that writes |
| Answer scoring (`attempts.service.ts` 2144–2405, 2720–2800) | none | score of an answer by question type; what the answer sheet says of it | `Scoring`, with the validation, storage and update of the question (`questions.service.ts`) |
| Rule-based generation (1927–2098, `rules.service`, `question-pool.service`) | rows of rules and of generated tests | select questions by rule, write a GENERATED test | `RuleGeneration`; not the previews |
| Caches (`modules/cache`, readers and writers in `tests.service`) | Redis: hierarchy of a test, versioned list of tests | read through, delete, bump the version | `Caches`: both of these caches and everything that fills or clears them |
| Test authoring (`tests.service`, `sections.service`, `rules.service`, `ordering.service`) | `tests`, `testSections`, `testQuestions` | create, edit, order, structure, remove, clone | `TestPaper`: sections and questions of a test, `isObjective`; not the orders, nor what a clone copies |
| Question authoring (`questions.service`) | `questions`, options, `optionQuestions`, flags in `testQuestions` | create, update, remove, associate with an option of a parent, disassociate | `TestPaper`, `Caches`, `Scoring`, `QuestionLinks`, each its part |
| User test status (`tests.service` 1329–1605) | none (queries) | can the learner start or resume, graded score | no: it writes nothing and no handler uses it |
| Reports (`tests.service` 2232) | none | one paginated query | no: layout |
| Plugin manager (`common/services`) | hooks, plugins, external services | register, unregister, trigger, webhooks with retries | `Plugins` |
| Migration runner (`common/services`) | table of migrations | run, roll back | `Migrations` |
| Tenant configuration, upload, health, HTTP layer, helpers | none, or one cache value | I/O | no: pure I/O |

**How they interact.**  Every operation is an HTTP handler that runs as a sequence of
awaits on one Node process (or several behind a balancer: nothing is shared but the
database, Redis and the LMS).  Handlers share state only through tables.  There are no
locks, no version columns, no unique constraint on `testAttempts` or `testUserAnswers`,
and only `startAttempt` of a rule-based test, `submitAnswer`, `cloneTest`,
`updateTestStructure` and question creation use a transaction, at the default READ
COMMITTED.  An attempt reads the test's settings on
each call; authors change them concurrently.  Submissions and reviews call the LMS over
HTTP, and emit plugin events that nothing in the handlers depends on.

**What is hard.**  Reads that are old by the time they are used (limits, statuses,
entities that are saved whole); sequences of writes that stop half-way; a resubmission,
a cleanup of child answers and a review meeting on one attempt; calls to the LMS whose
outcome is unknown.  PROJECT.json lists these hazards with their lines.

**What makes a component correct.**

* *Attempts*: numbers follow each other within the limit; one attempt is current; a
  submitted attempt stays submitted; answers are one per question, frozen after
  submission; the score is the sum of the answers' scores and the result what the score
  earns; nothing is graded before its compulsory questions are answered; the LMS holds
  the result.
* *Scoring*: an accepted question is consistent; a score lies between 0 and the marks,
  and is the marks for the right answer and no other; the answer sheet agrees.
* *Rule generation*: a generated test keeps to each rule that asks for a number of questions,
  and a start comes to its end.
* *Caches*: a value is never served after the edit that invalidates it has finished; a
  stale entry disappears in the end.
* *Authoring*: a question is in a test once; orders are distinct; `isObjective` says
  what the questions are; the links of a conditional question lead to options of its
  parent, once each, and its flag says whether it has any.
* *Plugins*: a hook runs once for each event while registered, goes with its plugin, and
  a webhook is retried as often as it is configured; every event ends.
* *Migrations*: each runs once, after those it depends on, and none is left out.

## 2. Modules

### `AttemptLifecycle` — what the API promises

Each operation is one step: `Open`, `Submit`, `Review`.  An attempt goes none → open →
pending or final → partial or final; it is never open again after it was submitted; it
opens only within the limit and when no other attempt is unsettled.

### `Attempts` — what the service does

The state of one learner at one test, in the shape of the tables: `attempts`
(`testAttempts`, with `status` I/S, `reviewStatus` P/U/R, `score`, `result`), `answers`
(`testUserAnswers`), the test's row with its changing status and date window, what the
LMS holds (`lms`) and calls to it still under way (`lmsPosted`).  `req` is a set of
request slots; a slot holds the local variables of one handler, and its `pc` says which
await it is at.

| Code | Actions |
|---|---|
| `startAttempt` 75–271 | `StartBegin` (load and check the test), `StartFind` and `StartCount` (the two queries of a `Promise.all`, in either order), `StartRefuse`, `StartCreate` |
| `submitAnswer` 1029–1283, `cleanupChildQuestion` | `AnswerBegin` (load and check the attempt), `AnswerRead` (the answers), `AnswerStage` (deletes, inserts, updates and the diff of the attempt, inside the transaction), `AnswerCommit` |
| `submitAttempt` 1583–1721 | `SubmitBegin`, `SubmitValidate`, `SubmitScore`, then `SaveReload`, `SaveWrite` |
| `reviewAttempt` 1723–1865 | `ReviewBegin`, `ReviewRead`, `ReviewAnswer` per answer, `ReviewScore`, the LMS, `SaveReload`, `SaveWrite` |
| `reviewTestAttempt` 2977–3109 | `ImportBegin`, `ReviewRead`, `ImportAnswer` or `ImportMissing`, `ImportScore`, the LMS, `SaveReload`, `SaveWrite` |
| `updateLmsTestProgress` 3117–3213 | `LmsDone`, `LmsFailed`; in a submission, which does not await it, a message in `lmsPosted` that `LmsArrives` or `LmsLost` |
| any failed query, a crash, a rollback | `Abort` |

`save(entity)` is modelled as TypeORM does it: the row is loaded again (`SaveReload`),
the columns that differ from the entity are kept (`Dirty`) and only these are written
(`Overlay`).  That is why an old entity can undo a newer write, and why it does not
always.

*Abstractions.*  One learner and one test: no handler reads another learner's rows.
`timeSpent`, `currentPosition` and the time stamps are left out, no decision reads them.
An answer is its question, the score it will get and the child questions its options
open.  The two reads of answers in `submitAnswer` (1094 and 1138) are one, its staging is
one step up to the commit, and row locks within it only delay others.  An answer row is
written as a whole.  A rule-based test is represented by the settings its GENERATED copy
gets (`ResolvedTest`); generation itself is another module's subject.  Other settings of
the test do not change while attempts run, its status does.  The LMS is configured.
`reviewAttempt` looks the attempt up by the caller's own user id (2506), which the model
does not tell apart.

*Bounds.*  Attempts, answer ids and request slots are finite constant sets.  Ids are
taken from those no row and no transaction knows (`FreshIds`), as a UUID is never used
twice.  With no id left an action waits, which the runs allow by having more ids than
the behaviour of interest needs.

`MCAttempts` holds the instances.  A configuration chooses the tests, bodies and
`Overlap`, the sets of kinds of requests that may be in flight together.  `Overlap = {}`
is a client that waits for every answer; the service itself never enforces it.

### `AttemptsProofs`

The theorems about `Attempts`, section 4.

### `Caches` — hierarchies and lists of tests

The database (`row`, `paper`, `text`, `generated`), the two caches in Redis (`hier`, and `version`
with `lists`) and request slots as above.  Every write numbers what it wrote, so that
two values are equal exactly when they show the same writes.

| Code | Actions |
|---|---|
| `getTestHierarchy` 566–643, `fetchTestHierarchyData` | `HierarchyBegin`, `HierarchyGet`, `ReadRow`, `ReadPaper`, `ReadTexts`, `HierarchyStore` |
| `findAll` 348–468 | `ListBegin`, `ListVersion`, `ListGet`, `ListQuery`, `ListStore` |
| `create`, `update`, `remove`, `cloneTest` of tests | `EditTest`, then `Drop`, `BumpGet`, `BumpSet` |
| `startAttempt` of a rule-based test (`attempts.service` 1936–1949) | `GenerateTest`: a published test of type GENERATED, and no deletion nor bump |
| adding and removing questions, the structure, sections | `EditPaper`, after additions `WriteObjective`, then `Drop` |
| creation of a question for a test | `CreateQuestion`, `CommitQuestion`, `Drop` |
| `update` and `remove` of questions | `EditQuestion`, `EditOptions`, `FindTests`, then `Drop` for each test that shows the question |
| times to live | `ExpireHierarchy`, `ExpireList`, `ExpireVersion` |
| a Redis call that fails and is logged, a request cut off or refused half-way | the second disjuncts of `HierarchyGet`, `HierarchyStore`, `Drop`; `Abort` |

*Abstractions.*  Titles, orders and flags of sections and `testQuestions` are not told
apart from the set of questions: their handlers have the same shape, a write and then the
deletion of the test's entry.  One tenant and organisation, as every key begins with both.  One query
of `findAll`, since queries share nothing but the version.  `findAll`'s count and page
are one read, and so are the several queries for questions, options and conditional
questions.  A test that is archived or does not exist yet has a row like any other, so
that the model also caches hierarchies the service would answer with 404.  The value an
addition gives `isObjective` is arbitrary: it depends on the types of the questions, the
subject of `TestPaper`.  A question no test shows stands for one to be created.  The
cache of question lists, which nothing invalidates, is left out.  Generated tests
are counted (`generated`), as nothing changes one and no author sees it before a list shows it.
`late` and `overtaken` are auxiliary: they record which stored hierarchies come from a read that
a write overtook, the one staleness the design accepts; so is `announced`, how many
generated tests there were when the version last moved on.  No action depends on them.

`MCCaches` holds the sets of kinds that may overlap.  `CachesProofs` holds the theorems.

### `TestPaper` — the questions of a test

One test: its row (`test`), the status of its sections (`sections`), the rows that put a
question into a section (`testQuestions`), the questions there are (`bank`), whether a
learner has begun (`attempted`), and authors' requests in slots.

| Code | Actions |
|---|---|
| `addQuestionToTest` 1023–1067, `addQuestionsBulkToTest` 1069–1186 | `AddBegin`, `AddFind`, `AddInsert`, `AddCheck`, `AddFlag` |
| `create` of a question for a test (`questions.service` 95–257) | `CreateBegin`, `CreateCheck`, `CreateFlag`, `CreateCommit` |
| `removeQuestionFromTest` 2196–2222 | `RemoveBegin`, `RemoveAttempts`, `RemoveFind`, `RemoveDelete` |
| `updateTestStructure` 1612–1789 | `StructureBegin`, `StructureCheck`, `StructureCommit` |
| sections: create, update, remove | `NewSectionBegin`, `NewSectionSave`; `SectionBegin`, `SectionReload`, `SectionWrite`; `DropSectionBegin` to `DropSection` |
| tests: update, remove | `TestBegin`, `TestReload`, `TestWrite` or `TestInsert`; `DropTestBegin` to `DropTest` |
| a learner's `startAttempt`, as far as authors see it | `AttemptStarts` |
| a failed query | `Abort`, at every stage |

There are three sorts of questions.  `checkIfTestIsObjective` (`tests.service` 2612–2646)
answers that all are objective if all are of the types it names (`Objective`), and FALSE if its query
fails; creation of a question (`questions.service` 210) also looks at the type of the new
one, and only refuses the types it names (`Subjective`).  A dropdown, a rating and a checkbox
question are neither.  An author may write `isObjective` in an update, as the DTO has it
(`create-test.dto.ts` 121).  `unchecked` is auxiliary: an author has set it, or an addition has ended
between its insertion and its update, since an addition last computed it.

Sections and tests are saved with the relations they were loaded with
(`SectionsService.findOne`, `TestsService.findOne`).  TypeORM compares these with the
database when it saves: a `testQuestions` row that refers to the section but was not
loaded gets `sectionId` null, a loaded one that refers elsewhere is taken back
(`SectionReload`, `SectionWrite`).  For a test the same would set `testId` to null, which
its column does not allow, so the save fails (`TestReload`).  A row that is gone when the save
loads it again is inserted anew (`TestInsert`); of one that is there the columns that differ
are updated (`TestWrite`), which does nothing if it has gone since.

*Abstractions.*  The reads of `updateTestStructure` are one, and its updates take effect
at its commit.  The foreign keys are those the entities declare.  Orders, `isCompulsory`,
`isConditional` and rules are left out.  A question keeps its type: `questions.update` can
change it and never touches `tests`, so after that `isObjective` says nothing (section 5).
An id that a new structure names is one the author has seen.  Soft removals archive a test and its
sections in one step.

`MCTestPaper` names the pairs of handlers that clash.  `PaperProofs` holds the theorems.

### `Scoring` — a question, its answers and their scores

One question: its row (`question`), its options (`options`, with the `edition` of the
list), an `update` between its statements (`edit`), and each student's answer.

| Code | Definitions |
|---|---|
| `validateQuestionData` and what it calls (`questions.service`) | `Accepts`: the checks of each type, on a request or, in an update, on stored rows |
| `create`, `update` 460–560 | `Create`; `Update`, `DeleteOptions`, `SaveOptions`, `UpdateFails` |
| `calculateQuestionScore` and the four calculators | `Score`, from `Submit` (reads the question) and `ScoreAnswer` (reads its options) |
| the judgement of `getAttemptAnswersheet` | `IsCorrect` |

*Abstractions.*  Marks are whole numbers; a decimal column is a string in JavaScript,
which matters to the sum of stored marks only (`AddUp`).  Texts are compared as they are,
or up to case (`blanks`).  Bodies are what the DTO lets through.  The loops that add up marks
are a recursive function (`Sum`), the blank an option is for is its place among the correct
ones (`Place`).  `Replies` bounds the
answers that are tried to an edition of the options.  `created` is auxiliary.
`ScoringProofs` holds the theorems.

### `QuestionLinks` — conditional questions

`parent` of each question, `links` (rows of `optionQuestions`), `flags` (`isConditional` in
each test), request slots as above.

| Code | Actions |
|---|---|
| `create`, one transaction | `Create` |
| `addQuestionToTest` | `AddQuestionToTest` |
| `associateQuestionWithOption` | `Associate`, `AssociateCheck`, `InsertLink`, `SetFlag` |
| `removeQuestionOptionAssociation` | `Disassociate`, `DisassociateDelete`, `DisassociateCount`, `SetFlag` |
| `update` with a parent, an option or both | `Update`, `UpdateSave`, `UpdateUnlink`, `InsertLink`, `SetFlag` |
| a failed query | `Fails` |

`settled` is auxiliary: whether something known to upset a question (requests for it that
overlap, a failure, a change of the parent or of the option alone) has happened since an
update that gives both ran alone to its end.  No action depends on it.
`QuestionLinksProofs` holds the theorems.

### `RuleGeneration` — the paper of a rule-based test

The rules, the published questions (`bank`), the test's status, the starts (`start`) with
what each has read and drawn, and transactions of authors (`author`), all of them on a
pool of `Connections`.

| Code | Actions |
|---|---|
| `startAttempt` and `generateRuleBasedTestQuestions` 1927–2098 | `StartBegin`, `StartConnect` (the transaction gets its connection), `ReadRules`, `DrawPreselected`, `ReadRuleAgain`, `DrawDynamic`, `Commit`, `Abort` |
| `generateQuestionPool` (`question-pool.service`) | `ReadRuleAgain`, `DrawDynamic`: queries that do not use the transaction |
| transactions of authors that ask for a second connection | `AuthorBegin`, `AuthorConnect`, `AuthorAsk`, `AuthorCommit` |
| `rules.service` and changes of questions and of the test | `CreateRule`, `UpdateRule`, `RemoveRule`, `SetQuestionStatus`, `SetTestStatus` |

The number of a rule is any whole number: `create-rule.dto.ts` 83–85 asks for no more, and
`Sliced` is what `slice` makes of a negative one.  Only the pool service weighs questions, so
that a PRESELECTED rule by weight draws at random (2091–2094).

*Abstractions.*  The criteria of a rule are the questions they select (`matches`).  A
shuffle is any order; a query without ORDER BY returns any.  A query outside a transaction
takes a connection and gives it back in one step, which waits until one is left
(`ConnectionLeft`).  The rows of the generated test are the paper, inserted with the commit.
`RuleGenerationProofs` holds the theorems.

### `Plugins` — hooks and webhooks

The map of plugins, the array of hooks of one event, the external services, and for each
call of `triggerEvent` its loop and its requests.  `RegisterPlugin`, `UnregisterPlugin`,
`RegisterExternalService`, `UnregisterExternalService` are the calls of that name;
`TriggerEvent` and `HookSettles` go through the array, which is shared, by index;
`Answered`, `Failed` and `RetryWebhook` are `triggerWebhook` and `retryWebhook`; `Finish`
is the end of `Promise.allSettled`.  Hooks are known by their identity, as in the filter
of `unregisterPlugin`.  Message queues and streams only log.  The fields `present`,
`pushed` and `pulled` of a loop, and `overwritten`, are auxiliary.  `Sorted` is the stable
sort by priority, given by the place of each hook (`Place`).
`PluginsProofs` holds the theorems.

### `Migrations` — the migration runner

The table of records, and for each process the sorted list it works through.
`RunMigrations` reads what is pending and sorts it (`Sorted` and `After`, the recursion of
`visit`, depth first; `Circular` as the code detects it), `Up` and `UpFails` run the first of the list, `RecordSuccess`,
`RecordFailure` and their failures write its record, `Crash` stops the process anywhere,
`RollbackMigrations` fails at the first record, as the code does.  `times` and `unrecorded`
are auxiliary counts.  `MigrationsProofs` holds the theorems.

## 3. Runs

| Run | Instance | What it shows |
|---|---|---|
| `attempts` | one request, 2 attempts, 3 answer ids, 8 tests (grading types, resubmission, rule-based, limit 1 and 2), parent p, child c, free text s | `NumbersSequential`; `OneCurrentAttempt`; `OneAnswerPerQuestion`, `ScoreIsTotal`, `ReviewedResultMatches`, `AnswersFrozen`; the handlers with their failures implement `AttemptLifecycle` (`ImplementsLifecycle`) |
| `attempts_starts` | two requests, each a start or a submission, 4 attempts | `OvershootBounded`, `NumbersWithinLimit` |
| `attempts_races` | an answer batch, a submission and an import overlapping in pairs on one attempt | `GradedOnlyWhenComplete` |
| `caches_fresh` | two requests of any kinds but one edit of a test at a time, 2 tests, 1 question, 2 edits or generated tests, no faults | `StaleIsDroppedOrLate`, `ListFresh` |
| `caches_settle` | two requests that share state, 1 test, 1 question, 2 edits, every fault | `SettlesFresh`, under fairness |
| `paper_edits` | two requests of any kinds that do not clash, 2 sections, an objective and a subjective question, 2 rows | `QuestionOnce`, `ObjectiveHolds`, `Attached`, `AttemptedKeepsQuestions` |
| `scoring` | about 500 questions of every type, 5 changes of which one happens, all short answers of a student | `ValidationSuffices`, `ScoreWithinMarks`, `FullMarksIfRight`, `SheetAgrees` |
| `question_links` | two requests, 1 question, 2 parents with 2 options and 1, 1 test, 4 rows | `DuplicatesBounded`, `LinksSettle` |
| `rule_generation` | one start, one author, 2 rules of 5 kinds (one asks for -1 questions, one weighs rows chosen beforehand), 3 questions, 3 connections, 2 changes | `PaperMatchesRules`; `StartsFinish`, under fairness |
| `plugins` | one event, 3 plugins under 2 ids with 4 hooks, 2 webhooks (1 and 0 retries), 5 changes | `HooksRunOnce`, `NoOrphans`, `AnsweredOrExhausted`; `EventsFinish`, under fairness |
| `migrations` | two processes, 3 migrations with 4 shapes of dependencies (one circular), 3 calls | `OncePerProcess`, `DependenciesFirst`, `LeftOutOnlyIfFailed` |
| `find_starts_finish` | two starts, two connections | refutes "Handle thousands of concurrent users" (`StartsFinish`) |

Every passing run also checks the module's `TypeOK`, but for the runs on an instance that
another run of the module has.

*Why the bounds are enough.*  Two slots give every pair of handlers every interleaving;
a third adds no new kind of stale read, as each handler depends on one row or one count
it read (`OvershootBounded`, which does depend on the number of requests, is proved for
all).  Two attempts are enough for a start that meets an earlier attempt in each of its
states; the starts run has two more than the highest limit.  One parent, one child and
one independent question give every case of the cleanup and of the compulsory check.
Symmetry is used on ids and slots, which nothing orders; `attempts_races` identifies
states by what the handlers read (`ReadState`), sound for its invariant, which mentions
nothing else.

For the caches: staleness takes a reader and a writer, so two slots; two tests
tell a deletion for every test from one for some; two edits are one before and one after
a value is stored.  The two invariants are proved for all bounds.

For a paper: two sections to move a question between, an objective and a subjective question,
and two rows, for both of them or for one of them twice.  A question that is neither shows nothing
new: the check answers FALSE once it is in the test, as it may of an objective one when its query
fails, and creation asks nothing else of it than of an objective one.  Authors' updates publish the test, or take it back and
say that it is objective; what an update leaves out it writes back as it loaded it, FALSE included.  The sixteen pairs in `Clash` were each allowed in turn and each breaks
one of the properties, so that the run excludes no more than it must: two additions
(`QuestionOnce`, `ObjectiveHolds`), an addition and an update of the test
(`ObjectiveHolds`), an addition or a new structure and an update of a section
(`Attached`), and the start of an attempt within a removal (`AttemptedKeepsQuestions`).

For a score: two or three options of each kind give every combination of right and wrong,
and every answer up to their number is tried; one change of the question makes an answer
to a former edition.  For links: two parents, so that a link can lead to another's option,
and two options of one of them.  For rules: two, of unequal priority and over the same
questions, of which two weigh the same, and rows chosen beforehand that suffice for one of them only.
The five kinds ask by weight, in sequence or at random (as a PRESELECTED one by weight does), in both modes,
for -1, 1 and 2 questions, and one is inactive; a rule has to change once between its two reads,
and a question once, so that two changes suffice.  With one start and one author no more than two
transactions hold a connection, and there are three: with fewer the start can wait for ever, which
`find_starts_finish` shows.  For an event: one loop, as loops share only the array, which no
loop changes; three changes make it skip or repeat a hook.  For migrations: two processes
interleave at every step, and a third call meets what the first two left.

*Deadlock* is not checked for `TestPaper`, where a test deleted for good is the end.  It
is not checked for `Attempts` either: an archived test after its end date has nothing
left to do; nor for `Migrations`, whose calls are bounded.  It is checked for the others:
in `rule_generation` it would show connections that wait for each other.

*Fairness.*  `FairSpec` of `Caches` has weak fairness on the steps of a request that has
begun (each awaits a call that answers or fails, by the drivers' own time-outs) and on
the expiry of each cache entry (`EX` on the hierarchies' and lists' keys).  It has none on
the arrival of requests, nor on failures: an `Abort` is one of the ways a step may go.
`SettlesFresh` needs the expiry, as a stale entry has no other end.  `FairSpec` of
`Plugins` has weak fairness on the steps of an event: a handler returns, and a request is answered or times out,
as the code gives each one a time-out.  `FairSpec` of `RuleGeneration` has it on the steps
of starts and of authors' transactions: PostgreSQL answers, and the pool serves those who wait
in turn.  Weak fairness is enough as a connection that is left stays left in `rule_generation`,
where there are more of them than transactions.  No module assumes strong fairness.  `Attempts` assumes no fairness.  A handler can end at any await (`Abort`), and
nothing in the service retries it, so there is nothing it must eventually do.

## 4. Proofs

`AttemptsProofs` proves, for any constants that meet the two assumptions of `Attempts`
(`ParamsAssumption`, the types of the parameters; `SlotsAssumption`, a finite nonempty
set of request slots), and for any `Overlap`:

* `TypeCorrect`: `Spec => []TypeOK`.  `TypeOK` is not inductive, as a handler writes
  `attempts[req[r].att]`: `Typed` adds that a slot past its first step holds an attempt
  that exists.
* `OvershootIsBounded` and `NumbersStayWithinLimit`.  `StartsInv` counts: the attempts
  that exist plus the requests that hold a count below the limit (`MayInsert`) never
  exceed the limit less one plus the slots, because a count is taken only by a slot that
  had none, and equals the attempts there were then.  The numbers need that every entity
  a handler holds has the number its row has, so that no save changes it.
* `GradedAreComplete`, the deepest: `GradedOnlyWhenComplete` under any interleaving.
  `GradesInv` says that a handler past its validation, and any entity that is already
  graded, belongs to an attempt that is complete; `KeysInv` that rows are known by id,
  that ids are not reused and that what a transaction will delete are child answers
  only, so that a commit loses no answer to a question that is not a child.

The section "One request at a time" proves, with the hypothesis `OneAtATime` (`Overlap = {}`,
which the run `attempts` meets), what the service gives a client that waits for every
answer, any handler failing at any await:

* `NumbersAreSequential`, `CurrentAttemptIsOne`, `ScoresAreTotals`, `ReviewedResultsMatch`,
  `AnswersAreFrozen`.  `SerialInv` says of the one request in flight (`Alone`) what it has in
  hand at each of its stages (`SlotOK`): a count it took is still the count, a clear way is
  still clear, an entity is what the row will be (`Follows`), the answers it has seen are those
  of the attempt.  Of the rows it says that what counts as reviewed has the result it earned
  (`RowsOK`), that one attempt at most is in the way of another, and that the score of a submitted
  attempt is the total of its answers unless one is being reviewed (`ScoresOK`).  No proof looks
  into the sum: equal rows have equal totals.
* `HandlersImplementLifecycle`: the whole of each handler does to the attempts what one step of
  `AttemptLifecycle` does, and its other steps leave them alone.  The steps that write are
  mapped to `Open`, `Submit` and `Review`, from `SerialInv`.
* `AnswersAreOnePerQuestion`, for batches that name each question once (`OnceEach`; a batch that
  does not stores two rows, section 5).  What a transaction is about to write has a question each
  and replaces the row there is (`Unrepeated`).

The lemmas are laid out as one "shape" lemma per group of actions (what they may change
in a slot), then one preservation lemma per conjunct.

`CachesProofs` proves, for any sets of tests, questions and request slots and any bound on
the edits, from `CachesAssumption` and the
assumptions named with each:

* `TypeCorrect`: `Spec => []TypeOK`, whatever fails and overlaps.  The version is a
  number that edits increment; that it stays within `Versions` needs a count: the version,
  and every version a request holds, with all edits still to move it on, is at most the
  number of edits (`Ahead`).
* `StaleHierarchyIsDroppedOrLate`, when nothing fails (`NoHierarchyFaults`) and for any
  overlap.  The strengthening says of each reader that no write has overtaken that what it
  read so far is still current or that an edit under way will delete the entry (`Covers`,
  `ReadsCurrent`), and that an edit of a question finds every test that shows it.
* `ListIsFresh`: the list of the current version shows authors' tests as they are unless an edit
  is under way, and the generated tests there were when the version was last moved on; when no two edits of tests overlap (`OneTestEditAtATime`) and nothing
  fails (`NoListFaults`).  No entry and no reader is ahead of the version
  (`NoneAhead`), and a list about to be stored under the current version is as fresh as that, or an edit
  has yet to bump (`StoresFresh`).  Of later generated tests nothing can be promised before the next
  bump or expiry (section 5). The first assumption
  is needed: two edits that overlap can set the version back (section 5).

`PaperProofs` proves all four properties of `TestPaper`, for any requests, sections,
questions and rows, from `PaperAssumption`.  Each needs some pairs of handlers not to be in
flight together, which `TestPaper` names and `MCTestPaper` meets (`CarefulAuthors`);
`Apart` says that `Overlap` is kept to, and every stage of a handler belongs to one kind
(`Form`).

* `TypeCorrect`: `Spec => []TypeOK`.
* `QuestionsAreOnce`, if no two additions overlap (`AdditionsApart`).  What `AddFind` found
  to be new has no row until it is inserted, and what is being created is not in the bank
  (`Pending`).
* `ObjectiveIsTrue`, if an update of the test overlaps no addition either
  (`UpdatesApart`): no question is `Subjective` in a test that says it is objective, unless an
  addition is under way, or an author has said so or an addition was cut off (`unchecked`) since an
  addition last computed it.  What a handler computed of the rows, or holds of the test's row, is
  still true when it writes it, as rows otherwise only go (`FlagHolds`, `Shrinks`).
* `QuestionsStayAttached`, if no section is updated during an addition or a change of the
  structure (`SectionUpdatesApart`).  The rows an update has loaded are those in its section
  (`UpToDate`), so that `SectionReload` finds nothing to attach or detach.
* `AttemptsKeepQuestions`, if no attempt begins during a removal (`StartsApart`).  Once
  there is an attempt no handler is past its check for attempts (`NoneRemoves`).

`MigrationsProofs` proves all properties of `Migrations` for any number of processes and
migrations, from `MigrationsAssumption`.

* `SortIsRight`: for any dependencies without a circle, `Sorted` lists what is pending, once
  each and dependencies first.  The set of migrations that are visited rightly (`Handles`) is all of
  them, by exhausting a finite set (`Exhausts`): if some were left, one of them would depend on none
  of the others, as otherwise a path as long as there are migrations would come back to one of
  them (`Minimal`, by the pigeonhole principle).  That the recursive function exists at all is
  shown the same way (`VisitExists`).
* `TypeCorrect`: with the list of a process at work nonempty and without repetitions.
* `OnceForEachProcess`.  `OnceInv`: what has no record, or is in the list of a process, was
  completed by the process no more often than it was forgotten, but for the migration in hand
  (`InHand`), which is one ahead.
* `OrderIsKept` and `NoneIsLeftOut`.  A migration is `Settled` when it was applied or is recorded
  as failed.  That is stable, as only the process that has just applied a migration records its
  success; so what a list has left behind stays settled, and with it what the rest depends on
  (`OrderFor`), whatever other processes record meanwhile.

`RuleGenerationProofs` proves `TypeCorrect` and `PapersMatchRules` from
`RuleGenerationAssumption`, for any rules, questions, rows chosen beforehand and number of
starts, authors and connections.  `Inv` says what each start has in hand (`SlotOK`): the rules by
priority, a block that keeps to its rule (`Keeps`) for each it is done with, the others still to do.  A start
changes only itself (`GoesInv`), so that the work is in a draw (`DrawsInv`): a selection has as many
different questions as asked (`OrdersAre`), and all the heaviest when the pool holds no more than
are drawn (`AllAreDrawn`, by cardinality).

`QuestionLinksProofs` proves all properties of `QuestionLinks` for any questions, options, tests
and requests, whichever fail, from `QuestionLinksAssumption`.

* `TypeCorrect`, with what a request brings along from its checks (`Sane`, `Deletes`).
* `LinksStaySettled`.  `QuestionInv` is about one question at a time: until it is created it has
  no links and no requests; while it is settled every request for it is the only one; when it is
  settled and at rest its links and flags are right (`Proper`, `Marked`); and for the
  request that is alone it says what is true already (`Steady`) and what the steps to come will
  make of it (`Heading`), which also holds for an update that is about to put an unsettled question
  right.
* `CopiesStayBounded`.  `CopiesInv`: the links of a question to an option and the requests about to
  insert one are together no more than there are requests, as a request decides to insert only
  when there is no such link.

`PluginsProofs` proves the invariants of `Plugins` for any plugins, hooks, priorities, services and
number of events at once, from `PluginsAssumption`.

* `TypeCorrect`; `CallsAreTried` (`CallsInv`: at each state of a call how many tries it has had, so
  that an exhausted one has had all of them); `HooksAreOwned`
  (`OwnersInv`: each hook in the array is of a plugin that is registered, and is there once if the
  plugin's id was never registered over, as `unregisterPlugin` removes one).
* `EventsRunHooksOnce`, the deepest.  `LoopsInv` says that the array is always in the order of
  the priorities, and of each loop which hooks its index has passed (`RunOnce`).  A
  registration sorts the array again; as it is sorted already, the stable sort moves nothing to the
  left, into what the loop has passed, but for the hooks that are pushed.  The lemmas on
  places (`Ranks`) say that a total order on a finite set gives each member a place of its own.

`ScoringProofs` proves all properties of `Scoring` for any question with any number of options and
any marks, and any answer to it, from `ScoringAssumption`.

* `ValidationHolds`: what `validateQuestionOptions` accepts is consistent.
* `ScoresAreWithinMarks` and `FullMarksAreEarned`, for any answer to a consistent question: a sum of
  marks that are not negative is at least that of some of them, and equal if the others are 0.
* `SheetIsRight`: the choices shown as correct are those that scored.

**Induction.**  The library's induction theorems cannot be applied here, as they take an operator.
The proofs use that `<` is well founded on the naturals instead: a set of them has a least
member, so that the first place where a claim fails is one before which it holds
(`Upward`, `Least`).  With it they show sums, places, paths and the depth-first sort for
data of any size.

**Only model-checked.**  Liveness (`SettlesFresh`, `EventsFinish`, `StartsFinish`), which needs ENABLED.
Every invariant and action property that a passing run checks is stated by a theorem.  The theorems
with a hypothesis on what overlaps say what is true of the service when its clients keep to it; section 5
says what happens when they do not.

## 5. Known divergences

Refuted by a run (`find_starts_finish`): as many starts of a rule-based test as there are
connections wait for ever, see PROJECT.json, findings.  Seen while modelling and not given
a run of their own:

**Attempts**

* two overlapping starts both count before either inserts (209) and pass the limit
  (API document 1063, "User must not have exceeded maximum attempts");
  `OvershootBounded` says by how many;
* a batch of answers whose save (1270) overlaps a submission puts the submitted attempt
  back in progress (API document 1445, "Can only submit in-progress attempts");
* an assessment is submitted without score (1639), although `test.entity.ts` 53 says
  "graded tests still validate options and score normally";
* a batch that answers a new question twice stores two rows (1185), where the API document
  (1407) says 400;
* two overlapping starts of a resubmission test open two attempts
  (`test.entity.ts` 211 says one);
* an attempt under review (`U`) does not stop a new start, although the message at
  `attempts.service.ts` 204 says so: the query asks for `P` only;
* `reviewAttempt` ignores a failed LMS update (1845), although the comment above says
  the status in the LMS is updated; an early PASS can reach the LMS after a later FAIL;
* an answer to a compulsory child question can be deleted by a batch that overlaps a submission,
  after `submitAttempt` has validated (1626) and before it saves: the attempt is submitted
  without it, although "You need to answer all the required questions" (1632);
* a form-style attempt without resubmission stays submitted and pending, so no second
  attempt can start until someone reviews it;

**Caches**

* two overlapping edits can set the version of the list back to one whose entries are old
  (`tests.service` 1209, where 1204 says all of them "become obsolete"): the second of the
  two numbers it computed earlier is written last, after a third edit;
* a start of a rule-based test inserts a PUBLISHED test of type GENERATED (`attempts.service`
  1936–1949), `findAll` shows it (364–380 asks for no type) and nothing moves the version on: the
  list in the cache lacks it until an edit of any test or its expiry, where 1204–1209 have all
  entries "become obsolete";
* adding questions may change a test's `isObjective` (1063) without moving the version
  of the list on, so that `findAll` shows the old value until its entries expire;
* `findAll` stores with a time to live of 86400 under the comment "Cache for 1 day"
  (464), and the cache manager counts milliseconds: it is a minute and a half;

**Authoring**

* a question put into a section while the section is updated loses its section, and so
  its place on the paper, although it stays "already added";
* two overlapping additions put a question into a test twice, after which
  `updateTestStructure` refuses every body that names each question once (1742);
* `isObjective` is not computed again when a question changes its type or leaves the test;
* creating a dropdown, rating or checkbox question in a test of objective questions leaves
  `isObjective` TRUE (`questions.service` 210), where adding the same question makes it FALSE
  ("Check if a test contains only objective questions", `tests.service` 2610);
* an addition that fails between its insertion and its update (1055, 1172) leaves the question in
  the test and `isObjective` as it was; and an author's update can say TRUE of any test
  (`create-test.dto.ts` 121);
* `removeQuestionFromTest` is documented to refuse published tests (2193) and does not;
  creating a question for a published test is possible too, adding one is not (1303);
* a bulk addition gives all questions without an order the same "next available" one;
* a clone is PUBLISHED (1883) where its comment (1850) and the API document say DRAFT;
  its "parent questions only" (1950) include the conditional ones, which are copied twice;
* lists of questions are cached and never invalidated; the time stamp that is written
  for that purpose (`questions.service.ts` 679) is read nowhere;
* an update of a question refused for its section (582) has already been saved, and
  clears no hierarchy;
* reviewers' scores have no upper bound and the score column is `decimal(5,2)`;
* updating a rule and removing one never look whether the test is published, adding does.

**Questions and scores**

* `update` validates `{ ...updateQuestionDto, ...question }` (472), the stored values and not
  those given: new marks and options are saved unvalidated (API document 922, "Total option
  marks must equal question marks"); and `validateQuestionData` is not awaited there;
* stored option marks are decimal strings, whose sum equals no number, so that the options of
  a question with partial scoring can never be replaced;
* without marks the sum is not checked; negative option marks are accepted; options of
  questions in assessments are not validated;
* the API document's examples of fill_blank, match and multiple_answer are refused;
* blanks are compared in the order of the options and not of their `blankIndex`; without partial
  scoring an answer to fewer blanks than there are gets full marks; a repeated pair of a match
  counts twice with partial scoring, and superfluous wrong pairs do not count without;
* a dropdown with several answers is scored by its first correct option; checkbox and rating
  always get 0;
* the answer sheet judges by the options as they are now; it shows every answer as wrong if
  the test hides the correct ones; a repeated selection `[c, c]` of a single correct option
  scores 0 and is shown as correct;
* options are replaced outside a transaction: an answer scored in between gets 0;
* partial scoring on a question with a single choice, which an unvalidated update or a question
  for an assessment can have, shows `[right, wrong]` as correct although it scored 0;
* a blank whose text is only spaces is accepted, and no answer to it is ever right.

**Conditional questions**

* an update of the parent alone leaves the links to options of the former one, and a parent
  or an option set to null alone leaves links or flags behind;
* disassociating the last option clears the flag and leaves `parentId`, so that the question
  appears nowhere in the test;
* adding a question that has links to a test does not make it conditional there;
* the comment "don't throw" in `updateTestQuestionConditionalFlag` (660) precedes a throw (667).

**Rule-based tests**

* a rule may ask for a negative number of questions (`create-rule.dto.ts` 83–85): it passes every
  check for enough of them (`question-pool.service` 38, `attempts.service` 2006) and `slice`
  takes all but as many;
* a PRESELECTED rule by weight is drawn at random (`attempts.service` 2091–2094), where
  `docs/db-design.md` 430 has a "selection based on question weights/difficulty";
* rules are ordered by priority alone, and a question drawn for one rule is not excluded from
  the next, which can put it into the test again;
* the generated test does not copy `gradingType`, `answerSheet` or `showCorrectAnswer`;
* the pool ignores tags, marks and `poolSize`; the preview queries name columns there are not;
* no code writes the rows PRESELECTED rules are drawn from (`docs/db-design.md` 403, 415), and
  a clone's copies of such rows refer to the rules of the original (2120), so that it cannot be started.

**User test status, cloning**

* the aliases of the AVERAGE query (1581) are not quoted and PostgreSQL folds them to lower
  case, so that the average read from them is always 0; HIGHEST puts attempts without score first;
* `canAttempt` is true while `startAttempt` refuses (an attempt in progress or to be reviewed);
* a cloned child question whose parent was cloned as well is there twice, and which copy a
  grandchild refers to depends on the order of the rows.

**Plugins and migrations**

* hooks of plugins of type `external` are never registered; `unregisterPlugin` never removes
  the service a plugin brought along, as it looks under another key (113);
* "Exponential backoff" (262) is linear;
* a plugin registered under the id of another leaves the other's hooks for good;
* hooks registered or removed while an event is under way make it run others twice or not at all;
* failed migrations are never tried again (`README.md` 292), a rollback always fails (291), and
  nothing takes the lock that `lockTimeout` is for;
* `simple-migration-status` can show a negative number of pending migrations.

## 6. Plan

Done, in this order: `Attempts` with its abstract specification; `Caches`; `TestPaper`; the
proofs of each; `Plugins`, `Migrations`, `Scoring`, `QuestionLinks`, `RuleGeneration`; the proofs
of these, of the serial properties of `Attempts` and of its refinement.

Left, the most useful first:

1. `cloneTest` as a copy up to renaming, and the orders of sections and questions.
2. An abstract specification of the two caches (a read returns a value that was current during
   the request or is about to be dropped), which `Caches` implements.

**Not modelled, and why.**  Queries that write nothing and that no handler decides on: resume,
answer sheets but for their judgement, results, user test status, reports, search, previews.
Pure I/O and mapping: file upload, health checks, the HTTP layer, helper functions, the tenant's
configuration (one cached value nothing modelled reads).  Orders and `isCompulsory`, which
affect display and the compulsory check of later attempts only.
