----------------------------- MODULE TestPaper -----------------------------
(***************************************************************************)
(* The paper of one test: its row, its sections and its testQuestions, and *)
(* the requests of its authors: addQuestionToTest, addQuestionsBulkToTest, *)
(* removeQuestionFromTest, updateTestStructure, update and remove of       *)
(* src/modules/tests/tests.service.ts, the sections of sections.service.ts *)
(* and the creation of a question for the test in questions.service.ts.    *)
(*                                                                         *)
(* save(entity) writes what the entity holds, the rows of its loaded       *)
(* relations included: a row that refers to the entity in the database but *)
(* is not in the entity is made to refer to nothing, and one that is in it *)
(* but refers elsewhere is made to refer to it.  It compares the entity    *)
(* with the database first: it then updates only what differs, and inserts *)
(* a row that is gone.                                                     *)
(***************************************************************************)
EXTENDS Naturals, FiniteSets

CONSTANTS
    Requests,     \* slots for requests being handled
    Sections,     \* ids of sections of the test
    Questions,
    Objective,    \* those of a type that checkIfTestIsObjective counts as objective
    Subjective,   \* those of a type that create refuses to count: for a reviewer
    Rows,         \* ids of testQuestions
    Bodies,       \* what authors write in an update of the test
    Overlap,      \* sets of kinds of request that may be in flight together
    NULL

Kinds == {"add", "bulk", "create", "remove", "structure", "newSection",
          "section", "dropSection", "test", "dropTest", "start"}

\* "none" is a test that was deleted for good.
TestStatus == {"none", "draft", "published", "archived"}
SectionStatus == {"none", "live", "archived"}

TestQuestion == [section: Sections \cup {NULL}, question: Questions]
TestRow == [status: TestStatus, isObjective: BOOLEAN]

\* UpdateTestDto: a field that is left out is NULL.
Body == [status: (TestStatus \ {"none"}) \cup {NULL}, isObjective: BOOLEAN \cup {NULL}]

ASSUME PaperAssumption ==
    /\ Bodies \subseteq Body
    /\ Objective \subseteq Questions
    /\ Subjective \subseteq Questions
    /\ Objective \cap Subjective = {}
    /\ Overlap \subseteq SUBSET Kinds
    /\ NULL \notin Kinds \cup Sections \cup TestStatus \cup SectionStatus
    /\ NULL \notin TestQuestion

\* A structure sent by an author: the section of each question it names.
Layouts == UNION {[S -> Sections] : S \in SUBSET Questions}
NoLayout == [q \in {} |-> NULL]

Stages == {"idle", "add.find", "add.insert", "add.check", "add.flag",
           "create.check", "create.flag", "create.commit",
           "remove.attempts", "remove.find", "remove.delete",
           "structure.check", "structure.commit", "newSection.save",
           "section.reload", "section.write",
           "dropSection.attempts", "dropSection.rows", "dropSection.section",
           "test.reload", "test.write", "test.insert",
           "dropTest.attempts", "dropTest.rows", "dropTest.archive"}

Slot == [kind: Kinds \cup {NULL}, pc: Stages, section: Sections \cup {NULL},
         questions: SUBSET Questions, layout: Layouts,
         rows: SUBSET Rows, gone: SUBSET Rows, known: SUBSET Sections,
         flag: BOOLEAN, own: BOOLEAN, dirty: BOOLEAN,
         status: TestStatus \cup SectionStatus \cup {NULL}]

IdleSlot == [kind |-> NULL, pc |-> "idle", section |-> NULL, questions |-> {},
             layout |-> NoLayout, rows |-> {}, gone |-> {}, known |-> {},
             flag |-> FALSE, own |-> FALSE, dirty |-> FALSE, status |-> NULL]

VARIABLES
    test,           \* the test's row
    sections,       \* the status of each section, "none" when it has no row
    testQuestions,  \* the rows that put a question into a section, or NULL
    bank,           \* the questions there are
    attempted,      \* some learner has an attempt at the test
    req,            \* the request slots
    unchecked       \* auxiliary: since an addition last wrote isObjective, an author has
                    \* made it TRUE, or an addition has left it so and ended before that

vars == <<test, sections, testQuestions, bank, attempted, req, unchecked>>
paper == <<sections, testQuestions>>

TypeOK ==
    /\ test \in TestRow
    /\ sections \in [Sections -> SectionStatus]
    /\ testQuestions \in [Rows -> TestQuestion \cup {NULL}]
    /\ bank \in SUBSET Questions
    /\ attempted \in BOOLEAN
    /\ req \in [Requests -> Slot]
    /\ unchecked \in BOOLEAN

\* A test is created without sections and questions, its status and isObjective
\* as its author says.
Init ==
    /\ test \in [status: {"draft", "published", "archived"}, isObjective: BOOLEAN]
    /\ sections = [s \in Sections |-> "none"]
    /\ testQuestions = [x \in Rows |-> NULL]
    /\ bank \in SUBSET Questions
    /\ attempted = FALSE
    /\ req = [r \in Requests |-> IdleSlot]
    /\ unchecked = FALSE

Present == {x \in Rows : testQuestions[x] # NULL}
RowsIn(s) == {x \in Present : testQuestions[x].section = s}
RowsOf(q) == {x \in Present : testQuestions[x].question = q}
Existing == {s \in Sections : sections[s] # "none"}

\* A row's id is a UUID: never one a request still holds.
Fresh == {x \in Rows \ Present : \A r \in Requests : x \notin req[r].rows \cup req[r].gone}

MayBegin(r, k) ==
    /\ req[r].pc = "idle"
    /\ \A s \in Requests : req[s].pc # "idle" => {k, req[s].kind} \in Overlap

Begins(r, k, slot) == MayBegin(r, k) /\ req' = [req EXCEPT ![r] = [slot EXCEPT !.kind = k]]
Becomes(r, slot) == req' = [req EXCEPT ![r] = slot]
Finish(r) == Becomes(r, IdleSlot)

\* The rows in R become what f makes of them.
ChangeRows(R, f(_)) ==
    testQuestions' = [x \in Rows |-> IF x \in R THEN f(testQuestions[x]) ELSE testQuestions[x]]

DeleteRows(R) ==
    testQuestions' = [x \in Rows |-> IF x \in R THEN NULL ELSE testQuestions[x]]

\* A row of its own in section s for each of the questions in Q.
InsertRows(s, Q) ==
    \E f \in [Q -> Fresh] :
        /\ \A p, q \in Q : f[p] = f[q] => p = q
        /\ testQuestions' = [x \in Rows |->
               IF \E q \in Q : f[q] = x
               THEN [section |-> s, question |-> CHOOSE q \in Q : f[q] = x]
               ELSE testQuestions[x]]

\* What checkIfTestIsObjective answers: FALSE also when its query fails.
AllObjective == \A x \in Present : testQuestions[x].question \in Objective
CheckAnswers == {AllObjective, FALSE}

-----------------------------------------------------------------------------
(***************************************************************************)
(* addQuestionToTest and addQuestionsBulkToTest: the test must not be      *)
(* published, questions that are in it already are refused or skipped, the *)
(* rest is inserted, and isObjective computed from all rows and written.   *)
(* Only the bulk handler asks whether the section is the test's.           *)
(***************************************************************************)
AddBegin(r, k, s, Q) ==
    /\ k = "add" => Cardinality(Q) = 1
    /\ test.status = "draft"
    /\ s \in Existing
    /\ Begins(r, k, [IdleSlot EXCEPT !.pc = "add.find", !.section = s, !.questions = Q])
    /\ UNCHANGED <<test, paper, bank, attempted, unchecked>>

\* Mutant of AddFind: looks in the section only.
AddFindInSection(r) ==
    LET new == {q \in req[r].questions \cap bank : RowsOf(q) \cap RowsIn(req[r].section) = {}}
    IN  /\ req[r].pc = "add.find"
        /\ IF req[r].kind = "add" /\ new = {}
           THEN Finish(r)
           ELSE Becomes(r, [req[r] EXCEPT !.pc = "add.insert", !.questions = new])
        /\ UNCHANGED <<test, paper, bank, attempted, unchecked>>

AddFind(r) ==
    LET new == {q \in req[r].questions \cap bank : RowsOf(q) = {}}
    IN  /\ req[r].pc = "add.find"
        /\ IF req[r].kind = "add" /\ new = {}
           THEN Finish(r)
           ELSE Becomes(r, [req[r] EXCEPT !.pc = "add.insert", !.questions = new])
        /\ UNCHANGED <<test, paper, bank, attempted, unchecked>>

\* A section that is gone by now fails the foreign key.
AddInsert(r) ==
    /\ req[r].pc = "add.insert"
    /\ IF req[r].section \in Existing \/ req[r].questions = {}
       THEN /\ InsertRows(req[r].section, req[r].questions)
            /\ Becomes(r, [req[r] EXCEPT !.pc = "add.check", !.questions = {}])
       ELSE Finish(r) /\ UNCHANGED testQuestions
    /\ UNCHANGED <<test, sections, bank, attempted, unchecked>>

AddCheck(r) ==
    /\ req[r].pc = "add.check"
    /\ \E answer \in CheckAnswers :
           Becomes(r, [req[r] EXCEPT !.pc = "add.flag", !.flag = answer])
    /\ UNCHANGED <<test, paper, bank, attempted, unchecked>>

AddFlag(r) ==
    /\ req[r].pc = "add.flag"
    /\ test' = [test EXCEPT !.isObjective = req[r].flag]
    /\ Finish(r)
    /\ unchecked' = FALSE
    /\ UNCHANGED <<paper, bank, attempted>>

-----------------------------------------------------------------------------
(***************************************************************************)
(* create of questions.service for a test, published or not: isObjective   *)
(* is computed from the rows there are and the new question, which counts  *)
(* unless it is subjective, an essay or a file, and written outside the    *)
(* transaction that creates the question and its row.                      *)
(***************************************************************************)
CreateBegin(r, s, q) ==
    /\ q \notin bank
    /\ \A x \in Requests : q \notin req[x].questions
    /\ s \in Existing
    /\ Begins(r, "create", [IdleSlot EXCEPT !.pc = "create.check", !.section = s,
                                            !.questions = {q}])
    /\ UNCHANGED <<test, paper, bank, attempted, unchecked>>

\* Mutant of CreateCheck: only the questions that are in the test already.
CreateCheckOthers(r) ==
    /\ req[r].pc = "create.check"
    /\ \E answer \in CheckAnswers :
           Becomes(r, [req[r] EXCEPT !.pc = "create.flag", !.flag = answer])
    /\ UNCHANGED <<test, paper, bank, attempted, unchecked>>

CreateCheck(r) ==
    /\ req[r].pc = "create.check"
    /\ \E answer \in CheckAnswers :
           Becomes(r, [req[r] EXCEPT !.pc = "create.flag",
               !.flag = answer /\ req[r].questions \cap Subjective = {}])
    /\ UNCHANGED <<test, paper, bank, attempted, unchecked>>

CreateFlag(r) ==
    /\ req[r].pc = "create.flag"
    /\ test' = [test EXCEPT !.isObjective = req[r].flag]
    /\ Becomes(r, [req[r] EXCEPT !.pc = "create.commit", !.flag = FALSE])
    /\ unchecked' = FALSE
    /\ UNCHANGED <<paper, bank, attempted>>

CreateCommit(r) ==
    /\ req[r].pc = "create.commit"
    /\ IF req[r].section \in Existing
       THEN /\ bank' = bank \cup req[r].questions
            /\ InsertRows(req[r].section, req[r].questions)
       ELSE UNCHANGED <<bank, testQuestions>>
    /\ Finish(r)
    /\ UNCHANGED <<test, sections, attempted, unchecked>>

-----------------------------------------------------------------------------
(***************************************************************************)
(* removeQuestionFromTest: refused once there is an attempt.               *)
(***************************************************************************)
InUse == test.status \in {"draft", "published"}

RemoveBegin(r, q) ==
    /\ InUse
    /\ Begins(r, "remove", [IdleSlot EXCEPT !.pc = "remove.attempts", !.questions = {q}])
    /\ UNCHANGED <<test, paper, bank, attempted, unchecked>>

\* validateNoAttempts, then on to stage pc.
NoAttempts(r, at, pc) ==
    /\ req[r].pc = at
    /\ IF attempted THEN Finish(r) ELSE Becomes(r, [req[r] EXCEPT !.pc = pc])
    /\ UNCHANGED <<test, paper, bank, attempted, unchecked>>

\* Mutant of RemoveAttempts: does not ask for attempts.
RemoveAnyway(r) ==
    /\ req[r].pc = "remove.attempts"
    /\ Becomes(r, [req[r] EXCEPT !.pc = "remove.find"])
    /\ UNCHANGED <<test, paper, bank, attempted, unchecked>>

RemoveAttempts(r) == NoAttempts(r, "remove.attempts", "remove.find")

RemoveFind(r) ==
    /\ req[r].pc = "remove.find"
    /\ LET R == UNION {RowsOf(q) : q \in req[r].questions}
       IN  \/ R = {} /\ Finish(r)
           \/ \E x \in R : Becomes(r, [req[r] EXCEPT !.pc = "remove.delete", !.questions = {}, !.rows = {x}])
    /\ UNCHANGED <<test, paper, bank, attempted, unchecked>>

RemoveDelete(r) ==
    /\ req[r].pc = "remove.delete"
    /\ DeleteRows(req[r].rows)
    /\ Finish(r)
    /\ UNCHANGED <<test, sections, bank, attempted, unchecked>>

-----------------------------------------------------------------------------
(***************************************************************************)
(* updateTestStructure, one transaction: every question on show must be    *)
(* named, and as many rows found as there are names.                       *)
(***************************************************************************)
Shown == {x \in Present : testQuestions[x].section \in Sections
                          /\ sections[testQuestions[x].section] = "live"}

\* An id it names is one the author has seen.
StructureBegin(r, layout) ==
    /\ InUse
    /\ DOMAIN layout \subseteq bank
    /\ Begins(r, "structure", [IdleSlot EXCEPT !.pc = "structure.check", !.layout = layout])
    /\ UNCHANGED <<test, paper, bank, attempted, unchecked>>

\* The body may also leave out a section, and is then refused.
StructureCheck(r) ==
    LET named == DOMAIN req[r].layout
        valid == /\ \A x \in Shown : testQuestions[x].question \in named
                 /\ Cardinality(UNION {RowsOf(q) : q \in named}) = Cardinality(named)
                 /\ \A q \in named : req[r].layout[q] \in Existing
    IN  /\ req[r].pc = "structure.check"
        /\ \/ Finish(r)
           \/ valid /\ Becomes(r, [req[r] EXCEPT !.pc = "structure.commit"])
        /\ UNCHANGED <<test, paper, bank, attempted, unchecked>>

\* Mutant of StructureCommit: takes what is not named out of its section.
StructureCommitOnly(r) ==
    LET place(row) == [row EXCEPT !.section =
                          IF row.question \in DOMAIN req[r].layout
                          THEN req[r].layout[row.question] ELSE NULL]
    IN  /\ req[r].pc = "structure.commit"
        /\ ChangeRows(Present, place)
        /\ Finish(r)
        /\ UNCHANGED <<test, sections, bank, attempted, unchecked>>

StructureCommit(r) ==
    LET layout == req[r].layout
        place(row) == [row EXCEPT !.section = layout[row.question]]
        placed == UNION {RowsOf(q) : q \in DOMAIN layout}
    IN  /\ req[r].pc = "structure.commit"
        /\ IF \A x \in placed : layout[testQuestions[x].question] \in Existing
           THEN ChangeRows(placed, place)
           ELSE UNCHANGED testQuestions
        /\ Finish(r)
        /\ UNCHANGED <<test, sections, bank, attempted, unchecked>>

-----------------------------------------------------------------------------
(***************************************************************************)
(* sections.service: create is refused for a published test only; update   *)
(* saves the section with the questions it was loaded with; remove takes   *)
(* the section's rows away before it archives or deletes the section.      *)
(***************************************************************************)
NewSectionBegin(r, s) ==
    /\ test.status \in {"draft", "archived"}
    /\ sections[s] = "none"
    /\ Begins(r, "newSection", [IdleSlot EXCEPT !.pc = "newSection.save", !.section = s])
    /\ UNCHANGED <<test, paper, bank, attempted, unchecked>>

NewSectionSave(r) ==
    /\ req[r].pc = "newSection.save"
    /\ sections' = IF test.status # "none"
                   THEN [sections EXCEPT ![req[r].section] = "live"] ELSE sections
    /\ Finish(r)
    /\ UNCHANGED <<test, testQuestions, bank, attempted, unchecked>>

SectionBegin(r, s, status) ==
    /\ s \in Existing
    /\ Begins(r, "section", [IdleSlot EXCEPT !.pc = "section.reload", !.section = s,
                                             !.status = status, !.rows = RowsIn(s)])
    /\ UNCHANGED <<test, paper, bank, attempted, unchecked>>

\* rows is then what to attach, gone what to detach, known whether the section is
\* there to update, and status what to write of it.
SectionReload(r) ==
    LET s == req[r].section
    IN  /\ req[r].pc = "section.reload"
        /\ Becomes(r, [req[r] EXCEPT !.pc = "section.write",
                           !.rows = @ \ RowsIn(s), !.gone = RowsIn(s) \ req[r].rows,
                           !.known = {s} \cap Existing,
                           !.status = IF sections[s] = @ THEN NULL ELSE @])
        /\ UNCHANGED <<test, paper, bank, attempted, unchecked>>

\* Refused by a primary key that is there or a foreign key that is not.
SectionWrite(r) ==
    LET s == req[r].section
        there == s \in Existing
        inserts == req[r].known = {}
        attached == req[r].rows \cap Present
        refused == \/ inserts /\ (there \/ test.status = "none")
                   \/ ~inserts /\ ~there /\ attached # {}
        place(x) == IF x \in attached THEN [testQuestions[x] EXCEPT !.section = s]
                    ELSE IF x \in req[r].gone \cap Present
                    THEN [testQuestions[x] EXCEPT !.section = NULL]
                    ELSE testQuestions[x]
    IN  /\ req[r].pc = "section.write"
        /\ testQuestions' = IF refused THEN testQuestions ELSE [x \in Rows |-> place(x)]
        /\ sections' = IF ~refused /\ (inserts \/ there) /\ req[r].status # NULL
                       THEN [sections EXCEPT ![s] = req[r].status] ELSE sections
        /\ Finish(r)
        /\ UNCHANGED <<test, bank, attempted, unchecked>>

DropSectionBegin(r, s) ==
    /\ s \in Existing
    /\ Begins(r, "dropSection", [IdleSlot EXCEPT !.pc = "dropSection.attempts", !.section = s])
    /\ UNCHANGED <<test, paper, bank, attempted, unchecked>>

DropSectionAttempts(r) == NoAttempts(r, "dropSection.attempts", "dropSection.rows")

DropSectionRows(r) ==
    /\ req[r].pc = "dropSection.rows"
    /\ DeleteRows(RowsIn(req[r].section))
    /\ Becomes(r, [req[r] EXCEPT !.pc = "dropSection.section"])
    /\ UNCHANGED <<test, sections, bank, attempted, unchecked>>

\* Archived, or deleted if the foreign key of rows that came since allows it.
DropSection(r) ==
    LET s == req[r].section
    IN  /\ req[r].pc = "dropSection.section"
        /\ \/ /\ s \in Existing
              /\ sections' = [sections EXCEPT ![s] = "archived"]
           \/ RowsIn(s) = {} /\ sections' = [sections EXCEPT ![s] = "none"]
           \/ (s \notin Existing \/ RowsIn(s) # {}) /\ UNCHANGED sections
        /\ Finish(r)
        /\ UNCHANGED <<test, testQuestions, bank, attempted, unchecked>>

-----------------------------------------------------------------------------
(***************************************************************************)
(* update and remove of tests.service.  update saves the test with the     *)
(* sections and rows it was loaded with: one that came since would lose    *)
(* its testId, which must not be null, and the save fails.  isObjective is *)
(* the author's own if the body has it, else the one loaded.               *)
(***************************************************************************)
TestBegin(r, body) ==
    LET status == IF body.status = NULL THEN test.status ELSE body.status
        flag == IF body.isObjective = NULL THEN test.isObjective ELSE body.isObjective
    IN  /\ InUse
        /\ Begins(r, "test", [IdleSlot EXCEPT !.pc = "test.reload", !.status = status,
                                 !.rows = Present, !.known = Existing,
                                 !.flag = flag, !.own = flag /\ ~test.isObjective])
        /\ UNCHANGED <<test, paper, bank, attempted, unchecked>>

TestReload(r) ==
    LET changes == req[r].flag # test.isObjective
        claims == req[r].flag /\ ~test.isObjective
        slot == [req[r] EXCEPT !.rows = {}, !.known = {}]
    IN  /\ req[r].pc = "test.reload"
        /\ IF ~(Present \subseteq req[r].rows /\ Existing \subseteq req[r].known)
           THEN Finish(r)
           ELSE IF test.status = "none"
           THEN Becomes(r, [slot EXCEPT !.pc = "test.insert"])
           ELSE Becomes(r, [slot EXCEPT !.pc = "test.write", !.dirty = changes,
                                !.flag = claims, !.own = @ /\ claims,
                                !.status = IF @ = test.status THEN NULL ELSE @])
        /\ UNCHANGED <<test, paper, bank, attempted, unchecked>>

TestWrite(r) ==
    /\ req[r].pc = "test.write"
    /\ IF test.status = "none"
       THEN UNCHANGED <<test, unchecked>>
       ELSE /\ test' = [status |-> IF req[r].status = NULL THEN test.status ELSE req[r].status,
                        isObjective |-> IF req[r].dirty THEN req[r].flag ELSE test.isObjective]
            /\ unchecked' = (unchecked \/ req[r].own)
    /\ Finish(r)
    /\ UNCHANGED <<paper, bank, attempted>>

TestInsert(r) ==
    /\ req[r].pc = "test.insert"
    /\ IF test.status # "none"
       THEN UNCHANGED <<test, unchecked>>
       ELSE /\ test' = [status |-> req[r].status, isObjective |-> req[r].flag]
            /\ unchecked' = (unchecked \/ req[r].own)
    /\ Finish(r)
    /\ UNCHANGED <<paper, bank, attempted>>

DropTestBegin(r) ==
    /\ InUse
    /\ Begins(r, "dropTest", [IdleSlot EXCEPT !.pc = "dropTest.attempts"])
    /\ UNCHANGED <<test, paper, bank, attempted, unchecked>>

DropTestAttempts(r) == NoAttempts(r, "dropTest.attempts", "dropTest.rows")

DropTestRows(r) ==
    /\ req[r].pc = "dropTest.rows"
    /\ DeleteRows(Present)
    /\ Becomes(r, [req[r] EXCEPT !.pc = "dropTest.archive"])
    /\ UNCHANGED <<test, sections, bank, attempted, unchecked>>

\* Mutant of DropTest: keeps the sections there are only.
DropTestExisting(r) ==
    /\ req[r].pc = "dropTest.archive"
    /\ test' = [test EXCEPT !.status = "archived"]
    /\ sections' = [s \in Existing |-> "archived"]
    /\ Finish(r)
    /\ UNCHANGED <<testQuestions, bank, attempted, unchecked>>

\* Archived with its sections; or its sections deleted, if no row refers to
\* one, and then the test, if nothing refers to it.
DropTest(r) ==
    /\ req[r].pc = "dropTest.archive"
    /\ \/ /\ test.status # "none"
          /\ test' = [test EXCEPT !.status = "archived"]
          /\ sections' = [s \in Sections |-> IF s \in Existing THEN "archived" ELSE "none"]
       \/ /\ Present = {}
          /\ sections' = [s \in Sections |-> "none"]
          /\ test' = IF attempted THEN test ELSE [test EXCEPT !.status = "none"]
       \/ (test.status = "none" \/ Present # {}) /\ UNCHANGED <<test, sections>>
    /\ Finish(r)
    /\ UNCHANGED <<testQuestions, bank, attempted, unchecked>>

\* startAttempt of a learner, in one step.
AttemptStarts ==
    /\ test.status = "published"
    /\ ~attempted
    /\ \A r \in Requests : req[r].pc # "idle" => {"start", req[r].kind} \in Overlap
    /\ attempted' = TRUE
    /\ UNCHANGED <<test, paper, bank, req, unchecked>>

\* A query fails and the handler ends.
Abort(r) ==
    /\ req[r].pc # "idle"
    /\ unchecked' = (unchecked \/ (test.isObjective /\ req[r].pc \in {"add.check", "add.flag"}))
    /\ Finish(r)
    /\ UNCHANGED <<test, paper, bank, attempted>>

-----------------------------------------------------------------------------
Begin(r) ==
    \/ \E s \in Sections, Q \in SUBSET Questions \ {{}}, k \in {"add", "bulk"} : AddBegin(r, k, s, Q)
    \/ \E s \in Sections, q \in Questions : CreateBegin(r, s, q)
    \/ \E q \in Questions : RemoveBegin(r, q)
    \/ \E layout \in Layouts : StructureBegin(r, layout)
    \/ \E s \in Sections : NewSectionBegin(r, s) \/ DropSectionBegin(r, s)
    \/ \E s \in Sections, status \in {"live", "archived"} : SectionBegin(r, s, status)
    \/ \E body \in Bodies : TestBegin(r, body)
    \/ DropTestBegin(r)

Step(r) ==
    \/ AddFind(r) \/ AddInsert(r) \/ AddCheck(r) \/ AddFlag(r)
    \/ CreateCheck(r) \/ CreateFlag(r) \/ CreateCommit(r)
    \/ RemoveAttempts(r) \/ RemoveFind(r) \/ RemoveDelete(r)
    \/ StructureCheck(r) \/ StructureCommit(r)
    \/ NewSectionSave(r)
    \/ SectionReload(r) \/ SectionWrite(r)
    \/ DropSectionAttempts(r) \/ DropSectionRows(r) \/ DropSection(r)
    \/ TestReload(r) \/ TestWrite(r) \/ TestInsert(r)
    \/ DropTestAttempts(r) \/ DropTestRows(r) \/ DropTest(r)

Next ==
    \/ \E r \in Requests : Begin(r) \/ Step(r) \/ Abort(r)
    \/ AttemptStarts

Spec == Init /\ [][Next]_vars

-----------------------------------------------------------------------------
(***************************************************************************)
(* What the authors must keep apart for the properties below, one each:    *)
(* nothing in the code does.                                               *)
(***************************************************************************)
Additions == {"add", "bulk", "create"}

AdditionsApart == \A k, l \in Additions : {k, l} \notin Overlap

UpdatesApart == \A k \in Additions : {k, "test"} \notin Overlap

SectionUpdatesApart == \A k \in Additions \cup {"structure"} : {k, "section"} \notin Overlap

StartsApart == \A k \in {"remove", "dropSection", "dropTest"} : {"start", k} \notin Overlap

-----------------------------------------------------------------------------
\* A question is in the test once, when no two additions overlap: "Question is
\* already added to this test".
QuestionOnce ==
    \A x, y \in Present :
        testQuestions[x].question = testQuestions[y].question => x = y

Adding(s) == s.kind \in {"add", "bulk"} /\ s.pc \in {"add.check", "add.flag"}

NoneSubjective == \A x \in Present : testQuestions[x].question \notin Subjective

\* A test that counts as objective, so that attempts at it are not reviewed, has
\* no question for a reviewer (one to choose from a list or to rate it may have:
\* create counts what checkIfTestIsObjective does not), unless an addition has yet
\* to compute that anew, was cut off before it could, or an author said so since.
\* Additions overlap neither each other nor an update of the test, and questions
\* keep their types.
ObjectiveHolds ==
    \/ test.isObjective => NoneSubjective
    \/ unchecked
    \/ \E r \in Requests : Adding(req[r])

\* No question loses its section, and with it its place on the paper, while
\* sections are not updated as questions are put into them or moved: an update
\* saves the questions it was loaded with.
Attached == \A x \in Present : testQuestions[x].section # NULL

\* No question leaves the test once a learner has an attempt at it, unless the
\* attempt begins while a removal is under way.
AttemptedKeepsQuestions ==
    [][attempted => \A x \in Present : testQuestions'[x] # NULL]_vars
=============================================================================
