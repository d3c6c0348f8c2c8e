---------------------------- MODULE PaperProofs ----------------------------
(***************************************************************************)
(* Theorems about TestPaper, for any requests, sections, questions and     *)
(* rows.                                                                   *)
(***************************************************************************)
EXTENDS TestPaper, TLAPS

-----------------------------------------------------------------------------
(***************************************************************************)
(* Types: a slot's stage says of which kind it is and what it holds.       *)
(***************************************************************************)
AddStages == {"add.find", "add.insert", "add.check", "add.flag"}
CreateStages == {"create.check", "create.flag", "create.commit"}
StructureStages == {"structure.check", "structure.commit"}
SectionStages == {"section.reload", "section.write"}
DropSectionStages == {"dropSection.attempts", "dropSection.rows", "dropSection.section"}
TestStages == {"test.reload", "test.write", "test.insert"}

Form(s) ==
    /\ s.pc \in AddStages => s.kind \in {"add", "bulk"}
    /\ s.pc \in CreateStages => s.kind = "create"
    /\ s.pc \in StructureStages => s.kind = "structure"
    /\ s.pc \in SectionStages =>
          s.kind = "section" /\ s.status \in SectionStatus \cup {NULL}
    /\ s.pc \in TestStages => s.kind = "test" /\ s.status \in TestStatus \cup {NULL}
    /\ s.pc \in {"test.reload", "test.insert"} => s.status \in TestStatus
    /\ s.pc \in {"remove.attempts", "remove.find", "remove.delete"} => s.kind = "remove"
    /\ s.pc \in DropSectionStages => s.kind = "dropSection"
    /\ s.pc \in {"dropTest.attempts", "dropTest.rows", "dropTest.archive"} => s.kind = "dropTest"
    /\ s.pc \in AddStages \cup CreateStages \cup SectionStages \cup DropSectionStages
                \cup {"newSection.save"} => s.section \in Sections

Typed == TypeOK /\ \A r \in Requests : Form(req[r])

LEMMA IdleSlotIsTyped == IdleSlot \in Slot /\ Form(IdleSlot)
<1>1. NoLayout \in Layouts
  BY DEF NoLayout, Layouts
<1>2. IdleSlot \in Slot
  BY <1>1 DEF IdleSlot, Slot, Stages
<1> QED
  BY <1>2 DEF IdleSlot, Form, AddStages, CreateStages, StructureStages, SectionStages,
              DropSectionStages, TestStages

\* A step that gives r the slot s keeps the slots typed if s is.
LEMMA SlotsStayTyped ==
  ASSUME Typed, NEW r \in Requests, NEW s \in Slot, Form(s), Becomes(r, s)
  PROVE  req' \in [Requests -> Slot] /\ \A x \in Requests : Form(req'[x])
BY DEF Becomes, Typed, TypeOK

LEMMA FinishStaysTyped ==
  ASSUME Typed, NEW r \in Requests, Finish(r)
  PROVE  req' \in [Requests -> Slot] /\ \A x \in Requests : Form(req'[x])
BY IdleSlotIsTyped, SlotsStayTyped DEF Finish

\* What a deletion and an insertion of rows do.
LEMMA DeletedRows ==
  ASSUME TypeOK, NEW R \in SUBSET Rows, DeleteRows(R)
  PROVE  /\ testQuestions' \in [Rows -> TestQuestion \cup {NULL}]
         /\ \A x \in Rows : testQuestions'[x] = IF x \in R THEN NULL ELSE testQuestions[x]
BY DEF DeleteRows, TypeOK

LEMMA InsertedRows ==
  ASSUME TypeOK, NEW s \in Sections, NEW Q \in SUBSET Questions, InsertRows(s, Q)
  PROVE  /\ testQuestions' \in [Rows -> TestQuestion \cup {NULL}]
         /\ \A x \in Rows : \/ testQuestions'[x] = testQuestions[x]
                            \/ /\ x \in Fresh
                               /\ testQuestions'[x].section = s
                               /\ testQuestions'[x].question \in Q
         /\ \A x, y \in Rows :
               /\ testQuestions'[x] # testQuestions[x]
               /\ testQuestions'[y] # testQuestions[y]
               /\ testQuestions'[x].question = testQuestions'[y].question
               => x = y
<1>1. PICK f \in [Q -> Fresh] :
         /\ \A p, q \in Q : f[p] = f[q] => p = q
         /\ testQuestions' = [x \in Rows |->
               IF \E q \in Q : f[q] = x
               THEN [section |-> s, question |-> CHOOSE q \in Q : f[q] = x]
               ELSE testQuestions[x]]
  BY DEF InsertRows
<1> DEFINE Of(x) == CHOOSE q \in Q : f[q] = x
<1>2. ASSUME NEW x \in Rows, \E q \in Q : f[q] = x
      PROVE  Of(x) \in Q /\ f[Of(x)] = x
  BY <1>2
<1>3. \A x \in Rows : IF \E q \in Q : f[q] = x
                      THEN testQuestions'[x] = [section |-> s, question |-> Of(x)]
                      ELSE testQuestions'[x] = testQuestions[x]
  BY <1>1
<1> HIDE DEF Of
<1>4. \A x \in Rows : testQuestions'[x] = testQuestions[x]
                      \/ (x \in Fresh /\ testQuestions'[x] = [section |-> s, question |-> Of(x)]
                          /\ Of(x) \in Q /\ f[Of(x)] = x)
  BY <1>2, <1>3
<1>5. \A x \in Rows : testQuestions'[x] \in TestQuestion \cup {NULL}
  <2> SUFFICES ASSUME NEW x \in Rows PROVE testQuestions'[x] \in TestQuestion \cup {NULL}
    OBVIOUS
  <2>1. CASE testQuestions'[x] = testQuestions[x]
    BY <2>1 DEF TypeOK
  <2>2. CASE testQuestions'[x] # testQuestions[x]
    <3>1. Of(x) \in Questions /\ testQuestions'[x] = [section |-> s, question |-> Of(x)]
      BY <1>4, <2>2
    <3> QED BY <3>1 DEF TestQuestion
  <2> QED BY <2>1, <2>2
<1>6. testQuestions' \in [Rows -> TestQuestion \cup {NULL}]
  BY <1>1, <1>5
<1>7. ASSUME NEW x \in Rows, NEW y \in Rows,
             testQuestions'[x] # testQuestions[x], testQuestions'[y] # testQuestions[y],
             testQuestions'[x].question = testQuestions'[y].question
      PROVE  x = y
  <2>1. testQuestions'[x] = [section |-> s, question |-> Of(x)] /\ f[Of(x)] = x
    BY <1>4, <1>7
  <2>2. testQuestions'[y] = [section |-> s, question |-> Of(y)] /\ f[Of(y)] = y
    BY <1>4, <1>7
  <2>3. Of(x) = Of(y)
    BY <1>7, <2>1, <2>2
  <2> QED BY <2>1, <2>2, <2>3
<1> QED BY <1>4, <1>6, <1>7

\* What a field that is left out does not say, the test's row says.
LEMMA UpdatesAreWhole ==
  ASSUME Typed, NEW body \in Bodies
  PROVE  /\ (IF body.status = NULL THEN test.status ELSE body.status) \in TestStatus
         /\ (IF body.isObjective = NULL THEN test.isObjective ELSE body.isObjective) \in BOOLEAN
BY PaperAssumption DEF Body, Typed, TypeOK, TestRow

\* A request begins with a slot of the right form.
LEMMA BegunIsTyped ==
  ASSUME Typed, NEW r \in Requests, NEW k \in Kinds, NEW s \in Slot,
         Form([s EXCEPT !.kind = k]), Begins(r, k, s)
  PROVE  req' \in [Requests -> Slot] /\ \A x \in Requests : Form(req'[x])
<1>1. [s EXCEPT !.kind = k] \in Slot
  BY DEF Slot
<1>2. Becomes(r, [s EXCEPT !.kind = k])
  BY DEF Begins, Becomes
<1> QED BY <1>1, <1>2, SlotsStayTyped

LEMMA BeginKeepsSlots ==
  ASSUME Typed, NEW r \in Requests, Begin(r)
  PROVE  req' \in [Requests -> Slot] /\ \A x \in Requests : Form(req'[x])
<1> USE DEF Form, AddStages, CreateStages, StructureStages, SectionStages,
            DropSectionStages, TestStages
<1>0. IdleSlot \in Slot /\ Typed
  BY IdleSlotIsTyped
<1>1. ASSUME NEW s \in Sections, NEW Q \in SUBSET Questions, NEW k \in {"add", "bulk"},
             AddBegin(r, k, s, Q)
      PROVE  req' \in [Requests -> Slot] /\ \A x \in Requests : Form(req'[x])
  <2> DEFINE t == [IdleSlot EXCEPT !.pc = "add.find", !.section = s, !.questions = Q]
  <2>1. t \in Slot /\ Form([t EXCEPT !.kind = k]) /\ k \in Kinds
    BY <1>0 DEF Slot, Stages, IdleSlot, Kinds
  <2>2. Begins(r, k, t)
    BY <1>1 DEF AddBegin
  <2> QED BY <2>1, <2>2, BegunIsTyped
<1>2. ASSUME NEW s \in Sections, NEW q \in Questions, CreateBegin(r, s, q)
      PROVE  req' \in [Requests -> Slot] /\ \A x \in Requests : Form(req'[x])
  <2> DEFINE t == [IdleSlot EXCEPT !.pc = "create.check", !.section = s, !.questions = {q}]
  <2>1. t \in Slot /\ Form([t EXCEPT !.kind = "create"]) /\ "create" \in Kinds
    BY <1>0 DEF Slot, Stages, IdleSlot, Kinds
  <2>2. Begins(r, "create", t)
    BY <1>2 DEF CreateBegin
  <2> QED BY <2>1, <2>2, BegunIsTyped
<1>3. ASSUME NEW q \in Questions, RemoveBegin(r, q)
      PROVE  req' \in [Requests -> Slot] /\ \A x \in Requests : Form(req'[x])
  <2> DEFINE t == [IdleSlot EXCEPT !.pc = "remove.attempts", !.questions = {q}]
  <2>1. t \in Slot /\ Form([t EXCEPT !.kind = "remove"]) /\ "remove" \in Kinds
    BY <1>0 DEF Slot, Stages, IdleSlot, Kinds
  <2>2. Begins(r, "remove", t)
    BY <1>3 DEF RemoveBegin
  <2> QED BY <2>1, <2>2, BegunIsTyped
<1>4. ASSUME NEW layout \in Layouts, StructureBegin(r, layout)
      PROVE  req' \in [Requests -> Slot] /\ \A x \in Requests : Form(req'[x])
  <2> DEFINE t == [IdleSlot EXCEPT !.pc = "structure.check", !.layout = layout]
  <2>1. t \in Slot /\ Form([t EXCEPT !.kind = "structure"]) /\ "structure" \in Kinds
    BY <1>0 DEF Slot, Stages, IdleSlot, Kinds
  <2>2. Begins(r, "structure", t)
    BY <1>4 DEF StructureBegin
  <2> QED BY <2>1, <2>2, BegunIsTyped
<1>5. ASSUME NEW s \in Sections, NewSectionBegin(r, s)
      PROVE  req' \in [Requests -> Slot] /\ \A x \in Requests : Form(req'[x])
  <2> DEFINE t == [IdleSlot EXCEPT !.pc = "newSection.save", !.section = s]
  <2>1. t \in Slot /\ Form([t EXCEPT !.kind = "newSection"]) /\ "newSection" \in Kinds
    BY <1>0 DEF Slot, Stages, IdleSlot, Kinds
  <2>2. Begins(r, "newSection", t)
    BY <1>5 DEF NewSectionBegin
  <2> QED BY <2>1, <2>2, BegunIsTyped
<1>6. ASSUME NEW s \in Sections, DropSectionBegin(r, s)
      PROVE  req' \in [Requests -> Slot] /\ \A x \in Requests : Form(req'[x])
  <2> DEFINE t == [IdleSlot EXCEPT !.pc = "dropSection.attempts", !.section = s]
  <2>1. t \in Slot /\ Form([t EXCEPT !.kind = "dropSection"]) /\ "dropSection" \in Kinds
    BY <1>0 DEF Slot, Stages, IdleSlot, Kinds
  <2>2. Begins(r, "dropSection", t)
    BY <1>6 DEF DropSectionBegin
  <2> QED BY <2>1, <2>2, BegunIsTyped
<1>7. ASSUME NEW s \in Sections, NEW status \in {"live", "archived"}, SectionBegin(r, s, status)
      PROVE  req' \in [Requests -> Slot] /\ \A x \in Requests : Form(req'[x])
  <2> DEFINE t == [IdleSlot EXCEPT !.pc = "section.reload", !.section = s,
                                   !.status = status, !.rows = RowsIn(s)]
  <2>1. RowsIn(s) \in SUBSET Rows
    BY DEF RowsIn, Present
  <2>2. t \in Slot /\ Form([t EXCEPT !.kind = "section"]) /\ "section" \in Kinds
    BY <1>0, <2>1 DEF Slot, Stages, IdleSlot, Kinds, SectionStatus
  <2>3. Begins(r, "section", t)
    BY <1>7 DEF SectionBegin
  <2> QED BY <2>2, <2>3, BegunIsTyped
<1>8. ASSUME NEW body \in Bodies, TestBegin(r, body)
      PROVE  req' \in [Requests -> Slot] /\ \A x \in Requests : Form(req'[x])
  <2> DEFINE status == IF body.status = NULL THEN test.status ELSE body.status
             flag == IF body.isObjective = NULL THEN test.isObjective ELSE body.isObjective
             own == flag /\ ~test.isObjective
             t == [IdleSlot EXCEPT !.pc = "test.reload", !.status = status,
                      !.rows = Present, !.known = Existing, !.flag = flag, !.own = own]
  <2>0. status \in TestStatus /\ flag \in BOOLEAN
    BY <1>0, UpdatesAreWhole
  <2>1. Present \in SUBSET Rows /\ Existing \in SUBSET Sections /\ own \in BOOLEAN
    BY <1>0 DEF Present, Existing, Typed, TypeOK, TestRow
  <2>4. Begins(r, "test", t)
    BY <1>8 DEF TestBegin
  <2> HIDE DEF status, flag, own
  <2> DEFINE u == [t EXCEPT !.kind = "test"]
  <2>2. t \in Slot
    BY <1>0, <2>0, <2>1 DEF Slot, Stages
  <2>3. u.pc = "test.reload" /\ u.kind = "test" /\ u.status = status
    BY DEF IdleSlot
  <2> HIDE DEF t
  <2>5. Form(u)
    <3> HIDE DEF u
    <3> QED BY <2>0, <2>3
  <2> QED BY <2>2, <2>4, <2>5, BegunIsTyped DEF Kinds
<1>9. ASSUME DropTestBegin(r)
      PROVE  req' \in [Requests -> Slot] /\ \A x \in Requests : Form(req'[x])
  <2> DEFINE t == [IdleSlot EXCEPT !.pc = "dropTest.attempts"]
  <2>1. t \in Slot /\ Form([t EXCEPT !.kind = "dropTest"]) /\ "dropTest" \in Kinds
    BY <1>0 DEF Slot, Stages, IdleSlot, Kinds
  <2>2. Begins(r, "dropTest", t)
    BY <1>9 DEF DropTestBegin
  <2> QED BY <2>1, <2>2, BegunIsTyped
<1> QED
  BY <1>1, <1>2, <1>3, <1>4, <1>5, <1>6, <1>7, <1>8, <1>9 DEF Begin

\* What update of a test makes of its slot once it has compared with the database.
Insertion(s) == [s EXCEPT !.rows = {}, !.known = {}, !.pc = "test.insert"]

Update(s) ==
    [s EXCEPT !.rows = {}, !.known = {}, !.pc = "test.write",
              !.dirty = s.flag # test.isObjective,
              !.flag = s.flag /\ ~test.isObjective,
              !.own = s.own /\ s.flag /\ ~test.isObjective,
              !.status = IF s.status = test.status THEN NULL ELSE s.status]

LEMMA ReloadLeadsOn ==
  ASSUME NEW r \in Requests, req[r] \in Slot, TestReload(r)
  PROVE  Finish(r) \/ Becomes(r, Insertion(req[r])) \/ Becomes(r, Update(req[r]))
BY DEF TestReload, Insertion, Update, Slot

\* What a handler does with an answer of checkIfTestIsObjective.
LEMMA CheckSaysSo ==
  \A answer \in CheckAnswers : /\ answer \in BOOLEAN
                               /\ answer => AllObjective
                               /\ \A Q : (answer /\ Q = {}) \in BOOLEAN
BY DEF CheckAnswers, AllObjective

LEMMA StepKeepsSlots ==
  ASSUME Typed, NEW r \in Requests, Step(r) \/ Abort(r)
  PROVE  req' \in [Requests -> Slot] /\ \A x \in Requests : Form(req'[x])
<1> USE DEF Form, AddStages, CreateStages, StructureStages, SectionStages,
            DropSectionStages, TestStages
<1>0. req[r] \in Slot /\ Form(req[r])
  BY DEF Typed, TypeOK
<1>f. CASE Finish(r)
  BY <1>f, FinishStaysTyped
<1>1. CASE AddFind(r)
  <2> DEFINE new == {q \in req[r].questions \cap bank : RowsOf(q) = {}}
             t == [req[r] EXCEPT !.pc = "add.insert", !.questions = new]
  <2>1. new \in SUBSET Questions
    BY <1>0 DEF Slot
  <2>2. Finish(r) \/ Becomes(r, t)
    BY <1>1 DEF AddFind
  <2>3. t \in Slot /\ Form(t)
    BY <1>0, <1>1, <2>1 DEF AddFind, Slot, Stages
  <2> QED BY <1>f, <2>2, <2>3, SlotsStayTyped
<1>2. CASE AddInsert(r)
  <2> DEFINE t == [req[r] EXCEPT !.pc = "add.check", !.questions = {}]
  <2>1. Finish(r) \/ Becomes(r, t)
    BY <1>2 DEF AddInsert
  <2>2. t \in Slot /\ Form(t)
    BY <1>0, <1>2 DEF AddInsert, Slot, Stages
  <2> QED BY <1>f, <2>1, <2>2, SlotsStayTyped
<1>3. CASE AddCheck(r)
  <2>1. PICK b \in BOOLEAN : Becomes(r, [req[r] EXCEPT !.pc = "add.flag", !.flag = b])
    BY <1>3, CheckSaysSo DEF AddCheck
  <2> DEFINE t == [req[r] EXCEPT !.pc = "add.flag", !.flag = b]
  <2>2. t \in Slot /\ Form(t)
    BY <1>0, <1>3 DEF AddCheck, Slot, Stages
  <2> QED BY <2>1, <2>2, SlotsStayTyped
<1>4. CASE CreateCheck(r)
  <2>1. PICK b \in BOOLEAN : Becomes(r, [req[r] EXCEPT !.pc = "create.flag", !.flag = b])
    BY <1>4, CheckSaysSo DEF CreateCheck
  <2> DEFINE t == [req[r] EXCEPT !.pc = "create.flag", !.flag = b]
  <2>2. t \in Slot /\ Form(t)
    BY <1>0, <1>4 DEF CreateCheck, Slot, Stages
  <2> QED BY <2>1, <2>2, SlotsStayTyped
<1>5. CASE CreateFlag(r)
  <2> DEFINE t == [req[r] EXCEPT !.pc = "create.commit", !.flag = FALSE]
  <2>1. t \in Slot /\ Form(t)
    BY <1>0, <1>5 DEF CreateFlag, Slot, Stages
  <2> QED BY <1>5, <2>1, SlotsStayTyped DEF CreateFlag
<1>6. CASE RemoveAttempts(r) \/ DropSectionAttempts(r) \/ DropTestAttempts(r)
  <2>1. PICK pc \in {"remove.find", "dropSection.rows", "dropTest.rows"} :
           /\ Finish(r) \/ Becomes(r, [req[r] EXCEPT !.pc = pc])
           /\ \/ pc = "remove.find" /\ req[r].pc = "remove.attempts"
              \/ pc = "dropSection.rows" /\ req[r].pc = "dropSection.attempts"
              \/ pc = "dropTest.rows" /\ req[r].pc = "dropTest.attempts"
    BY <1>6 DEF RemoveAttempts, DropSectionAttempts, DropTestAttempts, NoAttempts
  <2> DEFINE t == [req[r] EXCEPT !.pc = pc]
  <2>2. t \in Slot /\ Form(t)
    BY <1>0, <2>1 DEF Slot, Stages
  <2> QED BY <1>f, <2>1, <2>2, SlotsStayTyped
<1>7. CASE RemoveFind(r)
  <2>1. CASE \E x \in Rows : Becomes(r, [req[r] EXCEPT !.pc = "remove.delete", !.questions = {}, !.rows = {x}])
    <3>1. PICK x \in Rows : Becomes(r, [req[r] EXCEPT !.pc = "remove.delete", !.questions = {}, !.rows = {x}])
      BY <2>1
    <3> DEFINE t == [req[r] EXCEPT !.pc = "remove.delete", !.questions = {}, !.rows = {x}]
    <3>2. t \in Slot /\ Form(t)
      BY <1>0, <1>7 DEF RemoveFind, Slot, Stages
    <3> QED BY <3>1, <3>2, SlotsStayTyped
  <2> QED BY <1>f, <1>7, <2>1 DEF RemoveFind, RowsOf, Present
<1>8. CASE StructureCheck(r)
  <2> DEFINE t == [req[r] EXCEPT !.pc = "structure.commit"]
  <2>1. Finish(r) \/ Becomes(r, t)
    BY <1>8 DEF StructureCheck
  <2>2. t \in Slot /\ Form(t)
    BY <1>0, <1>8 DEF StructureCheck, Slot, Stages
  <2> QED BY <1>f, <2>1, <2>2, SlotsStayTyped
<1>9. CASE SectionReload(r)
  <2> DEFINE R == req[r].rows \ RowsIn(req[r].section)
             G == RowsIn(req[r].section) \ req[r].rows
             K == {req[r].section} \cap Existing
             st == IF sections[req[r].section] = req[r].status THEN NULL ELSE req[r].status
             t == [req[r] EXCEPT !.pc = "section.write", !.rows = R, !.gone = G, !.known = K,
                                 !.status = st]
  <2>1. /\ R \in SUBSET Rows /\ G \in SUBSET Rows /\ K \in SUBSET Sections
        /\ st \in SectionStatus \cup {NULL}
    BY <1>0, <1>9 DEF Slot, RowsIn, Present, Existing, SectionReload
  <2>2. Becomes(r, t)
    BY <1>0, <1>9 DEF SectionReload, Slot
  <2> HIDE DEF R, G, K, st
  <2>3. t \in Slot /\ Form(t)
    BY <1>0, <1>9, <2>1 DEF SectionReload, Slot, Stages
  <2> QED BY <2>2, <2>3, SlotsStayTyped
<1>10. CASE DropSectionRows(r)
  <2> DEFINE t == [req[r] EXCEPT !.pc = "dropSection.section"]
  <2>1. t \in Slot /\ Form(t)
    BY <1>0, <1>10 DEF DropSectionRows, Slot, Stages
  <2> QED BY <1>10, <2>1, SlotsStayTyped DEF DropSectionRows
<1>11. CASE TestReload(r)
  <2>1. CASE Becomes(r, Insertion(req[r]))
    <3>1. Insertion(req[r]) \in Slot /\ Form(Insertion(req[r]))
      BY <1>0, <1>11 DEF Insertion, TestReload, Slot, Stages
    <3> QED BY <2>1, <3>1, SlotsStayTyped
  <2>2. CASE Becomes(r, Update(req[r]))
    <3> DEFINE changes == req[r].flag # test.isObjective
               claims == req[r].flag /\ ~test.isObjective
               own == req[r].own /\ claims
               st == IF req[r].status = test.status THEN NULL ELSE req[r].status
               t == [req[r] EXCEPT !.rows = {}, !.known = {}, !.pc = "test.write",
                        !.dirty = changes, !.flag = claims, !.own = own, !.status = st]
    <3>1. Update(req[r]) = t
      BY <1>0 DEF Update, Slot
    <3>2. changes \in BOOLEAN /\ claims \in BOOLEAN /\ own \in BOOLEAN
      BY <1>0 DEF Slot
    <3>3. st \in TestStatus \cup {NULL}
      BY <1>0, <1>11 DEF TestReload
    <3> HIDE DEF changes, claims, own, st
    <3>a. req[r].pc = "test.reload"
      BY <1>11 DEF TestReload
    <3>4. t \in Slot
      BY <1>0, <3>2, <3>3 DEF Slot, Stages
    <3>5. t.pc = "test.write" /\ t.kind = req[r].kind /\ t.status = st
      BY <1>0 DEF Slot
    <3>6. req[r].kind = "test"
      BY <1>0, <3>a
    <3> HIDE DEF t
    <3>7. Form(t)
      BY <3>3, <3>5, <3>6
    <3> QED BY <2>2, <3>1, <3>4, <3>7, SlotsStayTyped
  <2> QED BY <1>0, <1>f, <1>11, <2>1, <2>2, ReloadLeadsOn
<1>12. CASE DropTestRows(r)
  <2> DEFINE t == [req[r] EXCEPT !.pc = "dropTest.archive"]
  <2>1. t \in Slot /\ Form(t)
    BY <1>0, <1>12 DEF DropTestRows, Slot, Stages
  <2> QED BY <1>12, <2>1, SlotsStayTyped DEF DropTestRows
<1> QED
  BY <1>f, <1>1, <1>2, <1>3, <1>4, <1>5, <1>6, <1>7, <1>8, <1>9, <1>10, <1>11, <1>12
  DEF Step, Abort, AddFlag, CreateCommit, RemoveDelete, StructureCommit, NewSectionSave,
      SectionWrite, DropSection, TestWrite, TestInsert, DropTest

-----------------------------------------------------------------------------
(***************************************************************************)
(* What a step does to the rows: it inserts some, or each row is kept with *)
(* its question, if not with its section, or goes.                         *)
(***************************************************************************)
Moved(x) ==
    /\ x \in Present
    /\ testQuestions'[x] \in TestQuestion
    /\ testQuestions'[x].question = testQuestions[x].question

Shrinks ==
    \A x \in Rows : testQuestions'[x] = testQuestions[x] \/ testQuestions'[x] = NULL \/ Moved(x)

LEMMA StructureMoves ==
  ASSUME Typed, NEW r \in Requests, StructureCommit(r)
  PROVE  /\ testQuestions' \in [Rows -> TestQuestion \cup {NULL}]
         /\ \A x \in Rows : \/ testQuestions'[x] = testQuestions[x]
                            \/ Moved(x) /\ testQuestions'[x].section \in Sections
<1> DEFINE layout == req[r].layout
           placed == UNION {RowsOf(q) : q \in DOMAIN layout}
           place(row) == [row EXCEPT !.section = layout[row.question]]
<1>1. layout \in Layouts
  BY DEF Typed, TypeOK, Slot
<1>2. PICK S \in SUBSET Questions : layout \in [S -> Sections]
  BY <1>1 DEF Layouts
<1>3. \A x \in placed : /\ x \in Present
                        /\ testQuestions[x] \in TestQuestion
                        /\ testQuestions[x].question \in S
                        /\ layout[testQuestions[x].question] \in Sections
  BY <1>2 DEF RowsOf, Present, Typed, TypeOK
<1>4. UNCHANGED testQuestions
      \/ testQuestions' = [x \in Rows |-> IF x \in placed THEN place(testQuestions[x])
                                                          ELSE testQuestions[x]]
  BY DEF StructureCommit, ChangeRows
<1>5. \A x \in placed : /\ place(testQuestions[x]) \in TestQuestion
                        /\ place(testQuestions[x]).question = testQuestions[x].question
                        /\ place(testQuestions[x]).section \in Sections
  BY <1>3 DEF TestQuestion
<1> HIDE DEF placed, place, layout
<1> QED BY <1>3, <1>4, <1>5 DEF Moved, Typed, TypeOK

LEMMA SectionMoves ==
  ASSUME Typed, NEW r \in Requests, SectionWrite(r)
  PROVE  /\ testQuestions' \in [Rows -> TestQuestion \cup {NULL}]
         /\ \A x \in Rows :
               \/ testQuestions'[x] = testQuestions[x]
               \/ /\ Moved(x)
                  /\ \/ x \in req[r].rows /\ testQuestions'[x].section = req[r].section
                     \/ x \in req[r].gone
<1> DEFINE s == req[r].section
           attached == req[r].rows \cap Present
           place(x) == IF x \in attached THEN [testQuestions[x] EXCEPT !.section = s]
                       ELSE IF x \in req[r].gone \cap Present
                       THEN [testQuestions[x] EXCEPT !.section = NULL]
                       ELSE testQuestions[x]
<1>1. s \in Sections
  BY DEF Typed, TypeOK, Form, SectionWrite, SectionStages
<1>2. UNCHANGED testQuestions \/ testQuestions' = [x \in Rows |-> place(x)]
  BY DEF SectionWrite
<1>3. \A x \in Present : x \in Rows /\ testQuestions[x] \in TestQuestion
  BY DEF Present, Typed, TypeOK
<1>4. \A x \in Rows :
         \/ place(x) = testQuestions[x]
         \/ /\ x \in Present
            /\ place(x) \in TestQuestion
            /\ place(x).question = testQuestions[x].question
            /\ \/ x \in req[r].rows /\ place(x).section = s
               \/ x \in req[r].gone
  <2> SUFFICES ASSUME NEW x \in Rows
               PROVE  \/ place(x) = testQuestions[x]
                      \/ /\ x \in Present
                         /\ place(x) \in TestQuestion
                         /\ place(x).question = testQuestions[x].question
                         /\ \/ x \in req[r].rows /\ place(x).section = s
                            \/ x \in req[r].gone
    OBVIOUS
  <2>1. CASE x \in attached
    BY <1>1, <1>3, <2>1 DEF TestQuestion
  <2>2. CASE x \notin attached /\ x \in req[r].gone \cap Present
    BY <1>1, <1>3, <2>2 DEF TestQuestion
  <2> QED BY <2>1, <2>2
<1> HIDE DEF place, s
<1>5. CASE UNCHANGED testQuestions
  BY <1>5 DEF Typed, TypeOK
<1>6. CASE testQuestions' = [x \in Rows |-> place(x)]
  <2>1. \A x \in Rows : testQuestions'[x] = place(x)
    BY <1>6
  <2>2. \A x \in Rows : place(x) \in TestQuestion \cup {NULL}
    BY <1>4 DEF Typed, TypeOK
  <2>3. testQuestions' \in [Rows -> TestQuestion \cup {NULL}]
    BY <1>6, <2>2
  <2> QED BY <1>4, <2>1, <2>3 DEF Moved, s
<1> QED BY <1>2, <1>5, <1>6

Inserts(r) ==
    /\ req[r].pc \in {"add.insert", "create.commit"}
    /\ req[r].section \in Sections
    /\ req[r].questions \in SUBSET Questions
    /\ InsertRows(req[r].section, req[r].questions)

LEMMA RowsStep ==
  ASSUME Typed, NEW r \in Requests, Step(r)
  PROVE  /\ testQuestions' \in [Rows -> TestQuestion \cup {NULL}]
         /\ Shrinks \/ Inserts(r)
<1>0. req[r] \in Slot /\ Form(req[r])
  BY DEF Typed, TypeOK
<1>1. CASE UNCHANGED testQuestions
  BY <1>1 DEF Typed, TypeOK, Shrinks
<1>2. CASE AddInsert(r) \/ CreateCommit(r)
  <2>1. UNCHANGED testQuestions \/ InsertRows(req[r].section, req[r].questions)
    BY <1>2 DEF AddInsert, CreateCommit
  <2>2. req[r].pc \in {"add.insert", "create.commit"}
    BY <1>2 DEF AddInsert, CreateCommit
  <2>3. req[r].section \in Sections /\ req[r].questions \in SUBSET Questions
    BY <1>0, <2>2 DEF Slot, Form, AddStages, CreateStages
  <2>4. CASE InsertRows(req[r].section, req[r].questions)
    BY <2>2, <2>3, <2>4, InsertedRows DEF Inserts, Typed
  <2> QED BY <1>1, <2>1, <2>4
<1>3. CASE RemoveDelete(r) \/ DropSectionRows(r) \/ DropTestRows(r)
  <2>1. PICK R \in SUBSET Rows : DeleteRows(R)
    BY <1>0, <1>3 DEF RemoveDelete, DropSectionRows, DropTestRows, Slot, RowsIn, Present
  <2> QED BY <2>1, DeletedRows DEF Typed, Shrinks
<1>4. CASE StructureCommit(r)
  BY <1>4, StructureMoves DEF Shrinks
<1>5. CASE SectionWrite(r)
  BY <1>5, SectionMoves DEF Shrinks
<1> QED
  BY <1>1, <1>2, <1>3, <1>4, <1>5
  DEF Step, paper, AddFind, AddCheck, AddFlag, CreateCheck, CreateFlag, RemoveAttempts,
      RemoveFind, StructureCheck, NewSectionSave, SectionReload, DropSectionAttempts,
      DropSection, TestReload, TestWrite, TestInsert, DropTestAttempts, DropTest,
      NoAttempts

LEMMA TablesStep ==
  ASSUME Typed, NEW r \in Requests, Step(r)
  PROVE  /\ test' \in TestRow
         /\ sections' \in [Sections -> SectionStatus]
         /\ bank' \in SUBSET Questions
         /\ attempted' \in BOOLEAN
         /\ unchecked' \in BOOLEAN
<1>0. req[r] \in Slot /\ Form(req[r]) /\ TypeOK
  BY DEF Typed, TypeOK
<1>1. test' \in TestRow
  <2>1. CASE UNCHANGED test
    BY <1>0, <2>1 DEF TypeOK
  <2>2. CASE AddFlag(r) \/ CreateFlag(r)
    <3>1. test' = [test EXCEPT !.isObjective = req[r].flag] /\ req[r].flag \in BOOLEAN
      BY <1>0, <2>2 DEF AddFlag, CreateFlag, Slot
    <3> QED BY <1>0, <3>1 DEF TypeOK, TestRow
  <2>3. CASE TestWrite(r)
    <3> DEFINE st == IF req[r].status = NULL THEN test.status ELSE req[r].status
               fl == IF req[r].dirty THEN req[r].flag ELSE test.isObjective
    <3>1. st \in TestStatus /\ fl \in BOOLEAN
      BY <1>0, <2>3 DEF TestWrite, Form, TestStages, Slot, TypeOK, TestRow
    <3>2. UNCHANGED test \/ test' = [status |-> st, isObjective |-> fl]
      BY <2>3 DEF TestWrite
    <3> QED BY <1>0, <3>1, <3>2 DEF TypeOK, TestRow
  <2>4. CASE DropTest(r)
    <3>1. UNCHANGED test \/ \E st \in TestStatus : test' = [test EXCEPT !.status = st]
      BY <2>4 DEF DropTest, TestStatus
    <3> QED BY <1>0, <3>1 DEF TypeOK, TestRow
  <2>5. CASE TestInsert(r)
    <3>1. req[r].status \in TestStatus /\ req[r].flag \in BOOLEAN
      BY <1>0, <2>5 DEF TestInsert, Form, Slot
    <3> QED BY <1>0, <2>5, <3>1 DEF TestInsert, TypeOK, TestRow
  <2> QED
    BY <2>1, <2>2, <2>3, <2>4, <2>5
    DEF Step, AddFind, AddInsert, AddCheck, CreateCheck, CreateCommit, RemoveAttempts,
        RemoveFind, RemoveDelete, StructureCheck, StructureCommit, NewSectionSave,
        SectionReload, SectionWrite, DropSectionAttempts, DropSectionRows, DropSection,
        TestReload, DropTestAttempts, DropTestRows, NoAttempts
<1>2. sections' \in [Sections -> SectionStatus]
  <2>1. CASE UNCHANGED sections
    BY <1>0, <2>1 DEF TypeOK
  <2>2. CASE NewSectionSave(r) \/ SectionWrite(r) \/ DropSection(r)
    <3>1. UNCHANGED sections \/ \E st \in SectionStatus :
             sections' = [sections EXCEPT ![req[r].section] = st]
      BY <1>0, <2>2 DEF NewSectionSave, SectionWrite, DropSection, SectionStatus, Form, SectionStages
    <3> QED BY <1>0, <3>1 DEF TypeOK
  <2>3. CASE DropTest(r)
    BY <1>0, <2>3 DEF DropTest, TypeOK, SectionStatus
  <2> QED
    BY <2>1, <2>2, <2>3
    DEF Step, paper, AddFind, AddInsert, AddCheck, AddFlag, CreateCheck, CreateFlag,
        CreateCommit, RemoveAttempts, RemoveFind, RemoveDelete, StructureCheck,
        StructureCommit, SectionReload, DropSectionAttempts, DropSectionRows,
        TestReload, TestWrite, TestInsert, DropTestAttempts, DropTestRows, NoAttempts
<1>3. bank' \in SUBSET Questions
  <2>1. UNCHANGED bank \/ bank' = bank \cup req[r].questions
    BY DEF Step, AddFind, AddInsert, AddCheck, AddFlag, CreateCheck, CreateFlag,
        CreateCommit, RemoveAttempts, RemoveFind, RemoveDelete, StructureCheck,
        StructureCommit, NewSectionSave, SectionReload, SectionWrite, DropSectionAttempts,
        DropSectionRows, DropSection, TestReload, TestWrite, TestInsert, DropTestAttempts, DropTestRows,
        DropTest, NoAttempts
  <2> QED BY <1>0, <2>1 DEF TypeOK, Slot
<1>4. UNCHANGED attempted
  BY DEF Step, AddFind, AddInsert, AddCheck, AddFlag, CreateCheck, CreateFlag,
      CreateCommit, RemoveAttempts, RemoveFind, RemoveDelete, StructureCheck,
      StructureCommit, NewSectionSave, SectionReload, SectionWrite, DropSectionAttempts,
      DropSectionRows, DropSection, TestReload, TestWrite, TestInsert, DropTestAttempts, DropTestRows,
      DropTest, NoAttempts
<1>5. unchecked' \in BOOLEAN
  <2>1. UNCHANGED unchecked \/ unchecked' = FALSE \/ unchecked' = (unchecked \/ req[r].own)
    BY DEF Step, AddFind, AddInsert, AddCheck, AddFlag, CreateCheck, CreateFlag,
        CreateCommit, RemoveAttempts, RemoveFind, RemoveDelete, StructureCheck,
        StructureCommit, NewSectionSave, SectionReload, SectionWrite, DropSectionAttempts,
        DropSectionRows, DropSection, TestReload, TestWrite, TestInsert, DropTestAttempts, DropTestRows,
        DropTest, NoAttempts
  <2> QED BY <1>0, <2>1 DEF TypeOK, Slot
<1> QED BY <1>0, <1>1, <1>2, <1>3, <1>4, <1>5 DEF TypeOK

\* A request that begins or fails changes nothing of the tables.
LEMMA BeginKeepsTables ==
  ASSUME NEW r \in Requests, Begin(r) \/ Abort(r)
  PROVE  /\ UNCHANGED <<test, sections, testQuestions, bank, attempted>>
         /\ Begin(r) => UNCHANGED unchecked
BY DEF Begin, Abort, paper, AddBegin, CreateBegin, RemoveBegin, StructureBegin, NewSectionBegin,
       SectionBegin, DropSectionBegin, TestBegin, DropTestBegin

LEMMA StaysTyped ==
  ASSUME Typed, NEW r \in Requests, Begin(r) \/ Abort(r)
  PROVE  unchecked' \in BOOLEAN
BY DEF Begin, Abort, Typed, TypeOK, AddBegin, CreateBegin, RemoveBegin, StructureBegin,
       NewSectionBegin, SectionBegin, DropSectionBegin, TestBegin, DropTestBegin

LEMMA TypedInit == Init => Typed
<1> SUFFICES ASSUME Init PROVE Typed
  OBVIOUS
<1>1. test \in TestRow
  BY DEF Init, TestRow, TestStatus
<1>2. sections \in [Sections -> SectionStatus]
  BY DEF Init, SectionStatus
<1>3. req \in [Requests -> Slot] /\ \A r \in Requests : Form(req[r])
  BY IdleSlotIsTyped DEF Init
<1> QED BY <1>1, <1>2, <1>3 DEF Init, Typed, TypeOK

LEMMA TypedStep == Typed /\ [Next]_vars => Typed'
<1> SUFFICES ASSUME Typed, [Next]_vars PROVE Typed'
  OBVIOUS
<1>1. CASE UNCHANGED vars
  BY <1>1 DEF vars, Typed, TypeOK
<1>2. ASSUME NEW r \in Requests, Begin(r) \/ Abort(r)
      PROVE  Typed'
  BY <1>2, BeginKeepsTables, BeginKeepsSlots, StepKeepsSlots, StaysTyped DEF Typed, TypeOK
<1>3. ASSUME NEW r \in Requests, Step(r)
      PROVE  Typed'
  BY <1>3, TablesStep, RowsStep, StepKeepsSlots DEF Typed, TypeOK
<1>4. CASE AttemptStarts
  BY <1>4 DEF AttemptStarts, paper, Typed, TypeOK
<1> QED BY <1>1, <1>2, <1>3, <1>4 DEF Next

LEMMA AlwaysTyped == Spec => []Typed
BY TypedInit, TypedStep, PTL DEF Spec

\* The tables and the request slots keep their types: a save, a detachment or a
\* move of a row leaves a row of the table.
THEOREM TypeCorrect == Spec => []TypeOK
<1>1. Typed => TypeOK
  BY DEF Typed
<1> QED BY <1>1, AlwaysTyped, PTL

-----------------------------------------------------------------------------
(***************************************************************************)
(* Who is in flight with whom, and from which step each stage comes.       *)
(***************************************************************************)
Apart ==
    \A r, s \in Requests :
        r # s /\ req[r].pc # "idle" /\ req[s].pc # "idle"
            => {req[r].kind, req[s].kind} \in Overlap

FirstStages == {"add.find", "create.check", "remove.attempts", "structure.check",
                "newSection.save", "section.reload", "dropSection.attempts",
                "test.reload", "dropTest.attempts"}

\* How the request of a slot has just begun.
Begun(r) ==
    /\ req[r].pc = "idle"
    /\ req'[r].pc \in FirstStages
    /\ \A s \in Requests : req[s].pc # "idle" => {req'[r].kind, req[s].kind} \in Overlap
    /\ req'[r].pc = "create.check" => req'[r].questions \cap bank = {}
    /\ req'[r].pc = "section.reload" => req'[r].rows = RowsIn(req'[r].section)
    /\ req'[r].pc = "test.reload" => (req'[r].flag => test.isObjective \/ req'[r].own)

LEMMA BeginsWith ==
  ASSUME Typed, NEW r \in Requests, NEW k, NEW s \in Slot, Begins(r, k, s)
  PROVE  /\ req[r].pc = "idle"
         /\ \A x \in Requests : x # r => req'[x] = req[x]
         /\ \A x \in Requests : req[x].pc # "idle" => {k, req[x].kind} \in Overlap
         /\ req'[r] = [s EXCEPT !.kind = k]
BY DEF Begins, MayBegin, Typed, TypeOK

LEMMA HowItBegan ==
  ASSUME Typed, NEW r \in Requests, Begin(r)
  PROVE  Begun(r) /\ \A x \in Requests : x # r => req'[x] = req[x]
<1> DEFINE P == Begun(r) /\ \A x \in Requests : x # r => req'[x] = req[x]
<1> SUFFICES P
  OBVIOUS
<1>0. IdleSlot \in Slot
  BY IdleSlotIsTyped
<1>1. ASSUME NEW s \in Sections, NEW Q \in SUBSET Questions, NEW k \in {"add", "bulk"},
             AddBegin(r, k, s, Q)
      PROVE  P
  <2> DEFINE t == [IdleSlot EXCEPT !.pc = "add.find", !.section = s, !.questions = Q]
  <2>1. t \in Slot /\ Begins(r, k, t)
    BY <1>0, <1>1 DEF AddBegin, Slot, Stages
  <2> DEFINE u == [t EXCEPT !.kind = k]
  <2>2. u.pc = "add.find" /\ u.kind = k
    BY DEF IdleSlot
  <2> HIDE DEF t
  <2>3. req'[r] = u
    BY <2>1, BeginsWith
  <2> HIDE DEF u
  <2> QED BY <2>1, <2>2, <2>3, BeginsWith DEF Begun, FirstStages
<1>2. ASSUME NEW s \in Sections, NEW q \in Questions, CreateBegin(r, s, q)
      PROVE  P
  <2> DEFINE t == [IdleSlot EXCEPT !.pc = "create.check", !.section = s, !.questions = {q}]
             u == [t EXCEPT !.kind = "create"]
  <2>1. t \in Slot /\ Begins(r, "create", t)
    BY <1>0, <1>2 DEF CreateBegin, Slot, Stages
  <2>2. u.pc = "create.check" /\ u.kind = "create" /\ u.questions = {q}
    BY DEF IdleSlot
  <2>3. q \notin bank
    BY <1>2 DEF CreateBegin
  <2> HIDE DEF t
  <2>4. req'[r] = u
    BY <2>1, BeginsWith
  <2> HIDE DEF u
  <2> QED BY <2>1, <2>2, <2>3, <2>4, BeginsWith DEF Begun, FirstStages
<1>3. ASSUME NEW q \in Questions, RemoveBegin(r, q)
      PROVE  P
  <2> DEFINE t == [IdleSlot EXCEPT !.pc = "remove.attempts", !.questions = {q}]
  <2>1. t \in Slot /\ Begins(r, "remove", t)
    BY <1>0, <1>3 DEF RemoveBegin, Slot, Stages
  <2> DEFINE u == [t EXCEPT !.kind = "remove"]
  <2>2. u.pc = "remove.attempts" /\ u.kind = "remove"
    BY DEF IdleSlot
  <2> HIDE DEF t
  <2>3. req'[r] = u
    BY <2>1, BeginsWith
  <2> HIDE DEF u
  <2> QED BY <2>1, <2>2, <2>3, BeginsWith DEF Begun, FirstStages
<1>4. ASSUME NEW layout \in Layouts, StructureBegin(r, layout)
      PROVE  P
  <2> DEFINE t == [IdleSlot EXCEPT !.pc = "structure.check", !.layout = layout]
  <2>1. t \in Slot /\ Begins(r, "structure", t)
    BY <1>0, <1>4 DEF StructureBegin, Slot, Stages
  <2> DEFINE u == [t EXCEPT !.kind = "structure"]
  <2>2. u.pc = "structure.check" /\ u.kind = "structure"
    BY DEF IdleSlot
  <2> HIDE DEF t
  <2>3. req'[r] = u
    BY <2>1, BeginsWith
  <2> HIDE DEF u
  <2> QED BY <2>1, <2>2, <2>3, BeginsWith DEF Begun, FirstStages
<1>5. ASSUME NEW s \in Sections, NewSectionBegin(r, s)
      PROVE  P
  <2> DEFINE t == [IdleSlot EXCEPT !.pc = "newSection.save", !.section = s]
  <2>1. t \in Slot /\ Begins(r, "newSection", t)
    BY <1>0, <1>5 DEF NewSectionBegin, Slot, Stages
  <2> DEFINE u == [t EXCEPT !.kind = "newSection"]
  <2>2. u.pc = "newSection.save" /\ u.kind = "newSection"
    BY DEF IdleSlot
  <2> HIDE DEF t
  <2>3. req'[r] = u
    BY <2>1, BeginsWith
  <2> HIDE DEF u
  <2> QED BY <2>1, <2>2, <2>3, BeginsWith DEF Begun, FirstStages
<1>6. ASSUME NEW s \in Sections, DropSectionBegin(r, s)
      PROVE  P
  <2> DEFINE t == [IdleSlot EXCEPT !.pc = "dropSection.attempts", !.section = s]
  <2>1. t \in Slot /\ Begins(r, "dropSection", t)
    BY <1>0, <1>6 DEF DropSectionBegin, Slot, Stages
  <2> DEFINE u == [t EXCEPT !.kind = "dropSection"]
  <2>2. u.pc = "dropSection.attempts" /\ u.kind = "dropSection"
    BY DEF IdleSlot
  <2> HIDE DEF t
  <2>3. req'[r] = u
    BY <2>1, BeginsWith
  <2> HIDE DEF u
  <2> QED BY <2>1, <2>2, <2>3, BeginsWith DEF Begun, FirstStages
<1>7. ASSUME NEW s \in Sections, NEW status \in {"live", "archived"}, SectionBegin(r, s, status)
      PROVE  P
  <2> DEFINE R == RowsIn(s)
             t == [IdleSlot EXCEPT !.pc = "section.reload", !.section = s,
                                   !.status = status, !.rows = R]
             u == [t EXCEPT !.kind = "section"]
  <2>1. R \in SUBSET Rows /\ Begins(r, "section", t)
    BY <1>7 DEF RowsIn, Present, SectionBegin
  <2>2. u.rows = R /\ u.section = s /\ u.pc = "section.reload" /\ u.kind = "section"
    BY DEF IdleSlot
  <2>3. R = RowsIn(s)
    OBVIOUS
  <2> HIDE DEF R
  <2>4. t \in Slot
    BY <1>0, <2>1 DEF Slot, Stages, SectionStatus
  <2> HIDE DEF t
  <2>5. req'[r] = u
    BY <2>1, <2>4, BeginsWith
  <2> HIDE DEF u
  <2> QED BY <2>1, <2>2, <2>3, <2>4, <2>5, BeginsWith DEF Begun, FirstStages
<1>8. ASSUME NEW body \in Bodies, TestBegin(r, body)
      PROVE  P
  <2> DEFINE R == Present
             K == Existing
             status == IF body.status = NULL THEN test.status ELSE body.status
             flag == IF body.isObjective = NULL THEN test.isObjective ELSE body.isObjective
             own == flag /\ ~test.isObjective
             t == [IdleSlot EXCEPT !.pc = "test.reload", !.status = status,
                      !.rows = R, !.known = K, !.flag = flag, !.own = own]
             u == [t EXCEPT !.kind = "test"]
  <2>0. status \in TestStatus /\ flag \in BOOLEAN
    BY <1>0, UpdatesAreWhole
  <2>1. /\ R \in SUBSET Rows /\ K \in SUBSET Sections /\ own \in BOOLEAN
        /\ Begins(r, "test", t)
    BY <1>8, <1>0 DEF Present, Existing, Typed, TypeOK, TestRow, TestBegin
  <2>2. u.flag = flag /\ u.own = own /\ u.pc = "test.reload" /\ u.kind = "test"
    BY DEF IdleSlot
  <2>3. flag => test.isObjective \/ own
    OBVIOUS
  <2> HIDE DEF R, K, own, status, flag
  <2>4. t \in Slot
    BY <1>0, <2>0, <2>1 DEF Slot, Stages
  <2> HIDE DEF t
  <2>5. req'[r] = u
    BY <2>1, <2>4, BeginsWith
  <2> HIDE DEF u
  <2> QED BY <2>1, <2>2, <2>3, <2>4, <2>5, BeginsWith DEF Begun, FirstStages
<1>9. ASSUME DropTestBegin(r)
      PROVE  P
  <2> DEFINE t == [IdleSlot EXCEPT !.pc = "dropTest.attempts"]
  <2>1. t \in Slot /\ Begins(r, "dropTest", t)
    BY <1>0, <1>9 DEF DropTestBegin, Slot, Stages
  <2> DEFINE u == [t EXCEPT !.kind = "dropTest"]
  <2>2. u.pc = "dropTest.attempts" /\ u.kind = "dropTest"
    BY DEF IdleSlot
  <2> HIDE DEF t
  <2>3. req'[r] = u
    BY <2>1, BeginsWith
  <2> HIDE DEF u
  <2> QED BY <2>1, <2>2, <2>3, BeginsWith DEF Begun, FirstStages
<1> HIDE DEF P
<1> QED
  BY <1>1, <1>2, <1>3, <1>4, <1>5, <1>6, <1>7, <1>8, <1>9 DEF Begin

\* How a request goes on: it ends or keeps its kind, and each stage but the first
\* comes from one step.
WentOn(r) ==
    /\ req[r].pc # "idle"
    /\ req'[r].pc # "idle" => req'[r].kind = req[r].kind
    /\ req'[r].pc \notin FirstStages
    /\ req'[r].pc = "add.insert" => AddFind(r)
    /\ req'[r].pc = "add.check" => AddInsert(r)
    /\ req'[r].pc = "add.flag" => AddCheck(r)
    /\ req'[r].pc = "create.flag" => CreateCheck(r)
    /\ req'[r].pc = "create.commit" => CreateFlag(r)
    /\ req'[r].pc = "structure.commit" => StructureCheck(r)
    /\ req'[r].pc = "section.write" => SectionReload(r)
    /\ req'[r].pc = "remove.find" => RemoveAttempts(r) /\ ~attempted
    /\ req'[r].pc = "remove.delete" => RemoveFind(r)
    /\ req'[r].pc = "dropSection.rows" => DropSectionAttempts(r) /\ ~attempted
    /\ req'[r].pc = "dropTest.rows" => DropTestAttempts(r) /\ ~attempted
    /\ req'[r].pc \in {"test.write", "test.insert"} => TestReload(r)

LEMMA HowItWentOn ==
  ASSUME Typed, NEW r \in Requests, Step(r) \/ Abort(r)
  PROVE  WentOn(r) /\ \A x \in Requests : x # r => req'[x] = req[x]
<1>0. req[r] \in Slot /\ req \in [Requests -> Slot]
  BY DEF Typed, TypeOK
<1>a. ASSUME NEW t, Becomes(r, t)
      PROVE  req'[r] = t /\ \A x \in Requests : x # r => req'[x] = req[x]
  BY <1>0, <1>a DEF Becomes
<1>1. CASE Finish(r) /\ req[r].pc # "idle"
  <2>1. req'[r].pc = "idle"
    BY <1>a, <1>1 DEF Finish, IdleSlot
  <2> QED BY <1>a, <1>1, <2>1 DEF WentOn, FirstStages, Finish
<1>2. CASE AddFind(r)
  <2>1. PICK Q : \/ Finish(r)
                 \/ Becomes(r, [req[r] EXCEPT !.pc = "add.insert", !.questions = Q])
    BY <1>2 DEF AddFind
  <2>2. req[r].pc = "add.find"
    BY <1>2 DEF AddFind
  <2> DEFINE t == [req[r] EXCEPT !.pc = "add.insert", !.questions = Q]
  <2>3. t.pc = "add.insert" /\ t.kind = req[r].kind
    BY <1>0 DEF Slot
  <2> HIDE DEF t
  <2> QED BY <1>a, <1>1, <1>2, <2>1, <2>2, <2>3 DEF WentOn, FirstStages, t
<1>3. CASE AddInsert(r)
  <2> DEFINE t == [req[r] EXCEPT !.pc = "add.check", !.questions = {}]
  <2>1. (Finish(r) \/ Becomes(r, t)) /\ req[r].pc = "add.insert"
    BY <1>3 DEF AddInsert
  <2>2. t.pc = "add.check" /\ t.kind = req[r].kind
    BY <1>0 DEF Slot
  <2> HIDE DEF t
  <2> QED BY <1>a, <1>1, <1>3, <2>1, <2>2 DEF WentOn, FirstStages
<1>4. CASE AddCheck(r)
  <2>0. PICK b : Becomes(r, [req[r] EXCEPT !.pc = "add.flag", !.flag = b])
    BY <1>4 DEF AddCheck
  <2> DEFINE t == [req[r] EXCEPT !.pc = "add.flag", !.flag = b]
  <2>1. Becomes(r, t) /\ req[r].pc = "add.check"
    BY <1>4, <2>0 DEF AddCheck
  <2>2. t.pc = "add.flag" /\ t.kind = req[r].kind
    BY <1>0 DEF Slot
  <2> HIDE DEF t
  <2> QED BY <1>a, <1>4, <2>1, <2>2 DEF WentOn, FirstStages
<1>5. CASE CreateCheck(r)
  <2>0. PICK b : Becomes(r, [req[r] EXCEPT !.pc = "create.flag", !.flag = b])
    BY <1>5 DEF CreateCheck
  <2> DEFINE t == [req[r] EXCEPT !.pc = "create.flag", !.flag = b]
  <2>1. Becomes(r, t) /\ req[r].pc = "create.check"
    BY <1>5, <2>0 DEF CreateCheck
  <2>2. t.pc = "create.flag" /\ t.kind = req[r].kind
    BY <1>0 DEF Slot
  <2> HIDE DEF t
  <2> QED BY <1>a, <1>5, <2>1, <2>2 DEF WentOn, FirstStages
<1>6. CASE CreateFlag(r)
  <2> DEFINE t == [req[r] EXCEPT !.pc = "create.commit", !.flag = FALSE]
  <2>1. Becomes(r, t) /\ req[r].pc = "create.flag"
    BY <1>6 DEF CreateFlag
  <2>2. t.pc = "create.commit" /\ t.kind = req[r].kind
    BY <1>0 DEF Slot
  <2> HIDE DEF t
  <2> QED BY <1>a, <1>6, <2>1, <2>2 DEF WentOn, FirstStages
<1>7. ASSUME NEW at, NEW pc, NoAttempts(r, at, pc)
      PROVE  /\ req[r].pc = at
             /\ Finish(r) \/ (req'[r].pc = pc /\ req'[r].kind = req[r].kind /\ ~attempted)
             /\ \A x \in Requests : x # r => req'[x] = req[x]
  <2> DEFINE t == [req[r] EXCEPT !.pc = pc]
  <2>1. (Finish(r) \/ (Becomes(r, t) /\ ~attempted)) /\ req[r].pc = at
    BY <1>7 DEF NoAttempts
  <2>2. t.pc = pc /\ t.kind = req[r].kind
    BY <1>0 DEF Slot
  <2> HIDE DEF t
  <2> QED BY <1>a, <2>1, <2>2 DEF Finish
<1>8. CASE RemoveAttempts(r)
  BY <1>1, <1>7, <1>8 DEF WentOn, FirstStages, RemoveAttempts
<1>9. CASE DropSectionAttempts(r)
  BY <1>1, <1>7, <1>9 DEF WentOn, FirstStages, DropSectionAttempts
<1>10. CASE DropTestAttempts(r)
  BY <1>1, <1>7, <1>10 DEF WentOn, FirstStages, DropTestAttempts
<1>11. CASE RemoveFind(r)
  <2>1. PICK R : Finish(r) \/ Becomes(r, [req[r] EXCEPT !.pc = "remove.delete", !.questions = {}, !.rows = R])
    BY <1>11 DEF RemoveFind
  <2>2. req[r].pc = "remove.find"
    BY <1>11 DEF RemoveFind
  <2> DEFINE t == [req[r] EXCEPT !.pc = "remove.delete", !.questions = {}, !.rows = R]
  <2>3. t.pc = "remove.delete" /\ t.kind = req[r].kind
    BY <1>0 DEF Slot
  <2> HIDE DEF t
  <2> QED BY <1>a, <1>1, <1>11, <2>1, <2>2, <2>3 DEF WentOn, FirstStages, t
<1>12. CASE StructureCheck(r)
  <2> DEFINE t == [req[r] EXCEPT !.pc = "structure.commit"]
  <2>1. (Finish(r) \/ Becomes(r, t)) /\ req[r].pc = "structure.check"
    BY <1>12 DEF StructureCheck
  <2>2. t.pc = "structure.commit" /\ t.kind = req[r].kind
    BY <1>0 DEF Slot
  <2> HIDE DEF t
  <2> QED BY <1>a, <1>1, <1>12, <2>1, <2>2 DEF WentOn, FirstStages
<1>13. CASE SectionReload(r)
  <2> DEFINE R == req[r].rows \ RowsIn(req[r].section)
             G == RowsIn(req[r].section) \ req[r].rows
             K == {req[r].section} \cap Existing
             st == IF sections[req[r].section] = req[r].status THEN NULL ELSE req[r].status
             t == [req[r] EXCEPT !.pc = "section.write", !.rows = R, !.gone = G, !.known = K,
                                 !.status = st]
  <2>1. Becomes(r, t) /\ req[r].pc = "section.reload"
    BY <1>0, <1>13 DEF SectionReload, Slot
  <2> HIDE DEF R, G, K, st
  <2>2. t.pc = "section.write" /\ t.kind = req[r].kind
    BY <1>0 DEF Slot
  <2> HIDE DEF t
  <2> QED BY <1>a, <1>13, <2>1, <2>2 DEF WentOn, FirstStages
<1>14. CASE DropSectionRows(r)
  <2> DEFINE t == [req[r] EXCEPT !.pc = "dropSection.section"]
  <2>1. Becomes(r, t) /\ req[r].pc = "dropSection.rows"
    BY <1>14 DEF DropSectionRows
  <2>2. t.pc = "dropSection.section" /\ t.kind = req[r].kind
    BY <1>0 DEF Slot
  <2> HIDE DEF t
  <2> QED BY <1>a, <1>14, <2>1, <2>2 DEF WentOn, FirstStages
<1>15. CASE TestReload(r)
  <2>1. Finish(r) \/ Becomes(r, Insertion(req[r])) \/ Becomes(r, Update(req[r]))
    BY <1>0, <1>15, ReloadLeadsOn
  <2>2. req[r].pc = "test.reload"
    BY <1>15 DEF TestReload
  <2>3. Insertion(req[r]).pc = "test.insert" /\ Insertion(req[r]).kind = req[r].kind
    BY <1>0 DEF Slot, Insertion
  <2>4. Update(req[r]).pc = "test.write" /\ Update(req[r]).kind = req[r].kind
    BY <1>0 DEF Slot, Update
  <2> QED BY <1>a, <1>1, <1>15, <2>1, <2>2, <2>3, <2>4 DEF WentOn, FirstStages
<1>16. CASE DropTestRows(r)
  <2> DEFINE t == [req[r] EXCEPT !.pc = "dropTest.archive"]
  <2>1. Becomes(r, t) /\ req[r].pc = "dropTest.rows"
    BY <1>16 DEF DropTestRows
  <2>2. t.pc = "dropTest.archive" /\ t.kind = req[r].kind
    BY <1>0 DEF Slot
  <2> HIDE DEF t
  <2> QED BY <1>a, <1>16, <2>1, <2>2 DEF WentOn, FirstStages
<1> QED
  BY <1>1, <1>2, <1>3, <1>4, <1>5, <1>6, <1>8, <1>9, <1>10, <1>11, <1>12, <1>13, <1>14,
     <1>15, <1>16
  DEF Step, Abort, AddFlag, CreateCommit, RemoveDelete, StructureCommit, NewSectionSave,
      SectionWrite, DropSection, TestWrite, TestInsert, DropTest

LEMMA ApartInit == Init => Apart
BY DEF Init, Apart, IdleSlot

LEMMA ApartStep == Typed /\ Apart /\ [Next]_vars => Apart'
<1> SUFFICES ASSUME Typed, Apart, [Next]_vars PROVE Apart'
  OBVIOUS
<1>1. CASE UNCHANGED vars
  BY <1>1 DEF vars, Apart
<1>2. ASSUME NEW r \in Requests, Begin(r)
      PROVE  Apart'
  <2>1. \A s \in Requests : {req'[r].kind, req[s].kind} = {req[s].kind, req'[r].kind}
    OBVIOUS
  <2> QED BY <1>2, <2>1, HowItBegan DEF Apart, Begun
<1>3. ASSUME NEW r \in Requests, Step(r) \/ Abort(r)
      PROVE  Apart'
  BY <1>3, HowItWentOn DEF Apart, WentOn
<1>4. CASE AttemptStarts
  BY <1>4 DEF AttemptStarts, Apart
<1> QED BY <1>1, <1>2, <1>3, <1>4 DEF Next

LEMMA AlwaysApart == Spec => [](Typed /\ Apart)
BY TypedInit, TypedStep, ApartInit, ApartStep, PTL DEF Spec

-----------------------------------------------------------------------------
(***************************************************************************)
(* Attempts and removals: a handler that found no attempt is past the      *)
(* check, and stays so while an attempt cannot begin.                      *)
(***************************************************************************)
RemovalStages == {"remove.find", "remove.delete", "dropSection.rows", "dropTest.rows"}

NoneRemoves == attempted => \A r \in Requests : req[r].pc \notin RemovalStages

LEMMA NoneRemovesInit == Init => NoneRemoves
BY DEF Init, NoneRemoves

LEMMA NoneRemovesStep ==
  ASSUME StartsApart
  PROVE  Typed /\ NoneRemoves /\ [Next]_vars => NoneRemoves'
<1> SUFFICES ASSUME Typed, NoneRemoves, [Next]_vars PROVE NoneRemoves'
  OBVIOUS
<1>1. CASE UNCHANGED vars
  BY <1>1 DEF vars, NoneRemoves
<1>2. ASSUME NEW r \in Requests, Begin(r)
      PROVE  NoneRemoves'
  BY <1>2, HowItBegan, BeginKeepsTables DEF NoneRemoves, RemovalStages, Begun, FirstStages
<1>3. ASSUME NEW r \in Requests, Step(r) \/ Abort(r)
      PROVE  NoneRemoves'
  <2>1. UNCHANGED attempted
    BY <1>3, BeginKeepsTables
    DEF Step, AddFind, AddInsert, AddCheck, AddFlag, CreateCheck, CreateFlag,
        CreateCommit, RemoveAttempts, RemoveFind, RemoveDelete, StructureCheck,
        StructureCommit, NewSectionSave, SectionReload, SectionWrite, DropSectionAttempts,
        DropSectionRows, DropSection, TestReload, TestWrite, TestInsert, DropTestAttempts, DropTestRows,
        DropTest, NoAttempts
  <2>2. WentOn(r) /\ \A x \in Requests : x # r => req'[x] = req[x]
    BY <1>3, HowItWentOn
  <2>3. RemoveFind(r) => req[r].pc = "remove.find"
    BY DEF RemoveFind
  <2> QED BY <2>1, <2>2, <2>3 DEF NoneRemoves, RemovalStages, WentOn
<1>4. CASE AttemptStarts
  <2>1. \A r \in Requests : req[r].pc # "idle" => {"start", req[r].kind} \in Overlap
    BY <1>4 DEF AttemptStarts
  <2>2. \A r \in Requests : req[r].pc \in RemovalStages
                               => req[r].kind \in {"remove", "dropSection", "dropTest"}
    BY DEF Typed, Form, RemovalStages, DropSectionStages
  <2>3. \A r \in Requests : req[r].pc \notin RemovalStages
    BY <2>1, <2>2 DEF StartsApart, RemovalStages
  <2> QED BY <1>4, <2>3 DEF AttemptStarts, NoneRemoves
<1> QED BY <1>1, <1>2, <1>3, <1>4 DEF Next

LEMMA OnlyRemovalsDelete ==
  ASSUME Typed, NEW r \in Requests, Step(r), req[r].pc \notin RemovalStages,
         NEW x \in Present
  PROVE  testQuestions'[x] # NULL
<1>0. NULL \notin TestQuestion /\ x \in Rows /\ testQuestions[x] # NULL
  BY PaperAssumption DEF Present
<1>1. CASE AddInsert(r) \/ CreateCommit(r)
  <2>1. UNCHANGED testQuestions \/ InsertRows(req[r].section, req[r].questions)
    BY <1>1 DEF AddInsert, CreateCommit
  <2>2. req[r].section \in Sections /\ req[r].questions \in SUBSET Questions
    BY <1>1 DEF Typed, TypeOK, Slot, Form, AddStages, CreateStages, AddInsert, CreateCommit
  <2>3. UNCHANGED testQuestions
        \/ \A y \in Rows : testQuestions'[y] = testQuestions[y] \/ y \in Fresh
    BY <2>1, <2>2, InsertedRows DEF Typed
  <2> QED BY <1>0, <2>3 DEF Fresh, Present
<1>2. CASE StructureCommit(r)
  BY <1>0, <1>2, StructureMoves DEF Moved
<1>3. CASE SectionWrite(r)
  BY <1>0, <1>3, SectionMoves DEF Moved
<1>4. CASE RemoveDelete(r) \/ DropSectionRows(r) \/ DropTestRows(r)
  BY <1>4 DEF RemoveDelete, DropSectionRows, DropTestRows, RemovalStages
<1>5. CASE UNCHANGED testQuestions
  BY <1>0, <1>5
<1> QED
  BY <1>1, <1>2, <1>3, <1>4, <1>5
  DEF Step, paper, AddFind, AddCheck, AddFlag, CreateCheck, CreateFlag, RemoveAttempts,
      RemoveFind, StructureCheck, NewSectionSave, SectionReload, DropSectionAttempts,
      DropSection, TestReload, TestWrite, TestInsert, DropTestAttempts, DropTest,
      NoAttempts

\* No question leaves the test once a learner has an attempt at it, if no attempt
\* begins between the check of a removal for attempts and its deletion of rows.
THEOREM AttemptsKeepQuestions ==
  ASSUME StartsApart
  PROVE  Spec => AttemptedKeepsQuestions
<1>1. Typed /\ NoneRemoves /\ [Next]_vars
         => [attempted => \A x \in Present : testQuestions'[x] # NULL]_vars
  <2> SUFFICES ASSUME Typed, NoneRemoves, Next, attempted, NEW x \in Present
               PROVE  testQuestions'[x] # NULL
    BY DEF vars
  <2>1. testQuestions[x] # NULL
    BY DEF Present
  <2>2. ASSUME NEW r \in Requests, Step(r)
        PROVE  testQuestions'[x] # NULL
    BY <2>2, OnlyRemovalsDelete DEF NoneRemoves
  <2>3. ASSUME NEW r \in Requests, Begin(r) \/ Abort(r)
        PROVE  testQuestions'[x] # NULL
    BY <2>1, <2>3, BeginKeepsTables
  <2>4. CASE AttemptStarts
    BY <2>1, <2>4 DEF AttemptStarts, paper
  <2> QED BY <2>2, <2>3, <2>4 DEF Next
<1>2. Spec => [](Typed /\ NoneRemoves)
  BY TypedInit, TypedStep, NoneRemovesInit, NoneRemovesStep, PTL DEF Spec
<1> QED BY <1>1, <1>2, PTL DEF Spec, AttemptedKeepsQuestions

-----------------------------------------------------------------------------
(***************************************************************************)
(* One row for a question: what an addition is about to insert has no row, *)
(* and stays so while no other addition inserts.                           *)
(***************************************************************************)
Pending(r) ==
    /\ req[r].pc = "add.insert" =>
          /\ req[r].questions \subseteq bank
          /\ \A x \in Present : testQuestions[x].question \notin req[r].questions
    /\ req[r].pc \in CreateStages => req[r].questions \cap bank = {}

Once ==
    /\ QuestionOnce
    /\ \A x \in Present : testQuestions[x].question \in bank
    /\ \A r \in Requests : Pending(r)

LEMMA OnceInit == Init => Once
BY DEF Init, Once, QuestionOnce, Present, Pending, IdleSlot, CreateStages

\* No other addition is in flight with one.
LEMMA Alone ==
  ASSUME AdditionsApart, Typed, Apart, NEW r \in Requests, NEW s \in Requests,
         req[r].pc \in AddStages \cup CreateStages, req[s].pc \in AddStages \cup CreateStages
  PROVE  r = s
<1>1. req[r].kind \in Additions /\ req[s].kind \in Additions
  BY DEF Typed, Form, Additions
<1>2. req[r].pc # "idle" /\ req[s].pc # "idle"
  BY DEF AddStages, CreateStages
<1> QED BY <1>1, <1>2 DEF AdditionsApart, Apart

\* Rows that shrink keep what is said of the questions of all rows.
LEMMA ShrunkRows ==
  ASSUME Shrinks
  PROVE  \A x \in Present' : /\ x \in Present
                             /\ testQuestions'[x].question = testQuestions[x].question
BY DEF Shrinks, Moved, Present

LEMMA OnceStep ==
  ASSUME AdditionsApart
  PROVE  Typed /\ Apart /\ Once /\ [Next]_vars => Once'
<1> SUFFICES ASSUME Typed, Apart, Once, [Next]_vars PROVE Once'
  OBVIOUS
<1>1. CASE UNCHANGED vars
  BY <1>1 DEF vars, Once, QuestionOnce, Present, Pending
<1>2. ASSUME NEW r \in Requests, Begin(r)
      PROVE  Once'
  <2>1. Begun(r) /\ \A x \in Requests : x # r => req'[x] = req[x]
    BY <1>2, HowItBegan
  <2>2. UNCHANGED <<testQuestions, bank>>
    BY <1>2, BeginKeepsTables
  <2>3. Pending(r)'
    BY <2>1, <2>2 DEF Pending, Begun, FirstStages, CreateStages
  <2>4. \A s \in Requests : s # r => Pending(s)'
    BY <2>1, <2>2 DEF Pending, Once, Present
  <2> QED BY <2>2, <2>3, <2>4 DEF Once, QuestionOnce, Present
<1>3. ASSUME NEW r \in Requests, Step(r) \/ Abort(r), Shrinks, UNCHANGED bank
      PROVE  Once'
  <2>1. WentOn(r) /\ \A x \in Requests : x # r => req'[x] = req[x]
    BY <1>3, HowItWentOn
  <2>2. \A x \in Present' : x \in Present
                            /\ testQuestions'[x].question = testQuestions[x].question
    BY <1>3, ShrunkRows
  <2>3. \A s \in Requests : s # r => Pending(s)'
    BY <1>3, <2>1, <2>2 DEF Pending, Once
  <2>4. Pending(r)'
    <3>1. req[r] \in Slot /\ Pending(r)
      BY DEF Typed, TypeOK, Once
    <3>2. CASE req'[r].pc = "add.insert"
      <4> DEFINE new == {q \in req[r].questions \cap bank : RowsOf(q) = {}}
                 t == [req[r] EXCEPT !.pc = "add.insert", !.questions = new]
      <4>1. AddFind(r)
        BY <2>1, <3>2 DEF WentOn
      <4>2. Finish(r) \/ Becomes(r, t)
        BY <4>1 DEF AddFind
      <4>3. Becomes(r, t)
        BY <3>2, <4>2 DEF Finish, Becomes, IdleSlot, Typed, TypeOK
      <4>4. t.questions = new
        BY <3>1 DEF Slot
      <4>5. req'[r].questions = new
        BY <4>3, <4>4 DEF Becomes, Typed, TypeOK
      <4>6. \A x \in Present : testQuestions[x].question \notin new
        BY DEF RowsOf
      <4> HIDE DEF t
      <4>7. new \subseteq bank
        OBVIOUS
      <4> HIDE DEF new
      <4> QED BY <1>3, <2>2, <3>2, <4>5, <4>6, <4>7 DEF Pending, CreateStages
    <3>3. CASE req'[r].pc = "create.flag"
      <4>1. CreateCheck(r)
        BY <2>1, <3>3 DEF WentOn
      <4>0. PICK b : Becomes(r, [req[r] EXCEPT !.pc = "create.flag", !.flag = b])
        BY <4>1 DEF CreateCheck
      <4> DEFINE t == [req[r] EXCEPT !.pc = "create.flag", !.flag = b]
      <4>2. Becomes(r, t) /\ req[r].pc = "create.check"
        BY <4>0, <4>1 DEF CreateCheck
      <4>3. t.questions = req[r].questions
        BY <3>1 DEF Slot
      <4>4. req'[r].questions = req[r].questions
        BY <4>2, <4>3 DEF Becomes, Typed, TypeOK
      <4> QED BY <1>3, <3>1, <3>3, <4>2, <4>4 DEF Pending, CreateStages
    <3>4. CASE req'[r].pc = "create.commit"
      <4> DEFINE t == [req[r] EXCEPT !.pc = "create.commit", !.flag = FALSE]
      <4>1. CreateFlag(r)
        BY <2>1, <3>4 DEF WentOn
      <4>2. Becomes(r, t) /\ req[r].pc = "create.flag"
        BY <4>1 DEF CreateFlag
      <4>3. t.questions = req[r].questions
        BY <3>1 DEF Slot
      <4>4. req'[r].questions = req[r].questions
        BY <4>2, <4>3 DEF Becomes, Typed, TypeOK
      <4> QED BY <1>3, <3>1, <3>4, <4>2, <4>4 DEF Pending, CreateStages
    <3> QED BY <2>1, <3>2, <3>3, <3>4 DEF Pending, CreateStages, WentOn, FirstStages
  <2>5. QuestionOnce'
    BY <2>2 DEF Once, QuestionOnce
  <2>6. \A x \in Present' : testQuestions'[x].question \in bank'
    BY <1>3, <2>2 DEF Once
  <2> QED BY <2>3, <2>4, <2>5, <2>6 DEF Once
<1>4. ASSUME NEW r \in Requests, Step(r), Inserts(r),
             bank' = bank \cup (IF req[r].pc = "create.commit" THEN req[r].questions ELSE {})
      PROVE  Once'
  <2> DEFINE Q == req[r].questions
  <2>1. WentOn(r) /\ \A x \in Requests : x # r => req'[x] = req[x]
    BY <1>4, HowItWentOn
  <2>2. req[r].pc \in {"add.insert", "create.commit"}
    BY <1>4 DEF Inserts
  <2>3. \A x \in Present : testQuestions[x].question \notin Q
    BY <2>2 DEF Once, Pending, CreateStages
  <2>4. Q \subseteq bank'
    BY <1>4, <2>2 DEF Once, Pending
  <2>5. /\ \A x \in Rows : \/ testQuestions'[x] = testQuestions[x]
                           \/ x \in Fresh /\ testQuestions'[x].question \in Q
        /\ \A x, y \in Rows :
              /\ testQuestions'[x] # testQuestions[x]
              /\ testQuestions'[y] # testQuestions[y]
              /\ testQuestions'[x].question = testQuestions'[y].question
              => x = y
    BY <1>4, InsertedRows DEF Inserts, Typed
  <2>6. QuestionOnce'
    <3> SUFFICES ASSUME NEW x \in Present', NEW y \in Present',
                        testQuestions'[x].question = testQuestions'[y].question
                 PROVE  x = y
      BY DEF QuestionOnce
    <3>1. x \in Rows /\ y \in Rows /\ testQuestions'[x] # NULL /\ testQuestions'[y] # NULL
      BY DEF Present
    <3>2. CASE testQuestions'[x] = testQuestions[x] /\ testQuestions'[y] = testQuestions[y]
      BY <3>1, <3>2 DEF Once, QuestionOnce, Present
    <3>3. CASE testQuestions'[x] = testQuestions[x] /\ testQuestions'[y] # testQuestions[y]
      BY <2>3, <2>5, <3>1, <3>3 DEF Present
    <3>4. CASE testQuestions'[x] # testQuestions[x] /\ testQuestions'[y] = testQuestions[y]
      BY <2>3, <2>5, <3>1, <3>4 DEF Present
    <3> QED BY <2>5, <3>1, <3>2, <3>3, <3>4
  <2>7. \A x \in Present' : testQuestions'[x].question \in bank'
    BY <1>4, <2>4, <2>5 DEF Once, Present
  <2>8. \A s \in Requests : req'[s].pc \notin CreateStages \cup {"add.insert"}
    <3>1. \A s \in Requests : s # r => req[s].pc \notin AddStages \cup CreateStages
      BY <2>2, Alone DEF AddStages, CreateStages
    <3>2. req'[r].pc \notin CreateStages \cup {"add.insert"}
      BY <2>1, <2>2 DEF WentOn, CreateStages, FirstStages, AddFind, CreateCheck, CreateFlag
    <3> QED BY <2>1, <3>1, <3>2 DEF AddStages
  <2> QED BY <2>6, <2>7, <2>8 DEF Once, Pending
<1>5. ASSUME NEW r \in Requests, Step(r) \/ Abort(r)
      PROVE  Once'
  <2>1. CASE CreateCommit(r)
    <3>1. Step(r) /\ req[r].pc = "create.commit"
      BY <2>1 DEF Step, CreateCommit
    <3>2. req[r].section \in Sections /\ req[r].questions \in SUBSET Questions
      BY <3>1 DEF Typed, TypeOK, Slot, Form, CreateStages
    <3>3. CASE req[r].section \in Existing
      BY <1>4, <2>1, <3>1, <3>2, <3>3 DEF CreateCommit, Inserts
    <3>4. CASE req[r].section \notin Existing
      <4>1. Shrinks /\ UNCHANGED bank
        BY <2>1, <3>4 DEF CreateCommit, Shrinks
      <4> QED BY <1>3, <3>1, <4>1
    <3> QED BY <3>3, <3>4
  <2>2. CASE Step(r) /\ ~CreateCommit(r)
    <3>1. UNCHANGED bank
      BY <2>2 DEF Step, AddFind, AddInsert, AddCheck, AddFlag, CreateCheck, CreateFlag,
          RemoveAttempts, RemoveFind, RemoveDelete, StructureCheck, StructureCommit,
          NewSectionSave, SectionReload, SectionWrite, DropSectionAttempts, DropSectionRows,
          DropSection, TestReload, TestWrite, TestInsert, DropTestAttempts, DropTestRows, DropTest,
          NoAttempts
    <3>2. CASE Shrinks
      BY <1>3, <2>2, <3>1, <3>2
    <3>3. CASE Inserts(r) /\ req[r].pc = "add.insert"
      BY <1>4, <2>2, <3>1, <3>3
    <3>4. CASE req[r].pc = "create.commit"
      BY <2>2, <3>4
      DEF Step, AddFind, AddInsert, AddCheck, AddFlag, CreateCheck, CreateFlag,
          RemoveAttempts, RemoveFind, RemoveDelete, StructureCheck, StructureCommit,
          NewSectionSave, SectionReload, SectionWrite, DropSectionAttempts, DropSectionRows,
          DropSection, TestReload, TestWrite, TestInsert, DropTestAttempts, DropTestRows, DropTest,
          NoAttempts
    <3> QED BY <2>2, <3>2, <3>3, <3>4, RowsStep DEF Inserts
  <2>3. CASE Abort(r)
    <3>1. Shrinks /\ UNCHANGED bank
      BY <2>3, BeginKeepsTables DEF Shrinks
    <3> QED BY <1>3, <2>3, <3>1
  <2> QED BY <1>5, <2>1, <2>2, <2>3
<1>6. CASE AttemptStarts
  BY <1>6 DEF AttemptStarts, paper, Once, QuestionOnce, Present, Pending
<1> QED BY <1>1, <1>2, <1>5, <1>6 DEF Next

\* A question has one row of the test, if no two additions overlap: addQuestionToTest,
\* addQuestionsBulkToTest and the creation of a question each look before they insert.
THEOREM QuestionsAreOnce ==
  ASSUME AdditionsApart
  PROVE  Spec => []QuestionOnce
<1>1. Once => QuestionOnce
  BY DEF Once
<1>2. Spec => []Once
  BY TypedInit, TypedStep, ApartInit, ApartStep, OnceInit, OnceStep, PTL DEF Spec
<1> QED BY <1>1, <1>2, PTL

-----------------------------------------------------------------------------
(***************************************************************************)
(* Rows and their section: what an update of a section was loaded with is  *)
(* what is in it, so that its save neither detaches nor attaches a row.    *)
(***************************************************************************)
UpToDate(r) ==
    /\ req[r].pc = "section.reload" =>
          /\ RowsIn(req[r].section) \subseteq req[r].rows
          /\ \A x \in req[r].rows \cap Present : testQuestions[x].section = req[r].section
    /\ req[r].pc = "section.write" =>
          req[r].gone \cap Present = {} /\ req[r].rows \cap Present = {}

Placed == Attached /\ \A r \in Requests : UpToDate(r)

LEMMA PlacedInit == Init => Placed
BY DEF Init, Placed, Attached, Present, UpToDate, IdleSlot

\* A step that keeps rows as they are or deletes them.
LEMMA PlacedWhenRowsStay ==
  ASSUME Typed, Placed, NEW r \in Requests, Step(r) \/ Abort(r),
         \A x \in Rows : testQuestions'[x] = testQuestions[x] \/ testQuestions'[x] = NULL
  PROVE  Placed'
<1>1. WentOn(r) /\ \A x \in Requests : x # r => req'[x] = req[x]
  BY HowItWentOn
<1>2. \A x \in Present' : x \in Present /\ testQuestions'[x] = testQuestions[x]
  BY DEF Present
<1>3. Attached'
  BY <1>2 DEF Placed, Attached
<1>4. \A s \in Requests : s # r => UpToDate(s)'
  BY <1>1, <1>2 DEF Placed, UpToDate, RowsIn
<1>5. UpToDate(r)'
  <2>1. CASE req'[r].pc = "section.write"
    <3> DEFINE R == req[r].rows \ RowsIn(req[r].section)
               G == RowsIn(req[r].section) \ req[r].rows
               K == {req[r].section} \cap Existing
               st == IF sections[req[r].section] = req[r].status THEN NULL
                     ELSE req[r].status
               t == [req[r] EXCEPT !.pc = "section.write", !.rows = R, !.gone = G,
                                   !.known = K, !.status = st]
    <3>1. SectionReload(r)
      BY <1>1, <2>1 DEF WentOn
    <3>2. req[r].pc = "section.reload" /\ req'[r] = t
      BY <3>1 DEF SectionReload, Becomes, Typed, TypeOK, Slot
    <3>3. R \cap Present = {} /\ G = {}
      BY <3>2 DEF Placed, UpToDate, RowsIn
    <3> HIDE DEF R, G, K, st
    <3>4. t.rows = R /\ t.gone = G
      BY DEF Typed, TypeOK, Slot
    <3> HIDE DEF t
    <3> QED BY <1>2, <2>1, <3>2, <3>3, <3>4 DEF UpToDate
  <2> QED BY <1>1, <2>1 DEF UpToDate, WentOn, FirstStages
<1> QED BY <1>3, <1>4, <1>5 DEF Placed

\* A step of a handler that inserts or moves rows while no section is updated.
LEMMA PlacedWhenNoneUpdates ==
  ASSUME Typed, Placed, NEW r \in Requests, Step(r),
         \A s \in Requests : req[s].pc \notin SectionStages,
         \A x \in Rows : testQuestions'[x] = testQuestions[x]
                         \/ testQuestions'[x].section \in Sections
  PROVE  Placed'
<1>1. WentOn(r) /\ \A x \in Requests : x # r => req'[x] = req[x]
  BY HowItWentOn
<1>2. \A s \in Requests : req'[s].pc \notin SectionStages
  BY <1>1 DEF WentOn, FirstStages, SectionStages, SectionReload
<1>3. Attached'
  BY PaperAssumption DEF Placed, Attached, Present
<1> QED BY <1>2, <1>3 DEF Placed, UpToDate, SectionStages

LEMMA PlacedStep ==
  ASSUME SectionUpdatesApart
  PROVE  Typed /\ Apart /\ Placed /\ [Next]_vars => Placed'
<1> SUFFICES ASSUME Typed, Apart, Placed, [Next]_vars PROVE Placed'
  OBVIOUS
<1>1. CASE UNCHANGED vars
  BY <1>1 DEF vars, Placed, Attached, Present, UpToDate, RowsIn
<1>2. ASSUME NEW r \in Requests, Begin(r)
      PROVE  Placed'
  <2>1. Begun(r) /\ \A x \in Requests : x # r => req'[x] = req[x]
    BY <1>2, HowItBegan
  <2>2. UNCHANGED testQuestions
    BY <1>2, BeginKeepsTables
  <2>3. UpToDate(r)'
    BY <2>1, <2>2 DEF UpToDate, Begun, FirstStages, RowsIn, Present
  <2>4. \A s \in Requests : s # r => UpToDate(s)'
    BY <2>1, <2>2 DEF UpToDate, Placed, RowsIn, Present
  <2> QED BY <2>2, <2>3, <2>4 DEF Placed, Attached, Present
<1>3. ASSUME NEW r \in Requests, Step(r)
      PROVE  Placed'
  <2>1. ASSUME req[r].kind \in Additions \cup {"structure"}, req[r].pc # "idle"
        PROVE  \A s \in Requests : req[s].pc \notin SectionStages
    <3> SUFFICES ASSUME NEW s \in Requests, req[s].pc \in SectionStages PROVE FALSE
      OBVIOUS
    <3>1. req[s].kind = "section" /\ req[s].pc # "idle"
      BY DEF Typed, Form, SectionStages
    <3>2. s # r
      BY <2>1, <3>1 DEF Additions
    <3> QED BY <2>1, <3>1, <3>2 DEF Apart, SectionUpdatesApart
  <2>2. CASE AddInsert(r) \/ CreateCommit(r)
    <3>1. /\ req[r].kind \in Additions /\ req[r].pc # "idle"
          /\ req[r].section \in Sections /\ req[r].questions \in SUBSET Questions
      BY <2>2 DEF Typed, TypeOK, Slot, Form, AddStages, CreateStages, Additions, AddInsert,
                  CreateCommit
    <3>2. UNCHANGED testQuestions \/ InsertRows(req[r].section, req[r].questions)
      BY <2>2 DEF AddInsert, CreateCommit
    <3>3. \A x \in Rows : testQuestions'[x] = testQuestions[x]
                          \/ testQuestions'[x].section \in Sections
      BY <3>1, <3>2, InsertedRows DEF Typed
    <3> QED BY <1>3, <2>1, <3>1, <3>3, PlacedWhenNoneUpdates
  <2>3. CASE StructureCommit(r)
    <3>1. req[r].kind = "structure" /\ req[r].pc # "idle"
      BY <2>3 DEF Typed, Form, StructureStages, StructureCommit
    <3> QED BY <1>3, <2>1, <2>3, <3>1, StructureMoves, PlacedWhenNoneUpdates
  <2>4. CASE SectionWrite(r)
    <3>1. req[r].gone \cap Present = {} /\ req[r].rows \cap Present = {}
      BY <2>4 DEF SectionWrite, Placed, UpToDate
    <3>2. \A x \in Rows : testQuestions'[x] = testQuestions[x]
      BY <2>4, <3>1, SectionMoves DEF Moved
    <3> QED BY <1>3, <3>2, PlacedWhenRowsStay
  <2>5. CASE RemoveDelete(r) \/ DropSectionRows(r) \/ DropTestRows(r)
    <3>1. PICK R \in SUBSET Rows : DeleteRows(R)
      BY <2>5 DEF RemoveDelete, DropSectionRows, DropTestRows, Typed, TypeOK, Slot, RowsIn,
                  Present
    <3> QED BY <1>3, <3>1, DeletedRows, PlacedWhenRowsStay DEF Typed
  <2>6. CASE UNCHANGED testQuestions
    BY <1>3, <2>6, PlacedWhenRowsStay
  <2> QED
    BY <1>3, <2>2, <2>3, <2>4, <2>5, <2>6
    DEF Step, paper, AddFind, AddCheck, AddFlag, CreateCheck, CreateFlag, RemoveAttempts,
        RemoveFind, StructureCheck, NewSectionSave, SectionReload, DropSectionAttempts,
        DropSection, TestReload, TestWrite, TestInsert, DropTestAttempts, DropTest,
      NoAttempts
<1>4. ASSUME NEW r \in Requests, Abort(r)
      PROVE  Placed'
  BY <1>4, BeginKeepsTables, PlacedWhenRowsStay
<1>5. CASE AttemptStarts
  BY <1>5 DEF AttemptStarts, paper, Placed, Attached, Present, UpToDate, RowsIn
<1> QED BY <1>1, <1>2, <1>3, <1>4, <1>5 DEF Next

\* No question loses its section, if no section is updated while questions are put
\* into sections or moved: update of sections.service saves the rows it has loaded.
THEOREM QuestionsStayAttached ==
  ASSUME SectionUpdatesApart
  PROVE  Spec => []Attached
<1>1. Placed => Attached
  BY DEF Placed
<1>2. Spec => []Placed
  BY TypedInit, TypedStep, ApartInit, ApartStep, PlacedInit, PlacedStep, PTL DEF Spec
<1> QED BY <1>1, <1>2, PTL

-----------------------------------------------------------------------------
(***************************************************************************)
(* isObjective: what a handler computed of the rows is still true when it  *)
(* writes it, and what it adds later agrees with what it wrote; what an    *)
(* update loaded is as true as it was then.                                *)
(***************************************************************************)
FlagHolds(r) ==
    /\ req[r].pc = "add.flag" /\ req[r].flag => NoneSubjective
    /\ req[r].pc = "create.flag" /\ req[r].flag =>
          NoneSubjective /\ req[r].questions \cap Subjective = {}
    /\ req[r].pc = "create.commit" /\ test.isObjective => req[r].questions \cap Subjective = {}
    /\ req[r].pc \in TestStages /\ req[r].flag /\ ~req[r].own => unchecked \/ NoneSubjective

Claims == ObjectiveHolds /\ \A r \in Requests : FlagHolds(r)

LEMMA ClaimsInit == Init => Claims
BY DEF Init, Claims, ObjectiveHolds, NoneSubjective, Present, FlagHolds, IdleSlot, TestStages

LEMMA NoneStaysSubjective == Shrinks /\ NoneSubjective => NoneSubjective'
BY ShrunkRows DEF NoneSubjective

LEMMA AllObjectiveNoneSubjective == Typed /\ AllObjective => NoneSubjective
BY PaperAssumption DEF AllObjective, NoneSubjective

LEMMA OnlyAddCheckGoesOn ==
  ASSUME NEW r \in Requests, Step(r), req[r].pc = "add.check"
  PROVE  AddCheck(r)
BY DEF Step, AddFind, AddInsert, AddFlag, CreateCheck, CreateFlag,
       CreateCommit, RemoveAttempts, RemoveFind, RemoveDelete, StructureCheck,
       StructureCommit, NewSectionSave, SectionReload, SectionWrite, DropSectionAttempts,
       DropSectionRows, DropSection, TestReload, TestWrite, TestInsert, DropTestAttempts,
       DropTestRows, DropTest, NoAttempts

\* A step that neither writes isObjective nor inserts.
LEMMA ClaimsWhenFlagStays ==
  ASSUME Typed, Claims, NEW r \in Requests, Step(r), Shrinks,
         test'.isObjective = test.isObjective, unchecked => unchecked',
         req[r].pc \notin {"add.flag", "create.flag"}
  PROVE  Claims'
<1>0. req[r] \in Slot /\ req \in [Requests -> Slot]
  BY DEF Typed, TypeOK
<1>1. WentOn(r) /\ \A x \in Requests : x # r => req'[x] = req[x]
  BY HowItWentOn
<1>2. NoneSubjective => NoneSubjective'
  BY NoneStaysSubjective
<1>3. \A s \in Requests : s # r => FlagHolds(s)'
  BY <1>1, <1>2 DEF Claims, FlagHolds
<1>4. FlagHolds(r)'
  <2>1. CASE req'[r].pc = "add.flag"
    <3>1. AddCheck(r)
      BY <1>1, <2>1 DEF WentOn
    <3>2. PICK b \in CheckAnswers : Becomes(r, [req[r] EXCEPT !.pc = "add.flag", !.flag = b])
      BY <3>1 DEF AddCheck
    <3> DEFINE t == [req[r] EXCEPT !.pc = "add.flag", !.flag = b]
    <3>3. req'[r] = t
      BY <1>0, <3>2 DEF Becomes
    <3>4. t.flag = b
      BY <1>0 DEF Slot
    <3> HIDE DEF t
    <3>5. b => NoneSubjective
      BY CheckSaysSo, AllObjectiveNoneSubjective
    <3> QED BY <1>2, <2>1, <3>3, <3>4, <3>5 DEF FlagHolds, TestStages
  <2>2. CASE req'[r].pc = "create.flag"
    <3>1. CreateCheck(r)
      BY <1>1, <2>2 DEF WentOn
    <3>2. PICK b \in CheckAnswers :
             Becomes(r, [req[r] EXCEPT !.pc = "create.flag",
                             !.flag = b /\ req[r].questions \cap Subjective = {}])
      BY <3>1 DEF CreateCheck
    <3> DEFINE c == b /\ req[r].questions \cap Subjective = {}
               t == [req[r] EXCEPT !.pc = "create.flag", !.flag = c]
    <3>3. req'[r] = t
      BY <1>0, <3>2 DEF Becomes
    <3>4. c => NoneSubjective /\ req[r].questions \cap Subjective = {}
      BY CheckSaysSo, AllObjectiveNoneSubjective
    <3> HIDE DEF c
    <3>5. t.flag = c /\ t.questions = req[r].questions
      BY <1>0 DEF Slot
    <3> HIDE DEF t
    <3> QED BY <1>2, <2>2, <3>3, <3>4, <3>5 DEF FlagHolds, TestStages
  <2>3. CASE req'[r].pc \in {"test.write", "test.insert"}
    <3>1. TestReload(r)
      BY <1>1, <2>3 DEF WentOn
    <3>2. req[r].pc = "test.reload"
      BY <3>1 DEF TestReload
    <3>3. req'[r] = Insertion(req[r]) \/ req'[r] = Update(req[r])
      BY <1>0, <2>3, <3>1, ReloadLeadsOn DEF Finish, Becomes, IdleSlot
    <3>4. req'[r].flag /\ ~req'[r].own => req[r].flag /\ ~req[r].own
      BY <1>0, <3>3 DEF Slot, Insertion, Update
    <3> QED BY <1>2, <2>3, <3>2, <3>4 DEF FlagHolds, Claims, TestStages
  <2>4. req'[r].pc # "create.commit"
    BY <1>1 DEF WentOn, CreateFlag
  <2> QED BY <1>1, <2>1, <2>2, <2>3, <2>4 DEF FlagHolds, TestStages, WentOn, FirstStages
<1>5. ObjectiveHolds'
  <2>1. CASE (test.isObjective => NoneSubjective) \/ unchecked
    BY <1>2, <2>1 DEF ObjectiveHolds
  <2>2. CASE \E s \in Requests : Adding(req[s])
    <3>1. PICK s \in Requests : Adding(req[s])
      BY <2>2
    <3>2. CASE s # r
      BY <1>1, <3>1, <3>2 DEF ObjectiveHolds
    <3>3. CASE s = r
      <4>1. req[r].pc = "add.check" /\ req[r].kind \in {"add", "bulk"}
        BY <3>1, <3>3 DEF Adding
      <4>2. PICK b : Becomes(r, [req[r] EXCEPT !.pc = "add.flag", !.flag = b])
        BY <4>1, OnlyAddCheckGoesOn DEF AddCheck
      <4> DEFINE t == [req[r] EXCEPT !.pc = "add.flag", !.flag = b]
      <4>3. req'[r] = t
        BY <1>0, <4>2 DEF Becomes
      <4>4. t.pc = "add.flag" /\ t.kind = req[r].kind
        BY <1>0 DEF Slot
      <4> HIDE DEF t
      <4> QED BY <4>1, <4>3, <4>4 DEF ObjectiveHolds, Adding
    <3> QED BY <3>2, <3>3
  <2> QED BY <2>1, <2>2 DEF Claims, ObjectiveHolds
<1> QED BY <1>3, <1>4, <1>5 DEF Claims

\* No other addition and no update of the test is in flight with an addition.
LEMMA NoneElse ==
  ASSUME AdditionsApart, UpdatesApart, Typed, Apart, NEW r \in Requests,
         req[r].pc \in AddStages \cup CreateStages
  PROVE  \A s \in Requests : s # r =>
            req[s].pc \notin AddStages \cup CreateStages \cup TestStages
<1> SUFFICES ASSUME NEW s \in Requests, s # r, req[s].pc \in TestStages PROVE FALSE
  BY Alone
<1>1. req[r].kind \in Additions /\ req[r].pc # "idle"
  BY DEF Typed, Form, Additions, AddStages, CreateStages
<1>2. req[s].kind = "test" /\ req[s].pc # "idle"
  BY DEF Typed, Form, TestStages
<1> QED BY <1>1, <1>2 DEF Apart, UpdatesApart

\* What an update writes of isObjective is true, or an author has said it.
LEMMA UpdateClaims ==
  ASSUME AdditionsApart, UpdatesApart, Typed, Apart, Claims, NEW r \in Requests,
         TestWrite(r) \/ TestInsert(r)
  PROVE  Claims'
<1>1. /\ req[r].pc \in TestStages /\ UNCHANGED testQuestions
      /\ req'[r].pc = "idle" /\ \A s \in Requests : s # r => req'[s] = req[s]
  BY DEF TestWrite, TestInsert, TestStages, paper, Finish, Becomes, IdleSlot, Typed, TypeOK
<1>2. NoneSubjective' <=> NoneSubjective
  BY <1>1 DEF NoneSubjective, Present
<1>3. unchecked => unchecked'
  BY DEF TestWrite, TestInsert
<1>4. \A s \in Requests : req[s].pc \notin AddStages \cup CreateStages
  BY <1>1, NoneElse DEF AddStages, CreateStages, TestStages
<1>5. test'.isObjective => test.isObjective \/ (req[r].flag /\ ~req[r].own) \/ unchecked'
  <2>1. CASE UNCHANGED test
    BY <2>1
  <2>2. CASE ~UNCHANGED test
    <3>1. unchecked' <=> (unchecked \/ req[r].own)
      BY <2>2 DEF TestWrite, TestInsert
    <3>2. test'.isObjective = req[r].flag \/ test'.isObjective = test.isObjective
      BY <2>2 DEF TestWrite, TestInsert
    <3> QED BY <3>1, <3>2
  <2> QED BY <2>1, <2>2
<1>6. \A s \in Requests : ~Adding(req[s])
  BY <1>4 DEF Adding, AddStages
<1>7. ObjectiveHolds'
  BY <1>1, <1>2, <1>3, <1>5, <1>6 DEF Claims, ObjectiveHolds, FlagHolds
<1>8. \A s \in Requests : FlagHolds(s)'
  BY <1>1, <1>2, <1>3, <1>4 DEF Claims, FlagHolds, AddStages, CreateStages, TestStages
<1> QED BY <1>7, <1>8 DEF Claims

LEMMA ClaimsStep ==
  ASSUME AdditionsApart, UpdatesApart
  PROVE  Typed /\ Apart /\ Claims /\ [Next]_vars => Claims'
<1> SUFFICES ASSUME Typed, Apart, Claims, [Next]_vars PROVE Claims'
  OBVIOUS
<1>1. CASE UNCHANGED vars
  BY <1>1 DEF vars, Claims, ObjectiveHolds, NoneSubjective, Present, FlagHolds, Adding
<1>2. ASSUME NEW r \in Requests, Begin(r)
      PROVE  Claims'
  <2>1. Begun(r) /\ \A x \in Requests : x # r => req'[x] = req[x]
    BY <1>2, HowItBegan
  <2>2. UNCHANGED <<testQuestions, test, unchecked>>
    BY <1>2, BeginKeepsTables
  <2>3. NoneSubjective' <=> NoneSubjective
    BY <2>2 DEF NoneSubjective, Present
  <2>4. FlagHolds(r)'
    <3>1. CASE req'[r].pc = "test.reload"
      <4>1. req'[r].kind = "test"
        BY <3>1, TypedStep DEF Typed, Form, TestStages
      <4>2. \A s \in Requests : ~Adding(req[s])
        BY <2>1, <4>1 DEF Begun, Adding, Additions, UpdatesApart
      <4>3. req'[r].flag /\ ~req'[r].own => unchecked \/ NoneSubjective
        BY <2>1, <3>1, <4>2 DEF Begun, Claims, ObjectiveHolds
      <4> QED BY <2>2, <2>3, <3>1, <4>3 DEF FlagHolds
    <3> QED BY <2>1, <3>1 DEF FlagHolds, Begun, FirstStages, TestStages
  <2>5. \A s \in Requests : s # r => FlagHolds(s)'
    BY <2>1, <2>2, <2>3 DEF FlagHolds, Claims
  <2>6. ObjectiveHolds'
    BY <2>1, <2>2, <2>3 DEF Claims, ObjectiveHolds, Adding, Begun
  <2> QED BY <2>4, <2>5, <2>6 DEF Claims
<1>3. ASSUME NEW r \in Requests, Step(r)
      PROVE  Claims'
  <2>0. req[r] \in Slot /\ req \in [Requests -> Slot] /\ test \in TestRow /\ Form(req[r])
    BY DEF Typed, TypeOK
  <2>1. \A x \in Requests : x # r => req'[x] = req[x]
    BY <1>3, HowItWentOn
  <2>2. CASE AddFlag(r)
    <3>1. /\ req[r].pc = "add.flag" /\ UNCHANGED testQuestions
          /\ test'.isObjective = req[r].flag /\ req'[r].pc = "idle"
      BY <2>0, <2>2 DEF AddFlag, paper, Finish, Becomes, IdleSlot, TestRow
    <3>2. NoneSubjective' <=> NoneSubjective
      BY <3>1 DEF NoneSubjective, Present
    <3>3. test'.isObjective => NoneSubjective'
      BY <3>1, <3>2 DEF Claims, FlagHolds
    <3>4. \A s \in Requests : req'[s].pc \notin AddStages \cup CreateStages \cup TestStages
      BY <2>1, <3>1, NoneElse DEF AddStages, CreateStages, TestStages
    <3> QED BY <3>3, <3>4 DEF Claims, ObjectiveHolds, FlagHolds, AddStages, CreateStages
  <2>3. CASE CreateFlag(r)
    <3> DEFINE t == [req[r] EXCEPT !.pc = "create.commit", !.flag = FALSE]
    <3>1. /\ req[r].pc = "create.flag" /\ UNCHANGED testQuestions
          /\ test'.isObjective = req[r].flag /\ req'[r] = t
      BY <2>0, <2>3 DEF CreateFlag, paper, Becomes, TestRow
    <3>2. t.pc = "create.commit" /\ t.questions = req[r].questions
      BY <2>0 DEF Slot
    <3> HIDE DEF t
    <3>3. NoneSubjective' <=> NoneSubjective
      BY <3>1 DEF NoneSubjective, Present
    <3>4. test'.isObjective => NoneSubjective' /\ req'[r].questions \cap Subjective = {}
      BY <3>1, <3>2, <3>3 DEF Claims, FlagHolds
    <3>5. FlagHolds(r)'
      BY <3>1, <3>2, <3>4 DEF FlagHolds, TestStages
    <3>6. \A s \in Requests : s # r => req'[s].pc \notin AddStages \cup CreateStages \cup TestStages
      BY <2>1, <3>1, NoneElse DEF AddStages, CreateStages, TestStages
    <3>7. \A s \in Requests : s # r => FlagHolds(s)'
      BY <3>6 DEF FlagHolds, AddStages, CreateStages
    <3> QED BY <3>4, <3>5, <3>7 DEF Claims, ObjectiveHolds
  <2>4. CASE AddInsert(r) /\ Inserts(r)
    <3> DEFINE t == [req[r] EXCEPT !.pc = "add.check", !.questions = {}]
    <3>1. req[r].pc = "add.insert" /\ UNCHANGED <<test, unchecked>>
      BY <2>4 DEF AddInsert
    <3>2. CASE req'[r] = t
      <4>1. t.pc = "add.check" /\ t.kind = req[r].kind /\ req[r].kind \in {"add", "bulk"}
        BY <2>0, <3>1 DEF Slot, Form, AddStages
      <4> HIDE DEF t
      <4>2. Adding(req'[r])
        BY <3>2, <4>1 DEF Adding
      <4>3. \A s \in Requests : s # r => req'[s].pc \notin AddStages \cup CreateStages \cup TestStages
        BY <2>1, <3>1, NoneElse DEF AddStages, CreateStages, TestStages
      <4>4. \A s \in Requests : FlagHolds(s)'
        BY <3>2, <4>1, <4>3 DEF FlagHolds, AddStages, CreateStages, TestStages
      <4> QED BY <4>2, <4>4 DEF Claims, ObjectiveHolds
    <3>3. CASE Finish(r) /\ UNCHANGED testQuestions
      BY <1>3, <3>1, <3>3, ClaimsWhenFlagStays DEF Shrinks
    <3> QED BY <2>0, <2>4, <3>2, <3>3 DEF AddInsert, Becomes
  <2>5. CASE CreateCommit(r) /\ Inserts(r)
    <3>1. /\ req[r].pc = "create.commit" /\ UNCHANGED <<test, unchecked>>
          /\ req'[r].pc = "idle"
      BY <2>0, <2>5 DEF CreateCommit, Finish, Becomes, IdleSlot
    <3>2. \A s \in Requests : req'[s].pc \notin AddStages \cup CreateStages \cup TestStages
      BY <2>1, <3>1, NoneElse DEF AddStages, CreateStages, TestStages
    <3>3. \A s \in Requests : ~Adding(req[s])
      BY <3>1, NoneElse DEF Adding, AddStages, CreateStages
    <3>4. test.isObjective => unchecked \/ (NoneSubjective /\ req[r].questions \cap Subjective = {})
      BY <3>1, <3>3 DEF Claims, ObjectiveHolds, FlagHolds
    <3>5. \A x \in Rows : testQuestions'[x] = testQuestions[x]
                          \/ testQuestions'[x].question \in req[r].questions
      BY <2>5, InsertedRows DEF Inserts, Typed
    <3>6. test'.isObjective => unchecked' \/ NoneSubjective'
      BY <3>1, <3>4, <3>5 DEF NoneSubjective, Present
    <3> QED BY <3>2, <3>6 DEF Claims, ObjectiveHolds, FlagHolds, AddStages, CreateStages
  <2>6. CASE TestWrite(r) \/ TestInsert(r)
    BY <2>6, UpdateClaims
  <2>7. CASE /\ ~AddFlag(r) /\ ~CreateFlag(r) /\ ~TestWrite(r) /\ ~TestInsert(r)
             /\ Shrinks
    <3>1. /\ req[r].pc \notin {"add.flag", "create.flag"} /\ UNCHANGED unchecked
          /\ UNCHANGED test \/ DropTest(r)
      BY <1>3, <2>7 DEF Step, AddFind, AddInsert, AddCheck, CreateCheck, CreateCommit,
          RemoveAttempts, RemoveFind, RemoveDelete, StructureCheck, StructureCommit,
          NewSectionSave, SectionReload, SectionWrite, DropSectionAttempts, DropSectionRows,
          DropSection, TestReload, DropTestAttempts, DropTestRows, DropTest, NoAttempts
    <3>2. DropTest(r) => test'.isObjective = test.isObjective
      <4>1. DropTest(r) => UNCHANGED test \/ \E st : test' = [test EXCEPT !.status = st]
        BY DEF DropTest
      <4> QED BY <2>0, <4>1 DEF TestRow
    <3> QED BY <1>3, <2>7, <3>1, <3>2, ClaimsWhenFlagStays
  <2>8. Inserts(r) => AddInsert(r) \/ CreateCommit(r)
    BY <1>3 DEF Inserts, Step, AddFind, AddCheck, AddFlag, CreateCheck, CreateFlag,
        RemoveAttempts, RemoveFind, RemoveDelete, StructureCheck, StructureCommit,
        NewSectionSave, SectionReload, SectionWrite, DropSectionAttempts, DropSectionRows,
        DropSection, TestReload, TestWrite, TestInsert, DropTestAttempts, DropTestRows,
        DropTest, NoAttempts
  <2> QED BY <1>3, <2>2, <2>3, <2>4, <2>5, <2>6, <2>7, <2>8, RowsStep
<1>4. ASSUME NEW r \in Requests, Abort(r)
      PROVE  Claims'
  <2>1. UNCHANGED <<test, testQuestions>>
    BY <1>4, BeginKeepsTables
  <2>2. NoneSubjective' <=> NoneSubjective
    BY <2>1 DEF NoneSubjective, Present
  <2>3. /\ \A s \in Requests : s # r => req'[s] = req[s]
        /\ req'[r].pc = "idle"
        /\ unchecked => unchecked'
        /\ Adding(req[r]) /\ test.isObjective => unchecked'
    BY <1>4 DEF Abort, Finish, Becomes, IdleSlot, Typed, TypeOK, Adding
  <2>4. \A s \in Requests : FlagHolds(s)'
    BY <2>1, <2>2, <2>3 DEF Claims, FlagHolds, TestStages
  <2>5. ObjectiveHolds'
    BY <2>1, <2>2, <2>3 DEF Claims, ObjectiveHolds
  <2> QED BY <2>4, <2>5 DEF Claims
<1>5. CASE AttemptStarts
  BY <1>5
  DEF AttemptStarts, paper, Claims, ObjectiveHolds, NoneSubjective, Present, FlagHolds, Adding
<1> QED BY <1>1, <1>2, <1>3, <1>4, <1>5 DEF Next

\* A test that counts as objective has no question for a reviewer, but while an
\* addition has yet to compute that anew and until the next one does if it was cut
\* off or an author has said so, if additions overlap neither each other nor an
\* update of the test: removals, moves, sections and overlapping updates keep it so.
THEOREM ObjectiveIsTrue ==
  ASSUME AdditionsApart, UpdatesApart
  PROVE  Spec => []ObjectiveHolds
<1>1. Claims => ObjectiveHolds
  BY DEF Claims
<1>2. Spec => []Claims
  BY TypedInit, TypedStep, ApartInit, ApartStep, ClaimsInit, ClaimsStep, PTL DEF Spec
<1> QED BY <1>1, <1>2, PTL
=============================================================================
