------------------------------- MODULE Caches -------------------------------
(***************************************************************************)
(* The two caches of src/modules/tests/tests.service.ts in Redis and the   *)
(* requests that fill and clear them.                                      *)
(*                                                                         *)
(* The hierarchy of a test is read through: getTestHierarchy stores what   *)
(* it read from the database, and every edit deletes the entry of each     *)
(* test it changes once it has written.  The list of tests is kept under a *)
(* key with a version in it: an edit of a test moves the version on with a *)
(* get and a set, and entries under an older version are left to expire.   *)
(* A start of a rule-based test adds a test to the list without that.      *)
(***************************************************************************)
EXTENDS Naturals, FiniteSets

CONSTANTS
    Requests,   \* slots for requests being handled
    Tests,
    Questions,
    MaxEdits,   \* bound: how many writes there may be
    Overlap,    \* sets of kinds of request that may be in flight together
    Faults,     \* what may go wrong: see FaultKinds
    NULL

Kinds == {"hierarchy", "list", "test", "paper", "question"}

\* Redis does not answer, a request ends before it is done, the version key
\* reaches the end of its seven days while entries of the list are alive, an
\* update of a question is refused after it has been written.
FaultKinds == {"redis", "abort", "expiry", "refused"}

ASSUME CachesAssumption ==
    /\ MaxEdits \in Nat
    /\ Overlap \subseteq SUBSET Kinds
    /\ Faults \subseteq FaultKinds
    /\ NULL \notin Kinds \cup Tests \cup Questions

Versions == 0 .. MaxEdits

\* A row of tests: its isObjective, and one number for the other columns, which
\* every write to them moves on.
TestRow == [edit: Versions, objective: BOOLEAN]
Rows == [Tests -> TestRow]

NoRow == [edit |-> 0, objective |-> FALSE]
NoRows == [t \in Tests |-> NoRow]

\* A list of tests: the rows, and how many tests that starts generated.
List == [tests: Rows, generated: Versions]
NoList == [tests |-> NoRows, generated |-> 0]

\* The texts and options of some questions, one number for each.
Texts == UNION {[S -> Versions] : S \in SUBSET Questions}
NoTexts == [q \in {} |-> 0]

\* A hierarchy: the test's row and the questions of its sections.
Hierarchy == [row: TestRow, texts: Texts]

Stages == {"idle", "h.get", "h.row", "h.paper", "h.texts", "h.store",
           "l.version", "l.get", "l.query", "l.store",
           "create", "flag", "more", "drop", "bump.get", "bump.set"}

Slot == [kind: Kinds \cup {NULL}, pc: Stages,
         test: Tests \cup {NULL}, question: Questions \cup {NULL},
         row: TestRow, paper: SUBSET Questions, texts: Texts,
         overtaken: BOOLEAN, list: List, version: Versions, todo: SUBSET Tests]

IdleSlot == [kind |-> NULL, pc |-> "idle", test |-> NULL, question |-> NULL,
             row |-> NoRow, paper |-> {}, texts |-> NoTexts, overtaken |-> FALSE,
             list |-> NoList, version |-> 0, todo |-> {}]

VARIABLES
    row,       \* tests: the row of each test
    paper,     \* testQuestions: the questions of each test
    text,      \* questions and their options: the version of each
    generated, \* tests: how many rows starts have added to those
    edits,     \* writes so far, those of isObjective not counted
    hier,      \* Redis test_hierarchy:<test>: a hierarchy or NULL
    late,      \* auxiliary: entries of hier stored by a read an edit overtook
    version,   \* Redis tests:list:version, 0 when there is none
    lists,     \* Redis tests:v<n>:<query>: a list of tests or NULL
    announced, \* auxiliary: generated when the version was last moved on
    req        \* the request slots

dbvars == <<row, paper, text, generated, edits>>
hiervars == <<hier, late>>
listvars == <<version, lists, announced>>
vars == <<dbvars, hiervars, listvars, req>>

TypeOK ==
    /\ row \in Rows
    /\ paper \in [Tests -> SUBSET Questions]
    /\ text \in [Questions -> Versions]
    /\ generated \in Versions
    /\ edits \in Versions
    /\ hier \in [Tests -> Hierarchy \cup {NULL}]
    /\ late \in SUBSET Tests
    /\ version \in Versions
    /\ lists \in [Versions -> List \cup {NULL}]
    /\ announced \in Versions
    /\ req \in [Requests -> Slot]

Init ==
    /\ row = NoRows
    /\ paper \in [Tests -> SUBSET Questions]
    /\ text = [q \in Questions |-> 0]
    /\ generated = 0
    /\ edits = 0
    /\ hier = [t \in Tests |-> NULL]
    /\ late = {}
    /\ version = 0
    /\ lists = [n \in Versions |-> NULL]
    /\ announced = 0
    /\ req = [r \in Requests |-> IdleSlot]

\* What the database holds of test t, whole and now.
Current(t) == [row |-> row[t], texts |-> [q \in paper[t] |-> text[q]]]

MayBegin(r, k) ==
    /\ req[r].pc = "idle"
    /\ \A s \in Requests : req[s].pc # "idle" => {k, req[s].kind} \in Overlap

Becomes(r, slot) == req' = [req EXCEPT ![r] = slot]

Finish(r) == Becomes(r, IdleSlot)

-----------------------------------------------------------------------------
(***************************************************************************)
(* getTestHierarchy: the entry, or else the test's row, its testQuestions  *)
(* and the questions, one query after the other, and then the store.       *)
(***************************************************************************)
HierarchyBegin(r, t) ==
    /\ MayBegin(r, "hierarchy")
    /\ Becomes(r, [IdleSlot EXCEPT !.kind = "hierarchy", !.pc = "h.get",
                                   !.test = t])
    /\ UNCHANGED <<dbvars, hiervars, listvars>>

\* Mutant of HierarchyGet: what was found is stored once more.
HierarchyGetAndKeep(r) ==
    LET t == req[r].test
    IN  /\ req[r].pc = "h.get"
        /\ IF hier[t] # NULL
           THEN Becomes(r, [req[r] EXCEPT !.pc = "h.store", !.row = hier[t].row,
                                          !.texts = hier[t].texts])
           ELSE Becomes(r, [req[r] EXCEPT !.pc = "h.row"])
        /\ UNCHANGED <<dbvars, hiervars, listvars>>

HierarchyGet(r) ==
    /\ req[r].pc = "h.get"
    /\ \/ hier[req[r].test] # NULL /\ Finish(r)
       \/ /\ hier[req[r].test] = NULL \/ "redis" \in Faults
          /\ Becomes(r, [req[r] EXCEPT !.pc = "h.row"])
    /\ UNCHANGED <<dbvars, hiervars, listvars>>

ReadRow(r) ==
    /\ req[r].pc = "h.row"
    /\ Becomes(r, [req[r] EXCEPT !.pc = "h.paper", !.row = row[req[r].test]])
    /\ UNCHANGED <<dbvars, hiervars, listvars>>

ReadPaper(r) ==
    /\ req[r].pc = "h.paper"
    /\ Becomes(r, [req[r] EXCEPT !.pc = "h.texts", !.paper = paper[req[r].test]])
    /\ UNCHANGED <<dbvars, hiervars, listvars>>

ReadTexts(r) ==
    /\ req[r].pc = "h.texts"
    /\ Becomes(r, [req[r] EXCEPT !.pc = "h.store",
                                 !.texts = [q \in req[r].paper |-> text[q]]])
    /\ UNCHANGED <<dbvars, hiervars, listvars>>

HierarchyStore(r) ==
    LET t == req[r].test
    IN  /\ req[r].pc = "h.store"
        /\ \/ /\ hier' = [hier EXCEPT ![t] = [row |-> req[r].row,
                                              texts |-> req[r].texts]]
              /\ late' = IF req[r].overtaken THEN late \cup {t} ELSE late \ {t}
           \/ "redis" \in Faults /\ UNCHANGED hiervars
        /\ Finish(r)
        /\ UNCHANGED <<dbvars, listvars>>

-----------------------------------------------------------------------------
(***************************************************************************)
(* findAll: the version, the entry under that version, or else the query   *)
(* and the store under the version that was read first.                    *)
(***************************************************************************)
ListBegin(r) ==
    /\ MayBegin(r, "list")
    /\ Becomes(r, [IdleSlot EXCEPT !.kind = "list", !.pc = "l.version"])
    /\ UNCHANGED <<dbvars, hiervars, listvars>>

ListVersion(r) ==
    /\ req[r].pc = "l.version"
    /\ Becomes(r, [req[r] EXCEPT !.pc = "l.get", !.version = version])
    /\ UNCHANGED <<dbvars, hiervars, listvars>>

ListGet(r) ==
    /\ req[r].pc = "l.get"
    /\ IF lists[req[r].version] # NULL
       THEN Finish(r)
       ELSE Becomes(r, [req[r] EXCEPT !.pc = "l.query"])
    /\ UNCHANGED <<dbvars, hiervars, listvars>>

\* What the database holds of all tests.  The query asks for no type.
Listed == [tests |-> row, generated |-> generated]

ListQuery(r) ==
    /\ req[r].pc = "l.query"
    /\ Becomes(r, [req[r] EXCEPT !.pc = "l.store", !.list = Listed])
    /\ UNCHANGED <<dbvars, hiervars, listvars>>

\* Mutant of ListStore: under the version of now.
ListStoreLatest(r) ==
    /\ req[r].pc = "l.store"
    /\ lists' = [lists EXCEPT ![version] = req[r].list]
    /\ Finish(r)
    /\ UNCHANGED <<dbvars, hiervars, version, announced>>

ListStore(r) ==
    /\ req[r].pc = "l.store"
    /\ lists' = [lists EXCEPT ![req[r].version] = req[r].list]
    /\ Finish(r)
    /\ UNCHANGED <<dbvars, hiervars, version, announced>>

-----------------------------------------------------------------------------
(***************************************************************************)
(* The edits.  Writes come first, then the deletion of every hierarchy     *)
(* that shows what was written, then for a test the version of the list.   *)
(***************************************************************************)
\* The reads of a hierarchy in T that are past their first query are overtaken
\* by a write; r goes on as slot.
Overtakes(r, slot, T) ==
    req' = [s \in Requests |->
               IF s = r THEN slot
               ELSE IF req[s].test \in T /\ req[s].pc \in {"h.paper", "h.texts", "h.store"}
               THEN [req[s] EXCEPT !.overtaken = TRUE]
               ELSE req[s]]

Writes(r, slot, T) ==
    /\ edits < MaxEdits
    /\ edits' = edits + 1
    /\ Overtakes(r, slot, T)

\* The edits of authors, create, update, remove and cloneTest of tests.service:
\* being there and being archived are in the row's number too.
EditTest(r, t) ==
    /\ MayBegin(r, "test")
    /\ row' = [row EXCEPT ![t].edit = edits + 1]
    /\ Writes(r, [IdleSlot EXCEPT !.kind = "test", !.pc = "drop", !.todo = {t}], {t})
    /\ UNCHANGED <<paper, text, generated, hiervars, listvars>>

\* startAttempt of a rule-based test commits a published test of type GENERATED,
\* and tells neither cache.
GenerateTest ==
    /\ edits < MaxEdits
    /\ edits' = edits + 1
    /\ generated' = generated + 1
    /\ UNCHANGED <<row, paper, text, hiervars, listvars, req>>

\* The questions a test shows become S: some are added to it or taken out of it,
\* or a section is archived, removed or brought back.  Only the handlers that
\* add questions go on to write isObjective: which value it gets follows from
\* the types of the questions, not kept here.
EditPaper(r, t, S) ==
    /\ MayBegin(r, "paper")
    /\ S # paper[t]
    /\ paper' = [paper EXCEPT ![t] = S]
    /\ \E pc \in IF paper[t] \subseteq S THEN {"flag", "drop"} ELSE {"drop"} :
          Writes(r, [IdleSlot EXCEPT !.kind = "paper", !.pc = pc, !.todo = {t}], {t})
    /\ UNCHANGED <<row, text, generated, hiervars, listvars>>

WriteObjective(r) ==
    /\ req[r].pc = "flag"
    /\ \E t \in req[r].todo, b \in BOOLEAN :
          /\ row' = [row EXCEPT ![t].objective = b]
          /\ Overtakes(r, [req[r] EXCEPT !.pc = "drop"], {t})
    /\ UNCHANGED <<paper, text, generated, edits, hiervars, listvars>>

\* create of questions.service for a test: isObjective is written by a connection
\* of its own before the transaction that puts the question into the test commits.
CreateQuestion(r, t) ==
    /\ MayBegin(r, "paper")
    /\ \E b \in BOOLEAN : row' = [row EXCEPT ![t].objective = b]
    /\ Writes(r, [IdleSlot EXCEPT !.kind = "paper", !.pc = "create", !.todo = {t}], {t})
    /\ UNCHANGED <<paper, text, generated, hiervars, listvars>>

CommitQuestion(r) ==
    /\ req[r].pc = "create"
    /\ \E t \in req[r].todo, q \in Questions :
          /\ paper' = [paper EXCEPT ![t] = @ \cup {q}]
          /\ Overtakes(r, [req[r] EXCEPT !.pc = "drop"], {t})
    /\ UNCHANGED <<row, text, generated, edits, hiervars, listvars>>

Showing(q) == {t \in Tests : q \in paper[t]}

\* questions.service update and remove: the question, then perhaps its options
\* and its testQuestions.
EditQuestion(r, q) ==
    /\ MayBegin(r, "question")
    /\ text' = [text EXCEPT ![q] = edits + 1]
    /\ Writes(r, [IdleSlot EXCEPT !.kind = "question", !.pc = "more",
                                  !.question = q], Showing(q))
    /\ UNCHANGED <<row, paper, generated, hiervars, listvars>>

EditOptions(r) ==
    LET q == req[r].question
    IN  /\ req[r].pc = "more"
        /\ text' = [text EXCEPT ![q] = edits + 1]
        /\ Writes(r, req[r], Showing(q))
        /\ UNCHANGED <<row, paper, generated, hiervars, listvars>>

\* Mutant of FindTests: one of the tests instead of all.
FindOneTest(r) ==
    LET T == Showing(req[r].question)
    IN  /\ req[r].pc = "more"
        /\ Becomes(r, [req[r] EXCEPT !.pc = "drop",
                          !.todo = IF T = {} THEN {} ELSE {CHOOSE t \in T : TRUE}])
        /\ UNCHANGED <<dbvars, hiervars, listvars>>

FindTests(r) ==
    /\ req[r].pc = "more"
    /\ Becomes(r, [req[r] EXCEPT !.pc = "drop", !.todo = Showing(req[r].question)])
    /\ UNCHANGED <<dbvars, hiervars, listvars>>

\* What comes after the deletion of the entries of all but the tests in T.
AfterDrop(q, T) ==
    IF T # {} THEN [q EXCEPT !.todo = T]
    ELSE IF q.kind = "test" THEN [q EXCEPT !.todo = {}, !.pc = "bump.get"]
    ELSE IdleSlot

Drop(r) ==
    /\ req[r].pc = "drop"
    /\ \/ req[r].todo = {} /\ Finish(r) /\ UNCHANGED hiervars
       \/ \E t \in req[r].todo :
             /\ Becomes(r, AfterDrop(req[r], req[r].todo \ {t}))
             /\ \/ hier' = [hier EXCEPT ![t] = NULL] /\ late' = late \ {t}
                \/ "redis" \in Faults /\ UNCHANGED hiervars
    /\ UNCHANGED <<dbvars, listvars>>

BumpGet(r) ==
    /\ req[r].pc = "bump.get"
    /\ Becomes(r, [req[r] EXCEPT !.pc = "bump.set", !.version = version])
    /\ UNCHANGED <<dbvars, hiervars, listvars>>

\* Mutant of BumpSet: one too far.
BumpSetTwice(r) ==
    /\ req[r].pc = "bump.set"
    /\ version' = req[r].version + 2
    /\ Finish(r)
    /\ announced' = generated
    /\ UNCHANGED <<dbvars, hiervars, lists>>

BumpSet(r) ==
    /\ req[r].pc = "bump.set"
    /\ version' = req[r].version + 1
    /\ Finish(r)
    /\ announced' = generated
    /\ UNCHANGED <<dbvars, hiervars, lists>>

-----------------------------------------------------------------------------
(***************************************************************************)
(* Redis drops what has reached its time to live, and requests fail.  A    *)
(* failure of Redis in the invalidations is logged and swallowed; one in   *)
(* findAll ends the request, as any failure of the database does.  An      *)
(* update of a question is refused after the question was saved when it    *)
(* names a section the question is not in, and then clears nothing.        *)
(***************************************************************************)
ExpireHierarchy(t) ==
    /\ hier[t] # NULL
    /\ hier' = [hier EXCEPT ![t] = NULL]
    /\ late' = late \ {t}
    /\ UNCHANGED <<dbvars, listvars, req>>

ExpireList(n) ==
    /\ lists[n] # NULL
    /\ lists' = [lists EXCEPT ![n] = NULL]
    /\ UNCHANGED <<dbvars, hiervars, version, announced, req>>

ExpireVersion ==
    /\ "expiry" \in Faults
    /\ version # 0
    /\ version' = 0
    /\ UNCHANGED <<dbvars, hiervars, lists, announced, req>>

Abort(r) ==
    /\ req[r].pc # "idle"
    /\ \/ "abort" \in Faults
       \/ "refused" \in Faults /\ req[r].pc = "more"
       \/ "redis" \in Faults /\ req[r].pc \in {"l.version", "l.get", "l.store",
                                               "bump.get", "bump.set"}
    /\ Finish(r)
    /\ UNCHANGED <<dbvars, hiervars, listvars>>

-----------------------------------------------------------------------------
Begin(r) ==
    \/ ListBegin(r)
    \/ \E t \in Tests : HierarchyBegin(r, t) \/ EditTest(r, t) \/ CreateQuestion(r, t)
    \/ \E t \in Tests, S \in SUBSET Questions : EditPaper(r, t, S)
    \/ \E q \in Questions : EditQuestion(r, q)

\* The steps a request takes by itself once it has begun.
Step(r) ==
    \/ HierarchyGet(r) \/ ReadRow(r) \/ ReadPaper(r) \/ ReadTexts(r)
    \/ HierarchyStore(r)
    \/ ListVersion(r) \/ ListGet(r) \/ ListQuery(r) \/ ListStore(r)
    \/ WriteObjective(r) \/ CommitQuestion(r) \/ EditOptions(r) \/ FindTests(r)
    \/ Drop(r) \/ BumpGet(r) \/ BumpSet(r)
    \/ Abort(r)

Next ==
    \/ \E r \in Requests : Begin(r) \/ Step(r)
    \/ \E t \in Tests : ExpireHierarchy(t)
    \/ \E n \in Versions : ExpireList(n)
    \/ GenerateTest \/ ExpireVersion

Spec == Init /\ [][Next]_vars

\* A request that has begun goes on, since every await ends in a result or an
\* error, and an entry that stays reaches the end of its time to live.
FairSpec ==
    /\ Spec
    /\ \A r \in Requests : WF_vars(Step(r))
    /\ \A t \in Tests : WF_vars(ExpireHierarchy(t))
    /\ \A n \in Versions : WF_vars(ExpireList(n))

-----------------------------------------------------------------------------
\* Request s is on its way to delete the hierarchy of test t.
WillDrop(s, t) ==
    \/ t \in s.todo
    \/ s.pc = "more" /\ t \in Showing(s.question)

\* When Redis answers, a hierarchy in the cache that is not what the database
\* holds will be deleted by an edit under way, or was stored by a read that an
\* edit overtook: every edit clears every test that shows what it changed.
StaleIsDroppedOrLate ==
    \A t \in Tests : hier[t] # NULL /\ t \notin late =>
        \/ hier[t] = Current(t)
        \/ \E r \in Requests : WillDrop(req[r], t)

Bumping(s) == s.kind = "test" /\ s.pc \in {"drop", "bump.get", "bump.set"}

\* The list under the current version shows authors' tests as the database holds
\* them, isObjective aside, unless an edit of one has yet to move the version on:
\* "bumping the list version so all existing list cache keys become obsolete".  Of
\* generated tests it shows all that were there when it was last moved on; those
\* that have come since may be missing.
ListFresh ==
    lists[version] # NULL =>
        /\ \/ \A t \in Tests : lists[version].tests[t].edit = row[t].edit
           \/ \E r \in Requests : Bumping(req[r])
        /\ lists[version].generated >= announced

\* Whatever fails and whatever overlaps, once the edits have ceased the caches
\* hold in the end what the database holds, and nothing else again.
SettlesFresh ==
    <>[](/\ \A t \in Tests : hier[t] \in {NULL, Current(t)}
         /\ lists[version] \in {NULL, Listed})
=============================================================================
