---------------------------- MODULE CachesProofs ----------------------------
(***************************************************************************)
(* What the caches guarantee for any tests, questions and edits, and any   *)
(* number of requests in flight.                                           *)
(***************************************************************************)
EXTENDS Caches, FiniteSetTheorems, TLAPS

(***************************************************************************)
(* Type correctness.  Each stage belongs to one kind of request.           *)
(***************************************************************************)
HierarchyStages == {"h.get", "h.row", "h.paper", "h.texts", "h.store"}
ListStages == {"l.version", "l.get", "l.query", "l.store"}
BumpStages == {"bump.get", "bump.set"}

Form(s) ==
    /\ s.pc = "idle" => s = IdleSlot
    /\ s.pc \in HierarchyStages => s.kind = "hierarchy" /\ s.test \in Tests /\ s.todo = {}
    /\ s.pc \in ListStages => s.kind = "list" /\ s.todo = {}
    /\ s.pc = "more" => s.kind = "question" /\ s.question \in Questions /\ s.todo = {}
    /\ s.pc \in {"create", "flag"} => s.kind = "paper" /\ \E t \in Tests : s.todo = {t}
    /\ s.pc = "drop" => s.kind \in {"test", "paper", "question"}
                        /\ (s.kind = "test" => s.todo # {})
    /\ s.pc \in BumpStages => s.kind = "test" /\ s.todo = {}

Formed == \A r \in Requests : Form(req[r])

\* Every edit of a test moves the version on at most once, so that the version
\* and what it will be set to leave room for the edits that have yet to.
Bumpers == {r \in Requests : Bumping(req[r])}

Ahead(n) == n + Cardinality(Bumpers) <= edits

Counted ==
    /\ IsFiniteSet(Bumpers)
    /\ Ahead(version)
    /\ \A r \in Requests : req[r].pc = "bump.set" => Ahead(req[r].version)
    /\ announced <= generated /\ generated <= edits

Typed == TypeOK /\ Formed /\ Counted

LEMMA IdleTyped == IdleSlot \in Slot /\ Form(IdleSlot) /\ ~Bumping(IdleSlot)
<1>1. NoTexts \in Texts
  <2>1. NoTexts \in [{} -> Versions]
    BY DEF NoTexts
  <2> QED BY <2>1 DEF Texts
<1>2. IdleSlot \in Slot
  BY <1>1, CachesAssumption
     DEF IdleSlot, Slot, Stages, NoRow, NoRows, Rows, TestRow, NoList, List, Versions
<1>3. Form(IdleSlot) /\ ~Bumping(IdleSlot)
  BY DEF IdleSlot, Form, Bumping, HierarchyStages, ListStages, BumpStages
<1> QED BY <1>2, <1>3

LEMMA TypedInit == Init => Typed
<1> SUFFICES ASSUME Init PROVE Typed
  OBVIOUS
<1>1. TypeOK
  BY IdleTyped, CachesAssumption
     DEF Init, TypeOK, Versions, NoRow, NoRows, Rows, TestRow
<1>2. Formed
  BY IdleTyped DEF Init, Formed
<1>3. Bumpers = {}
  BY IdleTyped DEF Init, Bumpers
<1>4. Counted
  BY <1>3, FS_EmptySet DEF Init, Counted, Ahead, IdleSlot
<1> QED BY <1>1, <1>2, <1>4 DEF Typed

\* A request goes on as s and its neighbours stay, but for being overtaken.
Moves(r, s) ==
    /\ req' = [x \in Requests |-> req'[x]]
    /\ req'[r] = s
    /\ \A x \in Requests \ {r} :
          \/ req'[x] = req[x]
          \/ req[x].pc \in HierarchyStages /\ req'[x] = [req[x] EXCEPT !.overtaken = TRUE]

LEMMA BecomesMoves ==
  ASSUME TypeOK, NEW r \in Requests, NEW s, Becomes(r, s)
  PROVE  Moves(r, s)
  BY DEF TypeOK, Becomes, Moves

LEMMA OvertakesMoves ==
  ASSUME NEW r \in Requests, NEW s, NEW T, Overtakes(r, s, T)
  PROVE  Moves(r, s)
  BY DEF Overtakes, Moves, HierarchyStages

LEMMA MovesTyped ==
  ASSUME Typed, NEW r \in Requests, NEW s \in Slot, Form(s), Moves(r, s)
  PROVE  /\ req' \in [Requests -> Slot]
         /\ Formed'
         /\ \A x \in Requests \ {r} : /\ req'[x].pc = req[x].pc
                                      /\ req'[x].kind = req[x].kind
                                      /\ req'[x].todo = req[x].todo
                                      /\ req'[x].version = req[x].version
                                      /\ req'[x].list = req[x].list
                                      /\ req'[x].question = req[x].question
<1>0. req \in [Requests -> Slot]
  BY DEF Typed, TypeOK
<1>1. \A x \in Requests \ {r} : req'[x] \in Slot
  <2> SUFFICES ASSUME NEW x \in Requests \ {r} PROVE req'[x] \in Slot
    OBVIOUS
  <2>1. req[x] \in Slot
    BY <1>0
  <2>2. [req[x] EXCEPT !.overtaken = TRUE] \in Slot
    BY <2>1 DEF Slot
  <2> QED BY <2>1, <2>2 DEF Moves
<1>2. \A x \in Requests \ {r} : /\ req'[x].pc = req[x].pc
                                /\ req'[x].kind = req[x].kind
                                /\ req'[x].todo = req[x].todo
                                /\ req'[x].version = req[x].version
                                /\ req'[x].list = req[x].list
                                /\ req'[x].question = req[x].question
                                /\ req'[x].test = req[x].test
  BY <1>0 DEF Moves, Slot
<1>3. req' \in [Requests -> Slot]
  <2>1. \A x \in Requests : req'[x] \in Slot
    BY <1>1 DEF Moves
  <2> QED BY <2>1 DEF Moves
<1>4. Formed'
  <2> SUFFICES ASSUME NEW x \in Requests PROVE Form(req'[x])
    BY DEF Formed
  <2>1. CASE x = r
    BY <2>1 DEF Moves
  <2>2. CASE req'[x] = req[x]
    BY <2>2 DEF Typed, Formed
  <2>3. CASE x # r /\ req[x].pc \in HierarchyStages
    BY <1>2, <2>3 DEF Typed, Formed, Form, HierarchyStages, ListStages, BumpStages
  <2> QED BY <2>1, <2>2, <2>3 DEF Moves
<1> QED BY <1>2, <1>3, <1>4
\* Ahead in the next state, when no request begins to move the version on.
LEMMA FewerBumpers ==
  ASSUME Typed, Bumpers' \subseteq Bumpers, edits' \in Nat, edits' >= edits
  PROVE  /\ IsFiniteSet(Bumpers)'
         /\ \A n \in Nat : Ahead(n) => n + Cardinality(Bumpers') <= edits'
         /\ \A r \in Bumpers \ Bumpers', n \in Nat :
               Ahead(n) => n + 1 + Cardinality(Bumpers') <= edits'
<1>1. IsFiniteSet(Bumpers) /\ IsFiniteSet(Bumpers')
  BY FS_Subset DEF Typed, Counted
<1>2. Cardinality(Bumpers') <= Cardinality(Bumpers)
  BY <1>1, FS_Subset
<1>3. Cardinality(Bumpers) \in Nat /\ Cardinality(Bumpers') \in Nat /\ edits \in Nat
  BY <1>1, FS_CardinalityType, CachesAssumption DEF Typed, TypeOK, Versions
<1>4. \A r \in Bumpers \ Bumpers' : Cardinality(Bumpers') + 1 <= Cardinality(Bumpers)
  <2> SUFFICES ASSUME NEW r \in Bumpers \ Bumpers'
               PROVE  Cardinality(Bumpers') + 1 <= Cardinality(Bumpers)
    OBVIOUS
  <2>1. Bumpers' \subseteq Bumpers \ {r}
    OBVIOUS
  <2>2. IsFiniteSet(Bumpers \ {r}) /\ Cardinality(Bumpers \ {r}) = Cardinality(Bumpers) - 1
    BY <1>1, FS_RemoveElement
  <2>3. Cardinality(Bumpers') <= Cardinality(Bumpers \ {r})
    BY <2>1, <2>2, FS_Subset
  <2> QED BY <1>3, <2>2, <2>3
<1>5. \A n \in Nat : Ahead(n) => n + Cardinality(Bumpers') <= edits'
  BY <1>2, <1>3 DEF Ahead
<1>6. \A r \in Bumpers \ Bumpers', n \in Nat :
               Ahead(n) => n + 1 + Cardinality(Bumpers') <= edits'
  BY <1>3, <1>4 DEF Ahead
<1> QED BY <1>1, <1>5, <1>6

LEMMA VersionFits ==
  ASSUME Counted, edits \in Versions, NEW n \in Nat, Ahead(n)
  PROVE  n \in Versions /\ (Bumpers # {} => n + 1 \in Versions)
<1>1. Cardinality(Bumpers) \in Nat /\ (Bumpers # {} => Cardinality(Bumpers) # 0)
  BY FS_CardinalityType, FS_EmptySet DEF Counted
<1> QED BY <1>1, CachesAssumption DEF Ahead, Versions

\* A request goes on as s without beginning to move the version on.
LEMMA StepCounts ==
  ASSUME Typed, NEW r \in Requests, NEW s \in Slot, Form(s), Moves(r, s),
         Bumping(s) => Bumping(req[r]),
         s.pc = "bump.set" => Ahead(s.version),
         edits' \in Versions, edits' >= edits, version' = version,
         UNCHANGED <<generated, announced>>
  PROVE  Counted'
<1>1. \A x \in Requests \ {r} : /\ Bumping(req'[x]) <=> Bumping(req[x])
                                /\ req'[x].pc = req[x].pc
                                /\ req'[x].version = req[x].version
  BY MovesTyped DEF Bumping
<1>2. Bumpers' \subseteq Bumpers
  BY <1>1 DEF Moves, Bumpers
<1>3. \A n \in Nat : Ahead(n) => n + Cardinality(Bumpers') <= edits'
  BY <1>2, FewerBumpers, CachesAssumption DEF Versions
<1>4. version \in Nat /\ \A x \in Requests : req[x].version \in Nat
  BY CachesAssumption DEF Typed, TypeOK, Slot, Versions
<1>5. s.version \in Nat
  BY CachesAssumption DEF Slot, Versions
<1>6. \A x \in Requests : req'[x].pc = "bump.set" => /\ Ahead(req'[x].version)
                                                      /\ req'[x].version \in Nat
  BY <1>1, <1>4, <1>5 DEF Moves, Typed, Counted
<1>7. IsFiniteSet(Bumpers)'
  BY <1>2, FewerBumpers, CachesAssumption DEF Versions
<1>8. version' + Cardinality(Bumpers') <= edits'
  BY <1>3, <1>4 DEF Typed, Counted
<1>9. announced' <= generated' /\ generated' <= edits'
  BY CachesAssumption DEF Typed, TypeOK, Counted, Versions
<1> QED BY <1>3, <1>6, <1>7, <1>8, <1>9 DEF Counted, Ahead

\* The steps that write nothing but their own slot.
Quiet(r) ==
    \/ ListBegin(r) \/ \E t \in Tests : HierarchyBegin(r, t)
    \/ HierarchyGet(r) \/ ReadRow(r) \/ ReadPaper(r) \/ ReadTexts(r)
    \/ ListVersion(r) \/ ListGet(r) \/ ListQuery(r)
    \/ FindTests(r) \/ BumpGet(r) \/ Abort(r)

LEMMA TextsTyped ==
  ASSUME NEW S \in SUBSET Questions, text \in [Questions -> Versions]
  PROVE  [q \in S |-> text[q]] \in Texts
<1>1. [q \in S |-> text[q]] \in [S -> Versions]
  OBVIOUS
<1> QED BY <1>1 DEF Texts

LEMMA QuietShape ==
  ASSUME Typed, NEW r \in Requests, Quiet(r)
  PROVE  \E s \in Slot : /\ Becomes(r, s)
                         /\ Form(s)
                         /\ Bumping(s) => Bumping(req[r])
                         /\ s.pc = "bump.set" => Ahead(s.version)
<1> DEFINE Good(s) == /\ s \in Slot
                      /\ Form(s)
                      /\ Bumping(s) => Bumping(req[r])
                      /\ s.pc = "bump.set" => Ahead(s.version)
<1>0. req[r] \in Slot /\ Form(req[r]) /\ Ahead(version)
  BY DEF Typed, TypeOK, Formed, Counted
<1>1. Good(IdleSlot)
  BY IdleTyped DEF IdleSlot
<1>2. CASE Finish(r)
  BY <1>1, <1>2 DEF Finish
<1>3. CASE ListBegin(r)
  <2> DEFINE s == [IdleSlot EXCEPT !.kind = "list", !.pc = "l.version"]
  <2>1. s \in Slot
    BY IdleTyped DEF Slot, Stages, Kinds
  <2>2. Form(s) /\ s.pc = "l.version"
    BY DEF IdleSlot, Form, HierarchyStages, ListStages, BumpStages
  <2> QED BY <1>3, <2>1, <2>2 DEF ListBegin, Bumping
<1>4. ASSUME NEW t \in Tests, HierarchyBegin(r, t)
      PROVE  \E s : Good(s) /\ Becomes(r, s)
  <2> DEFINE s == [IdleSlot EXCEPT !.kind = "hierarchy", !.pc = "h.get", !.test = t]
  <2>1. s \in Slot
    BY IdleTyped DEF Slot, Stages, Kinds
  <2>2. Form(s) /\ s.pc = "h.get"
    BY DEF IdleSlot, Form, HierarchyStages, ListStages, BumpStages
  <2> QED BY <1>4, <2>1, <2>2 DEF HierarchyBegin, Bumping
<1>5. CASE HierarchyGet(r)
  <2> DEFINE s == [req[r] EXCEPT !.pc = "h.row"]
  <2>1. req[r].pc = "h.get" /\ s \in Slot
    BY <1>0, <1>5 DEF HierarchyGet, Slot, Stages
  <2>2. Form(s) /\ s.pc = "h.row"
    BY <1>0, <2>1 DEF Slot, Form, HierarchyStages, ListStages, BumpStages
  <2>3. Good(s)
    BY <2>1, <2>2 DEF Bumping
  <2> QED BY <1>2, <1>5, <2>3 DEF HierarchyGet
<1>6. CASE ReadRow(r)
  <2> DEFINE s == [req[r] EXCEPT !.pc = "h.paper", !.row = row[req[r].test]]
  <2>1. req[r].pc = "h.row" /\ req[r].test \in Tests
    BY <1>0, <1>6 DEF ReadRow, Form, HierarchyStages
  <2>2. s \in Slot
    BY <1>0, <2>1 DEF Typed, TypeOK, Rows, Slot, Stages
  <2>3. Form(s) /\ s.pc = "h.paper"
    BY <1>0, <2>1 DEF Slot, Form, HierarchyStages, ListStages, BumpStages
  <2> QED BY <1>6, <2>2, <2>3 DEF ReadRow, Bumping
<1>7. CASE ReadPaper(r)
  <2> DEFINE s == [req[r] EXCEPT !.pc = "h.texts", !.paper = paper[req[r].test]]
  <2>1. req[r].pc = "h.paper" /\ req[r].test \in Tests
    BY <1>0, <1>7 DEF ReadPaper, Form, HierarchyStages
  <2>2. s \in Slot
    BY <1>0, <2>1 DEF Typed, TypeOK, Slot, Stages
  <2>3. Form(s) /\ s.pc = "h.texts"
    BY <1>0, <2>1 DEF Slot, Form, HierarchyStages, ListStages, BumpStages
  <2> QED BY <1>7, <2>2, <2>3 DEF ReadPaper, Bumping
<1>8. CASE ReadTexts(r)
  <2> DEFINE f == [q \in req[r].paper |-> text[q]]
             s == [req[r] EXCEPT !.pc = "h.store", !.texts = f]
  <2>1. req[r].pc = "h.texts" /\ req[r].paper \in SUBSET Questions
    BY <1>0, <1>8 DEF ReadTexts, Slot
  <2>2. f \in Texts
    BY <2>1, TextsTyped DEF Typed, TypeOK
  <2> HIDE DEF f
  <2>3. s \in Slot
    BY <1>0, <2>2 DEF Slot, Stages
  <2>4. Form(s) /\ s.pc = "h.store"
    BY <1>0, <2>1 DEF Slot, Form, HierarchyStages, ListStages, BumpStages
  <2>5. Becomes(r, s)
    BY <1>8 DEF ReadTexts, f
  <2> QED BY <2>3, <2>4, <2>5 DEF Bumping
<1>9. CASE ListVersion(r)
  <2> DEFINE s == [req[r] EXCEPT !.pc = "l.get", !.version = version]
  <2>1. req[r].pc = "l.version" /\ s \in Slot
    BY <1>0, <1>9 DEF ListVersion, Typed, TypeOK, Slot, Stages
  <2>2. Form(s) /\ s.pc = "l.get"
    BY <1>0, <2>1 DEF Slot, Form, HierarchyStages, ListStages, BumpStages
  <2> QED BY <1>9, <2>1, <2>2 DEF ListVersion, Bumping
<1>10. CASE ListGet(r)
  <2> DEFINE s == [req[r] EXCEPT !.pc = "l.query"]
  <2>1. req[r].pc = "l.get" /\ s \in Slot
    BY <1>0, <1>10 DEF ListGet, Slot, Stages
  <2>2. Form(s) /\ s.pc = "l.query"
    BY <1>0, <2>1 DEF Slot, Form, HierarchyStages, ListStages, BumpStages
  <2>3. Good(s)
    BY <2>1, <2>2 DEF Bumping
  <2> QED BY <1>2, <1>10, <2>3 DEF ListGet
<1>11. CASE ListQuery(r)
  <2> DEFINE s == [req[r] EXCEPT !.pc = "l.store", !.list = Listed]
  <2>1. req[r].pc = "l.query" /\ s \in Slot
    BY <1>0, <1>11 DEF ListQuery, Typed, TypeOK, Slot, Stages, Listed, List
  <2>2. Form(s) /\ s.pc = "l.store"
    BY <1>0, <2>1 DEF Slot, Form, HierarchyStages, ListStages, BumpStages
  <2> QED BY <1>11, <2>1, <2>2 DEF ListQuery, Bumping
<1>12. CASE FindTests(r)
  <2> DEFINE s == [req[r] EXCEPT !.pc = "drop", !.todo = Showing(req[r].question)]
  <2>1. req[r].pc = "more" /\ s \in Slot
    BY <1>0, <1>12 DEF FindTests, Showing, Slot, Stages
  <2>2. Form(s) /\ s.kind = "question" /\ s.pc = "drop"
    BY <1>0, <2>1 DEF Slot, Form, HierarchyStages, ListStages, BumpStages
  <2> QED BY <1>12, <2>1, <2>2 DEF FindTests, Bumping
<1>13. CASE BumpGet(r)
  <2> DEFINE s == [req[r] EXCEPT !.pc = "bump.set", !.version = version]
  <2>1. req[r].pc = "bump.get" /\ s \in Slot
    BY <1>0, <1>13 DEF BumpGet, Typed, TypeOK, Slot, Stages
  <2>2. Form(s) /\ s.version = version
    BY <1>0, <2>1 DEF Slot, Form, HierarchyStages, ListStages, BumpStages
  <2>3. Bumping(req[r])
    BY <1>0, <2>1 DEF Form, Bumping, BumpStages
  <2> QED BY <1>0, <1>13, <2>1, <2>2, <2>3 DEF BumpGet
<1>14. CASE Abort(r)
  BY <1>2, <1>14 DEF Abort
<1> QED BY <1>3, <1>4, <1>5, <1>6, <1>7, <1>8, <1>9, <1>10, <1>11, <1>12, <1>13,
           <1>14 DEF Quiet
\* The steps that write to the database, but for those that edit a test.
Write(r) ==
    \/ \E t \in Tests : CreateQuestion(r, t)
    \/ \E t \in Tests, S \in SUBSET Questions : EditPaper(r, t, S)
    \/ \E q \in Questions : EditQuestion(r, q)
    \/ WriteObjective(r) \/ CommitQuestion(r) \/ EditOptions(r)

LEMMA WriteShape ==
  ASSUME Typed, NEW r \in Requests, Write(r)
  PROVE  /\ \E s \in Slot : /\ Moves(r, s) /\ Form(s) /\ ~Bumping(s)
                            /\ s.pc \in {"create", "flag", "more", "drop"}
         /\ edits' \in Versions /\ edits' >= edits
         /\ row' \in Rows
         /\ paper' \in [Tests -> SUBSET Questions]
         /\ text' \in [Questions -> Versions]
         /\ UNCHANGED <<generated, hiervars, listvars>>
<1> DEFINE Good(s) == /\ s \in Slot /\ Moves(r, s) /\ Form(s) /\ ~Bumping(s)
                      /\ s.pc \in {"create", "flag", "more", "drop"}
<1>0. /\ req[r] \in Slot /\ Form(req[r])
      /\ row \in Rows /\ paper \in [Tests -> SUBSET Questions]
      /\ text \in [Questions -> Versions] /\ edits \in Versions
  BY DEF Typed, TypeOK, Formed
<1>1. edits' = edits + 1 /\ edits < MaxEdits => edits' \in Versions /\ edits' >= edits
  BY <1>0, CachesAssumption DEF Versions
<1>2. edits' = edits => edits' \in Versions /\ edits' >= edits
  BY <1>0, CachesAssumption DEF Versions
<1>3. \A t \in Tests, b \in BOOLEAN : [row EXCEPT ![t].objective = b] \in Rows
  BY <1>0 DEF Rows, TestRow
<1>4. ASSUME NEW t \in Tests, NEW k \in Stages, k \in {"create", "flag", "drop"}
      PROVE  LET s == [IdleSlot EXCEPT !.kind = "paper", !.pc = k, !.todo = {t}]
             IN  s \in Slot /\ Form(s) /\ ~Bumping(s) /\ s.pc \in {"create", "flag", "drop"}
  <2> DEFINE s == [IdleSlot EXCEPT !.kind = "paper", !.pc = k, !.todo = {t}]
  <2>1. s \in Slot
    BY IdleTyped DEF Slot, Kinds
  <2>2. Form(s) /\ ~Bumping(s) /\ s.pc \in {"create", "flag", "drop"}
    BY <1>4 DEF IdleSlot, Form, Bumping, HierarchyStages, ListStages, BumpStages
  <2> QED BY <2>1, <2>2
<1>5. ASSUME NEW t \in Tests, req[r].pc \in {"create", "flag"}
      PROVE  LET s == [req[r] EXCEPT !.pc = "drop"]
             IN  s \in Slot /\ Form(s) /\ ~Bumping(s) /\ s.pc = "drop"
  <2> DEFINE s == [req[r] EXCEPT !.pc = "drop"]
  <2>1. s \in Slot
    BY <1>0 DEF Slot, Stages
  <2>2. Form(s) /\ ~Bumping(s) /\ s.pc = "drop"
    BY <1>0, <1>5 DEF Slot, Form, Bumping, HierarchyStages, ListStages, BumpStages
  <2> QED BY <2>1, <2>2
<1> DEFINE Typical == /\ \E s : Good(s)
                       /\ edits' \in Versions /\ edits' >= edits
                       /\ row' \in Rows
                       /\ paper' \in [Tests -> SUBSET Questions]
                       /\ text' \in [Questions -> Versions]
                       /\ UNCHANGED <<generated, hiervars, listvars>>
<1>6. ASSUME NEW t \in Tests, CreateQuestion(r, t)
      PROVE  Typical
  <2> DEFINE s == [IdleSlot EXCEPT !.kind = "paper", !.pc = "create", !.todo = {t}]
  <2>1. s \in Slot /\ Form(s) /\ ~Bumping(s) /\ s.pc \in {"create", "flag", "drop"}
    BY <1>4 DEF Stages
  <2> HIDE DEF s
  <2>2. Writes(r, s, {t})
    BY <1>6 DEF CreateQuestion, s
  <2>3. Moves(r, s)
    BY <2>2, OvertakesMoves DEF Writes
  <2>4. edits' \in Versions /\ edits' >= edits
    BY <1>1, <2>2 DEF Writes
  <2> QED BY <1>0, <1>3, <1>6, <2>1, <2>3, <2>4 DEF CreateQuestion
<1>7. ASSUME NEW t \in Tests, NEW S \in SUBSET Questions, EditPaper(r, t, S)
      PROVE  Typical
  <2>1. PICK k \in {"flag", "drop"} :
             Writes(r, [IdleSlot EXCEPT !.kind = "paper", !.pc = k, !.todo = {t}], {t})
    BY <1>7 DEF EditPaper
  <2> DEFINE s == [IdleSlot EXCEPT !.kind = "paper", !.pc = k, !.todo = {t}]
  <2>2. s \in Slot /\ Form(s) /\ ~Bumping(s) /\ s.pc \in {"create", "flag", "drop"}
    BY <1>4 DEF Stages
  <2> HIDE DEF s
  <2>3. Writes(r, s, {t})
    BY <2>1 DEF s
  <2>4. Moves(r, s)
    BY <2>3, OvertakesMoves DEF Writes
  <2>5. edits' \in Versions /\ edits' >= edits
    BY <1>1, <2>3 DEF Writes
  <2> QED BY <1>0, <1>7, <2>2, <2>4, <2>5 DEF EditPaper
<1>8. ASSUME NEW q \in Questions, EditQuestion(r, q)
      PROVE  Typical
  <2> DEFINE s == [IdleSlot EXCEPT !.kind = "question", !.pc = "more", !.question = q]
  <2>1. s \in Slot
    BY IdleTyped DEF Slot, Kinds, Stages
  <2>2. Form(s) /\ ~Bumping(s) /\ s.pc = "more"
    BY DEF IdleSlot, Form, Bumping, HierarchyStages, ListStages, BumpStages
  <2> HIDE DEF s
  <2>3. Writes(r, s, Showing(q)) /\ edits' = edits + 1
    BY <1>8 DEF EditQuestion, Writes, s
  <2>4. Moves(r, s)
    BY <2>3, OvertakesMoves DEF Writes
  <2>5. edits' \in Versions /\ edits' >= edits
    BY <1>1, <2>3 DEF Writes
  <2> QED BY <1>0, <1>8, <2>1, <2>2, <2>3, <2>4, <2>5 DEF EditQuestion
<1>9. CASE WriteObjective(r)
  <2>1. PICK t \in req[r].todo, b \in BOOLEAN :
             /\ row' = [row EXCEPT ![t].objective = b]
             /\ Overtakes(r, [req[r] EXCEPT !.pc = "drop"], {t})
    BY <1>9 DEF WriteObjective
  <2>2. t \in Tests /\ req[r].pc = "flag"
    BY <1>0, <1>9 DEF WriteObjective, Slot
  <2> DEFINE s == [req[r] EXCEPT !.pc = "drop"]
  <2>3. Good(s)
    BY <1>5, <2>1, <2>2, OvertakesMoves
  <2> QED BY <1>0, <1>2, <1>3, <1>9, <2>1, <2>2, <2>3 DEF WriteObjective
<1>10. CASE CommitQuestion(r)
  <2>1. PICK t \in req[r].todo, q \in Questions :
             /\ paper' = [paper EXCEPT ![t] = @ \cup {q}]
             /\ Overtakes(r, [req[r] EXCEPT !.pc = "drop"], {t})
    BY <1>10 DEF CommitQuestion
  <2>2. t \in Tests /\ req[r].pc = "create"
    BY <1>0, <1>10 DEF CommitQuestion, Slot
  <2> DEFINE s == [req[r] EXCEPT !.pc = "drop"]
  <2>3. Good(s)
    BY <1>5, <2>1, <2>2, OvertakesMoves
  <2> QED BY <1>0, <1>2, <1>10, <2>1, <2>2, <2>3 DEF CommitQuestion
<1>11. CASE EditOptions(r)
  <2> DEFINE q == req[r].question
  <2>1. req[r].pc = "more" /\ q \in Questions /\ ~Bumping(req[r])
    BY <1>0, <1>11 DEF EditOptions, Form, Bumping
  <2>2. Writes(r, req[r], Showing(q)) /\ edits' = edits + 1
    BY <1>11 DEF EditOptions, Writes
  <2>3. Good(req[r])
    BY <1>0, <2>1, <2>2, OvertakesMoves DEF Writes
  <2>4. edits' \in Versions /\ edits' >= edits
    BY <1>1, <2>2 DEF Writes
  <2> QED BY <1>0, <1>11, <2>1, <2>2, <2>3, <2>4 DEF EditOptions
<1> QED BY <1>6, <1>7, <1>8, <1>9, <1>10, <1>11 DEF Write
LEMMA EditTestShape ==
  ASSUME Typed, NEW r \in Requests, NEW t \in Tests, EditTest(r, t)
  PROVE  /\ \E s \in Slot : /\ Moves(r, s) /\ Form(s) /\ Bumping(s)
                            /\ s.pc = "drop" /\ s.todo = {t}
         /\ req[r].pc = "idle"
         /\ edits' = edits + 1 /\ edits' \in Versions
         /\ row' \in Rows
         /\ UNCHANGED <<paper, text, generated, hiervars, listvars>>
<1> DEFINE s == [IdleSlot EXCEPT !.kind = "test", !.pc = "drop", !.todo = {t}]
<1>1. s \in Slot
  BY IdleTyped DEF Slot, Kinds, Stages
<1>2. Form(s) /\ Bumping(s) /\ s.pc = "drop" /\ s.todo = {t}
  BY DEF IdleSlot, Form, Bumping, HierarchyStages, ListStages, BumpStages
<1> HIDE DEF s
<1>3. Writes(r, s, {t}) /\ req[r].pc = "idle"
  BY DEF EditTest, MayBegin, s
<1>4. Moves(r, s)
  BY <1>3, OvertakesMoves DEF Writes
<1>5. edits' = edits + 1 /\ edits' \in Versions
  BY <1>3, CachesAssumption DEF Writes, Typed, TypeOK, Versions
<1>6. row' \in Rows
  BY <1>5 DEF EditTest, Typed, TypeOK, Rows, TestRow
<1> QED BY <1>1, <1>2, <1>3, <1>4, <1>5, <1>6 DEF EditTest

\* One more edit that has yet to move the version on.
LEMMA EditTestCounts ==
  ASSUME Typed, NEW r \in Requests, NEW t \in Tests, EditTest(r, t)
  PROVE  Counted'
<1>1. PICK s \in Slot : Moves(r, s) /\ Form(s) /\ Bumping(s) /\ s.pc = "drop"
  BY EditTestShape
<1>2. \A x \in Requests \ {r} : /\ Bumping(req'[x]) <=> Bumping(req[x])
                                /\ req'[x].pc = req[x].pc
                                /\ req'[x].version = req[x].version
  BY <1>1, MovesTyped DEF Bumping
<1>3. r \notin Bumpers
  BY EditTestShape DEF Bumpers, Bumping
<1>4. Bumpers' = Bumpers \cup {r}
  BY <1>1, <1>2 DEF Moves, Bumpers
<1>5. /\ IsFiniteSet(Bumpers') /\ Cardinality(Bumpers') = Cardinality(Bumpers) + 1
      /\ Cardinality(Bumpers) \in Nat
  BY <1>3, <1>4, FS_AddElement, FS_CardinalityType DEF Typed, Counted
<1>6. edits' = edits + 1 /\ edits \in Nat /\ version \in Nat /\ version' = version
  BY EditTestShape, CachesAssumption DEF Typed, TypeOK, Versions, listvars
<1>7. \A x \in Requests : req'[x].pc = "bump.set" => /\ Ahead(req'[x].version)
                                                      /\ req'[x].version \in Nat
  <2> SUFFICES ASSUME NEW x \in Requests, req'[x].pc = "bump.set"
               PROVE  Ahead(req'[x].version) /\ req'[x].version \in Nat
    OBVIOUS
  <2>1. x # r
    BY <1>1 DEF Moves
  <2>2. req[x].pc = "bump.set" /\ req'[x].version = req[x].version
    BY <1>2, <2>1
  <2>3. Ahead(req[x].version)
    BY <2>2 DEF Typed, Counted
  <2>4. req[x].version \in Nat
    BY CachesAssumption DEF Typed, TypeOK, Slot, Versions
  <2> QED BY <2>2, <2>3, <2>4
<1>8. announced' <= generated' /\ generated' <= edits'
  BY <1>6, EditTestShape, CachesAssumption DEF Typed, TypeOK, Counted, Versions, listvars
<1> QED BY <1>5, <1>6, <1>7, <1>8 DEF Typed, Counted, Ahead

\* What is left to do once the entries of all but T are dealt with.
LEMMA AfterDropShape ==
  ASSUME Typed, NEW r \in Requests, req[r].pc = "drop", NEW T \in SUBSET req[r].todo
  PROVE  LET s == AfterDrop(req[r], T)
         IN  /\ s \in Slot /\ Form(s) /\ s.pc # "bump.set"
             /\ Bumping(s) <=> Bumping(req[r])
             /\ s.todo = T
             /\ s.pc \in {"idle", "drop", "bump.get"}
<1> DEFINE s == AfterDrop(req[r], T)
<1>0. req[r] \in Slot /\ Form(req[r])
  BY DEF Typed, TypeOK, Formed
<1>1. CASE T # {}
  <2>1. s = [req[r] EXCEPT !.todo = T]
    BY <1>1 DEF AfterDrop
  <2>2. s \in Slot
    BY <1>0, <2>1 DEF Slot
  <2>3. s.pc = "drop" /\ s.kind = req[r].kind /\ s.todo = T
    BY <1>0, <2>1 DEF Slot
  <2> QED BY <1>0, <1>1, <2>2, <2>3
          DEF Form, Bumping, HierarchyStages, ListStages, BumpStages
<1>2. CASE T = {} /\ req[r].kind = "test"
  <2>1. s = [req[r] EXCEPT !.todo = {}, !.pc = "bump.get"]
    BY <1>2 DEF AfterDrop
  <2>2. s \in Slot
    BY <1>0, <2>1 DEF Slot, Stages
  <2>3. s.pc = "bump.get" /\ s.kind = "test" /\ s.todo = T
    BY <1>0, <1>2, <2>1 DEF Slot
  <2> QED BY <1>0, <1>2, <2>2, <2>3
          DEF Form, Bumping, HierarchyStages, ListStages, BumpStages
<1>3. CASE T = {} /\ req[r].kind # "test"
  <2>1. s = IdleSlot
    BY <1>3 DEF AfterDrop
  <2> QED BY <1>3, <2>1, IdleTyped DEF IdleSlot, Bumping
<1> QED BY <1>1, <1>2, <1>3

LEMMA DropShape ==
  ASSUME Typed, NEW r \in Requests, Drop(r)
  PROVE  /\ \E s \in Slot : /\ Becomes(r, s) /\ Form(s) /\ s.pc # "bump.set"
                            /\ Bumping(s) <=> Bumping(req[r])
         /\ hier' \in [Tests -> Hierarchy \cup {NULL}] /\ late' \in SUBSET Tests
         /\ UNCHANGED <<dbvars, listvars>>
<1>0. req[r] \in Slot /\ Form(req[r]) /\ req[r].pc = "drop"
  BY DEF Typed, TypeOK, Formed, Drop
<1>1. CASE req[r].todo = {} /\ Finish(r) /\ UNCHANGED hiervars
  <2>1. ~Bumping(req[r])
    BY <1>0, <1>1 DEF Form, Bumping
  <2> QED BY <1>1, <2>1, IdleTyped DEF Finish, IdleSlot, Drop, Typed, TypeOK, hiervars
<1>2. ASSUME NEW t \in req[r].todo,
             Becomes(r, AfterDrop(req[r], req[r].todo \ {t})),
             \/ hier' = [hier EXCEPT ![t] = NULL] /\ late' = late \ {t}
             \/ UNCHANGED hiervars
      PROVE  /\ \E s \in Slot : /\ Becomes(r, s) /\ Form(s) /\ s.pc # "bump.set"
                                /\ Bumping(s) <=> Bumping(req[r])
             /\ hier' \in [Tests -> Hierarchy \cup {NULL}] /\ late' \in SUBSET Tests
  <2>1. req[r].todo \ {t} \in SUBSET req[r].todo
    OBVIOUS
  <2>2. \E s \in Slot : /\ Becomes(r, s) /\ Form(s) /\ s.pc # "bump.set"
                        /\ Bumping(s) <=> Bumping(req[r])
    BY <1>0, <1>2, <2>1, AfterDropShape
  <2>3. hier' \in [Tests -> Hierarchy \cup {NULL}] /\ late' \in SUBSET Tests
    BY <1>2 DEF Typed, TypeOK, hiervars
  <2> QED BY <2>2, <2>3
<1> QED BY <1>1, <1>2 DEF Drop

LEMMA TypedNext == Typed /\ [Next]_vars => Typed'
<1> SUFFICES ASSUME Typed, [Next]_vars PROVE Typed'
  OBVIOUS
<1>0. TypeOK /\ Formed /\ Counted
  BY DEF Typed
<1>1. CASE UNCHANGED vars
  BY <1>0, <1>1 DEF Typed, TypeOK, Formed, Counted, Ahead, Bumpers,
                    vars, dbvars, hiervars, listvars
<1>2. ASSUME NEW r \in Requests, Quiet(r) PROVE Typed'
  <2>1. PICK s \in Slot : /\ Becomes(r, s) /\ Form(s)
                          /\ Bumping(s) => Bumping(req[r])
                          /\ s.pc = "bump.set" => Ahead(s.version)
    BY <1>2, QuietShape
  <2>2. UNCHANGED <<dbvars, hiervars, listvars>>
    BY <1>2 DEF Quiet, ListBegin, HierarchyBegin, HierarchyGet, ReadRow, ReadPaper,
                ReadTexts, ListVersion, ListGet, ListQuery, FindTests, BumpGet, Abort
  <2>3. Moves(r, s)
    BY <1>0, <2>1, BecomesMoves
  <2>4. req' \in [Requests -> Slot] /\ Formed'
    BY <2>1, <2>3, MovesTyped
  <2>5. Counted'
    <3>1. edits' = edits /\ version' = version /\ edits \in Versions
      BY <1>0, <2>2 DEF TypeOK, dbvars, listvars
    <3>2. edits' >= edits
      BY <3>1, CachesAssumption DEF Versions
    <3> QED BY <2>1, <2>2, <2>3, <3>1, <3>2, StepCounts DEF dbvars, listvars
  <2> QED BY <1>0, <2>2, <2>4, <2>5 DEF Typed, TypeOK, dbvars, hiervars, listvars
<1>3. ASSUME NEW r \in Requests, Write(r) PROVE Typed'
  <2>1. PICK s \in Slot : Moves(r, s) /\ Form(s) /\ ~Bumping(s)
    BY <1>3, WriteShape
  <2>2. s.pc # "bump.set"
    BY <2>1 DEF Form, Bumping, BumpStages
  <2>3. req' \in [Requests -> Slot] /\ Formed'
    BY <2>1, MovesTyped
  <2>4. Counted'
    BY <1>3, <2>1, <2>2, WriteShape, StepCounts DEF listvars
  <2> QED BY <1>0, <1>3, <2>3, <2>4, WriteShape DEF Typed, TypeOK, hiervars, listvars
<1>4. ASSUME NEW r \in Requests, NEW t \in Tests, EditTest(r, t) PROVE Typed'
  <2>1. req' \in [Requests -> Slot] /\ Formed'
    BY <1>4, EditTestShape, MovesTyped
  <2> QED BY <1>0, <1>4, <2>1, EditTestShape, EditTestCounts
          DEF Typed, TypeOK, hiervars, listvars
<1>5. ASSUME NEW r \in Requests, Drop(r) PROVE Typed'
  <2>1. PICK s \in Slot : /\ Becomes(r, s) /\ Form(s) /\ s.pc # "bump.set"
                          /\ Bumping(s) <=> Bumping(req[r])
    BY <1>5, DropShape
  <2>2. Moves(r, s)
    BY <1>0, <2>1, BecomesMoves
  <2>3. req' \in [Requests -> Slot] /\ Formed'
    BY <2>1, <2>2, MovesTyped
  <2>4. /\ edits' = edits /\ version' = version /\ edits \in Versions /\ edits' >= edits
        /\ UNCHANGED <<generated, announced>>
    BY <1>0, <1>5, CachesAssumption DEF Drop, TypeOK, dbvars, listvars, Versions
  <2>5. Counted'
    BY <2>1, <2>2, <2>4, StepCounts
  <2> QED BY <1>0, <1>5, <2>3, <2>5, DropShape DEF Typed, TypeOK, dbvars, listvars
<1>6. ASSUME NEW r \in Requests, HierarchyStore(r) \/ ListStore(r) PROVE Typed'
  <2>1. Becomes(r, IdleSlot) /\ UNCHANGED <<dbvars, version, announced>>
    BY <1>6 DEF HierarchyStore, ListStore, Finish, listvars
  <2>2. Moves(r, IdleSlot)
    BY <1>0, <2>1, IdleTyped, BecomesMoves
  <2>3. req' \in [Requests -> Slot] /\ Formed'
    BY <2>2, IdleTyped, MovesTyped
  <2>4. edits' = edits /\ edits \in Versions /\ edits' >= edits /\ generated' = generated
    BY <1>0, <2>1, CachesAssumption DEF TypeOK, dbvars, Versions
  <2>5. Counted'
    BY <2>1, <2>2, <2>4, IdleTyped, StepCounts DEF IdleSlot
  <2>6. req[r] \in Slot /\ Form(req[r])
    BY <1>0 DEF TypeOK, Formed
  <2>7. CASE HierarchyStore(r)
    <3>1. req[r].test \in Tests
      BY <2>6, <2>7 DEF HierarchyStore, Form, HierarchyStages
    <3>2. [row |-> req[r].row, texts |-> req[r].texts] \in Hierarchy
      BY <2>6 DEF Slot, Hierarchy
    <3>3. hier' \in [Tests -> Hierarchy \cup {NULL}] /\ late' \in SUBSET Tests
      BY <1>0, <2>7, <3>1, <3>2 DEF HierarchyStore, TypeOK, hiervars
    <3> QED BY <1>0, <2>1, <2>3, <2>5, <2>7, <3>3
            DEF HierarchyStore, Typed, TypeOK, dbvars, listvars
  <2>8. CASE ListStore(r)
    <3>1. lists' \in [Versions -> List \cup {NULL}]
      BY <1>0, <2>6, <2>8 DEF ListStore, TypeOK, Slot
    <3> QED BY <1>0, <2>1, <2>3, <2>5, <2>8, <3>1
            DEF ListStore, Typed, TypeOK, dbvars, hiervars
  <2> QED BY <1>6, <2>7, <2>8
<1>7. ASSUME NEW r \in Requests, BumpSet(r) PROVE Typed'
  <2>1. Becomes(r, IdleSlot) /\ UNCHANGED <<dbvars, hiervars, lists>>
    BY <1>7 DEF BumpSet, Finish
  <2>2. Moves(r, IdleSlot)
    BY <1>0, <2>1, IdleTyped, BecomesMoves
  <2>3. /\ req' \in [Requests -> Slot] /\ Formed'
        /\ \A x \in Requests \ {r} : /\ req'[x].pc = req[x].pc
                                      /\ req'[x].kind = req[x].kind
                                      /\ req'[x].version = req[x].version
    BY <2>2, IdleTyped, MovesTyped
  <2>4. req[r] \in Slot /\ Form(req[r]) /\ req[r].pc = "bump.set"
    BY <1>0, <1>7 DEF TypeOK, Formed, BumpSet
  <2>5. r \in Bumpers /\ r \notin Bumpers' /\ Bumpers' \subseteq Bumpers
    BY <2>2, <2>3, <2>4, IdleTyped DEF Bumpers, Bumping, Form, BumpStages, Moves
  <2>6. edits' = edits /\ edits \in Nat /\ req[r].version \in Nat
    BY <1>0, <2>1, <2>4, CachesAssumption DEF TypeOK, dbvars, Slot, Versions
  <2>7. Ahead(req[r].version)
    BY <1>0, <2>4 DEF Counted
  <2>8. version' = req[r].version + 1 /\ version' \in Versions
    BY <1>0, <1>7, <2>5, <2>6, <2>7, VersionFits DEF BumpSet, TypeOK
  <2>9. Counted'
    <3>1. /\ IsFiniteSet(Bumpers)'
          /\ \A n \in Nat : Ahead(n) => n + Cardinality(Bumpers') <= edits'
      BY <2>5, <2>6, FewerBumpers
    <3>2. version' + Cardinality(Bumpers') <= edits'
      BY <2>5, <2>6, <2>7, <2>8, FewerBumpers
    <3>3. \A x \in Requests : req'[x].pc = "bump.set" => /\ Ahead(req'[x].version)
                                                          /\ req'[x].version \in Nat
      <4> SUFFICES ASSUME NEW x \in Requests, req'[x].pc = "bump.set"
                   PROVE  Ahead(req'[x].version) /\ req'[x].version \in Nat
        OBVIOUS
      <4>1. x # r
        BY <2>2 DEF Moves, IdleSlot
      <4>2. req[x].pc = "bump.set" /\ req'[x].version = req[x].version
        BY <2>3, <4>1
      <4>3. Ahead(req[x].version)
        BY <1>0, <4>2 DEF Counted
      <4>4. req[x].version \in Nat
        BY <1>0, CachesAssumption DEF TypeOK, Slot, Versions
      <4> QED BY <4>2, <4>3, <4>4
    <3>4. announced' <= generated' /\ generated' <= edits'
      BY <1>0, <1>7, <2>1, CachesAssumption DEF BumpSet, Counted, TypeOK, dbvars, Versions
    <3> QED BY <3>1, <3>2, <3>3, <3>4 DEF Counted, Ahead
  <2>10. announced' \in Versions
    BY <1>0, <1>7 DEF BumpSet, TypeOK
  <2> QED BY <1>0, <2>1, <2>3, <2>8, <2>9, <2>10 DEF Typed, TypeOK, dbvars, hiervars
<1>8. CASE \E t \in Tests : ExpireHierarchy(t)
  BY <1>0, <1>8 DEF ExpireHierarchy, Typed, TypeOK, Formed, Counted, Ahead, Bumpers,
                    dbvars, listvars
<1>9. CASE \E n \in Versions : ExpireList(n)
  BY <1>0, <1>9 DEF ExpireList, Typed, TypeOK, Formed, Counted, Ahead, Bumpers,
                    dbvars, hiervars
<1>10. CASE ExpireVersion
  <2>1. Cardinality(Bumpers) \in Nat /\ edits \in Nat /\ version \in Nat
    BY <1>0, FS_CardinalityType, CachesAssumption DEF Counted, TypeOK, Versions
  <2>2. UNCHANGED <<dbvars, hiervars, lists, announced, req>> /\ version' = 0
    BY <1>10 DEF ExpireVersion
  <2>3. Bumpers' = Bumpers /\ Formed'
    BY <1>0, <2>2 DEF Bumpers, Formed
  <2>4. Counted'
    BY <1>0, <2>1, <2>2, <2>3 DEF Counted, Ahead, dbvars
  <2> QED BY <1>0, <2>2, <2>3, <2>4, CachesAssumption
          DEF Typed, TypeOK, dbvars, hiervars, Versions
<1>11. CASE GenerateTest
  <2>1. /\ UNCHANGED <<row, paper, text, hiervars, listvars, req>>
        /\ edits < MaxEdits /\ edits' = edits + 1 /\ generated' = generated + 1
    BY <1>11 DEF GenerateTest
  <2>2. /\ edits \in Nat /\ edits' \in Versions /\ generated' \in Versions
        /\ announced' <= generated' /\ generated' <= edits'
    BY <1>0, <2>1, CachesAssumption DEF TypeOK, Counted, Versions, listvars
  <2>3. Bumpers' = Bumpers /\ Formed'
    BY <1>0, <2>1 DEF Bumpers, Formed
  <2>4. \A n \in Nat : Ahead(n) => n + Cardinality(Bumpers') <= edits'
    BY <2>1, <2>2, <2>3, FewerBumpers
  <2>5. version \in Nat /\ \A r \in Requests : req[r].version \in Nat
    BY <1>0, CachesAssumption DEF TypeOK, Slot, Versions
  <2>6. Counted'
    BY <1>0, <2>1, <2>2, <2>3, <2>4, <2>5 DEF Counted, Ahead, listvars
  <2> QED BY <1>0, <2>1, <2>2, <2>3, <2>6 DEF Typed, TypeOK, hiervars, listvars
<1> QED BY <1>1, <1>2, <1>3, <1>4, <1>5, <1>6, <1>7, <1>8, <1>9, <1>10, <1>11
        DEF Next, Begin, Step, Quiet, Write

\* TypeOK in every state: with whatever faults and overlap, versions of the list
\* (tests.service.ts 1206-1217) never run ahead of the edits there were.
THEOREM TypeCorrect == Spec => []TypeOK
<1>1. Typed => TypeOK
  BY DEF Typed
<1> QED BY <1>1, TypedInit, TypedNext, PTL DEF Spec
(***************************************************************************)
(* The hierarchies.  A read that no edit overtook has read what the        *)
(* database holds, so that what it stores is right; an edit that makes an  *)
(* entry wrong has that entry still to delete.                             *)
(***************************************************************************)
ReadsCurrent(s) ==
    s.pc \in {"h.paper", "h.texts", "h.store"} /\ ~s.overtaken =>
        /\ s.row = row[s.test]
        /\ s.pc = "h.texts" => s.paper = paper[s.test]
        /\ s.pc = "h.store" => s.texts = [q \in paper[s.test] |-> text[q]]

Reading == \A r \in Requests : ReadsCurrent(req[r])

Dropping(t) == \E r \in Requests : WillDrop(req[r], t)

HierarchyInv == Typed /\ Reading /\ StaleIsDroppedOrLate

NoHierarchyFaults == Faults \cap {"redis", "abort", "refused"} = {}

LEMMA HierarchyInit == Init => HierarchyInv
<1> SUFFICES ASSUME Init PROVE HierarchyInv
  OBVIOUS
<1>1. Reading
  BY DEF Init, Reading, ReadsCurrent, IdleSlot
<1>2. StaleIsDroppedOrLate
  BY DEF Init, StaleIsDroppedOrLate
<1> QED BY <1>1, <1>2, TypedInit DEF HierarchyInv

\* A write shows in the tests of T only: their readers are overtaken, and the
\* request that writes, in s from now on, has all of their entries to delete.
Covers(r, s, T) ==
    /\ Overtakes(r, s, T)
    /\ s.pc \notin HierarchyStages
    /\ \A t \in Tests \ T : /\ row'[t] = row[t] /\ paper'[t] = paper[t]
                            /\ \A q \in paper[t] : text'[q] = text[q]
    /\ \A t \in T : \/ t \in s.todo
                    \/ s.pc = "more" /\ t \in Showing(s.question) /\ paper' = paper
    /\ \A t \in Tests : WillDrop(req[r], t) => t \in T

LEMMA IdleDropsNothing ==
  ASSUME Typed, NEW r \in Requests, req[r].pc \in {"idle"} \cup HierarchyStages
                                                  \cup ListStages \cup BumpStages
  PROVE  \A t \in Tests : ~WillDrop(req[r], t)
<1>1. Form(req[r])
  BY DEF Typed, Formed
<1> QED BY <1>1 DEF Form, WillDrop, IdleSlot, HierarchyStages, ListStages, BumpStages

LEMMA WriteCovers ==
  ASSUME Typed, NEW r \in Requests, Write(r) \/ \E t \in Tests : EditTest(r, t)
  PROVE  \E s, T : Covers(r, s, T)
<1>0. /\ req[r] \in Slot /\ Form(req[r])
      /\ row \in Rows /\ paper \in [Tests -> SUBSET Questions]
      /\ text \in [Questions -> Versions]
  BY DEF Typed, TypeOK, Formed
<1>1. req[r].pc = "idle" => \A t \in Tests : ~WillDrop(req[r], t)
  BY IdleDropsNothing
<1>2. ASSUME NEW t \in Tests, EditTest(r, t) PROVE \E s, T : Covers(r, s, T)
  <2> DEFINE s == [IdleSlot EXCEPT !.kind = "test", !.pc = "drop", !.todo = {t}]
  <2>1. s.pc = "drop" /\ s.todo = {t}
    BY DEF IdleSlot
  <2> HIDE DEF s
  <2>2. Overtakes(r, s, {t}) /\ req[r].pc = "idle"
    BY <1>2 DEF EditTest, MayBegin, Writes, s
  <2>3. \A u \in Tests \ {t} : row'[u] = row[u]
    BY <1>0, <1>2 DEF EditTest, Rows
  <2>4. Covers(r, s, {t})
    BY <1>1, <1>2, <2>1, <2>2, <2>3 DEF EditTest, Covers, HierarchyStages
  <2> QED BY <2>4
<1>3. ASSUME NEW t \in Tests, CreateQuestion(r, t) PROVE \E s, T : Covers(r, s, T)
  <2> DEFINE s == [IdleSlot EXCEPT !.kind = "paper", !.pc = "create", !.todo = {t}]
  <2>1. s.pc = "create" /\ s.todo = {t}
    BY DEF IdleSlot
  <2> HIDE DEF s
  <2>2. Overtakes(r, s, {t}) /\ req[r].pc = "idle"
    BY <1>3 DEF CreateQuestion, MayBegin, Writes, s
  <2>3. \A u \in Tests \ {t} : row'[u] = row[u]
    BY <1>0, <1>3 DEF CreateQuestion, Rows
  <2>4. Covers(r, s, {t})
    BY <1>1, <1>3, <2>1, <2>2, <2>3 DEF CreateQuestion, Covers, HierarchyStages
  <2> QED BY <2>4
<1>4. ASSUME NEW t \in Tests, NEW S \in SUBSET Questions, EditPaper(r, t, S)
      PROVE  \E s, T : Covers(r, s, T)
  <2>1. PICK k \in {"flag", "drop"} :
             Writes(r, [IdleSlot EXCEPT !.kind = "paper", !.pc = k, !.todo = {t}], {t})
    BY <1>4 DEF EditPaper
  <2> DEFINE s == [IdleSlot EXCEPT !.kind = "paper", !.pc = k, !.todo = {t}]
  <2>2. s.pc = k /\ s.todo = {t}
    BY DEF IdleSlot
  <2>3. Overtakes(r, s, {t})
    BY <2>1 DEF Writes
  <2> HIDE DEF s
  <2>4. req[r].pc = "idle"
    BY <1>4 DEF EditPaper, MayBegin
  <2>5. \A u \in Tests \ {t} : paper'[u] = paper[u]
    BY <1>0, <1>4 DEF EditPaper
  <2>6. Covers(r, s, {t})
    BY <1>1, <1>4, <2>2, <2>3, <2>4, <2>5 DEF EditPaper, Covers, HierarchyStages
  <2> QED BY <2>6
<1>5. ASSUME NEW q \in Questions, EditQuestion(r, q) PROVE \E s, T : Covers(r, s, T)
  <2> DEFINE s == [IdleSlot EXCEPT !.kind = "question", !.pc = "more", !.question = q]
  <2>1. s.pc = "more" /\ s.question = q
    BY DEF IdleSlot
  <2> HIDE DEF s
  <2>2. Overtakes(r, s, Showing(q)) /\ req[r].pc = "idle"
    BY <1>5 DEF EditQuestion, MayBegin, Writes, s
  <2>3. \A t \in Tests \ Showing(q) : \A p \in paper[t] : text'[p] = text[p]
    BY <1>0, <1>5 DEF EditQuestion, Showing
  <2>4. Covers(r, s, Showing(q))
    BY <1>1, <1>5, <2>1, <2>2, <2>3 DEF EditQuestion, Covers, HierarchyStages
  <2> QED BY <2>4
<1>6. CASE EditOptions(r)
  <2> DEFINE q == req[r].question
  <2>1. req[r].pc = "more" /\ req[r].todo = {} /\ q \in Questions
    BY <1>0, <1>6 DEF EditOptions, Form
  <2>2. Overtakes(r, req[r], Showing(q))
    BY <1>6 DEF EditOptions, Writes
  <2>3. \A t \in Tests \ Showing(q) : \A p \in paper[t] : text'[p] = text[p]
    BY <1>0, <1>6 DEF EditOptions, Showing
  <2>4. Covers(r, req[r], Showing(q))
    BY <1>6, <2>1, <2>2, <2>3 DEF EditOptions, Covers, HierarchyStages, WillDrop
  <2> QED BY <2>4
<1>7. CASE WriteObjective(r)
  <2>1. PICK t \in req[r].todo, b \in BOOLEAN :
             /\ row' = [row EXCEPT ![t].objective = b]
             /\ Overtakes(r, [req[r] EXCEPT !.pc = "drop"], {t})
    BY <1>7 DEF WriteObjective
  <2> DEFINE s == [req[r] EXCEPT !.pc = "drop"]
  <2>2. req[r].pc = "flag" /\ req[r].todo = {t} /\ t \in Tests
    BY <1>0, <1>7, <2>1 DEF WriteObjective, Form, Slot
  <2>3. s.pc = "drop" /\ s.todo = {t}
    BY <1>0, <2>2 DEF Slot
  <2>4. \A u \in Tests \ {t} : row'[u] = row[u]
    BY <1>0, <2>1 DEF Rows
  <2>5. Covers(r, s, {t})
    BY <1>7, <2>1, <2>2, <2>3, <2>4
       DEF WriteObjective, Covers, HierarchyStages, WillDrop
  <2> QED BY <2>5
<1>8. CASE CommitQuestion(r)
  <2>1. PICK t \in req[r].todo, q \in Questions :
             /\ paper' = [paper EXCEPT ![t] = @ \cup {q}]
             /\ Overtakes(r, [req[r] EXCEPT !.pc = "drop"], {t})
    BY <1>8 DEF CommitQuestion
  <2> DEFINE s == [req[r] EXCEPT !.pc = "drop"]
  <2>2. req[r].pc = "create" /\ req[r].todo = {t} /\ t \in Tests
    BY <1>0, <1>8, <2>1 DEF CommitQuestion, Form, Slot
  <2>3. s.pc = "drop" /\ s.todo = {t}
    BY <1>0, <2>2 DEF Slot
  <2>4. \A u \in Tests \ {t} : paper'[u] = paper[u]
    BY <1>0, <2>1
  <2>5. Covers(r, s, {t})
    BY <1>8, <2>1, <2>2, <2>3, <2>4
       DEF CommitQuestion, Covers, HierarchyStages, WillDrop
  <2> QED BY <2>5
<1> QED BY <1>2, <1>3, <1>4, <1>5, <1>6, <1>7, <1>8 DEF Write
LEMMA WriteKeepsReading ==
  ASSUME HierarchyInv, NEW r \in Requests, NEW s, NEW T, Covers(r, s, T)
  PROVE  Reading'
<1> SUFFICES ASSUME NEW x \in Requests PROVE ReadsCurrent(req[x])'
  BY DEF Reading
<1>0. /\ req[x] \in Slot /\ Form(req[x]) /\ ReadsCurrent(req[x])
      /\ paper \in [Tests -> SUBSET Questions]
  BY DEF HierarchyInv, Typed, TypeOK, Formed, Reading
<1>1. CASE x = r
  <2>1. req'[x] = s
    BY <1>1 DEF Covers, Overtakes
  <2> QED BY <2>1 DEF Covers, ReadsCurrent, HierarchyStages
<1>2. CASE x # r /\ req[x].pc \in {"h.paper", "h.texts", "h.store"} /\ req[x].test \in T
  <2>1. req'[x] = [req[x] EXCEPT !.overtaken = TRUE]
    BY <1>2 DEF Covers, Overtakes
  <2>2. req'[x].overtaken
    BY <1>0, <2>1 DEF Slot
  <2> QED BY <2>2 DEF ReadsCurrent
<1>3. CASE x # r /\ req[x].pc \in {"h.paper", "h.texts", "h.store"} /\ req[x].test \notin T
  <2> DEFINE t == req[x].test
  <2>1. req'[x] = req[x]
    BY <1>3 DEF Covers, Overtakes
  <2>2. t \in Tests \ T
    BY <1>0, <1>3 DEF Form, HierarchyStages
  <2>3. row'[t] = row[t] /\ paper'[t] = paper[t]
    BY <2>2 DEF Covers
  <2>4. [q \in paper'[t] |-> text'[q]] = [q \in paper[t] |-> text[q]]
    BY <2>2, <2>3 DEF Covers
  <2> QED BY <1>0, <2>1, <2>3, <2>4 DEF ReadsCurrent
<1>4. CASE x # r /\ req[x].pc \notin {"h.paper", "h.texts", "h.store"}
  <2>1. req'[x] = req[x]
    BY <1>4 DEF Covers, Overtakes
  <2> QED BY <1>4, <2>1 DEF ReadsCurrent
<1> QED BY <1>1, <1>2, <1>3, <1>4

\* What is read is what there is.
LEMMA QuietKeepsReading ==
  ASSUME HierarchyInv, NEW r \in Requests, Quiet(r)
  PROVE  Reading'
<1> SUFFICES ASSUME NEW x \in Requests PROVE ReadsCurrent(req[x])'
  BY DEF Reading
<1>0. /\ req \in [Requests -> Slot] /\ req[r] \in Slot /\ ReadsCurrent(req[r])
      /\ ReadsCurrent(req[x])
  BY DEF HierarchyInv, Typed, TypeOK, Reading
<1>1. row' = row /\ paper' = paper /\ text' = text
  BY DEF Quiet, ListBegin, HierarchyBegin, HierarchyGet, ReadRow, ReadPaper, dbvars,
         ReadTexts, ListVersion, ListGet, ListQuery, FindTests, BumpGet, Abort
<1>2. PICK s : Becomes(r, s)
  BY DEF Quiet, ListBegin, HierarchyBegin, HierarchyGet, ReadRow, ReadPaper, Finish,
         ReadTexts, ListVersion, ListGet, ListQuery, FindTests, BumpGet, Abort
<1>3. CASE x # r
  <2>1. req'[x] = req[x]
    BY <1>0, <1>2, <1>3 DEF Becomes
  <2> QED BY <1>0, <1>1, <2>1 DEF ReadsCurrent
<1>4. CASE x = r /\ ReadRow(r)
  <2>1. req'[r] = [req[r] EXCEPT !.pc = "h.paper", !.row = row[req[r].test]]
    BY <1>0, <1>4 DEF ReadRow, Becomes
  <2>2. req'[r].pc = "h.paper" /\ req'[r].row = row[req'[r].test]
    BY <1>0, <2>1 DEF Slot
  <2> QED BY <1>1, <1>4, <2>2 DEF ReadsCurrent
<1>5. CASE x = r /\ ReadPaper(r)
  <2>1. /\ req[r].pc = "h.paper"
        /\ req'[r] = [req[r] EXCEPT !.pc = "h.texts", !.paper = paper[req[r].test]]
    BY <1>0, <1>5 DEF ReadPaper, Becomes
  <2>2. /\ req'[r].pc = "h.texts" /\ req'[r].paper = paper[req'[r].test]
        /\ req'[r].row = req[r].row /\ req'[r].test = req[r].test
        /\ req'[r].overtaken = req[r].overtaken
    BY <1>0, <2>1 DEF Slot
  <2> QED BY <1>0, <1>1, <1>5, <2>1, <2>2 DEF ReadsCurrent
<1>6. CASE x = r /\ ReadTexts(r)
  <2> DEFINE f == [q \in req[r].paper |-> text[q]]
  <2>1. /\ req[r].pc = "h.texts"
        /\ req'[r] = [req[r] EXCEPT !.pc = "h.store", !.texts = f]
    BY <1>0, <1>6 DEF ReadTexts, Becomes
  <2>2. ~req[r].overtaken => f = [q \in paper[req[r].test] |-> text[q]]
    BY <1>0, <2>1 DEF ReadsCurrent
  <2> HIDE DEF f
  <2>3. /\ req'[r].pc = "h.store" /\ req'[r].texts = f
        /\ req'[r].row = req[r].row /\ req'[r].test = req[r].test
        /\ req'[r].overtaken = req[r].overtaken
    BY <1>0, <2>1 DEF Slot
  <2> QED BY <1>0, <1>1, <1>6, <2>1, <2>2, <2>3 DEF ReadsCurrent
<1>7. CASE x = r /\ ~(ReadRow(r) \/ ReadPaper(r) \/ ReadTexts(r))
  <2>1. \A k : Becomes(r, k) => req'[r] = k
    BY <1>0 DEF Becomes
  <2>2. CASE Finish(r)
    BY <1>7, <2>1, <2>2 DEF Finish, IdleSlot, ReadsCurrent
  <2>3. CASE ListBegin(r) \/ \E t \in Tests : HierarchyBegin(r, t)
    <3>1. req'[r].pc \in {"l.version", "h.get"}
      BY <2>1, <2>3 DEF ListBegin, HierarchyBegin, IdleSlot
    <3> QED BY <3>1, <1>7 DEF ReadsCurrent
  <2>4. CASE HierarchyGet(r) /\ ~Finish(r)
    <3>1. req'[r].pc = "h.row"
      BY <1>0, <2>1, <2>4 DEF HierarchyGet, Slot
    <3> QED BY <3>1, <1>7 DEF ReadsCurrent
  <2>5. CASE ListVersion(r) \/ ListQuery(r) \/ (ListGet(r) /\ ~Finish(r))
    <3>1. req'[r].pc \in {"l.get", "l.query", "l.store"}
      BY <1>0, <2>1, <2>5 DEF ListVersion, ListQuery, ListGet, Slot
    <3> QED BY <3>1, <1>7 DEF ReadsCurrent
  <2>6. CASE FindTests(r) \/ BumpGet(r)
    <3>1. req'[r].pc \in {"drop", "bump.set"}
      BY <1>0, <2>1, <2>6 DEF FindTests, BumpGet, Slot
    <3> QED BY <3>1, <1>7 DEF ReadsCurrent
  <2> QED BY <1>7, <2>2, <2>3, <2>4, <2>5, <2>6 DEF Quiet, Abort
<1> QED BY <1>3, <1>4, <1>5, <1>6, <1>7

\* The steps that write to the caches.
Store(r) == HierarchyStore(r) \/ ListStore(r) \/ Drop(r) \/ BumpSet(r)

LEMMA StoreKeepsReading ==
  ASSUME HierarchyInv, NEW r \in Requests, Store(r)
  PROVE  Reading'
<1> SUFFICES ASSUME NEW x \in Requests PROVE ReadsCurrent(req[x])'
  BY DEF Reading
<1>0. Typed /\ TypeOK /\ ReadsCurrent(req[x])
  BY DEF HierarchyInv, Typed, Reading
<1>1. row' = row /\ paper' = paper /\ text' = text
  BY DEF Store, HierarchyStore, ListStore, Drop, BumpSet, dbvars
<1>2. \E s : Becomes(r, s) /\ s.pc \in {"idle", "drop", "bump.get"}
  <2>1. CASE Finish(r)
    BY <2>1 DEF Finish, IdleSlot
  <2>2. CASE Drop(r) /\ ~Finish(r)
    <3>1. PICK t \in req[r].todo : Becomes(r, AfterDrop(req[r], req[r].todo \ {t}))
      BY <2>2 DEF Drop
    <3>2. req[r].pc = "drop" /\ req[r].todo \ {t} \in SUBSET req[r].todo
      BY <2>2 DEF Drop
    <3> QED BY <1>0, <3>1, <3>2, AfterDropShape
  <2> QED BY <2>1, <2>2 DEF Store, HierarchyStore, ListStore, BumpSet
<1>3. CASE x = r
  <2>1. req'[x].pc \in {"idle", "drop", "bump.get"}
    BY <1>0, <1>2, <1>3 DEF Becomes, TypeOK
  <2> QED BY <2>1 DEF ReadsCurrent
<1>4. CASE x # r
  <2>1. req'[x] = req[x]
    BY <1>0, <1>2, <1>4 DEF Becomes, TypeOK
  <2> QED BY <1>0, <1>1, <2>1 DEF ReadsCurrent
<1> QED BY <1>3, <1>4
LEMMA WriteKeepsStale ==
  ASSUME HierarchyInv, NEW r \in Requests, NEW s, NEW T, Covers(r, s, T),
         UNCHANGED hiervars
  PROVE  StaleIsDroppedOrLate'
<1> SUFFICES ASSUME NEW t \in Tests, hier[t] # NULL, t \notin late
             PROVE  (hier[t] = Current(t) \/ \E x \in Requests : WillDrop(req[x], t))'
  BY DEF StaleIsDroppedOrLate, hiervars
<1>0. hier[t] = Current(t) \/ \E x \in Requests : WillDrop(req[x], t)
  BY DEF HierarchyInv, StaleIsDroppedOrLate
<1>1. CASE t \in T
  <2>1. req'[r] = s
    BY DEF Covers, Overtakes
  <2>2. \/ t \in s.todo
        \/ s.pc = "more" /\ t \in Showing(s.question) /\ paper' = paper
    BY <1>1 DEF Covers
  <2>3. WillDrop(req[r], t)'
    BY <2>1, <2>2 DEF WillDrop, Showing
  <2> QED BY <2>3
<1>2. CASE t \notin T
  <2>1. row'[t] = row[t] /\ paper'[t] = paper[t] /\ \A q \in paper[t] : text'[q] = text[q]
    BY <1>2 DEF Covers
  <2>2. Current(t)' = Current(t)
    BY <2>1 DEF Current
  <2>3. CASE hier[t] = Current(t)
    BY <2>2, <2>3 DEF hiervars
  <2>4. ASSUME NEW x \in Requests, WillDrop(req[x], t)
        PROVE  WillDrop(req[x], t)'
    <3>1. x # r
      BY <1>2, <2>4 DEF Covers
    <3>2. req[x] \in Slot /\ Form(req[x])
      BY DEF HierarchyInv, Typed, TypeOK, Formed
    <3>3. /\ req'[x].pc = req[x].pc /\ req'[x].todo = req[x].todo
          /\ req'[x].question = req[x].question
      BY <3>1, <3>2 DEF Covers, Overtakes, Slot
    <3> QED BY <2>1, <2>4, <3>3 DEF WillDrop, Showing
  <2> QED BY <1>0, <2>3, <2>4
<1> QED BY <1>1, <1>2

\* A request leaves the stage at which it will delete the entry of a test for one
\* at which it will too, or deletes it.
LEMMA QuietKeepsDropping ==
  ASSUME Typed, NoHierarchyFaults, NEW r \in Requests, Quiet(r),
         NEW t \in Tests, WillDrop(req[r], t)
  PROVE  t \in req'[r].todo
<1>0. req \in [Requests -> Slot] /\ req[r] \in Slot /\ Form(req[r])
  BY DEF Typed, TypeOK, Formed
<1>1. req[r].pc \notin {"idle"} \cup HierarchyStages \cup ListStages \cup BumpStages
  BY IdleDropsNothing
<1>2. FindTests(r)
  BY <1>1 DEF Quiet, ListBegin, HierarchyBegin, MayBegin, HierarchyGet, ReadRow,
     ReadPaper, ReadTexts, ListVersion, ListGet, ListQuery, BumpGet, Abort,
     NoHierarchyFaults, HierarchyStages, ListStages, BumpStages
<1>3. req'[r] = [req[r] EXCEPT !.pc = "drop", !.todo = Showing(req[r].question)]
  BY <1>0, <1>2 DEF FindTests, Becomes
<1>4. req[r].pc = "more" /\ req[r].todo = {}
  BY <1>0, <1>2 DEF FindTests, Form
<1> QED BY <1>0, <1>3, <1>4 DEF WillDrop, Slot

\* Steps that leave the database and the entry of t as they are.
LEMMA SameEntry ==
  ASSUME HierarchyInv, NEW r \in Requests, NEW s, Becomes(r, s),
         UNCHANGED dbvars, NEW t \in Tests,
         hier'[t] = hier[t], t \in late' <=> t \in late,
         hier[t] # NULL, t \notin late,
         WillDrop(req[r], t) => t \in req'[r].todo
  PROVE  (hier[t] = Current(t) \/ \E x \in Requests : WillDrop(req[x], t))'
<1>1. hier[t] = Current(t) \/ \E x \in Requests : WillDrop(req[x], t)
  BY DEF HierarchyInv, StaleIsDroppedOrLate
<1>2. CASE hier[t] = Current(t)
  BY <1>2 DEF Current, dbvars
<1>3. ASSUME NEW x \in Requests, WillDrop(req[x], t)
      PROVE  WillDrop(req[x], t)'
  <2>1. CASE x = r
    BY <1>3, <2>1 DEF WillDrop
  <2>2. CASE x # r
    <3>1. req'[x] = req[x] /\ paper' = paper
      BY <2>2 DEF Becomes, dbvars, HierarchyInv, Typed, TypeOK
    <3> QED BY <1>3, <3>1 DEF WillDrop, Showing
  <2> QED BY <2>1, <2>2
<1> QED BY <1>1, <1>2, <1>3

LEMMA StoreKeepsStale ==
  ASSUME HierarchyInv, NoHierarchyFaults, NEW r \in Requests, Store(r)
  PROVE  StaleIsDroppedOrLate'
<1> SUFFICES ASSUME NEW t \in Tests, hier'[t] # NULL, t \notin late'
             PROVE  (hier[t] = Current(t) \/ \E x \in Requests : WillDrop(req[x], t))'
  BY DEF StaleIsDroppedOrLate
<1>0. /\ Typed /\ req \in [Requests -> Slot] /\ req[r] \in Slot /\ Form(req[r])
      /\ ReadsCurrent(req[r]) /\ hier \in [Tests -> Hierarchy \cup {NULL}]
  BY DEF HierarchyInv, Typed, TypeOK, Formed, Reading
<1>1. UNCHANGED dbvars
  BY DEF Store, HierarchyStore, ListStore, Drop, BumpSet
<1>2. CASE HierarchyStore(r) /\ t = req[r].test
  <2>1. /\ req[r].pc = "h.store"
        /\ hier' = [hier EXCEPT ![t] = [row |-> req[r].row, texts |-> req[r].texts]]
        /\ ~req[r].overtaken
    BY <1>2 DEF HierarchyStore, NoHierarchyFaults
  <2>2. req[r].row = row[t] /\ req[r].texts = [q \in paper[t] |-> text[q]]
    BY <1>0, <1>2, <2>1 DEF ReadsCurrent
  <2>3. hier'[t] = Current(t)
    BY <1>0, <2>1, <2>2 DEF Current
  <2> QED BY <1>1, <2>3 DEF Current, dbvars
<1>3. CASE HierarchyStore(r) /\ t # req[r].test
  <2>1. ~WillDrop(req[r], t)
    BY <1>0, <1>3, IdleDropsNothing DEF HierarchyStore, HierarchyStages
  <2>2. hier'[t] = hier[t] /\ (t \in late' <=> t \in late) /\ Becomes(r, IdleSlot)
    BY <1>0, <1>3 DEF HierarchyStore, Finish, NoHierarchyFaults
  <2> QED BY <1>1, <2>1, <2>2, SameEntry
<1>4. CASE ListStore(r) \/ BumpSet(r)
  <2>1. ~WillDrop(req[r], t)
    BY <1>0, <1>4, IdleDropsNothing DEF ListStore, BumpSet, ListStages, BumpStages
  <2>2. hier' = hier /\ late' = late /\ Becomes(r, IdleSlot)
    BY <1>4 DEF ListStore, BumpSet, Finish, hiervars
  <2> QED BY <1>1, <2>1, <2>2, SameEntry
<1>5. CASE Drop(r) /\ req[r].todo = {}
  <2>1. ~WillDrop(req[r], t)
    BY <1>5 DEF Drop, WillDrop
  <2>2. hier' = hier /\ late' = late /\ Becomes(r, IdleSlot)
    BY <1>5 DEF Drop, Finish, hiervars
  <2> QED BY <1>1, <2>1, <2>2, SameEntry
<1>6. CASE Drop(r) /\ req[r].todo # {}
  <2>1. PICK u \in req[r].todo :
             /\ Becomes(r, AfterDrop(req[r], req[r].todo \ {u}))
             /\ hier' = [hier EXCEPT ![u] = NULL] /\ late' = late \ {u}
    BY <1>6 DEF Drop, NoHierarchyFaults
  <2>2. t # u
    BY <1>0, <2>1
  <2>3. hier'[t] = hier[t] /\ (t \in late' <=> t \in late)
    BY <1>0, <2>1, <2>2
  <2>4. req[r].pc = "drop" /\ req[r].todo \ {u} \in SUBSET req[r].todo
    BY <1>6 DEF Drop
  <2>5. req'[r] = AfterDrop(req[r], req[r].todo \ {u})
    BY <1>0, <2>1 DEF Becomes
  <2>6. req'[r].todo = req[r].todo \ {u}
    BY <1>0, <2>4, <2>5, AfterDropShape
  <2>7. WillDrop(req[r], t) => t \in req'[r].todo
    BY <2>2, <2>4, <2>6 DEF WillDrop
  <2> QED BY <1>1, <2>1, <2>3, <2>7, SameEntry
<1> QED BY <1>2, <1>3, <1>4, <1>5, <1>6 DEF Store
LEMMA HierarchyNext ==
  ASSUME HierarchyInv, NoHierarchyFaults, [Next]_vars
  PROVE  HierarchyInv'
<1>0. Typed'
  BY TypedNext DEF HierarchyInv
<1>1. CASE UNCHANGED vars
  BY <1>0, <1>1 DEF HierarchyInv, Reading, ReadsCurrent, StaleIsDroppedOrLate, WillDrop,
     Showing, Current, vars, dbvars, hiervars
<1>2. ASSUME NEW r \in Requests, Quiet(r) PROVE HierarchyInv'
  <2>1. UNCHANGED <<dbvars, hiervars, listvars>>
    BY <1>2 DEF Quiet, ListBegin, HierarchyBegin, HierarchyGet, ReadRow, ReadPaper,
                ReadTexts, ListVersion, ListGet, ListQuery, FindTests, BumpGet, Abort
  <2>2. PICK s : Becomes(r, s)
    BY <1>2, QuietShape DEF HierarchyInv
  <2>3. StaleIsDroppedOrLate'
    <3> SUFFICES ASSUME NEW t \in Tests, hier[t] # NULL, t \notin late
                 PROVE  (hier[t] = Current(t) \/ \E x \in Requests : WillDrop(req[x], t))'
      BY <2>1 DEF StaleIsDroppedOrLate, hiervars
    <3>1. WillDrop(req[r], t) => t \in req'[r].todo
      BY <1>2, QuietKeepsDropping DEF HierarchyInv
    <3> QED BY <2>1, <2>2, <3>1, SameEntry DEF hiervars
  <2> QED BY <1>0, <1>2, <2>3, QuietKeepsReading DEF HierarchyInv
<1>3. ASSUME NEW r \in Requests, Write(r) \/ \E t \in Tests : EditTest(r, t)
      PROVE  HierarchyInv'
  <2>1. PICK s, T : Covers(r, s, T)
    BY <1>3, WriteCovers DEF HierarchyInv
  <2>2. UNCHANGED hiervars
    BY <1>3 DEF Write, CreateQuestion, EditPaper, EditQuestion, WriteObjective,
                CommitQuestion, EditOptions, EditTest
  <2> QED BY <1>0, <2>1, <2>2, WriteKeepsReading, WriteKeepsStale DEF HierarchyInv
<1>4. ASSUME NEW r \in Requests, Store(r) PROVE HierarchyInv'
  BY <1>0, <1>4, StoreKeepsReading, StoreKeepsStale DEF HierarchyInv
<1>5. ASSUME NEW t \in Tests, ExpireHierarchy(t) PROVE HierarchyInv'
  <2>1. Reading'
    BY <1>5 DEF ExpireHierarchy, HierarchyInv, Reading, ReadsCurrent, dbvars
  <2>2. \A u \in Tests : hier'[u] # NULL /\ u \notin late' =>
           hier'[u] = hier[u] /\ u \notin late
    BY <1>5 DEF ExpireHierarchy, HierarchyInv, Typed, TypeOK
  <2>3. StaleIsDroppedOrLate'
    BY <1>5, <2>2 DEF ExpireHierarchy, HierarchyInv, StaleIsDroppedOrLate, WillDrop,
                      Showing, Current, dbvars
  <2> QED BY <1>0, <2>1, <2>3 DEF HierarchyInv
<1>6. CASE ExpireVersion \/ \E n \in Versions : ExpireList(n)
  <2>1. UNCHANGED <<dbvars, hiervars, req>>
    BY <1>6 DEF ExpireVersion, ExpireList
  <2> QED BY <1>0, <2>1 DEF HierarchyInv, Reading, ReadsCurrent, StaleIsDroppedOrLate,
             WillDrop, Showing, Current, dbvars, hiervars
<1>7. CASE GenerateTest
  <2>1. UNCHANGED <<row, paper, text, hiervars, req>>
    BY <1>7 DEF GenerateTest
  <2> QED BY <1>0, <2>1 DEF HierarchyInv, Reading, ReadsCurrent, StaleIsDroppedOrLate,
             WillDrop, Showing, Current, hiervars
<1> QED BY <1>1, <1>2, <1>3, <1>4, <1>5, <1>6, <1>7
        DEF Next, Begin, Step, Quiet, Write, Store

\* While Redis answers and no edit ends before it is done, a hierarchy in the cache
\* that is not what the database holds is about to be deleted or was stored by a
\* read that an edit overtook (tests.service.ts 562-645, 1224-1284), whatever
\* requests overlap.
THEOREM StaleHierarchyIsDroppedOrLate ==
  ASSUME NoHierarchyFaults
  PROVE  Spec => []StaleIsDroppedOrLate
<1>1. HierarchyInv /\ [Next]_vars => HierarchyInv'
  BY HierarchyNext
<1>2. HierarchyInv => StaleIsDroppedOrLate
  BY DEF HierarchyInv
<1> QED BY <1>1, <1>2, HierarchyInit, PTL DEF Spec

(***************************************************************************)
(* The list.  With one edit of a test at a time the version only goes up,  *)
(* and no entry and no reader is ahead of it.  A reader of the current     *)
(* version makes its query after the version was moved on.                 *)
(***************************************************************************)
OneTestEditAtATime == {"test"} \notin Overlap

NoListFaults == Faults \cap {"redis", "abort", "expiry"} = {}

Agrees(list) == \A t \in Tests : list.tests[t].edit = row[t].edit

SomeBumping == \E r \in Requests : Bumping(req[r])

OneBumping ==
    \A r, x \in Requests : Bumping(req[r]) /\ Bumping(req[x]) => r = x

NoneAhead ==
    /\ \A n \in Versions : n > version => lists[n] = NULL
    /\ \A r \in Requests :
          req[r].pc \in {"l.get", "l.query", "l.store"} => req[r].version <= version
    /\ \A r \in Requests : req[r].pc = "bump.set" => req[r].version = version

StoresFresh ==
    \A r \in Requests : req[r].pc = "l.store" /\ req[r].version = version =>
        (Agrees(req[r].list) \/ SomeBumping) /\ req[r].list.generated >= announced

ListInv == Typed /\ OneBumping /\ NoneAhead /\ StoresFresh /\ ListFresh

LEMMA ListInit == Init => ListInv
<1> SUFFICES ASSUME Init PROVE ListInv
  OBVIOUS
<1>1. \A r \in Requests : req[r].pc = "idle" /\ ~Bumping(req[r])
  BY IdleTyped DEF Init, IdleSlot
<1>2. OneBumping /\ StoresFresh
  BY <1>1 DEF OneBumping, StoresFresh
<1>3. NoneAhead
  BY <1>1 DEF Init, NoneAhead
<1>4. ListFresh
  BY CachesAssumption DEF Init, ListFresh, Versions
<1> QED BY <1>2, <1>3, <1>4, TypedInit DEF ListInv

\* A request goes on as s; the list, its version and the rows in it stay.
LEMMA StepKeepsList ==
  ASSUME ListInv, NEW r \in Requests, NEW s \in Slot, Form(s), Moves(r, s),
         UNCHANGED listvars, \A t \in Tests : row'[t].edit = row[t].edit,
         Bumping(s) <=> Bumping(req[r]),
         s.pc \in {"l.get", "l.query", "l.store"} => s.version <= version,
         s.pc = "bump.set" => s.version = version,
         s.pc = "l.store" /\ s.version = version =>
            (Agrees(s.list) \/ SomeBumping) /\ s.list.generated >= announced
  PROVE  OneBumping' /\ NoneAhead' /\ StoresFresh' /\ ListFresh'
<1>1. \A x \in Requests \ {r} : /\ req'[x].pc = req[x].pc
                                /\ req'[x].kind = req[x].kind
                                /\ req'[x].version = req[x].version
                                /\ req'[x].list = req[x].list
  BY MovesTyped DEF ListInv
<1>2. req'[r] = s
  BY DEF Moves
<1>3. ASSUME NEW x \in Requests PROVE Bumping(req[x])' <=> Bumping(req[x])
  BY <1>1, <1>2 DEF Bumping
<1>4. SomeBumping' <=> SomeBumping
  BY <1>3 DEF SomeBumping
<1>5. OneBumping'
  BY <1>3 DEF ListInv, OneBumping
<1>6. NoneAhead'
  BY <1>1, <1>2 DEF ListInv, NoneAhead, listvars
<1>7. StoresFresh'
  <2> SUFFICES ASSUME NEW x \in Requests, req'[x].pc = "l.store",
                      req'[x].version = version
               PROVE  /\ ~SomeBumping => Agrees(req[x].list)'
                      /\ req'[x].list.generated >= announced
    BY <1>4 DEF StoresFresh, listvars
  <2>1. /\ ~SomeBumping => \A t \in Tests : req'[x].list.tests[t].edit = row[t].edit
        /\ req'[x].list.generated >= announced
    <3>1. CASE x = r
      BY <1>2, <3>1 DEF Agrees
    <3>2. CASE x # r
      BY <1>1, <3>2 DEF ListInv, StoresFresh, Agrees
    <3> QED BY <3>1, <3>2
  <2> QED BY <2>1 DEF Agrees
<1>8. ListFresh'
  BY <1>4 DEF ListInv, ListFresh, SomeBumping, listvars
<1> QED BY <1>5, <1>6, <1>7, <1>8
LEMMA QuietKeepsList ==
  ASSUME ListInv, NoListFaults, NEW r \in Requests, Quiet(r)
  PROVE  OneBumping' /\ NoneAhead' /\ StoresFresh' /\ ListFresh'
<1> DEFINE Good(s) == /\ Bumping(req[r]) => Bumping(s)
                      /\ s.pc \in {"l.get", "l.query", "l.store"} => s.version <= version
                      /\ s.pc = "bump.set" => s.version = version
                      /\ s.pc = "l.store" /\ s.version = version =>
                            /\ Agrees(s.list) \/ SomeBumping
                            /\ s.list.generated >= announced
<1>0. /\ Typed /\ TypeOK /\ req[r] \in Slot /\ Form(req[r])
      /\ version \in Nat
      /\ req[r].pc \in {"l.get", "l.query", "l.store"} => req[r].version <= version
  BY CachesAssumption DEF ListInv, Typed, TypeOK, Formed, NoneAhead, Versions
<1>1. PICK s \in Slot : Becomes(r, s) /\ Form(s) /\ (Bumping(s) => Bumping(req[r]))
  BY <1>0, QuietShape
<1>2. UNCHANGED <<dbvars, listvars>>
  BY DEF Quiet, ListBegin, HierarchyBegin, HierarchyGet, ReadRow, ReadPaper,
         ReadTexts, ListVersion, ListGet, ListQuery, FindTests, BumpGet, Abort
<1>3. req'[r] = s /\ \A k : Becomes(r, k) => req'[r] = k
  BY <1>0, <1>1 DEF Becomes, TypeOK
<1>4. ~Bumping(req[r]) /\ s.pc \notin {"l.get", "l.query", "l.store", "bump.set"} => Good(s)
  OBVIOUS
<1>5. ASSUME ListVersion(r) PROVE Good(s)
  <2>1. s = [req[r] EXCEPT !.pc = "l.get", !.version = version] /\ req[r].pc = "l.version"
    BY <1>3, <1>5 DEF ListVersion
  <2>2. s.pc = "l.get" /\ s.version = version
    BY <1>0, <2>1 DEF Slot
  <2> QED BY <1>0, <2>1, <2>2 DEF Bumping
<1>6. ASSUME ListGet(r) /\ ~Finish(r) PROVE Good(s)
  <2>1. s = [req[r] EXCEPT !.pc = "l.query"] /\ req[r].pc = "l.get"
    BY <1>3, <1>6 DEF ListGet
  <2>2. s.pc = "l.query" /\ s.version = req[r].version
    BY <1>0, <2>1 DEF Slot
  <2> QED BY <1>0, <2>1, <2>2 DEF Bumping
<1>7. ASSUME ListQuery(r) PROVE Good(s)
  <2>1. s = [req[r] EXCEPT !.pc = "l.store", !.list = Listed] /\ req[r].pc = "l.query"
    BY <1>3, <1>7 DEF ListQuery
  <2>2. s.pc = "l.store" /\ s.version = req[r].version /\ s.list = Listed
    BY <1>0, <2>1 DEF Slot
  <2>3. Agrees(s.list) /\ s.list.generated >= announced
    BY <1>0, <2>2, CachesAssumption
       DEF Typed, TypeOK, Counted, Versions, Listed, Agrees
  <2> QED BY <1>0, <2>1, <2>2, <2>3 DEF Bumping
<1>8. ASSUME BumpGet(r) PROVE Good(s)
  <2>1. s = [req[r] EXCEPT !.pc = "bump.set", !.version = version] /\ req[r].pc = "bump.get"
    BY <1>3, <1>8 DEF BumpGet
  <2>2. s.pc = "bump.set" /\ s.version = version /\ s.kind = "test"
    BY <1>0, <2>1 DEF Slot, Form, BumpStages
  <2> QED BY <2>2 DEF Bumping
<1>9. ASSUME Finish(r) PROVE Good(s)
  <2>1. s = IdleSlot
    BY <1>3, <1>9 DEF Finish
  <2>2. ~Bumping(req[r])
    <3>1. CASE Abort(r)
      BY <1>0, <3>1 DEF Abort, NoListFaults, Form, Bumping
    <3>2. CASE ~Abort(r)
      <4>1. Becomes(r, s) /\ s.pc = "idle"
        BY <1>1, <2>1 DEF IdleSlot
      <4>2. req[r].pc \in {"idle"} \cup HierarchyStages \cup ListStages \cup {"more", "bump.get"}
        BY <3>2 DEF Quiet, ListBegin, HierarchyBegin, MayBegin, HierarchyGet, ReadRow,
           ReadPaper, ReadTexts, ListVersion, ListGet, ListQuery, FindTests, BumpGet,
           HierarchyStages, ListStages
      <4>3. req[r].pc # "bump.get"
        <5>1. SUFFICES ASSUME BumpGet(r) PROVE FALSE
          BY <3>2 DEF Quiet, ListBegin, HierarchyBegin, MayBegin, HierarchyGet, ReadRow,
             ReadPaper, ReadTexts, ListVersion, ListGet, ListQuery, FindTests
        <5>2. s = [req[r] EXCEPT !.pc = "bump.set", !.version = version]
          BY <1>3, <5>1 DEF BumpGet
        <5> QED BY <1>0, <4>1, <5>2 DEF Slot
      <4> QED BY <1>0, <4>2, <4>3 DEF Bumping, HierarchyStages, ListStages
    <3> QED BY <3>1, <3>2
  <2> QED BY <2>1, <2>2 DEF IdleSlot
<1>10. ASSUME HierarchyGet(r) /\ ~Finish(r) PROVE Good(s)
  <2>1. s = [req[r] EXCEPT !.pc = "h.row"] /\ req[r].pc = "h.get"
    BY <1>3, <1>10 DEF HierarchyGet
  <2> QED BY <1>0, <2>1 DEF Slot, Bumping
<1>11. ASSUME \/ ListBegin(r) \/ \E t \in Tests : HierarchyBegin(r, t)
              \/ ReadRow(r) \/ ReadPaper(r) \/ ReadTexts(r) \/ FindTests(r)
       PROVE  Good(s)
  <2>1. req[r].pc \in {"idle", "h.row", "h.paper", "h.texts", "more"}
    BY <1>11 DEF ListBegin, HierarchyBegin, MayBegin, ReadRow, ReadPaper, ReadTexts,
                 FindTests
  <2>2. s.pc \in {"l.version", "h.get", "h.paper", "h.texts", "h.store", "drop"}
    BY <1>0, <1>3, <1>11 DEF ListBegin, HierarchyBegin, ReadRow, ReadPaper, ReadTexts,
                       FindTests, IdleSlot, Slot
  <2> QED BY <2>1, <2>2, <1>4 DEF Bumping
<1>12. Good(s)
  BY <1>5, <1>6, <1>7, <1>8, <1>9, <1>10, <1>11 DEF Quiet, Abort
<1>13. Moves(r, s)
  BY <1>0, <1>1, BecomesMoves
<1>14. \A t \in Tests : row'[t].edit = row[t].edit
  BY <1>2 DEF dbvars
<1> QED BY <1>1, <1>2, <1>12, <1>13, <1>14, StepKeepsList

LEMMA WriteKeepsList ==
  ASSUME ListInv, NEW r \in Requests, Write(r)
  PROVE  OneBumping' /\ NoneAhead' /\ StoresFresh' /\ ListFresh'
<1>0. Typed /\ Form(req[r]) /\ row \in Rows
  BY DEF ListInv, Typed, TypeOK, Formed
<1>1. PICK s \in Slot : /\ Moves(r, s) /\ Form(s) /\ ~Bumping(s)
                        /\ s.pc \in {"create", "flag", "more", "drop"}
  BY <1>0, WriteShape
<1>2. req[r].pc \in {"idle", "more", "create", "flag"}
  BY DEF Write, CreateQuestion, EditPaper, EditQuestion, WriteObjective,
         CommitQuestion, EditOptions, MayBegin
<1>3. ~Bumping(req[r])
  BY <1>2 DEF Bumping
<1>4. \A u \in Tests : row'[u].edit = row[u].edit
  <2>1. \A t \in Tests, b \in BOOLEAN, u \in Tests :
           [row EXCEPT ![t].objective = b][u].edit = row[u].edit
    BY <1>0 DEF Rows, TestRow
  <2>2. ASSUME NEW t \in Tests, CreateQuestion(r, t)
        PROVE  \A u \in Tests : row'[u].edit = row[u].edit
    BY <2>1, <2>2 DEF CreateQuestion
  <2>3. CASE WriteObjective(r)
    <3>1. req[r].todo \subseteq Tests
      BY DEF ListInv, Typed, TypeOK, Slot
    <3> QED BY <2>1, <2>3, <3>1 DEF WriteObjective
  <2>4. CASE \/ \E t \in Tests, S \in SUBSET Questions : EditPaper(r, t, S)
             \/ \E q \in Questions : EditQuestion(r, q)
             \/ CommitQuestion(r) \/ EditOptions(r)
    <3>1. row' = row
      BY <2>4 DEF EditPaper, EditQuestion, CommitQuestion, EditOptions
    <3> QED BY <3>1
  <2> QED BY <2>2, <2>3, <2>4 DEF Write
<1> QED BY <1>0, <1>1, <1>3, <1>4, WriteShape, StepKeepsList
\* The edit that begins is the only one, and its list is to be made obsolete.
LEMMA EditTestKeepsList ==
  ASSUME ListInv, OneTestEditAtATime, NEW r \in Requests, NEW t \in Tests, EditTest(r, t)
  PROVE  OneBumping' /\ NoneAhead' /\ StoresFresh' /\ ListFresh'
<1>0. Typed
  BY DEF ListInv
<1>1. PICK s \in Slot : Moves(r, s) /\ Form(s) /\ Bumping(s) /\ s.pc = "drop"
  BY <1>0, EditTestShape
<1>2. \A x \in Requests \ {r} : /\ req'[x].pc = req[x].pc
                                /\ req'[x].kind = req[x].kind
                                /\ req'[x].version = req[x].version
                                /\ req'[x].list = req[x].list
  BY <1>0, <1>1, MovesTyped
<1>3. req'[r] = s /\ UNCHANGED listvars
  BY <1>0, <1>1, EditTestShape DEF Moves
<1>4. \A x \in Requests \ {r} : ~Bumping(req[x])
  <2> SUFFICES ASSUME NEW x \in Requests \ {r}, Bumping(req[x]) PROVE FALSE
    OBVIOUS
  <2>1. {"test", req[x].kind} \in Overlap
    BY DEF EditTest, MayBegin, Bumping
  <2>2. {"test", req[x].kind} = {"test"}
    BY DEF Bumping
  <2> QED BY <2>1, <2>2 DEF OneTestEditAtATime
<1>5. SomeBumping'
  BY <1>1, <1>3 DEF SomeBumping
<1>6. \A x \in Requests \ {r} : ~Bumping(req'[x])
  BY <1>2, <1>4 DEF Bumping
<1>7. OneBumping'
  BY <1>6 DEF OneBumping
<1>8. NoneAhead'
  BY <1>1, <1>2, <1>3 DEF ListInv, NoneAhead, listvars
<1>9. ListFresh'
  <2>1. lists' = lists /\ version' = version /\ announced' = announced
    BY <1>3 DEF listvars
  <2> QED BY <1>5, <2>1 DEF ListInv, ListFresh, SomeBumping
<1>10. StoresFresh'
  <2> SUFFICES ASSUME NEW x \in Requests, req'[x].pc = "l.store", req'[x].version = version
               PROVE  req'[x].list.generated >= announced
    BY <1>3, <1>5 DEF StoresFresh, listvars
  <2>1. x # r
    BY <1>1, <1>3
  <2>2. req[x].pc = "l.store" /\ req[x].version = version /\ req'[x].list = req[x].list
    BY <1>2, <2>1
  <2> QED BY <2>2 DEF ListInv, StoresFresh
<1> QED BY <1>7, <1>8, <1>9, <1>10

LEMMA StoreKeepsList ==
  ASSUME ListInv, NEW r \in Requests, HierarchyStore(r) \/ Drop(r)
  PROVE  OneBumping' /\ NoneAhead' /\ StoresFresh' /\ ListFresh'
<1>0. Typed /\ TypeOK /\ Form(req[r])
  BY DEF ListInv, Typed, Formed
<1>1. UNCHANGED <<dbvars, listvars>>
  BY DEF HierarchyStore, Drop
<1>2. PICK s \in Slot : /\ Becomes(r, s) /\ Form(s)
                        /\ Bumping(s) <=> Bumping(req[r])
                        /\ s.pc \notin {"l.get", "l.query", "l.store", "bump.set"}
  <2>1. CASE Finish(r) /\ ~Bumping(req[r])
    BY <2>1, IdleTyped DEF Finish, IdleSlot
  <2>2. CASE HierarchyStore(r)
    BY <2>1, <2>2 DEF HierarchyStore, Bumping
  <2>3. CASE Drop(r) /\ req[r].todo = {}
    BY <1>0, <2>1, <2>3 DEF Drop, Form, Bumping
  <2>4. ASSUME Drop(r), NEW t \in req[r].todo,
               Becomes(r, AfterDrop(req[r], req[r].todo \ {t}))
        PROVE  \E s \in Slot : /\ Becomes(r, s) /\ Form(s)
                               /\ Bumping(s) <=> Bumping(req[r])
                               /\ s.pc \notin {"l.get", "l.query", "l.store", "bump.set"}
    <3>1. req[r].pc = "drop" /\ req[r].todo \ {t} \in SUBSET req[r].todo
      BY <2>4 DEF Drop
    <3> QED BY <1>0, <2>4, <3>1, AfterDropShape
  <2> QED BY <2>2, <2>3, <2>4 DEF Drop
<1>3. Moves(r, s)
  BY <1>0, <1>2, BecomesMoves
<1>4. \A t \in Tests : row'[t].edit = row[t].edit
  BY <1>1 DEF dbvars
<1> QED BY <1>1, <1>2, <1>3, <1>4, StepKeepsList

LEMMA ListStoreKeepsList ==
  ASSUME ListInv, NEW r \in Requests, ListStore(r)
  PROVE  OneBumping' /\ NoneAhead' /\ StoresFresh' /\ ListFresh'
<1>0. /\ TypeOK /\ req \in [Requests -> Slot] /\ req[r].pc = "l.store"
      /\ req[r].version \in Versions /\ version \in Versions
      /\ lists \in [Versions -> List \cup {NULL}]
  BY DEF ListInv, Typed, TypeOK, ListStore, Slot
<1>1. /\ req'[r] = IdleSlot /\ \A x \in Requests \ {r} : req'[x] = req[x]
      /\ lists' = [lists EXCEPT ![req[r].version] = req[r].list]
      /\ UNCHANGED <<row, version, announced>>
  BY <1>0 DEF ListStore, Finish, Becomes, dbvars
<1>2. ~Bumping(req[r]) /\ ~Bumping(IdleSlot)
  BY <1>0, IdleTyped DEF Bumping
<1>3. \A x \in Requests : Bumping(req'[x]) <=> Bumping(req[x])
  BY <1>1, <1>2
<1>4. SomeBumping' <=> SomeBumping
  BY <1>3 DEF SomeBumping
<1>5. OneBumping'
  BY <1>3 DEF ListInv, OneBumping
<1>6. NoneAhead'
  <2>1. req[r].version <= version
    BY <1>0 DEF ListInv, NoneAhead
  <2>2. \A n \in Versions : n > version' => lists'[n] = NULL
    BY <1>0, <1>1, <2>1, CachesAssumption DEF ListInv, NoneAhead, Versions
  <2> QED BY <1>1, <2>2 DEF ListInv, NoneAhead, IdleSlot
<1>7. StoresFresh'
  BY <1>1, <1>4 DEF ListInv, StoresFresh, Agrees, IdleSlot
<1>8. ListFresh'
  <2>1. CASE req[r].version = version
    <3>1. lists'[version'] = req[r].list
      BY <1>0, <1>1, <2>1
    <3>2. (Agrees(req[r].list) \/ SomeBumping) /\ req[r].list.generated >= announced
      BY <1>0, <2>1 DEF ListInv, StoresFresh
    <3>3. /\ (\A t \in Tests : lists'[version'].tests[t].edit = row'[t].edit) \/ SomeBumping'
          /\ lists'[version'].generated >= announced'
      BY <1>1, <1>4, <3>1, <3>2 DEF Agrees
    <3> QED BY <3>3 DEF ListFresh, SomeBumping
  <2>2. CASE req[r].version # version
    <3>1. lists'[version'] = lists[version]
      BY <1>0, <1>1, <2>2
    <3> QED BY <1>1, <1>4, <3>1 DEF ListInv, ListFresh, SomeBumping
  <2> QED BY <2>1, <2>2
<1> QED BY <1>5, <1>6, <1>7, <1>8

\* The version moves to one that nothing was stored under and nobody has read.
LEMMA BumpSetKeepsList ==
  ASSUME ListInv, NEW r \in Requests, BumpSet(r)
  PROVE  OneBumping' /\ NoneAhead' /\ StoresFresh' /\ ListFresh'
<1>0. /\ TypeOK /\ Counted /\ Form(req[r]) /\ req[r].pc = "bump.set"
      /\ version \in Nat /\ edits \in Versions
      /\ \A x \in Requests : req[x].version \in Nat
  BY CachesAssumption DEF ListInv, Typed, TypeOK, Formed, BumpSet, Slot, Versions
<1>1. Bumping(req[r]) /\ r \in Bumpers
  BY <1>0 DEF Form, Bumping, BumpStages, Bumpers
<1>2. version' = version + 1 /\ UNCHANGED lists
  BY <1>0 DEF ListInv, NoneAhead, BumpSet
<1>3. version + 1 \in Versions
  BY <1>0, <1>1, VersionFits DEF Counted
<1>4. req'[r] = IdleSlot /\ \A x \in Requests \ {r} : req'[x] = req[x]
  BY <1>0 DEF BumpSet, Finish, Becomes, TypeOK
<1>5. \A x \in Requests \ {r} : req[x].pc # "bump.set"
  <2> SUFFICES ASSUME NEW x \in Requests \ {r}, req[x].pc = "bump.set" PROVE FALSE
    OBVIOUS
  <2>1. Bumping(req[x])
    BY DEF ListInv, Typed, Formed, Form, Bumping, BumpStages
  <2> QED BY <1>1, <2>1 DEF ListInv, OneBumping
<1>6. OneBumping'
  <2>1. ~Bumping(IdleSlot)
    BY IdleTyped
  <2>2. \A x \in Requests : Bumping(req'[x]) => Bumping(req[x])
    BY <1>4, <2>1
  <2> QED BY <2>2 DEF ListInv, OneBumping
<1>7. NoneAhead'
  <2>1. \A n \in Versions : n > version' => lists'[n] = NULL
    BY <1>0, <1>2, CachesAssumption DEF ListInv, NoneAhead, Versions
  <2>2. \A x \in Requests :
           req'[x].pc \in {"l.get", "l.query", "l.store"} => req'[x].version <= version'
    BY <1>0, <1>2, <1>4 DEF ListInv, NoneAhead, IdleSlot
  <2>3. \A x \in Requests : req'[x].pc # "bump.set"
    BY <1>4, <1>5 DEF IdleSlot
  <2> QED BY <2>1, <2>2, <2>3 DEF NoneAhead
<1>8. StoresFresh'
  <2>1. \A x \in Requests : req'[x].pc = "l.store" => req'[x].version # version'
    BY <1>0, <1>2, <1>4 DEF ListInv, NoneAhead, IdleSlot
  <2> QED BY <2>1 DEF StoresFresh
<1>9. lists'[version'] = NULL
  BY <1>0, <1>2, <1>3 DEF ListInv, NoneAhead
<1>10. ListFresh'
  BY <1>9 DEF ListFresh
<1> QED BY <1>6, <1>7, <1>8, <1>10

LEMMA ListNext ==
  ASSUME ListInv, OneTestEditAtATime, NoListFaults, [Next]_vars
  PROVE  ListInv'
<1>0. Typed'
  BY TypedNext DEF ListInv
<1>1. CASE UNCHANGED vars
  BY <1>0, <1>1 DEF ListInv, OneBumping, NoneAhead, StoresFresh, Agrees, SomeBumping,
     ListFresh, vars, dbvars, listvars
<1>2. ASSUME NEW r \in Requests, Begin(r) \/ Step(r)
      PROVE  OneBumping' /\ NoneAhead' /\ StoresFresh' /\ ListFresh'
  <2>1. \/ Quiet(r) \/ Write(r) \/ \E t \in Tests : EditTest(r, t)
        \/ HierarchyStore(r) \/ Drop(r) \/ ListStore(r) \/ BumpSet(r)
    BY <1>2 DEF Begin, Step, Quiet, Write
  <2> QED BY <2>1, QuietKeepsList, WriteKeepsList, EditTestKeepsList, StoreKeepsList,
             ListStoreKeepsList, BumpSetKeepsList
<1>3. CASE \E t \in Tests : ExpireHierarchy(t)
  BY <1>0, <1>3 DEF ExpireHierarchy, ListInv, OneBumping, NoneAhead, StoresFresh,
     Agrees, SomeBumping, ListFresh, dbvars, listvars
<1>4. ASSUME NEW n \in Versions, ExpireList(n) PROVE ListInv'
  <2>1. lists' = [lists EXCEPT ![n] = NULL] /\ UNCHANGED <<row, version, announced, req>>
    BY <1>4 DEF ExpireList, dbvars
  <2>2. \A m \in Versions : lists'[m] \in {lists[m], NULL}
    BY <2>1 DEF ListInv, Typed, TypeOK
  <2>3. NoneAhead'
    BY <2>1, <2>2 DEF ListInv, NoneAhead
  <2>4. OneBumping' /\ StoresFresh'
    BY <2>1 DEF ListInv, OneBumping, StoresFresh, Agrees, SomeBumping
  <2>5. ListFresh'
    BY <2>1, <2>2 DEF ListInv, Typed, TypeOK, ListFresh
  <2> QED BY <1>0, <2>3, <2>4, <2>5 DEF ListInv
<1>5. ~ExpireVersion
  BY DEF ExpireVersion, NoListFaults
<1>6. ASSUME GenerateTest PROVE ListInv'
  <2>1. UNCHANGED <<row, req, lists, version, announced>>
    BY <1>6 DEF GenerateTest, listvars
  <2> QED BY <1>0, <2>1 DEF ListInv, OneBumping, NoneAhead, StoresFresh, Agrees,
             SomeBumping, ListFresh
<1> QED BY <1>0, <1>1, <1>2, <1>3, <1>4, <1>5, <1>6 DEF Next, ListInv

\* With one edit of a test at a time, while Redis answers, no edit is cut off and the
\* version's key lives, the list of tests that findAll serves shows authors' tests as
\* the database holds them unless an edit is still under way, and every generated
\* test that was there when an edit last moved the version on (tests.service.ts
\* 348-468, 1206-1217).  Generated tests of later starts it need not show.
THEOREM ListIsFresh ==
  ASSUME OneTestEditAtATime, NoListFaults
  PROVE  Spec => []ListFresh
<1>1. ListInv /\ [Next]_vars => ListInv'
  BY ListNext
<1>2. ListInv => ListFresh
  BY DEF ListInv
<1> QED BY <1>1, <1>2, ListInit, PTL DEF Spec
=============================================================================
