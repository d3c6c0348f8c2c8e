--------------------------- MODULE AttemptsProofs ---------------------------
(***************************************************************************)
(* What Attempts guarantees for any number of requests in flight, and any  *)
(* tests, questions, batches and reviews.                                  *)
(***************************************************************************)
EXTENDS Attempts, FiniteSetTheorems, TLAPS

(***************************************************************************)
(* Type correctness.  A request past its first step holds an attempt that  *)
(* exists, and one that calls the LMS a result to send.                    *)
(***************************************************************************)
HoldsAttempt(s) ==
    /\ s.pc = "start" => s.kind = "start"
    /\ s.pc \notin {"idle", "start"} => s.att \in Started
    /\ s.pc = "lms" => s.ent.result \in {"P", "F"}

SlotsHold == \A r \in Requests : HoldsAttempt(req[r])

Typed == TypeOK /\ IsFiniteSet(Started) /\ SlotsHold

LEMMA IdleTyped == IdleSlot \in Slot
  BY ParamsAssumption DEF IdleSlot, Slot, Stages, NoRow, AttemptRow

LEMMA TypedInit == Init => Typed
<1> SUFFICES ASSUME Init PROVE Typed
  OBVIOUS
<1>1. TypeOK
  BY IdleTyped, ParamsAssumption DEF Init, TypeOK
<1>2. SlotsHold
  BY DEF Init, SlotsHold, HoldsAttempt, IdleSlot
<1>3. Started = {}
  BY DEF Init, Started
<1> QED BY <1>1, <1>2, <1>3, FS_EmptySet DEF Typed

\* Slots stay typed when one of them becomes s and no attempt disappears.
LEMMA SlotsStayTyped ==
  ASSUME Typed, NEW r \in Requests, NEW s \in Slot, Becomes(r, s),
         Started \subseteq Started', HoldsAttempt(s)
  PROVE  req' \in [Requests -> Slot] /\ SlotsHold'
  BY DEF Typed, TypeOK, SlotsHold, HoldsAttempt, Becomes

LEMMA FinishTyped ==
  ASSUME Typed, NEW r \in Requests, Finish(r), Started \subseteq Started'
  PROVE  req' \in [Requests -> Slot] /\ SlotsHold'
  BY IdleTyped, SlotsStayTyped DEF Finish, HoldsAttempt, IdleSlot

\* A step that changes request slots only.
LEMMA OnlySlotsTyped ==
  ASSUME Typed, UNCHANGED <<dbvars, lmsvars, outdated>>,
         req' \in [Requests -> Slot] /\ SlotsHold'
  PROVE  Typed'
  BY DEF Typed, TypeOK, Started, dbvars, lmsvars

LEMMA SameAttempts == ASSUME UNCHANGED attempts PROVE Started' = Started
  BY DEF Started

-----------------------------------------------------------------------------
LEMMA StartTyped ==
  ASSUME Typed, NEW r \in Requests, StartBegin(r) \/ StartStep(r)
  PROVE  Typed'
<1>0. req[r] \in Slot /\ HoldsAttempt(req[r])
  BY DEF Typed, TypeOK, SlotsHold
<1>1. CASE StartBegin(r)
  <2> DEFINE s == [req[r] EXCEPT !.kind = "start", !.pc = "start"]
  <2>1. s \in Slot /\ HoldsAttempt(s)
    BY <1>0 DEF Slot, Kinds, Stages, HoldsAttempt
  <2>2. Becomes(r, s) /\ UNCHANGED <<dbvars, lmsvars, outdated>>
    BY <1>1 DEF StartBegin
  <2> HIDE DEF s
  <2> QED BY <2>1, <2>2, SameAttempts, SlotsStayTyped, OnlySlotsTyped DEF dbvars
<1>2. CASE StartFind(r)
  <2> DEFINE s == [req[r] EXCEPT !.clear = TRUE]
  <2>1. s \in Slot /\ HoldsAttempt(s)
    BY <1>0 DEF Slot, HoldsAttempt
  <2>2. (Becomes(r, s) \/ Finish(r)) /\ UNCHANGED <<dbvars, lmsvars, outdated>>
    BY <1>2 DEF StartFind
  <2> HIDE DEF s
  <2> QED BY <2>1, <2>2, SameAttempts, SlotsStayTyped, FinishTyped, OnlySlotsTyped
          DEF dbvars
<1>3. CASE StartCount(r)
  <2> DEFINE s == [req[r] EXCEPT !.count = Cardinality(Started)]
  <2>0. Cardinality(Started) \in Nat
    BY FS_CardinalityType DEF Typed
  <2>1. s \in Slot /\ HoldsAttempt(s)
    BY <1>0, <2>0 DEF Slot, HoldsAttempt
  <2>2. Becomes(r, s) /\ UNCHANGED <<dbvars, lmsvars, outdated>>
    BY <1>3 DEF StartCount
  <2> HIDE DEF s
  <2> QED BY <2>1, <2>2, SameAttempts, SlotsStayTyped, OnlySlotsTyped DEF dbvars
<1>4. CASE StartRefuse(r)
  BY <1>4, SameAttempts, FinishTyped, OnlySlotsTyped DEF StartRefuse, dbvars
<1>5. CASE StartCreate(r)
  <2> DEFINE number == req[r].count + 1
             row == [NoRow EXCEPT !.attempt = number]
  <2>1. number \in Nat
    BY <1>0, <1>5 DEF StartCreate, Slot
  <2> HIDE DEF number
  <2>2. row \in AttemptRow /\ row # NULL
    BY <2>1, ParamsAssumption DEF NoRow, AttemptRow
  <2> HIDE DEF row
  <2>3. PICK a \in AttemptIds \ Started : attempts' = [attempts EXCEPT ![a] = row]
    BY <1>5 DEF StartCreate, Opened, number, row
  <2>4. /\ attempts' \in [AttemptIds -> AttemptRow \cup {NULL}]
        /\ Started' = Started \cup {a}
    BY <2>2, <2>3 DEF Typed, TypeOK, Started
  <2>5. IsFiniteSet(Started')
    BY <2>4, FS_AddElement DEF Typed
  <2>6. Finish(r) /\ UNCHANGED <<test, testStatus, window, answers, lmsvars, outdated>>
    BY <1>5 DEF StartCreate, Opened
  <2>7. req' \in [Requests -> Slot] /\ SlotsHold'
    BY <2>4, <2>6, FinishTyped
  <2> QED BY <2>4, <2>5, <2>6, <2>7 DEF Typed, TypeOK, lmsvars
<1> QED BY <1>1, <1>2, <1>3, <1>4, <1>5 DEF StartStep
-----------------------------------------------------------------------------
LEMMA RowTyped == ASSUME Typed, NEW a \in Started PROVE attempts[a] \in AttemptRow
  BY DEF Typed, TypeOK, Started

LEMMA RowsTyped == ASSUME Typed, NEW a PROVE RowsOf(a) \subseteq answers
  BY DEF RowsOf

LEMMA AnswerRowsTyped == ASSUME Typed PROVE answers \subseteq AnswerRow
  BY DEF Typed, TypeOK

LEMMA ScoredTyped ==
  ASSUME NEW x \in AnswerInput
  PROVE  Scored(x).score \in Int /\ Scored(x).reviewStatus \in {"P", "R"}
  BY ParamsAssumption DEF Scored, AnswerInput

LEMMA RewrittenTyped ==
  ASSUME NEW rows \in SUBSET AnswerRow, NEW b \in Seq(AnswerInput)
  PROVE  Rewritten(rows, b) \subseteq AnswerRow
<1> SUFFICES ASSUME NEW z \in Rewritten(rows, b) PROVE z \in AnswerRow
  OBVIOUS
<1>1. PICK row \in rows :
         z \in {[row EXCEPT !.opens = x.opens, !.score = Scored(x).score,
                            !.reviewStatus = Scored(x).reviewStatus] :
                   x \in LastGiven(b, row.question)}
  BY Zenon DEF Rewritten
<1>2. PICK x \in LastGiven(b, row.question) :
         z = [row EXCEPT !.opens = x.opens, !.score = Scored(x).score,
                         !.reviewStatus = Scored(x).reviewStatus]
  BY <1>1
<1>3. x \in AnswerInput
  BY DEF LastGiven
<1>4. Scored(x).score \in Int /\ Scored(x).reviewStatus \in {"P", "R"}
  BY <1>3, ScoredTyped
<1> QED BY <1>2, <1>3, <1>4 DEF AnswerRow, AnswerInput

LEMMA NewRowTyped ==
  ASSUME NEW id \in AnswerIds, NEW a \in AttemptIds, NEW x \in AnswerInput
  PROVE  NewRow(id, a, x) \in AnswerRow
  BY ScoredTyped DEF NewRow, AnswerRow, AnswerInput

LEMMA CleanedUpTyped ==
  ASSUME Typed, NEW a, NEW b, NEW seen
  PROVE  CleanedUp(a, b, seen) \subseteq AnswerIds
  BY AnswerRowsTyped DEF CleanedUp, RowsOf, AnswerRow

LEMMA DirtyTyped == ASSUME NEW ent, NEW row PROVE Dirty(ent, row) \subseteq Columns
  BY DEF Dirty

LEMMA OverlayTyped ==
  ASSUME NEW row \in AttemptRow, NEW ent \in AttemptRow, NEW cols
  PROVE  Overlay(row, ent, cols) \in AttemptRow
  BY DEF Overlay, AttemptRow

\* A save keeps the set of attempts and their types.
LEMMA SaveTyped ==
  ASSUME Typed, NEW a \in Started, NEW ent \in AttemptRow, NEW cols,
         attempts' = [attempts EXCEPT ![a] = Overlay(@, ent, cols)]
  PROVE  attempts' \in [AttemptIds -> AttemptRow \cup {NULL}] /\ Started' = Started
<1>1. Overlay(attempts[a], ent, cols) \in AttemptRow
  BY RowTyped, OverlayTyped
<1>2. Overlay(attempts[a], ent, cols) # NULL
  BY <1>1, ParamsAssumption
<1> QED BY <1>1, <1>2 DEF Typed, TypeOK, Started

LEMMA AnswerTyped ==
  ASSUME Typed, NEW r \in Requests,
         \/ \E a \in AttemptIds, b \in Batches : AnswerBegin(r, a, b)
         \/ AnswerStep(r)
  PROVE  Typed'
<1>0. req[r] \in Slot /\ HoldsAttempt(req[r])
  BY DEF Typed, TypeOK, SlotsHold
<1>1. ASSUME NEW a \in AttemptIds, NEW b \in Batches, AnswerBegin(r, a, b)
      PROVE  Typed'
  <2> DEFINE s == [req[r] EXCEPT !.kind = "answer", !.pc = "answer.read",
                                 !.att = a, !.ent = attempts[a], !.batch = b]
  <2>1. b \in Seq(AnswerInput) /\ a \in Started /\ attempts[a] \in AttemptRow
    BY <1>1, RowTyped, ParamsAssumption DEF AnswerBegin
  <2>2. s \in Slot /\ HoldsAttempt(s)
    BY <1>0, <2>1 DEF Slot, Kinds, Stages, HoldsAttempt
  <2>3. Becomes(r, s) /\ UNCHANGED <<dbvars, lmsvars, outdated>>
    BY <1>1 DEF AnswerBegin
  <2> HIDE DEF s
  <2> QED BY <2>2, <2>3, SameAttempts, SlotsStayTyped, OnlySlotsTyped DEF dbvars
<1>2. CASE AnswerRead(r)
  <2> DEFINE rows == RowsOf(req[r].att)
             s == [req[r] EXCEPT !.pc = "answer.stage", !.seen = rows]
  <2>1. rows \subseteq AnswerRow
    BY RowsTyped, AnswerRowsTyped
  <2> HIDE DEF rows
  <2>2. s \in Slot /\ HoldsAttempt(s)
    BY <1>0, <1>2, <2>1 DEF AnswerRead, Slot, Stages, HoldsAttempt
  <2>3. Becomes(r, s) /\ UNCHANGED <<dbvars, lmsvars, outdated>>
    BY <1>2 DEF AnswerRead, rows
  <2> HIDE DEF s
  <2> QED BY <2>2, <2>3, SameAttempts, SlotsStayTyped, OnlySlotsTyped DEF dbvars
<1>3. CASE AnswerStage(r)
  <2> DEFINE a == req[r].att
             b == req[r].batch
             drop == CleanedUp(a, b, req[r].seen)
             existing == {x \in req[r].seen : x.question \in Asked(b)}
             known == {x.question : x \in existing}
             new == {i \in DOMAIN b : b[i].question \notin known}
             here == Ids(answers) \ drop
             dirty == Dirty(req[r].ent, attempts[req[r].att])
  <2>1. PICK kept \in OneRowEach(existing), id \in [new -> FreshIds] :
           LET saved == Rewritten(kept, b)
           IN  Becomes(r, [req[r] EXCEPT
                      !.pc = "answer.commit", !.drop = drop,
                      !.update = {x \in saved : x.id \in here},
                      !.insert = {x \in saved : x.id \notin here}
                                 \cup {NewRow(id[i], a, b[i]) : i \in new},
                      !.dirty = dirty])
    BY <1>3 DEF AnswerStage
  <2> DEFINE saved == Rewritten(kept, b)
             update == {x \in saved : x.id \in here}
             insert == {x \in saved : x.id \notin here}
                       \cup {NewRow(id[i], a, b[i]) : i \in new}
             s == [req[r] EXCEPT !.pc = "answer.commit", !.drop = drop,
                                 !.update = update, !.insert = insert,
                                 !.dirty = dirty]
  <2>2. b \in Seq(AnswerInput) /\ a \in AttemptIds
    BY <1>0, <1>3 DEF Slot, HoldsAttempt, AnswerStage, Started
  <2>3. saved \subseteq AnswerRow
    <3>1. kept \subseteq AnswerRow
      BY <1>0 DEF Slot, OneRowEach
    <3> QED BY <2>2, <3>1, RewrittenTyped
  <2>4. update \subseteq AnswerRow
    BY <2>3
  <2>5. insert \subseteq AnswerRow
    <3>1. ASSUME NEW i \in new PROVE NewRow(id[i], a, b[i]) \in AnswerRow
      <4>1. b[i] \in AnswerInput
        BY <2>2
      <4>2. id[i] \in AnswerIds
        BY DEF FreshIds
      <4> QED BY <4>1, <4>2, <2>2, NewRowTyped
    <3> QED BY <2>3, <3>1
  <2>6. drop \subseteq AnswerIds /\ dirty \subseteq Columns
    BY CleanedUpTyped, DirtyTyped
  <2>7. Becomes(r, s) /\ UNCHANGED <<dbvars, lmsvars, outdated>>
    BY <1>3, <2>1 DEF AnswerStage
  <2>8. req[r].pc = "answer.stage"
    BY <1>3 DEF AnswerStage
  <2> HIDE DEF update, insert, drop, dirty
  <2>9. s \in Slot /\ HoldsAttempt(s)
    BY <1>0, <2>4, <2>5, <2>6, <2>8 DEF Slot, Stages, HoldsAttempt
  <2> HIDE DEF s
  <2> QED BY <2>7, <2>9, SameAttempts, SlotsStayTyped, OnlySlotsTyped DEF dbvars
<1>4. CASE AnswerCommit(r)
  <2> DEFINE q == req[r]
  <2>1. q.att \in Started /\ q.ent \in AttemptRow
    BY <1>0, <1>4 DEF AnswerCommit, Slot, HoldsAttempt
  <2>2. attempts' \in [AttemptIds -> AttemptRow \cup {NULL}] /\ Started' = Started
    BY <2>1, <1>4, SaveTyped DEF AnswerCommit
  <2>3. answers' \in SUBSET AnswerRow
    BY <1>0, <1>4, AnswerRowsTyped DEF AnswerCommit, Slot
  <2>4. outdated' \in SUBSET AttemptIds
    BY <1>4, <2>1 DEF AnswerCommit, Typed, TypeOK, Started
  <2>5. Finish(r) /\ UNCHANGED <<test, testStatus, window, lmsvars>>
    BY <1>4 DEF AnswerCommit
  <2>6. req' \in [Requests -> Slot] /\ SlotsHold'
    BY <2>2, <2>5, FinishTyped
  <2> QED BY <2>2, <2>3, <2>4, <2>5, <2>6 DEF Typed, TypeOK, lmsvars
<1> QED BY <1>1, <1>2, <1>3, <1>4 DEF AnswerStep
-----------------------------------------------------------------------------
LEMMA ResultTyped == ASSUME NEW score PROVE ResultFor(score) \in {"P", "F"}
  BY DEF ResultFor

LEMMA TotalTyped == ASSUME NEW a PROVE TotalScore(a) \in Int
  BY DEF TotalScore

LEMMA SubmittedTyped ==
  ASSUME NEW ent \in AttemptRow, NEW total \in Int
  PROVE  Submitted(ent, total) \in AttemptRow
<1>1. ResultFor(total) \in {"P", "F"}
  BY ResultTyped
<1> HIDE DEF ResultFor
<1> QED BY <1>1 DEF Submitted, AttemptRow

LEMMA SubmitTyped ==
  ASSUME Typed, NEW r \in Requests,
         (\E a \in AttemptIds : SubmitBegin(r, a)) \/ SubmitStep(r) \/ SaveStep(r)
  PROVE  Typed'
<1>0. req[r] \in Slot /\ HoldsAttempt(req[r])
  BY DEF Typed, TypeOK, SlotsHold
<1>1. ASSUME NEW a \in AttemptIds, SubmitBegin(r, a)
      PROVE  Typed'
  <2> DEFINE s == [req[r] EXCEPT !.kind = "submit", !.pc = "submit.validate",
                                 !.att = a, !.ent = attempts[a]]
  <2>1. a \in Started /\ attempts[a] \in AttemptRow
    BY <1>1, RowTyped DEF SubmitBegin
  <2>2. s \in Slot /\ HoldsAttempt(s)
    BY <1>0, <2>1 DEF Slot, Kinds, Stages, HoldsAttempt
  <2>3. Becomes(r, s) /\ UNCHANGED <<dbvars, lmsvars, outdated>>
    BY <1>1 DEF SubmitBegin
  <2> HIDE DEF s
  <2> QED BY <2>2, <2>3, SameAttempts, SlotsStayTyped, OnlySlotsTyped DEF dbvars
<1>2. CASE SubmitValidate(r)
  <2> DEFINE s == [req[r] EXCEPT !.pc = "submit.score"]
  <2>1. s \in Slot /\ HoldsAttempt(s)
    BY <1>0, <1>2 DEF SubmitValidate, Slot, Stages, HoldsAttempt
  <2>2. (Becomes(r, s) \/ Finish(r)) /\ UNCHANGED <<dbvars, lmsvars, outdated>>
    BY <1>2 DEF SubmitValidate
  <2> HIDE DEF s
  <2> QED BY <2>1, <2>2, SameAttempts, SlotsStayTyped, FinishTyped, OnlySlotsTyped
          DEF dbvars
<1>3. CASE SubmitScore(r)
  <2> DEFINE a == req[r].att
             ent == Submitted(req[r].ent, TotalScore(a))
             s == [req[r] EXCEPT !.pc = "save.reload", !.ent = ent]
  <2>1. ent \in AttemptRow
    BY <1>0, TotalTyped, SubmittedTyped DEF Slot
  <2>2. req[r].pc = "submit.score" /\ Becomes(r, s)
    BY <1>3 DEF SubmitScore
  <2>3. lmsPosted' \in SUBSET LmsMessage
    <3>1. a \in AttemptIds
      BY <1>0, <2>2 DEF HoldsAttempt, Started
    <3>2. [attempt |-> a, result |-> "P"] \in LmsMessage
      BY <3>1 DEF LmsMessage
    <3> QED BY <3>2, <1>3 DEF SubmitScore, Typed, TypeOK
  <2> HIDE DEF ent
  <2>4. s \in Slot /\ HoldsAttempt(s)
    BY <1>0, <2>1, <2>2 DEF Slot, Stages, HoldsAttempt
  <2>5. UNCHANGED <<dbvars, lms, outdated>>
    BY <1>3 DEF SubmitScore
  <2> HIDE DEF s
  <2>6. req' \in [Requests -> Slot] /\ SlotsHold'
    BY <2>2, <2>4, <2>5, SameAttempts, SlotsStayTyped DEF dbvars
  <2> QED BY <2>3, <2>5, <2>6, SameAttempts DEF Typed, TypeOK, dbvars
<1>4. CASE SaveReload(r)
  <2> DEFINE dirty == Dirty(req[r].ent, attempts[req[r].att])
             s == [req[r] EXCEPT !.pc = "save.write", !.dirty = dirty]
  <2>1. dirty \subseteq Columns
    BY DirtyTyped
  <2>2. Becomes(r, s) /\ UNCHANGED <<dbvars, lmsvars, outdated>>
    BY <1>4 DEF SaveReload
  <2> HIDE DEF dirty
  <2>3. s \in Slot /\ HoldsAttempt(s)
    BY <1>0, <1>4, <2>1 DEF SaveReload, Slot, Stages, HoldsAttempt
  <2> HIDE DEF s
  <2> QED BY <2>2, <2>3, SameAttempts, SlotsStayTyped, OnlySlotsTyped DEF dbvars
<1>5. CASE SaveWrite(r)
  <2> DEFINE q == req[r]
  <2>1. q.att \in Started /\ q.ent \in AttemptRow
    BY <1>0, <1>5 DEF SaveWrite, Slot, HoldsAttempt
  <2>2. attempts' \in [AttemptIds -> AttemptRow \cup {NULL}] /\ Started' = Started
    BY <2>1, <1>5, SaveTyped DEF SaveWrite
  <2>3. outdated' \in SUBSET AttemptIds
    BY <1>5 DEF SaveWrite, Typed, TypeOK
  <2>4. Finish(r) /\ UNCHANGED <<test, testStatus, window, answers, lmsvars>>
    BY <1>5 DEF SaveWrite
  <2>5. req' \in [Requests -> Slot] /\ SlotsHold'
    BY <2>2, <2>4, FinishTyped
  <2> QED BY <2>2, <2>3, <2>4, <2>5 DEF Typed, TypeOK, lmsvars
<1> QED BY <1>1, <1>2, <1>3, <1>4, <1>5 DEF SubmitStep, SaveStep
-----------------------------------------------------------------------------
\* The entity both reviews end with.
LEMMA GradedTyped ==
  ASSUME NEW s \in Slot, NEW total \in Int, NEW result \in {"P", "F"}
  PROVE  /\ [s EXCEPT !.pc = "save.reload", !.ent.score = total,
                      !.ent.reviewStatus = "U"] \in Slot
         /\ [s EXCEPT !.pc = "lms", !.ent.score = total, !.ent.reviewStatus = "R",
                      !.ent.result = result] \in Slot
<1>1. s.ent \in AttemptRow
  BY DEF Slot
<1>2. /\ [s.ent EXCEPT !.score = total, !.reviewStatus = "U"] \in AttemptRow
      /\ [s.ent EXCEPT !.score = total, !.reviewStatus = "R",
                       !.result = result] \in AttemptRow
  BY <1>1 DEF AttemptRow
<1>3. \A ent \in AttemptRow, pc \in Stages : [s EXCEPT !.pc = pc, !.ent = ent] \in Slot
  BY DEF Slot
<1>4. /\ [s EXCEPT !.pc = "save.reload",
                   !.ent = [s.ent EXCEPT !.score = total, !.reviewStatus = "U"]] \in Slot
      /\ [s EXCEPT !.pc = "lms",
                   !.ent = [s.ent EXCEPT !.score = total, !.reviewStatus = "R",
                                         !.result = result]] \in Slot
  BY <1>2, <1>3 DEF Stages
<1>5. /\ [s EXCEPT !.pc = "save.reload", !.ent.score = total, !.ent.reviewStatus = "U"]
         = [s EXCEPT !.pc = "save.reload",
                     !.ent = [s.ent EXCEPT !.score = total, !.reviewStatus = "U"]]
      /\ [s EXCEPT !.pc = "lms", !.ent.score = total, !.ent.reviewStatus = "R",
                   !.ent.result = result]
         = [s EXCEPT !.pc = "lms",
                     !.ent = [s.ent EXCEPT !.score = total, !.reviewStatus = "R",
                                           !.result = result]]
  BY <1>1 DEF Slot, AttemptRow
<1> QED BY <1>4, <1>5

LEMMA ReviewTyped ==
  ASSUME Typed, NEW r \in Requests,
         \/ \E a \in AttemptIds, v \in Reviews : ReviewBegin(r, a, v)
         \/ \E v \in Reviews : ImportBegin(r, v)
         \/ ReviewRead(r) \/ ReviewScore(r) \/ ImportScore(r)
  PROVE  Typed'
<1>0. req[r] \in Slot /\ HoldsAttempt(req[r])
  BY DEF Typed, TypeOK, SlotsHold
<1>1. ASSUME NEW a \in Started, NEW v \in Reviews, NEW kind \in Kinds,
             Becomes(r, [req[r] EXCEPT !.kind = kind, !.pc = "review.read",
                                       !.att = a, !.ent = attempts[a], !.review = v]),
             UNCHANGED <<dbvars, lmsvars, outdated>>
      PROVE  Typed'
  <2> DEFINE s == [req[r] EXCEPT !.kind = kind, !.pc = "review.read",
                                 !.att = a, !.ent = attempts[a], !.review = v]
  <2>1. a \in AttemptIds /\ attempts[a] \in AttemptRow /\ v \in Seq(ReviewInput)
    BY RowTyped, ParamsAssumption DEF Started
  <2>2. s \in Slot /\ HoldsAttempt(s)
    BY <1>0, <2>1 DEF Slot, Stages, HoldsAttempt
  <2> HIDE DEF s
  <2> QED BY <1>1, <2>2, SameAttempts, SlotsStayTyped, OnlySlotsTyped DEF dbvars, s
<1>2. ASSUME NEW a \in AttemptIds, NEW v \in Reviews, ReviewBegin(r, a, v)
      PROVE  Typed'
  BY <1>1, <1>2 DEF ReviewBegin, Kinds
<1>3. ASSUME NEW v \in Reviews, ImportBegin(r, v)
      PROVE  Typed'
  <2>1. PICK a \in Newest(ImportCandidates) :
           Becomes(r, [req[r] EXCEPT !.kind = "import", !.pc = "review.read",
                                     !.att = a, !.ent = attempts[a], !.review = v])
    BY <1>3 DEF ImportBegin
  <2>2. a \in Started
    BY DEF Newest, ImportCandidates
  <2> QED BY <1>1, <1>3, <2>1, <2>2 DEF ImportBegin, Kinds
<1>4. CASE ReviewRead(r)
  <2> DEFINE rows == RowsOf(req[r].att)
             seen == IF req[r].kind = "review"
                     THEN {x \in rows : x.question \in Subjective} ELSE rows
             s == [req[r] EXCEPT !.pc = "review.answers", !.seen = seen]
  <2>1. seen \subseteq AnswerRow
    BY RowsTyped, AnswerRowsTyped
  <2>2. Becomes(r, s) /\ UNCHANGED <<dbvars, lmsvars, outdated>>
    BY <1>4 DEF ReviewRead
  <2> HIDE DEF seen
  <2>3. s \in Slot /\ HoldsAttempt(s)
    BY <1>0, <1>4, <2>1 DEF ReviewRead, Slot, Stages, HoldsAttempt
  <2> HIDE DEF s
  <2> QED BY <2>2, <2>3, SameAttempts, SlotsStayTyped, OnlySlotsTyped DEF dbvars
<1>5. CASE ReviewScore(r) \/ ImportScore(r)
  <2> DEFINE total == TotalScore(req[r].att)
             result == ResultFor(total)
             under == [req[r] EXCEPT !.pc = "save.reload", !.ent.score = total,
                                     !.ent.reviewStatus = "U"]
             done == [req[r] EXCEPT !.pc = "lms", !.ent.score = total,
                                    !.ent.reviewStatus = "R", !.ent.result = result]
  <2>1. total \in Int /\ result \in {"P", "F"}
    BY TotalTyped, ResultTyped
  <2>2. req[r].pc = "review.answers"
    BY <1>5 DEF ReviewScore, ReviewScored, ImportScore
  <2>3. Becomes(r, under) \/ Becomes(r, done)
    <3>1. CASE ReviewScore(r)
      <4>1. IF \E x \in req[r].seen : x.reviewStatus # "R"
            THEN Becomes(r, under) ELSE Becomes(r, done)
        BY <3>1 DEF ReviewScore, ReviewScored
      <4> QED BY <4>1
    <3>2. CASE ImportScore(r)
      BY <3>2, Zenon DEF ImportScore
    <3> QED BY <1>5, <3>1, <3>2
  <2>4. UNCHANGED <<dbvars, lmsvars, outdated>>
    BY <1>5 DEF ReviewScore, ReviewScored, ImportScore
  <2> HIDE DEF total, result
  <2>5. under \in Slot /\ done \in Slot
    BY <1>0, <2>1, GradedTyped
  <2>6. HoldsAttempt(under) /\ HoldsAttempt(done)
    <3>1. req[r].ent \in AttemptRow
      BY <1>0 DEF Slot
    <3> QED BY <1>0, <2>1, <2>2, <3>1 DEF HoldsAttempt, Slot, AttemptRow
  <2> HIDE DEF under, done
  <2> QED BY <2>3, <2>4, <2>5, <2>6, SameAttempts, SlotsStayTyped, OnlySlotsTyped
          DEF dbvars
<1> QED BY <1>1, <1>2, <1>3, <1>4, <1>5

LEMMA RescoredTyped ==
  ASSUME NEW x \in AnswerRow, NEW v \in ReviewInput
  PROVE  [x EXCEPT !.score = v.score, !.reviewStatus = "R"] \in AnswerRow
  BY ParamsAssumption DEF AnswerRow, ReviewInput

LEMMA ReviewedTyped ==
  ASSUME Typed, NEW r \in Requests,
         ReviewAnswer(r) \/ ImportAnswer(r) \/ ImportMissing(r)
  PROVE  Typed'
<1>0. req[r] \in Slot /\ HoldsAttempt(req[r])
  BY DEF Typed, TypeOK, SlotsHold
<1>1. CASE ReviewAnswer(r) \/ ImportAnswer(r)
  <2> DEFINE q == req[r]
             v == Head(q.review)
             s == [q EXCEPT !.review = Tail(q.review)]
  <2>0. /\ q.pc = "review.answers" /\ q.review # <<>>
        /\ q.review \in Seq(ReviewInput) /\ q.seen \subseteq AnswerRow
    BY <1>0, <1>1 DEF ReviewAnswer, ImportAnswer, Slot
  <2>1. v \in ReviewInput /\ Tail(q.review) \in Seq(ReviewInput)
    BY <2>0
  <2>2. s \in Slot /\ HoldsAttempt(s)
    BY <1>0, <2>0, <2>1 DEF Slot, HoldsAttempt
  <2>3. answers' \subseteq AnswerRow
    <3>1. CASE ReviewAnswer(r)
      <4> DEFINE hit == {x \in RowsOf(q.att) : x.question = v.question}
      <4>1. answers' = (answers \ hit) \cup
                       {[x EXCEPT !.score = v.score, !.reviewStatus = "R"] : x \in hit}
        BY <3>1, Zenon DEF ReviewAnswer
      <4>2. hit \subseteq AnswerRow
        BY AnswerRowsTyped, RowsTyped
      <4>3. ASSUME NEW x \in hit
            PROVE  [x EXCEPT !.score = v.score, !.reviewStatus = "R"] \in AnswerRow
        BY <2>1, <4>2, RescoredTyped
      <4> HIDE DEF hit, v
      <4> QED BY <4>1, <4>3, AnswerRowsTyped
    <3>2. CASE ImportAnswer(r)
      <4>1. PICK x \in q.seen :
              answers' = {y \in answers : y.id # x.id} \cup
                         {[x EXCEPT !.score = v.score, !.reviewStatus = "R"]}
        BY <3>2, Zenon DEF ImportAnswer
      <4>2. [x EXCEPT !.score = v.score, !.reviewStatus = "R"] \in AnswerRow
        BY <2>0, <2>1, RescoredTyped
      <4> HIDE DEF v
      <4> QED BY <4>1, <4>2, AnswerRowsTyped
    <3> QED BY <1>1, <3>1, <3>2
  <2>4. /\ Becomes(r, s)
        /\ UNCHANGED <<test, testStatus, window, attempts, lmsvars, outdated>>
    BY <1>1 DEF ReviewAnswer, ImportAnswer
  <2> HIDE DEF s
  <2>5. Started' = Started
    BY <2>4, SameAttempts
  <2>6. req' \in [Requests -> Slot] /\ SlotsHold'
    BY <2>2, <2>4, <2>5, SlotsStayTyped
  <2> QED BY <2>3, <2>4, <2>5, <2>6 DEF Typed, TypeOK, lmsvars
<1>2. CASE ImportMissing(r)
  <2>1. Finish(r) /\ UNCHANGED <<dbvars, lmsvars>> /\ Started' = Started
    BY <1>2, SameAttempts DEF ImportMissing, dbvars
  <2>2. req[r].att \in AttemptIds
    BY <1>0, <1>2 DEF ImportMissing, HoldsAttempt, Started
  <2>3. outdated' \in SUBSET AttemptIds
    BY <1>2, <2>2 DEF ImportMissing, Typed, TypeOK
  <2>4. req' \in [Requests -> Slot] /\ SlotsHold'
    BY <2>1, FinishTyped
  <2> QED BY <2>1, <2>3, <2>4 DEF Typed, TypeOK, dbvars, lmsvars
<1> QED BY <1>1, <1>2
-----------------------------------------------------------------------------
LEMMA LmsTyped ==
  ASSUME Typed, NEW r \in Requests, LmsDone(r) \/ LmsFailed(r) \/ Abort(r)
  PROVE  Typed'
<1>0. req[r] \in Slot /\ HoldsAttempt(req[r])
  BY DEF Typed, TypeOK, SlotsHold
<1> DEFINE s == [req[r] EXCEPT !.pc = "save.reload"]
<1>1. UNCHANGED dbvars /\ Started' = Started
  BY SameAttempts DEF LmsDone, LmsFailed, Abort, dbvars
<1>2. s \in Slot /\ (req[r].pc = "lms" => HoldsAttempt(s))
  BY <1>0 DEF Slot, Stages, HoldsAttempt
<1>3. /\ Becomes(r, s) \/ Finish(r)
      /\ Becomes(r, s) => req[r].pc = "lms"
  <2>1. CASE LmsDone(r)
    BY <2>1 DEF LmsDone
  <2>2. CASE LmsFailed(r)
    BY <2>2 DEF LmsFailed
  <2>3. CASE Abort(r)
    <3>1. Becomes(r, s) => s = IdleSlot
      BY <2>3 DEF Abort, Finish, Becomes, Typed, TypeOK
    <3>2. s # IdleSlot
      BY <1>0 DEF IdleSlot, Slot
    <3> QED BY <2>3, <3>1, <3>2 DEF Abort
  <2> QED BY <2>1, <2>2, <2>3
<1> HIDE DEF s
<1>4. req' \in [Requests -> Slot] /\ SlotsHold'
  BY <1>1, <1>2, <1>3, SlotsStayTyped, FinishTyped
<1>5. lms' \in {"P", "F", NULL} /\ lmsPosted' \in SUBSET LmsMessage
  <2>1. req[r].pc = "lms" => [attempt |-> req[r].att, result |-> req[r].ent.result]
                               \in LmsMessage
    BY <1>0 DEF HoldsAttempt, LmsMessage, Started
  <2> QED BY <1>0, <2>1 DEF LmsDone, LmsFailed, Abort, HoldsAttempt, Typed, TypeOK, lmsvars
<1>6. outdated' \in SUBSET AttemptIds
  <2>1. CASE LmsDone(r)
    BY <2>1 DEF LmsDone, Typed, TypeOK
  <2>2. CASE LmsFailed(r)
    BY <1>0, <2>2 DEF LmsFailed, HoldsAttempt, Started, Typed, TypeOK
  <2>3. CASE Abort(r)
    BY <1>0, <2>3 DEF Abort, HoldsAttempt, Started, Typed, TypeOK
  <2> QED BY <2>1, <2>2, <2>3
<1> QED BY <1>1, <1>4, <1>5, <1>6 DEF Typed, TypeOK, dbvars

LEMMA AroundTyped ==
  ASSUME Typed,
         \/ \E m \in lmsPosted : LmsArrives(m) \/ LmsLost(m)
         \/ TimePasses
         \/ SetTestStatus
  PROVE  Typed'
<1>1. UNCHANGED <<attempts, req>> /\ Started' = Started
  BY SameAttempts DEF LmsArrives, LmsLost, TimePasses, SetTestStatus, dbvars
<1>2. SlotsHold'
  BY <1>1 DEF Typed, SlotsHold, HoldsAttempt
<1>3. TypeOK'
  BY DEF Typed, TypeOK, LmsArrives, LmsLost, TimePasses, SetTestStatus, dbvars, lmsvars,
         LmsMessage
<1> QED BY <1>1, <1>2, <1>3 DEF Typed

LEMMA StutterTyped == ASSUME Typed, UNCHANGED vars PROVE Typed'
  BY DEF Typed, TypeOK, SlotsHold, HoldsAttempt, Started, vars, dbvars, lmsvars

LEMMA TypedStep == Typed /\ [Next]_vars => Typed'
<1> SUFFICES ASSUME Typed, [Next]_vars PROVE Typed'
  OBVIOUS
<1>1. ASSUME NEW r \in Requests,
             \/ Begin(r) \/ StartStep(r) \/ AnswerStep(r) \/ SubmitStep(r)
             \/ ReviewStep(r) \/ SaveStep(r) \/ Abort(r)
      PROVE  Typed'
  BY <1>1, StartTyped, AnswerTyped, SubmitTyped, ReviewTyped, ReviewedTyped, LmsTyped
  DEF Begin, ReviewStep
<1> QED BY <1>1, AroundTyped, StutterTyped DEF Next

\* Every row and every request slot always has its type; a request that is past
\* its first step works on an attempt that exists.
THEOREM TypeCorrect == Spec => []TypeOK
<1>1. Typed => TypeOK
  BY DEF Typed
<1> QED BY <1>1, TypedInit, TypedStep, PTL DEF Spec

\* The same with what a slot says of the row it works on: a request past its
\* first step holds an attempt that exists.
THEOREM AlwaysTyped == Spec => []Typed
  BY TypedInit, TypedStep, PTL DEF Spec

-----------------------------------------------------------------------------
(***************************************************************************)
(* What a step does to the slot it belongs to; the other slots stay.       *)
(***************************************************************************)
Moves(r) == \A t \in Requests : t # r => req'[t] = req[t]

Busy(s) == s.pc \notin {"idle", "start"}

\* The slot takes up an attempt as it is in the database.
Takes(r) ==
    /\ Moves(r) /\ UNCHANGED dbvars
    /\ req[r].pc = "idle" /\ Busy(req'[r])
    /\ req'[r].pc \notin {"submit.score", "lms", "review.answers"}
    /\ req'[r].att \in Started
    /\ req'[r].ent = attempts[req'[r].att]
    /\ req'[r].pc = "review.read" => req'[r].ent.status = "S"
    /\ req'[r].count = req[r].count
    /\ req'[r].seen = req[r].seen /\ req'[r].drop = req[r].drop
    /\ req'[r].update = req[r].update /\ req'[r].insert = req[r].insert

\* The slot goes on with its attempt; who it belongs to and its number stay.
Works(r) ==
    /\ Moves(r) /\ UNCHANGED <<test, attempts>>
    /\ Busy(req[r]) /\ Busy(req'[r])
    /\ req'[r].att = req[r].att
    /\ req'[r].count = req[r].count
    /\ req'[r].ent.attempt = req[r].ent.attempt

\* ... and neither the rows it knows nor what it deletes change.
Recalls(r) ==
    /\ req'[r].drop = req[r].drop /\ req'[r].seen = req[r].seen
    /\ req'[r].update = req[r].update /\ req'[r].insert = req[r].insert

LEMMA TakesShape ==
  ASSUME Typed, NEW r \in Requests,
         \/ \E a \in AttemptIds, b \in Batches : AnswerBegin(r, a, b)
         \/ \E a \in AttemptIds : SubmitBegin(r, a)
         \/ \E a \in AttemptIds, v \in Reviews : ReviewBegin(r, a, v)
         \/ \E v \in Reviews : ImportBegin(r, v)
  PROVE  Takes(r)
<1>0. req[r] \in Slot /\ req \in [Requests -> Slot]
  BY DEF Typed, TypeOK
<1>1. ASSUME NEW a \in AttemptIds, NEW b \in Batches, AnswerBegin(r, a, b) PROVE Takes(r)
  BY <1>0, <1>1 DEF AnswerBegin, MayBegin, Becomes, Takes, Moves, Busy, Slot
<1>2. ASSUME NEW a \in AttemptIds, SubmitBegin(r, a) PROVE Takes(r)
  BY <1>0, <1>2 DEF SubmitBegin, MayBegin, Becomes, Takes, Moves, Busy, Slot
<1>3. ASSUME NEW a \in AttemptIds, NEW v \in Reviews, ReviewBegin(r, a, v) PROVE Takes(r)
  BY <1>0, <1>3 DEF ReviewBegin, MayBegin, Becomes, Takes, Moves, Busy, Slot
<1>4. ASSUME NEW v \in Reviews, ImportBegin(r, v) PROVE Takes(r)
  <2>1. PICK a \in Newest(ImportCandidates) :
           /\ attempts[a].status = "S"
           /\ Becomes(r, [req[r] EXCEPT !.kind = "import", !.pc = "review.read",
                                     !.att = a, !.ent = attempts[a], !.review = v])
    BY <1>4 DEF ImportBegin
  <2>2. a \in Started
    BY DEF Newest, ImportCandidates
  <2> QED BY <1>0, <1>4, <2>1, <2>2
          DEF ImportBegin, MayBegin, Becomes, Takes, Moves, Busy, Slot
<1> QED BY <1>1, <1>2, <1>3, <1>4

LEMMA AnswerReadShape ==
  ASSUME Typed, NEW r \in Requests, AnswerRead(r)
  PROVE  /\ Works(r) /\ UNCHANGED answers
         /\ req'[r].pc = "answer.stage" /\ req'[r].ent = req[r].ent
         /\ req'[r].seen = RowsOf(req[r].att) /\ req'[r].drop = req[r].drop
         /\ req'[r].update = req[r].update /\ req'[r].insert = req[r].insert
  BY DEF AnswerRead, Becomes, Works, Moves, Busy, Typed, TypeOK, Slot, dbvars

LEMMA AnswerStageShape ==
  ASSUME Typed, NEW r \in Requests, AnswerStage(r)
  PROVE  LET a == req[r].att
             b == req[r].batch
             drop == CleanedUp(a, b, req[r].seen)
             existing == {x \in req[r].seen : x.question \in Asked(b)}
             known == {x.question : x \in existing}
             new == {i \in DOMAIN b : b[i].question \notin known}
             here == Ids(answers) \ drop
         IN  /\ Works(r) /\ UNCHANGED answers
             /\ req'[r].pc = "answer.commit" /\ req'[r].ent = req[r].ent
             /\ req'[r].seen = req[r].seen /\ req'[r].drop = drop
             /\ \E kept \in OneRowEach(existing), id \in [new -> FreshIds] :
                   /\ \A i, j \in new : id[i] = id[j] => i = j
                   /\ LET saved == Rewritten(kept, b)
                      IN  /\ req'[r].update = {x \in saved : x.id \in here}
                          /\ req'[r].insert = {x \in saved : x.id \notin here} \cup
                                              {NewRow(id[i], a, b[i]) : i \in new}
<1> DEFINE a == req[r].att
           b == req[r].batch
           drop == CleanedUp(a, b, req[r].seen)
           existing == {x \in req[r].seen : x.question \in Asked(b)}
           known == {x.question : x \in existing}
           new == {i \in DOMAIN b : b[i].question \notin known}
           here == Ids(answers) \ drop
           dirty == Dirty(req[r].ent, attempts[req[r].att])
<1>1. PICK kept \in OneRowEach(existing), id \in [new -> FreshIds] :
         /\ \A i, j \in new : id[i] = id[j] => i = j
         /\ LET saved == Rewritten(kept, b)
            IN  Becomes(r, [req[r] EXCEPT
                   !.pc = "answer.commit", !.drop = drop,
                   !.update = {x \in saved : x.id \in here},
                   !.insert = {x \in saved : x.id \notin here}
                              \cup {NewRow(id[i], a, b[i]) : i \in new},
                   !.dirty = dirty])
  BY DEF AnswerStage
<1> DEFINE saved == Rewritten(kept, b)
           update == {x \in saved : x.id \in here}
           insert == {x \in saved : x.id \notin here}
                     \cup {NewRow(id[i], a, b[i]) : i \in new}
<1>2. Becomes(r, [req[r] EXCEPT !.pc = "answer.commit", !.drop = drop,
                     !.update = update, !.insert = insert, !.dirty = dirty])
  BY <1>1
<1>3. req[r].pc = "answer.stage" /\ UNCHANGED dbvars
  BY DEF AnswerStage
<1> HIDE DEF drop, update, insert, dirty
<1>4. /\ Works(r) /\ UNCHANGED answers
      /\ req'[r].pc = "answer.commit" /\ req'[r].ent = req[r].ent
      /\ req'[r].seen = req[r].seen /\ req'[r].drop = drop
      /\ req'[r].update = update /\ req'[r].insert = insert
  BY <1>2, <1>3 DEF Becomes, Works, Moves, Busy, Typed, TypeOK, Slot, dbvars
<1> QED BY <1>1, <1>4 DEF drop, update, insert

LEMMA SubmitScoreShape ==
  ASSUME Typed, NEW r \in Requests, SubmitScore(r)
  PROVE  /\ Works(r) /\ UNCHANGED answers /\ Recalls(r)
         /\ req[r].pc = "submit.score" /\ req'[r].pc = "save.reload"
  BY DEF SubmitScore, Submitted, Becomes, Works, Recalls, Moves, Busy, Typed, TypeOK, Slot,
         AttemptRow, dbvars

\* The steps that keep the entity as it is.
LEMMA KeepsShape ==
  ASSUME Typed, NEW r \in Requests,
         \/ SaveReload(r) \/ ReviewAnswer(r) \/ ImportAnswer(r)
         \/ (SubmitValidate(r) \/ LmsDone(r) \/ LmsFailed(r)) /\ ~Finish(r)
  PROVE  /\ Works(r) /\ Recalls(r)
         /\ req'[r].ent = req[r].ent
         /\ req'[r].pc \in {"save.write", "review.answers", "submit.score", "save.reload"}
         /\ req'[r].pc = "review.answers" => req[r].pc = "review.answers"
<1>1. CASE SaveReload(r)
  BY <1>1 DEF SaveReload, Becomes, Works, Recalls, Moves, Busy, Typed, TypeOK, Slot, dbvars
<1>2. CASE ReviewAnswer(r) \/ ImportAnswer(r)
  <2> DEFINE left == Tail(req[r].review)
  <2>1. /\ Becomes(r, [req[r] EXCEPT !.review = left])
        /\ req[r].pc = "review.answers" /\ UNCHANGED <<test, attempts>>
    BY <1>2 DEF ReviewAnswer, ImportAnswer
  <2> HIDE DEF left
  <2> QED BY <2>1 DEF Becomes, Works, Recalls, Moves, Busy, Typed, TypeOK, Slot
<1>3. CASE SubmitValidate(r) /\ ~Finish(r)
  BY <1>3 DEF SubmitValidate, Becomes, Works, Recalls, Moves, Busy, Typed, TypeOK, Slot,
              dbvars
<1>4. CASE (LmsDone(r) \/ LmsFailed(r)) /\ ~Finish(r)
  BY <1>4 DEF LmsDone, LmsFailed, Becomes, Works, Recalls, Moves, Busy, Typed, TypeOK, Slot,
              dbvars
<1> QED BY <1>1, <1>2, <1>3, <1>4

LEMMA ReviewReadShape ==
  ASSUME Typed, NEW r \in Requests, ReviewRead(r)
  PROVE  /\ Works(r) /\ UNCHANGED answers
         /\ req[r].pc = "review.read" /\ req'[r].pc = "review.answers"
         /\ req'[r].ent = req[r].ent /\ req'[r].drop = req[r].drop
         /\ req'[r].seen \subseteq answers
         /\ req'[r].update = req[r].update /\ req'[r].insert = req[r].insert
  BY DEF ReviewRead, RowsOf, Becomes, Works, Moves, Busy, Typed, TypeOK, Slot, dbvars

LEMMA ReviewScoreShape ==
  ASSUME Typed, NEW r \in Requests, ReviewScore(r) \/ ImportScore(r)
  PROVE  /\ Works(r) /\ UNCHANGED answers /\ Recalls(r)
         /\ req[r].pc = "review.answers" /\ req'[r].pc \in {"save.reload", "lms"}
         /\ req'[r].ent.status = req[r].ent.status
<1> DEFINE total == TotalScore(req[r].att)
           result == ResultFor(total)
           under == [req[r] EXCEPT !.pc = "save.reload", !.ent.score = total,
                                   !.ent.reviewStatus = "U"]
           done == [req[r] EXCEPT !.pc = "lms", !.ent.score = total,
                                  !.ent.reviewStatus = "R", !.ent.result = result]
<1>1. Becomes(r, under) \/ Becomes(r, done)
  <2>1. CASE ReviewScore(r)
    <3>1. IF \E x \in req[r].seen : x.reviewStatus # "R"
          THEN Becomes(r, under) ELSE Becomes(r, done)
      BY <2>1 DEF ReviewScore, ReviewScored
    <3> QED BY <3>1
  <2>2. CASE ImportScore(r)
    BY <2>2, Zenon DEF ImportScore
  <2> QED BY <2>1, <2>2
<1>2. req[r].pc = "review.answers" /\ UNCHANGED dbvars
  BY DEF ReviewScore, ReviewScored, ImportScore
<1> DEFINE Same(s) == /\ s.ent.attempt = req[r].ent.attempt
                      /\ s.ent.status = req[r].ent.status
                      /\ s.att = req[r].att /\ s.count = req[r].count
                      /\ s.drop = req[r].drop /\ s.seen = req[r].seen
                      /\ s.update = req[r].update /\ s.insert = req[r].insert
<1> HIDE DEF total, result
<1>3. req[r] \in Slot /\ req[r].ent \in AttemptRow
  BY DEF Typed, TypeOK, Slot
<1>4. Same(under) /\ under.pc = "save.reload"
  BY <1>3 DEF Slot, AttemptRow
<1>5. Same(done) /\ done.pc = "lms"
  BY <1>3 DEF Slot, AttemptRow
<1> HIDE DEF under, done
<1> QED BY <1>1, <1>2, <1>4, <1>5 DEF Becomes, Works, Recalls, Moves, Busy, Typed, TypeOK,
                                      dbvars

-----------------------------------------------------------------------------
(***************************************************************************)
(* Starting attempts.  A request that has counted may still insert: with   *)
(* those requests added to the attempts there are, the total stays below   *)
(* the limit plus the number of slots, whoever inserts first.              *)
(***************************************************************************)
Numbered(s) ==
    /\ s.pc # "start" => s.count = NULL
    /\ s.count # NULL => s.count <= Cardinality(Started)
    /\ s.pc \notin {"idle", "start"} => s.ent.attempt = attempts[s.att].attempt

MayInsert == {r \in Requests : req[r].count # NULL /\ req[r].count < test.attempts}

StartsInv ==
    /\ NumbersWithinLimit
    /\ \A r \in Requests : Numbered(req[r])
    /\ Cardinality(Started) + Cardinality(MayInsert)
          <= test.attempts - 1 + Cardinality(Requests)

LEMMA AttemptsNat == ASSUME Typed PROVE test.attempts \in Nat
  BY ParamsAssumption DEF Typed, TypeOK, Test

LEMMA MayInsertFinite ==
  /\ IsFiniteSet(MayInsert)
  /\ Cardinality(MayInsert) \in Nat
  /\ Cardinality(Requests) \in Nat
  /\ Cardinality(MayInsert) <= Cardinality(Requests)
  BY SlotsAssumption, FS_Subset, FS_CardinalityType DEF MayInsert

LEMMA StartsInit == Init => StartsInv
<1> SUFFICES ASSUME Init PROVE StartsInv
  OBVIOUS
<1>1. Started = {} /\ MayInsert = {}
  BY DEF Init, Started, MayInsert, IdleSlot
<1>2. Cardinality(Requests) >= 1
  BY SlotsAssumption, FS_EmptySet, FS_CardinalityType
<1>3. test.attempts \in Nat
  BY AttemptsNat, TypedInit
<1>4. \A r \in Requests : Numbered(req[r])
  BY DEF Init, Numbered, IdleSlot
<1>5. Cardinality(Requests) \in Nat
  BY MayInsertFinite
<1> QED BY <1>1, <1>2, <1>3, <1>4, <1>5, FS_EmptySet DEF StartsInv, NumbersWithinLimit

\* A slot that works on an attempt, or gives up its count, disturbs nothing as
\* long as no save changes a number.
LEMMA StartsKept ==
  ASSUME Typed, StartsInv, NEW r \in Requests, Moves(r),
         test' = test, Started' = Started,
         \A a \in Started : attempts'[a].attempt = attempts[a].attempt,
         req'[r].count \in {NULL, req[r].count},
         req'[r].pc # "start" => req'[r].count = NULL,
         Busy(req'[r]) =>
            /\ req'[r].att \in Started
            /\ req'[r].ent.attempt = attempts[req'[r].att].attempt
  PROVE  StartsInv'
<1>1. NumbersWithinLimit'
  BY DEF StartsInv, NumbersWithinLimit
<1>2. ASSUME NEW t \in Requests PROVE Numbered(req[t])'
  <2>1. CASE t = r
    BY <2>1 DEF StartsInv, Numbered, Busy
  <2>2. CASE t # r
    BY <2>2 DEF StartsInv, Numbered, Moves, Typed, SlotsHold, HoldsAttempt
  <2> QED BY <2>1, <2>2
<1>3. MayInsert' \subseteq MayInsert
  BY DEF MayInsert, Moves
<1>4. Cardinality(MayInsert') <= Cardinality(MayInsert) /\ Cardinality(MayInsert') \in Nat
  BY <1>3, MayInsertFinite, FS_Subset, FS_CardinalityType
<1>5. Cardinality(Started) \in Nat /\ test.attempts \in Nat
  BY AttemptsNat, FS_CardinalityType DEF Typed
<1>6. Cardinality(Started)' = Cardinality(Started)
  OBVIOUS
<1>7. Cardinality(MayInsert)' = Cardinality(MayInsert')
  OBVIOUS
<1> QED BY <1>1, <1>2, <1>4, <1>5, <1>6, <1>7, MayInsertFinite DEF StartsInv

LEMMA FinishMoves ==
  ASSUME Typed, NEW r \in Requests, Finish(r)
  PROVE  Moves(r) /\ req'[r] = IdleSlot
  BY DEF Finish, Becomes, Moves, Typed, TypeOK

LEMMA StartsKeptByFinish ==
  ASSUME Typed, StartsInv, NEW r \in Requests, Finish(r),
         test' = test, Started' = Started,
         \A a \in Started : attempts'[a].attempt = attempts[a].attempt
  PROVE  StartsInv'
  BY FinishMoves, StartsKept DEF IdleSlot, Busy

LEMMA StartsKeptByWork ==
  ASSUME Typed, StartsInv, NEW r \in Requests, Works(r) \/ Takes(r)
  PROVE  StartsInv'
<1>1. Numbered(req[r]) /\ HoldsAttempt(req[r])
  BY DEF StartsInv, Typed, SlotsHold
<1>2. /\ UNCHANGED <<test, attempts>> /\ Started' = Started
      /\ Moves(r) /\ req'[r].count = req[r].count /\ Busy(req'[r])
      /\ req'[r].att \in Started
      /\ req'[r].ent.attempt = attempts[req'[r].att].attempt
  BY <1>1, SameAttempts DEF Works, Takes, dbvars, Numbered, HoldsAttempt, Busy
<1>3. req[r].count = NULL
  BY <1>1 DEF Works, Takes, Numbered, Busy
<1> QED BY <1>2, <1>3, StartsKept DEF Busy

LEMMA CountKept ==
  ASSUME Typed, StartsInv, NEW r \in Requests, StartCount(r)
  PROVE  StartsInv'
<1> DEFINE s == [req[r] EXCEPT !.count = Cardinality(Started)]
<1>0. req[r] \in Slot
  BY DEF Typed, TypeOK
<1>1. /\ req[r].pc = "start" /\ req[r].count = NULL
      /\ Becomes(r, s) /\ test' = test /\ attempts' = attempts /\ Started' = Started
  BY SameAttempts DEF StartCount, dbvars
<1>2. /\ s.pc = "start" /\ s.count = Cardinality(Started)
  BY <1>0, <1>1 DEF Slot
<1>3. Cardinality(Started) \in Nat /\ test.attempts \in Nat
  BY AttemptsNat, FS_CardinalityType DEF Typed
<1> HIDE DEF s
<1>4. NumbersWithinLimit'
  BY <1>1 DEF StartsInv, NumbersWithinLimit
<1>5. ASSUME NEW t \in Requests PROVE Numbered(req[t])'
  <2>1. CASE t = r
    BY <2>1, <1>1, <1>2, <1>3 DEF Numbered, Becomes, Typed, TypeOK
  <2>2. CASE t # r
    BY <2>2, <1>1 DEF StartsInv, Numbered, Becomes, Typed, TypeOK
  <2> QED BY <2>1, <2>2
<1>6. Cardinality(Started) + Cardinality(MayInsert')
         <= test.attempts - 1 + Cardinality(Requests)
  <2>1. /\ Cardinality(MayInsert') \in Nat
        /\ Cardinality(MayInsert') <= Cardinality(Requests)
    BY SlotsAssumption, FS_Subset, FS_CardinalityType DEF MayInsert
  <2>2. CASE Cardinality(Started) < test.attempts
    BY <2>1, <2>2, <1>3, MayInsertFinite
  <2>3. CASE ~(Cardinality(Started) < test.attempts)
    <3>1. MayInsert' \subseteq MayInsert
      BY <1>1, <1>2, <2>3 DEF MayInsert, Becomes, Typed, TypeOK
    <3>2. Cardinality(MayInsert') <= Cardinality(MayInsert)
      BY <3>1, MayInsertFinite, FS_Subset
    <3> QED BY <2>1, <3>2, <1>3, MayInsertFinite DEF StartsInv
  <2> QED BY <2>2, <2>3
<1>7. Cardinality(Started)' = Cardinality(Started)
  BY <1>1
<1> QED BY <1>1, <1>4, <1>5, <1>6, <1>7 DEF StartsInv

LEMMA CreateKept ==
  ASSUME Typed, StartsInv, NEW r \in Requests, StartCreate(r)
  PROVE  StartsInv'
<1> DEFINE number == req[r].count + 1
           row == [NoRow EXCEPT !.attempt = number]
<1>0. req[r] \in Slot
  BY DEF Typed, TypeOK
<1>1. /\ req[r].pc = "start" /\ req[r].count # NULL
      /\ req[r].count < test.attempts
      /\ Finish(r) /\ test' = test
  BY DEF StartCreate, Opened
<1>2. PICK a \in AttemptIds \ Started : attempts' = [attempts EXCEPT ![a] = row]
  BY DEF StartCreate, Opened
<1>3. /\ req[r].count \in Nat
      /\ Cardinality(Started) \in Nat /\ test.attempts \in Nat
      /\ req[r].count <= Cardinality(Started)
  BY <1>0, <1>1, AttemptsNat, FS_CardinalityType DEF Typed, Slot, StartsInv, Numbered
<1>4. number \in 1 .. test.attempts /\ number <= Cardinality(Started) + 1
  BY <1>1, <1>3
<1>5. row.attempt = number /\ row # NULL
  BY <1>3, ParamsAssumption DEF NoRow, AttemptRow
<1> HIDE DEF number, row
<1>6. /\ Started' = Started \cup {a}
      /\ attempts'[a] = row
      /\ \A b \in Started : attempts'[b] = attempts[b]
  BY <1>2, <1>5 DEF Typed, TypeOK, Started
<1>7. Cardinality(Started') = Cardinality(Started) + 1
  BY <1>6, FS_AddElement DEF Typed
<1>8. NumbersWithinLimit'
  <2> SUFFICES ASSUME NEW b \in Started'
               PROVE  /\ attempts'[b].attempt \in 1 .. test'.attempts
                      /\ attempts'[b].attempt <= Cardinality(Started')
    BY DEF NumbersWithinLimit
  <2>1. CASE b = a
    BY <2>1, <1>1, <1>4, <1>5, <1>6, <1>7
  <2>2. CASE b \in Started
    BY <2>2, <1>1, <1>3, <1>6, <1>7 DEF StartsInv, NumbersWithinLimit
  <2> QED BY <1>6, <2>1, <2>2
<1>9. ASSUME NEW t \in Requests PROVE Numbered(req[t])'
  <2>1. CASE t = r
    BY <2>1, <1>1 DEF Numbered, Finish, Becomes, IdleSlot, Typed, TypeOK
  <2>2. CASE t # r
    <3>1. req'[t] = req[t] /\ req[t] \in Slot
      BY <2>2, <1>1 DEF Finish, Becomes, Typed, TypeOK
    <3>2. Numbered(req[t]) /\ HoldsAttempt(req[t])
      BY DEF StartsInv, Typed, SlotsHold
    <3>3. req[t].count # NULL => req[t].count <= Cardinality(Started')
      BY <3>1, <3>2, <1>3, <1>7 DEF Numbered, Slot
    <3> QED BY <3>1, <3>2, <3>3, <1>6 DEF Numbered, HoldsAttempt
  <2> QED BY <2>1, <2>2
<1>10. MayInsert' = MayInsert \ {r} /\ r \in MayInsert
  BY <1>1 DEF MayInsert, Finish, Becomes, IdleSlot, Typed, TypeOK
<1>11. Cardinality(MayInsert') = Cardinality(MayInsert) - 1
  BY <1>10, MayInsertFinite, FS_RemoveElement
<1> QED BY <1>1, <1>3, <1>7, <1>8, <1>9, <1>11, MayInsertFinite DEF StartsInv

LEMMA SaveKeepsNumber ==
  ASSUME Typed, StartsInv, NEW r \in Requests, AnswerCommit(r) \/ SaveWrite(r)
  PROVE  Started' = Started /\ \A a \in Started : attempts'[a].attempt = attempts[a].attempt
<1> DEFINE q == req[r]
<1>1. /\ q \in Slot /\ HoldsAttempt(q) /\ Numbered(q)
      /\ q.pc \in {"answer.commit", "save.write"}
      /\ attempts' = [attempts EXCEPT ![q.att] = Overlay(@, q.ent, q.dirty)]
  BY DEF Typed, TypeOK, SlotsHold, StartsInv, AnswerCommit, SaveWrite
<1>2. q.att \in Started /\ q.ent \in AttemptRow /\ q.ent.attempt = attempts[q.att].attempt
  BY <1>1 DEF HoldsAttempt, Numbered, Slot
<1>3. Started' = Started
  BY <1>1, <1>2, SaveTyped
<1>4. Overlay(attempts[q.att], q.ent, q.dirty).attempt = attempts[q.att].attempt
  BY <1>2 DEF Overlay
<1> QED BY <1>1, <1>2, <1>3, <1>4 DEF Typed, TypeOK, Started

LEMMA StartsStep == Typed /\ StartsInv /\ [Next]_vars => StartsInv'
<1> SUFFICES ASSUME Typed, StartsInv, [Next]_vars PROVE StartsInv'
  OBVIOUS
<1>1. ASSUME UNCHANGED <<test, attempts, req>> PROVE StartsInv'
  BY <1>1 DEF StartsInv, NumbersWithinLimit, Numbered, MayInsert, Started
<1>2. ASSUME NEW r \in Requests, UNCHANGED dbvars, Finish(r) PROVE StartsInv'
  BY <1>2, SameAttempts, StartsKeptByFinish DEF dbvars
<1>3. ASSUME NEW r \in Requests, StartBegin(r) \/ (StartFind(r) /\ ~Finish(r))
      PROVE  StartsInv'
  <2>1. /\ Moves(r) /\ UNCHANGED <<test, attempts>>
        /\ req'[r].count = req[r].count /\ req'[r].pc = "start"
    <3>1. CASE StartBegin(r)
      BY <3>1 DEF StartBegin, Becomes, Moves, Typed, TypeOK, Slot, dbvars
    <3>2. CASE StartFind(r) /\ ~Finish(r)
      <4>1. /\ Becomes(r, [req[r] EXCEPT !.clear = TRUE])
            /\ req[r].pc = "start" /\ UNCHANGED dbvars
        BY <3>2 DEF StartFind
      <4> QED BY <4>1 DEF Becomes, Moves, Typed, TypeOK, Slot, dbvars
    <3> QED BY <1>3, <3>1, <3>2
  <2> QED BY <2>1, SameAttempts, StartsKept DEF Busy
<1>4. ASSUME NEW r \in Requests, StartStep(r) PROVE StartsInv'
  BY <1>2, <1>3, <1>4, CountKept, CreateKept DEF StartStep, StartFind, StartRefuse
<1>5. ASSUME NEW r \in Requests, AnswerCommit(r) \/ SaveWrite(r) PROVE StartsInv'
  BY <1>5, SaveKeepsNumber, StartsKeptByFinish DEF AnswerCommit, SaveWrite
<1>6. ASSUME NEW r \in Requests, Begin(r) \/ AnswerStep(r) \/ SubmitStep(r) \/ SaveStep(r)
      PROVE  StartsInv'
  BY <1>2, <1>3, <1>5, <1>6, TakesShape, AnswerReadShape, AnswerStageShape,
     SubmitScoreShape, KeepsShape, StartsKeptByWork
  DEF Begin, AnswerStep, SubmitStep, SaveStep, SubmitValidate
<1>7. ASSUME NEW r \in Requests, ReviewStep(r) \/ Abort(r) PROVE StartsInv'
  BY <1>2, <1>7, ReviewReadShape, ReviewScoreShape, KeepsShape, StartsKeptByWork
  DEF ReviewStep, LmsDone, LmsFailed, ImportMissing, Abort
<1>8. CASE UNCHANGED vars \/ TimePasses \/ SetTestStatus
           \/ \E m \in lmsPosted : LmsArrives(m) \/ LmsLost(m)
  BY <1>1, <1>8 DEF vars, dbvars, TimePasses, SetTestStatus, LmsArrives, LmsLost
<1> QED BY <1>4, <1>6, <1>7, <1>8 DEF Next

\* The inductive invariant of startAttempt always holds: numbers lie within the
\* limit, and attempts and inserts to come together keep below the overshoot.
THEOREM AlwaysStartsInv == Spec => []StartsInv
  BY TypedInit, TypedStep, StartsInit, StartsStep, PTL DEF Spec

\* However many starts overlap, the limit is passed by fewer attempts than there
\* are requests in flight.
THEOREM OvershootIsBounded == Spec => []OvershootBounded
<1>1. Typed /\ StartsInv => OvershootBounded
  <2> SUFFICES ASSUME Typed, StartsInv PROVE OvershootBounded
    OBVIOUS
  <2>1. Cardinality(Started) \in Nat /\ test.attempts \in Nat
    BY AttemptsNat, FS_CardinalityType DEF Typed
  <2> QED BY <2>1, MayInsertFinite DEF StartsInv, OvershootBounded
<1> QED BY <1>1, AlwaysTyped, AlwaysStartsInv, PTL

\* The number of an attempt is within the limit, and no save of an entity that
\* was read before ever changes it.
THEOREM NumbersStayWithinLimit == Spec => []NumbersWithinLimit
<1>1. StartsInv => NumbersWithinLimit
  BY DEF StartsInv
<1> QED BY <1>1, AlwaysStartsInv, PTL
-----------------------------------------------------------------------------
(***************************************************************************)
(* Graded attempts are complete.  An id stands for one attempt and one     *)
(* question wherever a row of it is known, and what a batch deletes are    *)
(* answers to child questions; so an answer to any other question, once    *)
(* given, is never lost, and the check a submission made stays true.       *)
(***************************************************************************)
Known == answers \cup
         UNION {req[r].seen \cup req[r].update \cup req[r].insert : r \in Requests}

SameKey(x, y) == x.id = y.id /\ x.attempt = y.attempt /\ x.question = y.question

IdsInv == \A x, y \in Known : x.id = y.id => SameKey(x, y)

DropsInv == \A r \in Requests : \A x \in Known :
                x.id \in req[r].drop => IsChild(x.question)

KeysInv == IdsInv /\ DropsInv

Complete(a) ==
    \A q \in CompulsoryQuestions : ~IsChild(q) => \E x \in RowsOf(a) : x.question = q

CompleteSlot(s) ==
    /\ Graded(s.ent) => Complete(s.att)
    /\ s.pc = "submit.score" => Complete(s.att)
    /\ s.pc \in {"review.read", "review.answers", "lms"} => s.ent.status = "S"

GradesInv ==
    /\ \A a \in Started : Graded(attempts[a]) => Complete(a)
    /\ \A r \in Requests : Busy(req[r]) => CompleteSlot(req[r])

\* No answer to a question that is not a child question is lost.
NoLoss ==
    \A x \in answers : ~IsChild(x.question) =>
        \E y \in answers' : y.attempt = x.attempt /\ y.question = x.question

LEMMA KeysInit == Init => KeysInv /\ GradesInv
<1> SUFFICES ASSUME Init PROVE KeysInv /\ GradesInv
  OBVIOUS
<1>1. Known = {} /\ Started = {}
  BY DEF Init, Known, IdleSlot, Started
<1>2. \A r \in Requests : ~Busy(req[r])
  BY DEF Init, Busy, IdleSlot
<1> QED BY <1>1, <1>2 DEF KeysInv, IdsInv, DropsInv, GradesInv

\* Rows that are known already bring no new key.
LEMMA KeysKept ==
  ASSUME KeysInv, NEW r \in Requests, Moves(r),
         \A x \in answers' \cup req'[r].seen \cup req'[r].update \cup req'[r].insert :
            \E y \in Known : SameKey(x, y),
         req'[r].drop \subseteq req[r].drop
  PROVE  KeysInv'
<1>1. ASSUME NEW x \in Known' PROVE \E y \in Known : SameKey(x, y)
  <2>1. CASE x \in answers'
    BY <2>1
  <2>2. CASE \E t \in Requests : x \in req'[t].seen \cup req'[t].update \cup req'[t].insert
    <3>1. PICK t \in Requests : x \in req'[t].seen \cup req'[t].update \cup req'[t].insert
      BY <2>2
    <3>2. CASE t = r
      BY <3>1, <3>2
    <3>3. CASE t # r
      <4>1. x \in Known
        BY <3>1, <3>3 DEF Moves, Known
      <4> QED BY <4>1 DEF SameKey
    <3> QED BY <3>2, <3>3
  <2> QED BY <2>1, <2>2 DEF Known
<1>2. IdsInv'
  <2> SUFFICES ASSUME NEW x \in Known', NEW y \in Known', x.id = y.id
               PROVE  SameKey(x, y)
    BY DEF IdsInv, SameKey
  <2>1. PICK u \in Known : SameKey(x, u)
    BY <1>1
  <2>2. PICK v \in Known : SameKey(y, v)
    BY <1>1
  <2>3. SameKey(u, v)
    BY <2>1, <2>2 DEF KeysInv, IdsInv, SameKey
  <2> QED BY <2>1, <2>2, <2>3 DEF SameKey
<1>3. DropsInv'
  <2> SUFFICES ASSUME NEW t \in Requests, NEW x \in Known', x.id \in req'[t].drop
               PROVE  IsChild(x.question)
    BY DEF DropsInv, IsChild
  <2>1. PICK u \in Known : SameKey(x, u)
    BY <1>1
  <2>2. x.id \in req[t].drop
    BY DEF Moves
  <2> QED BY <2>1, <2>2 DEF KeysInv, DropsInv, SameKey
<1> QED BY <1>2, <1>3 DEF KeysInv

LEMMA KnownHas ==
  /\ answers \subseteq Known
  /\ \A r \in Requests : /\ req[r].seen \subseteq Known
                         /\ req[r].update \subseteq Known
                         /\ req[r].insert \subseteq Known
  BY DEF Known

LEMMA SameKeyReflexive == \A x : SameKey(x, x)
  BY DEF SameKey

\* A staged batch adds rows with fresh ids, and deletes answers to child questions.
LEMMA KeysStaged ==
  ASSUME Typed, KeysInv, NEW r \in Requests, AnswerStage(r)
  PROVE  KeysInv'
<1> DEFINE a == req[r].att
           b == req[r].batch
           drop == CleanedUp(a, b, req[r].seen)
           existing == {x \in req[r].seen : x.question \in Asked(b)}
           known == {x.question : x \in existing}
           new == {i \in DOMAIN b : b[i].question \notin known}
           here == Ids(answers) \ drop
<1>1. /\ Moves(r) /\ answers' = answers
      /\ req'[r].seen = req[r].seen /\ req'[r].drop = drop
  BY AnswerStageShape DEF Works
<1>2. PICK kept \in OneRowEach(existing), id \in [new -> FreshIds] :
         /\ \A i, j \in new : id[i] = id[j] => i = j
         /\ LET saved == Rewritten(kept, b)
            IN  /\ req'[r].update = {x \in saved : x.id \in here}
                /\ req'[r].insert = {x \in saved : x.id \notin here} \cup
                                    {NewRow(id[i], a, b[i]) : i \in new}
  BY AnswerStageShape
<1>3. ASSUME NEW z \in Rewritten(kept, b)
      PROVE  \E y \in Known : SameKey(z, y)
  <2>1. PICK row \in kept :
           z \in {[row EXCEPT !.opens = x.opens, !.score = Scored(x).score,
                              !.reviewStatus = Scored(x).reviewStatus] :
                     x \in LastGiven(b, row.question)}
    BY Zenon DEF Rewritten
  <2>2. row \in Known /\ row \in AnswerRow
    BY KnownHas DEF OneRowEach, Typed, TypeOK, Slot
  <2> HIDE DEF b
  <2>3. SameKey(z, row)
    BY <2>1, <2>2 DEF SameKey, AnswerRow
  <2> QED BY <2>2, <2>3
<1> DEFINE fresh == {NewRow(id[i], a, b[i]) : i \in new}
<1>4. \A x \in fresh : x.id \in FreshIds
  BY DEF NewRow
<1>5. \A x, y \in fresh : x.id = y.id => x = y
  <2> HIDE DEF new, a, b
  <2> SUFFICES ASSUME NEW i \in new, NEW j \in new,
                      NewRow(id[i], a, b[i]).id = NewRow(id[j], a, b[j]).id
               PROVE  NewRow(id[i], a, b[i]) = NewRow(id[j], a, b[j])
    OBVIOUS
  <2>1. id[i] = id[j]
    BY DEF NewRow
  <2>2. i = j
    BY <1>2, <2>1
  <2> QED BY <2>2
<1>6. \A y \in Known : y.id \notin FreshIds
  BY DEF Known, FreshIds, Ids
<1>7. \A x \in req'[r].update \cup req'[r].insert :
         x \in fresh \/ \E y \in Known : SameKey(x, y)
  BY <1>2, <1>3
<1> HIDE DEF drop, fresh
<1>8. ASSUME NEW x \in Known'
      PROVE  x \in fresh \/ \E y \in Known : SameKey(x, y)
  <2>1. CASE x \in Known
    BY <2>1, SameKeyReflexive
  <2>2. CASE x \in req'[r].update \cup req'[r].insert
    BY <2>2, <1>7
  <2>3. x \in Known \/ x \in req'[r].update \cup req'[r].insert
    BY <1>1 DEF Known, Moves
  <2> QED BY <2>1, <2>2, <2>3
<1>9. IdsInv'
  <2> SUFFICES ASSUME NEW x \in Known', NEW y \in Known', x.id = y.id
               PROVE  SameKey(x, y)
    BY DEF IdsInv, SameKey
  <2>1. CASE x \in fresh \/ y \in fresh
    <3>1. x \in fresh /\ y \in fresh
      BY <1>4, <1>6, <1>8, <2>1 DEF SameKey
    <3> QED BY <3>1, <1>5, SameKeyReflexive
  <2>2. CASE x \notin fresh /\ y \notin fresh
    <3>1. PICK u \in Known : SameKey(x, u)
      BY <1>8, <2>2
    <3>2. PICK v \in Known : SameKey(y, v)
      BY <1>8, <2>2
    <3>3. SameKey(u, v)
      BY <3>1, <3>2 DEF KeysInv, IdsInv, SameKey
    <3> QED BY <3>1, <3>2, <3>3 DEF SameKey
  <2> QED BY <2>1, <2>2
<1>10. DropsInv'
  <2> SUFFICES ASSUME NEW t \in Requests, NEW x \in Known', x.id \in req'[t].drop
               PROVE  IsChild(x.question)
    BY DEF DropsInv, IsChild
  <2>1. CASE t # r
    <3>1. x.id \in req[t].drop /\ x.id \notin FreshIds
      BY <1>1, <2>1 DEF Moves, FreshIds
    <3>2. PICK u \in Known : SameKey(x, u)
      BY <1>4, <1>8, <3>1
    <3> QED BY <3>1, <3>2 DEF KeysInv, DropsInv, SameKey
  <2>2. CASE t = r
    <3>1. PICK y \in answers : y.id = x.id /\ IsChild(y.question)
      BY <1>1, <2>2 DEF drop, CleanedUp, RowsOf
    <3>2. y \in Known
      BY KnownHas
    <3>3. PICK u \in Known : SameKey(x, u)
      BY <1>4, <1>6, <1>8, <3>1, <3>2
    <3>4. SameKey(u, y)
      BY <3>1, <3>2, <3>3 DEF KeysInv, IdsInv, SameKey
    <3> QED BY <3>1, <3>3, <3>4 DEF SameKey
  <2> QED BY <2>1, <2>2
<1> QED BY <1>9, <1>10 DEF KeysInv
LEMMA CommitShape ==
  ASSUME Typed, NEW r \in Requests, AnswerCommit(r)
  PROVE  /\ Moves(r) /\ req'[r] = IdleSlot
         /\ answers' \subseteq answers \cup req[r].update \cup req[r].insert
         /\ \A x \in answers : \/ x \in answers'
                               \/ x.id \in req[r].drop
                               \/ \E y \in req[r].update \cap answers' : y.id = x.id
  BY FinishMoves DEF AnswerCommit, Ids

\* A review replaces a row by one with the same key.
LEMMA ReviewedShape ==
  ASSUME Typed, NEW r \in Requests, ReviewAnswer(r) \/ ImportAnswer(r)
  PROVE  /\ \A x \in answers' : \E y \in Known : SameKey(x, y)
         /\ \A x \in answers : x \in answers' \/
               \E y \in answers' : y.id = x.id /\ \E z \in Known : SameKey(y, z)
<1> DEFINE q == req[r]
           v == Head(q.review)
           Rescored(x) == [x EXCEPT !.score = v.score, !.reviewStatus = "R"]
<1>1. \A x \in AnswerRow : SameKey(Rescored(x), x)
  BY DEF SameKey, AnswerRow
<1>2. answers \subseteq AnswerRow /\ q.seen \subseteq AnswerRow
  BY DEF Typed, TypeOK, Slot
<1>3. CASE ReviewAnswer(r)
  <2> DEFINE hit == {x \in RowsOf(q.att) : x.question = v.question}
  <2>1. answers' = (answers \ hit) \cup {Rescored(x) : x \in hit}
    BY <1>3, Zenon DEF ReviewAnswer
  <2>2. hit \subseteq answers
    BY DEF RowsOf
  <2> HIDE DEF hit, Rescored
  <2> QED BY <1>1, <1>2, <2>1, <2>2, KnownHas, SameKeyReflexive DEF SameKey
<1>4. CASE ImportAnswer(r)
  <2>1. PICK x \in q.seen :
          answers' = {y \in answers : y.id # x.id} \cup {Rescored(x)}
    BY <1>4, Zenon DEF ImportAnswer
  <2> HIDE DEF Rescored
  <2> QED BY <1>1, <1>2, <2>1, KnownHas, SameKeyReflexive DEF SameKey
<1> QED BY <1>3, <1>4

LEMMA KeysStep == Typed /\ KeysInv /\ [Next]_vars => KeysInv'
<1> SUFFICES ASSUME Typed, KeysInv, [Next]_vars PROVE KeysInv'
  OBVIOUS
<1>1. ASSUME UNCHANGED <<answers, req>> PROVE KeysInv'
  BY <1>1 DEF KeysInv, IdsInv, DropsInv, Known, SameKey, IsChild
<1>2. ASSUME NEW r \in Requests, Finish(r),
             answers' \subseteq Known
      PROVE  KeysInv'
  BY <1>2, FinishMoves, KeysKept, SameKeyReflexive DEF IdleSlot
<1>3. ASSUME NEW r \in Requests, Moves(r), Recalls(r),
             \A x \in answers' : \E y \in Known : SameKey(x, y)
      PROVE  KeysInv'
  BY <1>3, KnownHas, KeysKept, SameKeyReflexive DEF Recalls
<1>4. ASSUME NEW r \in Requests, Moves(r), UNCHANGED answers,
             req'[r].seen \subseteq answers \cup req[r].seen,
             req'[r].drop = req[r].drop,
             req'[r].update = req[r].update, req'[r].insert = req[r].insert
      PROVE  KeysInv'
  <2>1. \A x \in answers' \cup req'[r].seen \cup req'[r].update \cup req'[r].insert :
           x \in Known
    BY <1>4, KnownHas
  <2> QED BY <1>4, <2>1, KeysKept, SameKeyReflexive
<1>5. ASSUME NEW r \in Requests, UNCHANGED answers, Finish(r) PROVE KeysInv'
  BY <1>2, <1>5, KnownHas
<1>6. ASSUME NEW r \in Requests, StartBegin(r) \/ StartStep(r) PROVE KeysInv'
  <2>1. ASSUME ~Finish(r),
               StartBegin(r) \/ StartFind(r) \/ StartCount(r)
        PROVE  Moves(r) /\ Recalls(r) /\ UNCHANGED answers
    <3>1. CASE StartBegin(r)
      BY <3>1 DEF StartBegin, Becomes, Moves, Recalls, Typed, TypeOK, Slot, dbvars
    <3>2. CASE StartFind(r)
      <4>1. Becomes(r, [req[r] EXCEPT !.clear = TRUE]) /\ UNCHANGED dbvars
        BY <2>1, <3>2 DEF StartFind
      <4> QED BY <4>1 DEF Becomes, Moves, Recalls, Typed, TypeOK, Slot, dbvars
    <3>3. CASE StartCount(r)
      BY <3>3 DEF StartCount, Becomes, Moves, Recalls, Typed, TypeOK, Slot, dbvars
    <3> QED BY <2>1, <3>1, <3>2, <3>3
  <2>2. UNCHANGED answers
    BY <1>6 DEF StartBegin, StartStep, StartFind, StartCount, StartRefuse, StartCreate,
                Opened, dbvars
  <2>3. StartRefuse(r) \/ StartCreate(r) => Finish(r)
    BY DEF StartRefuse, StartCreate, Opened
  <2> QED BY <1>3, <1>5, <1>6, <2>1, <2>2, <2>3, KnownHas, SameKeyReflexive DEF StartStep
<1>7. ASSUME NEW r \in Requests, Takes(r) PROVE KeysInv'
  BY <1>4, <1>7 DEF Takes, dbvars
<1>8. ASSUME NEW r \in Requests, AnswerStep(r) PROVE KeysInv'
  <2>1. CASE AnswerRead(r)
    BY <1>4, <2>1, AnswerReadShape DEF Works, RowsOf
  <2>2. CASE AnswerCommit(r)
    <3>1. answers' \subseteq Known
      BY <2>2, CommitShape, KnownHas
    <3> QED BY <1>2, <2>2, <3>1 DEF AnswerCommit
  <2> QED BY <1>8, <2>1, <2>2, KeysStaged DEF AnswerStep
<1>9. ASSUME NEW r \in Requests, ReviewAnswer(r) \/ ImportAnswer(r) PROVE KeysInv'
  BY <1>3, <1>9, ReviewedShape, KeepsShape DEF Works
<1>10. ASSUME NEW r \in Requests, UNCHANGED answers,
              SubmitStep(r) \/ SaveStep(r) \/ ReviewStep(r) \/ Abort(r)
       PROVE  KeysInv'
  <2>1. ASSUME Works(r), Recalls(r) PROVE KeysInv'
    BY <1>3, <1>10, <2>1, KnownHas, SameKeyReflexive DEF Works
  <2>2. CASE ReviewRead(r)
    BY <1>4, <2>2, ReviewReadShape DEF Works
  <2>3. CASE SubmitStep(r) \/ SaveStep(r)
    BY <1>5, <1>10, <2>1, <2>3, SubmitScoreShape, KeepsShape
    DEF SubmitStep, SaveStep, SaveWrite, SubmitValidate
  <2>4. CASE ReviewStep(r) \/ Abort(r)
    BY <1>5, <1>9, <1>10, <2>1, <2>2, <2>4, ReviewScoreShape, KeepsShape
    DEF ReviewStep, LmsDone, LmsFailed, ImportMissing, Abort
  <2> QED BY <1>10, <2>3, <2>4
<1>11. ASSUME NEW r \in Requests, ~(ReviewAnswer(r) \/ ImportAnswer(r)),
              SubmitStep(r) \/ SaveStep(r) \/ ReviewStep(r) \/ Abort(r)
       PROVE  UNCHANGED answers
  BY <1>11 DEF SubmitStep, SaveStep, ReviewStep, SubmitValidate, SubmitScore, SaveReload,
     SaveWrite, ReviewRead, ReviewScore, ReviewScored, ImportMissing, ImportScore, LmsDone,
     LmsFailed, Abort, dbvars
<1>12. ASSUME NEW r \in Requests,
              \/ Begin(r) \/ StartStep(r) \/ AnswerStep(r) \/ SubmitStep(r)
              \/ ReviewStep(r) \/ SaveStep(r) \/ Abort(r)
       PROVE  KeysInv'
  BY <1>6, <1>7, <1>8, <1>9, <1>10, <1>11, <1>12, TakesShape DEF Begin
<1>13. CASE UNCHANGED vars \/ TimePasses \/ SetTestStatus
            \/ \E m \in lmsPosted : LmsArrives(m) \/ LmsLost(m)
  BY <1>1, <1>13 DEF vars, dbvars, TimePasses, SetTestStatus, LmsArrives, LmsLost
<1> QED BY <1>12, <1>13 DEF Next

\* Answers are written by the commit of a batch and by reviews only.
LEMMA AnswersKept ==
  ASSUME Typed, NEW r \in Requests, ~AnswerCommit(r), ~ReviewAnswer(r), ~ImportAnswer(r),
         \/ Begin(r) \/ StartStep(r) \/ AnswerStep(r) \/ SubmitStep(r)
         \/ ReviewStep(r) \/ SaveStep(r) \/ Abort(r)
  PROVE  UNCHANGED answers
<1>1. ASSUME StartBegin(r) \/ StartStep(r) PROVE UNCHANGED answers
  BY <1>1 DEF StartBegin, StartStep, StartFind, StartCount, StartRefuse, StartCreate,
              Opened, dbvars
<1>2. ASSUME Begin(r) PROVE UNCHANGED answers
  BY <1>1, <1>2, TakesShape DEF Begin, Takes, dbvars
<1>3. ASSUME AnswerStep(r) PROVE UNCHANGED answers
  BY <1>3, AnswerReadShape, AnswerStageShape DEF AnswerStep
<1>4. ASSUME SubmitStep(r) \/ ReviewStep(r) \/ SaveStep(r) \/ Abort(r)
      PROVE  UNCHANGED answers
  BY <1>4 DEF SubmitStep, SaveStep, ReviewStep, SubmitValidate, SubmitScore,
     SaveReload, SaveWrite, ReviewRead, ReviewScore, ReviewScored, ImportMissing,
     ImportScore, LmsDone, LmsFailed, Abort, dbvars
<1> QED BY <1>1, <1>2, <1>3, <1>4

LEMMA NothingLost ==
  ASSUME Typed, KeysInv, [Next]_vars PROVE NoLoss
<1>1. ASSUME NEW r \in Requests, AnswerCommit(r) PROVE NoLoss
  <2> SUFFICES ASSUME NEW x \in answers, ~IsChild(x.question)
               PROVE  \E y \in answers' : y.attempt = x.attempt /\ y.question = x.question
    BY DEF NoLoss
  <2>1. x \in Known
    BY KnownHas
  <2>2. x.id \notin req[r].drop
    BY <2>1 DEF KeysInv, DropsInv
  <2>3. CASE x \in answers'
    BY <2>3
  <2>4. CASE \E y \in req[r].update \cap answers' : y.id = x.id
    <3>1. PICK y \in req[r].update \cap answers' : y.id = x.id
      BY <2>4
    <3>2. SameKey(x, y)
      BY <2>1, <3>1, KnownHas DEF KeysInv, IdsInv
    <3> QED BY <3>1, <3>2 DEF SameKey
  <2> QED BY <1>1, <2>2, <2>3, <2>4, CommitShape
<1>2. ASSUME NEW r \in Requests, ReviewAnswer(r) \/ ImportAnswer(r) PROVE NoLoss
  <2> SUFFICES ASSUME NEW x \in answers, x \notin answers'
               PROVE  \E y \in answers' : y.attempt = x.attempt /\ y.question = x.question
    BY DEF NoLoss
  <2>1. PICK y \in answers' : y.id = x.id /\ \E z \in Known : SameKey(y, z)
    BY <1>2, ReviewedShape
  <2>2. PICK z \in Known : SameKey(y, z)
    BY <2>1
  <2>3. SameKey(x, z)
    BY <2>1, <2>2, KnownHas DEF KeysInv, IdsInv, SameKey
  <2> QED BY <2>2, <2>3 DEF SameKey
<1>3. ASSUME UNCHANGED answers PROVE NoLoss
  BY <1>3 DEF NoLoss
<1>4. ASSUME NEW r \in Requests, ~AnswerCommit(r), ~ReviewAnswer(r), ~ImportAnswer(r),
             \/ Begin(r) \/ StartStep(r) \/ AnswerStep(r) \/ SubmitStep(r)
             \/ ReviewStep(r) \/ SaveStep(r) \/ Abort(r)
      PROVE  UNCHANGED answers
  BY <1>4, AnswersKept
<1>5. CASE UNCHANGED vars \/ TimePasses \/ SetTestStatus
           \/ \E m \in lmsPosted : LmsArrives(m) \/ LmsLost(m)
  BY <1>3, <1>5 DEF vars, dbvars, TimePasses, SetTestStatus, LmsArrives, LmsLost
<1> QED BY <1>1, <1>2, <1>3, <1>4, <1>5 DEF Next

LEMMA TestKept == ASSUME [Next]_vars PROVE test' = test
<1>1. ASSUME NEW r \in Requests, Begin(r) \/ StartStep(r) PROVE test' = test
  BY <1>1 DEF Begin, StartStep, StartBegin, AnswerBegin, SubmitBegin, ReviewBegin,
     ImportBegin, StartFind, StartCount, StartRefuse, StartCreate, Opened, dbvars
<1>2. ASSUME NEW r \in Requests, AnswerStep(r) \/ SubmitStep(r) \/ SaveStep(r)
      PROVE  test' = test
  BY <1>2 DEF AnswerStep, SubmitStep, SaveStep, AnswerRead, AnswerStage, AnswerCommit,
     SubmitValidate, SubmitScore, SaveReload, SaveWrite, dbvars
<1>3. ASSUME NEW r \in Requests, ReviewStep(r) \/ Abort(r) PROVE test' = test
  BY <1>3 DEF ReviewStep, ReviewRead, ReviewAnswer, ReviewScore, ReviewScored,
     ImportAnswer, ImportMissing, ImportScore, LmsDone, LmsFailed, Abort, dbvars
<1>4. CASE UNCHANGED vars \/ TimePasses \/ SetTestStatus
           \/ \E m \in lmsPosted : LmsArrives(m) \/ LmsLost(m)
  BY <1>4 DEF LmsArrives, LmsLost, TimePasses, SetTestStatus, vars, dbvars
<1> QED BY <1>1, <1>2, <1>3, <1>4 DEF Next

\* Complete attempts stay complete.
LEMMA CompleteKept ==
  ASSUME Typed, KeysInv, [Next]_vars, NEW a, Complete(a)
  PROVE  Complete(a)'
<1>1. NoLoss /\ test' = test
  BY NothingLost, TestKept
<1>2. CompulsoryQuestions' = CompulsoryQuestions
  BY <1>1 DEF CompulsoryQuestions
<1> SUFFICES ASSUME NEW q \in CompulsoryQuestions, ~IsChild(q)
             PROVE  \E y \in RowsOf(a)' : y.question = q
  BY <1>2 DEF Complete, IsChild
<1>3. PICK x \in answers : x.attempt = a /\ x.question = q
  BY DEF Complete, RowsOf
<1>4. PICK y \in answers' : y.attempt = x.attempt /\ y.question = x.question
  BY <1>1, <1>3 DEF NoLoss
<1> QED BY <1>3, <1>4 DEF RowsOf

LEMMA ValidatedComplete ==
  ASSUME Typed, NEW r \in Requests, SubmitValidate(r), ~Finish(r)
  PROVE  Complete(req[r].att)
<1>1. PICK shown \in OneRowEach(RowsOf(req[r].att)) :
         Unanswered(req[r].att) \cap Required(ResolvedTest, shown) = {}
  BY DEF SubmitValidate
<1>2. CompulsoryQuestions \subseteq Questions
  BY ParamsAssumption DEF CompulsoryQuestions
<1> QED BY <1>1, <1>2 DEF Complete, Unanswered, Required

LEMMA OverlayGraded ==
  ASSUME NEW row \in AttemptRow, NEW ent \in AttemptRow, NEW cols,
         Graded(Overlay(row, ent, cols))
  PROVE  Graded(row) \/ Graded(ent)
  BY DEF Graded, Overlay
LEMMA GradesKept ==
  ASSUME Typed, KeysInv, GradesInv, [Next]_vars, NEW r \in Requests, Moves(r),
         \A a \in Started' : Graded(attempts'[a]) =>
            a \in Started /\ (Graded(attempts[a]) \/ Complete(a)),
         Busy(req'[r]) => CompleteSlot(req'[r])
  PROVE  GradesInv'
<1>1. \A a : Complete(a) => Complete(a)'
  BY CompleteKept
<1>2. \A a \in Started' : Graded(attempts'[a]) => Complete(a)'
  BY <1>1 DEF GradesInv
<1>3. ASSUME NEW t \in Requests, Busy(req'[t]) PROVE CompleteSlot(req[t])'
  <2>1. CompleteSlot(req'[t])
    BY <1>3 DEF Moves, GradesInv
  <2> QED BY <1>1, <2>1 DEF CompleteSlot, Graded
<1> QED BY <1>2, <1>3 DEF GradesInv, Busy, Graded

LEMMA GradesStep == Typed /\ KeysInv /\ GradesInv /\ [Next]_vars => GradesInv'
<1> SUFFICES ASSUME Typed, KeysInv, GradesInv, [Next]_vars PROVE GradesInv'
  OBVIOUS
<1>1. ASSUME UNCHANGED <<test, attempts, answers, req>> PROVE GradesInv'
  BY <1>1 DEF GradesInv, CompleteSlot, Complete, Graded, RowsOf, IsChild, Started, Busy,
              CompulsoryQuestions
<1>2. ASSUME NEW r \in Requests, UNCHANGED attempts, Moves(r),
             Busy(req'[r]) => CompleteSlot(req'[r])
      PROVE  GradesInv'
  BY <1>2, SameAttempts, GradesKept
<1>3. ASSUME NEW r \in Requests, UNCHANGED attempts, Finish(r) PROVE GradesInv'
  BY <1>2, <1>3, FinishMoves DEF IdleSlot, Busy
<1>4. ASSUME NEW r \in Requests, StartBegin(r) \/ StartStep(r) PROVE GradesInv'
  <2>1. CASE StartCreate(r)
    <3>1. Finish(r) /\ \E a \in AttemptIds \ Started :
             attempts' = [attempts EXCEPT ![a] = [NoRow EXCEPT !.attempt = req[r].count + 1]]
      BY <2>1 DEF StartCreate, Opened
    <3>2. PICK a \in AttemptIds \ Started :
             attempts' = [attempts EXCEPT ![a] = [NoRow EXCEPT !.attempt = req[r].count + 1]]
      BY <3>1
    <3>3. ~Graded(attempts'[a])
      BY <3>2 DEF Graded, NoRow, Typed, TypeOK
    <3>4. \A b \in AttemptIds : b # a => attempts'[b] = attempts[b]
      BY <3>2 DEF Typed, TypeOK
    <3>5. Moves(r) /\ ~Busy(req'[r])
      BY <3>1, FinishMoves DEF IdleSlot, Busy
    <3> QED BY <3>3, <3>4, <3>5, GradesKept DEF Started
  <2>2. CASE StartBegin(r)
    BY <1>2, <2>2 DEF StartBegin, Becomes, Moves, Busy, Typed, TypeOK, Slot, dbvars
  <2>3. CASE StartFind(r) /\ ~Finish(r)
    <3>1. /\ Becomes(r, [req[r] EXCEPT !.clear = TRUE])
          /\ req[r].pc = "start" /\ UNCHANGED dbvars
      BY <2>3 DEF StartFind
    <3> QED BY <1>2, <3>1 DEF Becomes, Moves, Busy, Typed, TypeOK, Slot, dbvars
  <2>4. CASE StartCount(r)
    BY <1>2, <2>4 DEF StartCount, Becomes, Moves, Busy, Typed, TypeOK, Slot, dbvars
  <2>5. CASE StartRefuse(r) \/ (StartFind(r) /\ Finish(r))
    BY <1>3, <2>5 DEF StartRefuse, StartFind, dbvars
  <2> QED BY <1>4, <2>1, <2>2, <2>3, <2>4, <2>5 DEF StartStep
<1>5. ASSUME NEW r \in Requests, AnswerCommit(r) \/ SaveWrite(r) PROVE GradesInv'
  <2> DEFINE q == req[r]
  <2>1. /\ q \in Slot /\ HoldsAttempt(q) /\ Busy(q) /\ Finish(r)
        /\ attempts' = [attempts EXCEPT ![q.att] = Overlay(@, q.ent, q.dirty)]
    BY <1>5 DEF Typed, TypeOK, SlotsHold, AnswerCommit, SaveWrite, Busy
  <2>2. q.att \in Started /\ q.ent \in AttemptRow /\ attempts[q.att] \in AttemptRow
    BY <2>1, RowTyped DEF HoldsAttempt, Busy, Slot
  <2>3. Started' = Started
    BY <2>1, <2>2, SaveTyped
  <2>4. CompleteSlot(q)
    BY <2>1 DEF GradesInv
  <2>5. ASSUME NEW a \in Started, Graded(attempts'[a])
        PROVE  Graded(attempts[a]) \/ Complete(a)
    <3>1. CASE a = q.att
      <4>1. attempts'[a] = Overlay(attempts[a], q.ent, q.dirty)
        BY <2>1, <3>1 DEF Typed, TypeOK, Started
      <4> QED BY <2>2, <2>4, <2>5, <3>1, <4>1, OverlayGraded DEF CompleteSlot
    <3>2. CASE a # q.att
      BY <2>1, <2>5, <3>2 DEF Typed, TypeOK, Started
    <3> QED BY <3>1, <3>2
  <2>6. Moves(r) /\ ~Busy(req'[r])
    BY <2>1, FinishMoves DEF IdleSlot, Busy
  <2> QED BY <2>3, <2>5, <2>6, GradesKept
<1>6. ASSUME NEW r \in Requests, Takes(r) PROVE GradesInv'
  <2>1. CompleteSlot(req'[r]) /\ Moves(r) /\ UNCHANGED attempts
    BY <1>6 DEF Takes, CompleteSlot, GradesInv, dbvars
  <2> QED BY <1>2, <2>1
<1>7. ASSUME NEW r \in Requests, Works(r), req'[r].ent = req[r].ent,
             req'[r].pc # "submit.score",
             req'[r].pc \in {"review.read", "review.answers", "lms"} =>
                req[r].pc \in {"review.read", "review.answers", "lms"}
      PROVE  GradesInv'
  <2>1. CompleteSlot(req'[r]) /\ Moves(r) /\ UNCHANGED attempts
    BY <1>7 DEF Works, CompleteSlot, GradesInv
  <2> QED BY <1>2, <2>1
<1>8. ASSUME NEW r \in Requests, SubmitValidate(r), ~Finish(r) PROVE GradesInv'
  <2>1. /\ Works(r) /\ req'[r].ent = req[r].ent
        /\ req'[r].pc \in {"save.write", "submit.score", "save.reload", "review.answers"}
        /\ req'[r].pc = "review.answers" => req[r].pc = "review.answers"
    BY <1>8, KeepsShape
  <2>2. Complete(req[r].att)
    BY <1>8, ValidatedComplete
  <2>3. CompleteSlot(req'[r]) /\ Moves(r) /\ UNCHANGED attempts
    BY <2>1, <2>2 DEF Works, CompleteSlot, GradesInv
  <2> QED BY <1>2, <2>3
<1>9. ASSUME NEW r \in Requests, SubmitScore(r) PROVE GradesInv'
  <2>1. /\ Works(r) /\ req[r].pc = "submit.score" /\ req'[r].pc = "save.reload"
    BY <1>9, SubmitScoreShape
  <2>2. CompleteSlot(req'[r]) /\ Moves(r) /\ UNCHANGED attempts
    BY <2>1 DEF Works, CompleteSlot, GradesInv
  <2> QED BY <1>2, <2>2
<1>10. ASSUME NEW r \in Requests, ReviewScore(r) \/ ImportScore(r) PROVE GradesInv'
  <2>1. /\ Works(r) /\ req[r].pc = "review.answers" /\ req'[r].pc \in {"save.reload", "lms"}
        /\ req'[r].ent.status = req[r].ent.status
    BY <1>10, ReviewScoreShape
  <2>2. req[r].ent.status = "S" /\ Complete(req[r].att)
    BY <2>1 DEF Works, GradesInv, CompleteSlot, Graded
  <2>3. CompleteSlot(req'[r]) /\ Moves(r) /\ UNCHANGED attempts
    BY <2>1, <2>2 DEF Works, CompleteSlot
  <2> QED BY <1>2, <2>3
<1>11. ASSUME NEW r \in Requests, AnswerRead(r) \/ AnswerStage(r) \/ ReviewRead(r)
       PROVE  GradesInv'
  BY <1>7, <1>11, AnswerReadShape, AnswerStageShape, ReviewReadShape
<1>12. ASSUME NEW r \in Requests,
              \/ SaveReload(r) \/ ReviewAnswer(r) \/ ImportAnswer(r)
              \/ (LmsDone(r) \/ LmsFailed(r)) /\ ~Finish(r)
       PROVE  GradesInv'
  <2>1. req'[r].pc # "submit.score"
    BY <1>12 DEF SaveReload, ReviewAnswer, ImportAnswer, LmsDone, LmsFailed, Becomes,
                 Typed, TypeOK, Slot
  <2> QED BY <1>7, <1>12, <2>1, KeepsShape
<1>13. ASSUME NEW r \in Requests,
              \/ ImportMissing(r) \/ Abort(r)
              \/ (SubmitValidate(r) \/ LmsDone(r) \/ LmsFailed(r)) /\ Finish(r)
       PROVE  GradesInv'
  BY <1>3, <1>13 DEF ImportMissing, Abort, SubmitValidate, LmsDone, LmsFailed, dbvars
<1>14. ASSUME NEW r \in Requests,
              \/ Begin(r) \/ StartStep(r) \/ AnswerStep(r) \/ SubmitStep(r)
              \/ ReviewStep(r) \/ SaveStep(r) \/ Abort(r)
       PROVE  GradesInv'
  BY <1>4, <1>5, <1>6, <1>8, <1>9, <1>10, <1>11, <1>12, <1>13, <1>14, TakesShape
  DEF Begin, AnswerStep, SubmitStep, ReviewStep, SaveStep
<1>15. CASE UNCHANGED vars \/ TimePasses \/ SetTestStatus
            \/ \E m \in lmsPosted : LmsArrives(m) \/ LmsLost(m)
  BY <1>1, <1>15 DEF vars, dbvars, TimePasses, SetTestStatus, LmsArrives, LmsLost
<1> QED BY <1>14, <1>15 DEF Next

\* However requests overlap, an attempt that is submitted, scored or reviewed has
\* an answer to every compulsory question that is not a child question.
THEOREM GradedAreComplete == Spec => []GradedOnlyWhenComplete
<1>1. GradesInv => GradedOnlyWhenComplete
  BY DEF GradesInv, GradedOnlyWhenComplete, Complete
<1> QED BY <1>1, TypedInit, TypedStep, KeysInit, KeysStep, GradesStep, PTL DEF Spec

-----------------------------------------------------------------------------
(***************************************************************************)
(* One request at a time: what Attempts guarantees to a client that waits  *)
(* for every answer, whatever fails.  Each handler as a whole does to the  *)
(* attempts what one step of AttemptLifecycle does.                        *)
(***************************************************************************)
OneAtATime == Overlap = {}

(***************************************************************************)
(* What a request in flight has in hand, no other being able to change it. *)
(***************************************************************************)
MayWrite(row) == row.status = "I" \/ test.allowResubmission

\* A row that says it is reviewed has the result it earned.
Earned(row) ==
    row.reviewStatus = "R" =>
        \/ row.score = NULL /\ row.result = NULL
        \/ row.score # NULL /\ row.result = ResultFor(row.score)

\* The score of row is that of the answers of attempt a.
Totalled(row, a) ==
    row.score = TotalScore(a) \/ (IsFormStyle(ResolvedTest) /\ row.score = NULL)

\* What a submission or a review may make of a row.
Follows(row, ent) ==
    /\ ent.status = "S"
    /\ \/ row.status = "S" /\ ent.reviewStatus \in {"U", "R"}
       \/ MayWrite(row) /\ ent.reviewStatus \in {"P", "R", row.reviewStatus}

\* Rows to be written belong to the attempt, each under an id of its own, and
\* rows to be deleted belong to it.
Staged(s) ==
    /\ \A x \in s.update \cup s.insert : x.attempt = s.att
    /\ \A x, y \in s.update \cup s.insert : x.id = y.id => x = y
    /\ \A x \in answers : x.id \in s.drop => x.attempt = s.att

\* Rows that differ in what a review changes.
SameAnswer(x, y) == SameKey(x, y) /\ x.opens = y.opens

StartOK(s) ==
    /\ s.kind = "start" /\ s.att = NULL
    /\ s.count # NULL => s.count = Cardinality(Started)
    /\ s.clear => \A a \in Started : ~InTheWay(attempts[a])

AnswerOK(s) ==
    /\ s.kind = "answer" /\ s.ent = attempts[s.att] /\ MayWrite(s.ent)
    /\ s.pc = "answer.stage" => s.seen = RowsOf(s.att)
    /\ s.pc = "answer.commit" => Staged(s)

SubmitOK(s) == s.kind = "submit" /\ s.ent = attempts[s.att] /\ MayWrite(s.ent)

ReviewOK(s) ==
    /\ s.kind \in {"review", "import"} /\ s.ent = attempts[s.att] /\ s.ent.status = "S"
    /\ s.pc = "review.answers" =>
          \A x \in s.seen : x.attempt = s.att /\ \E y \in answers : SameAnswer(x, y)

SaveOK(s) ==
    /\ s.kind \in {"submit", "review", "import"}
    /\ Follows(attempts[s.att], s.ent)
    /\ Earned(s.ent) /\ Totalled(s.ent, s.att)
    /\ s.pc = "save.write" => s.dirty = Dirty(s.ent, attempts[s.att])

SlotOK(s) ==
    /\ s.pc = "idle" => s = IdleSlot
    /\ s.pc = "start" => StartOK(s)
    /\ s.pc \in {"answer.read", "answer.stage", "answer.commit"} => AnswerOK(s)
    /\ s.pc \in {"submit.validate", "submit.score"} => SubmitOK(s)
    /\ s.pc \in {"review.read", "review.answers"} => ReviewOK(s)
    /\ s.pc \in {"lms", "save.reload", "save.write"} => SaveOK(s)

Alone ==
    \A r, t \in Requests : req[r].pc # "idle" /\ req[t].pc # "idle" => r = t

(***************************************************************************)
(* What is true of the rows at every step of a request.                    *)
(***************************************************************************)
RowsOK ==
    \A a \in Started : /\ Earned(attempts[a])
                       /\ attempts[a].status = "I" => attempts[a].reviewStatus = "P"

OneInTheWay ==
    \A a, b \in Started : InTheWay(attempts[a]) /\ InTheWay(attempts[b]) => a = b

UniqueIds == \A x, y \in answers : x.id = y.id => x = y

UnderReview(a) == \E r \in Requests : req[r].att = a /\ req[r].kind \in {"review", "import"}

ScoresOK ==
    \A a \in Started \ outdated :
        attempts[a].status = "S" /\ ~UnderReview(a) => Totalled(attempts[a], a)

SerialInv ==
    /\ Alone /\ \A r \in Requests : SlotOK(req[r])
    /\ RowsOK /\ NumbersSequential /\ OneInTheWay
    /\ UniqueIds /\ ScoresOK

-----------------------------------------------------------------------------
LEMMA BeginsAlone ==
  ASSUME OneAtATime, NEW r \in Requests, NEW k, MayBegin(r, k)
  PROVE  \A t \in Requests : req[t].pc = "idle"
  BY DEF OneAtATime, MayBegin

LEMMA SerialInit == Init => SerialInv
<1> SUFFICES ASSUME Init PROVE SerialInv
  OBVIOUS
<1>1. Started = {} /\ Cardinality(Started) = 0
  BY FS_EmptySet DEF Init, Started
<1>2. test.attempts \in Nat
  BY TypedInit, AttemptsNat
<1>3. NumbersSequential
  BY <1>1, <1>2 DEF NumbersSequential
<1>4. \A r \in Requests : req[r] = IdleSlot
  BY DEF Init
<1>5. \A r \in Requests : req[r].pc = "idle"
  BY <1>4 DEF IdleSlot
<1>6. Alone /\ \A r \in Requests : SlotOK(req[r])
  BY <1>4, <1>5 DEF Alone, SlotOK
<1> QED BY <1>1, <1>3, <1>6 DEF SerialInv, Init, RowsOK, OneInTheWay, UniqueIds, ScoresOK

\* As long as one request is in flight at most, only its slot needs a look.
LEMMA SlotsKept ==
  ASSUME SerialInv, NEW r \in Requests, Moves(r),
         req[r].pc # "idle" \/ \A t \in Requests : req[t].pc = "idle",
         SlotOK(req[r])'
  PROVE  (Alone /\ \A t \in Requests : SlotOK(req[t]))'
<1>1. ASSUME NEW t \in Requests, t # r PROVE req'[t] = IdleSlot
  BY <1>1 DEF SerialInv, Alone, SlotOK, Moves
<1>2. \A t \in Requests : t # r => req'[t].pc = "idle"
  BY <1>1 DEF IdleSlot
<1>3. ASSUME NEW t \in Requests PROVE SlotOK(req[t])'
  <2>1. CASE t = r
    BY <2>1
  <2>2. CASE t # r
    BY <1>1, <1>2, <2>2 DEF SlotOK
  <2> QED BY <2>1, <2>2
<1> QED BY <1>2, <1>3 DEF Alone

LEMMA SameTotals ==
  ASSUME NEW a, RowsOf(a)' = RowsOf(a) PROVE TotalScore(a)' = TotalScore(a)
  BY DEF TotalScore

LEMMA SameRows == ASSUME UNCHANGED answers, NEW a PROVE RowsOf(a)' = RowsOf(a)
  BY DEF RowsOf

\* Totalled and Earned depend on the row, the answers and the test alone.
LEMMA SameTotalled ==
  ASSUME test' = test, NEW a, RowsOf(a)' = RowsOf(a), Totalled(attempts[a], a),
         attempts'[a] = attempts[a]
  PROVE  Totalled(attempts[a], a)'
<1>1. TotalScore(a)' = TotalScore(a)
  BY SameTotals
<1>2. IsFormStyle(ResolvedTest)' = IsFormStyle(ResolvedTest)
  BY DEF IsFormStyle, ResolvedTest
<1> HIDE DEF TotalScore
<1> QED BY <1>1, <1>2 DEF Totalled

\* A step that leaves the rows alone, if it does not leave an attempt that was
\* under review behind.
LEMMA SerialKept ==
  ASSUME Typed, SerialInv, NEW r \in Requests, Moves(r),
         req[r].pc # "idle" \/ \A t \in Requests : req[t].pc = "idle",
         SlotOK(req[r])', UNCHANGED <<test, attempts, answers>>,
         outdated \subseteq outdated',
         req[r].kind \in {"review", "import"} =>
            \/ req[r].att \in outdated'
            \/ req'[r].att = req[r].att /\ req'[r].kind \in {"review", "import"}
  PROVE  SerialInv'
<1>1. (Alone /\ \A t \in Requests : SlotOK(req[t]))'
  BY SlotsKept
<1>2. Started' = Started
  BY SameAttempts
<1>3. (RowsOK /\ NumbersSequential /\ OneInTheWay /\ UniqueIds)'
  BY <1>2 DEF SerialInv, RowsOK, Earned, ResultFor, NumbersSequential, OneInTheWay, InTheWay,
              UniqueIds
<1>4. ScoresOK'
  <2> SUFFICES ASSUME NEW a \in Started, a \notin outdated', attempts[a].status = "S",
                      ~UnderReview(a)'
               PROVE  Totalled(attempts[a], a)'
    BY <1>2 DEF ScoresOK
  <2>1. ~UnderReview(a)
    BY DEF UnderReview, Moves
  <2>2. Totalled(attempts[a], a)
    BY <2>1 DEF SerialInv, ScoresOK
  <2> QED BY <2>2, SameRows, SameTotalled
<1> QED BY <1>1, <1>3, <1>4 DEF SerialInv

LEMMA SerialFinished ==
  ASSUME Typed, SerialInv, NEW r \in Requests, req[r].pc # "idle", Finish(r),
         UNCHANGED <<test, attempts, answers>>,
         outdated' = outdated \/ outdated' = outdated \cup {req[r].att},
         req[r].kind \in {"review", "import"} => req[r].att \in outdated'
  PROVE  SerialInv'
<1>1. Moves(r) /\ req'[r] = IdleSlot
  BY FinishMoves
<1>2. SlotOK(req[r])'
  BY <1>1 DEF SlotOK, IdleSlot
<1> QED BY <1>1, <1>2, SerialKept

\* Nothing that the invariant mentions changes.
LEMMA SerialStutters ==
  ASSUME SerialInv, UNCHANGED <<test, attempts, answers, req, outdated>>
  PROVE  SerialInv'
<1>1. \A a : TotalScore(a)' = TotalScore(a) /\ RowsOf(a)' = RowsOf(a)
  BY SameRows, SameTotals
<1>2. Started' = Started
  BY SameAttempts
<1>3. IsFormStyle(ResolvedTest)' = IsFormStyle(ResolvedTest)
  BY DEF IsFormStyle, ResolvedTest
<1> HIDE DEF TotalScore, RowsOf, Started
<1>4. ASSUME NEW r \in Requests PROVE SlotOK(req[r])'
  BY <1>1, <1>2, <1>3 DEF SerialInv, SlotOK, StartOK, AnswerOK, SubmitOK, ReviewOK, SaveOK,
     InTheWay, MayWrite, Staged, Follows, Earned, ResultFor, Totalled
<1>5. (Alone /\ RowsOK /\ NumbersSequential /\ OneInTheWay /\ UniqueIds)'
  BY <1>2 DEF SerialInv, Alone, RowsOK, Earned, ResultFor, NumbersSequential, OneInTheWay,
              InTheWay, UniqueIds
<1>6. ScoresOK'
  BY <1>1, <1>2, <1>3 DEF SerialInv, ScoresOK, Totalled, UnderReview
<1> QED BY <1>4, <1>5, <1>6 DEF SerialInv

-----------------------------------------------------------------------------
(***************************************************************************)
(* startAttempt.                                                           *)
(***************************************************************************)
LEMMA SerialStartQuiet ==
  ASSUME OneAtATime, Typed, SerialInv, NEW r \in Requests,
         StartBegin(r) \/ StartFind(r) \/ StartCount(r) \/ StartRefuse(r)
  PROVE  SerialInv'
<1>0. req[r] \in Slot /\ SlotOK(req[r])
  BY DEF Typed, TypeOK, SerialInv
<1>1. /\ UNCHANGED <<test, attempts, answers, outdated>>
      /\ Started' = Started
  BY SameAttempts DEF StartBegin, StartFind, StartCount, StartRefuse, dbvars
<1>2. ASSUME Moves(r), req'[r].pc = "start", StartOK(req[r])',
             \/ \A t \in Requests : req[t].pc = "idle"
             \/ req[r].pc = "start"
      PROVE  SerialInv'
  <2>1. SlotOK(req[r])'
    BY <1>2 DEF SlotOK
  <2>2. req[r].kind \in {NULL, "start"}
    BY <1>0, <1>2 DEF SlotOK, StartOK, IdleSlot
  <2>3. req[r].kind \notin {"review", "import"}
    BY <2>2, ParamsAssumption DEF Kinds
  <2> QED BY <1>1, <1>2, <2>1, <2>3, SerialKept
<1>3. ASSUME Finish(r), req[r].pc = "start" PROVE SerialInv'
  BY <1>0, <1>1, <1>3, SerialFinished DEF SlotOK, StartOK
<1>4. CASE StartBegin(r)
  <2>1. /\ \A t \in Requests : req[t].pc = "idle"
        /\ Becomes(r, [req[r] EXCEPT !.kind = "start", !.pc = "start"])
        /\ req[r] = IdleSlot
    BY <1>0, <1>4, BeginsAlone DEF StartBegin, SlotOK
  <2>2. Moves(r) /\ req'[r] = [IdleSlot EXCEPT !.kind = "start", !.pc = "start"]
    BY <2>1 DEF Becomes, Moves, Typed, TypeOK
  <2>3. req'[r].pc = "start" /\ StartOK(req[r])'
    BY <2>2 DEF StartOK, IdleSlot
  <2> QED BY <1>2, <2>1, <2>2, <2>3
<1>5. CASE StartFind(r) /\ ~Finish(r)
  <2>1. /\ Becomes(r, [req[r] EXCEPT !.clear = TRUE])
        /\ req[r].pc = "start" /\ \A a \in Started : ~InTheWay(attempts[a])
    BY <1>5 DEF StartFind
  <2>2. Moves(r) /\ req'[r] = [req[r] EXCEPT !.clear = TRUE]
    BY <2>1 DEF Becomes, Moves, Typed, TypeOK
  <2>3. req'[r].pc = "start" /\ StartOK(req[r])'
    BY <1>0, <1>1, <2>1, <2>2 DEF StartOK, SlotOK, Slot, InTheWay
  <2> QED BY <1>2, <2>1, <2>2, <2>3
<1>6. CASE StartCount(r)
  <2>1. Becomes(r, [req[r] EXCEPT !.count = Cardinality(Started)]) /\ req[r].pc = "start"
    BY <1>6 DEF StartCount
  <2>2. Moves(r) /\ req'[r] = [req[r] EXCEPT !.count = Cardinality(Started)]
    BY <2>1 DEF Becomes, Moves, Typed, TypeOK
  <2>3. req'[r].pc = "start" /\ StartOK(req[r])'
    BY <1>0, <1>1, <2>1, <2>2 DEF StartOK, SlotOK, Slot, InTheWay
  <2> QED BY <1>2, <2>1, <2>2, <2>3
<1>7. CASE Finish(r) /\ (StartFind(r) \/ StartRefuse(r))
  BY <1>3, <1>7 DEF StartFind, StartRefuse
<1> QED BY <1>4, <1>5, <1>6, <1>7 DEF StartRefuse

\* What StartCreate does: one attempt more, numbered by what was counted.
LEMMA CreateShape ==
  ASSUME Typed, NEW r \in Requests, SlotOK(req[r]), StartCreate(r)
  PROVE  \E a \in AttemptIds \ Started :
            /\ Started' = Started \cup {a}
            /\ attempts' = [attempts EXCEPT ![a] =
                               [NoRow EXCEPT !.attempt = Cardinality(Started) + 1]]
            /\ Cardinality(Started) < test.attempts
            /\ \A b \in Started : ~InTheWay(attempts[b])
            /\ Cardinality(Started') = Cardinality(Started) + 1
<1>1. /\ req[r].pc = "start" /\ req[r].clear /\ req[r].count # NULL
      /\ req[r].count < test.attempts /\ StartOK(req[r])
  BY DEF StartCreate, SlotOK
<1>2. PICK a \in AttemptIds \ Started :
         attempts' = [attempts EXCEPT ![a] = [NoRow EXCEPT !.attempt = req[r].count + 1]]
  BY DEF StartCreate, Opened
<1>3. req[r].count = Cardinality(Started) /\ \A b \in Started : ~InTheWay(attempts[b])
  BY <1>1 DEF StartOK
<1> DEFINE row == [NoRow EXCEPT !.attempt = Cardinality(Started) + 1]
<1>4. row \in AttemptRow
  BY FS_CardinalityType DEF Typed, NoRow, AttemptRow
<1>5. row # NULL /\ attempts' = [attempts EXCEPT ![a] = row]
  BY <1>2, <1>3, <1>4, ParamsAssumption
<1> HIDE DEF row
<1>6. Started' = Started \cup {a}
  BY <1>5 DEF Started, Typed, TypeOK
<1>7. Cardinality(Started') = Cardinality(Started) + 1
  BY <1>6, FS_AddElement DEF Typed
<1> QED BY <1>1, <1>3, <1>5, <1>6, <1>7 DEF row

LEMMA SerialCreate ==
  ASSUME Typed, SerialInv, NEW r \in Requests, StartCreate(r)
  PROVE  SerialInv'
<1>0. req[r] \in Slot /\ SlotOK(req[r])
  BY DEF Typed, TypeOK, SerialInv
<1>1. /\ Finish(r) /\ UNCHANGED <<test, answers, outdated>>
      /\ req[r].pc = "start" /\ req[r].kind = "start"
  BY <1>0 DEF StartCreate, Opened, SlotOK, StartOK
<1>2. PICK a \in AttemptIds \ Started :
         /\ Started' = Started \cup {a}
         /\ attempts' = [attempts EXCEPT ![a] =
                            [NoRow EXCEPT !.attempt = Cardinality(Started) + 1]]
         /\ Cardinality(Started) < test.attempts
         /\ \A b \in Started : ~InTheWay(attempts[b])
         /\ Cardinality(Started') = Cardinality(Started) + 1
  BY <1>0, CreateShape
<1>3. /\ attempts'[a] = [NoRow EXCEPT !.attempt = Cardinality(Started) + 1]
      /\ \A b \in Started : attempts'[b] = attempts[b]
  BY <1>2 DEF Typed, TypeOK, Started
<1>4. (Alone /\ \A t \in Requests : SlotOK(req[t]))'
  <2>1. Moves(r) /\ req'[r] = IdleSlot
    BY <1>1, FinishMoves
  <2>2. SlotOK(req[r])'
    BY <2>1 DEF SlotOK, IdleSlot
  <2> QED BY <1>1, <2>1, <2>2, SlotsKept
<1>5. RowsOK'
  <2> SUFFICES ASSUME NEW b \in Started'
               PROVE  /\ Earned(attempts[b])'
                      /\ attempts'[b].status = "I" => attempts'[b].reviewStatus = "P"
    BY DEF RowsOK
  <2>1. CASE b = a
    BY <1>3, <2>1 DEF Earned, NoRow
  <2>2. CASE b \in Started
    BY <1>1, <1>3, <2>2 DEF SerialInv, RowsOK, Earned, ResultFor
  <2> QED BY <1>2, <2>1, <2>2
<1>6. NumbersSequential'
  <2>1. /\ Cardinality(Started) \in Nat /\ test.attempts \in Nat
        /\ {attempts[b].attempt : b \in Started} = 1 .. Cardinality(Started)
    BY AttemptsNat, FS_CardinalityType DEF Typed, SerialInv, NumbersSequential
  <2>2. attempts'[a].attempt = Cardinality(Started) + 1
    BY <1>3 DEF NoRow
  <2>3. {attempts'[b].attempt : b \in Started'}
           = {attempts[b].attempt : b \in Started} \cup {Cardinality(Started) + 1}
    BY <1>2, <1>3, <2>2
  <2>4. {attempts'[b].attempt : b \in Started'} = 1 .. Cardinality(Started) + 1
    BY <2>1, <2>3
  <2> QED BY <1>1, <1>2, <2>1, <2>4 DEF NumbersSequential
<1>7. OneInTheWay'
  BY <1>1, <1>2, <1>3 DEF OneInTheWay, InTheWay
<1>8. UniqueIds'
  BY <1>1 DEF SerialInv, UniqueIds
<1>9. ScoresOK'
  <2> SUFFICES ASSUME NEW b \in Started', b \notin outdated', attempts'[b].status = "S",
                      ~UnderReview(b)'
               PROVE  Totalled(attempts[b], b)'
    BY DEF ScoresOK
  <2>1. b \in Started
    BY <1>2, <1>3 DEF NoRow
  <2>2. ~UnderReview(b)
    BY <1>1, FinishMoves DEF UnderReview, Moves
  <2>3. Totalled(attempts[b], b)
    BY <1>1, <1>3, <2>1, <2>2 DEF SerialInv, ScoresOK
  <2> QED BY <1>1, <1>3, <2>1, <2>3, SameRows, SameTotalled
<1> QED BY <1>4, <1>5, <1>6, <1>7, <1>8, <1>9 DEF SerialInv

-----------------------------------------------------------------------------
(***************************************************************************)
(* Requests that take up an attempt, and those that end without a trace.   *)
(***************************************************************************)
LEMMA SerialTakes ==
  ASSUME OneAtATime, Typed, SerialInv, NEW r \in Requests,
         \/ \E a \in AttemptIds, b \in Batches : AnswerBegin(r, a, b)
         \/ \E a \in AttemptIds : SubmitBegin(r, a)
         \/ \E a \in AttemptIds, v \in Reviews : ReviewBegin(r, a, v)
         \/ \E v \in Reviews : ImportBegin(r, v)
  PROVE  SerialInv'
<1>0. req[r] \in Slot /\ SlotOK(req[r])
  BY DEF Typed, TypeOK, SerialInv
<1>1. \A t \in Requests : req[t].pc = "idle"
  BY BeginsAlone DEF AnswerBegin, SubmitBegin, ReviewBegin, ImportBegin
<1>2. Takes(r)
  BY TakesShape
<1>3. /\ Moves(r) /\ UNCHANGED dbvars
      /\ req'[r].ent = attempts[req'[r].att] /\ req'[r].pc # "idle"
  BY <1>2 DEF Takes, Busy
<1>4. outdated' = outdated
  BY DEF AnswerBegin, SubmitBegin, ReviewBegin, ImportBegin
<1>5. req[r].kind = NULL
  BY <1>0, <1>1 DEF SlotOK, IdleSlot
<1>6. SlotOK(req[r])'
  <2>1. ASSUME NEW a \in AttemptIds, NEW b \in Batches, AnswerBegin(r, a, b)
        PROVE  SlotOK(req[r])'
    <3>1. /\ req'[r].pc = "answer.read" /\ req'[r].kind = "answer" /\ req'[r].att = a
          /\ MayWrite(attempts[a])
      BY <1>0, <2>1 DEF AnswerBegin, Becomes, Typed, TypeOK, Slot, MayWrite
    <3> QED BY <1>3, <3>1 DEF SlotOK, AnswerOK, MayWrite, dbvars
  <2>2. ASSUME NEW a \in AttemptIds, SubmitBegin(r, a) PROVE SlotOK(req[r])'
    <3>1. /\ req'[r].pc = "submit.validate" /\ req'[r].kind = "submit" /\ req'[r].att = a
      BY <1>0, <2>2 DEF SubmitBegin, Becomes, Typed, TypeOK, Slot
    <3>2. ResolvedTest.allowResubmission => test.allowResubmission
      <4>1. test \in Test
        BY ParamsAssumption DEF Typed, TypeOK
      <4> QED BY <4>1 DEF ResolvedTest, Test
    <3>3. MayWrite(attempts[a])
      BY <2>2, <3>2 DEF SubmitBegin, MayWrite
    <3> QED BY <1>3, <3>1, <3>3 DEF SlotOK, SubmitOK, MayWrite, dbvars
  <2>3. ASSUME \/ \E a \in AttemptIds, v \in Reviews : ReviewBegin(r, a, v)
               \/ \E v \in Reviews : ImportBegin(r, v)
        PROVE  SlotOK(req[r])'
    <3>1. req'[r].pc = "review.read" /\ req'[r].kind \in {"review", "import"}
      <4>1. ASSUME NEW a \in AttemptIds, NEW v \in Reviews, ReviewBegin(r, a, v)
            PROVE  req'[r].pc = "review.read" /\ req'[r].kind = "review"
        BY <1>0, <4>1 DEF ReviewBegin, Becomes, Typed, TypeOK, Slot
      <4>2. ASSUME NEW v \in Reviews, ImportBegin(r, v)
            PROVE  req'[r].pc = "review.read" /\ req'[r].kind = "import"
        <5>1. PICK a \in Newest(ImportCandidates) :
                 Becomes(r, [req[r] EXCEPT !.kind = "import", !.pc = "review.read",
                                           !.att = a, !.ent = attempts[a], !.review = v])
          BY <4>2 DEF ImportBegin
        <5> QED BY <1>0, <5>1 DEF Becomes, Typed, TypeOK, Slot
      <4> QED BY <2>3, <4>1, <4>2
    <3>2. req'[r].ent.status = "S"
      BY <1>2, <3>1 DEF Takes
    <3> QED BY <1>3, <3>1, <3>2 DEF SlotOK, ReviewOK, dbvars
  <2> QED BY <2>1, <2>2, <2>3
<1>7. req[r].kind \notin {"review", "import"}
  BY <1>5, ParamsAssumption DEF Kinds
<1> QED BY <1>1, <1>3, <1>4, <1>6, <1>7, SerialKept DEF dbvars

LEMMA SerialEnds ==
  ASSUME Typed, SerialInv, NEW r \in Requests, Finish(r),
         SubmitValidate(r) \/ ImportMissing(r) \/ LmsFailed(r) \/ Abort(r)
  PROVE  SerialInv'
<1>0. req[r] \in Slot /\ SlotOK(req[r])
  BY DEF Typed, TypeOK, SerialInv
<1>1. UNCHANGED <<test, attempts, answers>> /\ req[r].pc # "idle"
  BY DEF SubmitValidate, ImportMissing, LmsFailed, Abort, dbvars
<1>2. CASE SubmitValidate(r)
  <2>1. req[r].kind = "submit" /\ outdated' = outdated
    BY <1>0, <1>2 DEF SubmitValidate, SlotOK, SubmitOK
  <2> QED BY <1>1, <2>1, SerialFinished
<1>3. CASE ImportMissing(r)
  <2>1. outdated' = outdated \cup {req[r].att}
    BY <1>3 DEF ImportMissing
  <2> QED BY <1>1, <2>1, SerialFinished
<1>4. CASE LmsFailed(r)
  <2>1. req[r].kind # "review"
    <3>1. ~Becomes(r, [req[r] EXCEPT !.pc = "save.reload"])
      BY <1>0 DEF Finish, Becomes, IdleSlot, Typed, TypeOK, Slot
    <3> QED BY <1>4, <3>1 DEF LmsFailed
  <2>2. outdated' = outdated \cup {req[r].att}
    BY <1>4, <2>1 DEF LmsFailed
  <2> QED BY <1>1, <2>2, SerialFinished
<1>5. CASE Abort(r)
  <2>1. IF req[r].kind \in {"review", "import"} THEN outdated' = outdated \cup {req[r].att}
        ELSE outdated' = outdated
    BY <1>5 DEF Abort
  <2> QED BY <1>1, <2>1, SerialFinished
<1> QED BY <1>2, <1>3, <1>4, <1>5

-----------------------------------------------------------------------------
(***************************************************************************)
(* submitAnswer.                                                           *)
(***************************************************************************)
\* Row z is row with what batch b gives for its question.
RewriteOf(z, row, b) ==
    /\ SameKey(z, row)
    /\ \E x \in LastGiven(b, row.question) :
          z = [row EXCEPT !.opens = x.opens, !.score = Scored(x).score,
                          !.reviewStatus = Scored(x).reviewStatus]

LEMMA RewrittenFrom ==
  ASSUME NEW rows \in SUBSET AnswerRow, NEW b, NEW z \in Rewritten(rows, b)
  PROVE  \E row \in rows : RewriteOf(z, row, b)
<1>1. PICK row \in rows :
         z \in {[row EXCEPT !.opens = x.opens, !.score = Scored(x).score,
                            !.reviewStatus = Scored(x).reviewStatus] :
                   x \in LastGiven(b, row.question)}
  BY Zenon DEF Rewritten
<1>2. PICK x \in LastGiven(b, row.question) :
         z = [row EXCEPT !.opens = x.opens, !.score = Scored(x).score,
                         !.reviewStatus = Scored(x).reviewStatus]
  BY <1>1
<1>3. SameKey(z, row)
  BY <1>2 DEF SameKey, AnswerRow
<1> QED BY <1>2, <1>3 DEF RewriteOf

LEMMA LastIsOne ==
  ASSUME NEW b \in Seq(AnswerInput), NEW q, NEW x \in LastGiven(b, q), NEW y \in LastGiven(b, q)
  PROVE  x = y
<1>1. PICK i \in DOMAIN b : /\ x = b[i] /\ b[i].question = q
                            /\ \A j \in DOMAIN b : b[j].question = q => j <= i
  BY DEF LastGiven
<1>2. PICK k \in DOMAIN b : /\ y = b[k] /\ b[k].question = q
                            /\ \A j \in DOMAIN b : b[j].question = q => j <= k
  BY DEF LastGiven
<1>3. i <= k /\ k <= i /\ i \in Nat /\ k \in Nat
  BY <1>1, <1>2
<1> QED BY <1>1, <1>2, <1>3

LEMMA RewriteIsOne ==
  ASSUME NEW b \in Seq(AnswerInput), NEW row, NEW x, NEW y,
         RewriteOf(x, row, b), RewriteOf(y, row, b)
  PROVE  x = y
<1>1. PICK g \in LastGiven(b, row.question) :
         x = [row EXCEPT !.opens = g.opens, !.score = Scored(g).score,
                         !.reviewStatus = Scored(g).reviewStatus]
  BY DEF RewriteOf
<1>2. PICK h \in LastGiven(b, row.question) :
         y = [row EXCEPT !.opens = h.opens, !.score = Scored(h).score,
                         !.reviewStatus = Scored(h).reviewStatus]
  BY DEF RewriteOf
<1>3. g = h
  BY LastIsOne
<1> QED BY <1>1, <1>2, <1>3

LEMMA SerialStage ==
  ASSUME Typed, KeysInv, SerialInv, NEW r \in Requests, AnswerStage(r)
  PROVE  Staged(req[r])'
<1> DEFINE a == req[r].att
           b == req[r].batch
           drop == CleanedUp(a, b, req[r].seen)
           existing == {x \in req[r].seen : x.question \in Asked(b)}
           known == {x.question : x \in existing}
           new == {i \in DOMAIN b : b[i].question \notin known}
           here == Ids(answers) \ drop
<1>0. req[r] \in Slot /\ SlotOK(req[r])
  BY DEF Typed, TypeOK, SerialInv
<1>1. /\ answers' = answers /\ req'[r].att = a /\ req'[r].drop = drop
  BY AnswerStageShape DEF Works
<1>2. PICK kept \in OneRowEach(existing), id \in [new -> FreshIds] :
         /\ \A i, j \in new : id[i] = id[j] => i = j
         /\ LET saved == Rewritten(kept, b)
            IN  /\ req'[r].update = {x \in saved : x.id \in here}
                /\ req'[r].insert = {x \in saved : x.id \notin here} \cup
                                    {NewRow(id[i], a, b[i]) : i \in new}
  BY AnswerStageShape
<1> DEFINE saved == Rewritten(kept, b)
           fresh == {NewRow(id[i], a, b[i]) : i \in new}
<1>3. req[r].seen = RowsOf(a) /\ b \in Seq(AnswerInput)
  BY <1>0 DEF AnswerStage, SlotOK, AnswerOK, Slot
<1>4. /\ kept \subseteq RowsOf(a) /\ kept \subseteq AnswerRow /\ kept \subseteq answers
      /\ \A x, y \in kept : x.question = y.question => x = y
  BY <1>3 DEF OneRowEach, RowsOf, Typed, TypeOK
<1>5. req'[r].update \cup req'[r].insert \subseteq saved \cup fresh
  BY <1>2
<1>6. ASSUME NEW x \in saved
      PROVE  x.attempt = a /\ \E row \in answers : SameKey(x, row)
  <2>1. PICK row \in kept : RewriteOf(x, row, b)
    BY <1>4, RewrittenFrom
  <2> QED BY <1>4, <2>1 DEF RewriteOf, SameKey, RowsOf
<1>7. ASSUME NEW x \in fresh PROVE x.attempt = a /\ x.id \in FreshIds
  BY DEF NewRow
<1>8. ASSUME NEW x \in saved, NEW y \in saved, x.id = y.id PROVE x = y
  <2>1. PICK u \in kept : RewriteOf(x, u, b)
    BY <1>4, RewrittenFrom
  <2>2. PICK v \in kept : RewriteOf(y, v, b)
    BY <1>4, RewrittenFrom
  <2>3. u = v
    BY <1>4, <1>8, <2>1, <2>2 DEF RewriteOf, SameKey, SerialInv, UniqueIds
  <2> QED BY <1>3, <2>1, <2>2, <2>3, RewriteIsOne
<1>9. ASSUME NEW x \in fresh, NEW y \in fresh, x.id = y.id PROVE x = y
  <2>1. PICK i \in new : x = NewRow(id[i], a, b[i])
    OBVIOUS
  <2>2. PICK j \in new : y = NewRow(id[j], a, b[j])
    OBVIOUS
  <2>3. id[i] = id[j]
    BY <1>9, <2>1, <2>2 DEF NewRow
  <2> HIDE DEF new
  <2> QED BY <1>2, <2>1, <2>2, <2>3
<1>10. \A row \in answers : row.id \notin FreshIds
  BY DEF FreshIds, Ids
<1>11. \A x \in answers : x.id \in drop => x.attempt = a
  <2> SUFFICES ASSUME NEW x \in answers, x.id \in drop PROVE x.attempt = a
    OBVIOUS
  <2>1. PICK y \in RowsOf(a) : y.id = x.id
    BY DEF CleanedUp
  <2> QED BY <2>1 DEF RowsOf, SerialInv, UniqueIds
<1> HIDE DEF saved, fresh, drop, a, b
<1>12. \A x, y \in saved \cup fresh : x.id = y.id => x = y
  BY <1>6, <1>7, <1>8, <1>9, <1>10 DEF SameKey
<1> QED BY <1>1, <1>5, <1>6, <1>7, <1>11, <1>12 DEF Staged

-----------------------------------------------------------------------------
(***************************************************************************)
(* Steps that change the slot of their request alone.                      *)
(***************************************************************************)
LEMMA SerialWorks ==
  ASSUME Typed, SerialInv, NEW r \in Requests, Works(r), UNCHANGED <<answers, outdated>>,
         req'[r].kind = req[r].kind, SlotOK(req[r])'
  PROVE  SerialInv'
  BY SerialKept DEF Works, Busy

LEMMA SerialRead ==
  ASSUME Typed, SerialInv, NEW r \in Requests, AnswerRead(r)
  PROVE  SerialInv'
<1>0. req[r] \in Slot /\ SlotOK(req[r]) /\ req[r].pc = "answer.read"
  BY DEF Typed, TypeOK, SerialInv, AnswerRead
<1>1. /\ Works(r) /\ UNCHANGED answers /\ req'[r].pc = "answer.stage"
      /\ req'[r].ent = req[r].ent /\ req'[r].seen = RowsOf(req[r].att)
  BY AnswerReadShape
<1>2. outdated' = outdated /\ req'[r].kind = req[r].kind
  BY <1>0 DEF AnswerRead, Becomes, Typed, TypeOK, Slot
<1>3. RowsOf(req[r].att)' = RowsOf(req[r].att)
  BY <1>1 DEF Works, RowsOf
<1>4. SlotOK(req[r])'
  BY <1>0, <1>1, <1>2, <1>3 DEF Works, SlotOK, AnswerOK, MayWrite
<1> QED BY <1>1, <1>2, <1>4, SerialWorks

LEMMA SerialStages ==
  ASSUME Typed, KeysInv, SerialInv, NEW r \in Requests, AnswerStage(r)
  PROVE  SerialInv'
<1>0. req[r] \in Slot /\ SlotOK(req[r]) /\ req[r].pc = "answer.stage"
  BY DEF Typed, TypeOK, SerialInv, AnswerStage
<1>1. /\ Works(r) /\ UNCHANGED answers /\ req'[r].pc = "answer.commit"
      /\ req'[r].ent = req[r].ent
  BY AnswerStageShape
<1>2. outdated' = outdated /\ req'[r].kind = req[r].kind
  <2>1. \E drop, update, insert, dirty :
           Becomes(r, [req[r] EXCEPT !.pc = "answer.commit", !.drop = drop,
                          !.update = update, !.insert = insert, !.dirty = dirty])
    BY DEF AnswerStage
  <2> QED BY <1>0, <2>1 DEF AnswerStage, Becomes, Typed, TypeOK, Slot
<1>3. Staged(req[r])'
  BY SerialStage
<1>4. SlotOK(req[r])'
  BY <1>0, <1>1, <1>2, <1>3 DEF Works, SlotOK, AnswerOK, MayWrite
<1> QED BY <1>1, <1>2, <1>4, SerialWorks

LEMMA SerialValidate ==
  ASSUME Typed, SerialInv, NEW r \in Requests, SubmitValidate(r)
  PROVE  SerialInv'
<1>0. req[r] \in Slot /\ SlotOK(req[r]) /\ req[r].pc = "submit.validate"
  BY DEF Typed, TypeOK, SerialInv, SubmitValidate
<1>1. CASE Finish(r)
  BY <1>1, SerialEnds
<1>2. CASE ~Finish(r)
  <2>1. Works(r) /\ req'[r].ent = req[r].ent
    BY <1>2, KeepsShape
  <2>2. Becomes(r, [req[r] EXCEPT !.pc = "submit.score"])
    BY <1>2 DEF SubmitValidate
  <2>3. /\ UNCHANGED <<answers, outdated>> /\ req'[r].kind = req[r].kind
        /\ req'[r].pc = "submit.score"
    BY <1>0, <2>2 DEF SubmitValidate, Becomes, Typed, TypeOK, Slot, dbvars
  <2>4. SlotOK(req[r])'
    BY <1>0, <2>1, <2>3 DEF Works, SlotOK, SubmitOK, MayWrite
  <2> QED BY <2>1, <2>3, <2>4, SerialWorks
<1> QED BY <1>1, <1>2

\* What the entity must be for a save to keep the invariant.
LEMMA SavableSlot ==
  ASSUME NEW r \in Requests, Works(r), UNCHANGED answers,
         req'[r].pc \in {"lms", "save.reload", "save.write"},
         req'[r].kind \in {"submit", "review", "import"},
         Follows(attempts[req[r].att], req'[r].ent), Earned(req'[r].ent),
         Totalled(req'[r].ent, req[r].att),
         req'[r].pc = "save.write" => req'[r].dirty = Dirty(req'[r].ent, attempts[req[r].att])
  PROVE  SlotOK(req[r])'
<1>1. RowsOf(req[r].att)' = RowsOf(req[r].att)
  BY DEF RowsOf, Works
<1>2. TotalScore(req[r].att)' = TotalScore(req[r].att)
  BY <1>1 DEF TotalScore
<1>3. IsFormStyle(ResolvedTest)' = IsFormStyle(ResolvedTest)
  BY DEF IsFormStyle, ResolvedTest, Works
<1> HIDE DEF TotalScore
<1>4. SaveOK(req[r])'
  BY <1>2, <1>3 DEF SaveOK, Follows, MayWrite, Earned, ResultFor, Totalled, Works, Dirty
<1> QED BY <1>4 DEF SlotOK

LEMMA SubmittedSaves ==
  ASSUME NEW row \in AttemptRow, MayWrite(row), Earned(row), NEW a,
         NEW ent, ent = Submitted(row, TotalScore(a))
  PROVE  Follows(row, ent) /\ Earned(ent) /\ Totalled(ent, a)
<1> DEFINE total == TotalScore(a)
           result == ResultFor(total)
           t == ResolvedTest
<1>1. total \in Int /\ total # NULL
  BY TotalTyped, ParamsAssumption
<1>2. CASE IsFormStyle(t)
  <2>1. ent = [row EXCEPT !.status = "S", !.score = NULL, !.result = NULL]
    BY <1>2 DEF Submitted
  <2>2. /\ ent.status = "S" /\ ent.score = NULL /\ ent.result = NULL
        /\ ent.reviewStatus = row.reviewStatus
    BY <2>1 DEF AttemptRow
  <2> QED BY <1>2, <2>2 DEF Follows, Earned, Totalled
<1>3. CASE ~IsFormStyle(t) /\ t.isObjective
  <2>1. ent = [row EXCEPT !.status = "S", !.score = total,
                          !.reviewStatus = "R", !.result = result]
    BY <1>3 DEF Submitted
  <2> HIDE DEF total, result
  <2>2. /\ ent.status = "S" /\ ent.score = total /\ ent.result = result
        /\ ent.reviewStatus = "R"
    BY <2>1 DEF AttemptRow
  <2> QED BY <1>1, <2>2 DEF Follows, Earned, Totalled, total, result
<1>4. CASE ~IsFormStyle(t) /\ ~t.isObjective
  <2>1. ent = [row EXCEPT !.status = "S", !.score = total, !.reviewStatus = "P"]
    BY <1>4 DEF Submitted
  <2> HIDE DEF total
  <2>2. ent.status = "S" /\ ent.score = total /\ ent.reviewStatus = "P"
    BY <2>1 DEF AttemptRow
  <2> QED BY <2>2 DEF Follows, Earned, Totalled, total
<1> QED BY <1>2, <1>3, <1>4

LEMMA SerialSubmit ==
  ASSUME Typed, SerialInv, NEW r \in Requests, SubmitScore(r)
  PROVE  SerialInv'
<1> DEFINE ent == Submitted(req[r].ent, TotalScore(req[r].att))
<1>0. /\ req[r] \in Slot /\ SlotOK(req[r]) /\ req[r].pc = "submit.score"
      /\ req[r].att \in Started
  BY DEF Typed, TypeOK, SerialInv, SubmitScore, SlotsHold, HoldsAttempt
<1>1. SubmitOK(req[r])
  BY <1>0 DEF SlotOK
<1>2. Works(r) /\ UNCHANGED answers /\ req'[r].pc = "save.reload"
  BY SubmitScoreShape
<1>3. Becomes(r, [req[r] EXCEPT !.pc = "save.reload", !.ent = ent])
  BY DEF SubmitScore
<1> HIDE DEF ent
<1>4. req'[r].ent = ent /\ req'[r].kind = "submit"
  BY <1>0, <1>1, <1>3 DEF Becomes, Typed, TypeOK, Slot, SubmitOK
<1>5. Follows(attempts[req[r].att], ent) /\ Earned(ent) /\ Totalled(ent, req[r].att)
  <2>1. attempts[req[r].att] \in AttemptRow /\ Earned(attempts[req[r].att])
    BY <1>0, RowTyped DEF SerialInv, RowsOK
  <2> QED BY <1>1, <2>1, SubmittedSaves DEF SubmitOK, ent
<1>6. SlotOK(req[r])'
  BY <1>2, <1>4, <1>5, SavableSlot
<1> QED BY <1>1, <1>2, <1>4, <1>6, SerialWorks DEF SubmitOK, SubmitScore

\* The steps that go on with an entity that is to be saved.
LEMMA SerialSaves ==
  ASSUME Typed, SerialInv, NEW r \in Requests,
         SaveReload(r) \/ ((LmsDone(r) \/ LmsFailed(r)) /\ ~Finish(r))
  PROVE  SerialInv'
<1>0. req[r] \in Slot /\ SlotOK(req[r]) /\ req[r].pc \in {"lms", "save.reload"}
  BY DEF Typed, TypeOK, SerialInv, SaveReload, LmsDone, LmsFailed
<1>1. SaveOK(req[r])
  BY <1>0 DEF SlotOK
<1>2. Works(r) /\ req'[r].ent = req[r].ent
  BY KeepsShape
<1>3. /\ UNCHANGED <<answers, outdated>> /\ req'[r].kind = req[r].kind
      /\ \/ req'[r].pc = "save.reload"
         \/ /\ req'[r].pc = "save.write"
            /\ req'[r].dirty = Dirty(req[r].ent, attempts[req[r].att])
  <2>1. CASE SaveReload(r)
    <3> DEFINE dirty == Dirty(req[r].ent, attempts[req[r].att])
    <3>1. Becomes(r, [req[r] EXCEPT !.pc = "save.write", !.dirty = dirty])
      BY <2>1 DEF SaveReload
    <3> HIDE DEF dirty
    <3>2. req'[r].kind = req[r].kind /\ req'[r].pc = "save.write" /\ req'[r].dirty = dirty
      BY <1>0, <3>1 DEF Becomes, Typed, TypeOK, Slot
    <3> QED BY <2>1, <3>2 DEF SaveReload, dbvars, dirty
  <2>2. CASE (LmsDone(r) \/ LmsFailed(r)) /\ ~Finish(r)
    <3>1. Becomes(r, [req[r] EXCEPT !.pc = "save.reload"]) /\ UNCHANGED <<answers, outdated>>
      BY <2>2 DEF LmsDone, LmsFailed, dbvars
    <3> QED BY <1>0, <3>1 DEF Becomes, Typed, TypeOK, Slot
  <2> QED BY <2>1, <2>2
<1>4. SlotOK(req[r])'
  BY <1>1, <1>2, <1>3, SavableSlot DEF SaveOK
<1> QED BY <1>2, <1>3, <1>4, SerialWorks

LEMMA SerialReviewRead ==
  ASSUME Typed, SerialInv, NEW r \in Requests, ReviewRead(r)
  PROVE  SerialInv'
<1>0. req[r] \in Slot /\ SlotOK(req[r]) /\ req[r].pc = "review.read"
  BY DEF Typed, TypeOK, SerialInv, ReviewRead
<1>1. /\ Works(r) /\ UNCHANGED answers /\ req'[r].pc = "review.answers"
      /\ req'[r].ent = req[r].ent /\ req'[r].seen \subseteq answers
  BY ReviewReadShape
<1>2. outdated' = outdated /\ req'[r].kind = req[r].kind
  BY <1>0 DEF ReviewRead, Becomes, Typed, TypeOK, Slot
<1>3. \A x \in answers : SameAnswer(x, x)
  BY DEF SameAnswer, SameKey
<1>4. \A x \in req'[r].seen : x.attempt = req[r].att
  BY <1>0 DEF ReviewRead, RowsOf, Becomes, Typed, TypeOK, Slot
<1>5. SlotOK(req[r])'
  BY <1>0, <1>1, <1>2, <1>3, <1>4 DEF Works, SlotOK, ReviewOK
<1> QED BY <1>1, <1>2, <1>5, SerialWorks

LEMMA SerialReviewScore ==
  ASSUME Typed, SerialInv, NEW r \in Requests, ReviewScore(r) \/ ImportScore(r)
  PROVE  SerialInv'
<1> DEFINE total == TotalScore(req[r].att)
           result == ResultFor(total)
           under == [req[r] EXCEPT !.pc = "save.reload", !.ent.score = total,
                                   !.ent.reviewStatus = "U"]
           done == [req[r] EXCEPT !.pc = "lms", !.ent.score = total,
                                  !.ent.reviewStatus = "R", !.ent.result = result]
<1>0. req[r] \in Slot /\ SlotOK(req[r]) /\ req[r].pc = "review.answers"
  BY DEF Typed, TypeOK, SerialInv, ReviewScore, ReviewScored, ImportScore
<1>1. ReviewOK(req[r])
  BY <1>0 DEF SlotOK
<1>2. /\ Works(r) /\ UNCHANGED answers /\ req'[r].pc \in {"save.reload", "lms"}
      /\ req'[r].ent.status = "S"
  BY <1>1, ReviewScoreShape DEF ReviewOK
<1>3. Becomes(r, under) \/ Becomes(r, done)
  <2>1. CASE ReviewScore(r)
    <3>1. IF \E x \in req[r].seen : x.reviewStatus # "R"
          THEN Becomes(r, under) ELSE Becomes(r, done)
      BY <2>1 DEF ReviewScore, ReviewScored
    <3> QED BY <3>1
  <2>2. CASE ImportScore(r)
    BY <2>2, Zenon DEF ImportScore
  <2> QED BY <2>1, <2>2
<1>4. total \in Int /\ total # NULL
  BY TotalTyped, ParamsAssumption
<1> HIDE DEF total, result
<1>5. /\ req'[r].kind = req[r].kind /\ req'[r].ent.score = total
      /\ \/ req'[r].ent.reviewStatus = "U"
         \/ req'[r].ent.reviewStatus = "R" /\ req'[r].ent.result = result
  <2>0. req[r] \in Slot /\ req[r].ent \in AttemptRow
    BY <1>0 DEF Slot
  <2> DEFINE Fit(s) == /\ s.kind = req[r].kind /\ s.ent.score = total
                       /\ \/ s.ent.reviewStatus = "U"
                          \/ s.ent.reviewStatus = "R" /\ s.ent.result = result
  <2>1. Fit(under) /\ Fit(done)
    BY <2>0 DEF Slot, AttemptRow
  <2>2. req'[r] \in {under, done}
    BY <1>3 DEF Becomes, Typed, TypeOK
  <2> HIDE DEF under, done
  <2> QED BY <2>1, <2>2
<1> HIDE DEF under, done
<1>6. Earned(req'[r].ent) /\ Totalled(req'[r].ent, req[r].att)
  BY <1>4, <1>5 DEF Earned, Totalled, total, result
<1>7. Follows(attempts[req[r].att], req'[r].ent)
  BY <1>1, <1>2, <1>5 DEF Follows, ReviewOK
<1>8. SlotOK(req[r])'
  BY <1>1, <1>2, <1>5, <1>6, <1>7, SavableSlot DEF ReviewOK
<1> QED BY <1>2, <1>5, <1>8, SerialWorks DEF ReviewScore, ReviewScored, ImportScore

-----------------------------------------------------------------------------
(***************************************************************************)
(* Steps that write rows.                                                  *)
(***************************************************************************)
LEMMA OverlayDirty ==
  ASSUME NEW row \in AttemptRow, NEW ent \in AttemptRow
  PROVE  Overlay(row, ent, Dirty(ent, row)) = ent
<1> DEFINE o == Overlay(row, ent, Dirty(ent, row))
<1>1. \A c \in Columns : c \notin Dirty(ent, row) => ent[c] = row[c]
  BY DEF Dirty
<1> HIDE DEF Dirty
<1>2. /\ o.attempt = ent.attempt /\ o.status = ent.status
      /\ o.reviewStatus = ent.reviewStatus /\ o.score = ent.score /\ o.result = ent.result
  BY <1>1 DEF Overlay, Columns, AttemptRow
<1>3. o \in AttemptRow
  BY OverlayTyped
<1> HIDE DEF o
<1>4. o = ent
  BY <1>2, <1>3 DEF AttemptRow
<1> QED BY <1>4 DEF o

LEMMA OverlaySame ==
  ASSUME NEW row \in AttemptRow, NEW cols PROVE Overlay(row, row, cols) = row
  BY DEF Overlay, AttemptRow

\* The row that a save leaves is the entity.
LEMMA SavedShape ==
  ASSUME Typed, SerialInv, NEW r \in Requests, SaveWrite(r)
  PROVE  /\ SaveOK(req[r]) /\ req[r].att \in Started /\ req[r].ent \in AttemptRow
         /\ attempts' = [attempts EXCEPT ![req[r].att] = req[r].ent]
<1> DEFINE a == req[r].att
           ent == req[r].ent
<1>1. /\ req[r] \in Slot /\ SlotOK(req[r]) /\ req[r].pc = "save.write" /\ a \in Started
  BY DEF Typed, TypeOK, SerialInv, SaveWrite, SlotsHold, HoldsAttempt
<1>2. SaveOK(req[r]) /\ req[r].dirty = Dirty(ent, attempts[a])
  BY <1>1 DEF SlotOK, SaveOK
<1>3. ent \in AttemptRow /\ attempts[a] \in AttemptRow
  BY <1>1, RowTyped DEF Slot
<1>4. Overlay(attempts[a], ent, req[r].dirty) = ent
  BY <1>2, <1>3, OverlayDirty
<1> QED BY <1>1, <1>2, <1>3, <1>4 DEF SaveWrite

LEMMA SerialSave ==
  ASSUME Typed, StartsInv, SerialInv, NEW r \in Requests, SaveWrite(r)
  PROVE  SerialInv'
<1> DEFINE a == req[r].att
           ent == req[r].ent
<1>1. /\ SaveOK(req[r]) /\ a \in Started /\ ent \in AttemptRow
      /\ attempts' = [attempts EXCEPT ![a] = ent]
  BY SavedShape
<1>2. /\ Finish(r) /\ UNCHANGED <<test, answers>> /\ outdated' = outdated \ {a}
      /\ req[r].pc # "idle"
  BY DEF SaveWrite
<1>3. Started' = Started /\ \A b \in Started : attempts'[b].attempt = attempts[b].attempt
  BY SaveKeepsNumber
<1>4. /\ attempts'[a] = ent
      /\ \A b \in Started : b # a => attempts'[b] = attempts[b]
  BY <1>1 DEF Typed, TypeOK, Started
<1>5. Moves(r) /\ req'[r] = IdleSlot
  BY <1>2, FinishMoves
<1>6. (Alone /\ \A t \in Requests : SlotOK(req[t]))'
  <2>1. SlotOK(req[r])'
    BY <1>5 DEF SlotOK, IdleSlot
  <2> QED BY <1>2, <1>5, <2>1, SlotsKept
<1>7. RowsOK'
  <2> SUFFICES ASSUME NEW b \in Started
               PROVE  /\ Earned(attempts[b])'
                      /\ attempts'[b].status = "I" => attempts'[b].reviewStatus = "P"
    BY <1>3 DEF RowsOK
  <2>1. CASE b = a
    BY <1>1, <1>2, <1>4, <2>1 DEF SaveOK, Follows, Earned, ResultFor
  <2>2. CASE b # a
    BY <1>2, <1>4, <2>2 DEF SerialInv, RowsOK, Earned, ResultFor
  <2> QED BY <2>1, <2>2
<1>8. NumbersSequential'
  BY <1>2, <1>3 DEF SerialInv, NumbersSequential
<1>9. OneInTheWay'
  <2>1. InTheWay(ent) => InTheWay(attempts[a])
    BY <1>1 DEF SaveOK, Follows, InTheWay, MayWrite, SerialInv, RowsOK
  <2>2. \A b \in Started : InTheWay(attempts[b])' => InTheWay(attempts[b])
    BY <1>2, <1>4, <2>1 DEF InTheWay
  <2> QED BY <1>3, <2>2 DEF SerialInv, OneInTheWay
<1>10. UniqueIds'
  BY <1>2 DEF SerialInv, UniqueIds
<1>11. ScoresOK'
  <2> SUFFICES ASSUME NEW b \in Started, b \notin outdated', attempts'[b].status = "S",
                      ~UnderReview(b)'
               PROVE  Totalled(attempts[b], b)'
    BY <1>3 DEF ScoresOK
  <2>1. CASE b = a
    <3>1. Totalled(ent, a)
      BY <1>1 DEF SaveOK
    <3>2. TotalScore(b)' = TotalScore(b)
      BY <1>2, SameRows, SameTotals
    <3>3. IsFormStyle(ResolvedTest)' = IsFormStyle(ResolvedTest)
      BY <1>2 DEF IsFormStyle, ResolvedTest
    <3> HIDE DEF TotalScore
    <3> QED BY <1>4, <2>1, <3>1, <3>2, <3>3 DEF Totalled
  <2>2. CASE b # a
    <3>1. ~UnderReview(b)
      BY <1>5, <2>2 DEF UnderReview, Moves
    <3>2. Totalled(attempts[b], b)
      BY <1>2, <1>4, <2>2, <3>1 DEF SerialInv, ScoresOK
    <3> QED BY <1>2, <1>4, <2>2, <3>2, SameRows, SameTotalled
  <2> QED BY <2>1, <2>2
<1> QED BY <1>6, <1>7, <1>8, <1>9, <1>10, <1>11 DEF SerialInv

\* A batch leaves the attempt and the answers of other attempts as they were.
LEMMA CommitsAnswers ==
  ASSUME Typed, KeysInv, SerialInv, NEW r \in Requests, AnswerCommit(r)
  PROVE  /\ AnswerOK(req[r]) /\ Staged(req[r]) /\ attempts' = attempts
         /\ \A b : b # req[r].att => RowsOf(b)' = RowsOf(b)
         /\ UniqueIds'
<1> DEFINE q == req[r]
           rest == {x \in answers : x.id \notin q.drop}
           updated == {x \in q.update : x.id \in Ids(rest)}
           kept == {x \in rest : x.id \notin Ids(updated)}
<1>1. q \in Slot /\ SlotOK(q) /\ q.pc = "answer.commit" /\ q.att \in Started
  BY DEF Typed, TypeOK, SerialInv, AnswerCommit, SlotsHold, HoldsAttempt
<1>2. AnswerOK(q) /\ Staged(q)
  BY <1>1 DEF SlotOK, AnswerOK
<1>3. attempts' = attempts
  <2>1. attempts[q.att] \in AttemptRow /\ q.ent = attempts[q.att]
    BY <1>1, <1>2, RowTyped DEF AnswerOK
  <2>2. Overlay(attempts[q.att], q.ent, q.dirty) = attempts[q.att]
    BY <2>1, OverlaySame
  <2> QED BY <2>2 DEF AnswerCommit, Typed, TypeOK
<1>4. /\ Ids(rest) \cap Ids(q.insert) = {}
      /\ answers' = kept \cup updated \cup q.insert
  BY DEF AnswerCommit
<1>5. \A x \in answers \ kept : x.attempt = q.att
  <2> SUFFICES ASSUME NEW x \in answers, x \notin kept PROVE x.attempt = q.att
    OBVIOUS
  <2>1. CASE x.id \in q.drop
    BY <1>2, <2>1 DEF Staged
  <2>2. CASE x.id \in Ids(updated)
    <3>1. PICK y \in q.update : y.id = x.id
      BY <2>2 DEF Ids
    <3>2. SameKey(x, y)
      BY <3>1, KnownHas DEF KeysInv, IdsInv
    <3> QED BY <1>2, <3>1, <3>2 DEF Staged, SameKey
  <2> QED BY <2>1, <2>2
<1>6. \A x \in updated \cup q.insert : x.attempt = q.att
  BY <1>2 DEF Staged
<1>7. kept \subseteq answers /\ kept \subseteq rest
  OBVIOUS
<1>8. \A x \in kept, y \in updated : x.id # y.id
  BY DEF Ids
<1>9. \A x \in kept, y \in q.insert : x.id # y.id
  BY <1>4, <1>7 DEF Ids
<1>10. updated \subseteq q.update
  OBVIOUS
<1> HIDE DEF kept, updated, rest
<1>11. \A b : b # q.att => RowsOf(b)' = RowsOf(b)
  BY <1>4, <1>5, <1>6, <1>7 DEF RowsOf
<1>12. UniqueIds'
  <2>1. \A x, y \in kept : x.id = y.id => x = y
    BY <1>7 DEF SerialInv, UniqueIds
  <2>2. \A x, y \in updated \cup q.insert : x.id = y.id => x = y
    BY <1>2, <1>10 DEF Staged
  <2> QED BY <1>4, <1>8, <1>9, <2>1, <2>2 DEF UniqueIds
<1> QED BY <1>2, <1>3, <1>11, <1>12

LEMMA SerialCommit ==
  ASSUME Typed, KeysInv, SerialInv, NEW r \in Requests, AnswerCommit(r)
  PROVE  SerialInv'
<1>1. /\ AnswerOK(req[r]) /\ attempts' = attempts
      /\ \A b : b # req[r].att => RowsOf(b)' = RowsOf(b)
      /\ UniqueIds'
  BY CommitsAnswers
<1>2. /\ req[r].pc # "idle" /\ Moves(r) /\ req'[r] = IdleSlot
      /\ test' = test /\ outdated \subseteq outdated'
      /\ req[r].ent.status = "S" => req[r].att \in outdated'
  BY FinishMoves DEF AnswerCommit
<1>3. SlotOK(req[r])'
  BY <1>2 DEF SlotOK, IdleSlot
<1>4. (Alone /\ \A t \in Requests : SlotOK(req[t]))'
  BY <1>2, <1>3, SlotsKept
<1>5. Started' = Started
  BY <1>1, SameAttempts
<1>6. (RowsOK /\ NumbersSequential /\ OneInTheWay)'
  BY <1>1, <1>2, <1>5 DEF SerialInv, RowsOK, Earned, ResultFor, NumbersSequential,
                          OneInTheWay, InTheWay
<1>7. ScoresOK'
  <2> SUFFICES ASSUME NEW a \in Started, a \notin outdated', attempts[a].status = "S",
                      ~UnderReview(a)'
               PROVE  Totalled(attempts[a], a)'
    BY <1>1, <1>5 DEF ScoresOK
  <2>1. a # req[r].att
    BY <1>1, <1>2 DEF AnswerOK
  <2>2. ~UnderReview(a)
    BY <1>2, <2>1 DEF UnderReview, Moves
  <2>3. Totalled(attempts[a], a)
    BY <1>2, <2>2 DEF SerialInv, ScoresOK
  <2> QED BY <1>1, <1>2, <2>1, <2>3, SameTotalled
<1> QED BY <1>1, <1>4, <1>6, <1>7 DEF SerialInv

\* A review changes no more of an answer than its score and its review status,
\* and answers of its own attempt only.
LEMMA ReviewedAnswers ==
  ASSUME Typed, SerialInv, NEW r \in Requests, ReviewAnswer(r) \/ ImportAnswer(r)
  PROVE  /\ ReviewOK(req[r])
         /\ \A x \in answers : \E y \in answers' : SameAnswer(x, y)
         /\ \A y \in answers' : \E x \in answers : SameAnswer(x, y)
         /\ \A b : b # req[r].att => RowsOf(b)' = RowsOf(b)
         /\ UniqueIds'
<1> DEFINE q == req[r]
           v == Head(q.review)
           Rescored(x) == [x EXCEPT !.score = v.score, !.reviewStatus = "R"]
<1>0. q \in Slot /\ SlotOK(q) /\ q.pc = "review.answers"
  BY DEF Typed, TypeOK, SerialInv, ReviewAnswer, ImportAnswer
<1>1. ReviewOK(q) /\ \A x \in q.seen : x.attempt = q.att /\ \E y \in answers : SameAnswer(x, y)
  BY <1>0 DEF SlotOK, ReviewOK
<1>2. \A x \in AnswerRow : SameAnswer(Rescored(x), x)
  BY DEF SameAnswer, SameKey, AnswerRow
<1>3. answers \subseteq AnswerRow /\ q.seen \subseteq AnswerRow
  BY <1>0 DEF Typed, TypeOK, Slot
<1>4. \A x, y \in answers : x.id = y.id => x = y
  BY DEF SerialInv, UniqueIds
<1>5. CASE ReviewAnswer(r)
  <2> DEFINE hit == {x \in RowsOf(q.att) : x.question = v.question}
  <2>1. answers' = (answers \ hit) \cup {Rescored(x) : x \in hit}
    BY <1>5, Zenon DEF ReviewAnswer
  <2>2. hit \subseteq answers /\ \A x \in hit : x.attempt = q.att
    BY DEF RowsOf
  <2> HIDE DEF hit, Rescored
  <2>3. \A x \in hit : SameAnswer(Rescored(x), x)
    BY <1>2, <1>3, <2>2
  <2>4. \A x \in answers : \E y \in answers' : SameAnswer(x, y)
    BY <2>1, <2>3 DEF SameAnswer, SameKey
  <2>5. \A y \in answers' : \E x \in answers : SameAnswer(x, y)
    BY <2>1, <2>2, <2>3 DEF SameAnswer, SameKey
  <2>6. \A b : b # q.att => RowsOf(b)' = RowsOf(b)
    BY <2>1, <2>2, <2>3 DEF RowsOf, SameAnswer, SameKey
  <2>7. UniqueIds'
    <3> SUFFICES ASSUME NEW x \in answers', NEW y \in answers', x.id = y.id PROVE x = y
      BY DEF UniqueIds
    <3>1. PICK u \in answers : u.id = x.id /\ x = IF u \in hit THEN Rescored(u) ELSE u
      BY <2>1, <2>2, <2>3 DEF SameAnswer, SameKey
    <3>2. PICK w \in answers : w.id = y.id /\ y = IF w \in hit THEN Rescored(w) ELSE w
      BY <2>1, <2>2, <2>3 DEF SameAnswer, SameKey
    <3> QED BY <1>4, <3>1, <3>2
  <2> QED BY <1>1, <2>4, <2>5, <2>6, <2>7
<1>6. CASE ImportAnswer(r)
  <2>1. PICK x \in q.seen :
          answers' = {y \in answers : y.id # x.id} \cup {Rescored(x)}
    BY <1>6, Zenon DEF ImportAnswer
  <2>2. PICK z \in answers : SameAnswer(x, z)
    BY <1>1
  <2>3. x.attempt = q.att /\ SameAnswer(Rescored(x), x)
    BY <1>1, <1>2, <1>3
  <2> HIDE DEF Rescored
  <2>4. \A y \in answers : y.id = x.id => y = z
    BY <1>4, <2>2 DEF SameAnswer, SameKey
  <2>5. \A y \in answers : \E w \in answers' : SameAnswer(y, w)
    BY <2>1, <2>2, <2>3, <2>4 DEF SameAnswer, SameKey
  <2>6. \A w \in answers' : \E y \in answers : SameAnswer(y, w)
    BY <2>1, <2>2, <2>3 DEF SameAnswer, SameKey
  <2>7. \A b : b # q.att => RowsOf(b)' = RowsOf(b)
    BY <2>1, <2>2, <2>3, <2>4 DEF RowsOf, SameAnswer, SameKey
  <2>8. UniqueIds'
    BY <1>4, <2>1, <2>3 DEF UniqueIds, SameAnswer, SameKey
  <2> QED BY <1>1, <2>5, <2>6, <2>7, <2>8
<1> QED BY <1>5, <1>6

LEMMA SerialReviewAnswer ==
  ASSUME Typed, SerialInv, NEW r \in Requests, ReviewAnswer(r) \/ ImportAnswer(r)
  PROVE  SerialInv'
<1>1. /\ ReviewOK(req[r])
      /\ \A x \in answers : \E y \in answers' : SameAnswer(x, y)
      /\ \A b : b # req[r].att => RowsOf(b)' = RowsOf(b)
      /\ UniqueIds'
  BY ReviewedAnswers
<1>2. /\ Works(r) /\ Recalls(r) /\ req'[r].ent = req[r].ent
      /\ req[r].pc = "review.answers" /\ outdated' = outdated
  BY KeepsShape DEF ReviewAnswer, ImportAnswer
<1>3. req'[r].kind = req[r].kind /\ req'[r].pc = "review.answers"
  <2> DEFINE left == Tail(req[r].review)
  <2>1. Becomes(r, [req[r] EXCEPT !.review = left])
    BY DEF ReviewAnswer, ImportAnswer
  <2> HIDE DEF left
  <2> QED BY <1>2, <2>1 DEF Becomes, Typed, TypeOK, Slot
<1>4. SlotOK(req[r])'
  <2>1. \A x \in req[r].seen : x.attempt = req[r].att /\ \E y \in answers : SameAnswer(x, y)
    BY <1>1, <1>2 DEF ReviewOK
  <2>2. \A x \in req[r].seen : x.attempt = req[r].att /\ \E y \in answers' : SameAnswer(x, y)
    BY <1>1, <2>1 DEF SameAnswer, SameKey
  <2> QED BY <1>1, <1>2, <1>3, <2>2 DEF Works, Recalls, SlotOK, ReviewOK
<1>5. (Alone /\ \A t \in Requests : SlotOK(req[t]))'
  BY <1>2, <1>4, SlotsKept DEF Works
<1>6. Started' = Started
  BY <1>2, SameAttempts DEF Works
<1>7. (RowsOK /\ NumbersSequential /\ OneInTheWay)'
  BY <1>2, <1>6 DEF Works, SerialInv, RowsOK, Earned, ResultFor, NumbersSequential,
                    OneInTheWay, InTheWay
<1>8. ScoresOK'
  <2> SUFFICES ASSUME NEW a \in Started, a \notin outdated', attempts[a].status = "S",
                      ~UnderReview(a)'
               PROVE  Totalled(attempts[a], a)'
    BY <1>2, <1>6 DEF ScoresOK, Works
  <2>1. a # req[r].att
    BY <1>1, <1>2, <1>3 DEF UnderReview, ReviewOK, Works
  <2>2. ~UnderReview(a)
    BY <1>2, <2>1 DEF UnderReview, Works, Moves
  <2>3. Totalled(attempts[a], a)
    BY <1>2, <2>2 DEF SerialInv, ScoresOK
  <2> QED BY <1>1, <1>2, <2>1, <2>3, SameTotalled DEF Works
<1> QED BY <1>1, <1>5, <1>7, <1>8 DEF SerialInv

LEMMA SerialStep ==
  OneAtATime /\ Typed /\ KeysInv /\ StartsInv /\ SerialInv /\ [Next]_vars => SerialInv'
<1> SUFFICES ASSUME OneAtATime, Typed, KeysInv, StartsInv, SerialInv, [Next]_vars
             PROVE  SerialInv'
  OBVIOUS
<1>1. ASSUME NEW r \in Requests, Begin(r) \/ StartStep(r) PROVE SerialInv'
  BY <1>1, SerialStartQuiet, SerialCreate, SerialTakes DEF Begin, StartStep
<1>2. ASSUME NEW r \in Requests, AnswerStep(r) \/ SubmitStep(r) PROVE SerialInv'
  BY <1>2, SerialRead, SerialStages, SerialCommit, SerialValidate, SerialSubmit
  DEF AnswerStep, SubmitStep
<1>3. ASSUME NEW r \in Requests, ImportMissing(r) \/ Abort(r) PROVE SerialInv'
  BY <1>3, SerialEnds DEF ImportMissing, Abort
<1>4. ASSUME NEW r \in Requests, LmsDone(r) \/ LmsFailed(r) PROVE SerialInv'
  <2>1. CASE ~Finish(r)
    BY <1>4, <2>1, SerialSaves
  <2>2. CASE Finish(r) /\ LmsFailed(r)
    BY <2>2, SerialEnds
  <2>3. CASE Finish(r) /\ LmsDone(r)
    <3>1. Becomes(r, [req[r] EXCEPT !.pc = "save.reload"])
      BY <2>3 DEF LmsDone
    <3>2. req'[r].pc = "save.reload" /\ req'[r].pc = "idle"
      BY <2>3, <3>1, FinishMoves DEF Becomes, Typed, TypeOK, Slot, IdleSlot
    <3> QED BY <3>2
  <2> QED BY <1>4, <2>1, <2>2, <2>3
<1>5. ASSUME NEW r \in Requests, ReviewStep(r) \/ SaveStep(r) PROVE SerialInv'
  BY <1>3, <1>4, <1>5, SerialReviewRead, SerialReviewAnswer, SerialReviewScore, SerialSaves,
     SerialSave
  DEF ReviewStep, SaveStep
<1>6. CASE UNCHANGED vars \/ TimePasses \/ SetTestStatus
           \/ \E m \in lmsPosted : LmsArrives(m) \/ LmsLost(m)
  BY <1>6, SerialStutters DEF vars, dbvars, TimePasses, SetTestStatus, LmsArrives, LmsLost
<1> QED BY <1>1, <1>2, <1>3, <1>5, <1>6 DEF Next

-----------------------------------------------------------------------------
(***************************************************************************)
(* What a client that waits for every answer can rely on.                  *)
(***************************************************************************)
Serial == Typed /\ KeysInv /\ StartsInv /\ SerialInv

\* The inductive invariant always holds when requests do not overlap.
THEOREM AlwaysSerial == ASSUME OneAtATime PROVE Spec => []Serial
<1>1. Init => Serial
  BY TypedInit, KeysInit, StartsInit, SerialInit DEF Serial
<1>2. Serial /\ [Next]_vars => Serial'
  BY TypedStep, KeysStep, StartsStep, SerialStep DEF Serial
<1> QED BY <1>1, <1>2, PTL DEF Spec

\* Attempts are numbered 1, 2, 3, ... within the limit, none twice: what startAttempt
\* counted is what there is when it inserts.
THEOREM NumbersAreSequential == ASSUME OneAtATime PROVE Spec => []NumbersSequential
<1>1. Serial => NumbersSequential
  BY DEF Serial, SerialInv
<1> QED BY <1>1, AlwaysSerial, PTL

\* There is one attempt in the way of a new one at most.
THEOREM CurrentAttemptIsOne == ASSUME OneAtATime PROVE Spec => []OneCurrentAttempt
<1>1. Serial => OneCurrentAttempt
  <2> SUFFICES ASSUME Serial PROVE OneCurrentAttempt
    OBVIOUS
  <2> DEFINE current == {a \in Started : InTheWay(attempts[a])}
  <2>1. \A a, b \in current : a = b
    BY DEF Serial, SerialInv, OneInTheWay
  <2> HIDE DEF current
  <2>2. CASE current = {}
    BY <2>2, FS_EmptySet DEF OneCurrentAttempt, current
  <2>3. CASE current # {}
    <3>1. PICK a : current = {a}
      BY <2>1, <2>3
    <3>2. Cardinality(current) = 1
      BY <3>1, FS_Singleton
    <3> QED BY <3>2 DEF OneCurrentAttempt, current
  <2> QED BY <2>2, <2>3
<1> QED BY <1>1, AlwaysSerial, PTL

\* Between requests the score of a submitted attempt is the sum of its answers'
\* scores, whatever batches, reviews and failures came before.
THEOREM ScoresAreTotals == ASSUME OneAtATime PROVE Spec => []ScoreIsTotal
<1>1. Serial => ScoreIsTotal
  <2> SUFFICES ASSUME Serial, NEW a \in Started \ outdated, attempts[a].status = "S",
                      \A r \in Requests : req[r].att # a
               PROVE  Totalled(attempts[a], a)
    BY DEF ScoreIsTotal, Totalled
  <2> QED BY DEF Serial, SerialInv, ScoresOK, UnderReview
<1> QED BY <1>1, AlwaysSerial, PTL

\* A reviewed attempt has the result its score earns, or neither.
THEOREM ReviewedResultsMatch == ASSUME OneAtATime PROVE Spec => []ReviewedResultMatches
<1>1. Serial => ReviewedResultMatches
  BY DEF Serial, SerialInv, RowsOK, Earned, ReviewedResultMatches
<1> QED BY <1>1, AlwaysSerial, PTL

\* No batch, late or failed, touches the answers of an attempt that is submitted for
\* good, and a review changes neither what was answered nor in which row.
THEOREM AnswersAreFrozen == ASSUME OneAtATime PROVE Spec => AnswersFrozen
<1> DEFINE Frozen == \A a \in Started :
              attempts[a].status = "S" /\ ~test.allowResubmission => Given(a)' = Given(a)
<1>1. Serial /\ [Next]_vars => Frozen
  <2> SUFFICES ASSUME Serial, [Next]_vars, NEW a \in Started,
                      attempts[a].status = "S", ~test.allowResubmission
               PROVE  Given(a)' = Given(a)
    OBVIOUS
  <2>1. ASSUME RowsOf(a)' = RowsOf(a) PROVE Given(a)' = Given(a)
    BY <2>1 DEF Given
  <2>2. ASSUME NEW r \in Requests, AnswerCommit(r) PROVE Given(a)' = Given(a)
    <3>1. /\ AnswerOK(req[r])
          /\ \A b : b # req[r].att => RowsOf(b)' = RowsOf(b)
      BY <2>2, CommitsAnswers DEF Serial
    <3>2. a # req[r].att
      BY <3>1 DEF AnswerOK, MayWrite
    <3> QED BY <2>1, <3>1, <3>2
  <2>3. ASSUME NEW r \in Requests, ReviewAnswer(r) \/ ImportAnswer(r)
        PROVE  Given(a)' = Given(a)
    <3>1. /\ \A x \in answers : \E y \in answers' : SameAnswer(x, y)
          /\ \A y \in answers' : \E x \in answers : SameAnswer(x, y)
      BY <2>3, ReviewedAnswers DEF Serial
    <3>2. /\ \A x \in RowsOf(a) : \E y \in RowsOf(a)' : x.id = y.id /\ x.opens = y.opens
          /\ \A y \in RowsOf(a)' : \E x \in RowsOf(a) : x.id = y.id /\ x.opens = y.opens
      BY <3>1 DEF RowsOf, SameAnswer, SameKey
    <3> HIDE DEF RowsOf
    <3>3. Given(a) \subseteq Given(a)' /\ Given(a)' \subseteq Given(a)
      BY <3>2 DEF Given
    <3> QED BY <3>3
  <2>4. ASSUME UNCHANGED answers PROVE Given(a)' = Given(a)
    BY <2>1, <2>4, SameRows
  <2>5. ASSUME NEW r \in Requests,
               \/ Begin(r) \/ StartStep(r) \/ AnswerStep(r) \/ SubmitStep(r)
               \/ ReviewStep(r) \/ SaveStep(r) \/ Abort(r)
        PROVE  Given(a)' = Given(a)
    BY <2>2, <2>3, <2>4, <2>5, AnswersKept DEF Serial
  <2>6. CASE UNCHANGED vars \/ TimePasses \/ SetTestStatus
             \/ \E m \in lmsPosted : LmsArrives(m) \/ LmsLost(m)
    BY <2>4, <2>6 DEF vars, dbvars, TimePasses, SetTestStatus, LmsArrives, LmsLost
  <2> QED BY <2>5, <2>6 DEF Next
<1>2. Serial /\ [Next]_vars => [Frozen]_vars
  BY <1>1
<1> QED BY <1>2, AlwaysSerial, PTL DEF Spec, AnswersFrozen

-----------------------------------------------------------------------------
(***************************************************************************)
(* Each handler takes effect as one operation of AttemptLifecycle.         *)
(***************************************************************************)
Phase == [a \in AttemptIds |-> PhaseOf(attempts[a])]

\* Rows are written by startAttempt and by the save of an entity only.
LEMMA AttemptsKept ==
  ASSUME Serial, NEW r \in Requests, ~StartCreate(r), ~SaveWrite(r),
         \/ Begin(r) \/ StartStep(r) \/ AnswerStep(r) \/ SubmitStep(r)
         \/ ReviewStep(r) \/ SaveStep(r) \/ Abort(r)
  PROVE  UNCHANGED attempts
<1>1. ASSUME StartBegin(r) \/ StartStep(r) PROVE UNCHANGED attempts
  BY <1>1 DEF StartBegin, StartStep, StartFind, StartCount, StartRefuse, dbvars
<1>2. ASSUME Begin(r) PROVE UNCHANGED attempts
  BY <1>1, <1>2, TakesShape DEF Serial, Begin, Takes, dbvars
<1>3. ASSUME AnswerStep(r) PROVE UNCHANGED attempts
  BY <1>3, AnswerReadShape, AnswerStageShape, CommitsAnswers DEF Serial, AnswerStep, Works
<1>4. ASSUME SubmitStep(r) \/ ReviewStep(r) \/ SaveStep(r) \/ Abort(r)
      PROVE  UNCHANGED attempts
  BY <1>4 DEF SubmitStep, SaveStep, ReviewStep, SubmitValidate, SubmitScore, SaveReload,
     ReviewRead, ReviewAnswer, ReviewScore, ReviewScored, ImportAnswer, ImportMissing,
     ImportScore, LmsDone, LmsFailed, Abort, dbvars
<1> QED BY <1>1, <1>2, <1>3, <1>4

LEMMA PhaseStarted ==
  ASSUME Typed, NEW a \in AttemptIds
  PROVE  /\ Phase[a] \in {"none", "open", "pending", "partial", "final"}
         /\ Phase[a] # "none" <=> a \in Started
  BY DEF Phase, PhaseOf, Started

\* A row that is not in the way of a start is settled.
LEMMA PhaseSettled ==
  ASSUME Typed, SerialInv, NEW a \in Started, ~InTheWay(attempts[a])
  PROVE  ~test.allowResubmission /\ Phase[a] \in {"partial", "final"}
<1>1. attempts[a] \in AttemptRow /\ attempts[a] # NULL /\ a \in AttemptIds
  BY RowTyped DEF Started
<1>2. attempts[a].reviewStatus # "P" /\ ~test.allowResubmission
  BY DEF InTheWay
<1>3. attempts[a].status = "S"
  BY <1>1, <1>2 DEF SerialInv, RowsOK, AttemptRow
<1> QED BY <1>1, <1>2, <1>3 DEF Phase, PhaseOf, AttemptRow

LEMMA CreateOpens ==
  ASSUME Serial, NEW r \in Requests, StartCreate(r)
  PROVE  \E a \in AttemptIds : Lifecycle!Open(a)
<1>1. Typed /\ SerialInv /\ SlotOK(req[r])
  BY DEF Serial, SerialInv
<1> DEFINE row == [NoRow EXCEPT !.attempt = Cardinality(Started) + 1]
<1>2. PICK a \in AttemptIds \ Started :
         /\ attempts' = [attempts EXCEPT ![a] = row]
         /\ Cardinality(Started) < test.attempts
         /\ \A b \in Started : ~InTheWay(attempts[b])
  BY <1>1, CreateShape
<1>3. PhaseOf(row) = "open"
  <2>1. row \in AttemptRow /\ row.status = "I"
    BY <1>1, FS_CardinalityType DEF Typed, NoRow, AttemptRow
  <2> HIDE DEF row
  <2> QED BY <2>1, ParamsAssumption DEF PhaseOf
<1> HIDE DEF row
<1>4. Phase' = [Phase EXCEPT ![a] = "open"]
  BY <1>1, <1>2, <1>3 DEF Phase, Typed, TypeOK
<1>5. Phase[a] = "none" /\ {b \in AttemptIds : Phase[b] # "none"} = Started
  <2>1. Started \subseteq AttemptIds
    BY DEF Started
  <2> QED BY <1>1, <1>2, <2>1, PhaseStarted
<1>6. \A b \in AttemptIds :
         ~(IF test.allowResubmission THEN Phase[b] # "none" ELSE Phase[b] \in {"open", "pending"})
  <2> SUFFICES ASSUME NEW b \in AttemptIds
               PROVE  ~(IF test.allowResubmission THEN Phase[b] # "none"
                        ELSE Phase[b] \in {"open", "pending"})
    OBVIOUS
  <2>1. CASE b \in Started
    BY <1>1, <1>2, <2>1, PhaseSettled
  <2>2. CASE b \notin Started
    BY <1>1, <2>2, PhaseStarted
  <2> QED BY <2>1, <2>2
<1>7. Lifecycle!Opened = Started
  BY <1>5 DEF Lifecycle!Opened, Phase
<1>8. \A b \in AttemptIds : ~Lifecycle!Unsettled(b)
  BY <1>6 DEF Lifecycle!Unsettled, Phase
\* Module AttemptLifecycle extends FiniteSets for itself.
<1>9. Lifecycle!Cardinality(Lifecycle!Opened) < test.attempts
  BY <1>2, <1>7 DEF Cardinality, Lifecycle!Cardinality
<1>10. Phase[a] = "none"
  BY <1>5
<1>11. Lifecycle!Open(a)
  BY <1>4, <1>8, <1>9, <1>10 DEF Lifecycle!Open, Phase
<1> QED BY <1>11

LEMMA SaveAdvances ==
  ASSUME Serial, NEW r \in Requests, SaveWrite(r)
  PROVE  \/ UNCHANGED Phase
         \/ \E a \in AttemptIds : Lifecycle!Submit(a) \/ Lifecycle!Review(a)
<1> DEFINE a == req[r].att
           row == attempts[a]
           ent == req[r].ent
<1>1. Typed /\ SerialInv
  BY DEF Serial
<1>2. /\ SaveOK(req[r]) /\ a \in Started /\ ent \in AttemptRow
      /\ attempts' = [attempts EXCEPT ![a] = ent]
  BY <1>1, SavedShape
<1>3. /\ row \in AttemptRow /\ row # NULL /\ ent # NULL /\ a \in AttemptIds
      /\ row.status = "I" => row.reviewStatus = "P"
  BY <1>1, <1>2, RowTyped, ParamsAssumption DEF Started, SerialInv, RowsOK
<1>4. Follows(row, ent)
  BY <1>2 DEF SaveOK
<1>5. Phase[a] = PhaseOf(row) /\ Phase' = [Phase EXCEPT ![a] = PhaseOf(ent)]
  BY <1>1, <1>2 DEF Phase, Typed, TypeOK, Started
<1> HIDE DEF a, row, ent
<1>6. CASE row.status = "S" /\ ent.reviewStatus \in {"U", "R"}
  <2>1. /\ PhaseOf(row) \in {"pending", "partial", "final"}
        /\ PhaseOf(ent) \in {"partial", "final"}
    BY <1>3, <1>4, <1>6 DEF PhaseOf, Follows
  <2>2. Lifecycle!Review(a)
    BY <1>5, <2>1 DEF Lifecycle!Review, Lifecycle!SubmittedPhases, Phase
  <2> QED BY <1>3, <2>2
<1>7. CASE MayWrite(row) /\ ent.reviewStatus \in {"P", "R"}
  <2>1. /\ PhaseOf(row) = "open" \/ (test.allowResubmission /\
              PhaseOf(row) \in {"pending", "partial", "final"})
        /\ PhaseOf(ent) \in {"pending", "final"}
    BY <1>3, <1>4, <1>7 DEF PhaseOf, Follows, MayWrite, AttemptRow
  <2>2. Lifecycle!Submit(a)
    BY <1>5, <2>1 DEF Lifecycle!Submit, Lifecycle!SubmittedPhases, Phase
  <2> QED BY <1>3, <2>2
<1>8. CASE MayWrite(row) /\ ent.reviewStatus = row.reviewStatus /\ row.reviewStatus = "U"
  <2>1. PhaseOf(row) = "partial" /\ PhaseOf(ent) = "partial"
    BY <1>3, <1>4, <1>8 DEF PhaseOf, Follows, AttemptRow
  <2>2. Phase' = Phase
    BY <1>5, <2>1 DEF Phase
  <2> QED BY <2>2
<1> QED BY <1>3, <1>4, <1>6, <1>7, <1>8 DEF Follows, AttemptRow

\* With one request at a time, every handler as a whole opens, submits or reviews one
\* attempt as AttemptLifecycle does in one step, or changes nothing of it.
THEOREM HandlersImplementLifecycle == ASSUME OneAtATime PROVE Spec => ImplementsLifecycle
<1>1. Init => Lifecycle!Init
  <2> SUFFICES ASSUME Init PROVE Lifecycle!Init
    OBVIOUS
  <2>1. test \in Test
    BY ParamsAssumption DEF Init
  <2>2. Phase = [a \in AttemptIds |-> "none"]
    BY DEF Init, Phase, PhaseOf
  <2> QED BY <2>1, <2>2 DEF Test, Lifecycle!Init, Phase
<1>2. Serial /\ [Next]_vars => [Lifecycle!Next]_(Lifecycle!vars)
  <2> SUFFICES ASSUME Serial, [Next]_vars PROVE [Lifecycle!Next]_(Lifecycle!vars)
    OBVIOUS
  <2>1. test' = test
    BY TestKept
  <2>2. ASSUME UNCHANGED Phase PROVE UNCHANGED Lifecycle!vars
    BY <2>1, <2>2 DEF Lifecycle!vars, Phase
  <2>3. ASSUME UNCHANGED attempts PROVE UNCHANGED Lifecycle!vars
    BY <2>2, <2>3 DEF Phase, PhaseOf
  <2>4. ASSUME NEW r \in Requests, StartCreate(r) PROVE Lifecycle!Next
    BY <2>1, <2>4, CreateOpens DEF Lifecycle!Next
  <2>5. ASSUME NEW r \in Requests, SaveWrite(r) PROVE [Lifecycle!Next]_(Lifecycle!vars)
    BY <2>1, <2>2, <2>5, SaveAdvances DEF Lifecycle!Next
  <2>6. ASSUME NEW r \in Requests,
               \/ Begin(r) \/ StartStep(r) \/ AnswerStep(r) \/ SubmitStep(r)
               \/ ReviewStep(r) \/ SaveStep(r) \/ Abort(r)
        PROVE  [Lifecycle!Next]_(Lifecycle!vars)
    BY <2>3, <2>4, <2>5, <2>6, AttemptsKept
  <2>7. CASE UNCHANGED vars \/ TimePasses \/ SetTestStatus
             \/ \E m \in lmsPosted : LmsArrives(m) \/ LmsLost(m)
    BY <2>3, <2>7 DEF vars, dbvars, TimePasses, SetTestStatus, LmsArrives, LmsLost
  <2> QED BY <2>6, <2>7 DEF Next
<1> QED BY <1>1, <1>2, AlwaysSerial, PTL DEF Spec, ImplementsLifecycle, Lifecycle!Spec

-----------------------------------------------------------------------------
(***************************************************************************)
(* One row for each question.  A batch that answers a question twice       *)
(* stores both answers, so this is for batches that do not.                *)
(***************************************************************************)
OnceIn(b) == \A i, j \in DOMAIN b : b[i].question = b[j].question => i = j

OnceEach == \A b \in Batches : OnceIn(b)

\* Rows about to be written have a question each, and replace whatever row there
\* is of that question.
Unrepeated(s) ==
    LET written == s.update \cup s.insert
    IN  /\ s.pc \in {"answer.read", "answer.stage"} => OnceIn(s.batch)
        /\ s.pc = "answer.commit" =>
              /\ \A x, y \in written : x.question = y.question => x = y
              /\ \A x \in written, y \in RowsOf(s.att) :
                    x.question = y.question =>
                       y.id \in s.drop \/ (x \in s.update /\ x.id = y.id)

AnswersInv == OneAnswerPerQuestion /\ \A r \in Requests : Unrepeated(req[r])

Answering(s) == s.pc \in {"answer.read", "answer.stage", "answer.commit"}

LEMMA AnswersInit == Init => AnswersInv
<1> SUFFICES ASSUME Init PROVE AnswersInv
  OBVIOUS
<1>1. \A r \in Requests : req[r].pc = "idle"
  BY DEF Init, IdleSlot
<1> QED BY <1>1 DEF Init, AnswersInv, OneAnswerPerQuestion, Unrepeated

\* As with SlotsKept, only the slot that moves needs a look.
LEMMA UnrepeatedKept ==
  ASSUME SerialInv, NEW r \in Requests, Moves(r),
         req[r].pc # "idle" \/ \A t \in Requests : req[t].pc = "idle",
         Answering(req'[r]) => Unrepeated(req[r])', OneAnswerPerQuestion'
  PROVE  AnswersInv'
<1>1. ASSUME NEW t \in Requests, t # r PROVE req'[t].pc = "idle"
  BY <1>1 DEF SerialInv, Alone, Moves
<1>2. ASSUME NEW t \in Requests PROVE Unrepeated(req[t])'
  <2>1. CASE t = r /\ Answering(req'[r])
    BY <2>1
  <2>2. CASE t # r \/ ~Answering(req'[r])
    BY <1>1, <2>2 DEF Unrepeated, Answering
  <2> QED BY <2>1, <2>2
<1> QED BY <1>2 DEF AnswersInv

\* Slots come to answer by submitAnswer only.
LEMMA NotAnswering ==
  ASSUME Serial, NEW r \in Requests,
         \/ StartBegin(r) \/ StartStep(r) \/ SubmitStep(r) \/ ReviewStep(r)
         \/ SaveStep(r) \/ Abort(r) \/ AnswerCommit(r)
         \/ \E a \in AttemptIds : SubmitBegin(r, a)
         \/ \E a \in AttemptIds, v \in Reviews : ReviewBegin(r, a, v)
         \/ \E v \in Reviews : ImportBegin(r, v)
  PROVE  Moves(r) /\ ~Answering(req'[r])
<1>0. Typed /\ req[r] \in Slot /\ req \in [Requests -> Slot]
  BY DEF Serial, Typed, TypeOK
<1>1. ASSUME Finish(r) PROVE Moves(r) /\ ~Answering(req'[r])
  BY <1>0, <1>1, FinishMoves DEF Answering, IdleSlot
<1>2. CASE StartBegin(r) \/ StartStep(r)
  <2>1. ASSUME NEW s, Becomes(r, s), s.pc = "start" PROVE Moves(r) /\ ~Answering(req'[r])
    BY <1>0, <2>1 DEF Becomes, Moves, Answering
  <2>2. CASE StartBegin(r)
    <3> DEFINE s == [req[r] EXCEPT !.kind = "start", !.pc = "start"]
    <3>1. Becomes(r, s) /\ s.pc = "start"
      BY <1>0, <2>2 DEF StartBegin, Slot
    <3> QED BY <2>1, <3>1
  <2>3. CASE StartFind(r) /\ ~Finish(r)
    <3> DEFINE s == [req[r] EXCEPT !.clear = TRUE]
    <3>1. Becomes(r, s) /\ s.pc = "start"
      BY <1>0, <2>3 DEF StartFind, Slot
    <3> QED BY <2>1, <3>1
  <2>4. CASE StartCount(r)
    <3> DEFINE s == [req[r] EXCEPT !.count = Cardinality(Started)]
    <3>1. Becomes(r, s) /\ s.pc = "start"
      BY <1>0, <2>4 DEF StartCount, Slot
    <3> QED BY <2>1, <3>1
  <2> QED BY <1>1, <1>2, <2>2, <2>3, <2>4
          DEF StartStep, StartFind, StartRefuse, StartCreate, Opened
<1>3. CASE \/ \E a \in AttemptIds : SubmitBegin(r, a)
           \/ \E a \in AttemptIds, v \in Reviews : ReviewBegin(r, a, v)
           \/ \E v \in Reviews : ImportBegin(r, v)
  <2>1. ASSUME NEW a \in AttemptIds, SubmitBegin(r, a) PROVE Moves(r) /\ ~Answering(req'[r])
    BY <1>0, <2>1 DEF SubmitBegin, Becomes, Moves, Answering, Slot
  <2>2. ASSUME NEW a \in AttemptIds, NEW v \in Reviews, ReviewBegin(r, a, v)
        PROVE  Moves(r) /\ ~Answering(req'[r])
    BY <1>0, <2>2 DEF ReviewBegin, Becomes, Moves, Answering, Slot
  <2>3. ASSUME NEW v \in Reviews, ImportBegin(r, v) PROVE Moves(r) /\ ~Answering(req'[r])
    <3>1. PICK a \in Newest(ImportCandidates) :
             Becomes(r, [req[r] EXCEPT !.kind = "import", !.pc = "review.read",
                                       !.att = a, !.ent = attempts[a], !.review = v])
      BY <2>3 DEF ImportBegin
    <3> QED BY <1>0, <3>1 DEF Becomes, Moves, Answering, Slot
  <2> QED BY <1>3, <2>1, <2>2, <2>3
<1>4. CASE SubmitStep(r) \/ SaveStep(r)
  BY <1>0, <1>1, <1>4, SubmitScoreShape, KeepsShape
  DEF SubmitStep, SaveStep, SaveWrite, Works, Answering
<1>5. CASE ReviewStep(r)
  BY <1>0, <1>1, <1>5, ReviewReadShape, ReviewScoreShape, KeepsShape
  DEF ReviewStep, ImportMissing, Works, Answering
<1>6. CASE Abort(r) \/ AnswerCommit(r)
  BY <1>1, <1>6 DEF Abort, AnswerCommit
<1> QED BY <1>2, <1>3, <1>4, <1>5, <1>6

LEMMA StagedOnce ==
  ASSUME Serial, AnswersInv, NEW r \in Requests, AnswerStage(r)
  PROVE  Unrepeated(req[r])'
<1> DEFINE a == req[r].att
           b == req[r].batch
           drop == CleanedUp(a, b, req[r].seen)
           existing == {x \in req[r].seen : x.question \in Asked(b)}
           known == {x.question : x \in existing}
           new == {i \in DOMAIN b : b[i].question \notin known}
           here == Ids(answers) \ drop
<1>0. /\ Typed /\ SerialInv /\ req[r] \in Slot /\ SlotOK(req[r]) /\ req[r].pc = "answer.stage"
  BY DEF Serial, Typed, TypeOK, SerialInv, AnswerStage
<1>1. /\ answers' = answers /\ req'[r].att = a /\ req'[r].drop = drop
      /\ req'[r].pc = "answer.commit"
  BY <1>0, AnswerStageShape DEF Works
<1>2. PICK kept \in OneRowEach(existing), id \in [new -> FreshIds] :
         /\ \A i, j \in new : id[i] = id[j] => i = j
         /\ LET saved == Rewritten(kept, b)
            IN  /\ req'[r].update = {x \in saved : x.id \in here}
                /\ req'[r].insert = {x \in saved : x.id \notin here} \cup
                                    {NewRow(id[i], a, b[i]) : i \in new}
  BY <1>0, AnswerStageShape
<1> DEFINE saved == Rewritten(kept, b)
           fresh == {NewRow(id[i], a, b[i]) : i \in new}
<1>3. req[r].seen = RowsOf(a) /\ b \in Seq(AnswerInput) /\ OnceIn(b)
  BY <1>0 DEF SlotOK, AnswerOK, Slot, AnswersInv, Unrepeated
<1>4. \A x, y \in RowsOf(a) : x.question = y.question => x = y
  BY DEF AnswersInv, OneAnswerPerQuestion, RowsOf
<1>5. kept \subseteq existing /\ existing \subseteq RowsOf(a) /\ kept \subseteq AnswerRow
  BY <1>0, <1>3 DEF OneRowEach, RowsOf, Typed, TypeOK
<1>6. ASSUME NEW x \in saved
      PROVE  \E row \in kept : RewriteOf(x, row, b) /\ row.question = x.question /\ row.id = x.id
  <2>1. PICK row \in kept : RewriteOf(x, row, b)
    BY <1>5, RewrittenFrom
  <2> QED BY <2>1 DEF RewriteOf, SameKey
<1>7. ASSUME NEW x \in fresh
      PROVE  /\ x.question \notin known
             /\ \A y \in RowsOf(a) : y.question # x.question
  <2>1. PICK i \in new : x = NewRow(id[i], a, b[i])
    OBVIOUS
  <2>2. x.question = b[i].question /\ x.question \in Asked(b)
    BY <2>1 DEF NewRow, Asked
  <2> QED BY <1>3, <2>1, <2>2
<1>8. ASSUME NEW x \in fresh, NEW y \in fresh, x.question = y.question PROVE x = y
  <2>1. PICK i \in new : x = NewRow(id[i], a, b[i])
    OBVIOUS
  <2>2. PICK j \in new : y = NewRow(id[j], a, b[j])
    OBVIOUS
  <2>3. i \in DOMAIN b /\ j \in DOMAIN b /\ b[i].question = b[j].question
    BY <1>8, <2>1, <2>2 DEF NewRow
  <2>4. i = j
    BY <1>3, <2>3 DEF OnceIn
  <2> QED BY <2>1, <2>2, <2>4
<1>9. ASSUME NEW x \in saved, NEW y \in saved, x.question = y.question PROVE x = y
  <2>1. PICK u \in kept : RewriteOf(x, u, b) /\ u.question = x.question
    BY <1>6
  <2>2. PICK v \in kept : RewriteOf(y, v, b) /\ v.question = y.question
    BY <1>6
  <2>3. u = v
    BY <1>4, <1>5, <1>9, <2>1, <2>2
  <2> QED BY <1>3, <2>1, <2>2, <2>3, RewriteIsOne
<1>10. ASSUME NEW x \in saved, NEW y \in RowsOf(a), x.question = y.question
       PROVE  y.id \in drop \/ (x.id \in here /\ x.id = y.id)
  <2>1. PICK u \in kept : u.question = x.question /\ u.id = x.id
    BY <1>6
  <2>2. u = y
    BY <1>4, <1>5, <1>10, <2>1
  <2>3. y.id \in Ids(answers)
    BY DEF RowsOf, Ids
  <2> QED BY <2>1, <2>2, <2>3
<1>11. \A x \in saved : x.question \in known
  <2> SUFFICES ASSUME NEW x \in saved PROVE x.question \in known
    OBVIOUS
  <2>1. PICK u \in kept : u.question = x.question
    BY <1>6
  <2> QED BY <1>5, <2>1
<1>12. RowsOf(req[r].att)' = RowsOf(a)
  BY <1>1 DEF RowsOf
<1> HIDE DEF saved, fresh, known, here, drop, a, b
<1>13. req'[r].update \cup req'[r].insert = saved \cup fresh
  BY <1>2 DEF saved, fresh, here, drop, a, b
<1>14. \A x \in saved : x.id \in here => x \in req'[r].update
  BY <1>2 DEF saved, here, drop, a, b
<1>15. \A x, y \in saved \cup fresh : x.question = y.question => x = y
  BY <1>7, <1>8, <1>9, <1>11
<1>16. \A x \in saved \cup fresh, y \in RowsOf(a) : x.question = y.question =>
          y.id \in drop \/ (x \in req'[r].update /\ x.id = y.id)
  BY <1>7, <1>10, <1>14
<1> QED BY <1>1, <1>12, <1>13, <1>15, <1>16 DEF Unrepeated

LEMMA CommittedOnce ==
  ASSUME Serial, AnswersInv, NEW r \in Requests, AnswerCommit(r)
  PROVE  OneAnswerPerQuestion'
<1> DEFINE q == req[r]
           rest == {x \in answers : x.id \notin q.drop}
           updated == {x \in q.update : x.id \in Ids(rest)}
           kept == {x \in rest : x.id \notin Ids(updated)}
<1>1. /\ Ids(rest) \cap Ids(q.insert) = {} /\ q.pc = "answer.commit"
      /\ answers' = kept \cup updated \cup q.insert
  BY DEF AnswerCommit
<1>2. /\ \A x, y \in q.update \cup q.insert : x.question = y.question => x = y
      /\ \A x \in q.update \cup q.insert, y \in RowsOf(q.att) :
            x.question = y.question => y.id \in q.drop \/ (x \in q.update /\ x.id = y.id)
  BY <1>1 DEF AnswersInv, Unrepeated
<1>3. \A x \in q.update \cup q.insert : x.attempt = q.att
  BY CommitsAnswers DEF Serial, Staged
<1>4. \A x, y \in kept : x.attempt = y.attempt /\ x.question = y.question => x = y
  BY DEF AnswersInv, OneAnswerPerQuestion
<1>5. ASSUME NEW y \in kept, NEW x \in updated \cup q.insert, y.attempt = x.attempt,
             x.question = y.question
      PROVE  FALSE
  <2>1. y \in RowsOf(q.att) /\ y.id \notin q.drop /\ y.id \in Ids(rest)
    BY <1>3, <1>5 DEF RowsOf, Ids
  <2>2. x \in q.update /\ x.id = y.id
    BY <1>2, <1>5, <2>1
  <2>3. y.id \notin Ids(updated)
    OBVIOUS
  <2>4. x \in updated
    BY <2>1, <2>2
  <2> QED BY <2>2, <2>3, <2>4 DEF Ids
<1>6. updated \subseteq q.update
  OBVIOUS
<1> HIDE DEF kept, updated, rest
<1> QED BY <1>1, <1>2, <1>4, <1>5, <1>6 DEF OneAnswerPerQuestion

LEMMA ReviewedOnce ==
  ASSUME Serial, AnswersInv, NEW r \in Requests, ReviewAnswer(r) \/ ImportAnswer(r)
  PROVE  OneAnswerPerQuestion'
<1>1. /\ \A y \in answers' : \E x \in answers : SameAnswer(x, y)
      /\ UniqueIds'
  BY ReviewedAnswers DEF Serial
<1> SUFFICES ASSUME NEW x \in answers', NEW y \in answers',
                    x.attempt = y.attempt, x.question = y.question
             PROVE  x = y
  BY DEF OneAnswerPerQuestion
<1>2. PICK u \in answers : SameAnswer(u, x)
  BY <1>1
<1>3. PICK v \in answers : SameAnswer(v, y)
  BY <1>1
<1>4. u = v
  BY <1>2, <1>3 DEF AnswersInv, OneAnswerPerQuestion, SameAnswer, SameKey
<1> QED BY <1>1, <1>2, <1>3, <1>4 DEF UniqueIds, SameAnswer, SameKey

LEMMA AnswersStep ==
  OneAtATime /\ OnceEach /\ Serial /\ AnswersInv /\ [Next]_vars => AnswersInv'
<1> SUFFICES ASSUME OneAtATime, OnceEach, Serial, AnswersInv, [Next]_vars PROVE AnswersInv'
  OBVIOUS
<1>0. Typed /\ SerialInv
  BY DEF Serial
<1>1. ASSUME UNCHANGED answers PROVE OneAnswerPerQuestion'
  BY <1>1 DEF AnswersInv, OneAnswerPerQuestion
<1>2. ASSUME NEW r \in Requests, AnswerStep(r) PROVE AnswersInv'
  <2>0. req[r] \in Slot /\ req[r].pc # "idle"
    BY <1>0, <1>2 DEF Typed, TypeOK, AnswerStep, AnswerRead, AnswerStage, AnswerCommit
  <2>1. CASE AnswerRead(r)
    <3>1. Works(r) /\ UNCHANGED answers /\ req'[r].pc = "answer.stage"
      BY <1>0, <2>1, AnswerReadShape
    <3>2. req'[r].batch = req[r].batch /\ req[r].pc = "answer.read"
      BY <1>0, <2>0, <2>1 DEF AnswerRead, Becomes, Typed, TypeOK, Slot
    <3>3. Unrepeated(req[r])'
      BY <3>1, <3>2 DEF AnswersInv, Unrepeated, OnceIn
    <3> QED BY <1>0, <1>1, <2>0, <3>1, <3>3, UnrepeatedKept DEF Works
  <2>2. CASE AnswerStage(r)
    <3>1. Works(r) /\ UNCHANGED answers
      BY <1>0, <2>2, AnswerStageShape
    <3> QED BY <1>0, <1>1, <2>0, <2>2, <3>1, StagedOnce, UnrepeatedKept DEF Works
  <2>3. CASE AnswerCommit(r)
    BY <1>0, <2>0, <2>3, NotAnswering, CommittedOnce, UnrepeatedKept
  <2> QED BY <1>2, <2>1, <2>2, <2>3 DEF AnswerStep
<1>3. ASSUME NEW r \in Requests, NEW a \in AttemptIds, NEW b \in Batches, AnswerBegin(r, a, b)
      PROVE  AnswersInv'
  <2>1. req[r] \in Slot /\ \A t \in Requests : req[t].pc = "idle"
    BY <1>0, <1>3, BeginsAlone DEF AnswerBegin, Typed, TypeOK
  <2>2. Moves(r) /\ req'[r].pc = "answer.read" /\ req'[r].batch = b /\ UNCHANGED answers
    BY <1>0, <1>3, <2>1 DEF AnswerBegin, Becomes, Moves, Typed, TypeOK, Slot, dbvars
  <2>3. Unrepeated(req[r])'
    BY <2>2 DEF Unrepeated, OnceEach, OnceIn
  <2> QED BY <1>0, <1>1, <2>1, <2>2, <2>3, UnrepeatedKept
<1>4. ASSUME NEW r \in Requests,
             \/ StartBegin(r) \/ StartStep(r) \/ SubmitStep(r) \/ ReviewStep(r)
             \/ SaveStep(r) \/ Abort(r)
             \/ \E a \in AttemptIds : SubmitBegin(r, a)
             \/ \E a \in AttemptIds, v \in Reviews : ReviewBegin(r, a, v)
             \/ \E v \in Reviews : ImportBegin(r, v)
      PROVE  AnswersInv'
  <2>1. Moves(r) /\ ~Answering(req'[r])
    BY <1>4, NotAnswering
  <2>2. OneAnswerPerQuestion'
    <3>1. CASE ReviewAnswer(r) \/ ImportAnswer(r)
      BY <3>1, ReviewedOnce
    <3>2. CASE AnswerCommit(r)
      BY <3>2, CommittedOnce
    <3>3. CASE ~AnswerCommit(r) /\ ~ReviewAnswer(r) /\ ~ImportAnswer(r)
      BY <1>0, <1>1, <1>4, <3>3, AnswersKept DEF Begin
    <3> QED BY <3>1, <3>2, <3>3
  <2>3. req[r].pc # "idle" \/ \A t \in Requests : req[t].pc = "idle"
    <3>1. CASE \/ StartBegin(r) \/ \E a \in AttemptIds : SubmitBegin(r, a)
               \/ \E a \in AttemptIds, v \in Reviews : ReviewBegin(r, a, v)
               \/ \E v \in Reviews : ImportBegin(r, v)
      BY <3>1, BeginsAlone DEF StartBegin, SubmitBegin, ReviewBegin, ImportBegin
    <3>2. CASE StartStep(r) \/ SubmitStep(r) \/ SaveStep(r) \/ Abort(r)
      BY <3>2 DEF StartStep, SubmitStep, SaveStep, StartFind, StartCount, StartRefuse,
         StartCreate, SubmitValidate, SubmitScore, SaveReload, SaveWrite, Abort
    <3>3. CASE ReviewStep(r)
      BY <3>3 DEF ReviewStep, ReviewRead, ReviewAnswer, ReviewScore, ReviewScored,
         ImportAnswer, ImportMissing, ImportScore, LmsDone, LmsFailed
    <3> QED BY <1>4, <3>1, <3>2, <3>3
  <2> QED BY <1>0, <2>1, <2>2, <2>3, UnrepeatedKept
<1>5. CASE UNCHANGED vars \/ TimePasses \/ SetTestStatus
           \/ \E m \in lmsPosted : LmsArrives(m) \/ LmsLost(m)
  <2>1. UNCHANGED <<answers, req>>
    BY <1>5 DEF vars, dbvars, TimePasses, SetTestStatus, LmsArrives, LmsLost
  <2>2. ASSUME NEW r \in Requests PROVE Unrepeated(req[r])'
    <3>1. Unrepeated(req[r]) /\ req'[r] = req[r] /\ RowsOf(req[r].att)' = RowsOf(req[r].att)
      BY <2>1 DEF AnswersInv, RowsOf
    <3> QED BY <3>1 DEF Unrepeated, OnceIn
  <2> QED BY <1>1, <2>1, <2>2 DEF AnswersInv
<1> QED BY <1>2, <1>3, <1>4, <1>5 DEF Next, Begin

\* Through any number of batches, cleanups and reviews, each question that was
\* answered has one row, if no batch answers a question twice.
THEOREM AnswersAreOnePerQuestion ==
  ASSUME OneAtATime, OnceEach PROVE Spec => []OneAnswerPerQuestion
<1>1. Init => AnswersInv
  BY AnswersInit
<1>2. Serial /\ AnswersInv /\ [Next]_vars => AnswersInv'
  BY AnswersStep
<1>3. AnswersInv => OneAnswerPerQuestion
  BY DEF AnswersInv
<1> QED BY <1>1, <1>2, <1>3, AlwaysSerial, PTL DEF Spec
=============================================================================
