------------------------------- MODULE Scoring -------------------------------
(***************************************************************************)
(* One question from its validation to the score of an answer and to what  *)
(* the answer sheet says of it: questions.service.ts accepts, stores and   *)
(* changes the question, attempts.service.ts scores the answers given in a *)
(* quiz or an assessment and shows them.  An option is known by the        *)
(* edition of the question it came with and its place there; the rows of   *)
(* one edition are read in that order, as all have the same ordering.      *)
(***************************************************************************)
EXTENDS Integers, Sequences, FiniteSets, Functions

CONSTANTS
    Students,
    Dtos,          \* questions the authors try to create
    Patches,       \* changes they try to make
    Replies,       \* Replies[type][ed]: answers to a question, with options of an edition
    MaxEdits,      \* bound on the changes
    None           \* what is not given

SingleChoice == {"mcq", "true_false"}
Types == SingleChoice \cup {"multiple_answer", "fill_blank", "match", "dropdown",
                            "checkbox", "rating", "subjective", "essay", "file"}
FormStyle == {"feedback", "reflection.prompt", "assessment"}
Gradings == FormStyle \cup {"quiz"}

OptionDto == [text : STRING, isCorrect : BOOLEAN, marks : Int \cup {None},
              blankIndex : Nat \cup {None}, matchWith : STRING \cup {None},
              caseSensitive : BOOLEAN]

QuestionDto == [type : Types, marks : Int \cup {None}, allowPartialScoring : BOOLEAN,
                allowMultiple : BOOLEAN, gradingType : Gradings,
                options : Seq(OptionDto) \cup {None}]

OptionRow == [text : STRING, isCorrect : BOOLEAN, marks : Int,
              blankIndex : Nat \cup {None}, matchWith : STRING \cup {None},
              caseSensitive : BOOLEAN]

QuestionRow == [type : Types, marks : Int, allowPartialScoring : BOOLEAN,
                allowMultiple : BOOLEAN, gradingType : Gradings]

\* Only some of the fields of a question, and None for the others.
Patch == [type : Types \cup {None}, marks : Int \cup {None},
          allowPartialScoring : BOOLEAN \cup {None}, options : Seq(OptionDto) \cup {None}]

\* selectedOptionIds; blanks, each a text and whether its case is the option's;
\* matches, each an option and a text; and whether there is a text or a file.
Reply == [selected : Seq(Nat \X Nat), blanks : Seq(STRING \X BOOLEAN),
          matches : Seq((Nat \X Nat) \X STRING), free : BOOLEAN]

ASSUME ScoringAssumption ==
    /\ Dtos \subseteq QuestionDto /\ Patches \subseteq Patch
    /\ MaxEdits \in Nat /\ None \notin QuestionRow
    /\ \A type \in Types, ed \in 1 .. MaxEdits + 1 : Replies[type][ed] \subseteq Reply

VARIABLES
    question,  \* its row, None before it is created
    options,   \* the rows of its options
    edition,   \* numbers the lists of options
    edit,      \* the update in progress and the options it has still to write
    answer,    \* the answer of each student
    edits,     \* bounds the behaviours
    created    \* auxiliary: what the question was created from

vars == <<question, options, edition, edit, answer, edits, created>>

Correct(opts) == {i \in DOMAIN opts : opts[i].isCorrect}

Sum(f) ==
    LET upto[n \in 0 .. Len(f)] == IF n = 0 THEN 0 ELSE upto[n - 1] + f[n]
    IN  upto[Len(f)]

Total(opts, S) == Sum([i \in DOMAIN opts |-> IF i \in S THEN opts[i].marks ELSE 0])

-----------------------------------------------------------------------------
(***************************************************************************)
(* Validation, of the options of a request, or of stored ones: a column    *)
(* without a value is null and not undefined, and decimals are strings, so *)
(* that their sum is one too and equals no number.                         *)
(***************************************************************************)
DistinctTexts(opts) ==
    \A i, j \in DOMAIN opts : opts[i].text = opts[j].text /\ opts[i].text # "" => i = j

DistinctMatches(opts) ==
    \A i, j \in DOMAIN opts :
        opts[i].matchWith = opts[j].matchWith /\ opts[i].matchWith # None => i = j

WithBlank(opts, stored) == {i \in DOMAIN opts : stored \/ opts[i].blankIndex # None}

\* One option to each index, from 0 on, and so each of them correct.
BlanksFit(opts, stored) ==
    LET W == WithBlank(opts, stored)
    IN  /\ W # {}
        /\ {opts[i].blankIndex : i \in W} = 0 .. Cardinality(W) - 1
        /\ W \subseteq Correct(opts)

MatchesFit(opts) ==
    LET W == {i \in DOMAIN opts : opts[i].matchWith # None}
    IN  W # {} /\ W \subseteq Correct(opts)

DropdownFits(q, opts) ==
    /\ Len(opts) >= 2
    /\ Correct(opts) # {}
    /\ q.allowMultiple \/ Cardinality(Correct(opts)) = 1

AddUp(q, opts, S, stored) ==
    \/ q.marks = None
    \/ (stored => S = {}) /\ Total(opts, S) = q.marks

\* Mutant: the sum of the marks is not compared.
MarkedOptions(q, opts, stored) == \A i \in Correct(opts) : opts[i].marks # None

ChoicesPartial(q, opts, stored) ==
    /\ \A i \in Correct(opts) : opts[i].marks # None
    /\ AddUp(q, opts, Correct(opts), stored)

BlanksPartial(q, opts, stored) ==
    LET S == WithBlank(opts, stored) \cap Correct(opts)
    IN  /\ \A i \in S : opts[i].marks # None /\ opts[i].marks > 0
        /\ AddUp(q, opts, S, stored)

PartialFits(q, opts, stored) ==
    /\ q.type \in {"multiple_answer", "fill_blank", "match", "subjective", "essay"}
    /\ q.type \in {"multiple_answer", "match"} => ChoicesPartial(q, opts, stored)
    /\ q.type = "fill_blank" => BlanksPartial(q, opts, stored)

OptionsFit(q, opts, stored) ==
    /\ DistinctTexts(opts)
    /\ q.type = "match" => DistinctMatches(opts) /\ MatchesFit(opts)
    /\ q.type \in SingleChoice => Cardinality(Correct(opts)) = 1
    /\ q.type \in {"multiple_answer", "checkbox"} => Correct(opts) # {}
    /\ q.type = "fill_blank" => BlanksFit(opts, stored)
    /\ q.type = "dropdown" => DropdownFits(q, opts)

Fits(q, opts, stored) ==
    opts # None => /\ opts # <<>> => OptionsFit(q, opts, stored)
                   /\ q.allowPartialScoring => PartialFits(q, opts, stored)

\* Files are for forms, assessments among them, whose options are not validated.
Accepts(q, opts, stored) ==
    /\ q.type = "file" => q.gradingType \in FormStyle
    /\ q.gradingType \in FormStyle \/ Fits(q, opts, stored)

-----------------------------------------------------------------------------
(***************************************************************************)
(* Scores.                                                                 *)
(***************************************************************************)
Id(ed, i) == <<ed, i>>
Ids(ed, S) == {Id(ed, i) : i \in S}

\* The first correct option, selected alone.
MCQScore(q, opts, ed, reply) ==
    IF \E i \in Correct(opts) : /\ \A j \in Correct(opts) : i <= j
                               /\ reply.selected = <<Id(ed, i)>>
    THEN q.marks ELSE 0

\* Mutant: a wrong option selected costs a mark.
MultipleAnswerScorePenal(q, opts, ed, reply) ==
    LET chosen == {i \in DOMAIN opts : Id(ed, i) \in Range(reply.selected)}
    IN  Total(opts, chosen \cap Correct(opts)) - Cardinality(chosen \ Correct(opts))

MultipleAnswerScore(q, opts, ed, reply) ==
    LET chosen == Range(reply.selected)
    IN  IF q.allowPartialScoring
        THEN Total(opts, {i \in Correct(opts) : Id(ed, i) \in chosen})
        ELSE IF Correct(opts) # {} /\ chosen = Ids(ed, Correct(opts)) THEN q.marks ELSE 0

\* The blanks are those of the correct options, in the order of the options,
\* and only as many are looked at as there are answers.
Place(opts, i) == Cardinality({j \in Correct(opts) : j <= i})

FillBlankScore(q, opts, reply) ==
    LET Blank(i) == reply.blanks[Place(opts, i)]
        asked == {i \in Correct(opts) : Place(opts, i) <= Len(reply.blanks)}
        hit == {i \in asked : /\ opts[i].text # "" /\ Blank(i)[1] = opts[i].text
                              /\ opts[i].caseSensitive => Blank(i)[2]}
    IN  IF q.allowPartialScoring THEN Total(opts, hit)
        ELSE IF asked # {} /\ hit = asked THEN q.marks ELSE 0

\* Mutant: any match that is right will do.
MatchScoreAny(q, opts, ed, reply) ==
    IF \E i \in Correct(opts), m \in DOMAIN reply.matches :
            reply.matches[m] = <<Id(ed, i), opts[i].matchWith>>
    THEN q.marks ELSE 0

\* Every match given counts, and one given twice counts twice.
MatchScore(q, opts, ed, reply) ==
    LET Hits(i, m) == reply.matches[m] = <<Id(ed, i), opts[i].matchWith>>
        Worth(m) == Total(opts, {i \in Correct(opts) : Hits(i, m)})
    IN  IF q.allowPartialScoring THEN Sum([m \in DOMAIN reply.matches |-> Worth(m)])
        ELSE IF /\ Correct(opts) # {} /\ reply.matches # <<>>
                /\ \A i \in Correct(opts) : \E m \in DOMAIN reply.matches : Hits(i, m)
             THEN q.marks ELSE 0

Score(q, opts, ed, reply) ==
    CASE q.type \in SingleChoice \cup {"dropdown"} -> MCQScore(q, opts, ed, reply)
      [] q.type = "multiple_answer" -> MultipleAnswerScore(q, opts, ed, reply)
      [] q.type = "fill_blank" -> FillBlankScore(q, opts, reply)
      [] q.type = "match" -> MatchScore(q, opts, ed, reply)
      [] OTHER -> 0

\* Mutant: a wrong option selected as well is not noticed.
SelectionShownLenient(q, opts, ed, reply, show) ==
    show /\ Range(reply.selected) \cap Ids(ed, Correct(opts)) # {}

(***************************************************************************)
(* isCorrect in the answer sheet: by the score where there is text, and by *)
(* the options as they are now where they are selected.                    *)
(***************************************************************************)
SelectionShown(q, opts, ed, reply, show) ==
    LET key == IF show THEN Ids(ed, Correct(opts)) ELSE {}
        chosen == Range(reply.selected)
    IN  IF q.allowPartialScoring THEN chosen \cap key # {}
        ELSE key # {} /\ chosen = key

IsCorrect(q, opts, ed, reply, score, show) ==
    CASE \/ q.type \in {"subjective", "essay"} /\ reply.free
         \/ q.type \in {"fill_blank", "match"} -> score > 0
      [] q.type = "file" /\ reply.free -> FALSE
      [] OTHER -> SelectionShown(q, opts, ed, reply, show)

-----------------------------------------------------------------------------
(***************************************************************************)
(* The question and its answers.                                           *)
(***************************************************************************)
\* Mutant: marks that are not given stay so.
RowsAsGiven(opts) == IF opts = None THEN <<>> ELSE opts

Rows(opts) ==
    IF opts = None THEN <<>>
    ELSE [i \in DOMAIN opts |->
            [opts[i] EXCEPT !.marks = IF opts[i].marks = None THEN 0 ELSE opts[i].marks]]

Row(dto) == [type |-> dto.type, allowPartialScoring |-> dto.allowPartialScoring,
             marks |-> IF dto.marks = None THEN 1 ELSE dto.marks,
             allowMultiple |-> dto.allowMultiple, gradingType |-> dto.gradingType]

Unanswered == [pc |-> "none"]
NoEdit == [pc |-> "none"]

Init == /\ question = None /\ options = <<>> /\ edition = 1
        /\ edit = NoEdit /\ edits = 0 /\ created = None
        /\ answer = [s \in Students |-> Unanswered]

\* In one transaction.
Create(dto) ==
    /\ question = None
    /\ Accepts(dto, dto.options, FALSE)
    /\ question' = Row(dto) /\ options' = Rows(dto.options) /\ created' = dto
    /\ UNCHANGED <<edition, edit, answer, edits>>

\* What update validates, the question it has read covering what it was given.
UpdateAccepts(patch) ==
    patch.type \notin {None, question.type} \/ patch.options # None =>
        Accepts(question, options, TRUE)

Update(patch) ==
    /\ question # None /\ edit = NoEdit
    /\ edits < MaxEdits /\ edits' = edits + 1
    /\ UpdateAccepts(patch)
    /\ question' = [f \in DOMAIN question |->
                        IF f \in DOMAIN patch /\ patch[f] # None THEN patch[f] ELSE question[f]]
    /\ edit' = IF patch.options = None THEN NoEdit
               ELSE [pc |-> "delete", options |-> patch.options]
    /\ UNCHANGED <<options, edition, answer, created>>

DeleteOptions ==
    /\ edit.pc = "delete"
    /\ options' = <<>>
    /\ edit' = [edit EXCEPT !.pc = "save"]
    /\ UNCHANGED <<question, edition, answer, edits, created>>

SaveOptions ==
    /\ edit.pc = "save"
    /\ options' = Rows(edit.options)
    /\ edition' = edition + 1
    /\ edit' = NoEdit
    /\ UNCHANGED <<question, answer, edits, created>>

\* An error or a crash: what was done stays.
UpdateFails ==
    /\ edit # NoEdit
    /\ edit' = NoEdit
    /\ UNCHANGED <<question, options, edition, answer, edits, created>>

\* submitAnswer reads the question, and then its options.
Submit(s) ==
    /\ question # None /\ answer[s].pc # "read"
    /\ \E ed \in 1 .. edition : \E reply \in Replies[question.type][ed] :
        answer' = [answer EXCEPT ![s] = [pc |-> "read", seen |-> question, reply |-> reply]]
    /\ UNCHANGED <<question, options, edition, edit, edits, created>>

ScoreAnswer(s) ==
    LET a == answer[s]
    IN  /\ a.pc = "read"
        /\ answer' = [answer EXCEPT ![s] =
                        [pc |-> "given", seen |-> a.seen, reply |-> a.reply, of |-> edition,
                         score |-> Score(a.seen, options, edition, a.reply)]]
        /\ UNCHANGED <<question, options, edition, edit, edits, created>>

Next ==
    \/ \E dto \in Dtos : Create(dto)
    \/ \E patch \in Patches : Update(patch)
    \/ DeleteOptions \/ SaveOptions \/ UpdateFails
    \/ \E s \in Students : Submit(s) \/ ScoreAnswer(s)

Spec == Init /\ [][Next]_vars

-----------------------------------------------------------------------------
\* The rows, the requests and the answers are what their types say.
TypeOK ==
    /\ question \in QuestionRow \cup {None}
    /\ options \in Seq(OptionRow)
    /\ edition \in 1 .. MaxEdits + 1 /\ edits \in 0 .. MaxEdits
    /\ edit = NoEdit \/ (edit.pc \in {"delete", "save"} /\ edit.options \in Seq(OptionDto))
    /\ created \in QuestionDto \cup {None}
    /\ \A s \in Students :
        LET a == answer[s]
        IN  \/ a = Unanswered
            \/ /\ a.pc \in {"read", "given"} /\ a.seen \in QuestionRow /\ a.reply \in Reply
               /\ a.pc = "given" => a.score \in Int /\ a.of \in 1 .. edition

OneAnswer(q) == q.type \in SingleChoice \/ (q.type = "dropdown" /\ ~q.allowMultiple)

\* A question with something to get right, worth its marks.
Consistent(q, opts) ==
    /\ Correct(opts) # {}
    /\ OneAnswer(q) => Cardinality(Correct(opts)) = 1
    /\ q.allowPartialScoring => Total(opts, Correct(opts)) = q.marks

Marked(q, opts) ==
    q.marks > 0 /\ (q.allowPartialScoring => \A i \in Correct(opts) : opts[i].marks > 0)

NoRepeats(reply) == IsInjective(reply.selected) /\ IsInjective(reply.matches)

(***************************************************************************)
(* validateQuestionOptions: a question it accepts is consistent, if its    *)
(* marks and options were given and each correct option of a text with     *)
(* blanks has its blank.                                                   *)
(***************************************************************************)
ValidationSuffices ==
    /\ created # None /\ edits = 0
    /\ created.gradingType \notin FormStyle
    /\ created.type \notin {"rating", "subjective", "essay", "file"}
    /\ created.marks # None /\ created.options \notin {None, <<>>}
    /\ created.type = "fill_blank" => \A i \in Correct(options) : options[i].blankIndex # None
    => Consistent(question, options)

Scored(s) == answer[s].pc = "read" /\ answer'[s].pc = "given"

(***************************************************************************)
(* calculateQuestionScore: no answer without repetitions earns less than   *)
(* nothing or more than the marks of a question that is consistent, the    *)
(* answer to another edition of it included.                               *)
(***************************************************************************)
ScoreWithinMarks ==
    [][\A s \in Students :
        /\ Scored(s) /\ NoRepeats(answer[s].reply)
        /\ Consistent(answer[s].seen, options) /\ Marked(answer[s].seen, options)
        => answer'[s].score \in 0 .. answer[s].seen.marks]_vars

\* What a right answer is: partial scoring does not mind wrong choices.
Right(q, opts, ed, reply) ==
    LET chosen == Range(reply.selected)
    IN  CASE q.type \in SingleChoice \cup {"dropdown"} ->
                \E i \in Correct(opts) : reply.selected = <<Id(ed, i)>>
          [] q.type = "multiple_answer" ->
                /\ Ids(ed, Correct(opts)) \subseteq chosen
                /\ q.allowPartialScoring \/ chosen \subseteq Ids(ed, Correct(opts))
          [] q.type = "fill_blank" ->
                \A i \in Correct(opts) :
                    reply.blanks[Place(opts, i)] \in {opts[i].text} \X {TRUE, opts[i].caseSensitive}
          [] q.type = "match" ->
                {<<Id(ed, i), opts[i].matchWith>> : i \in Correct(opts)} \subseteq Range(reply.matches)

(***************************************************************************)
(* calculateQuestionScore: of the complete answers without repetitions to  *)
(* a consistent question that is scored, the right ones and no others earn *)
(* its marks.                                                              *)
(***************************************************************************)
FullMarksIfRight ==
    [][\A s \in Students :
        LET q == answer[s].seen
            reply == answer[s].reply
        IN  /\ Scored(s) /\ NoRepeats(reply)
            /\ Consistent(q, options) /\ Marked(q, options)
            /\ OneAnswer(q) \/ q.type \in {"multiple_answer", "fill_blank", "match"}
            /\ q.type = "fill_blank" =>
                    /\ Len(reply.blanks) >= Cardinality(Correct(options))
                    /\ \A i \in Correct(options) : options[i].text # ""
            => (answer'[s].score = q.marks <=> Right(q, options, edition, reply))]_vars

(***************************************************************************)
(* getAttemptAnswersheet: of choices, those shown as correct are those     *)
(* that scored, as long as the question has not changed since and the test *)
(* shows the correct answers.                                              *)
(***************************************************************************)
SheetAgrees ==
    \A s \in Students :
        LET a == answer[s]
        IN  /\ a.pc = "given" /\ edit = NoEdit
            /\ a.seen = question /\ a.of = edition
            /\ \/ question.type = "multiple_answer"
               \/ question.type \in SingleChoice /\ ~question.allowPartialScoring
            /\ Consistent(question, options) /\ Marked(question, options)
            /\ NoRepeats(a.reply)
            => (IsCorrect(question, options, edition, a.reply, a.score, TRUE) <=> a.score > 0)
=============================================================================
