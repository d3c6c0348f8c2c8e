----------------------------- MODULE MCAttempts -----------------------------
(***************************************************************************)
(* Instances of Attempts for TLC: the question paper has a compulsory      *)
(* question p, its child c, and a free-text question s.                    *)
(***************************************************************************)
EXTENDS Attempts, TLC

CONSTANTS p, c, s

PaperParent == [q \in {p, c, s} |-> IF q = c THEN p ELSE NULL]

Ans(q, m, o) == [question |-> q, score |-> m, opens |-> o]
Rev(q, m) == [question |-> q, score |-> m]

Plain(g, o, rs, n) ==
    [type |-> "plain", gradingType |-> g, isObjective |-> o,
     allowResubmission |-> rs, attempts |-> n, passingMarks |-> 2]

RuleBased(rs) == [Plain("quiz", FALSE, rs, 2) EXCEPT !.type = "rule_based"]

(***************************************************************************)
(* One request at a time, every kind of test.                              *)
(***************************************************************************)
SerialTests ==
    {Plain("quiz", FALSE, rs, 2) : rs \in BOOLEAN}
    \cup {Plain("assessment", FALSE, FALSE, 2), Plain("feedback", FALSE, TRUE, 1),
          Plain("quiz", TRUE, FALSE, 1), Plain("quiz", TRUE, FALSE, 2),
          Plain("quiz", TRUE, TRUE, 1)}
    \cup {RuleBased(TRUE)}

SerialBatches ==
    { <<Ans(p, 1, {c})>>, <<Ans(c, 1, {})>>, <<Ans(s, 0, {}), Ans(p, 2, {})>> }

SerialReviews == { <<Rev(p, 0), Rev(s, 2)>> }

(***************************************************************************)
(* Two starts, or a start and anything else, in flight together.           *)
(***************************************************************************)
StartTests == {Plain("quiz", TRUE, FALSE, 1), Plain("quiz", TRUE, FALSE, 2),
               Plain("quiz", FALSE, TRUE, 1)}

(***************************************************************************)
(* Answers, submissions and reviews of one attempt in flight together.     *)
(***************************************************************************)
RaceTests == {Plain("quiz", FALSE, FALSE, 1)}

RaceBatches == { <<Ans(p, 2, {c})>>, <<Ans(c, 1, {})>> }

OneReview == { <<Rev(p, 1)>> }

RaceOverlap == SUBSET {"answer", "submit", "import"}

AllOverlap == SUBSET Kinds
NoOverlap == {}

\* What the handlers read.  The LMS and the auxiliary variable are written only,
\* so states that differ in them alone have the same future for every invariant
\* that does not mention them.
ReadState == <<dbvars, req>>

Symmetric == Permutations(AttemptIds) \cup Permutations(AnswerIds)
                \cup Permutations(Requests)
=============================================================================
