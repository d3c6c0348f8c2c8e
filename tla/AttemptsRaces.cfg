CONSTANTS
    NULL = NULL
    p = p
    c = c
    s = s
    Requests = {r1, r2}
    AttemptIds = {a1}
    AnswerIds = {i1, i2}
    Questions = {p, c, s}
    ParentOf <- PaperParent
    Compulsory = {p, c}
    Subjective = {s}
    Marks = {0, 1, 2}
    Tests <- RaceTests
    Batches <- RaceBatches
    Reviews <- OneReview
    Overlap <- RaceOverlap
SPECIFICATION Spec
\* An archived test past its end date has nothing left to do.
CHECK_DEADLOCK FALSE
VIEW ReadState
SYMMETRY Symmetric
INVARIANTS
    GradedOnlyWhenComplete
