CONSTANTS
    NULL = NULL
    p = p
    c = c
    s = s
    Requests = {r1}
    AttemptIds = {a1, a2}
    AnswerIds = {i1, i2, i3}
    Questions = {p, c, s}
    ParentOf <- PaperParent
    Compulsory = {p, c}
    Subjective = {s}
    Marks = {0, 1, 2}
    Tests <- SerialTests
    Batches <- SerialBatches
    Reviews <- SerialReviews
    Overlap <- NoOverlap
SPECIFICATION Spec
\* An archived test past its end date has nothing left to do.
CHECK_DEADLOCK FALSE
SYMMETRY Symmetric
INVARIANTS
    TypeOK
    NumbersSequential
    OneCurrentAttempt
    OneAnswerPerQuestion
    ScoreIsTotal
    ReviewedResultMatches
PROPERTIES
    ImplementsLifecycle
    AnswersFrozen
