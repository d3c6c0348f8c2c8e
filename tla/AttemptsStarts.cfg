CONSTANTS
    NULL = NULL
    p = p
    c = c
    s = s
    Requests = {r1, r2}
    AttemptIds = {a1, a2, a3, a4}
    AnswerIds = {}
    Questions = {p, c, s}
    ParentOf <- PaperParent
    Compulsory = {}
    Subjective = {s}
    Marks = {0, 1, 2}
    Tests <- StartTests
    Batches = {}
    Reviews = {}
    Overlap <- AllOverlap
SPECIFICATION Spec
\* An archived test past its end date has nothing left to do.
CHECK_DEADLOCK FALSE
SYMMETRY Symmetric
INVARIANTS
    OvershootBounded
    NumbersWithinLimit
