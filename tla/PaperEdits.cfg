CONSTANTS
    NULL = NULL
    objective = objective
    subjective = subjective
    Requests = {r1, r2}
    Sections = {s1, s2}
    Questions <- Both
    Objective <- OneObjective
    Subjective <- OneSubjective
    Rows = {x1, x2}
    Bodies <- MCBodies
    Overlap <- Careful
SPECIFICATION Spec
SYMMETRY Symmetric
INVARIANTS
    TypeOK
    QuestionOnce
    ObjectiveHolds
    Attached
PROPERTY AttemptedKeepsQuestions
CHECK_DEADLOCK FALSE
