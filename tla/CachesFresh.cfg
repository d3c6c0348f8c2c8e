CONSTANTS
    NULL = NULL
    Requests = {r1, r2}
    Tests = {t1, t2}
    Questions = {q1}
    MaxEdits = 2
    Overlap <- OneTestEdit
    Faults = {}
SPECIFICATION Spec
SYMMETRY Symmetric
INVARIANTS
    TypeOK
    StaleIsDroppedOrLate
    ListFresh
