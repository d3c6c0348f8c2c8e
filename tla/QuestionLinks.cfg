CONSTANTS
    NULL = NULL
    Omitted = Omitted
    p1 = p1
    p2 = p2
    o1 = o1
    o2 = o2
    o3 = o3
    Questions = {q1}
    Parents = {p1, p2}
    Options = {o1, o2, o3}
    OwnerOf <- TwoAndOne
    Tests = {t1}
    Requests = {r1, r2}
    Rows = {x1, x2, x3, x4}
SPECIFICATION Spec
SYMMETRY Symmetric
INVARIANTS
    TypeOK
    DuplicatesBounded
    LinksSettle
