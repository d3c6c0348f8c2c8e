CONSTANTS
    m1 = m1
    m2 = m2
    m3 = m3
    Versions = {m1, m2, m3}
    Catalogue <- MCCatalogue
    Dependencies <- MCDependencies
    Runners = {n1, n2}
    MaxCalls = 3
SPECIFICATION Spec
\* No call is left.
CHECK_DEADLOCK FALSE
SYMMETRY Symmetric
INVARIANTS
    TypeOK
    OncePerProcess
    DependenciesFirst
    LeftOutOnlyIfFailed
