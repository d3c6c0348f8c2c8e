CONSTANTS
    NULL = NULL
    k1 = k1
    k2 = k2
    q1 = q1
    q2 = q2
    q3 = q3
    Attempts = {a1}
    Authors = {w1}
    Rules = {k1, k2}
    Questions = {q1, q2, q3}
    Marks <- Weights
    Preselected <- Chosen
    RuleRows <- MCRuleRows
    Connections = 3
    MaxEdits = 2
SPECIFICATION FairSpec
INVARIANTS
    TypeOK
    PaperMatchesRules
PROPERTIES
    StartsFinish
