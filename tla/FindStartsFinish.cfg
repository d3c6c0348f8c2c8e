\* Two starts, and as many connections.
CONSTANTS
    NULL = NULL
    k1 = k1
    k2 = k2
    q1 = q1
    q2 = q2
    q3 = q3
    Attempts = {a1, a2}
    Authors = {}
    Rules = {k1, k2}
    Questions = {q1, q2, q3}
    Marks <- Weights
    Preselected <- Chosen
    RuleRows <- MCRuleRows
    Connections = 2
    MaxEdits = 0
SPECIFICATION FairSpec
\* Once all connections are held nothing can be done.
CHECK_DEADLOCK FALSE
PROPERTY StartsFinish
