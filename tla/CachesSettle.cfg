CONSTANTS
    NULL = NULL
    Requests = {r1, r2}
    Tests = {t1}
    Questions = {q1}
    MaxEdits = 2
    Overlap <- Sharing
    Faults = {"redis", "abort", "expiry", "refused"}
SPECIFICATION FairSpec
PROPERTY SettlesFresh
