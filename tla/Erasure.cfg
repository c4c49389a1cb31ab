SPECIFICATION FairSpec
CONSTANTS
    Accounts = {w1}
    Workers = {k1, k2}
    MaxRows = 3
    Configured = TRUE
INVARIANTS NoResurrection EvidenceSurvives
PROPERTY RestoreCompletes
CHECK_DEADLOCK FALSE
