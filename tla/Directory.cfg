SPECIFICATION FairSpec
CONSTANTS
    Addresses = {a1, a2}
    Runs = {s1, s2}
    Servers = {p1, p2}
    Pooled = TRUE
    MaxHolds = 1
    MaxIds = 2
    ReapAfter = 1
    PageSize = 1
    MaxPages = 2
    MaxDeletions = 1
    MaxFaults = 1
    Stubborn = {1}
PROPERTIES ListedVerifiedSurvives Reaped
