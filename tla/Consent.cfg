SPECIFICATION MCSpec
CONSTANTS
    Nodes = {n1, n2}
    Clients = {c1}
    Builds = {1, 2, 3, 4, 5}
    Bare = {1}
    FirstBuild = 1
    Docs <- MCDocs
    Required = {"terms", "privacy"}
    Registry <- MCRegistry
    MaxDeploys = 2
    MaxFaults = 1
    MaxReads = 3
INVARIANTS MaterialChangeNeedsAssent LegalTextIsTheOneAsked
PROPERTY MCHandshakeCompletes
CHECK_DEADLOCK FALSE
