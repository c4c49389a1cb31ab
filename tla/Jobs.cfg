SPECIFICATION FairAuditSpec
CONSTANTS
    Runs = {r1, r2}
    Servers = {s1, s2}
    Pooled = TRUE
    MaxHolds = 2
    Rows = {a, b}
    Users = {u}
    NoUser = NoUser
    PostDeletion = 0
    FullFidelity = 1
    HardDelete = 2
    UsersPerBatch = 1
    RowsPerBatch = 1
    MaxBatches = 1
PROPERTIES EvidenceKept WindowsEnd
