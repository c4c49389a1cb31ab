SPECIFICATION MCSpec
CONSTANTS
    Nodes = {n1, n2}
    Builds <- MCBuilds
    Versions <- MCVersions
    Files <- MCFiles
    Broken = {"bad"}
    Envs = {"e"}
    None = None
    MaxPushes = 1
    MaxFaults = 1
    App = n1
    Cache = Cache
    Lb = Lb
    Network = Network
    Dns = Dns
    Bucket = Bucket
    MaxChanges = 2
    Main = main
    NoBranch = none
    Target = target
    Points = {p1}
    Quota = 7
    RpKeep = 1
    Drills = 2
    MaxSlips = 2
    MaxDay = 5
INVARIANTS SchemaFirst CleanedUp NothingExpiredPasses
PROPERTY MCDownEmpties
CHECK_DEADLOCK FALSE
