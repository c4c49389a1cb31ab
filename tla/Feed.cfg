SPECIFICATION MCSpec
CONSTANTS
    Users = {u1, u2}
    Accounts = {"la", "lb"}
    MaxFlows = 2
    MaxLinks = 1
    MaxRotations = 1
    Top <- MCTop
    Recs <- MCRecs
    Mixes <- MCMixes
    Radio <- MCRadio
    Labs <- MCLabs
    Similar <- MCSimilar
    Enrich <- MCEnrich
    Limit = 2
    SectionsPerPage = 4
    Lastfm = TRUE
    MaxRequests = 2
    MaxFailures = 2
    Named <- MCNamed
    DumpRows <- MCDumpRows
    Queries <- MCQueries
    Plain <- MCPlain
    Foreign <- MCForeign
    Alike <- MCAlike
    Lessons <- MCLessons
    Letters = {"a", "b", "c", "l", "o"}
    Mbids = {1}
    Scores = {79, 100}
    Resolvers = {p1}
    Lookups = {g1}
    MinSearchScore = 80
    MaxMishaps = 1
    Absent = Absent
    Undefined = Undefined
    Readers = {r1, r2}
    NameOf <- MCNameOf
    PerformerName <- MCPerformerName
    Venues <- MCVenues
    Places <- MCPlaces
    Limits <- MCLimits
    Capital <- MCCapital
    Marks <- MCMarks
    Personal <- MCPersonal
    MaxAsks = 2
    Listeners = {l1, l2}
    Ticks = 2
    Visits = 2
    Edits = 1
    ClockEnd = 3
    PreviewTtl = 1
    MaxAttempts = 2
    FailureThreshold = 2
    ResetTimeout = 1
    SuccessThreshold = 1
    MaxResetTimeout = 1
INVARIANTS FlowsBindTheirStarter DegradationIsHonest MergeIsRight NoFalseMerge Faithful ShelfIsTheOneAsked PreviewsPlay
CHECK_DEADLOCK FALSE
