SPECIFICATION CtxSpec
CONSTANTS
    Files <- MCNoFile
    Dirs <- MCDirs
    MntSupModes = {0}
    MntSupPaths = {FALSE}
    AllocMayFail = TRUE
    NULL = NULL
    MountLines <- MCContextLines
    MaxLines = 2
    MaxFailures = 1
    ExemptLists <- MCNoExemptLists
    Links <- MCLinks
    Stat <- MCStat
    Garbage <- MCGarbage
    Predicates <- MCPredicates
    Records <- MCRecords
    Exemptions <- MCExemptions
    MaxResults = 2
INVARIANT RepeatedGathersAgree
INVARIANT CachesAreCurrent
INVARIANT CtxTypeOK
INVARIANT DestroyFreesAll
INVARIANT OptionsMoveOneWay
CHECK_DEADLOCK FALSE
