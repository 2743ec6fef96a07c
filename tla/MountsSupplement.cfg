SPECIFICATION Spec
CONSTANTS
    Files <- MCSupFiles
    Dirs <- MCDirs
    MntSupModes = {2}
    MntSupPaths = {TRUE}
    AllocMayFail = FALSE
    NULL = NULL
    MountLines <- MCMountLines
    MaxLines = 3
    MaxFailures = 1
    ExemptLists <- MCExemptLists
    Links <- MCLinks
    Stat <- MCStat
    Garbage <- MCGarbage
INVARIANT StatFieldsAreOwn
INVARIANT FailClosed
CHECK_DEADLOCK FALSE
