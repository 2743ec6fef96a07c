SPECIFICATION FairSpec
CONSTANTS
    Files <- MCNoFile
    Dirs <- MCDirs
    MntSupModes = {0}
    MntSupPaths = {FALSE}
    AllocMayFail = TRUE
    NULL = NULL
    MountLines <- MCMountLines
    MaxLines = 3
    MaxFailures = 1
    ExemptLists <- MCLinkExemptLists
    Links <- MCLinks
    Stat <- MCStat
    Garbage <- MCGarbage
INVARIANT NoLeak
INVARIANT NoDuplicateDirs
CHECK_DEADLOCK FALSE
PROPERTY ReadmntReturns
