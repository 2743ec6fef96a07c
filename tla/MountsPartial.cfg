SPECIFICATION Spec
CONSTANTS
    Files <- MCNoFile
    Dirs <- MCDirs
    MntSupModes = {0}
    MntSupPaths = {FALSE}
    AllocMayFail = TRUE
    NULL = NULL
    MountLines <- MCMountLines
    MaxLines = 3
    MaxFailures = 1
    ExemptLists <- MCExemptLists
    Links <- MCLinks
    Stat <- MCStat
    Garbage <- MCGarbage
INVARIANT ReturnedTableIsComplete
CHECK_DEADLOCK FALSE
