SPECIFICATION Spec
CONSTANTS
    Files <- MCNoFile
    Dirs <- MCDirs
    MntSupModes = {0}
    MntSupPaths = {FALSE}
    AllocMayFail = FALSE
    NULL = NULL
    MountLines <- MCMountLines
    MaxLines = 4
    MaxFailures = 1
    ExemptLists <- MCExemptLists
    Links <- MCLinks
    Stat <- MCStat
    Garbage <- MCGarbage
INVARIANT FreesOnce
CHECK_DEADLOCK FALSE
