SPECIFICATION SupSpec
CONSTANTS
    Files <- MCFiles
    Dirs <- MCDirs
    MntSupModes = {1, 2}
    MntSupPaths = {TRUE, FALSE}
    AllocMayFail = TRUE
    NULL = NULL
INVARIANT BucketsAllocatedWhenSearched
CHECK_DEADLOCK FALSE
