SPECIFICATION SupSpec
CONSTANTS
    Files <- MCFiles
    Dirs <- MCDirs
    MntSupModes = {1, 2}
    MntSupPaths = {TRUE, FALSE}
    AllocMayFail = TRUE
    NULL = NULL
INVARIANT SupTypeOK
INVARIANT FailClosed
INVARIANT AnswerIsListed
INVARIANT AnswerIsFromFile
CHECK_DEADLOCK FALSE
