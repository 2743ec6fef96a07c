SPECIFICATION OctFairSpec
CONSTANTS
    Strings <- MCStrings
    AllocMayFail = TRUE
    NULL = NULL
INVARIANT OctTypeOK
INVARIANT ResultIsUnescaped
INVARIANT CopyFitsAllocation
PROPERTY CallReturns
CHECK_DEADLOCK FALSE
