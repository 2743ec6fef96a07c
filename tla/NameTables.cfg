SPECIFICATION NameSpec
CONSTANTS
    Platforms <- MCPlatforms
    IPROTOL = 8
    Namechl = 64
    Protocols <- MCProtocols
    Families <- MCFamilies
    Addresses <- MCAddresses
    BufSizes = {4, 32}
    NULL = NULL
INVARIANT NameTypeOK
INVARIANT LabelsAreDistinct
INVARIANT KnownNameIsWhole
INVARIANT UnknownKeepsNumber
PROPERTY NumbersAreToldApart
