SPECIFICATION FairSpec
CONSTANTS
    Files = {root, f, g}
    Root = root
    NoFile = NoFile
    Aliases = {x}
    Macros = {m}
    MaxInclude = 2
    MaxMacro = 2
    Limit = 5
INVARIANTS
    NestingIsBounded
    LogFollowsSections
    NamesStayInScope
PROPERTIES
    OpenBlocksHoldTheSection
    DisabledIsSilent
    Terminates
CHECK_DEADLOCK FALSE
