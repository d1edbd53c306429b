SPECIFICATION Spec
CONSTANTS
    Labels = {l1, l2}
    End = End
    Start = Start
    NoLabel = NoLabel
    NoBase = NoBase
    Policies <- MCPolicies
    Addresses <- MCAddresses
    Bases <- MCBases
    GctOffsets <- MCGctOffsets
    DataSizes <- MCDataSizes
    Reach <- MCReach
    Low = 16
    Base = 128
    Space = 256
    MaxItems = 3
SYMMETRY LabelSymmetry
INVARIANTS
    BranchesLand
    AddressedBranchesLand
    HandlerTakesWholeBlock
    HookReturns
    TargetsItsAddress
CHECK_DEADLOCK FALSE
