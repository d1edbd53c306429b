SPECIFICATION Spec
CONSTANTS
    Labels = {l1, l2}
    NoLabel = NoLabel
    Policies <- MCPolicies
    DataSizes <- MCDataSizes
    WriteSizes <- MCWriteSizes
    BlockSizes <- MCBlockSizes
    Half = 12
    MaxStatements = 4
    MaxSections = 2
SYMMETRY LabelSymmetry
INVARIANTS
    TypeOK
    JumpsLand
    ReferencesResolved
    LinesFramed
    BlockOffsetsAreFinal
    OffsetsAreFinal
    DataReachesImage
CHECK_DEADLOCK FALSE
