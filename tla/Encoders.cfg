SPECIFICATION Spec
CONSTANTS
    Regs = {0, 5, 10, 15}
    NoReg = 16
    ByteBits = 7
    Cases <- MCCases
    Canonical <- MCCanonical
INVARIANTS
    EncodingsDiffer
    CorrectionsAreIndependent
    TargetIgnoresCorrections
    WordsDoWhatTheirNamesSay
    BranchesTestTheirCondition
    DataHoldsItsValues
CHECK_DEADLOCK FALSE
