SPECIFICATION Spec
CONSTANTS
    Chars <- MCChars
    Cases <- MCCases
INVARIANTS
    NoLetterIsLost
    StringsStayWhole
    LinesEndStatements
    PositionsAreOrdered
CHECK_DEADLOCK FALSE
