SPECIFICATION Spec
CONSTANTS
    Numeral <- MCNumeral
    Operators <- MCOperators
    WordBits = 3
    IntBits = 6
    MaxDepth = 5
    Cases <- MCCases
INVARIANTS
    ParserFollowsGrammar
    OperandsNeedNoPrecedence
CHECK_DEADLOCK FALSE
