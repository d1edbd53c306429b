SPECIFICATION Spec
CONSTANTS
    Regs = {0, 5, 10, 15}
    NoReg = 16
    ByteBits = 7
    Cases <- MCNumberCases
    Canonical = {}
INVARIANT OverflowIsTruncated
CHECK_DEADLOCK FALSE
