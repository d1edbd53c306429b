SPECIFICATION Spec
CONSTANTS
    Regs = {0, 5, 10, 15}
    NoReg = 16
    ByteBits = 7
    Cases <- MCAddressCases
    Canonical = {}
INVARIANT AddressNamesAreValues
CHECK_DEADLOCK FALSE
