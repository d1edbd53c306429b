SPECIFICATION Spec
CONSTANTS
    Space = 256
    Base = 128
    Low = 16
    Addresses = {5, 136, 142, 165}
    Registers = {128, 145}
    Arrays = {3, 8}
    Scripts <- MCScripts
INVARIANTS
    HandlerKeepsStep
    EffectsFollowSource
CHECK_DEADLOCK FALSE
