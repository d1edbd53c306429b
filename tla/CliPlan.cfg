SPECIFICATION Spec
CONSTANTS
    Aligned = Aligned
    Absent = Absent
    NoBase = Absent
    Args <- MCArgs
    Role <- RoleTable
    Assigns <- AssignsTable
    Address <- AddressTable
    Key <- KeyTable
    OutputKey <- OutputKeyTable
    AutoConfig = "gctrm.toml"
    NoConfig = ""
    Cases <- MCCases
INVARIANTS
    PrecedenceHolds
    PassesAgree
    NothingIsOverwritten
CHECK_DEADLOCK FALSE
