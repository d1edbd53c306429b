SPECIFICATION FairSpec
CONSTANTS
    Procs = {"p1", "p2"}
    Path <- MCPath
    Config = "gctrm.toml"
    Jobs <- SharedJobs
    Before = Before
    NoFile = NoFile
INVARIANTS
    StatusZeroMeansDone
    SidecarsFollowTheirGct
    NoTemporaryFilesLeft
PROPERTIES
    FilesChangeAsAWhole
    EveryJobIsTried
CHECK_DEADLOCK FALSE
