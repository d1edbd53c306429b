SPECIFICATION Spec
CONSTANTS
    Procs = {"p1"}
    Path <- MCPath
    Config = "gctrm.toml"
    Jobs <- IncludeJobs
    Before = Before
    NoFile = NoFile
INVARIANT SourcesSurvive
CHECK_DEADLOCK FALSE
