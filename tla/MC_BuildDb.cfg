SPECIFICATION FairSpec
CONSTANTS
    SourceName <- Sources
    ObjectName <- ObjectNames
    Wrapper <- Wrappers
    Reader <- Readers
    EmptyDb <- EmptyDatabase
    Update <- UpdateDb
    Tool <- RunBuild
    InitFs <- Tree0
    Deps <- Dependencies
    Agree <- Describes
    Garbage = Garbage
    Free = Free
    MaxCrash = 1
INVARIANTS TypeOK LockExclusive FailureNeedsCrash DbFollowsBuild
PROPERTIES ReadsCommitted AbstractSpec StartedProcessesEnd
CHECK_DEADLOCK FALSE
