SPECIFICATION Spec
CONSTANTS
    SourceName <- Sources
    ObjectName <- ObjectNames
    InitialFiles <- Tree0
    MaxCommands = 9
    Command <- Regular
INVARIANT DbDescribesBuild
CHECK_DEADLOCK FALSE
