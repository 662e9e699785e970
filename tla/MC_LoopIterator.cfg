SPECIFICATION FairSpec
CONSTANTS
    MaxValue = 2
    MaxUnroll = 2
    MaxDelay = 1
    AllowFull = TRUE
    Env <- MCEnv
    Bottom <- MCBottom
    EnvLeq <- MCLeq
    EnvJoin <- MCJoin
    EnvWiden <- MCWiden
    State <- Values
    Gamma <- MCGamma
    Token <- MCToken
    Alarm <- MCAlarm
    Loops <- MCLoops
    Sem <- MCSem
    Errors <- MCErrors
    Transfer <- MCTransfer
    Options <- MCOptions
    InFlows <- MCInFlows
CHECK_DEADLOCK FALSE
INVARIANTS
    TypeOK
    Soundness
    EnclosingFlowKept
PROPERTIES
    Termination
