SPECIFICATION FairSpec
CONSTANTS
    Node = {1, 2, 3, 4}
    MaxValue = 2
    MaxSteps = 12
    StartValue = 0
    Conditions = {{0, 1}}
    MCDelays = {0, 9}
    Graphs <- MCGraphs
    Env <- MCEnv
    Bottom <- MCBottom
    EnvLeq <- MCLeq
    EnvJoin <- MCJoin
    EnvWiden <- MCWiden
    State <- Values
    Gamma <- MCGamma
    Token <- MCToken
    Alarm <- MCAlarm
    Sem <- MCSem
    Errors <- MCErrors
    Transfer <- MCTransfer
    Options <- MCOptions
    InFlows <- MCInFlows
CHECK_DEADLOCK FALSE
INVARIANTS
    TypeOK
    OrderValid
    SoundnessUnlessJumped
    EnclosingFlowKept
PROPERTY
    Termination
