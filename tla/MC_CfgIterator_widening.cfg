SPECIFICATION Spec
CONSTANTS
    Node = {1, 2, 3}
    MaxValue = 4
    MaxSteps = 15
    StartValue = 2
    Conditions = {{1, 2, 3, 4}}
    MCDelays = {0}
    Graphs <- Whiles
    Env <- MCEnv
    Bottom <- MCBottom
    EnvLeq <- MCLeq
    EnvJoin <- MCJoin
    EnvWiden <- MCWiden
    State <- Values
    Gamma <- MCGamma
    Token <- MCToken
    Alarm <- MCAlarm
    Sem <- MCSem
    Errors <- MCErrors
    Transfer <- MCTransfer
    Options <- MCOptions
    InFlows <- MCInFlows
CHECK_DEADLOCK FALSE
INVARIANT
    Soundness
