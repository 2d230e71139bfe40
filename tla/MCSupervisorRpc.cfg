SPECIFICATION LiveSpec
CONSTANTS
    Kinds = {"stop", "update"}
    Answers <- AllAnswers
    RespCap = 2
    NotifCap = 1
    SocketCap = 1
    MaxCalls = 7
    MayTimeout = TRUE
    None = None
INVARIANTS
    TypeOK
    LagsByTimeouts
    PipelineInOrder
PROPERTY CallReturns
