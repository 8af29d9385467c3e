SPECIFICATION FairSpec
CONSTANTS
    Idle = Idle
    load = load
    ctx = ctx
    Names <- MCAllNames
    Contexts <- MCContexts
    Pushes <- MCPushes
    WriteErrors = TRUE
    OneWay = {TRUE, FALSE}
    MaxCommands = 2
INVARIANTS
    TypeOK
    AnswersInOrder
    PipelineOrder
    EveryReplyAccountedFor
    SilentDropOnlyAtTheEnd
PROPERTIES
    RepliesEventually
    ReadsAllWhenHealthy
