SPECIFICATION SteadyAgentSpec
CONSTANTS
    Idle = Idle
    Names <- LogOnly
    Contexts <- NginxOnly
    Pushes <- AgentPushes
    WriteErrors = FALSE
    OneWay = {FALSE}
    MaxCommands = 3
    Clients <- OneClient
    Options <- MCOptions
    Window = 1
    Tables <- NoTable
    MaxVersion = 1
INVARIANTS
    OnlyTracesComeTooEarly
    CompleteFeedInAgent
PROPERTIES
    ImplementsService
    EveryCommandAnswered
CHECK_DEADLOCK FALSE
