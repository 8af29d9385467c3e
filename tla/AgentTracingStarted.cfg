SPECIFICATION FairAgentSpec
CONSTANTS
    Idle = Idle
    Names <- LogOnly
    Contexts <- NginxOnly
    Pushes <- AgentPushes
    WriteErrors = FALSE
    OneWay = {TRUE, FALSE}
    MaxCommands = 0
    Clients <- OneClient
    Options <- MCOptions
    Window = 1
    Tables <- NoTable
    MaxVersion = 1
PROPERTIES
    StartedMeansTraced
