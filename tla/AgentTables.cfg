SPECIFICATION FairAgentSpec
CONSTANTS
    Idle = Idle
    Names <- SignOnly
    Contexts <- NginxOnly
    Pushes <- AgentPushes
    WriteErrors = FALSE
    OneWay = {FALSE}
    MaxCommands = 1
    Clients <- NoClient
    Options <- MCOptions
    Window = 1
    Tables <- OneTable
    MaxVersion = 3
PROPERTIES
    TablesNeverGoBack
    KernelUpToDate
