SPECIFICATION FairSpec
CONSTANTS
    Idle = Idle
    Clients <- MCClients
    Options <- MCOptions
    Contexts <- MCContexts
    Window = 1
    MaxLogs = 2
INVARIANTS
    TypeOK
    CompleteFeed
    KernelAgrees
    OnlyWhatWasAskedFor
PROPERTIES
    GoneIsForgotten
    ResponsesAreTaken
CHECK_DEADLOCK FALSE
