SPECIFICATION Spec
CONSTANTS
    PolicyFiles <- TwoFiles
    ServiceFiles <- NoNames
    PolicyContents <- DockerContents
    ServiceContents <- MCServiceContents
    Processes <- MCProcesses
    Wanted <- MCWanted
    DNS <- MCDNS
    None = None
INVARIANT EveryConditionCounts
