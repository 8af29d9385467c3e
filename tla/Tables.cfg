SPECIFICATION Spec
CONSTANTS
    PolicyFiles <- TwoFiles
    ServiceFiles <- TwoFiles
    PolicyContents <- MCPolicyContents
    ServiceContents <- MCServiceContents
    Processes <- MCProcesses
    Wanted <- MCWanted
    DNS <- MCDNS
    None = None
INVARIANTS
    NothingElseIsLost
    SpecificFirst
    SecondSortChangesNothing
    AppliesAsWritten
    GeneratedPolicyApplies
    ServicesAsListed
