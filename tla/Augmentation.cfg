SPECIFICATION Spec
CONSTANTS
    Unset = Unset
    Blank = Blank
    Host = Host
    None = None
    Files <- MCFiles
    Pids = {p1, p2}
    Contexts <- MCContexts
    Scanned <- MCScanned
    Settings <- MCSettings
    TTL = 1
    Cuts = {0, 3, 5}
    MaxTime = 2
    MaxStarts = 1
SYMMETRY PidSymmetry
INVARIANTS
    NoForeignLabels
    FreshAfterSilence
    DumpKeepsConfiguration
PROPERTY WarmStart
