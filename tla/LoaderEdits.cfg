SPECIFICATION FairSpec
CONSTANTS
    Files <- MCFiles
    Paths <- TwoDirs
    Dirs <- TwoDirs
    PathOf <- InDirs
    MaxVersion = 3
INVARIANT TypeOK
PROPERTIES
    ContentsAreFresh
    EditsAreLoaded
CHECK_DEADLOCK FALSE
