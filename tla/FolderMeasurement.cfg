SPECIFICATION Spec
CONSTANTS
    Paths <- MCPaths
    OutsidePaths <- MCOutsidePaths
    Nodes <- MCNodes
    Contents <- MCContents
    MaxLinks = 3
    MaxChanges = 2
    None = None
CHECK_DEADLOCK FALSE
INVARIANTS
    TypeOK
    UndisturbedExact
    UntouchedExact
    TotalBindsEntries
    SourcesInside
