SPECIFICATION Spec
CONSTANTS
    Rules <- MCRules
    Streams <- MCStreams
    Files <- MCFiles
    Roots <- MCRoots
    Paths <- MCPaths
    MaxCalls = 3
    MaxDepth = 6
INVARIANTS
    TypeOK
    SeenFilesAreOpenFiles
    DebugListsDivideTheEntries
    LoadInlinesDepthFirst
    RootInvisibleToComponentRules
PROPERTIES
    LoadTerminates
