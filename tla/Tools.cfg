SPECIFICATION Spec
CONSTANTS
    Paths <- MCPaths
    ArgLists <- MCArgLists
    Platforms <- MCPlatforms
    Endings <- MCEndings
INVARIANTS
    TypeOK
    ToolRunsAsAsked
    VersionIsRemovedUnlessDotted
