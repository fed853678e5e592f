SPECIFICATION Spec
CONSTANTS
    Rules <- MCAllRules
    Streams <- MCNoStreams
    Files <- MCNoFiles
    Roots <- MCOneRoot
    Paths <- MCAllPaths
    MaxCalls = 1
    MaxDepth = 1
INVARIANTS
    CompiledRulesMeanTheirGlobs
    CompileLeavesRuleOnlyAfterOpenEscape
