SPECIFICATION Spec
CONSTANTS
    Containers <- MCContainers
    StreamLens <- MCStreamLens
    FrameSizes <- MCFrameSizes
INVARIANTS
    MoreMeansIncomplete
