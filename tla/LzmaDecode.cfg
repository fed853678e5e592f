SPECIFICATION Spec
CONSTANTS
    Containers <- MCContainers
    StreamLens <- MCStreamLens
    FrameSizes <- MCFrameSizes
INVARIANTS
    TypeOK
    ContainerReadsWellPlaced
    PublishedBufferIsSound
PROPERTIES
    ErrorIsSticky
    ConstructorLeaksOnlyPastTheFooter
    IntactBlockIsDecoded
