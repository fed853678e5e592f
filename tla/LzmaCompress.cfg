SPECIFICATION Spec
CONSTANTS
    Options <- MCOptions
    Blocks <- MCBlocks
    SizeBits <- MCSizeBits
    MaxCalls <- MCMaxCalls
INVARIANTS
    TypeOK
    ReturnedBlockIsSmallestAndSmaller
    DocumentedOptionsAreAccepted
    BadRatioMeansATriedChainDoesNotFit
PROPERTIES
    EncoderLeaksOnlyWhenBufferIsRefused
