SPECIFICATION Spec
CONSTANTS
    Blocks <- MCBlocks
    Size <- MCSize
    Corrupt <- MCCorrupt
    Sound <- MCSound
    Calls = 3
    Workers <- MCWorkers
    MaxBytes = 3
INVARIANTS
    TypeOK
    SingleFlight
PROPERTIES
    LruCorrectness
    ImplementsBlockStore
    EveryGetResolves
