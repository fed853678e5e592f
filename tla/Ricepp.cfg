SPECIFICATION Spec
CONSTANTS
    Threads <- MCThreads
    Cpus <- MCCpus
    Builds <- MCBuilds
INVARIANTS
    TypeOK
    CodecRunsOnThisCpu
    OneVariantOneMessage
PROPERTIES
    EveryCallReturns
