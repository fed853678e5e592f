SPECIFICATION Spec
CONSTANTS
    Categories <- MCCategories
    Codecs <- MCCodecs
    SchemaCodec = "zstd"
    MetadataCodec = "lzma"
    Workers <- MCWorkers
    MaxBlocks = 2
    Recompressed <- MCRecompressed
    HeaderSizes <- MCHeaderSizes
    Original = 2
    Compressed = 1
INVARIANTS
    TypeOK
PROPERTIES
    ImplementsImageLayout
    FlushReturns
