------------------------- MODULE MCFilesystemWriter -------------------------
EXTENDS FilesystemWriter

MCCategories == {"pcm"}
MCCodecs == {"flac", "zstd"}
MCWorkers == {"w1", "w2"}
MCHeaderSizes == {3}
MCRecompressed == {"block"}

=============================================================================
