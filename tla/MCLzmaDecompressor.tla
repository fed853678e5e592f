------------------------ MODULE MCLzmaDecompressor ------------------------
(***************************************************************************)
(* LzmaDecompressor for TLC: a handful of compressed blocks, one for every *)
(* way get_uncompressed_size can end, and stream lengths and frame sizes   *)
(* around the uncompressed sizes those blocks declare.                     *)
(***************************************************************************)
EXTENDS LzmaDecompressor

Block(size, zeroWords, footerOk, backwardSize, index, totalSize, usz) ==
    [size |-> size, zeroWords |-> zeroWords, footerOk |-> footerOk,
     backwardSize |-> backwardSize, index |-> index,
     totalSize |-> totalSize, usize |-> usz]

\* Blocks of 48 bytes hold a header, 12 bytes of blocks, an index of 12
\* bytes and a footer; the block of 52 bytes adds one word of padding.
MCWellFormed ==
    {Block(48, 0, TRUE, 12, "ok", 12, u) : u \in {0, 2, 3}}
        \cup {Block(52, 1, TRUE, 12, "ok", 12, 3)}

MCDamaged ==
    { Block(8, 0, TRUE, 12, "ok", 12, 2),           \* shorter than two headers
      Block(40, 2, TRUE, 12, "ok", 12, 2),          \* padding down to the header
      Block(48, 0, FALSE, 12, "ok", 12, 2),         \* footer rejected
      Block(48, 1, TRUE, 24, "ok", 12, 2),          \* index overlaps the header
      Block(48, 1, TRUE, 40, "bad", 12, 2),         \* index larger than the block
      Block(48, 0, TRUE, 12, "no_decoder", 12, 2),  \* no memory for the decoder
      Block(48, 0, TRUE, 12, "bad", 12, 2),         \* index rejected
      Block(48, 0, TRUE, 12, "ok", 16, 2) }         \* blocks larger than the room

MCContainers == MCWellFormed \cup MCDamaged

\* The stream holds less than, as much as, or more than the index declares.
MCStreamLens == {2, 3, 4}

\* Frames that divide the uncompressed size, that end exactly at it, and
\* that run past it.
MCFrameSizes == {1, 2, 3}
=============================================================================
