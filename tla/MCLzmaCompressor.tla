-------------------------- MODULE MCLzmaCompressor --------------------------
(***************************************************************************)
(* LzmaCompressor for TLC.  size_t has four bits, so that the block of no  *)
(* bytes asks for a buffer of 15, above the vector's limit of 7.  Blocks   *)
(* have 0, 1 and 4 bytes; the streams of a block of 4 take one byte less,  *)
(* as many and more than the block, in every combination of the two        *)
(* chains.  Options are at and around the ends of the documented ranges.   *)
(***************************************************************************)
EXTENDS LzmaCompressor

MCSizeBits == 4

MCMaxCalls == 2

MCBlocks ==
    {[size |-> 0, plain |-> 1, filtered |-> 1],
     [size |-> 1, plain |-> 1, filtered |-> 2]}
        \cup [size : {4}, plain : 2..5, filtered : 2..5]

Option(level, binary, dict_size, mode, mf) ==
    [level |-> level, binary |-> binary, dict_size |-> dict_size,
     mode |-> mode, mf |-> mf]

MCOptions ==
    {Option(9, binary, None, "absent", "absent") :
        binary \in {"absent", "known", "unknown"}}
        \cup {Option(0, "absent", d, "known", "known") :
                 d \in {11, 12, 30, 31, 32, 44}}
        \cup {Option(level, "known", 12, "absent", "absent") :
                 level \in {0, 9, 10}}
        \cup {Option(9, "absent", 44, "unknown", "absent"),
              Option(9, "absent", None, "unknown", "absent"),
              Option(9, "known", 30, "absent", "unknown")}

=============================================================================
