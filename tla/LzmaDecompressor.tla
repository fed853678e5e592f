------------------------- MODULE LzmaDecompressor -------------------------
(***************************************************************************)
(* The frame-incremental LZMA block decompressor,                          *)
(* lzma_block_decompressor of src/src/compression/lzma.cpp.                *)
(*                                                                         *)
(* A decompressor is built over one compressed block.  Its constructor     *)
(* walks the xz container backwards (stream padding, footer, index) to     *)
(* learn the uncompressed size, starts a liblzma stream decoder and        *)
(* reserves the target buffer.  Every decompress_frame call then appends   *)
(* one frame to the target buffer, until the stream ends.                  *)
(*                                                                         *)
(* The bytes are abstracted to their number.  liblzma is the environment:  *)
(* what lzma_code may answer is the operator LzmaCode, what it finds in    *)
(* the container are the fields of a Container record.                     *)
(***************************************************************************)
EXTENDS Integers, FiniteSetsExt

CONSTANTS
    Containers,    \* the compressed blocks a decompressor may be built over
    StreamLens,    \* the numbers of bytes a block's stream may really hold
    FrameSizes     \* the frame sizes a caller may ask for

\* LZMA_STREAM_HEADER_SIZE: the size of an xz stream header and of a footer.
StreamHeaderSize == 12

(***************************************************************************)
(* What get_uncompressed_size reads of a compressed block: its size in     *)
(* bytes, the number of zero 32-bit words at its end (stream padding),     *)
(* whether liblzma accepts the footer, the size of the index the footer    *)
(* declares, how decoding the index ends, and the two sizes the index      *)
(* declares.                                                               *)
(***************************************************************************)
Container ==
    [size : Nat, zeroWords : Nat, footerOk : BOOLEAN, backwardSize : Nat,
     index : {"ok", "no_decoder", "bad"}, totalSize : Nat, usize : Nat]

ASSUME /\ Containers \subseteq Container
       /\ StreamLens \subseteq Nat
       /\ FrameSizes \subseteq Nat \ {0}

VARIABLES
    state,         \* "none": no decompressor; "ready": constructed
    usize,         \* uncompressed_size_
    capacity,      \* what decompressed_.reserve() obtained
    decompressed,  \* decompressed_.size()
    written,       \* how many bytes of decompressed_ the decoder wrote
    peak,          \* the largest size decompressed_ was resized to
    error,         \* error_ is not empty
    streamOpen,    \* stream_ holds a decoder that lzma_end has not freed
    result,        \* how the last call ended
    blockSize,     \* the size of the block the last constructor was given
    reads,         \* the byte ranges that constructor read of the block
    leaked,        \* the liblzma objects abandoned without lzma_end
    left,          \* environment: bytes the stream has not yet yielded
    corrupt,       \* environment: liblzma may find the stream corrupt
    intact         \* environment: the block is what the writer stored

vars == <<state, usize, capacity, decompressed, written, peak, error,
          streamOpen, result, blockSize, reads, leaked, left, corrupt, intact>>

Results == {"none", "more", "done", "throw", "ctor_throw", "abort"}

-----------------------------------------------------------------------------
(***************************************************************************)
(* get_uncompressed_size: the checks, in program order.                    *)
(***************************************************************************)

\* pos after the loop over the stream padding: pos starts at the footer of
\* an unpadded stream and moves back four bytes per zero word.
FooterAt(c) == c.size - StreamHeaderSize - 4 * c.zeroWords

\* pos after "pos -= index_size".
IndexAt(c) == FooterAt(c) - c.backwardSize

\* The iterations of the padding loop that leave pos before the smallest
\* place a footer can be at.
PaddingOverruns(c) ==
    {i \in 1..c.zeroWords :
        c.size - StreamHeaderSize - 4 * i < 2 * StreamHeaderSize}

\* The words the padding loop reads: one per evaluation of its condition,
\* which the throw inside the loop cuts short.
PaddingReads(c) ==
    LET last == IF PaddingOverruns(c) = {} THEN c.zeroWords
                ELSE Min(PaddingOverruns(c)) - 1
    IN {[what |-> "padding", at |-> c.size - 4 * (j + 1), len |-> 4] :
           j \in 0..last}

TooSmall(c) == c.size < 2 * StreamHeaderSize

\* Two ways to get the index check wrong: to leave it out, and to forget
\* the stream header that precedes the index.
IndexSizeUnchecked(c) == FALSE

IndexSizeWithoutHeader(c) == FooterAt(c) < c.backwardSize

\* "data error (index size)": the index would start before the header.
IndexSizeBad(c) == FooterAt(c) < c.backwardSize + StreamHeaderSize

TotalSizeBad(c) == IndexAt(c) - StreamHeaderSize < c.totalSize

(***************************************************************************)
(* The checks of get_uncompressed_size as a sequence: whether the check    *)
(* throws, what it reads of the block before it decides, and which         *)
(* liblzma objects are alive, and never freed, if it throws.               *)
(***************************************************************************)
SizeChecks(c) ==
    << [fails |-> TooSmall(c), reads |-> {}, lost |-> {}],
       [fails |-> PaddingOverruns(c) # {},
        reads |-> PaddingReads(c), lost |-> {}],
       [fails |-> ~c.footerOk,
        reads |-> {[what |-> "footer", at |-> FooterAt(c),
                    len |-> StreamHeaderSize]},
        lost |-> {}],
       [fails |-> IndexSizeBad(c), reads |-> {}, lost |-> {}],
       [fails |-> c.index = "no_decoder", reads |-> {}, lost |-> {}],
       [fails |-> c.index = "bad",
        reads |-> {[what |-> "index", at |-> IndexAt(c),
                    len |-> c.backwardSize]},
        lost |-> {"index_decoder"}],
       [fails |-> TotalSizeBad(c), reads |-> {},
        lost |-> {"index_decoder", "index"}] >>

\* The checks get_uncompressed_size gets to: all of them, or those up to
\* the first that throws.
ChecksRun(c) ==
    LET failing == {i \in DOMAIN SizeChecks(c) : SizeChecks(c)[i].fails}
    IN 1..(IF failing = {} THEN 7 ELSE Min(failing))

\* get_uncompressed_size without lzma_end and lzma_index_end.
FreedNever(last) == FALSE

\* lzma_end and lzma_index_end, which only the last lines get to.
Freed(last) == ~last.fails

GetUncompressedSize(c) ==
    LET run == ChecksRun(c)
        last == SizeChecks(c)[Max(run)]
    IN [ok    |-> ~last.fails,
        reads |-> UNION {SizeChecks(c)[i].reads : i \in run},
        lost  |-> IF Freed(last) THEN {} ELSE last.lost]

-----------------------------------------------------------------------------
(***************************************************************************)
(* The constructor.  The three ways it ends: get_uncompressed_size throws; *)
(* lzma_stream_decoder fails; reserve fails, after the decoder was         *)
(* allocated, and no destructor runs for an object whose constructor       *)
(* threw; or the decompressor is ready.                                    *)
(***************************************************************************)
Construct(c, len, bad, decoderOk, reserveOk) ==
    LET gus == GetUncompressedSize(c)
        built == gus.ok /\ decoderOk /\ reserveOk
    IN /\ state = "none"
       /\ blockSize' = c.size
       /\ reads' = gus.reads
       /\ leaked' = leaked \cup gus.lost
                      \cup (IF gus.ok /\ decoderOk /\ ~reserveOk
                            THEN {"decoder"} ELSE {})
       /\ state' = IF built THEN "ready" ELSE "none"
       /\ result' = IF built THEN "none" ELSE "ctor_throw"
       /\ usize' = IF built THEN c.usize ELSE 0
       /\ capacity' = IF built THEN c.usize ELSE 0
       /\ streamOpen' = built
       /\ left' = IF built THEN len ELSE 0
       /\ corrupt' = (built /\ bad)
       /\ intact' = (built /\ ~bad /\ len = c.usize)
       /\ decompressed' = 0
       /\ written' = 0
       /\ peak' = 0
       /\ error' = FALSE

-----------------------------------------------------------------------------
(***************************************************************************)
(* decompress_frame.                                                       *)
(***************************************************************************)

\* What lzma_code may answer when asked for avail bytes.  The decoder was
\* opened with LZMA_CONCATENATED, so it reports the end of the stream only
\* under LZMA_FINISH; a corrupt stream may fail at any call, after any
\* part of the output; a stream that lzma_end has freed answers
\* LZMA_PROG_ERROR.
LzmaCode(finish, avail) ==
    IF ~streamOpen THEN {[ret |-> "PROG_ERROR", wrote |-> 0]}
    ELSE LET n == Min({avail, left})
         IN {[ret   |-> IF finish /\ left <= avail THEN "STREAM_END" ELSE "OK",
              wrote |-> n]}
            \cup (IF corrupt
                  THEN {[ret |-> "DATA_ERROR", wrote |-> k] : k \in 0..n}
                  ELSE {})

\* The frame would run past the uncompressed size: it is the last one, cut
\* to what is missing, and decoded with LZMA_FINISH.
Finishes(frame_size) == decompressed + frame_size > usize

FrameLen(frame_size) ==
    IF Finishes(frame_size) THEN usize - decompressed ELSE frame_size

\* Two ways to get the test of lzma_code's answer wrong: to trust the
\* return code alone, and to take a call that wrote nothing for a failure.
FrameFailedByCodeOnly(finish, o, len) ==
    o.ret # (IF finish THEN "STREAM_END" ELSE "OK")

FrameFailedWithoutProgress(finish, o, len) ==
    \/ o.ret # (IF finish THEN "STREAM_END" ELSE "OK")
    \/ o.wrote # len
    \/ o.wrote = 0

\* The frame failed: liblzma did not answer what the action calls for, or
\* it left part of the frame unwritten.
FrameFailed(finish, o, len) ==
    \/ o.ret # (IF finish THEN "STREAM_END" ELSE "OK")
    \/ o.wrote # len

\* decompress_frame that throws without keeping the message.
ForgetError(failed) == FALSE

\* error_ after a frame: the message of the failure, kept for later calls.
RecordError(failed) == failed

\* assert(frame_size > 0) in a build that keeps assertions: the process
\* ends where it stands, and the decompressor with it.
AssertionFails ==
    /\ state' = "none"
    /\ result' = "abort"
    /\ usize' = 0 /\ capacity' = 0 /\ decompressed' = 0
    /\ written' = 0 /\ peak' = 0 /\ left' = 0
    /\ error' = FALSE /\ streamOpen' = FALSE
    /\ corrupt' = FALSE /\ intact' = FALSE

\* The three ways of a call: the error of an earlier call is thrown again;
\* the frame is cut to nothing and, where assertions are compiled in, the
\* assertion fails; or lzma_code is asked for the frame, which without
\* assertions may be one of no bytes.
DecompressFrame(frame_size) ==
    LET finish == Finishes(frame_size)
        len == FrameLen(frame_size)
    IN /\ state = "ready"
       /\ \/ /\ error
             /\ result' = "throw"
             /\ UNCHANGED <<state, usize, capacity, decompressed, written,
                            peak, error, streamOpen, left, corrupt, intact>>
          \/ /\ ~error /\ len = 0
             /\ AssertionFails
          \/ /\ ~error
             /\ \E o \in LzmaCode(finish, len) :
                  LET failed == FrameFailed(finish, o, len)
                  IN /\ left' = left - o.wrote
                     /\ streamOpen' = (streamOpen /\ o.ret # "STREAM_END")
                     /\ error' = RecordError(failed)
                     /\ decompressed' = IF failed THEN 0
                                        ELSE decompressed + len
                     /\ written' = IF failed THEN 0 ELSE written + o.wrote
                     /\ peak' = Max({peak, decompressed + len})
                     /\ result' = CASE failed -> "throw"
                                    [] o.ret = "STREAM_END" -> "done"
                                    [] OTHER -> "more"
             /\ UNCHANGED <<state, usize, capacity, corrupt, intact>>
       /\ UNCHANGED <<blockSize, reads, leaked>>

\* ~lzma_block_decompressor: lzma_end, whatever the stream's state.
Destroy ==
    /\ state = "ready"
    /\ state' = "none"
    /\ streamOpen' = FALSE
    /\ usize' = 0
    /\ capacity' = 0
    /\ decompressed' = 0
    /\ written' = 0
    /\ peak' = 0
    /\ error' = FALSE
    /\ left' = 0
    /\ corrupt' = FALSE
    /\ intact' = FALSE
    /\ result' = "none"
    /\ UNCHANGED <<blockSize, reads, leaked>>

-----------------------------------------------------------------------------
(***************************************************************************)
(* The caller.  A block is decoded for a reader that waits for a range of  *)
(* it.  The codec interface leaves two ways to know when to stop, and the  *)
(* caller of the model is either: it asks for a frame, of any size, while  *)
(* the buffer is shorter than the block, or while decompress_frame has not *)
(* answered that the block is done.                                        *)
(***************************************************************************)
NeedsMore == decompressed < usize

NotToldDone == result \in {"none", "more"}

Asks == state = "ready" /\ (NeedsMore \/ NotToldDone)

Init ==
    /\ state = "none"
    /\ usize = 0
    /\ capacity = 0
    /\ decompressed = 0
    /\ written = 0
    /\ peak = 0
    /\ error = FALSE
    /\ streamOpen = FALSE
    /\ result = "none"
    /\ blockSize = 0
    /\ reads = {}
    /\ leaked = {}
    /\ left = 0
    /\ corrupt = FALSE
    /\ intact = FALSE

New ==
    \E c \in Containers, len \in StreamLens, bad, decoderOk, reserveOk \in BOOLEAN :
        Construct(c, len, bad, decoderOk, reserveOk)

Frame == \E f \in FrameSizes : Asks /\ DecompressFrame(f)

Next == New \/ Frame \/ Destroy

\* The worker that decodes a block runs until its readers are served.
Fairness == WF_vars(Frame)

Spec == Init /\ [][Next]_vars /\ Fairness

-----------------------------------------------------------------------------
TypeOK ==
    /\ state \in {"none", "ready"}
    /\ usize \in Nat
    /\ capacity \in Nat
    /\ decompressed \in Nat
    /\ written \in Nat
    /\ peak \in Nat
    /\ error \in BOOLEAN
    /\ streamOpen \in BOOLEAN
    /\ result \in Results
    /\ blockSize \in Nat
    /\ reads \subseteq
         [what : {"padding", "footer", "index"}, at : Nat, len : Nat]
    /\ leaked \subseteq {"decoder", "index_decoder", "index"}
    /\ left \in Nat
    /\ corrupt \in BOOLEAN
    /\ intact \in BOOLEAN

\* get_uncompressed_size reads the container where its parts can be,
\* whatever sizes a damaged footer declares: every read ends within the
\* block, and the footer and the index it hands to liblzma start after the
\* stream header.
ContainerReadsWellPlaced ==
    \A r \in reads :
        /\ r.at + r.len <= blockSize
        /\ r.what # "padding" => r.at >= StreamHeaderSize

\* What readers hold ranges into stays what it was.  The target buffer
\* never grows past what the constructor reserved, so decompress_frame's
\* resize never reallocates it; and every byte of it was written by the
\* decoder: a frame that liblzma leaves short (a stream that ends before
\* the size its index declares) is never published as zero-filled data.
PublishedBufferIsSound == peak <= capacity /\ written = decompressed

\* A failure is final: after decompress_frame has thrown, the buffer stays
\* empty, every later call throws, and lzma_code is not called again on
\* the failed stream, which lzma_end may already have freed.
ErrorIsSticky ==
    [][(result = "throw" /\ state' = "ready") =>
           (result' = "throw" /\ decompressed' = 0 /\ left' = left)]_vars

\* A block that is what the writer stored is decoded to its full size,
\* and decompress_frame says so, whatever frame sizes the caller asks for
\* and whichever way it decides to go on: the call that follows a frame
\* ending exactly at the uncompressed size is one for no bytes, which
\* lzma_code answers with the end of the stream and which leaves the buffer
\* as it is.  The exceptions are the caller that gives up and the build
\* with assertions, where that call ends the process (assert(frame_size >
\* 0) in decompress_frame).
IntactBlockIsDecoded ==
    (state = "ready" /\ intact) ~>
        ((decompressed = usize /\ result = "done") \/ state = "none")

\* What the codec interface promises of decompress_frame's result: it is
\* "done" when the block is complete.  A frame that ends exactly at the
\* uncompressed size is decoded with LZMA_RUN, and decompress_frame answers
\* "more" although nothing is left to decode.
MoreMeansIncomplete == result = "more" => decompressed < usize

\* liblzma objects are abandoned by a constructor that throws after it
\* has given the index to its decoder, and by nothing else: not by a
\* constructor that returns, not by one that refuses the block for its
\* size, its padding, its footer or the place of its index, or that gets
\* no index decoder.  (The error paths behind lzma_index_decoder and the
\* failed reserve do leak, as the TODO in get_uncompressed_size says.)
ConstructorLeaksOnlyPastTheFooter ==
    [][leaked' # leaked =>
          result' = "ctor_throw" /\ \E r \in reads' : r.what = "index"]_vars

=============================================================================
