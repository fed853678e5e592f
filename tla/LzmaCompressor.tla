--------------------------- MODULE LzmaCompressor ---------------------------
(***************************************************************************)
(* The LZMA block compressor, lzma_block_compressor of                     *)
(* src/src/compression/lzma.cpp, and the options its factory documents.    *)
(*                                                                         *)
(* The constructor turns an option map into the settings of the encoder.   *)
(* compress encodes a block with the LZMA2 chain and, when a binary mode   *)
(* was asked for, once more with the branch filter in front of it, and     *)
(* returns the smaller result.  Each encoding opens an encoder, gives it   *)
(* an output buffer one byte shorter than the block, and ends the encoder. *)
(*                                                                         *)
(* liblzma is the environment.  What the model takes from it: the encoder  *)
(* accepts a dictionary of 4 KiB to 1.5 GiB; lzma_code with LZMA_FINISH    *)
(* answers LZMA_STREAM_END when the whole stream fits into the output      *)
(* buffer and LZMA_OK when the buffer is full before the stream ends; a    *)
(* preset above 9 is refused; any call may fail for lack of memory, and so *)
(* may the allocation of the output buffer.                                *)
(* The bytes of a block are abstracted to its size and to the sizes of     *)
(* the two streams liblzma would make of it.                               *)
(***************************************************************************)
EXTENDS Integers, FiniteSetsExt

CONSTANTS
    Options,    \* the option maps given to the constructor
    Blocks,     \* the blocks: [size, plain, filtered], the last two the
                \* length of the stream of the chain without and with the
                \* branch filter
    SizeBits,   \* the width of size_t
    MaxCalls    \* bound on the calls of compress

VARIABLES
    compressor, \* the object: opt_lzma_, binary_vli_, description_, if any
    made,       \* the option map of the last constructor call, if any
    pc,         \* "idle", or the encoding compress is about to make
    data,       \* the block of the current or the last call of compress
    best,       \* the local variable best of compress
    result,     \* how the last call ended, and the size of what it returned
    streams,    \* the encoders opened and not ended
    calls       \* the calls of compress made

vars == <<compressor, made, pc, data, best, result, streams, calls>>

\* What stands for no dict_size and no size, no object, no options and no
\* block.
None == -1

NoCompressor == [level |-> None, binary |-> FALSE, dict_size |-> None]

NoOptions == [level |-> None, binary |-> "absent", dict_size |-> None,
              mode |-> "absent", mf |-> "absent"]

NoBlock == [size |-> None, plain |-> None, filtered |-> None]

Ended(status, size) == [status |-> status, size |-> size]

\* size_t arithmetic.
SizeT(n) == n % 2^SizeBits

\* std::vector<uint8_t>::max_size().
VectorMax == 2^(SizeBits - 1) - 1

-----------------------------------------------------------------------------
(***************************************************************************)
(* The constructor.  A name is "absent", "known" or "unknown" to the table *)
(* it is looked up in; dict_size is an exponent or None.                   *)
(***************************************************************************)

\* What the factory documents: level=[0..9], dict_size=[12..30] and the
\* names of the tables.
Documented(o) ==
    /\ o.level \in 0..9
    /\ o.dict_size \in 12..30 \cup {None}
    /\ \A name \in {o.binary, o.mode, o.mf} : name # "unknown"

\* find_option throws for a name that is not in its table.
UnknownName(name) == name = "unknown"

\* A preset that is taken whatever the level.
PresetNeverFails(o) == FALSE

\* lzma_lzma_preset refuses a level above 9.
PresetFails(o) == o.level > 9

\* The dictionary of the preset, in KiB.
PresetDictKiB == 8192

\* The option taken as the size itself.
DictSizeUnshifted(d) == d \div 1024

\* 1 << dict_size, in KiB.
DictSize(d) == IF d < 10 THEN 0 ELSE 2^(d - 10)

\* opt_lzma_.dict_size after the constructor: the shift of an int by 32 and
\* more is undefined, and gives the shift by the low five bits or nothing.
DictSizes(o) ==
    CASE o.dict_size = None -> {PresetDictKiB}
      [] o.dict_size # None /\ o.dict_size < 32 -> {DictSize(o.dict_size)}
      [] OTHER -> {DictSize(o.dict_size % 32), 0}

\* How the statements of the constructor end, in their order.
CtorStatus(o) ==
    CASE UnknownName(o.binary) -> "unknown_option"
      [] PresetFails(o) -> "unsupported_preset"
      [] o.dict_size # None /\ o.dict_size >= 32 -> "undefined"
      [] UnknownName(o.mode) \/ UnknownName(o.mf) -> "unknown_option"
      [] OTHER -> "ok"

Construct(o) ==
    /\ compressor = NoCompressor
    /\ pc = "idle"
    /\ made' = o
    /\ result' = Ended(CtorStatus(o), 0)
    /\ \/ /\ CtorStatus(o) \in {"ok", "undefined"}
          /\ ~(UnknownName(o.mode) \/ UnknownName(o.mf))
          /\ \E kib \in DictSizes(o) :
                compressor' = [level |-> o.level,
                               binary |-> o.binary = "known",
                               dict_size |-> kib]
       \/ /\ CtorStatus(o) \notin {"ok", "undefined"}
             \/ UnknownName(o.mode) \/ UnknownName(o.mf)
          /\ compressor' = NoCompressor
    /\ UNCHANGED <<pc, data, best, streams, calls>>

Destroy ==
    /\ compressor # NoCompressor
    /\ pc = "idle"
    /\ compressor' = NoCompressor
    /\ made' = NoOptions
    /\ data' = NoBlock
    /\ result' = Ended("ok", 0)
    /\ UNCHANGED <<pc, best, streams, calls>>

-----------------------------------------------------------------------------
(***************************************************************************)
(* compress(data, filters): one encoding.                                  *)
(***************************************************************************)

\* lzma_stream_encoder accepts the dictionary.
Encodable(c) == c.dict_size \in 4..(3 * 2^19)

\* compressed(data.size() - 1)
Cap(n) == SizeT(n - 1)

\* lzma_end that is reached only when the stream was completed.
EndedOnSuccess(status) == status = "ok"

\* lzma_end is called whatever lzma_code answered.
EncoderEnded(status) == TRUE

\* A stream that ends at the end of the buffer taken for one that did not.
CodedFullIsBad(needed, cap, fault) ==
    CASE fault = "code" -> "LZMA_MEM_ERROR"
      [] fault # "code" /\ needed >= cap -> "bad_compression_ratio"
      [] OTHER -> "ok"

\* How lzma_code and the statements after it end.
Coded(needed, cap, fault) ==
    CASE fault = "code" -> "LZMA_MEM_ERROR"
      [] fault # "code" /\ needed > cap -> "bad_compression_ratio"
      [] OTHER -> "ok"

\* The vector of the output throws for a size above its limit, and when
\* there is no memory for it.
BufferRefused(n, fault) ==
    CASE Cap(n) > VectorMax -> "length_error"
      [] Cap(n) <= VectorMax /\ fault = "alloc" -> "bad_alloc"
      [] OTHER -> "ok"

\* One encoding of a block of n bytes whose stream takes needed bytes:
\* how it ends, the size of what it returns, the encoders it leaves open.
Encode(c, n, needed, fault) ==
    CASE fault = "init" -> [status |-> "LZMA_MEM_ERROR", size |-> 0, open |-> 0]
      [] fault # "init" /\ ~Encodable(c) ->
            [status |-> "LZMA_OPTIONS_ERROR", size |-> 0, open |-> 0]
      [] fault # "init" /\ Encodable(c) /\ BufferRefused(n, fault) # "ok" ->
            [status |-> BufferRefused(n, fault), size |-> 0, open |-> 1]
      [] OTHER ->
            LET status == Coded(needed, Cap(n), fault)
            IN [status |-> status,
                size |-> IF status = "ok" THEN needed ELSE 0,
                open |-> IF EncoderEnded(status) THEN 0 ELSE 1]

\* The call that fails for lack of memory, if any.
Faults == {"none", "init", "alloc", "code"}

-----------------------------------------------------------------------------
(***************************************************************************)
(* compress(data, metadata): the best of one or two encodings.             *)
(***************************************************************************)
Compress(b) ==
    /\ compressor # NoCompressor
    /\ pc = "idle"
    /\ calls < MaxCalls
    /\ calls' = calls + 1
    /\ data' = b
    /\ best' = None
    /\ pc' = "plain"
    /\ result' = Ended("running", 0)
    /\ UNCHANGED <<compressor, made, streams>>

\* The exception of an encoding leaves compress.
Thrown(r) ==
    /\ r.status # "ok"
    /\ pc' = "idle"
    /\ best' = None
    /\ result' = Ended(r.status, 0)

\* best = compress(data, &filters[1])
Plain ==
    /\ pc = "plain"
    /\ \E fault \in Faults :
          LET r == Encode(compressor, data.size, data.plain, fault)
          IN /\ streams' = streams + r.open
             /\ \/ Thrown(r)
                \/ /\ r.status = "ok"
                   /\ best' = r.size
                   /\ pc' = IF compressor.binary THEN "filtered" ELSE "idle"
                   /\ result' = IF compressor.binary THEN result
                                ELSE Ended("ok", r.size)
    /\ UNCHANGED <<compressor, made, data, calls>>

\* The larger of the two.
Larger(compressed, kept) == IF compressed > kept THEN compressed ELSE kept

\* if (compressed.size() < best.size()) best.swap(compressed)
Smaller(compressed, kept) == IF compressed < kept THEN compressed ELSE kept

\* compressed = compress(data, filters.data()), and the choice.
Filtered ==
    /\ pc = "filtered"
    /\ \E fault \in Faults :
          LET r == Encode(compressor, data.size, data.filtered, fault)
          IN /\ streams' = streams + r.open
             /\ \/ Thrown(r)
                \/ /\ r.status = "ok"
                   /\ best' = Smaller(r.size, best)
                   /\ pc' = "idle"
                   /\ result' = Ended("ok", Smaller(r.size, best))
    /\ UNCHANGED <<compressor, made, data, calls>>

-----------------------------------------------------------------------------
Init ==
    /\ compressor = NoCompressor
    /\ made = NoOptions
    /\ pc = "idle"
    /\ data = NoBlock
    /\ best = None
    /\ result = Ended("ok", 0)
    /\ streams = 0
    /\ calls = 0

Next ==
    \/ \E o \in Options : Construct(o)
    \/ Destroy
    \/ \E b \in Blocks : Compress(b)
    \/ Plain
    \/ Filtered

Spec == Init /\ [][Next]_vars

-----------------------------------------------------------------------------
Statuses ==
    {"ok", "running", "undefined", "unknown_option", "unsupported_preset",
     "bad_compression_ratio", "length_error", "bad_alloc",
     "LZMA_OPTIONS_ERROR",
     "LZMA_MEM_ERROR"}

TypeOK ==
    /\ compressor # NoCompressor =>
          /\ compressor.level \in 0..9
          /\ compressor.binary \in BOOLEAN
          /\ compressor.dict_size \in Nat
    /\ made \in Options \cup {NoOptions}
    /\ pc \in {"idle", "plain", "filtered"}
    /\ data \in Blocks \cup {NoBlock}
    /\ best \in Nat \cup {None}
    /\ result.status \in Statuses /\ result.size \in Nat
    /\ streams \in 0..MaxCalls
    /\ calls \in 0..MaxCalls

\* A block that compress returns is shorter than the block it was made
\* from (a stream that is as long as the block, or longer, is reported as
\* bad_compression_ratio and never returned cut off at the buffer's end),
\* and it is the shortest of the streams compress made: the one of the
\* LZMA2 chain, and with a binary mode the one behind the branch filter.
ReturnedBlockIsSmallestAndSmaller ==
    pc = "idle" /\ data # NoBlock /\ result.status = "ok" =>
        /\ result.size < data.size
        /\ result.size = Min({data.plain} \cup IF compressor.binary
                                               THEN {data.filtered} ELSE {})

\* Options within what the factory documents (level, dict_size and the
\* names of binary mode, compression mode and match finder) make a
\* compressor, and its encoder is never refused for its options: the
\* constructor's 1 << dict_size and the encoder of liblzma agree with the
\* documented range.
DocumentedOptionsAreAccepted ==
    made # NoOptions /\ Documented(made) =>
        result.status \notin {"unknown_option", "unsupported_preset",
                              "undefined", "LZMA_OPTIONS_ERROR"}

\* Every encoder that compress opens is ended before compress is left,
\* by return or by exception of lzma_code and of the checks behind it,
\* with one exception: the output buffer is made between
\* lzma_stream_encoder and lzma_end, and when its vector throws (for lack
\* of memory, and for the empty block, whose size data.size() - 1 wraps
\* around) the encoder that was opened before it is never ended.
EncoderLeaksOnlyWhenBufferIsRefused ==
    [][streams' # streams =>
          result'.status \in {"length_error", "bad_alloc"}]_vars

\* bad_compression_ratio leaves compress only when a chain that was tried
\* does not make the block smaller: the plain chain, or with a binary mode
\* the chain behind the branch filter.  It does not say that the codec
\* cannot make the block smaller: compress tries the chain with the
\* branch filter only after the plain chain succeeded, and lets the
\* failure of either leave the function, so a block that one of the two
\* chains does make smaller is reported as one that cannot be compressed.
BadRatioMeansATriedChainDoesNotFit ==
    pc = "idle" /\ result.status = "bad_compression_ratio" =>
        \/ data.plain >= data.size
        \/ compressor.binary /\ data.filtered >= data.size

=============================================================================
