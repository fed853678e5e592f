-------------------------- MODULE FilesystemWriter --------------------------
(***************************************************************************)
(* The filesystem writer: the producer hands it blocks, the metadata       *)
(* schema and the metadata; a pool of workers runs the codec bound to each *)
(* section; one emitter writes the sections to the image in the order in   *)
(* which they were handed in; flush waits for the last of them and writes  *)
(* the section index.  The implementation is behind                        *)
(* filesystem_writer::impl, so the module follows the format               *)
(* specification, with the names of include/dwarfs/filesystem_writer.h.    *)
(***************************************************************************)
EXTENDS Integers, Sequences, SequencesExt

CONSTANTS
    Categories,     \* the fragment categories of the blocks
    Codecs,         \* the block compressors that may be bound
    SchemaCodec,    \* schema_bc of the constructor
    MetadataCodec,  \* metadata_bc of the constructor
    Workers,        \* the threads of the worker group
    MaxBlocks,      \* bound: the block sections of one build
    Recompressed,   \* bound: the section types that are handed in compressed
    HeaderSizes,    \* the lengths of the header copy_header may be given
    Original,       \* the length of a section that is stored as it is
    Compressed      \* the length of a section its codec made smaller

VARIABLES
    pc,             \* where the producer is in the build
    default,        \* the default compressor
    byCategory,     \* the compressor of each category
    header,         \* the length of the header copied to the image
    sections,       \* what was handed in, in order, and how far it got
    worker,         \* of each worker, the section it compresses, or 0
    image,          \* the sections written: [type, no, compression, offset, length]
    size,           \* the bytes written, as size() returns them
    index,          \* the section index, once flush wrote it
    failure         \* "none", or what aborted the build: "codec" or "io"

vars == <<pc, default, byCategory, header, sections, worker, image, size,
          index, failure>>

NoCodec == "unset"
Uncompressed == "none"
Types == {"block", "metadata_v2_schema", "metadata_v2"}
Writing == {"setup", "blocks", "schema", "metadata"}

IsBlock(s) == s.type = "block"

\* The block number write_block returns.
BlockNumber == Len(SelectSeq(sections, IsBlock))

\* The compressor bound to the category, else the default.
CodecOf(cat) == IF byCategory[cat] # NoCodec THEN byCategory[cat] ELSE default

Section(type, no, codec, state, compression, length) ==
    [type |-> type, no |-> no, codec |-> codec, state |-> state,
     compression |-> compression, length |-> length]

Queued(type, no, codec) ==
    Section(type, no, codec, "queued", Uncompressed, Original)

Init ==
    /\ pc = "setup"
    /\ default = NoCodec
    /\ byCategory = [c \in Categories |-> NoCodec]
    /\ header = 0
    /\ sections = <<>>
    /\ worker = [w \in Workers |-> 0]
    /\ image = <<>>
    /\ size = 0
    /\ index = <<>>
    /\ failure = "none"

\* The compressors are bound before the first section, each once.
AddDefaultCompressor(bc) ==
    /\ pc = "setup" /\ default = NoCodec
    /\ default' = bc
    /\ UNCHANGED <<pc, byCategory, header, sections, worker, image, size,
                   index, failure>>

AddCategoryCompressor(cat, bc) ==
    /\ pc = "setup" /\ byCategory[cat] = NoCodec
    /\ byCategory' = [byCategory EXCEPT ![cat] = bc]
    /\ UNCHANGED <<pc, default, header, sections, worker, image, size,
                   index, failure>>

\* The image header, copied as it is in front of section 0.
CopyHeader(n) ==
    /\ pc = "setup" /\ header = 0
    /\ header' = n
    /\ size' = n
    /\ UNCHANGED <<pc, default, byCategory, sections, worker, image, index,
                   failure>>

\* The producer hands in the blocks, then the schema, then the metadata.
Follows(type) ==
    /\ failure = "none"
    /\ pc \in (IF type = "metadata_v2" THEN {"schema"} ELSE {"setup", "blocks"})
    /\ type = "block" => BlockNumber < MaxBlocks

Phase(type) ==
    CASE type = "block" -> "blocks"
      [] type = "metadata_v2_schema" -> "schema"
      [] type = "metadata_v2" -> "metadata"

HandIn(s) ==
    /\ Follows(s.type)
    /\ sections' = Append(sections, s)
    /\ pc' = Phase(s.type)
    /\ UNCHANGED <<default, byCategory, header, worker, image, size, index,
                   failure>>

WriteBlock(cat) ==
    /\ default # NoCodec
    /\ HandIn(Queued("block", BlockNumber, CodecOf(cat)))

WriteMetadataV2Schema == HandIn(Queued("metadata_v2_schema", 0, SchemaCodec))

WriteMetadataV2 == HandIn(Queued("metadata_v2", 0, MetadataCodec))

\* A section that is compressed already goes to the emitter as it is.
WriteCompressedSection(type, compression) ==
    HandIn(Section(type, IF type = "block" THEN BlockNumber ELSE 0,
                   compression, "ready", compression, Compressed))

Waiting == {i \in DOMAIN sections : sections[i].state = "queued"}

\* A job that stays in the queue while a worker runs it.
OldestPending ==
    CHOOSE i \in DOMAIN sections :
        sections[i].state \in {"queued", "compressing"}
\* The worker group is a queue: the oldest job is taken first.
NextJob == CHOOSE i \in Waiting : \A j \in Waiting : i <= j

Start(w) ==
    /\ failure = "none"
    /\ worker[w] = 0 /\ Waiting # {}
    /\ worker' = [worker EXCEPT ![w] = NextJob]
    /\ sections' = [sections EXCEPT ![NextJob].state = "compressing"]
    /\ UNCHANGED <<pc, default, byCategory, header, image, size, index,
                   failure>>

\* The job of w ends and leaves its section as s.
Finish(w, s) ==
    /\ worker[w] # 0
    /\ worker' = [worker EXCEPT ![w] = 0]
    /\ sections' = [sections EXCEPT ![worker[w]] = s]
    /\ UNCHANGED <<pc, default, byCategory, header, image, size, index>>

Compress(w) ==
    LET s == sections[worker[w]]
    IN /\ Finish(w, [s EXCEPT !.state = "ready", !.compression = s.codec,
                              !.length = Compressed])
       /\ UNCHANGED failure

\* bad_compression_ratio: the section is stored as it is.
FallBack(w) ==
    /\ Finish(w, [sections[worker[w]] EXCEPT !.state = "ready"])
    /\ UNCHANGED failure

\* A failure that nobody is told of.
Unrecorded(what) == failure
\* The first failure aborts the build.
Recorded(what) == IF failure = "none" THEN what ELSE failure

\* Any other error of the codec.
CodecFails(w) ==
    /\ Finish(w, [sections[worker[w]] EXCEPT !.state = "failed"])
    /\ failure' = Recorded("codec")

\* The emitter writes whatever section is ready.
FirstReady ==
    CHOOSE i \in DOMAIN sections \cup {Len(sections) + 1} :
        i > Len(sections) \/ sections[i].state = "ready"
\* The emitter writes the sections in the order they were handed in.
NextToEmit == Len(image) + 1

CanEmit ==
    /\ failure = "none"
    /\ NextToEmit \in DOMAIN sections
    /\ sections[NextToEmit].state = "ready"

Emit ==
    LET s == sections[NextToEmit]
    IN /\ CanEmit
       /\ image' = Append(image, [type |-> s.type, no |-> s.no,
                                  compression |-> s.compression,
                                  offset |-> size, length |-> s.length])
       /\ size' = size + s.length
       /\ sections' = [sections EXCEPT ![NextToEmit].state = "written"]
       /\ UNCHANGED <<pc, default, byCategory, header, worker, index, failure>>

\* An I/O error on the output is fatal.
EmitFails ==
    /\ CanEmit
    /\ failure' = "io"
    /\ UNCHANGED <<pc, default, byCategory, header, sections, worker, image,
                   size, index>>

\* flush is called and waits for the emitter.
Flush ==
    /\ pc \in Writing
    /\ pc' = "flushing"
    /\ UNCHANGED <<default, byCategory, header, sections, worker, image, size,
                   index, failure>>

AllWritten == pc = "flushing" /\ failure = "none" /\ Len(image) = Len(sections)

\* flush writes the section index behind the last section and returns.
WriteIndex ==
    /\ AllWritten
    /\ index' = [i \in DOMAIN image |->
                    [type |-> image[i].type, offset |-> image[i].offset,
                     length |-> image[i].length]]
    /\ pc' = "flushed"
    /\ UNCHANGED <<default, byCategory, header, sections, worker, image, size,
                   failure>>

IndexFails ==
    /\ AllWritten
    /\ failure' = "io"
    /\ pc' = "failed"
    /\ UNCHANGED <<default, byCategory, header, sections, worker, image, size,
                   index>>

\* The call the producer is in throws what aborted the build.
Throw ==
    /\ pc \in Writing \cup {"flushing"}
    /\ failure # "none"
    /\ pc' = "failed"
    /\ UNCHANGED <<default, byCategory, header, sections, worker, image, size,
                   index, failure>>

Producer ==
    \/ \E bc \in Codecs : AddDefaultCompressor(bc)
    \/ \E cat \in Categories, bc \in Codecs : AddCategoryCompressor(cat, bc)
    \/ \E n \in HeaderSizes : CopyHeader(n)
    \/ \E cat \in Categories : WriteBlock(cat)
    \/ WriteMetadataV2Schema
    \/ WriteMetadataV2
    \/ \E type \in Recompressed : WriteCompressedSection(type, Uncompressed)
    \/ Flush
    \/ WriteIndex
    \/ IndexFails
    \/ Throw

Job(w) == Compress(w) \/ FallBack(w) \/ CodecFails(w)

Emitter == Emit \/ EmitFails

\* The build is over and the pool is idle.
Ended ==
    /\ pc \in {"flushed", "failed"}
    /\ \A w \in Workers : worker[w] = 0
    /\ UNCHANGED vars

Next ==
    \/ Producer
    \/ Emitter
    \/ \E w \in Workers : Start(w) \/ Job(w)
    \/ Ended

\* The workers and the emitter are threads of their own, every codec call
\* returns, and flush returns once what it waits for is there.
Fairness ==
    /\ \A w \in Workers : WF_vars(Start(w)) /\ WF_vars(Job(w))
    /\ WF_vars(Emitter)
    /\ WF_vars(WriteIndex \/ IndexFails)
    /\ WF_vars(Throw)

Spec == Init /\ [][Next]_vars /\ Fairness

-----------------------------------------------------------------------------

States == {"queued", "compressing", "ready", "failed", "written"}
AllCodecs == Codecs \cup {SchemaCodec, MetadataCodec, Uncompressed}

\* The variables have their types, every worker has a job of its own, and
\* what is in the image is what write_block and the others handed in first.
TypeOK ==
    /\ pc \in Writing \cup {"flushing", "flushed", "failed"}
    /\ default \in Codecs \cup {NoCodec}
    /\ byCategory \in [Categories -> Codecs \cup {NoCodec}]
    /\ header \in HeaderSizes \cup {0}
    /\ sections \in Seq([type : Types, no : 0..(MaxBlocks - 1),
                         codec : AllCodecs, state : States,
                         compression : AllCodecs,
                         length : {Original, Compressed}])
    /\ worker \in [Workers -> 0..Len(sections)]
    /\ \A w \in Workers : worker[w] # 0 =>
          /\ sections[worker[w]].state = "compressing"
          /\ \A v \in Workers \ {w} : worker[v] # worker[w]
    /\ Len(image) <= Len(sections)
    /\ \A i \in DOMAIN sections : sections[i].state = "written" <=> i <= Len(image)
    /\ size \in Nat
    /\ failure \in {"none", "codec", "io"}

\* The image is laid out as ImageLayout says: whatever the order in which
\* the workers finish (Compress, FallBack), Emit writes the sections in the
\* order of write_block, write_metadata_v2_schema and write_metadata_v2, so
\* that block n of the image is the block write_block returned n for and the
\* metadata lies behind the blocks it names; each has the compression of
\* the codec bound to it or none; the offsets start at the end of the
\* header of copy_header and leave no gap; flush writes the index only
\* behind the last section, and not at all when the build was aborted.
Layout ==
    INSTANCE ImageLayout WITH
        Bases <- HeaderSizes,
        Sections <- [type : Types, no : 0..(MaxBlocks - 1), codec : AllCodecs],
        Lengths <- {Original, Compressed},
        Uncompressed <- Uncompressed,
        base <- header,
        accepted <- [i \in DOMAIN sections |->
                        [type |-> sections[i].type, no |-> sections[i].no,
                         codec |-> sections[i].codec]],
        written <- image,
        outcome <- CASE pc = "flushed" -> "closed"
                     [] pc = "failed" -> "aborted"
                     [] OTHER -> "open"

ImplementsImageLayout == Layout!Spec

\* flush returns: with the index written, or throwing what aborted the
\* build.  A codec that fails in a worker (CodecFails) leaves a section the
\* emitter never gets, and flush must not wait for it.
FlushReturns == (pc = "flushing") ~> (pc \in {"flushed", "failed"})

=============================================================================
