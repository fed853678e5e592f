# TLA+ models of DwarFS

DwarFS is a read-only, deduplicating, compressed filesystem image format with
a writer (`mkdwarfs`), a verifier (`dwarfsck`), an extractor and a FUSE driver.
This directory holds TLA+ models of the parts of it whose code is in `src/`
and of the block cache and the filesystem writer the specification
describes, the TLC configurations
that check them, and `PROJECT.json`, which lists every
component, run, property, mutant, finding and hazard and maps every definition
to the lines of source it models.

Run a check from this directory with

    tlc -workers 2 -config <file>.cfg <MC module>

## 1. Inventory

| Component | Source | State | Operations | Talks to |
|---|---|---|---|---|
| LZMA block decompressor | `src/src/compression/lzma.cpp` 267-407 | `stream_`, `decompressed_` (the target buffer, shared with the block cache), `uncompressed_size_`, `error_` | constructor (with `get_uncompressed_size`), `decompress_frame`, destructor | liblzma; the block cache, which calls it frame by frame and hands ranges of the buffer to readers |
| LZMA block compressor, factory | `src/src/compression/lzma.cpp` 47-265, 409-457 | the options parsed at construction | constructor, `compress` (two overloads) | liblzma; the writer's worker pool |
| Rule based entry filter | `src/src/writer/rule_based_entry_filter.cpp` | `filter_`, `root_path_`; `seen_files` during a load | `set_root_path`, `add_rule`, `add_rules`, `compile_filter_rule`, `filter` | the scanner (one `filter` call per entry), `file_access` (merged rule files), `std::regex` |
| Filter debug output | `src/src/writer/filter_debug.cpp` | none | `debug_filter_output` | the scanner, with the verdict of `filter` |
| dwarfsck | `src/src/dwarfsck_main.cpp` | options; the state of the output stream; the worker group and the output mutex of `do_checksum` | `dwarfsck_main`, `do_list_files`, `do_checksum` | the reader (`filesystem_v2`), the block cache through `readv` futures, the I/O layer |
| Universal binary | `src/tools/src/universal.cpp`, `src/src/dwarfs/tool/safe_main.cpp` | none | `SYS_MAIN`, `safe_main` | the four tool mains |
| ricepp CPU dispatch | `src/ricepp/ricepp.cpp` | two function-local statics | `create_codec`, `get_cpu_variant`, `show_cpu_variant_once` | the codec builds; the threads of a compression pool |
| Block cache | interface `src/include/dwarfs/reader/internal/block_cache.h`; behaviour in the specification, 4.3 | per block its state, buffer and waiters; the queue of pending blocks; the LRU order | `get`, the decode worker, insertion with eviction, tidy, release of a range | codecs, the reader, `dwarfsck` through the futures of `readv` |
| Filesystem writer | interfaces `src/include/dwarfs/filesystem_writer.h`, `.../writer/filesystem_writer.h`, `format.h`; behaviour in the specification, 4.1, 4.2, 5, 7 and 8 | the bound compressors; the sections handed in and how far each got; the image and its size; what aborted the build | `add_default_compressor`, `add_category_compressor`, `copy_header`, `write_block`, `write_metadata_v2_schema`, `write_metadata_v2`, `write_compressed_section`, `flush`, `size` | the codecs, in a pool of workers; the output stream, through one emitter |
| Category parser, I/O layer | headers | none | interfaces | none |
| Tests | `src/test/` | none | read for what they expect | none |

What makes these parts hard, and the properties worth checking:

* **Decompressor.** The uncompressed size is read out of a container that may
  be damaged, by arithmetic on sizes the container itself declares. Frames of
  any size are appended to a buffer that readers already hold ranges into; the
  last frame is cut, and decoded with another liblzma action. liblzma can fail
  after writing part of a frame. Properties: reads stay inside the block; the
  buffer stays within its reserve; only decoded bytes are published; a failure
  is final; an intact block is decoded to the end; everything allocated is
  freed.
* **Entry filter.** A character-by-character translation with context (what a
  star means depends on the text before and after it); a recursion over files
  that can be cyclic, with exceptions leaving half-loaded rule sets; two
  different paths (with and without the root) matched by different rules.
* **Compressor.** The output buffer is `data.size() - 1` bytes in unsigned
  arithmetic; the dictionary is `1 << dict_size` of an `int`; an encoding can
  fail at three places, one of them between opening and ending the encoder;
  the second encoding is made only after the first succeeded. Properties: what
  is returned is shorter than the block and the shortest stream made; the
  documented options are accepted down to the encoder; encoders are ended.
* **dwarfsck.** A walker hands jobs to workers which wait on futures of the
  block cache and share one output stream; the exit code has to account for
  what went wrong on another thread, and the function must not return while a
  job still uses its locals.
* **Universal binary.** The tool is chosen from a file name that
  `std::filesystem` takes apart (last dot, hidden names, `..`), with a version
  removed by a search for the first dash, and `--tool=` as the fallback;
  `argv` is rebuilt for the second way only.
* **ricepp dispatch.** Two function-local statics are initialised by
  whichever thread of the pool gets there first while the others wait; the
  variant the CPU answers has a case in the switch only in a build that holds
  its codec. Properties: the codec runs on this CPU and is in this build; one
  variant and at most one message for all threads; every call returns.
* **Block cache.** Concurrency proper: several readers ask for ranges of the
  same block while a worker decodes it frame by frame outside the mutex;
  ready blocks are evicted to make room while ranges still point into them;
  a corrupt block fails whoever waits, in whichever frame its damage is
  met, and the codec clears the buffer it decoded into. Only the interface
  is in `src/`; the behaviour is modelled from section 4.3 of the
  specification.
* **Writer.** `write_block` returns the number of a block before the block
  is compressed; the workers finish in any order, and one emitter has to
  write the sections in the order of the calls; a codec that fails in a
  worker, or an output that fails, has to end a build whose producer waits in
  `flush`. Only the interfaces are in `src/`; the behaviour is modelled from
  sections 4.1, 4.2, 5, 7 and 8 of the specification.

## 2. Plan

Modules in the order they are written. Steps 1 to 8 are done and checked;
step 9 was given up for the reason section 6 states, and the composition
that was built in its place is the one of step 7.

1. `LzmaDecompressor` (+ `MCLzmaDecompressor`): the codec the cache drives.
2. `RuleFilter` (+ `MCRuleFilter`): compile, load, filter.
3. `DwarfsckMain` (+ `ChecksumList`, `MCDwarfsckMain`): the early returns of
   `dwarfsck_main` and its exit code; the walker, the workers and the output
   mutex of `do_checksum`; shown to implement the abstract `ChecksumList`.
4. `LzmaCompressor` (+ `MCLzmaCompressor`): the constructor, one encoding,
   the best of two; the size arithmetic with its width.
5. `ToolDispatch` (+ `MCToolDispatch`): `SYS_MAIN` and `safe_main`.
6. `RiceppDispatch` (+ `MCRiceppDispatch`): `create_codec` called from
   several threads, the two function-local statics initialised once.
7. `BlockCache` (+ `BlockStore`, `MCBlockCache`), from section 4.3 of the
   specification: `get`, the decode workers, eviction, tidy and release; an
   abstract specification `BlockStore` (a future gives the bytes of the whole
   block, or fails) that `BlockCache` is shown to implement by a refinement
   mapping. The codec of a block is what `LzmaDecompressor` was checked to
   be: frames that extend a buffer with decoded bytes, or an error that is
   final and that empties the buffer, also when earlier frames of the block
   were decoded and handed out.
8. `FilesystemWriter` (+ `ImageLayout`, `MCFilesystemWriter`), from sections
   4.1, 4.2, 5, 7 and 8 of the specification: the calls of the producer, the
   pool of compression workers, the ordered emitter, `flush` and the section
   index; shown to implement the abstract `ImageLayout`.
9. A round trip: `LzmaCompressor` and `LzmaDecompressor` composed over one
   block, the decompressor's container being what the compressor returned.
   Not built.

Within the steps that are done, `DwarfsckMain` has gained `do_list_files`,
the state of the output stream, the writes nobody checks and the exception
that unwinds `do_checksum`, `RuleFilter` the lists of `--debug-filter`,
`LzmaDecompressor` the call for a frame of no bytes with its assertion,
`LzmaCompressor` the output buffer that cannot be allocated, and
`BlockCache` the block that fails behind its first frame.

The project keeps to twelve runs, nine that pass and three that show a
violation, and to at most forty properties in the passing runs; it checks
thirty-nine there, and one in each of the other three. A step
that needs a run gets it by folding a run that shows a violation into the
passing run of its module, as a property that states the exception the code
makes; the finding then names the passing run.
`EncoderLeaksOnlyWhenBufferIsRefused`, `BadRatioMeansATriedChainDoesNotFit`,
`RootInvisibleToComponentRules`,
`CompileLeavesRuleOnlyAfterOpenEscape`, `VersionIsRemovedUnlessDotted`,
`NoticedFailuresFailTheRun` and `ConstructorLeaksOnlyPastTheFooter` are
such properties. A step that needs a property gets it by stating two
properties about one hazard as one, or by stating more with a property
there is: `IntactBlockIsDecoded` now also says that the caller is told,
`ToolRunsAsAsked` holds of every name, and `ImplementsBlockStore` is about
a store that knows of damage behind the first frame.

## 3. Modules

### LzmaDecompressor

| Model | Code |
|---|---|
| `state`, `usize`, `decompressed`, `error`, `streamOpen` | whether an object exists, `uncompressed_size_`, `decompressed_.size()`, `!error_.empty()`, whether `stream_` holds a decoder |
| `capacity`, `peak`, `written` | what `reserve` obtained; the largest size a `resize` asked for; the bytes of the buffer the decoder wrote |
| `blockSize`, `reads`, `leaked` | the size of the block the last constructor got, the byte ranges it read, the liblzma objects abandoned |
| `left`, `corrupt`, `intact` | the environment: what the stream still holds, whether liblzma may report corruption, whether the block is what the writer stored |
| `Construct` | the constructor, with `GetUncompressedSize` for `get_uncompressed_size` |
| `DecompressFrame`, `AssertionFails` | `decompress_frame`; its `assert(frame_size > 0)` in a build that keeps assertions |
| `Destroy` | the destructor |

`get_uncompressed_size` is a chain of seven checks, each of which throws or
lets the next one run. The model keeps the chain as the sequence `SizeChecks`:
for each check whether it fails, what it reads of the block before it decides,
and which liblzma objects are alive when it throws. `ChecksRun` is the prefix
up to the first failing check.

liblzma is not part of the repository. `LzmaCode` is what `lzma_code` may
answer on a decoder opened with `LZMA_CONCATENATED`: `LZMA_STREAM_END` only
under `LZMA_FINISH` and only when the stream has no more than was asked for;
`LZMA_OK` otherwise, with as many bytes as there are; for a corrupt stream also
`LZMA_DATA_ERROR` after any part of the frame; `LZMA_PROG_ERROR` on a stream
that `lzma_end` has freed.

The caller (`Frame`) asks for a frame, of any size in `FrameSizes`, while
the buffer is shorter than the block, as a cache does that decodes until its
readers are served, or while `decompress_frame` has not answered "done",
as the codec interface invites. The second caller is the one that meets the
frame of no bytes: after a frame that ended exactly at the uncompressed size
(finding 1), and at the first call for an empty block. `DecompressFrame` then
has two outcomes, one for each kind of build: the assertion ends the process
(`AssertionFails`), or `lzma_code` is called under `LZMA_FINISH` with no room
for output and answers by what the stream still holds.
Both callers are assumptions about the user of the codec, whose code is not
in the repository: the fairness of `Frame` and the premise of
`IntactBlockIsDecoded` rest on them, no safety property does.

### RuleFilter

| Model | Code |
|---|---|
| `filter_`, `root_path_`, `seen_files` | the members of the same names, and the local of the public calls |
| `stack` | the activations of `add_rules`: which stream, and how far it was read |
| `outcome`, `call` | how the last public call ended; what it was given |
| `CompileFilterRule`, `Translate`, `Star`, `Floating` | `compile_filter_rule` |
| `AfterEscape` | the escape case of `compile_filter_rule`: where `p` is after a backslash, inside the rule or behind its terminator |
| `SetRootPath`, `AddRule`, `AddRules` | the public calls |
| `Filter` | `filter`: the first rule that matches decides |
| `Hidden`, `DebugFilterOutput` | `debug_filter_output`: whether an entry has a line in a mode of `--debug-filter`, and its sign |
| `ReadLine`, `EndOfStream` | one turn of the loop of `add_rules`; its end and the `erase` that follows it in `add_rule` |
| `Filter`, `Relpath` | `filter` |

Rules, lines and paths are sequences of one-character strings. A compiled
expression is a sequence of atoms `[of, min, many]`, each standing for what
`std::regex` makes of the text appended in one step: a literal, `[^/]`,
`[^/]*`, `[^/]+`, `.*`. `RegexMatch` is `std::regex_match` over atoms.

`add_rule` and `add_rules` call each other; the model runs the recursion in
steps over an explicit stack, so that a load which does not end is a behaviour
TLC can see rather than an evaluation that does not return. No other call is
possible while a load runs (`Idle`), as in the single-threaded code. An
exception empties the stack and `seen_files` and leaves `filter_` as it is.

A rule that ends in a backslash makes `compile_filter_rule` read behind the
rule (see the findings). The model marks the result `undefined`; the call then
ends with or without a rule added.

`set_root_path` is modelled for a build where the path separator is `/`
(the replacement of separators on Windows is left out), and
`path_to_utf8_string_sanitized` as the identity, which it is on the valid
UTF-8 the model's characters are.

### DwarfsckMain and ChecksumList

| Model | Code |
|---|---|
| `pc`, `exit` | where the main thread is: in `dwarfsck_main` before `do_checksum`, in `do_checksum`, unwinding out of it, returned; the value returned, or what the shell sees of a process that was killed (`Killed`) or terminated (`Aborted`) |
| `errors`, `shown` | `errors` of `dwarfsck_main`; what has been written (usage, header, metadata, information, list, checksums), each whole, short because the stream failed, or cut by an exception |
| `todo`, `queue`, `worker` | the entries `walk_data_order` has not visited; the jobs of `wg` that no thread has taken; per thread the job it runs, where it is in it, and the futures it still waits for |
| `mx`, `out`, `logged` | the mutex of `do_checksum`; the files whose line was given to `iol.out`, in order; the files a `LOG_ERROR` named |
| `Main(o, img)`, `MainEnds` | `dwarfsck_main` from the parsed options to a `return`, to the call of `do_checksum`, or to the signal that ends the process |
| `Failed`, `Written`, `Short` | the test of `iol.out` after the header, the only one there is; what any other write leaves when the stream fails |
| `Throws`, `CheckThrows`, `InfoThrows`, `ListThrows`, `Cut` | an exception that reaches the handler at the end of `dwarfsck_main`, which returns 1: out of `fs.check`, out of `fs.info_as_dynamic` and `fs.dump`, out of `readlink(...).value()` under `--list --verbose`; the output it cut |
| `AtEnd`, `ListCrashes`, `Killed` | `max_element` of an empty range in `do_list_files` and its dereference; the exit status of a process ended by the signal |
| `Walk`, `Return` | one entry of the walk (not a regular file; `add_job`; `getattr` or `readv` fails and is logged); `wg.wait()` and the `return` after it |
| `WalkThrows`, `Unwound` | an exception leaves the walk, and `do_checksum` with it: `mx` is destroyed, then `wg`, whose destructor joins the workers; the handler returns 1 |
| `TakeJob`, `GetRange`, `Lock`, `Write`, `StreamFailed` | a thread of the group takes a job; `fut.get()` returns or throws; `std::lock_guard lock(mx)`, which on a destroyed mutex works as before or ends the process; the line is given to the stream, which takes it or has failed, and the scope of the guard ends |

`dwarfsck_main` is a chain of checks, each of which returns or lets the next
run. `Steps` lists them in program order with the code each returns and what
has been printed when it is passed; `StepsPassed` is the prefix up to the
first that returns. A command line is a record of the options the checks look
at; an image is a record of what opening, checking, exporting and listing
it answers, and of whether the writes to the output succeed. An output that
a failing stream left short is a kind of its own (`short_header`,
`short_list`, ...), and so is one that an exception cut (`cut_info`,
`cut_list`). `dwarfsck_main` looks at the stream after the header and
nowhere else: every other short output goes with the exit code the run would
have had without it. The dereference of the end iterator in `do_list_files`
is undefined: `Main` follows both a process that is killed and one that goes
on.

`do_checksum` has two ways out. `Return` is the one through `wg.wait()`.
`WalkThrows` is an exception out of `walk_data_order` or out of `add_job`
(which stores the job and may find no memory for it) at any entry of the
walk: the function is left without the wait and its locals are destroyed in
the reverse order of their declaration, `mx` (line 109) before `wg` (108).
The workers are threads of `wg` and run until its destructor has joined
them, so between the two destructors they go on with the jobs that are
queued and running, and lock a mutex that is gone. That is undefined; the
model follows the two outcomes builds produce: where the destructor of
`std::mutex` is trivial the memory still works as a mutex, and where it is
not `lock()` throws `std::system_error` in the worker and the process is
terminated (`Aborted`). The source of the worker group is not in the
repository; the model takes from it that `wait()` returns when no job is
queued or running and that the destructor lets the workers finish the queue
before it joins them. The violation of `MutexOutlivesItsJobs` needs neither:
a job that is running when the exception is thrown is enough.

`ChecksumList` is what `--checksum` promises without saying how: every regular
file is dealt with at most once, by a line or by a reported error, and the
tool ends well only when none is left; a tool that gives up in the middle of
the list ends as failed. `DwarfsckMain` maps `pc` to its phase (an exit with
entries of the walk left is the failed one), `out` to its list and `logged`
to its reports; `ImplementsChecksumList` is the abstract specification,
checked as a property of the detailed one. A line is listed when it is given
to the stream: whether the stream took it is what `shown` says.

The command line parser and the layout of what is printed are abstracted
away; exceptions out of `fs.check`, `fs.info_as_dynamic` and `fs.dump` are
the fields `checkOk` and `infoOk` of an image, which `MCImages` lets fail one
at a time like the others.

### LzmaCompressor

| Model | Code |
|---|---|
| `compressor`, `made` | `opt_lzma_` and `binary_vli_` of the object, if there is one; the option map of the last constructor call |
| `pc`, `data`, `best`, `result` | where `compress(data, metadata)` is (before the plain encoding, before the filtered one, not running); its argument; its local `best`; how the last call ended |
| `streams`, `calls` | encoders opened and never ended; the calls of `compress` made |
| `Construct(o)`, `CtorStatus`, `DictSizes` | the constructor: the order of its lookups, the preset, `1 << dict_size` |
| `Encode`, `Coded`, `Cap`, `BufferRefused`, `Encodable`, `EncoderEnded` | `compress(data, filters)`: `lzma_stream_encoder`, the buffer of `data.size() - 1` and the two exceptions of its vector, `lzma_code`, `lzma_end`, the exceptions |
| `Compress`, `Plain`, `Filtered`, `Smaller` | `compress(data, metadata)` |
| `Documented` | the option list of the factory |

A block is three sizes: its own and those of the streams the two filter
chains make of it. `size_t` has `SizeBits` bits, the vector's `max_size()` one
bit less, so that the wrap-around of `data.size() - 1` and the allocation that
refuses it both happen. One call of an encoding may fail for lack of memory
(`Faults`): `lzma_stream_encoder`, the constructor of the output vector, or
`lzma_code`. Dictionary sizes are in KiB, which keeps `1 << 30`
and the encoder's limits of 4 KiB and 1.5 GiB within TLC's integers. A shift
by 32 or more is undefined; `DictSizes` gives the two results compilers
produce (the shift by the low five bits, or zero).

### ToolDispatch

| Model | Code |
|---|---|
| `argv`, `platform` | what `SYS_MAIN` is called with; whether the build defines `_WIN32` |
| `tool`, `toolArgv` | the entry of `functions` that is called, and the `argv` it is given |
| `pc`, `exit` | before `SYS_MAIN`, in a tool, ended; the exit code |
| `Filename`, `Extension`, `Stem` | `std::filesystem::path::filename`, `extension`, `stem` |
| `LooksLikeExecutable`, `NameEnd`, `Unversioned`, `ByName`, `ByOption`, `ArgvCopy`, `Chosen` | the parts of `SYS_MAIN`; `NameEnd` is the `find_first_of('-')` the version is cut at |
| `Dispatch` | `SYS_MAIN` up to the call of the tool, or the help and `return 0` |
| `ToolEnds`, `SafeCode` | `safe_main` |

Paths and arguments are sequences of tokens (a tool's name, `/`, `.`, `-`,
`exe`, `--tool=`, a digit, a letter, a character outside ASCII), which is all
the code tells apart. `std::isdigit` of a negative `char` is undefined:
`IsDigit` answers either way for the character outside ASCII, and
`ToolRunsAsAsked` is stated of both answers.

### RiceppDispatch

| Model | Code |
|---|---|
| `cpu`, `build`, `env` | what `__builtin_cpu_supports` answers (and whether the build has it), the variants `RICEPP_CPU_...` is defined for, whether `RICEPP_SHOW_CPU_VARIANT` is set |
| `variant`, `shown` | the static of `get_cpu_variant` (its guard and its value) and that of `show_cpu_variant_once` (its guard) |
| `pc`, `codec`, `err` | where each thread is in `create_codec`; the variant of the codec it was given; what was written to `std::cerr` |
| `GetCpuVariantInit`, `Switch` | `get_cpu_variant_init`; the case of the switch of `create_codec` that is taken, the default for a variant this build has no case for |
| `EnterVariant`, `InitVariant`, `ReadVariant` | `get_cpu_variant`: the first thread runs the initialiser, the others pass once it has returned |
| `EnterShow`, `Show`, `SkipShow`, `Make` | `show_cpu_variant_once` with `show_cpu_variant`, and `create_codec_cpuspecific_` of the case |

The guard of a function-local static is the three-valued `state` (`none`,
`running`, `done`): `MayEnter` lets one thread in, a thread that finds the
initialiser running has no step until it is `Initialised`. That is what the
language promises of such a static; the model checks what the code builds on
it.

### BlockCache and BlockStore

`block_cache.h` is the interface alone. The definitions of these two modules
are modelled from section 4.3 of the specification and marked `spec_modelled`
in `PROJECT.json`, but for `FrameFails`, which is how `decompress_frame` of
`lzma.cpp` ends a frame that `lzma_code` cannot decode.

| Model | Specification |
|---|---|
| `blk` | of each block its state (UNREFERENCED, PENDING, DECODING, READY, EVICTED), the buffer decoded so far, its waiters, and whether a promise of it was fulfilled |
| `queue`, `worker` | the pending blocks no worker has taken; of each worker its block and the frame it has decompressed and not yet published |
| `lru`, `req` | the blocks in the order of their last `get`; of each call its block, its range and where its future is (`waiting`, `held`, `void`, `failed`, `done`) |
| `Get` | `get`: the range is there and the future is ready; the block is pending or decoding and the call joins its waiters; the block is absent and becomes pending |
| `Start`, `Decode`, `Publish`, `Insert` | the worker: take a pending block; `decompress_frame` outside the mutex; append the frame and signal the waiters it satisfies, or fail them all and leave the ranges of earlier frames void; make the block READY and evict for it |
| `Tidy`, `Release`, `Drop` | the tidy task; the destruction of a range handle; the destruction of a future that is not ready, which may abandon the block |

A step is one critical section of the cache mutex, so whatever the other
threads do comes between `Decode` and `Publish`. A block is a sequence of
units `<<b, i>>`, which tells the bytes of one block from those of another
and one position from another; the frame a worker decodes ends where the
largest outstanding waiter needs it to. A corrupt block has `Sound[b]`
units before its damage and fails in the frame that reaches behind them
(`FrameFails`), which may be its first or a later one. `decompress_frame`
then clears its target (`lzma.cpp:325`), and the target is the buffer of the
block: the waiters fail, the block is UNREFERENCED again, and a range that
an earlier frame served is `void`, a handle on a buffer that holds nothing,
until its reader lets go of it.

`BlockStore` is what the cache promises without saying how: `Get` gives a
future that may be ready already; `Resolve` makes futures ready with the
bytes `from..upto` of the whole decompressed block, which for a corrupt
block must lie before the damage (`Decodes`); `Fail` is the damage of a
block being found, which fails every future of it and empties every range of
it (finding 10); `Leave` drops a future or a range. `BlockCache` maps each call
to its record in `req`, with the data read out of the buffer the cache holds
for the block at that moment (`View`): the refinement fails when a range
that is held points into a buffer that was evicted, abandoned or replaced,
when a future becomes ready before its bytes are decoded, when a future
of a sound block fails or a range of one changes, and when the failure of a
corrupt block misses one of its futures.

Not modelled: `insert(section)` and the `set_` functions, which configure the
cache before the first `get`; the `cache_full` answer of a full cache (the
default, an inserter that waits, is modelled); the ages the tidy task
compares (any ready block no range pins may be tidied at any time).

### FilesystemWriter and ImageLayout

The two headers of `filesystem_writer` forward every call to an
implementation that is not among the sources. Every definition of these two
modules is modelled from sections 4.1, 4.2, 5, 7 and 8 of the specification,
under the names of the header, and marked `spec_modelled` in `PROJECT.json`.

| Model | Specification |
|---|---|
| `pc` | where the producer is: binding compressors (`setup`), handing in blocks, the schema, the metadata, in `flush`, returned from it, or thrown out of a call |
| `default`, `byCategory`, `header` | the compressors bound by `add_default_compressor` and `add_category_compressor`; the length of the header `copy_header` put in front of section 0 |
| `sections`, `worker` | what was handed in, in the order of the calls: type, block number, the codec bound to it, how far it got (`queued`, `compressing`, `ready`, `failed`, `written`), and the compression and length it has now; of each worker the section it compresses |
| `image`, `size`, `index` | the sections written, each with its offset; what `size()` returns; the section index |
| `failure` | what aborted the build: a codec error or an I/O error |
| `WriteBlock`, `WriteMetadataV2Schema`, `WriteMetadataV2`, `WriteCompressedSection` | the calls of the same names; `write_block` returns `BlockNumber`; a section handed in compressed is ready at once |
| `Start`, `Compress`, `FallBack`, `CodecFails` | a worker takes the oldest job; the codec makes the section smaller; it reports `bad_compression_ratio` and the section is stored as it is; it fails otherwise and the build is aborted |
| `Emit`, `EmitFails` | the emitter writes the next section in the order of the calls once it is ready; the output fails |
| `Flush`, `WriteIndex`, `IndexFails`, `Throw` | `flush` is called; every section is written and the index follows; the write of the index fails; the call the producer is in throws what aborted the build |

The producer hands in blocks, then the schema, then the metadata (`Follows`),
as the pipeline of `mkdwarfs` does, and binds each compressor once, before
the first section. After a failure no worker takes a new
job and nothing is written; jobs that run come to their end.

`ImageLayout` is what the image promises its reader without saying how:
`Accept` takes a section, and gives a block the number that follows the
blocks accepted before it; `Write` puts the next accepted section where the
last one ends, with the compression it was accepted for or with none;
`Close` writes the index of what lies in the image, once, and only when
everything accepted is written; `Abort` ends a build without one.
`FilesystemWriter` maps `sections` to what was accepted, `image`, `index`
and `header` to themselves and `pc` to the outcome. The refinement fails
when a section is written out of the order of the calls (a block at
another number than `write_block` returned, the metadata in front of a block
it names), when offsets leave a gap or forget the header, when the index is
written before the last section or differs from the image, and when
anything is written after the build was aborted.

## 4. Runs

| Run | Config | Expect | Checks |
|---|---|---|---|
| `lzma_decode` | `LzmaDecode.cfg` | pass | `TypeOK`, `ContainerReadsWellPlaced`, `PublishedBufferIsSound`, `ErrorIsSticky` (action property), `ConstructorLeaksOnlyPastTheFooter` (action property), `IntactBlockIsDecoded` (liveness) |
| `lzma_done` | `LzmaDone.cfg` | violation | `MoreMeansIncomplete` |
| `filter_compile` | `FilterCompile.cfg` | pass | `CompiledRulesMeanTheirGlobs`, `CompileLeavesRuleOnlyAfterOpenEscape` |
| `filter_load` | `FilterLoad.cfg` | pass | `TypeOK`, `SeenFilesAreOpenFiles`, `DebugListsDivideTheEntries`, `LoadInlinesDepthFirst`, `RootInvisibleToComponentRules`, `LoadTerminates` (liveness) |
| `dwarfsck` | `Dwarfsck.cfg` | pass | `TypeOK`, `OutputLinesAreWhole`, `NoticedFailuresFailTheRun`, `ImplementsChecksumList` (refinement), `DwarfsckTerminates` (liveness) |
| `dwarfsck_exit` | `DwarfsckExit.cfg` | violation | `ExitZeroMeansAllWasRead` |
| `dwarfsck_unwind` | `DwarfsckUnwind.cfg` | violation | `MutexOutlivesItsJobs` |
| `lzma_compress` | `LzmaCompress.cfg` | pass | `TypeOK`, `ReturnedBlockIsSmallestAndSmaller`, `DocumentedOptionsAreAccepted`, `BadRatioMeansATriedChainDoesNotFit`, `EncoderLeaksOnlyWhenBufferIsRefused` (action property) |
| `tools` | `Tools.cfg` | pass | `TypeOK`, `ToolRunsAsAsked`, `VersionIsRemovedUnlessDotted` |
| `ricepp` | `Ricepp.cfg` | pass | `TypeOK`, `CodecRunsOnThisCpu`, `OneVariantOneMessage`, `EveryCallReturns` (liveness) |
| `block_cache` | `BlockCache.cfg` | pass | `TypeOK`, `SingleFlight`, `LruCorrectness` (action property), `ImplementsBlockStore` (refinement), `EveryGetResolves` (liveness) |
| `fs_writer` | `FilesystemWriter.cfg` | pass | `TypeOK`, `ImplementsImageLayout` (refinement), `FlushReturns` (liveness) |

The runs use the MC module of their component (`MCLzmaDecompressor`,
`MCRuleFilter`, `MCDwarfsckMain`, `MCLzmaCompressor`, `MCToolDispatch`,
`MCRiceppDispatch`, `MCBlockCache`, `MCFilesystemWriter`). The largest,
`fs_writer` and `block_cache`, visit 111,312 and 180,620 distinct states in
under a minute and in about two; the others take from a few seconds to
under a minute.
A run that expects a violation checks one property that states what the
specification, a comment or a test says of the program; the trace TLC prints
is the case in which the code does otherwise, and section 5 says what it
shows.

What the passing properties say:

* `ContainerReadsWellPlaced`: whatever block the constructor is given, it
  reads inside the block. `PublishedBufferIsSound`: the buffer never grows
  past what the constructor reserved, and its bytes are bytes the decoder
  wrote. `ErrorIsSticky`: after a failure every call fails.
  `ConstructorLeaksOnlyPastTheFooter`: a step abandons liblzma objects only
  when it is a constructor that throws after it gave the index to its
  decoder (finding 2).
  `IntactBlockIsDecoded`: an intact block comes to its full size and the
  caller is told "done", if need be by the call for a frame of no bytes,
  which leaves the buffer as it is; a build with assertions ends the
  process at that call instead.
* `CompileLeavesRuleOnlyAfterOpenEscape`: `compile_filter_rule` reads
  behind the text of a rule exactly when the rule ends with an odd number of
  backslashes (finding 3). `DebugListsDivideTheEntries`: under the rules a
  load left behind, every entry is in exactly one of the lists `included`
  and `excluded`, the `-files` lists are those without the directories, and
  the sign in `all` and `files` is the verdict of `filter`.
* `OutputLinesAreWhole`: at most one worker writes to `iol.out`, and it holds
  the mutex, also while `do_checksum` is unwound. `NoticedFailuresFailTheRun`:
  exit code 0 means that the check counted no error, that the header was
  written whole, that no exception cut the information or the list, and
  that the walk of `do_checksum` came to its end, whatever the workers wrote
  while an exception unwound it; the writes nobody checks are excepted
  (finding 9).
  `ImplementsChecksumList`: every step of the threads is a step of the
  abstract list or leaves it alone, and only a tool that ends as failed
  leaves a file without a line or a report.
  `DwarfsckTerminates`: the tool ends, by `wg.wait()`, by the destructor of
  the worker group, or by the signal.
* `ReturnedBlockIsSmallestAndSmaller`: what `compress` returns is shorter
  than the block and the shortest of the streams that were made. `DocumentedOptionsAreAccepted`:
  the constructor and the encoder agree with the documented ranges.
  `BadRatioMeansATriedChainDoesNotFit`: `bad_compression_ratio_error` leaves
  `compress` only for a chain that was tried and whose stream is not
  shorter than the block, the stream that ends at the last byte of the
  buffer not being one; it does not mean that no chain fits (finding 6).
  `EncoderLeaksOnlyWhenBufferIsRefused`: `lzma_end` is reached on every path
  but the one on which the vector of the output throws (finding 7).
* `ToolRunsAsAsked`: given a reference reading of the names (written without
  the operators of the model), a tool runs only when it was asked for, an
  exact name always wins, and `argv` reaches the tool unchanged or without
  exactly the `--tool=` argument. `VersionIsRemovedUnlessDotted`: a name
  with a version behind it runs its tool, unless the version has a dot in it
  (finding 8).
* `CodecRunsOnThisCpu`: no thread is given a codec that needs an instruction
  set the CPU lacks or that the build does not hold. `OneVariantOneMessage`:
  however the threads meet, all get the codec of one variant, and the
  message is written at most once and names it. `EveryCallReturns`: no
  thread waits for a static for ever.
* `SingleFlight`: a block that is pending or decoding is in the queue or with
  a worker exactly once, and any other block not at all.
  `LruCorrectness`: after every step the READY blocks hold at most
  `max_bytes`, and a block that made room for a new one was used less
  recently than every unpinned block that stays.
  `ImplementsBlockStore`: every step of the cache is a step of `BlockStore`
  or leaves the futures alone; what a range shows changes only when the
  damage of its block is found (finding 10). `EveryGetResolves`: no future waits for ever.
* `ImplementsImageLayout`: every step of the producer, the workers and the
  emitter is a step of `ImageLayout` or leaves the image alone (section 3).
  `FlushReturns`: a producer in `flush` leaves it, with the index written or
  with the exception of an aborted build.

### Bounds

* `lzma_decode`: twelve blocks (`MCContainers`), one for each way
  `get_uncompressed_size` can end and four well-formed ones, with uncompressed
  sizes 0, 2 and 3; streams of 2, 3 and 4 bytes, so that a stream is shorter
  than, as long as, or longer than its index declares; frames of 1, 2 and 3
  bytes, so that frames divide the size, end exactly at it, and run past it.
  The stream header size is liblzma's 12, so the sizes of the blocks are the
  smallest that put each check on both sides of its boundary.
* `filter_compile`: 3423 rules (a type, a space or none, a pattern of up to
  four characters over `/ * ? \ . a`, and three rules without a type or with
  too many stars) against the 121 paths of up to five characters over `/ . a`
  that start with `/`. Four characters hold every context of a star (`/*/`,
  `a*`, `\/*`, `**`, `***`) and of an escape.
* `filter_load`: ten rule files (`MCFiles`): a diamond of merges without a
  cycle, a file that merges itself, two that merge each other, a bad rule
  after a good one, a merge without a file name, a merge of a missing file, a
  rule that ends in a backslash; three public calls (`MaxCalls`), so that what
  one call leaves behind meets the next. `MaxDepth` 6 is deeper than any
  nesting the recursion check allows with these files; it stops the load only
  when that check is broken.
* `dwarfsck`: two workers and an image of a directory and three regular
  files with no, one and two ranges. Two workers are what contention for the
  mutex and a job outliving the walk need; the exception may leave the walk
  at each of the four entries, with jobs queued, running, holding the mutex
  or none left; three files let both workers be
  busy while a job is queued; the file without ranges goes to the lock
  without waiting, the one with two can fail after a range arrived. The
  command lines (`MCCmdlines`) are every combination of the nine options that
  say what to do, on a command line that parses and names an image, and
  every way in which a command line does not get that far; the fourteen images
  are a sound one, one with three errors, and one for each single thing that
  can fail. Three errors rather than one, so that an
  exit code that is the count leaves the codes the tool has.
* `lzma_compress`: `SizeBits` 4, so `size_t` holds 0..15 and a vector at most
  7 bytes; blocks of 0, 1 and 4 bytes, the last with streams of 2 to 5 bytes
  for either chain, so that each chain is shorter than, as long as and longer
  than the block independently of the other; options at and next to the ends
  of the documented ranges (`dict_size` 11, 12, 30, 31, 32, 44; level 0, 9,
  10) and with a name unknown to each table. `MaxCalls` 2: a second call
  meets what the first left (an encoder that was not ended).
* `tools`: both platforms; for two tools the eighteen shapes of a file name
  in `Names` (exact, with `.exe`, with another extension, with a trailing dot,
  hidden, with a suffix, with a dash and nothing, a letter, a digit or a
  character outside ASCII after it, with a version with and without dots),
  and three with directories whose names look like tools or versions; nine
  argument lists with `--tool=` absent, empty, unknown, known, glued to other
  text, and in the second place.
* `ricepp`: three threads, so that one initialises a static, one waits for
  it, and one arrives when it is done; all sixteen CPUs (with and without
  `__builtin_cpu_supports`, each of the three features) in all four builds
  (with and without the codec of each variant), with and without the
  environment variable.
* `block_cache`: three calls of `get` (`Calls`) over two blocks of one unit,
  one of two units and a corrupt one of two units with the first one sound
  (`Sound`), two workers, and `MaxBytes` 3. The corrupt block fails in its
  first frame when a waiter asks for its second unit before a worker has
  chosen the frame, and in its second frame, with a range of the first
  handed out, otherwise. Three
  calls are what it takes for two futures to wait for one block while a third
  pins or asks for another; the three sound blocks are four units, so the
  third to become ready must evict, chooses between two candidates, and
  waits while both are pinned. The block of two units is decoded in one
  frame or in two, as its waiters ask. The calls are numbered in the order
  in which they are made, which leaves out nothing but the renaming of
  calls.

* `fs_writer`: two workers, up to two blocks (`MaxBlocks`) of one category,
  the schema and the metadata, two codecs to bind, a header of three units
  or none. Two blocks and two workers are what it takes for the second block
  to be ready before the first, and for the schema and the metadata to wait
  in the queue behind them; a block handed in compressed (`Recompressed`) is
  ready before everything in front of it. One category, bound or not, tells
  the compressor of the category from the default. A section is two units
  long as it is and one when its codec made it smaller, so that a section
  written at a wrong offset, or listed with the length it had before the
  fallback, shows in the index.

Counters are bounded by `MaxCalls` (`RuleFilter`, `LzmaCompressor`),
`MaxDepth` (`RuleFilter`), `Calls` (`BlockCache`) and `MaxBlocks`
(`FilesystemWriter`); `DwarfsckMain`,
`ToolDispatch` and `RiceppDispatch` are finite as they are.

### Fairness

* `LzmaDecompressor`: `WF_vars(Frame)`. The worker that decodes a block keeps
  calling `decompress_frame` while readers wait for more of it, or while it
  was not told that the block is done; nothing else must happen for the call
  to be possible.
* `RuleFilter`: `WF_vars(Load)`. `add_rules` is a loop in the calling thread:
  once called it runs until it returns or throws.
* `DwarfsckMain`: weak fairness of the main thread (`Main`,
  `Walk \/ WalkThrows \/ Return \/ Unwound`) and of each worker (`Job(w)`).
  The exception is a step the main thread may take in place of the next
  entry of the walk, never one it must take. Each is a thread of its own that the
  operating system schedules; the futures of the block cache are taken to
  complete, with a value or an exception. Weak fairness is enough although
  the mutex is contended: a worker that holds it has `Write` enabled until it
  takes the step, and a worker that waits for it can be passed over only as
  often as there are jobs. The mutex is not assumed to be fair.
* `RiceppDispatch`: weak fairness of `CreateCodec(t)` for each thread. A
  thread in `create_codec` runs on; the only thing it waits for is the
  initialiser of a static in another thread, during which it has no step.
* `BlockCache`: weak fairness of each worker (`Work(w)`) and of the release
  of each range (`Release(r)`). The workers are threads of their own. A
  reader lets go of a range it was given: in `do_checksum`
  (`dwarfsck_main.cpp:133-136`) the range a future gave is destroyed at the
  end of the loop body, before the next future is waited for. A reader that
  kept a range while it waits for another block could wait for ever in a full
  cache; the fairness assumed leaves that reader out. Dropping a future and
  the tidy task are not assumed to happen.
* `FilesystemWriter`: weak fairness of each worker (`Start(w)`, `Job(w)`),
  of the emitter, and of the return of `flush` (`WriteIndex \/ IndexFails`,
  `Throw`). The specification gives the codec calls a pool of threads and
  the section writes a task of their own; a codec call returns, with a block
  or an error. No fairness is assumed of the calls the producer makes: a
  producer that never calls `flush` is a behaviour, and `FlushReturns` says
  nothing of it.
* `LzmaCompressor`, `ToolDispatch`: none; only safety is checked.

Deadlock is checked in every run. A process that has ended (`Exited` in
`DwarfsckMain` and `ToolDispatch`, `Returned` in `RiceppDispatch`, `Quiet` in
`BlockCache`, `Ended` in `FilesystemWriter`) stutters, so that a state without a successor is a thread that
waits for ever.

### Mutants

Every property of a passing run is paired in `PROJECT.json` with a definition
of the model and a variant of it that a plausible slip in the code would
produce (an index check that forgets the stream header, `>` turned into
"never", a failure test that trusts the return code, or that takes a call
which wrote nothing for a failure, a missing `erase`, a
recursion check that finds nothing, a full output buffer taken for one that
overflowed, a mutex that is not released, an error that is not logged, a buffer as long as
the block, `<` turned into `>`, `lzma_end` on the success path only, a
`--tool=` name that is not looked up, a test for AVX512 that forgets BMI2, a
static every thread initialises, a stream whose state is not looked at, a
`get` that starts a decoder for a block that has one, a waiter signalled one
unit early, an insertion that evicts the block used last, a job that stays
in the queue while a worker runs it, an emitter that writes what is ready
first, a codec error nobody is told of, ...). With the variant in place TLC finds
the property violated.

## 5. Findings

1. **`decompress_frame` never says "done" for a frame that ends exactly at the
   uncompressed size** (`lzma.cpp:304`, run `lzma_done`). `LZMA_FINISH` is used
   only when the frame would run *past* the size.
2. **Error paths leak liblzma objects** (`lzma.cpp:389`, `397`, `284`, run
   `lzma_decode`), as the TODO in the code says for the first two.
   `ConstructorLeaksOnlyPastTheFooter` holds because it excepts the
   constructors that throw behind the footer check.
3. **A rule that ends in a backslash is read past its end**
   (`rule_based_entry_filter.cpp:124`, run `filter_compile`): `if (p)` tests
   the pointer, where the character is meant.
   `CompileLeavesRuleOnlyAfterOpenEscape` holds because it excepts the rules
   that end with an odd number of backslashes.
4. **Floating rules see the root path** (`rule_based_entry_filter.cpp:274`,
   run `filter_load`): `- a/b` removes `/b` of a tree whose root directory is
   called `a`; the specification does not say which path a floating rule is
   matched against. `RootInvisibleToComponentRules` holds of the rules that
   are not affected: anchored ones, and floating ones of a single component
   without `**`.
5. **A file that could not be read does not change the exit code**
   (`dwarfsck_main.cpp:137`, run `dwarfsck_exit`). `do_checksum` logs the
   error and leaves the file out of the list; `dwarfsck --checksum` exits
   with 0, which the specification reserves for success.
6. **A block one chain can shrink is reported as incompressible**
   (`lzma.cpp:254`, run `lzma_compress`). `bad_compression_ratio_error` of
   either encoding leaves `compress`: the filtered chain is not tried when
   the plain one does not fit, and the result of the plain one is lost when
   the filtered one does not fit. `BadRatioMeansATriedChainDoesNotFit` holds
   because it says "a chain that was tried" where the specification says
   "the codec".
7. **A refused output buffer leaks an encoder** (`lzma.cpp:219`, run
   `lzma_compress`). The vector of the output is constructed between
   `lzma_stream_encoder` and `lzma_end`. It throws `std::bad_alloc` when
   memory is short, and `std::length_error` for the empty block, whose
   `data.size() - 1` wraps around; `lzma_end` is not reached.
   `EncoderLeaksOnlyWhenBufferIsRefused` holds because it excepts these
   encodings.
8. **A version with a dot in it is taken for an extension**
   (`universal.cpp:76`, run `tools`). `mkdwarfs-0.7.2` has the
   extension `.2`, does not look like an executable, and prints the help;
   the removal of the version works for `mkdwarfs-1` and, on Windows, for
   `mkdwarfs-0.7.2.exe`. `VersionIsRemovedUnlessDotted` holds because it
   excepts the versions with a dot.
9. **A failed write is noticed for the header only**
   (`dwarfsck_main.cpp:321`, run `dwarfsck`). The state of `iol.out` is
   looked at after the header; the stream `--export-metadata` writes to is
   not, so a write that fails on a file that closes without error leaves a
   truncated export and exit code 0. The usage (255), the information (334,
   336), the list (94, 99) and the lines of the checksums (148) are written
   the same way. `NoticedFailuresFailTheRun` holds because it leaves every
   write but the one of the header out.
10. **A frame that fails empties a buffer readers look into**
   (`lzma.cpp:325`, run `block_cache`). `decompress_frame` clears its target
   when `lzma_code` fails. The target is the buffer of the block in the
   cache, and the frames before the failing one were published: a reader
   holds a range of data that was never checked to the end of its stream,
   and then a range of nothing. The specification calls decoded buffers
   immutable once their extents are published. `ImplementsBlockStore` holds
   because `BlockStore` excepts the corrupt block whose damage lies behind
   its first frame.
11. **An exception out of the walk destroys the mutex under the jobs**
   (`dwarfsck_main.cpp:109`, run `dwarfsck_unwind`). `do_checksum` declares
   `wg` before `mx`, and the jobs take `mx` by reference. When
   `walk_data_order` or `add_job` throws, `wg.wait()` is passed by, `mx` is
   destroyed first, and the workers, which only the destructor of `wg`
   joins, lock it for the jobs that are queued and running. The trace is
   six steps: `dwarfsck_main` calls `do_checksum`, the walk passes the
   directory and queues the file without ranges, the next entry throws, a
   worker takes the job and locks. Where the destructor of
   the mutex is not trivial the process is terminated instead of returning
   1. Declaring `mx` before `wg` ends it.

Findings 1, 5 and 11 are traces of runs that expect a violation. Findings
2, 3, 4, 6, 7, 8, 9 and 10 are about properties of passing runs that had to
be narrowed to hold; the comment of the property, or of the abstract
specification, says by what.

`do_list_files` dereferences `max_element` of the uids and gids of the
image, which is the end iterator when the image has none
(`dwarfsck_main.cpp:64`). The model follows both outcomes, the signal and
some width; no property is stated of the one step that decides between them.
It is listed as a hazard and not as a finding: an image written by
`mkdwarfs` has at least one uid and one gid.

## 6. Not modelled

* The bytes themselves: what is compressed, hashed or printed. Blocks are
  sizes, paths are short sequences over three characters, names of binaries
  are sequences of tokens.
* liblzma, `std::regex` and `std::filesystem::path` beyond the behaviour
  described above. Of `std::regex` in particular: `Translate` takes every
  escaped character of a rule for the character itself. That is what every
  library does with an escaped `/`, `*`, `?`, `.` and backslash, and what
  libstdc++ does with the escaped `a` of the model's alphabet; the
  ECMAScript grammar gives other escaped letters a meaning of their own
  (`\d`, `\w`, `\b`, ...), and a library may refuse an escaped letter by
  throwing `std::regex_error` from the constructor at
  `rule_based_entry_filter.cpp:62`, which `compile_filter_rule` does not
  catch. Neither is followed.
* Option parsing with boost::program_options, logging, the wording of
  messages, the layout of the output of `dwarfsck`.
* The worker group of `dwarfsck` beyond what `do_checksum` uses of it
  (`add_job`, threads that take jobs in order, `wait`, the destructor). Its
  source is not in the repository; a destructor that dropped the queued jobs
  would change which lines are written during the unwinding and nothing
  that is checked. In `DwarfsckMain` a
  future of `readv` completes with a value or an exception; the cache that
  makes it do so is `BlockCache`, checked on its own.
* Of the block cache: its configuration, the `cache_full` answer and the
  ages of the tidy task (section 3); the decompressor of each block beyond
  frames that extend the buffer or fail and clear it. Whether the bytes of
  a cleared buffer can still be read through a range is left to the memory
  that `std::vector::clear` keeps; the model says what the vector holds.
* `clone` of the compressor, and the encoder settings `nice` and `depth`,
  which are copied without a check.
* The codecs of ricepp themselves: a codec is the variant it was built for.
* The round trip of step 9. What `compress` returns and what the
  decompressor's constructor reads meet in liblzma, which is not part of
  the repository: the footer, the index and the sizes they declare are
  written by `lzma_code` and read by `lzma_stream_footer_decode` and
  `lzma_index_decoder`. A composed model would have to say of liblzma that
  it reads what it wrote, and every property of the round trip would then
  hold by that assumption and not by anything in `lzma.cpp`. The two sides
  are checked against the environment each of them can meet instead: the
  decompressor over well-formed and damaged containers, the compressor over
  every way an encoding can end.
* Of the filesystem writer: the bytes of the section header (magic, version,
  checksums), the history section and its compressor, and rebinding a
  compressor after the first section (section 3).
* The components whose status in `PROJECT.json` is `not_modelled`, for the
  reasons given there: the category parser, the I/O layer and the metadata
  are interfaces or have no code in `src/`; the tests are read for what they
  expect.
