# Verification of the Parabix runtime

Parabix programs (icgrep, wc, u8u16, ...) are compiled at run time into a
*pipeline of kernels* over *stream sets*. A kernel is generated code with one
entry point, `doSegment`; the driver calls the kernels of a pipeline in order,
one segment of the input at a time, from one thread or from several. Kernels
that transform bit streams are written in *Pablo*, icgrep's by its regular
expression compiler, and what has been compiled once is kept in a cache on disk.
This directory holds TLA+ models of that runtime, TLC configurations that check
them, and proofs that TLAPS checks.

All paths below are under `src/icgrep/`.

## Inventory

| Part | State | Operations | Interacts through | What makes it correct |
|---|---|---|---|---|
| Segment-parallel driver (`toolchain/pipeline.cpp` 46-303) | per thread: `segNo`, registers `terminated`, `producedPos`, `consumedPos`; shared: the kernel instances | spawn, thread loop (wait, completion test, call, release), store consumed counts, join | each kernel's `logicalSegNo` (acquire/release), the kernel scalars | one thread per kernel, segments in order, nothing lost or overwritten, every thread exits, same result as one segment at a time |
| Single-threaded loop (`pipeline.cpp` 510-619) | the registers of one loop body | call each kernel, store consumed counts, loop or leave | kernel scalars | same result, whole input processed |
| Kernel segment protocol (`kernels/kernel.cpp`, `kernel_builder.cpp`) | processed, produced, consumed counts, termination signal, `logicalSegNo` | `doSegment` of block-oriented and multi-block kernels, final block, temporary buffers, initialize, finalize | item counts passed by the driver, stream set buffers | counts never ahead of the input, items left by a segment are picked up, final block exactly once |
| Sources (`kernels/source_kernel.cpp`) | file size, buffer addresses, `readableBuffer`, capacity | offer a segment, drop pages, append, wait for consumers, copy back, expand | consumed counts, consumers' segment numbers | offers the file exactly once; never discards what is still to be read |
| UntilN (`kernels/until_n.cpp`) | `N`, `seenSoFar` | multi-block logic | termination signal, produced count | exactly the first N bits |
| Stream set buffers (`kernels/streamset.cpp`) | base address, blocks, overflow blocks | addressing modulo the buffer, linear accessibility, copy-back | written by the producer, read by consumers | the linear view is the logical stream |
| Grep engine (`grep_engine.cpp`, `icgrep.cpp`) | options, result streams, file counter | build the pipeline, run it per file, collect | builds and runs the pipelines | buffers big enough, `-m` and `-q` limits kept |
| CPU driver (`toolchain/cpudriver.cpp`) | the pipeline and its buffers | create, initialize, generate, finalize | all kernels | instances initialized before use, finalized after |
| Object cache (`toolchain/object_cache.cpp`) | object and signature files in one directory, their dates | load, compare the signature, compile and store, clean up beyond the size limit | other processes, through files, without a lock | a loaded object belongs to the kernel asked for; nothing truncated or half stored stays without a cause |
| Pablo compiler and carry manager (`pablo/`) | per kernel: a carry pack for each advancing statement, summaries of Ifs, a loop selector, a block index | run one block of each statement; skip an If; iterate a While | carries from one block to the next | a block at a time gives what the statements mean on the whole stream |
| Regular expression compiler (`re/re_compiler.cpp`) | the scope and the While being built | compile each kind of expression to Pablo | the Pablo program | the program marks the ends of the matches |
| Grep kernels (`kernels/grep_kernel.cpp`, `linebreak_kernel.cpp`, `scanmatchgen.cpp`) | carries; the line number and line start of the scanner | line breaks, required streams, matched lines, scan and report | stream sets, the report callback | each line with a match is reported once, in order |
| Work queue (`toolchain/workqueue.h`) | bounded queue | push, pop, notify | threads | not used by any program |
| Parsers and passes of expressions (`re/`), character classes (`cc/`), Unicode (`UCD/`) | syntax trees, sets of code points | parse, transform | sequential calls | the transformed expression means the same |
| Other kernels, applications, vendored code | | | | see `PROJECT.json` |

The behaviours that are hard to test are listed in `PROJECT.json`, each at its
line. They come from three design decisions. The threads of a pipeline use no
lock: a kernel's `logicalSegNo` is a ticket, the counts are read between its
acquire and its release, and the consumed counts are stored after every kernel
has been released. The processes that share a cache use no lock either: a file
is created under its final name and then written. And a Pablo kernel sees one
block at a time: what a statement has to know of earlier blocks is in its
carries, and an If is skipped when a summary says that no carry waits inside.

## Modules

| Module | Models |
|---|---|
| `KernelSegments` | The shape of a pipeline (constants) and, as pure operators, what a `doSegment` call of each kind of kernel does to its counts, and what both drivers compute between two calls |
| `Dataflow` | The abstract specification of a pipeline: every kernel is a sequential process that executes its segments in order and is told what its producers had produced at that segment. No threads, tickets or registers |
| `SegmentPipeline` | `generateSegmentParallelPipeline`: driver and threads |
| `SegmentDataflow` | `SegmentPipeline` with a history variable, and the refinement of `Dataflow` |
| `PipelineLoop` | `generatePipelineLoop` and its refinement of `Dataflow` |
| `ReadSource` | `SegmentDataflow` with a ReadSource (standard input) as kernel 0: its buffer, reads, consumer wait, copy-back and expansion; implements the pipeline over a mapped file |
| `UntilN` | The UntilN kernel bit by bit, within the `doSegment` of `MultiBlockKernel`; checks that its counts are those `KernelSegments` assumes of an early terminator |
| `ObjectCache` | Several processes over one cache directory, one file-system call at a time, any of which may be killed |
| `PabloKernel` | The code of a Pablo kernel: what each statement means on whole bit streams, and what the generated code does to one block, with the carry data of `CarryManager` |
| `KernelBlocks` | Any pipeline of Pablo kernels, block after block, without loops: the form of the code that the compiler makes, and what carries, summaries and results amount to |
| `Pablo` | Pablo programs: their meaning on whole streams, and their compilation to code after `CarryManager::analyse` |
| `RECompiler` | From a regular expression to a Pablo program, method by method of `RE_Compiler` |
| `GrepKernels` | The other kernels of a grep pipeline as Pablo programs, and the bytes and classes they read |
| `GrepBlocks` | A file through these kernels, block by block, up to the reported lines; composes the modules above, and is one of the pipelines of `KernelBlocks` |
| `MCSegmentPipeline`, `MCPipelineLoop`, `MCReadSource`, `MCObjectCache`, `MCGrepBlocks` | Instances for TLC |
| `KernelSegmentsProofs`, `SegmentPipelineProofs`, `SegmentDataflowProofs`, `PipelineLoopProofs`, `ReadSourceProofs`, `UntilNProofs`, `ObjectCacheProofs`, `KernelBlocksProofs` | Theorems |

### How state and actions correspond to the code

*SegmentPipeline.* `instance[k]` holds the scalars `processedItemCount`,
`producedItemCount` and `terminationSignal` of kernel `k` (`kernel.cpp`
136-198); `logicalSegNo[k]` and `consumed[b]` the scalars of those names;
`readable[k]` is `readableBuffer - sourceBuffer` of an MMapSource. `pc[t]` names
the basic block a thread is in: `segmentWait` (spinning on the acquire at line
125), `doSegment` (past the acquire and the completion test), `release` (the
call and the reads of the counts are over), `setConsumed` (past the last
kernel), `exitThread`. `terminated`, `producedPos` and `consumedPos` are the
SSA registers of those names. The actions are the stretches of generated code
between two accesses to memory that other threads access without protection:

| Action | Code |
|---|---|
| `Spawn`, `CallThread0`, `JoinThreads`, `FinalizeInstances` | `pipeline.cpp` 263-280, `cpudriver.cpp` 148-150 |
| `Enter`, `ExitPipeline` | 121-145: acquire, compare, completion test; the exit block releases the kernel at hand and stores no consumed count |
| `DoSegment` | 155-187: the call with the registers as arguments, then the reads of the counts |
| `Release` | 195 |
| `StoreConsumed` | 201-212, one action per buffer, in any order (the order of a map of pointers) |
| `LoopSegment`, `ExitThread` | 214-229 |

`DoSegment` is one step because the code between an acquire and the release
touches only scalars of that kernel, which the invariant `KernelExclusive` shows
no other thread touches; the exception is the consumed count, which a source
reads once, at the start of its call.

*PipelineLoop.* `DoSegment` is one iteration of the C++ loop over the kernels,
`EndSegment` lines 584-597.

*KernelSegments.* `Advance` is the effect of both `doSegment` methods at rate
1:1: whole strides, then on the final call the remaining items and the
termination signal. Which inputs limit the available items differs
(`Available`): block-oriented kernels look at the principal input only.
`SourceSegment` is the "less than a full segment" test of MMapSource and
MemorySource, including that a file which is a whole number of segments needs
one more, empty call.

*ReadSource.* `buffer` is the scalars `buffer`, `capacity` and the logical base
address, base less `origin`, of the stream set buffer; `memory` says which item of the
input each written offset holds, `input` how far the file descriptor has been
read. `ReadSegment` is the whole `doSegment` call: offer a segment of what is
buffered, or read a page first (`AfterRead`), appended at the produced position
(`CanAppend`) or after the unconsumed items have been copied to the front of the
buffer or of one of twice the capacity (`CopiedBack`). The spin of
`CreateConsumerWait` is the guard `ConsumersFinished`: the thread keeps the
source's segment number and changes nothing while it spins. A read that leaves
less than a segment ends the input, as in the code: in the default build
(segments of 16384 items, pages of 4096 bytes) that is any first read, so icgrep
searches no more than one page of its standard input unless segments are made
smaller. The run uses segments of half a page. The other kernels, the threads
and the driver are the actions of `SegmentPipeline`, and `history` records their
calls as in `SegmentDataflow`. `ImplementsMapped` is that module's specification
again, for a mapped file (MMapSource) of the same length: a `ReadSegment`, whichever
branch it takes, is a `DoSegment` of the mapped source. `PageSize` is there one more
than the file, since a ReadSource has no pages to drop with `madvise`.

*UntilN.* A bit stream is the set of positions of its ones. `DoWholeBlocks` is
the call of the logic on all the whole blocks of the segment, `DoFinalBlock` the
call through the temporary buffers and the copy-back over the block of the
produced count. The buffers are the identity (a segment never wraps around, as
the buffers are whole numbers of segments), so positions are absolute.
`seenSoFar` is only stored after a group of blocks in which the Nth bit was not
found; groups, not packs, are therefore kept in the model. If the whole blocks of
the final segment have ended the output, the copy-back of the final block goes on
from the temporary area into the memory that follows it: what it finds there is an
arbitrary choice (`beyond`).

*ObjectCache.* `file` is the content of each file of the directory: for an object
the kernel it was compiled from, for a signature its text, or `Absent` or
`Partial` (created or truncated, and not yet written). `proc[p]` is what a process
has in memory: the kernel it has reached, what it read, the modules marked
CACHEABLE, and the entries of its clean-up. `ReadObject` to `TouchGone` are
`loadCachedObjectFile`, one step for each call that opens, reads or dates a file;
`UseCached`, `UseTruncated` and `CompileUncached` are `getObject` and its outcomes;
`CompileAndOpen` to `WriteSignature` are `notifyObjectCompiled`; `List` to `Finish`
are `cleanUpObjectCacheFiles`, in which `exists` and `file_size` may find different
things. A process dies (`Die`) where the code reports a fatal error or a call
throws; `Kill` may happen between any two steps.

*PabloKernel.* A bit stream is the set of its positions, a block a subset of
`0 .. BlockWidth - 1`. `Means` says what a statement means on whole streams, `Execute`
is the code `compileStatement`, `compileIf` and `compileWhile` generate for it, in a
machine `s` of the block's variables and the carry data. `pack[d]` holds the carry
pack of the statement that defines `d`: its two sides are those that the loop selector
chooses from, or the blocks of the circular buffer of a long advance. A step of
addition (`Sum`) is the addition of two blocks as binary numbers, as ScanThru and
MatchStar need it. An instruction carries what the compiler knows of its place: the
type of summary of its scope, and for an If its own and the pack this is read from.
Ifs are branches forward, so code without loops runs once through its instructions
(`RunBlock`).

*KernelBlocks.* `DoBlocks` is `generateDoBlockMethod` of every kernel of a pipeline:
the code on the next block, from the carries of the one before. Inputs are arbitrary;
`given` and `results` are what they and the outputs have amounted to. `WellFormed` is
what the compiler makes of any program without loops: branches are nested, variables
are defined before they are used, and each If has a summary as
`CarryManager::analyse` chooses it (`SummaryOfItsOwn`). `Streams` is the meaning of the
code on the streams so far.

*Pablo.* `Run` is the meaning of a program, Whiles and Ifs included; `Compile` makes its
code, for which `SummaryType` and `FirstPack` find the summary of each If as `analyse`
does. `Exec` runs code with loops.

*RECompiler.* A marker is a variable and the position it marks; statements are
appended to the scope being built. Variables have numbers instead of names. Each
operator is the method of that name.

*GrepBlocks.* `Init` picks an expression and a file, `DoBlock` runs the kernels on
one block in the order of the pipeline and scans its matched lines word by word.
The last block holds the end of the file, one position past the last byte, which
is where the kernels put the end of an unterminated line. Where no kernel has a loop
this is a behaviour of `KernelBlocks` (`ImplementsKernels`). `After` says what an
expression means, in characters of the file; `MatchesRE` and `ReportedLines`
compare the program's output with it, `BlockwiseIsStream` with `Run`.

## Runs

| Run | Instance | Shows |
|---|---|---|
| `segment_pipeline` | 3 threads; kernels source, s2p (NoTerminate), UntilN, match scanner reading UntilN *and* the source; segments of 2, file of 9, pages of 2 | the safety properties, termination and the refinement of `Dataflow` under every interleaving |
| `read_source` | 2 threads, the same kernels behind a ReadSource; segments of 2, pages of 4, a buffer of 2 pages, 17 items | items stay where kernels look for them, the buffer moves under no reader, nothing is written outside it, all that was read is processed, termination, and the refinement of the pipeline over a mapped file |
| `pipeline_loop` | strides 1, 2, 4, 2 against segments of 3, file of 25, pages of 8 | the same promises for the loop, with items left over by every segment, and pages dropped in order |
| `until_n` | every bit stream of 15 positions (and of the rest of the last block), blocks of 2, groups of 2 blocks, segments of 3 blocks, N in 1..3 | all of fewer than N, exactly the first N, counts as in the pipeline modules |
| `object_cache` | 3 processes, 2 at once, 1 killed; five kernels, two of which share an identifier and one is not cachable; room for two of three objects | kernels are told apart by their signatures, what is truncated or orphaned has a cause, runs one after another are safe, the clean-up keeps the limit and removes what was used least recently |
| `grep_blocks` | nineteen expressions over all files of up to nine characters of two to four kinds; blocks of 4 bits, words of 2 | blocks, carries, skipped Ifs and loops change nothing, kernel by kernel and for the whole pipeline; no If is closed over a carry; Ifs may be skipped when they are; the matches are those of the expression; the lines reported are those with a match; the loop-free kernels are those of the theorems |
| `small_buffers` | 2 threads, buffers of one segment | **violated** `MultiBlockInputIntact` |
| `consumer_wait` | as `read_source` with 3 threads | **violated** `Terminates` |
| `short_read` | as `read_source` with short reads | **violated** `InputInBuffer` |
| `until_n_limit` | 12 positions, N = 2 | **violated** `AtMostN` |
| `until_n_final` | 5 positions, N = 1 | **violated** `KeepsFirstN` |
| `while_in_if` | `aa(ba)*` and a two-byte character, as `grep_blocks` | **violated** `SummaryCoversCarries` |

What the six violations mean for the code, and the lines they contradict, is in
`PROJECT.json` under `findings`. Two more facts that the models show, without a
run of their own:

* With `SerializeThreads` every thread spins on the last kernel (`pipeline.cpp`
  122), but the exit block releases the kernel the thread has reached (143), so
  the other threads never leave: set it in `SegmentPipeline.cfg` and `Terminates`
  is violated.
* With several threads the consumed counts are stored out of order, and
  MMapSource's next call then computes a negative length for `madvise`
  (`source_kernel.cpp` 111): add `DropLengthIsValid` to `SegmentPipeline.cfg`. No
  data is lost (`DiscardedIsProcessed`), and for the single-threaded loop
  `DropLengthIsValid` holds and is proved.

### Bounds

* Three threads are the least number with a thread that is neither the one that
  terminates nor the one that follows it. Two segments in flight per kernel pair
  need only two.
* Nine items in segments of two make five segments: every thread takes at least
  one, thread 0 a second, and the last one is partial. `UntilN` may end the
  pipeline in any of them.
* Four kernels cover a source, a kernel that may not terminate, an early
  terminator and a kernel with two inputs that come from different distances.
* `BufferSegments = 1` is the least the option allows; `grepPipeline`'s factor
  `ThreadNum` then gives three segments.
* `UntilN` puts N at every place of a block, group and segment: 15 positions are
  two whole segments and a final one with a whole block and a partial one.
* `TempBlocks` (UntilN): the temporary output area has three blocks, a value
  `MultiBlockKernel` computes from the stride. It bounds nothing: the copy-back of a
  longer segment may read past the area, and then finds anything. The run's segments
  of three blocks never do; the theorems are about segments of any length.
* `ReadSource`: two threads are the default and all that `Terminates` allows
  (`consumer_wait` shows three deadlock); the buffer starts with 2 pages where the
  code allocates 64, so that 17 items make the source append, copy back in place
  and expand.
* The counters of the pipeline models have no bound: their runs end because the
  file does.
* `ObjectCache`: `MaxActive` (2 processes at once), `MaxKills` (1) and `MaxTime`
  (2 s). Every race in the code is between two steps of two processes; the third
  process finds what they left. The clock, whose unit is a second, stands still
  while a process runs. With two kills and a fourth run an object can be combined
  with the signature of another kernel, which is why `NoForeignObject` allows at
  most one. Two processes have the same pipeline, so they can be interchanged.
* `GrepBlocks`: blocks of 4 bits instead of 128 or 256, long advances from 2
  instead of 64, an If after 2 characters instead of 3, scan words of 2 instead of
  64. Files of up to nine characters make three blocks, so a carry is stored, read
  and stored again; every carry, If and loop of the programs meets a block
  boundary. At this scale the advance by two in RequiredStreams is a long one,
  which it is not in the code; that adds cases.

### Fairness

`FairSpec`, `FairHistorySpec` and `FairReadSpec` assume weak fairness of each thread and of the
driver: the threads are operating system threads, preemptively scheduled, and a
spinning thread does not prevent another from running. A thread that spins on a
segment number takes no step of the model, so no progress is assumed of it. No
fairness is needed for anything but `Terminates`.

## Proofs

All theorems hold for all values of the constants that satisfy the assumptions:
any number of threads, kernels and processes, any inputs, strides, sizes and
names, with and without `SerializeThreads`. Some of those about the output and about
standard input have further conditions, which the theorem states and the sections
below explain.

| Module | Theorem | Statement |
|---|---|---|
| `SegmentPipelineProofs` | `TypeCorrect` | `Spec => []TypeOK` |
| | `Exclusion` | `Spec => []KernelExclusive` |
| | `InOrder` | `Spec => []SegmentsInOrder` |
| | `Discarded` | `Spec => []DiscardedIsProcessed` |
| `SegmentDataflowProofs` | `ThreadsImplementDataflow` | `HistorySpec => ImplementsDataflow` |
| | `BuffersSuffice` | `HistorySpec => []NoOverrun` |
| | `OutputIsComplete` | `HistorySpec => []CompleteOutput` |
| `PipelineLoopProofs` | `LoopTypeCorrect` | `Spec => []TypeOK` |
| | `LoopDiscarded` | `Spec => []DiscardedIsProcessed` |
| | `LoopDropLength` | `Spec => DropLengthIsValid` |
| | `LoopImplementsDataflow` | `Spec => ImplementsDataflow` |
| | `LoopOutputIsComplete` | `Spec => []CompleteOutput` |
| `ReadSourceProofs` | `ReadersUndisturbed` | `ReadSpec => MovedUnread` |
| | `ReadImplementsMapped` | `ReadSpec => ImplementsMapped` |
| | `ReadOutputIsComplete` | `ReadSpec => []CompleteRead` |
| | `ItemsAreRead` | `ReadSpec => []InputInBuffer` |
| | `WritesAreInBounds` | `ReadSpec => []WrittenInBounds` |
| | `ReadTypeCorrect` | `ReadSpec => []ReadTypeOK` |
| `UntilNProofs` | `UntilNTypeCorrect` | `Spec => []TypeOK` |
| | `UntilNAsInPipeline` | `Spec => AsInPipeline` |
| | `AllBitsOfFewer` | `Spec => []AllOfFewer` |
| | `FirstBitsOfMore` | `Spec => []FirstNOfMore` |
| `ObjectCacheProofs` | `CacheTypeCorrect` | `Spec => []TypeOK` |
| | `TruncatedExplained` | `Spec => []TruncatedHasWriter` |
| | `OrphanExplained` | `Spec => []OrphanHasCause` |
| | `NoneForeign` | `Spec => []NoForeignObject` |
| | `SequentialSafe` | `Spec => []SequentialRunsSafe` |
| | `LeastRecentlyUsedGoes` | `Spec => EvictsLeastRecentlyUsed` |
| | `CleanedUp` | `Spec => []CleanAtTheEnd` |
| `KernelBlocksProofs` | `SumIsLookahead` | adding blocks as numbers is carrying bit by bit |
| | `KernelsAreTyped` | `KernelSpec => []KernelTypeOK` |
| | `CarriesAreCovered` | `KernelSpec => []SummaryCoversCarries`, if `LongAdvancesHeard` |
| | `BlocksAreStreams` | `KernelSpec => []ResultsAreStreams`, on conditions given below |
| | `BranchFreeBlocksAreStreams` | `KernelSpec => []ResultsAreStreams`, for code without Ifs |

### The threads

None of the safety properties is inductive. The argument has three layers.

1. `ControlInv` speaks of tickets only. Thread `t` holds segments congruent to
   `t` modulo `ThreadNum` (`RoundRobin`), so no two threads hold the same one
   (lemma `SegmentsDisjoint`, from the division lemmas). A kernel a thread has
   passed is past its segment (`Behind`); no kernel is past a segment whose thread
   has yet to bring it there (`NotAhead`); later kernels are never ahead
   (`Pipelined`). A release then raises a ticket from exactly the thread's
   segment to the next. Exclusion and order follow.
2. `DataInv` is inductive relative to `ControlInv`. A consumed count is a
   register of a thread, written long after it was read, so the invariant has to
   say that registers read at later segments hold no less (`RegistersOrdered`),
   that what a kernel has processed was available at every segment it has yet to
   execute (`InputAhead`), and that the count in the register is one that every
   consumer has processed (`RegisterConsumed`). `DiscardedIsProcessed` then holds
   although the stores race: a late store is too low, never too high.
3. `HistoryInv`, for the refinement, relates the threads to what each call left
   behind. The counts in a thread's registers, and its final flag, are those of
   the segment it holds (`RegistersRecorded`, `FlagRecorded`), although the
   kernels have moved on; a ticket counts the calls of its kernel, except that
   threads which leave at an ended kernel raise it without a call
   (`TicketsRecorded`); and a thread that has entered a kernel finds it called for
   exactly the earlier segments and not ended (`EnteredDue`). A call is then a
   step of `Dataflow`, and every other step stutters.

`KernelSegmentsProofs` holds the lemmas about the operators: available items are
bounded by each bounding input, whole strides are within what is available, a
`doSegment` call moves counts forward only (`DoSegmentMovesForward`), the
consumed counts are least counts.

### The loop

`CountsInv` of `PipelineLoopProofs` needs the registers of the loop body: they are
the counts of the kernels called in this round (`RegistersRead`), and the count to
be stored for a buffer lies between the one stored last and what each consumer
has processed (`ConsumedBetween`). So counts are stored in order, and since what
was dropped is whole pages of what is consumed (`DroppedPages`), the next drop
starts where the last one ended. `ScheduleInv` adds what the refinement needs: the
kernels called in this round are one segment ahead of the others (`InStep`), and a
kernel that has signalled is not called again (`YetToSignal`).

### Output

What is in a buffer, and what is left at the end, depends on the sequence of
states a kernel has been left in, not on the schedule. The second part of
`KernelSegmentsProofs` therefore takes such a sequence for each kernel, `h`, and
shows that two invariants survive any call that `Dataflow` allows.

* `InputInv`, for an input of a given size (`FileInv` for the size of the file):
  sources offer it segment by segment and signal in the one with less than a
  segment left (`OffersInput`); a kernel ends the pipeline only there or
  where UntilN cut it short (`EndsForCause`, `CutEnds`), and is not called again
  (`CalledUntilEnd`); the call for that segment processes all of the input
  (`ReachesEnd`).
* `InPace`: the `n`-th call of each kernel stays within the `n`-th segment, and
  completes it unless a kernel ended the pipeline there.

The third part of `SegmentDataflowProofs` adds how far the threads are apart (`ExitInv`). A thread that
holds segment `n` has carried `n - ThreadNum` through every kernel, and no kernel
ended the pipeline at it (`PastRounds`). With `InPace` every consumer is
therefore past the end of that segment, while a producer writes up to the end of
segment `n`: `ThreadNum` segments of room suffice. For `CompleteOutput`, every
thread that has exited either saw the end of the file at its own segment, or holds
a later one (`ExitedAtEnd`). The thread whose turn the last segment is cannot hold
a later one, since `PastRounds` would make the last segment end nothing
(`TakenInTurn`); so it carried that segment through every kernel. In
`PipelineLoopProofs` the kernels are in step when the loop is left, and one of them
has signalled (`LeftAtSignal`).

The conditions, all on constants:

* `StopsPipeline`: sources and UntilN do not have the attribute `NoTerminate`. No
  source and no UntilN in `src/icgrep/kernels` sets it. All three theorems need it:
  otherwise the pipeline would run on past the end of the file.
* `StridesDivide`, for `BuffersSuffice`: a segment is a whole number of strides of
  each kernel. Otherwise a kernel may leave a partial stride to its next call and lag
  behind its segment. The complete output does not depend on it.
* `EnoughBuffers`, for `BuffersSuffice`: each circular buffer has room for
  `ThreadNum` segments. `ScaleBuffers`, which is what `grep_engine.cpp` 310
  does, implies it; without it the property fails, as the mutant `UnscaledSegments`
  shows.

### Standard input

`ReadSourceProofs` has four layers, each with fewer conditions than the next, and a
fifth that stands on the second.

1. *No reader is disturbed.* A `ReadSegment` moves its thread only, so `ControlInv`
   holds as before (`ReadControl`). The source's thread moves the buffer when every
   consumer's ticket is at its own segment; a thread inside a consumer would hold the
   same segment, and two threads never do. `MovedUnread` follows, for any number of
   threads, short reads included.
2. *The counts.* `ReadCountsInv`: what was produced is within what was read, and no
   consumed count is ahead of it. A ReadSource, too, only moves counts forward, so
   `DataInv` holds as before (`ReadData`).
3. *The refinement.* The code asks "is less than a segment left?" of what it has
   buffered, a mapped source asks it of the file. The answers agree because what is
   buffered and not offered is always whole segments until the input is exhausted
   (`UnreadWhole`). The other steps are the same.
4. *The buffer.* What is dropped from it is decided by the consumed count, which a
   thread stores long after it has read it. `StoreInv` says in which order that
   happens: registers rise with the segments, and a count yet to be stored is less
   than the stored one only if another thread has already stored that of a later
   segment. With two threads that cannot be: the other thread would have to go round
   twice. So the start of the buffer never gets ahead of a count that is yet to be
   stored (`OriginInv`), and the next copy-back starts inside the buffer. With
   `Holds`, which says where the items are, `InputInBuffer`, `WrittenInBounds` and
   `ReadTypeOK` follow.
5. *The output.* A read that leaves less than a segment ends the input, wherever in
   the file it is; `CompleteRead` says what holds all the same. All that was read has
   been offered and processed by every kernel, unless one ended the pipeline early,
   and the input was cut nowhere but inside a segment, never between two when the
   buffer happened to be used up. Nothing is assumed of how short the reads are (a
   read that fails is not modelled), of the sizes or of the number of threads. The
   lemmas of *Output* are about an input of any size, and the size of this one is
   known only at its end. So `InputCalls` says: for every size, if what the source has
   offered so far is what an input of that size would offer, the calls of the other
   kernels are as for one (`InputInv`). Each call keeps this for each size that its
   own offer leaves possible (`CallKeepsInputs`). What has been produced is such a
   size (`OffersProduced`); at the end it is what was read (`SourceCalls`), and
   `CompleteAtEnd`, on which `OutputIsComplete` rests too, gives the rest.

`CompleteRead` is about positions: whether the items at them are those of the input is
`InputInBuffer`, which fails without `FullReads` (`short_read`). It does not promise
that the file is read to its end: the code does not do so, and no line of the
repository says that it does. In the run `read_source`, with full reads and two segments to
a page, only the end of the file can leave less than a segment, so there `CompleteRead`
says as much as `CompleteOutput`; under `FullReads` in general the refinement of layer
3 says that the source goes on to the end of the file. Short reads and other sizes are
covered by the theorem, not by the run.

The conditions, all on constants:

* `StopsPipeline`, for layer 5: as above.
* `FullReads`, for layers 3 and 4: no read is short, and a page is a whole number of
  segments or holds the whole input. Otherwise unread items are overwritten
  (`short_read`), or the read that leaves less than a segment ends the input. The
  default sizes (pages of 4096, segments of 16384) satisfy it only for an input of at
  most one page: of a longer one, the first read leaves less than a segment and the
  rest is never read. Layers 1, 2 and 5 hold for these sizes, too.
* `RoomForReads`, for layer 4: the first buffer holds two pages, and a page and a
  segment. The code's first buffer has 64 pages (of 4096 items, and segments of
  16384 by default).
* `ThreadNum = 2`, for layer 4: with three threads, a thread that was held up may
  store its count after two later ones and take the stored count back below the start
  of the buffer; the next copy-back then starts before the buffer
  (`source_kernel.cpp` 223-230). TLC shows it with three threads, segments and pages
  of one item and a buffer of two. Two threads are the default, and with three the
  source may wait for ever anyway (`consumer_wait`).

### UntilN

`CountsInv` gives the counts: until UntilN signals, it has processed and produced
whole segments. With it a call's items are whole blocks, or the rest of the file,
and `AsInPipeline` is the arithmetic of `doSegment` against the arithmetic of
`UntilN`.

For the bits, `OutputInv` says what an instance that has not signalled has kept
(`Kept`): the output so far is the input so far, and `seenSoFar` its number of ones,
fewer than N. Then the bit that a call takes for the Nth is the Nth of the stream
(`NthIsNthBit`); if there is none the call copies everything (`StoredCopies`,
`StillFewer`), and if there is one everything up to it. That a stream with N ones
has an Nth is not proved by induction, which the provers lack, but by counting: the
ranks of the ones are distinct numbers of 1 to their number, so they are all of them
(`NthExists`). `Kept` needs that the Nth bit is not the last item of a segment
(`NoneEndsSegment`), as UntilN then does not see it (`until_n_limit`); with fewer
than N ones there is no Nth bit, so `AllOfFewer` needs no condition. What the final
block does to an output that has already ended (`until_n_final`) is outside
`FirstNOfMore`.

### The cache

`CacheInv` of `ObjectCacheProofs` consists of `TypeOK`, the two properties, and
what makes them inductive: as long as runs have not overlapped, at most one
process is active (`Alone`); a clean-up about to remove a signature has removed
the object, which is still gone unless another process is there (`Evicting`); and a
process about to write an object has it created, unless a clean-up of another
process removed it (`WriterHolds`).

The other properties speak of runs that did not overlap, with different numbers of
kills, and `SequentialInv` has one part for each.

1. `SoleInv`, for any number of kills. Every object is that of a kernel of its
   name (`ObjectsNamed`), and as long as runs have not overlapped a process finds
   the directory as it left it (`Undisturbed`): what it read from an object is
   still there (`Loading`), what it is to write nobody has written (`Storing`), it
   writes a signature next to its own object (`Signing`), and its clean-up has
   listed every object there is, with its date (`Walk`). A complete object is dated
   by its last use (`DatedByUse`); a truncated one need not be.
2. `SignaturesAgree`, for at most one kill. A signature is that of the object next
   to it, unless a process is about to write it (`OwnSignature`). An object can only
   get a wrong signature if an old one is there when the object is written, and
   that takes a signature without an object: a clean-up killed between its two
   removals (`NoStraySignature`). The wrong pair is then seen only if the writer is
   killed as well, between object and signature (`SignatureToWrite`), which is why
   one kill is the limit. So the signature a process compared vouches for the
   object it read, and `NoForeignObject` follows from the assumption on names.
3. `NoneDies`, for no kill: every file a process looks for is there and complete.

`EvictsLeastRecentlyUsed` follows from the first: an object used earlier that is no
longer among those to be walked has been walked and left (`Left`), so it is dated
no earlier than the victim; a victim of size zero would have fit, so both are
complete, and their dates are their last uses.

`CleanAtTheEnd` holds for overlapping runs too, by `CleanInv`. Once every process
is at its clean-up or done, no file grows any more, and some process has passed in
its walk (`Passed`) only objects whose sizes add up to no more than it counts,
until it is done and all that is left is below the limit: the last to list the
directory is such a process. The lemmas on sums this rests on (`SumWithout`,
`SumMonotone`) are proved by induction on finite sets, in the form of a least
counterexample (`LeastSet`), which needs no theorem with an operator parameter.

### Pablo kernels

The theorems of `KernelBlocksProofs` are about `KernelSpec`: any loop-free code in the
form the compiler makes it, any inputs, any block width, any breakpoint of long
advances. That the kernels of the run are such code is what `PipelinesWellFormed` and
`ImplementsKernels` check.

`SumIsLookahead` relates what the code does, add two blocks as binary numbers, to
what the rest of the proof needs, where the carries of that addition go. The sum is
unique because binary digits are (`ValueIsUnique`), and it is found digit by digit
(`AddsUp`); both inductions are inside a block, on natural numbers, in the form of a
least counterexample.

A step of `KernelSpec` is a whole block of every kernel, so its proof is itself an
induction over the instructions of the code. `Effect`, `Entered`, `Skipped` and
`LeaveEffect` say once what each kind of instruction does to the machine. Three
invariants are carried through the code.

1. `MachineOK`: the next instruction is reached with as many summaries on the stack as
   there are Ifs around it, everything in scope is a block, and packs, histories and
   summaries are within their bounds. `KernelsAreTyped` follows.
2. `Hears`, for `CarriesAreCovered`: at every instruction, for every If around it, what
   the statements so far have put into their packs is in the summary on the stack for
   that If, directly or in that of an If that ends in between (`LeaveEffect` adds a
   summary to the next outer one). At the end of an If that summary is stored, so a
   stored summary covers every carry inside. An If that is skipped stores nothing: its
   condition and its summary were empty, so there were no carries inside, and none
   have been made.
3. `Follows`, for `BlocksAreStreams`: the variables in scope hold this block of the
   streams that the statements so far mean (`Streams`), and the pack of a statement
   holds what it has to remember of its operands: before it has run, for this block,
   and after it, for the next. For an advance this is the end of
   its operand, for an addition its carry (`SumIsLookahead`), and for a long advance
   the slots of a circular buffer (`Slots`), of which a slot that nobody wrote is one
   that holds nothing. An If that is skipped had an empty condition and, by
   `SummaryCoversCarries`, nothing remembered inside: it was `Idle`, so its body would
   have set nothing. The streams of a longer input are those of a shorter one in the
   blocks they share (`StreamsCausal`), so what was written in earlier blocks stays
   right as more input comes.

Between blocks that leaves `KernelsFollow`: every output so far is the meaning of the
whole input so far, and every pack holds what is remembered of it. It is not inductive
without the first two: `MachineOK` says which pack belongs to which statement, and
`SummaryCoversCarries` that an If is not skipped over a carry.

`BlocksAreStreams` has three conditions on the code. `LongAdvancesHeard` is below.
`NoStaleSlots`: a long advance in an If is over a number of blocks that is a power of
two; otherwise a slot skipped with the If is stale when it is read again, and TLC finds
`BlockwiseIsStream` violated. `SkipsChangeNothing`: an If whose condition is empty, and
whose statements remember nothing, would have set no variable outside. This one is
about what the code means, not how it runs, and is up to whoever writes an If: the
run checks it (`SkippedIfsAreIdle`) of the kernels written by hand and of those compiled
from expressions. It fails for one shape of the latter, a bounded repetition of a
class in an If: the runs of the class are computed whatever the condition, so a
skipped If forgets them. The result is right all the same, since `processLowerBound`
intersects the runs with markers that the condition gates, but that rests on what
the statements compute together and is model-checked only. Code without Ifs meets all
three conditions, which is `BranchFreeBlocksAreStreams`.

`CarriesAreCovered` has a condition on the code, `LongAdvancesHeard`: a long advance of
at most a block, in an If inside another, does not have its carry as the summary of
the inner If. `addLongAdvance` adds nothing to a summary that is read from the
advance itself (`carry_manager.cpp` 682), so the outer If would not hear of it, and
TLC finds the property violated for such code. No program of the repository has that
shape: advances of that length come from bounded repetitions, which are not in an If
inside another unless other carries are there too. `CodeOfCases` in `MCGrepBlocks`
checks the condition on the code of every case.

The assumptions are the named `ASSUME`s of `KernelSegments` (inputs come from
earlier kernels, strides and sizes are positive), `SegmentPipeline` (at least two
threads), `ReadSource`, `UntilN` (sizes are positive) and `ObjectCache`
(`CacheConstants`: there are finitely many names, and a limit that is not zero;
`KernelNames`: what `kernel.h` 67-74 asks of the names and signatures of kernels), and
`PabloKernel` and `KernelBlocks` (`PabloConstants`: blocks have at least two bits, and a
long advance is by at least two and at most a block; `PipelinesWellFormed`: loop-free
code is as the compiler makes it). TLC evaluates them in the runs.

Only model-checked:

* `Terminates`, which is liveness under fairness.
* The properties of `GrepBlocks` that speak of programs and expressions
  (`BlockwiseIsStream`, `MatchesRE`, `ReportedLines`, `TypeOK`): the meaning and the
  compilation of these are RECURSIVE operators that follow the recursion of the code
  they model, which the prover does not accept in a module with proofs. Kernels with
  loops are among them.
* `ImplementsKernels`, as it is a property of `GrepBlocks`.
* `SkippedIfsAreIdle`, the condition of `BlocksAreStreams` that the kernels of
  `grep_blocks` have to meet, and `ResultsAreStreams` where they do not: for a bounded
  repetition in an If.

## Not modelled

The reasons are in `PROJECT.json`, component by component. In the modelled
parts:

* Pipelines: errors of `read`, rates other than 1:1, lookahead, SIMD data, cycle
  counters, the drivers that are compiled out by `#if 0`, and failures of `malloc`,
  `mmap` and `pthread_create`, which the code does not handle. Stores and loads
  other than acquire and release are taken in program order; the race on the
  consumed counts is modelled as the order of its stores, word by word.
* Object cache: failures of the streams that write a file (`object_cache.cpp`
  137), and two kernels of one identifier in one process (79), which `KernelNames`
  assumes away. The clean-up meets entries of equal date in the order of their
  names.
* Pablo: lookahead, Count, Sel, ScanTo, and carry data of dynamic size.
* Regular expressions: boundary and grapheme assertions, names of width zero, the
  `-disable` options, and everything before the compiler: parsing, the passes over
  the syntax tree, and the Boolean equations of character classes. Files are valid
  UTF-8.

Programs of certain shapes are kept out of `grep_blocks`, because the code does not
run them as their statements mean; the model reproduces it when the case is added
to `MCCases`:

* A While in an If (`while_in_if`).
* A long advance in a loop, such as `a((a{3}b)*)b`: each iteration stores its block
  at the same place of the circular buffer (`carry_manager.cpp` 707-742).
* A long advance in an If over a number of blocks that is not a power of two: a
  slot skipped while the If was skipped is stale when it is read (715).
* An If in a While: its summary is overwritten by each iteration (830), as in
  `é((ab){3}b)*a` when blocks have 16 bits.

The map covers a small part of the repository's lines. Most of them are not the
program's own logic: two BDD libraries, an XML parser, a fuzzer, and generated
Unicode tables. Of the rest much is the construction of LLVM instructions, which
has no state beyond the code it emits; what is modelled is the code it emits.

## Plan

Done: the pipeline drivers and their refinements of `Dataflow`, with proofs; the
sources and `UntilN`, with proofs; the object cache, with proofs; the grep kernels from bytes to
reported lines, with proofs for the Pablo kernels without loops. What could follow, in this order:

1. The proof of `ResultsAreStreams` for a While: its carries gather over iterations,
   and the meaning of a loop is a RECURSIVE operator that would have to become a
   recursive function first. Likewise for a bounded repetition in an If, with a
   weaker form of `SkipsChangeNothing` that speaks of the escaping variables only.
2. The passes over expressions before the compiler (nullable prefixes, star normal
   form), composed with `GrepBlocks`, and the optimisation passes of Pablo, each
   checked against `Run`.
3. UnicodeSet operations and multiplexed character classes against sets of code
   points.
4. Copy-back buffers, and the outer loop of `MultiBlockKernel` for rates other
   than 1:1.
