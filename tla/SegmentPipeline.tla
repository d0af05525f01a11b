-------------------------- MODULE SegmentPipeline --------------------------
(***************************************************************************)
(* The segment-parallel pipeline that generateSegmentParallelPipeline      *)
(* (toolchain/pipeline.cpp) emits.  ThreadNum threads run the same         *)
(* function: thread t takes the segments t, t + ThreadNum, t + 2*ThreadNum *)
(* and so on, and carries each through all the kernels.  A kernel has no   *)
(* lock: its logicalSegNo is a ticket, and a thread spins until it equals  *)
(* the segment it holds.  A kernel's counts are read and written only      *)
(* between the acquire and the release, except consumed, which a thread    *)
(* writes after it has released every kernel.  The process thread is       *)
(* thread 0: it spawns the others, runs segment 0 itself, joins them and   *)
(* only then finalizes the kernels.                                        *)
(***************************************************************************)
EXTENDS KernelSegments

CONSTANTS
    ThreadNum,          \* -thread-num, at least 2 for this driver
    SerializeThreads,   \* the debug option of that name
    BufferSegments,     \* -buffer-segments
    ScaleBuffers        \* whether the program scales its buffers (grepPipeline)
                        \* or leaves them at that size (grepCodepoints)

ASSUME ThreadsAssumption ==
    /\ ThreadNum \in Nat \ {0, 1}
    /\ SerializeThreads \in BOOLEAN
    /\ BufferSegments \in Nat \ {0}
    /\ ScaleBuffers \in BOOLEAN

Threads == 0 .. ThreadNum - 1

\* Mutated form: grepPipeline without its factor.
UnscaledSegments == BufferSegments

\* The segments that each circular buffer has room for.
BufferedSegments ==
    IF ScaleBuffers THEN BufferSegments * ThreadNum ELSE BufferSegments

VARIABLES
    \* The kernel instances, shared by the threads
    instance,       \* processed and produced counts, termination signal
    logicalSegNo,   \* the next segment the kernel may execute
    consumed,       \* consumed[b]: what the source is told of buffer b
    readable,       \* readable[k]: items of source k whose pages it dropped
    \* The driver
    driver,         \* its control state
    \* The threads
    pc,             \* control state of each thread
    segNo,          \* the segment each thread holds
    at,             \* the kernel each thread has reached
    terminated,     \* registers of the thread function: the final flag,
    producedPos,    \* the produced counts it read from each kernel,
    consumedPos,    \* the least processed count of each buffer's consumers,
    unset           \* the buffers whose consumed count it has yet to store

kernelVars == <<instance, logicalSegNo, consumed, readable>>
registers  == <<terminated, producedPos, consumedPos, unset>>
vars == <<kernelVars, driver, pc, segNo, at, registers>>

TypeOK ==
    /\ instance \in [Kernels -> KernelState]
    /\ logicalSegNo \in [Kernels -> Nat]
    /\ consumed \in [Kernels -> Nat]
    /\ readable \in [Kernels -> Nat]
    /\ driver \in {"spawn", "call", "finalize", "returned"}
    /\ pc \in [Threads -> {"unborn", "segmentWait", "doSegment", "release",
                           "setConsumed", "exitThread"}]
    /\ segNo \in [Threads -> Nat]
    /\ at \in [Threads -> 0 .. NumKernels]
    /\ terminated \in [Threads -> BOOLEAN]
    /\ producedPos \in [Threads -> [Kernels -> Nat]]
    /\ consumedPos \in [Threads -> [Kernels -> Nat]]
    /\ unset \in [Threads -> SUBSET Kernels]

\* The instances are zero-initialized and every kernel's segment number is
\* released as 0 before a thread is created; thread i starts at segment i.
Init ==
    /\ instance = [k \in Kernels |-> InitKernelState]
    /\ logicalSegNo = [k \in Kernels |-> 0]
    /\ consumed = NoPositions
    /\ readable = NoPositions
    /\ driver = "spawn"
    /\ pc = [t \in Threads |-> "unborn"]
    /\ segNo = [t \in Threads |-> t]
    /\ at = [t \in Threads |-> 0]
    /\ terminated = [t \in Threads |-> FALSE]
    /\ producedPos = [t \in Threads |-> NoPositions]
    /\ consumedPos = [t \in Threads |-> NoPositions]
    /\ unset = [t \in Threads |-> {}]

-----------------------------------------------------------------------------
(* The driver *)

\* pthread_create for the threads 1, 2, ... in turn.
Spawn(t) ==
    /\ driver = "spawn"
    /\ t # 0
    /\ pc[t] = "unborn"
    /\ \A u \in 1 .. t - 1 : pc[u] # "unborn"
    /\ pc' = [pc EXCEPT ![t] = "segmentWait"]
    /\ UNCHANGED <<kernelVars, driver, segNo, at, registers>>

\* The process thread calls the thread function for offset 0.
CallThread0 ==
    /\ driver = "spawn"
    /\ \A t \in Threads \ {0} : pc[t] # "unborn"
    /\ driver' = "call"
    /\ pc' = [pc EXCEPT ![0] = "segmentWait"]
    /\ UNCHANGED <<kernelVars, segNo, at, registers>>

\* Mutated form: the joins left out.
AwaitedWithoutJoin == {0}

\* The threads the driver waits for: its own call, then the join of each one.
Awaited == Threads

\* The call has returned and pthread_join has returned for each thread.
JoinThreads ==
    /\ driver = "call"
    /\ \A t \in Awaited : pc[t] = "exitThread"
    /\ driver' = "finalize"
    /\ UNCHANGED <<kernelVars, pc, segNo, at, registers>>

\* generatePipelineIR finalizes the kernels; the sources unmap their buffers.
FinalizeInstances ==
    /\ driver = "finalize"
    /\ driver' = "returned"
    /\ UNCHANGED <<kernelVars, pc, segNo, at, registers>>

-----------------------------------------------------------------------------
(* The thread function *)

\* The kernel whose segment number the thread spins on.
WaitKernel(t) == IF SerializeThreads THEN NumKernels - 1 ELSE at[t]

\* Mutated form: a comparison that lets later segments through.
ReadyOrLate(t) == logicalSegNo[WaitKernel(t)] <= segNo[t]

Ready(t) == logicalSegNo[WaitKernel(t)] = segNo[t]

\* "If the kernel was terminated in a previous segment then the pipeline is
\* done."
Completed(t) == at[t] \notin NoTerminate /\ instance[at[t]].signal

NextSegNo(t) == segNo[t] + 1

\* segmentWait, then completionTest: enter the kernel.
Enter(t) ==
    /\ pc[t] = "segmentWait"
    /\ Ready(t)
    /\ ~Completed(t)
    /\ pc' = [pc EXCEPT ![t] = "doSegment"]
    /\ UNCHANGED <<kernelVars, driver, segNo, at, registers>>

\* Mutated form: the exit block without the release.
ExitWithoutRelease(t) ==
    /\ pc[t] = "segmentWait"
    /\ Ready(t)
    /\ Completed(t)
    /\ pc' = [pc EXCEPT ![t] = "exitThread"]
    /\ UNCHANGED <<kernelVars, driver, segNo, at, registers>>

\* exitBlock: "Ensure that the next thread will also exit."  The consumed
\* counts of the kernels already executed are not stored.
ExitPipeline(t) ==
    /\ pc[t] = "segmentWait"
    /\ Ready(t)
    /\ Completed(t)
    /\ logicalSegNo' = [logicalSegNo EXCEPT ![at[t]] = NextSegNo(t)]
    /\ pc' = [pc EXCEPT ![t] = "exitThread"]
    /\ UNCHANGED <<instance, consumed, readable, driver, segNo, at, registers>>

\* MMapSource first drops the pages below the consumed count, in a call that
\* moves readableBuffer up to the last of them.
DropPages(k) ==
    IF k \in Sources
    THEN [readable EXCEPT ![k] = PageFloor(consumed[k])] ELSE readable

\* Mutated form: the counts of the instances, not those of the segment.
InstanceCounts(t) == [k \in Kernels |-> instance[k].produced]

\* The available item counts a kernel is called with: the thread's registers.
InputPositions(t) == producedPos[t]

\* The doSegment call and the reads of the kernel's counts after it, all
\* between the acquire and the release of the kernel's segment number.
DoSegment(t) ==
    LET k == at[t]
    IN  /\ pc[t] = "doSegment"
        /\ \E st \in DoSegmentResults(k, instance[k], InputPositions(t),
                                      terminated[t]) :
              /\ instance' = [instance EXCEPT ![k] = st]
              /\ producedPos' = [producedPos EXCEPT ![t][k] = st.produced]
              /\ consumedPos' = [consumedPos EXCEPT ![t] = ConsumedAfter(k, st, @)]
              /\ terminated' = [terminated EXCEPT ![t] = TerminatedAfter(k, st, @)]
        /\ readable' = DropPages(k)
        /\ pc' = [pc EXCEPT ![t] = "release"]
        /\ UNCHANGED <<logicalSegNo, consumed, driver, segNo, at, unset>>

Release(t) ==
    /\ pc[t] = "release"
    /\ logicalSegNo' = [logicalSegNo EXCEPT ![at[t]] = NextSegNo(t)]
    /\ at' = [at EXCEPT ![t] = @ + 1]
    /\ IF at[t] = NumKernels - 1
       THEN /\ pc' = [pc EXCEPT ![t] = "setConsumed"]
            /\ unset' = [unset EXCEPT ![t] = ConsumedBuffers]
       ELSE /\ pc' = [pc EXCEPT ![t] = "segmentWait"]
            /\ UNCHANGED unset
    /\ UNCHANGED <<instance, consumed, readable, driver, segNo, terminated,
                   producedPos, consumedPos>>

\* setConsumedItemCount: an unsynchronized store, in the order of the map.
StoreConsumed(t, b) ==
    /\ pc[t] = "setConsumed"
    /\ b \in unset[t]
    /\ consumed' = [consumed EXCEPT ![b] = consumedPos[t][b]]
    /\ unset' = [unset EXCEPT ![t] = @ \ {b}]
    /\ UNCHANGED <<instance, logicalSegNo, readable, driver, pc, segNo, at,
                   terminated, producedPos, consumedPos>>

\* The segment the thread takes after the one it holds.
NextHeld(t) == segNo[t] + ThreadNum

\* The pipeline is not terminated: back to segmentLoop with fresh registers.
LoopSegment(t) ==
    /\ pc[t] = "setConsumed"
    /\ unset[t] = {}
    /\ ~terminated[t]
    /\ segNo' = [segNo EXCEPT ![t] = NextHeld(t)]
    /\ at' = [at EXCEPT ![t] = 0]
    /\ pc' = [pc EXCEPT ![t] = "segmentWait"]
    /\ producedPos' = [producedPos EXCEPT ![t] = NoPositions]
    /\ consumedPos' = [consumedPos EXCEPT ![t] = NoPositions]
    /\ UNCHANGED <<kernelVars, driver, terminated, unset>>

\* exitThread: the thread's segment was the last one.
ExitThread(t) ==
    /\ pc[t] = "setConsumed"
    /\ unset[t] = {}
    /\ terminated[t]
    /\ pc' = [pc EXCEPT ![t] = "exitThread"]
    /\ UNCHANGED <<kernelVars, driver, segNo, at, registers>>

\* The steps of a thread outside the doSegment calls.
Coordinate(t) ==
    \/ Enter(t)
    \/ ExitPipeline(t)
    \/ Release(t)
    \/ \E b \in Kernels : StoreConsumed(t, b)
    \/ LoopSegment(t)
    \/ ExitThread(t)

ThreadStep(t) == DoSegment(t) \/ Coordinate(t)

DriverStep ==
    \/ \E t \in Threads : Spawn(t)
    \/ CallThread0
    \/ JoinThreads
    \/ FinalizeInstances

\* The program has returned; nothing is left to do.
Returned == driver = "returned" /\ UNCHANGED vars

Next == DriverStep \/ (\E t \in Threads : ThreadStep(t)) \/ Returned

Spec == Init /\ [][Next]_vars

\* The threads are preemptively scheduled: none of them is stopped forever.
Fairness == WF_vars(DriverStep) /\ \A t \in Threads : WF_vars(ThreadStep(t))

FairSpec == Spec /\ Fairness

-----------------------------------------------------------------------------
(* Properties *)

\* The thread is between its acquire and its release of kernel at[t].
Inside(t) == pc[t] \in {"doSegment", "release"}

\* No two threads are ever inside the same kernel: its scalars, which no lock
\* protects, are read and written by one thread at a time
\* (kernel_builder.h:24-32).
KernelExclusive ==
    \A t, u \in Threads :
        (t # u /\ Inside(t) /\ Inside(u)) => at[t] # at[u]

\* Each kernel executes segments 0, 1, 2, ... without a gap or a repeat, each
\* after every earlier kernel: a thread inside a kernel holds exactly the
\* segment that is due there, the kernels before it are past that segment,
\* those after it are not.
SegmentsInOrder ==
    \A t \in Threads : Inside(t) =>
        /\ logicalSegNo[at[t]] = segNo[t]
        /\ \A j \in 0 .. at[t] - 1 : logicalSegNo[j] > segNo[t]
        /\ \A j \in at[t] + 1 .. NumKernels - 1 : logicalSegNo[j] <= segNo[t]

\* Thread t, about to write kernel at[t]'s output, may reach around the
\* circular buffer to items that its consumer j has yet to process.
Overruns(t, j) ==
    \E st \in DoSegmentResults(at[t], instance[at[t]], InputPositions(t),
                               terminated[t]) :
        st.produced > instance[j].processed + BufferedSegments * SegmentSize

\* A kernel never overwrites items of a circular buffer that some consumer has
\* yet to process, even one reading them at that moment in another thread.
NoOverrun ==
    \A t \in Threads : (pc[t] = "doSegment" /\ at[t] \notin Sources) =>
        \A j \in Consumers(at[t]) : ~Overruns(t, j)

\* The same for the inputs of MultiBlockKernels alone, which kernel.h:353-357
\* promises "will be safe to access and have data available".
MultiBlockInputIntact ==
    \A t \in Threads : (pc[t] = "doSegment" /\ at[t] \notin Sources) =>
        \A j \in Consumers(at[t]) \cap MultiBlock : ~Overruns(t, j)

\* What a source is told is consumed, and so may discard, every consumer has
\* in fact processed, although the counts are stored without synchronization
\* and out of order; in particular no page is dropped that is still to be read.
DiscardedIsProcessed ==
    \A b \in Kernels : \A j \in Consumers(b) :
        /\ consumed[b] <= instance[j].processed
        /\ readable[b] <= instance[j].processed

\* UntilN ended the pipeline before the end of its input.
EndedEarly ==
    \E k \in EarlyTerminators : instance[k].produced < instance[k].processed

\* When the driver goes on to finalize the kernels, every kernel has processed
\* the whole input, unless a kernel ended the pipeline early: no segment is
\* lost between the thread that terminates and those that follow it, and none
\* is still in a thread that was not awaited.
CompleteOutput ==
    (driver = "finalize" /\ ~EndedEarly) =>
        \A k \in Kernels :
            IF k \in Sources THEN instance[k].produced = FileSize
                             ELSE instance[k].processed = FileSize

\* Every thread leaves its loop and the program returns.
Terminates == <>(driver = "returned")

\* MMapSource "avoid[s] calling madvise unless an actual page table change
\* could occur": the length it passes, the distance from readableBuffer up to
\* the consumed pages, is never negative (as a size_t: near 2^64).
DropLengthIsValid ==
    [][\A k \in Sources : readable'[k] >= readable[k]]_vars

=============================================================================
