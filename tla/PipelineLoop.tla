---------------------------- MODULE PipelineLoop ----------------------------
(***************************************************************************)
(* The single-threaded pipeline that generatePipelineLoop                  *)
(* (toolchain/pipeline.cpp) emits when -thread-num is 1: one loop whose    *)
(* body calls every kernel for one segment and then stores the consumed    *)
(* counts, until a kernel has terminated.                                  *)
(***************************************************************************)
EXTENDS KernelSegments

VARIABLES
    instance,       \* processed and produced counts, termination signal
    logicalSegNo,   \* segments each kernel has executed
    consumed,       \* consumed[b]: what the source is told of buffer b
    readable,       \* readable[k]: items of source k whose pages it dropped
    pc,             \* control state of Main
    at,             \* the kernel the loop has reached
    terminated,     \* registers of the loop body: the final flag,
    producedPos,    \* the produced counts it read from each kernel,
    consumedPos,    \* the least processed count of each buffer's consumers
    history         \* history variable: what every call left behind

vars == <<instance, logicalSegNo, consumed, readable, pc, at, terminated,
          producedPos, consumedPos, history>>

TypeOK ==
    /\ instance \in [Kernels -> KernelState]
    /\ logicalSegNo \in [Kernels -> Nat]
    /\ consumed \in [Kernels -> Nat]
    /\ readable \in [Kernels -> Nat]
    /\ pc \in {"pipelineLoop", "setConsumed", "pipelineExit", "returned"}
    /\ at \in 0 .. NumKernels
    /\ terminated \in BOOLEAN
    /\ producedPos \in [Kernels -> Nat]
    /\ consumedPos \in [Kernels -> Nat]
    /\ history \in [Kernels -> Seq(KernelState)]

Init ==
    /\ instance = [k \in Kernels |-> InitKernelState]
    /\ logicalSegNo = [k \in Kernels |-> 0]
    /\ consumed = NoPositions
    /\ readable = NoPositions
    /\ pc = "pipelineLoop"
    /\ at = 0
    /\ terminated = FALSE
    /\ producedPos = NoPositions
    /\ consumedPos = NoPositions
    /\ history = [k \in Kernels |-> <<>>]

-----------------------------------------------------------------------------

\* The body of the loop for kernel at: the call, the reads of the kernel's
\* counts and the increment of its segment number.
DoSegment ==
    /\ pc = "pipelineLoop"
    /\ \E st \in DoSegmentResults(at, instance[at], producedPos, terminated) :
          /\ instance' = [instance EXCEPT ![at] = st]
          /\ producedPos' = [producedPos EXCEPT ![at] = st.produced]
          /\ consumedPos' = ConsumedAfter(at, st, consumedPos)
          /\ terminated' = TerminatedAfter(at, st, terminated)
          /\ history' = [history EXCEPT ![at] = Append(@, st)]
    /\ readable' = IF at \in Sources
                   THEN [readable EXCEPT ![at] = PageFloor(consumed[at])]
                   ELSE readable
    /\ logicalSegNo' = [logicalSegNo EXCEPT ![at] = @ + 1]
    /\ at' = at + 1
    /\ pc' = IF at = NumKernels - 1 THEN "setConsumed" ELSE pc
    /\ UNCHANGED consumed

\* Mutated form: what the producers produced, not what was processed of it.
ProducedCounts == [b \in Kernels |-> producedPos[b]]

\* The values the loop stores after the last kernel.
ConsumedCounts ==
    [b \in Kernels |->
        IF b \in ConsumedBuffers THEN consumedPos[b] ELSE consumed[b]]

\* Mutated form: the branch with its targets swapped.
LeaveUnlessTerminated == ~terminated

Leave == terminated

\* setConsumedItemCount for every buffer, then back to pipelineLoop or on to
\* pipelineExit.
EndSegment ==
    /\ pc = "setConsumed"
    /\ consumed' = ConsumedCounts
    /\ at' = 0
    /\ pc' = IF Leave THEN "pipelineExit" ELSE "pipelineLoop"
    /\ producedPos' = NoPositions
    /\ consumedPos' = NoPositions
    /\ terminated' = FALSE
    /\ UNCHANGED <<instance, logicalSegNo, readable, history>>

\* generatePipelineIR finalizes the kernels; the sources unmap their buffers.
FinalizeInstances ==
    /\ pc = "pipelineExit"
    /\ pc' = "returned"
    /\ UNCHANGED <<instance, logicalSegNo, consumed, readable, at, terminated,
                   producedPos, consumedPos, history>>

\* The program has returned; nothing is left to do.
Returned == pc = "returned" /\ UNCHANGED vars

Next == DoSegment \/ EndSegment \/ FinalizeInstances \/ Returned

Spec == Init /\ [][Next]_vars

-----------------------------------------------------------------------------
(* Properties *)

\* No page is dropped, and no item discarded, that a consumer has yet to
\* process, even when a kernel's stride leaves items behind at the end of a
\* segment.
DiscardedIsProcessed ==
    \A b \in Kernels : \A j \in Consumers(b) :
        /\ consumed[b] <= instance[j].processed
        /\ readable[b] <= instance[j].processed

\* Here, unlike with several threads, the pages are dropped in order: the
\* length MMapSource passes to madvise is never negative.
DropLengthIsValid ==
    [][\A k \in Sources : readable'[k] >= readable[k]]_vars

\* UntilN ended the pipeline before the end of its input.
EndedEarly ==
    \E k \in EarlyTerminators : instance[k].produced < instance[k].processed

\* Unless a kernel ends the pipeline early, every kernel has processed the
\* whole input when the kernels are finalized, the items after its last whole
\* stride included.
CompleteOutput ==
    (pc = "pipelineExit" /\ ~EndedEarly) =>
        \A k \in Kernels :
            IF k \in Sources THEN instance[k].produced = FileSize
                             ELSE instance[k].processed = FileSize

Abstract == INSTANCE Dataflow

\* The loop is one of the schedules that Dataflow allows.
ImplementsDataflow == Abstract!Spec

=============================================================================
