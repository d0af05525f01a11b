--------------------------- MODULE KernelSegments ---------------------------
(***************************************************************************)
(* The kernels of one Parabix pipeline and what a doSegment call of each   *)
(* kind of kernel does to its item counts (kernels/kernel.cpp,             *)
(* kernels/source_kernel.cpp).  Everything here is a pure operator: the    *)
(* modules that schedule the calls keep the counts in their variables.     *)
(*                                                                         *)
(* A kernel is the index it has in the pipeline.  Every kernel writes one  *)
(* stream set, so a buffer is named by the kernel that produces it.  Items *)
(* are counted at the rate 1 : 1 (FixedRate), the rate of all the kernels  *)
(* of the icgrep pipeline up to the match scanner.                         *)
(***************************************************************************)
EXTENDS Integers, Sequences, FiniteSetsExt

CONSTANTS
    NumKernels,         \* kernels in the pipeline
    Inputs,             \* Inputs[k]: the producers of k's inputs, principal first
    NoTerminate,        \* kernels with the NoTerminate attribute
    MultiBlock,         \* MultiBlockKernels (the others are BlockOriented)
    EarlyTerminators,   \* kernels that may end the pipeline early (UntilN)
    Stride,             \* Stride[k]: items k processes at a time
    SegmentSize,        \* items a source offers per segment
    FileSize,           \* items in the input
    PageSize            \* items in a page of the mapped source

Kernels == 0 .. NumKernels - 1

InputSet(k) == {Inputs[k][i] : i \in DOMAIN Inputs[k]}

Sources == {k \in Kernels : Inputs[k] = <<>>}

Consumers(b) == {k \in Kernels : b \in InputSet(k)}

\* The buffers that have a consumer: the keys of consumedPos.
ConsumedBuffers == {b \in Kernels : Consumers(b) # {}}

-----------------------------------------------------------------------------

ASSUME KernelsAssumption ==
    /\ NumKernels \in Nat \ {0}
    /\ NoTerminate \subseteq Kernels
    /\ MultiBlock \subseteq Kernels
    /\ EarlyTerminators \subseteq Kernels \ Sources

\* A kernel may only use a stream set that an earlier kernel defines.
ASSUME InputsAssumption ==
    /\ Inputs \in [Kernels -> Seq(Kernels)]
    /\ \A k \in Kernels : \A i \in DOMAIN Inputs[k] : Inputs[k][i] < k

ASSUME ItemsAssumption ==
    /\ Stride \in [Kernels -> Nat \ {0}]
    /\ SegmentSize \in Nat \ {0}
    /\ FileSize \in Nat
    /\ PageSize \in Nat \ {0}

-----------------------------------------------------------------------------

\* The item counts of a kernel instance and its termination signal.
KernelState == [processed : Nat, produced : Nat, signal : BOOLEAN]

InitKernelState == [processed |-> 0, produced |-> 0, signal |-> FALSE]

\* MMapSource and MemorySource: offer one more segment, or what is left of
\* the file.  A file that ends exactly with a segment is only found to be
\* exhausted by the next call, which offers nothing.
SourceSegment(st) ==
    LET end == st.produced + SegmentSize
    IN  IF FileSize < end
        THEN [st EXCEPT !.produced = FileSize, !.signal = TRUE]
        ELSE [st EXCEPT !.produced = end]

\* Mutated form: the operands of the subtraction swapped.
SwappedStrideItems(k, st, avail) ==
    ((st.processed - avail) \div Stride[k]) * Stride[k]

\* The items of whole strides among those available and not yet processed.
StrideItems(k, st, avail) ==
    ((avail - st.processed) \div Stride[k]) * Stride[k]

\* A doSegment call processes whole strides; the final one also processes
\* the items after the last whole stride and signals termination.
Advance(k, st, avail, final) ==
    LET upTo == IF final THEN avail ELSE st.processed + StrideItems(k, st, avail)
    IN  [processed |-> upTo, produced |-> upTo, signal |-> st.signal \/ final]

\* UntilN signals termination when it finds the Nth bit before the end of the
\* items it was given, and produces the items up to it; the count of its input
\* still advances over them all.
EarlyTermination(k, st, avail, final) ==
    LET normal == Advance(k, st, avail, final)
    IN  {[normal EXCEPT !.produced = n, !.signal = TRUE] :
            n \in st.produced + 1 .. normal.processed - 1}

\* The items a call is told are available, from the produced counts of the
\* inputs: a MultiBlockKernel takes the least, a BlockOrientedKernel looks
\* at its principal input only.
Available(k, pos) ==
    IF k \in MultiBlock
    THEN Min({pos[b] : b \in InputSet(k)})
    ELSE pos[Inputs[k][1]]

\* The states a doSegment call may leave kernel k in.
DoSegmentResults(k, st, pos, final) ==
    IF k \in Sources
    THEN {SourceSegment(st)}
    ELSE LET avail == Available(k, pos)
         IN  {Advance(k, st, avail, final)} \cup
             (IF k \in EarlyTerminators
              THEN EarlyTermination(k, st, avail, final) ELSE {})

-----------------------------------------------------------------------------
(* What both pipeline drivers compute between two doSegment calls *)

\* Mutated form: only the last kernel's signal counts.
LastSignal(k, st, before) == k \notin NoTerminate /\ st.signal

\* The final flag for the kernels after k, once k is in state st.
TerminatedAfter(k, st, before) ==
    before \/ (k \notin NoTerminate /\ st.signal)

FirstConsumer(b, k) == \A j \in Consumers(b) : k <= j

\* Mutated form: the operands of the comparison swapped.
MostProcessed(k, st, before) ==
    [b \in Kernels |->
        IF b \notin InputSet(k) THEN before[b]
        ELSE IF FirstConsumer(b, k) \/ st.processed > before[b] THEN st.processed
        ELSE before[b]]

\* The least processed count of the consumers of each buffer executed so far.
ConsumedAfter(k, st, before) ==
    [b \in Kernels |->
        IF b \notin InputSet(k) THEN before[b]
        ELSE IF FirstConsumer(b, k) \/ st.processed < before[b] THEN st.processed
        ELSE before[b]]

\* Mutated form: the mask not negated.
PageRemainder(n) == n % PageSize

\* Whole pages: all that MMapSource can drop of n consumed items.
PageFloor(n) == (n \div PageSize) * PageSize

NoPositions == [b \in Kernels |-> 0]

=============================================================================
