------------------------------- MODULE UntilN -------------------------------
(***************************************************************************)
(* The UntilN kernel (kernels/until_n.cpp), which icgrep -m, -q and -l put *)
(* before the match scanner: copy the stream of match bits up to and       *)
(* including the Nth, then end the pipeline.  It is a MultiBlockKernel, so *)
(* its logic is called by the doSegment method of kernels/kernel.cpp, once *)
(* for the whole blocks of a segment and, in the final segment, once more  *)
(* for the items after them, through temporary buffers.                    *)
(*                                                                         *)
(* A bit stream is the set of the positions of its 1 bits.  The stride is  *)
(* one block.  A segment never wraps around its circular buffer, so all of *)
(* its whole blocks are linearly available, and positions are absolute.    *)
(***************************************************************************)
EXTENDS Integers, FiniteSetsExt

CONSTANTS
    BlockSize,          \* items in a block
    BlocksPerGroup,     \* blocks whose packs one index pack covers
    SegmentBlocks,      \* blocks in a segment
    Length,             \* items in the input
    Limits              \* the values of N to try

\* The blocks of the temporary output area.
TempBlocks == 3

ASSUME UntilNAssumption ==
    /\ BlockSize \in Nat \ {0}
    /\ BlocksPerGroup \in Nat \ {0}
    /\ SegmentBlocks \in Nat \ {0}
    /\ Length \in Nat
    /\ Limits \subseteq Nat \ {0}

GroupSize == BlocksPerGroup * BlockSize
SegmentSize == SegmentBlocks * BlockSize

BlockFloor(n) == (n \div BlockSize) * BlockSize
BlockCeiling(n) == BlockFloor(n + BlockSize - 1)

VARIABLES
    N,          \* the scalar input of that name
    bits,       \* input stream; positions from Length on are in the last block
    segNo,      \* the segment to be executed
    kernel      \* counts and scalars of the instance, its output buffer

vars == <<N, bits, segNo, kernel>>

Positions == 0 .. BlockCeiling(Length) - 1

TypeOK ==
    /\ N \in Limits
    /\ bits \subseteq Positions
    /\ segNo \in Nat
    /\ kernel \in [processed : 0 .. Length, produced : 0 .. Length,
                   seenSoFar : Nat, signal : BOOLEAN, uptoN : SUBSET Positions]

Init ==
    /\ N \in Limits
    /\ bits \in SUBSET Positions
    /\ segNo = 0
    /\ kernel = [processed |-> 0, produced |-> 0, seenSoFar |-> 0,
                 signal |-> FALSE, uptoN |-> {}]

-----------------------------------------------------------------------------
(* The logic of UntilN, for a call that is given some items *)

\* The bits it looks at: a partial block is treated as a whole one.
Looked(st, items) ==
    bits \cap (st.processed .. st.processed + BlockCeiling(items) - 1)

\* Mutated form: one bit too many is cleared.
NthAfter(st, items) ==
    {p \in Looked(st, items) :
        st.seenSoFar + Cardinality({b \in Looked(st, items) : b < p}) = N}

\* The Nth bit, if it is among them: a set of at most one position.
Nth(st, items) ==
    {p \in Looked(st, items) :
        st.seenSoFar + Cardinality({b \in Looked(st, items) : b <= p}) = N}

\* Mutated form: no test against the end of the items.
PosnAfterNthAnywhere(st, items) == {p + 1 - st.processed : p \in Nth(st, items)}

\* Mutated form: the position of the Nth bit itself.
PosnOfNth(st, items) == {p - st.processed : p \in Nth(st, items)}

\* The position after the Nth bit, counted from the first item, unless it is
\* not below the number of items: then the Nth bit counts as not found yet.
PosnAfterNth(st, items) ==
    {posn \in {p + 1 - st.processed : p \in Nth(st, items)} : posn < items}

\* The offset of the block group that the scan of an offset belongs to.
GroupFloor(n) == (n \div GroupSize) * GroupSize

\* The blocks that are copied: those of the groups up to the Nth bit's.
CopiedItems(st, items) ==
    Min({BlockCeiling(items)} \cup
        {GroupFloor(p - st.processed) + GroupSize : p \in Nth(st, items)})

\* seenSoFar is stored after each group in which the Nth bit does not occur.
SeenAfter(st, items) ==
    st.seenSoFar + Cardinality(
        {b \in Looked(st, items) :
            \A p \in Nth(st, items) : b < st.processed + GroupFloor(p - st.processed)})

\* The bits stored in the output area, as offsets; those after the Nth are
\* masked in the block of posn only.
StoredBits(st, items) ==
    {o \in {b - st.processed : b \in Looked(st, items)} :
        /\ o < CopiedItems(st, items)
        /\ \A posn \in PosnAfterNth(st, items) :
              ~(o >= posn /\ BlockFloor(o) = BlockFloor(posn))}

\* The items of the output area that the call overwrites.
StoredItems(st, items) ==
    Max({CopiedItems(st, items)} \cup
        {BlockFloor(posn) + BlockSize : posn \in PosnAfterNth(st, items)})

\* The counts and scalars after the call.  UntilN sets its processed count to
\* the position after the Nth bit too, but its caller then overwrites it.
Called(st, items) ==
    [st EXCEPT
        !.processed = @ + items,
        !.produced = IF PosnAfterNth(st, items) = {}
                     THEN @ + items
                     ELSE st.processed + Max(PosnAfterNth(st, items)),
        !.seenSoFar = SeenAfter(st, items),
        !.signal = @ \/ PosnAfterNth(st, items) # {}]

-----------------------------------------------------------------------------
(* doSegment of MultiBlockKernel *)

\* Replace the items from base up to base + n of the output buffer.
Overwrite(buffer, base, n, offsets) ==
    {o \in buffer : o < base \/ o >= base + n} \cup
        {base + o : o \in {x \in offsets : x < n}}

\* One call for all the whole blocks, directly in the buffers.
DoWholeBlocks(st, avail) ==
    LET items == BlockFloor(avail - st.processed)
    IN  IF items = 0 THEN st
        ELSE [Called(st, items) EXCEPT
                 !.uptoN = Overwrite(@, BlockFloor(st.produced),
                                     StoredItems(st, items), StoredBits(st, items))]

\* The temporary output area: a copy of the items in the block of the produced
\* count, until the logic, if it has any item to do, stores its own block there.
TempBits(st, items) ==
    IF items = 0
    THEN {o - BlockFloor(st.produced) :
             o \in st.uptoN \cap (BlockFloor(st.produced) .. st.produced - 1)}
    ELSE StoredBits(st, items)

\* The final block, in temporary buffers, copied back up to the produced count.
\* The items to copy back may be more than the temporary area has, if the whole
\* blocks have ended the output: what follows it in memory is then copied.
DoFinalBlock(st, avail) ==
    LET items == avail - st.processed
        after == Called(st, items)
        base  == BlockFloor(st.produced)
        n     == after.produced - base
    IN  {[after EXCEPT
             !.uptoN = Overwrite(@, base, n, TempBits(st, items) \cup beyond),
             !.signal = TRUE] : beyond \in SUBSET (TempBlocks * BlockSize .. n - 1)}

\* The items a segment's call is told are available, and its final flag.
Avail == Min({Length, (segNo + 1) * SegmentSize})
Final == Length < (segNo + 1) * SegmentSize

\* Mutated form: the items after the last whole block are left out.
DoWholeBlocksOnly(st) ==
    LET done == DoWholeBlocks(st, Avail)
    IN  IF Final THEN {[done EXCEPT !.signal = TRUE]} ELSE {done}

DoSegmentResults(st) ==
    LET done == DoWholeBlocks(st, Avail)
    IN  IF Final THEN DoFinalBlock(done, Avail) ELSE {done}

\* The pipeline calls no kernel again that has signalled termination.
DoSegment ==
    /\ ~kernel.signal
    /\ kernel' \in DoSegmentResults(kernel)
    /\ segNo' = segNo + 1
    /\ UNCHANGED <<N, bits>>

\* The pipeline has ended.
Terminated == kernel.signal /\ UNCHANGED vars

Next == DoSegment \/ Terminated

Spec == Init /\ [][Next]_vars

-----------------------------------------------------------------------------
(* Properties *)

\* What the match scanner reads.
Output == {o \in kernel.uptoN : o < kernel.produced}

\* The match bits of the input.
ValidBits == bits \cap (0 .. Length - 1)

FirstBits(n) ==
    {p \in ValidBits : Cardinality({b \in ValidBits : b <= p}) <= n}

\* As long as the input has fewer than N bits, the output is the input, however
\* the segments and the last block divide it; a bit in the last block beyond
\* the end of the input does not count (until_n.cpp:33-36).
AllOfFewer ==
    Cardinality(ValidBits) < N =>
        /\ kernel.produced = kernel.processed
        /\ Output = {b \in ValidBits : b < kernel.processed}
        /\ kernel.signal => kernel.processed = Length

\* A segment, not the final one, ends with the Nth bit.
EndsSegment(p) == (p + 1) % SegmentSize = 0

\* When UntilN ends the pipeline before the final segment, the match scanner
\* gets exactly the first N bits, provided that the Nth bit was not the last
\* item of a segment.
FirstNOfMore ==
    (kernel.signal /\ segNo * SegmentSize <= Length
        /\ \A p \in FirstBits(N) \ FirstBits(N - 1) : ~EndsSegment(p)) =>
        Output = FirstBits(N)

Pipeline ==
    INSTANCE KernelSegments WITH
        NumKernels <- 2, Inputs <- [k \in 0 .. 1 |-> IF k = 0 THEN <<>> ELSE <<0>>],
        NoTerminate <- {}, MultiBlock <- {1}, EarlyTerminators <- {1},
        Stride <- [k \in 0 .. 1 |-> BlockSize], FileSize <- Length, PageSize <- 1

Counts(st) ==
    [processed |-> st.processed, produced |-> st.produced, signal |-> st.signal]

\* What the pipeline modules assume of a kernel that may end the pipeline is
\* what UntilN does, bit by bit: its counts after each doSegment call are among
\* those of KernelSegments.
AsInPipeline ==
    [][Counts(kernel') \in
         Pipeline!DoSegmentResults(1, Counts(kernel), [b \in {0} |-> Avail], Final)]_vars

\* "If the number of bits seen reaches N with any pack, determine the position
\* of the Nth bit and signal termination at that point" (until_n.cpp:27-29):
\* the match scanner never gets more than N bits.
AtMostN == Cardinality(Output) <= N

\* "Process only the first <num> matches per file" (grep_interface.cpp:212):
\* when the pipeline ends, the match scanner has got all the first N bits.
KeepsFirstN == kernel.signal => FirstBits(N) \subseteq Output

=============================================================================
