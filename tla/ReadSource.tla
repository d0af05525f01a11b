----------------------------- MODULE ReadSource -----------------------------
(***************************************************************************)
(* The segment-parallel pipeline with a ReadSource (source_kernel.cpp) as  *)
(* kernel 0: icgrep searching its standard input.  The source reads a page *)
(* at a time into a buffer of its own that the kernels read in place.  At  *)
(* the end of the buffer it waits until its consumers have finished the    *)
(* earlier segments (CreateConsumerWait, kernel_builder.cpp), then moves   *)
(* what they have not consumed to the front, or into a buffer of twice the *)
(* capacity.  The other kernels, the threads and the driver are those of   *)
(* SegmentPipeline; the history of SegmentDataflow is recorded too.        *)
(*                                                                         *)
(* An item is named by its position in the input.  The buffer's logical    *)
(* base address is its real one less the position of its first item, which *)
(* the model keeps as origin: position p is at the offset p - origin.      *)
(***************************************************************************)
EXTENDS SegmentDataflow

CONSTANTS
    ReadSize,           \* items asked of each read: a page
    InitialCapacity,    \* items the first buffer has room for
    Alignment,          \* consumed items are dropped in multiples of it
    ShortReads          \* whether a read may return less than there is (a pipe)

ASSUME ReadSourceAssumption ==
    /\ Sources = {0}
    /\ ReadSize \in Nat \ {0}
    /\ InitialCapacity \in Nat \ {0}
    /\ Alignment \in Nat \ {0}
    /\ ShortReads \in BOOLEAN

Source == 0

VARIABLES
    input,      \* the items read so far from the file descriptor
    buffer      \* the buffer: see BufferType

sourceVars == <<input, buffer>>
readVars == <<allVars, sourceVars>>

Zeroed == -1

\* memory maps the offsets written to the items they hold.
BufferType ==
    /\ input \in 0 .. FileSize
    /\ buffer.origin \in Nat
    /\ buffer.capacity \in Nat
    /\ buffer.bufferedSize \in Nat
    /\ \A o \in DOMAIN buffer.memory :
          o \in Nat /\ buffer.memory[o] \in 0 .. FileSize - 1 \cup {Zeroed}

ReadTypeOK == TypeOK /\ BufferType

ReadInit ==
    /\ HistoryInit
    /\ input = 0
    /\ buffer = [origin |-> 0, capacity |-> InitialCapacity, bufferedSize |-> 0,
                 memory |-> <<>>]

-----------------------------------------------------------------------------
(* The doSegment method of ReadSource *)

Produced == instance[Source].produced

Unread == buffer.bufferedSize - Produced

\* ExhaustedBuffer: less than a segment is left of what was read.
MustRead == Unread < SegmentSize

\* Mutated form: no room asked for the page itself.
CanAppendOne == Produced - buffer.origin < buffer.capacity

\* There is room for another page after the produced items.
CanAppend == Produced - buffer.origin + ReadSize < buffer.capacity

\* Mutated form: no wait.
ConsumersAnywhere == TRUE

\* Mutated form: the source's segment number taken as released already.
ConsumersPast ==
    \A j \in Consumers(Source) : logicalSegNo[j] = logicalSegNo[Source] + 1

\* CreateConsumerWait: every consumer's segment number equals the source's.  The
\* code looks at one consumer after another; meanwhile no number that has become
\* equal changes, since the caller holds the source's and kernels stay in order.
ConsumersFinished ==
    \A j \in Consumers(Source) : logicalSegNo[j] = logicalSegNo[Source]

\* The memory after items, a function on 0 .. n - 1, are written from an offset on.
Written(memory, offset, items) ==
    LET here == {offset + i : i \in DOMAIN items}
    IN  [o \in DOMAIN memory \cup here |->
            IF o \in here THEN items[o - offset] ELSE memory[o]]

\* Mutated form: what has been offered, not what has been consumed of it.
DroppedProduced == (Produced \div Alignment) * Alignment

\* The consumed items that are dropped.
Dropped == (consumed[Source] \div Alignment) * Alignment

Remaining == buffer.bufferedSize - Dropped

\* The items to copy back end before those they are copied from begin.
ConsumedMajority == Remaining < Dropped - buffer.origin

\* The buffer after the items not consumed have been moved to its front, or to
\* the front of one twice as large.
CopiedBack ==
    LET from   == Dropped - buffer.origin
        target == IF ConsumedMajority THEN buffer.memory ELSE <<>>
    IN  [buffer EXCEPT
            !.origin = Dropped,
            !.capacity = IF ConsumedMajority THEN @ ELSE 2 * @,
            !.memory = Written(target, 0,
                [i \in 0 .. Remaining - 1 |-> buffer.memory[from + i]])]

\* What read() may return: at the end of the input 0, otherwise at least 1.
ReadCounts ==
    LET most == Min({ReadSize, FileSize - input})
    IN  IF ShortReads THEN Min({1, most}) .. most ELSE {most}

\* Where the next page is read to: at the produced items when it is appended, at
\* the end of the items copied back otherwise.
ReadOffset == IF CanAppend THEN Produced - buffer.origin ELSE Remaining

\* The buffer after a read of n items; what is missing of a segment is zeroed.
AfterRead(n) ==
    LET b      == IF CanAppend THEN buffer ELSE CopiedBack
        unread == Unread + n
        read   == Written(b.memory, ReadOffset, [i \in 0 .. n - 1 |-> input + i])
    IN  [b EXCEPT
            !.bufferedSize = @ + n,
            !.memory = IF unread < SegmentSize
                       THEN Written(read, ReadOffset + unread,
                                    [i \in 0 .. SegmentSize - unread - 1 |-> Zeroed])
                       ELSE read]

\* Mutated form: an exact segment is taken as the last one.
OfferedOrLast(unread) ==
    IF unread <= SegmentSize
    THEN [instance[Source] EXCEPT !.produced = @ + unread, !.signal = TRUE]
    ELSE [instance[Source] EXCEPT !.produced = @ + SegmentSize]

\* The counts of the source after it has offered what it can of a segment.
Offered(unread) ==
    IF unread < SegmentSize
    THEN [instance[Source] EXCEPT !.produced = @ + unread, !.signal = TRUE]
    ELSE [instance[Source] EXCEPT !.produced = @ + SegmentSize]

\* Thread t calls the source; a call that waits for consumers spins until they
\* have finished and keeps the source's segment number meanwhile.
ReadSegment(t) ==
    /\ pc[t] = "doSegment"
    /\ at[t] = Source
    /\ IF MustRead
       THEN /\ CanAppend \/ ConsumersFinished
            /\ \E n \in ReadCounts :
                  /\ input' = input + n
                  /\ buffer' = AfterRead(n)
                  /\ instance' = [instance EXCEPT ![Source] = Offered(Unread + n)]
       ELSE /\ instance' = [instance EXCEPT ![Source] = Offered(Unread)]
            /\ UNCHANGED sourceVars
    /\ producedPos' = [producedPos EXCEPT ![t][Source] = instance'[Source].produced]
    /\ terminated' = [terminated EXCEPT
                         ![t] = TerminatedAfter(Source, instance'[Source], @)]
    /\ pc' = [pc EXCEPT ![t] = "release"]
    /\ history' = [history EXCEPT ![Source] = Append(@, instance'[Source])]
    /\ UNCHANGED <<logicalSegNo, consumed, readable, driver, segNo, at,
                   consumedPos, unset>>

\* The calls of the other kernels, as before.
DoOtherSegment(t) == at[t] # Source /\ RecordedDoSegment(t) /\ UNCHANGED sourceVars

CoordinateRead(t) == Coordinate(t) /\ UNCHANGED <<history, sourceVars>>

DriveRead == DriverStep /\ UNCHANGED <<history, sourceVars>>

ReadStep(t) == ReadSegment(t) \/ DoOtherSegment(t) \/ CoordinateRead(t)

ReadReturned == Returned /\ UNCHANGED <<history, sourceVars>>

ReadNext == DriveRead \/ (\E t \in Threads : ReadStep(t)) \/ ReadReturned

ReadSpec == ReadInit /\ [][ReadNext]_readVars

\* As in SegmentPipeline; a thread that waits for consumers takes no step.
FairReadSpec ==
    /\ ReadSpec
    /\ WF_readVars(DriveRead)
    /\ \A t \in Threads : WF_readVars(ReadStep(t))

-----------------------------------------------------------------------------
(* Properties *)

\* Every item that was read and that some consumer has yet to process, or that
\* the source has yet to offer, is where the kernels look for it, whatever was
\* appended, copied back or dropped on the strength of a stale consumed count.
InputInBuffer ==
    \A p \in 0 .. buffer.bufferedSize - 1 :
        (\E j \in Consumers(Source) : instance[j].processed <= p) =>
            /\ p - buffer.origin \in DOMAIN buffer.memory
            /\ buffer.memory[p - buffer.origin] = p

\* Nothing is written outside the buffer, however often it was copied back: the
\* room that copying back is expected to make for a page is really there.
WrittenInBounds == DOMAIN buffer.memory \subseteq 0 .. buffer.capacity - 1

\* When the driver goes on to finalize the kernels, all that was read has been
\* offered and processed by every kernel, unless one ended the pipeline early; and
\* the input was cut nowhere but inside a segment, after a read that left less than
\* one ("If we fail to read a full segment", source_kernel.cpp:278): never between
\* two segments, where what was buffered happened to be used up.
\* (This is about positions; whether the items are still at theirs is what
\* InputInBuffer says.)
CompleteRead ==
    (driver = "finalize" /\ ~EndedEarly) =>
        /\ Produced = input
        /\ \A k \in Kernels \ Sources : instance[k].processed = input
        /\ input = FileSize \/ input % SegmentSize # 0

\* The buffer is never moved, nor the old one freed, while a thread is inside a
\* kernel that reads it.
MovedUnread ==
    [][buffer'.origin # buffer.origin \/ buffer'.capacity # buffer.capacity =>
          \A t \in Threads : Inside(t) => at[t] \notin Consumers(Source)]_readVars

Mapped == INSTANCE SegmentDataflow WITH PageSize <- FileSize + 1

\* To the threads, the other kernels and the driver, a ReadSource whose reads are
\* full is the mapped file of SegmentDataflow, with no whole page to drop: call for
\* call it offers the same items and ends the pipeline in the same segment,
\* whether it appended, copied back or read nothing.
ImplementsMapped == Mapped!HistorySpec

=============================================================================
