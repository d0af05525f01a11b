-------------------------- MODULE ReadSourceProofs --------------------------
(***************************************************************************)
(* Proofs about the pipeline behind a ReadSource, for every pipeline       *)
(* shape, segment, page and file size.                                     *)
(***************************************************************************)
EXTENDS ReadSource, SegmentDataflowProofs

-----------------------------------------------------------------------------
(* The tickets *)

\* The source is the first kernel of the pipeline.
LEMMA SourceIsKernel == Source \in Kernels /\ InputSet(Source) = {}
BY ReadSourceAssumption DEF Source, Sources, InputSet

\* A call of the source moves its thread only, from the source's doSegment to
\* its release.
LEMMA ReadMoves ==
    ASSUME ControlInv, NEW t \in Threads, ReadSegment(t)
    PROVE  ControlInv'
<1>1. /\ pc[t] = "doSegment" /\ at[t] < NumKernels /\ logicalSegNo[at[t]] = segNo[t]
      /\ pc[t] # "unborn"
  BY DEF ReadSegment, ControlInv, InPlace, Inside
<1>2. driver = "spawn" => t # 0
  BY <1>1 DEF ControlInv, Unstarted
<1>3. /\ pc' = [pc EXCEPT ![t] = "release"]
      /\ UNCHANGED <<logicalSegNo, segNo, at, driver>>
  BY DEF ReadSegment
<1>. QED
  BY <1>1, <1>2, <1>3, ControlMoved

\* Every other step is one of the pipeline that reads a mapped file.
LEMMA OtherSteps ==
    ASSUME [ReadNext]_readVars, \A t \in Threads : ~ReadSegment(t)
    PROVE  [HistoryNext]_allVars /\ UNCHANGED sourceVars
BY DEF ReadNext, ReadStep, DriveRead, DoOtherSegment, CoordinateRead, ReadReturned,
       HistoryNext, Unrecorded, readVars, allVars

\* The tickets keep every thread in its place, whatever a read returns.
LEMMA ReadControlNext == ControlInv /\ [ReadNext]_readVars => ControlInv'
<1>. SUFFICES ASSUME ControlInv, [ReadNext]_readVars PROVE ControlInv'
  OBVIOUS
<1>1. CASE \E t \in Threads : ReadSegment(t)
  BY <1>1, ReadMoves
<1>2. CASE \A t \in Threads : ~ReadSegment(t)
  BY <1>2, OtherSteps, RecordingIsNext, ControlNext
<1>. QED
  BY <1>1, <1>2

\* At every moment the tickets are where the round-robin of the segments puts
\* them, while a thread waits for consumers as well.
THEOREM ReadControl == ReadSpec => []ControlInv
<1>1. ReadInit => ControlInv
  BY ControlInit DEF ReadInit, HistoryInit
<1>. QED
  BY <1>1, ReadControlNext, PTL DEF ReadSpec

-----------------------------------------------------------------------------
(* The buffer is moved under no reader *)

\* The fields of the buffer.
BufferShape ==
    buffer = [origin |-> buffer.origin, capacity |-> buffer.capacity,
              bufferedSize |-> buffer.bufferedSize, memory |-> buffer.memory]

\* What the assignments of a call of the source to a buffer f leave.
LEMMA BufferFields ==
    ASSUME NEW f, NEW o, NEW c, NEW s, NEW m,
           f = [origin |-> o, capacity |-> c, bufferedSize |-> s, memory |-> m],
           NEW o2, NEW c2, NEW s2, NEW m2
    PROVE  /\ [f EXCEPT !.origin = o2, !.capacity = c2, !.memory = m2]
              = [origin |-> o2, capacity |-> c2, bufferedSize |-> s, memory |-> m2]
           /\ [f EXCEPT !.bufferedSize = s2, !.memory = m2]
              = [origin |-> o, capacity |-> c, bufferedSize |-> s2, memory |-> m2]
<1>. DEFINE f1 == [f EXCEPT !.origin = o2]
            f2 == [f1 EXCEPT !.capacity = c2]
            g1 == [f EXCEPT !.bufferedSize = s2]
<1>1. /\ [f EXCEPT !.origin = o2, !.capacity = c2, !.memory = m2]
         = [f2 EXCEPT !.memory = m2]
      /\ [f EXCEPT !.bufferedSize = s2, !.memory = m2] = [g1 EXCEPT !.memory = m2]
  OBVIOUS
<1>2. f1 = [origin |-> o2, capacity |-> c, bufferedSize |-> s, memory |-> m]
  OBVIOUS
<1>3. g1 = [origin |-> o, capacity |-> c, bufferedSize |-> s2, memory |-> m]
  OBVIOUS
<1>. HIDE DEF f1, g1
<1>4. f2 = [origin |-> o2, capacity |-> c2, bufferedSize |-> s, memory |-> m]
  BY <1>2
<1>. HIDE DEF f2
<1>5. [f2 EXCEPT !.memory = m2]
      = [origin |-> o2, capacity |-> c2, bufferedSize |-> s, memory |-> m2]
  BY <1>4
<1>6. [g1 EXCEPT !.memory = m2]
      = [origin |-> o, capacity |-> c, bufferedSize |-> s2, memory |-> m2]
  BY <1>3
<1>. QED
  BY <1>1, <1>5, <1>6

\* The buffer that a page is read to: the same one, or what copying back makes.
Target == IF CanAppend THEN buffer ELSE CopiedBack

\* The memory of the buffer after a read of n items into it.
MemoryRead(n) == Written(Target.memory, ReadOffset, [i \in 0 .. n - 1 |-> input + i])

\* The same after what is missing of a segment has been zeroed.
MemoryAfter(n) ==
    IF Unread + n < SegmentSize
    THEN Written(MemoryRead(n), ReadOffset + (Unread + n),
                 [i \in 0 .. SegmentSize - (Unread + n) - 1 |-> Zeroed])
    ELSE MemoryRead(n)

\* The memory that the items are copied back to, and what it holds then.
MemoryCopied ==
    Written(IF ConsumedMajority THEN buffer.memory ELSE <<>>, 0,
            [i \in 0 .. Remaining - 1 |-> buffer.memory[Dropped - buffer.origin + i]])

\* A read leaves the buffer where it is if there was room to append, and moves
\* it as copying back does otherwise.
LEMMA ReadPlaces ==
    ASSUME BufferShape, NEW n
    PROVE  /\ Target = IF CanAppend THEN buffer
                       ELSE [origin |-> Dropped,
                             capacity |-> IF ConsumedMajority THEN buffer.capacity
                                          ELSE 2 * buffer.capacity,
                             bufferedSize |-> buffer.bufferedSize,
                             memory |-> MemoryCopied]
           /\ AfterRead(n) = [origin |-> Target.origin, capacity |-> Target.capacity,
                              bufferedSize |-> buffer.bufferedSize + n,
                              memory |-> MemoryAfter(n)]
<1>. DEFINE cap == IF ConsumedMajority THEN buffer.capacity ELSE 2 * buffer.capacity
<1>1. CopiedBack = [buffer EXCEPT !.origin = Dropped, !.capacity = cap,
                                  !.memory = MemoryCopied]
  BY DEF CopiedBack, MemoryCopied
<1>2. AfterRead(n) = [Target EXCEPT !.bufferedSize = Target.bufferedSize + n,
                                    !.memory = MemoryAfter(n)]
  BY DEF AfterRead, Target, MemoryAfter, MemoryRead
<1>. HIDE DEF cap
<1>3. CopiedBack = [origin |-> Dropped, capacity |-> cap,
                    bufferedSize |-> buffer.bufferedSize, memory |-> MemoryCopied]
  BY <1>1, BufferFields DEF BufferShape
<1>4. Target = [origin |-> Target.origin, capacity |-> Target.capacity,
                bufferedSize |-> Target.bufferedSize, memory |-> Target.memory]
  BY <1>3 DEF Target, BufferShape
<1>5. Target.bufferedSize = buffer.bufferedSize
  BY <1>3 DEF Target
<1>6. AfterRead(n) = [origin |-> Target.origin, capacity |-> Target.capacity,
                      bufferedSize |-> buffer.bufferedSize + n,
                      memory |-> MemoryAfter(n)]
  BY <1>2, <1>4, <1>5, BufferFields
<1>. QED
  BY <1>3, <1>6 DEF Target, cap

\* The buffer keeps its fields, and is moved only once the consumers have
\* finished.
LEMMA BufferMoved ==
    ASSUME BufferShape, NEW t \in Threads, ReadSegment(t)
    PROVE  /\ BufferShape'
           /\ (buffer'.origin # buffer.origin \/ buffer'.capacity # buffer.capacity) =>
                 ConsumersFinished
<1>1. CASE ~MustRead
  BY <1>1 DEF ReadSegment, sourceVars, BufferShape
<1>2. CASE MustRead
  <2>1. PICK n \in ReadCounts : buffer' = AfterRead(n)
    BY <1>2 DEF ReadSegment
  <2>2. CanAppend \/ ConsumersFinished
    BY <1>2 DEF ReadSegment
  <2>3. AfterRead(n) = [origin |-> Target.origin, capacity |-> Target.capacity,
                        bufferedSize |-> buffer.bufferedSize + n,
                        memory |-> MemoryAfter(n)]
    BY ReadPlaces
  <2>4. /\ BufferShape'
        /\ buffer'.origin = Target.origin
        /\ buffer'.capacity = Target.capacity
    BY <2>1, <2>3 DEF BufferShape
  <2>. QED
    BY <2>2, <2>4 DEF Target
<1>. QED
  BY <1>1, <1>2

\* When every consumer's segment number equals the source's, which the caller
\* holds, no thread is inside a consumer.
LEMMA FinishedConsumers ==
    ASSUME ControlInv, NEW t \in Threads, pc[t] = "doSegment", at[t] = Source,
           ConsumersFinished, NEW u \in Threads, Inside(u)
    PROVE  at[u] \notin Consumers(Source)
<1>. SUFFICES ASSUME at[u] \in Consumers(Source) PROVE FALSE
  OBVIOUS
<1>1. logicalSegNo[Source] = segNo[t] /\ logicalSegNo[at[u]] = segNo[u]
  BY DEF ControlInv, InPlace, Inside
<1>2. logicalSegNo[at[u]] = logicalSegNo[Source]
  BY DEF ConsumersFinished
<1>3. at[u] # Source
  BY SourceIsKernel DEF Consumers
<1>4. u # t
  BY <1>3
<1>5. segNo[u] # segNo[t]
  BY <1>4, SegmentsDisjoint DEF ControlInv
<1>. QED
  BY <1>1, <1>2, <1>5

\* Whatever the reads return and however many threads there are, the buffer is
\* never moved, nor the old one freed, while a thread is inside a kernel that
\* reads it (source_kernel.cpp:221-262).
THEOREM ReadersUndisturbed == ReadSpec => MovedUnread
<1>1. ReadInit => BufferShape
  BY DEF ReadInit, BufferShape
<1>2. BufferShape /\ [ReadNext]_readVars => BufferShape'
  <2>. SUFFICES ASSUME BufferShape, [ReadNext]_readVars PROVE BufferShape'
    OBVIOUS
  <2>1. CASE \E t \in Threads : ReadSegment(t)
    BY <2>1, BufferMoved
  <2>2. CASE \A t \in Threads : ~ReadSegment(t)
    BY <2>2, OtherSteps DEF sourceVars, BufferShape
  <2>. QED
    BY <2>1, <2>2
<1>3. ControlInv /\ BufferShape /\ [ReadNext]_readVars =>
         [buffer'.origin # buffer.origin \/ buffer'.capacity # buffer.capacity =>
             \A t \in Threads : Inside(t) => at[t] \notin Consumers(Source)]_readVars
  <2>. SUFFICES ASSUME ControlInv, BufferShape, [ReadNext]_readVars,
                       buffer'.origin # buffer.origin \/ buffer'.capacity # buffer.capacity,
                       NEW u \in Threads, Inside(u)
                PROVE  at[u] \notin Consumers(Source)
    OBVIOUS
  <2>1. PICK t \in Threads : ReadSegment(t)
    BY OtherSteps DEF sourceVars
  <2>2. ConsumersFinished
    BY <2>1, BufferMoved
  <2>. QED
    BY <2>1, <2>2, FinishedConsumers DEF ReadSegment
<1>. QED
  BY <1>1, <1>2, <1>3, ReadControl, PTL DEF ReadSpec, MovedUnread

-----------------------------------------------------------------------------
(* The counts *)

\* What was read is counted, and the source offers no more than that.
InputRead ==
    /\ input \in Nat /\ input <= FileSize
    /\ buffer.bufferedSize = input
    /\ Produced <= input

\* No consumed count, stored or yet to be stored, is beyond what was offered.
ConsumedOffered ==
    /\ consumed[Source] <= Produced
    /\ \A t \in Threads : consumedPos[t][Source] <= Produced

\* The source of this pipeline drops no pages.
NoneDropped == readable[Source] = 0

ReadCountsInv == BufferShape /\ InputRead /\ ConsumedOffered /\ NoneDropped

\* A read returns at most what it was asked for and what the input has left, and
\* nothing only at its end; unless reads are short, it returns one or the other.
LEMMA ReadReturns ==
    ASSUME InputRead, NEW n \in ReadCounts
    PROVE  /\ n \in Nat /\ n <= ReadSize /\ input + n <= FileSize
           /\ n = 0 => input = FileSize
           /\ ~ShortReads => n = ReadSize \/ input + n = FileSize
<1>. DEFINE left == FileSize - input
            most == Min({ReadSize, left})
            least == Min({1, most})
<1>1. left \in Nat /\ ReadSize \in Nat
  BY ItemsAssumption, ReadSourceAssumption DEF InputRead
<1>. HIDE DEF left
<1>2. most \in {ReadSize, left} /\ most <= ReadSize /\ most <= left
  BY <1>1, MinOfNats
<1>. HIDE DEF most
<1>3. least \in {1, most}
  BY <1>1, <1>2, MinOfNats
<1>. HIDE DEF least
<1>4. n \in (IF ShortReads THEN least .. most ELSE {most})
  BY DEF ReadCounts, most, least, left
<1>5. n \in Nat /\ n <= most
  BY <1>1, <1>2, <1>3, <1>4
<1>6. ~ShortReads => n = most
  BY <1>4
<1>7. n = 0 => left = 0
  <2>. SUFFICES ASSUME n = 0, left # 0 PROVE FALSE
    OBVIOUS
  <2>1. most \in Nat \ {0} /\ least \in Nat \ {0}
    BY <1>1, <1>2, <1>3, ReadSourceAssumption
  <2>. QED
    BY <1>4, <2>1
<1>. QED
  BY <1>1, <1>2, <1>5, <1>6, <1>7, ItemsAssumption DEF left, InputRead

\* The source offers what is unread, up to a segment, and signals when that is
\* less.
LEMMA OfferedCounts ==
    ASSUME instance[Source] \in KernelState, NEW unread \in Nat
    PROVE  /\ Offered(unread) \in KernelState
           /\ Offered(unread).processed = instance[Source].processed
           /\ Offered(unread).produced
                = Produced + (IF unread < SegmentSize THEN unread ELSE SegmentSize)
           /\ Offered(unread).signal <=> (instance[Source].signal \/ unread < SegmentSize)
<1>. DEFINE st == instance[Source]
<1>. SegmentSize \in Nat
  BY ItemsAssumption
<1>. HIDE DEF st
<1>1. st \in KernelState /\ Produced = st.produced
  BY DEF st, Produced
<1>2. CASE unread < SegmentSize
  <2>. DEFINE s1 == [st EXCEPT !.produced = st.produced + unread]
  <2>1. Offered(unread) = [s1 EXCEPT !.signal = TRUE]
    BY <1>2 DEF Offered, st
  <2>2. /\ s1 \in KernelState
        /\ s1.processed = st.processed /\ s1.produced = st.produced + unread
    BY <1>1 DEF KernelState
  <2>. HIDE DEF s1
  <2>3. /\ [s1 EXCEPT !.signal = TRUE] \in KernelState
        /\ [s1 EXCEPT !.signal = TRUE].processed = s1.processed
        /\ [s1 EXCEPT !.signal = TRUE].produced = s1.produced
        /\ [s1 EXCEPT !.signal = TRUE].signal
    BY <2>2 DEF KernelState
  <2>. QED
    BY <1>1, <1>2, <2>1, <2>2, <2>3 DEF st
<1>3. CASE ~(unread < SegmentSize)
  <2>1. Offered(unread) = [st EXCEPT !.produced = st.produced + SegmentSize]
    BY <1>3 DEF Offered, st
  <2>. QED
    BY <1>1, <1>3, <2>1 DEF KernelState, st
<1>. QED
  BY <1>2, <1>3

\* A call of the source reads n items, none if it has a segment to offer, and
\* offers from what is unread then.
LEMMA ReadUnread ==
    ASSUME DataInv, ReadCountsInv, NEW t \in Threads, ReadSegment(t)
    PROVE  \E n \in Nat :
              /\ input' = input + n /\ input + n <= FileSize
              /\ buffer'.bufferedSize = input + n
              /\ Unread + n \in Nat /\ Produced + (Unread + n) = input + n
              /\ instance' = [instance EXCEPT ![Source] = Offered(Unread + n)]
              /\ Unread + n = 0 => input + n = FileSize
              /\ ~ShortReads => \/ n = 0 /\ Unread >= SegmentSize
                               \/ n = ReadSize
                               \/ input + n = FileSize
<1>. USE DEF ReadCountsInv, InputRead
<1>1. Produced \in Nat /\ SegmentSize \in Nat \ {0}
  BY SourceIsKernel, ItemsAssumption DEF DataInv, DataType, Produced, KernelState
<1>2. Unread \in Nat /\ Produced + Unread = input
  BY <1>1 DEF Unread
<1>3. CASE ~MustRead
  <2>1. /\ input' = input /\ buffer' = buffer
        /\ instance' = [instance EXCEPT ![Source] = Offered(Unread)]
        /\ Unread >= SegmentSize
    BY <1>1, <1>2, <1>3 DEF ReadSegment, sourceVars, MustRead
  <2>2. \A n \in Nat : n = 0 => /\ Unread + n = Unread /\ input + n = input
                               /\ Unread + n # 0
    BY <1>1, <1>2, <2>1
  <2>. QED
    BY <1>2, <2>1, <2>2
<1>4. CASE MustRead
  <2>1. PICK n \in ReadCounts :
           /\ input' = input + n
           /\ buffer' = AfterRead(n)
           /\ instance' = [instance EXCEPT ![Source] = Offered(Unread + n)]
    BY <1>4 DEF ReadSegment
  <2>2. /\ n \in Nat /\ input + n <= FileSize /\ (n = 0 => input = FileSize)
        /\ ~ShortReads => n = ReadSize \/ input + n = FileSize
    BY ReadReturns
  <2>3. buffer'.bufferedSize = input + n
    BY <2>1, ReadPlaces
  <2>4. Unread + n \in Nat /\ Produced + (Unread + n) = input + n
    BY <1>1, <1>2, <2>2
  <2>5. Unread + n = 0 => input + n = FileSize
    BY <1>2, <2>2
  <2>. QED
    BY <2>1, <2>2, <2>3, <2>4, <2>5
<1>. QED
  BY <1>3, <1>4

\* The counts that a call leaves the source with.
LEMMA ReadOffers ==
    ASSUME DataInv, ReadCountsInv, NEW t \in Threads, ReadSegment(t)
    PROVE  \E st \in KernelState :
              /\ instance' = [instance EXCEPT ![Source] = st]
              /\ st.processed = instance[Source].processed
              /\ Produced <= st.produced /\ st.produced <= input'
              /\ input' \in Nat /\ input' <= FileSize /\ buffer'.bufferedSize = input'
<1>. USE DEF ReadCountsInv, InputRead
<1>1. instance[Source] \in KernelState /\ Produced \in Nat /\ SegmentSize \in Nat \ {0}
  BY SourceIsKernel, ItemsAssumption DEF DataInv, DataType, Produced, KernelState
<1>2. PICK n \in Nat :
         /\ input' = input + n /\ input + n <= FileSize
         /\ buffer'.bufferedSize = input + n
         /\ Unread + n \in Nat /\ Produced + (Unread + n) = input + n
         /\ instance' = [instance EXCEPT ![Source] = Offered(Unread + n)]
  BY ReadUnread
<1>. DEFINE unread == Unread + n
<1>3. /\ Offered(unread) \in KernelState
      /\ Offered(unread).processed = instance[Source].processed
      /\ Offered(unread).produced
           = Produced + (IF unread < SegmentSize THEN unread ELSE SegmentSize)
  BY <1>1, <1>2, OfferedCounts
<1>. HIDE DEF unread
<1>4. /\ unread \in Nat /\ Produced + unread = input'
      /\ instance' = [instance EXCEPT ![Source] = Offered(unread)]
  BY <1>2 DEF unread
<1>5. Produced <= Offered(unread).produced /\ Offered(unread).produced <= input'
  BY <1>1, <1>3, <1>4
<1>6. input' \in Nat /\ input' <= FileSize /\ buffer'.bufferedSize = input'
  BY <1>2
<1>. QED
  BY <1>3, <1>4, <1>5, <1>6

\* Such a call is one that leaves the source further on in its input.
LEMMA ReadLeaves ==
    ASSUME DataInv, ReadCountsInv, NEW t \in Threads, ReadSegment(t),
           NEW st \in KernelState, instance' = [instance EXCEPT ![Source] = st]
    PROVE  Leaves(t, st) /\ instance'[Source] = st
<1>1. instance'[Source] = st
  BY SourceIsKernel DEF DataInv, DataType
<1>2. ConsumedAfter(Source, st, consumedPos[t]) = consumedPos[t]
  <2>1. consumedPos[t] \in [Kernels -> Nat]
    BY DEF DataInv, DataType
  <2>. QED
    BY <2>1, SourceIsKernel DEF ConsumedAfter
<1>3. consumedPos' = [consumedPos EXCEPT
                         ![t] = ConsumedAfter(Source, st, consumedPos[t])]
  BY <1>2 DEF ReadSegment, DataInv, DataType
<1>. QED
  BY <1>1, <1>3 DEF ReadSegment, Leaves

\* A read keeps the counts in order.
LEMMA ReadDataNext == ControlInv /\ DataInv /\ ReadCountsInv /\ [ReadNext]_readVars => DataInv'
<1>. SUFFICES ASSUME ControlInv, DataInv, ReadCountsInv, [ReadNext]_readVars PROVE DataInv'
  OBVIOUS
<1>1. ASSUME NEW t \in Threads, ReadSegment(t) PROVE DataInv'
  <2>1. PICK st \in KernelState :
           /\ instance' = [instance EXCEPT ![Source] = st]
           /\ st.processed = instance[Source].processed
           /\ Produced <= st.produced /\ st.produced <= input'
           /\ input' \in Nat /\ input' <= FileSize
    BY <1>1, ReadOffers
  <2>2. Leaves(t, st) /\ at[t] = Source
    BY <1>1, <2>1, ReadLeaves DEF ReadSegment
  <2>3. Source \in Sources /\ instance[Source] \in KernelState
    BY SourceIsKernel, ReadSourceAssumption DEF Source, DataInv, DataType
  <2>4. st.produced <= FileSize
    BY <2>1, ItemsAssumption DEF KernelState
  <2>5. WithinInput(Source, st) /\ instance[Source].produced <= st.produced
        /\ instance[Source].processed <= st.processed
    BY <2>1, <2>3, <2>4 DEF WithinInput, Produced, KernelState
  <2>. QED
    BY <2>1, <2>2, <2>3, <2>5, DataAdvanced
<1>2. CASE \A t \in Threads : ~ReadSegment(t)
  BY <1>2, OtherSteps, RecordingIsNext, DataNext
<1>. QED
  BY <1>1, <1>2

\* No kernel has processed more than the source has offered.
OfferedFirst == \A k \in Kernels \ {Source} : instance[k].processed <= Produced

\* Each of them has processed at most what its principal input has produced.
LEMMA ProcessedOffered == DataInv => OfferedFirst
<1>. SUFFICES ASSUME DataInv PROVE OfferedFirst
  OBVIOUS
<1>. DEFINE Beyond == {k \in Kernels \ {Source} : ~(instance[k].processed <= Produced)}
<1>. SUFFICES ASSUME Beyond # {} PROVE FALSE
  BY DEF OfferedFirst
<1>. DEFINE k == Min(Beyond)
<1>1. Beyond \in SUBSET Nat
  BY DEF Kernels
<1>2. k \in Beyond /\ \A j \in Beyond : k <= j
  BY <1>1, MinOfNats
<1>. DEFINE b == Inputs[k][1]
<1>3. k \in Kernels /\ k # Source /\ ~(instance[k].processed <= Produced)
  BY <1>2
<1>. HIDE DEF k
<1>4. b \in InputSet(k) /\ b \in Bounding(k)
  <2>1. Inputs[k] \in Seq(Kernels) /\ Inputs[k] # <<>>
    BY <1>3, InputsAssumption, ReadSourceAssumption DEF Sources, Source
  <2>2. 1 \in DOMAIN Inputs[k]
    BY <2>1
  <2>. QED
    BY <2>2 DEF InputSet, Bounding
<1>5. b \in Kernels /\ b < k
  BY <1>3, <1>4, InputsAreEarlier
<1>6. /\ instance[k].processed \in Nat /\ instance[b].processed \in Nat
      /\ instance[b].produced \in Nat /\ Produced \in Nat
  BY <1>3, <1>5, SourceIsKernel DEF DataInv, DataType, KernelState, Produced
<1>7. instance[k].processed <= instance[b].produced
  BY <1>3, <1>4 DEF DataInv, InputBound
<1>8. b # Source
  BY <1>3, <1>7 DEF Produced
<1>9. instance[b].produced <= instance[b].processed
  <2>1. b \notin Sources
    BY <1>8, ReadSourceAssumption DEF Source
  <2>. QED
    BY <1>5, <2>1 DEF DataInv, InputBound, WithinInput
<1>10. b \in Beyond
  BY <1>3, <1>5, <1>6, <1>7, <1>8, <1>9
<1>. QED
  BY <1>2, <1>5, <1>10 DEF Kernels

\* A step that is not a call of the source leaves its counts alone, and changes
\* the consumed counts of its buffer as a thread does that calls a consumer or
\* stores what it keeps.
LEMMA OtherCounts ==
    ASSUME ControlInv, DataInv, [ReadNext]_readVars, \A t \in Threads : ~ReadSegment(t)
    PROVE  /\ UNCHANGED <<instance[Source], readable, sourceVars>>
           /\ \/ consumed'[Source] = consumed[Source]
              \/ \E t \in Threads : consumed'[Source] = consumedPos[t][Source]
           /\ \A t \in Threads :
                 \/ consumedPos'[t][Source] \in {consumedPos[t][Source], 0}
                 \/ \E k \in Kernels \ {Source} :
                       consumedPos'[t][Source] = instance'[k].processed
<1>. USE DEF DataInv, DataType
<1>0. UNCHANGED sourceVars
  BY OtherSteps
<1>1. ASSUME UNCHANGED <<instance, readable, consumed, consumedPos>>
      PROVE  /\ UNCHANGED <<instance[Source], readable>>
             /\ consumed'[Source] = consumed[Source]
             /\ \A t \in Threads : consumedPos'[t][Source] = consumedPos[t][Source]
  BY <1>1
<1>2. ASSUME NEW u \in Threads, DoOtherSegment(u)
      PROVE  /\ UNCHANGED <<instance[Source], readable, consumed>>
             /\ \A t \in Threads :
                   \/ consumedPos'[t][Source] = consumedPos[t][Source]
                   \/ \E k \in Kernels \ {Source} :
                         consumedPos'[t][Source] = instance'[k].processed
  <2>. DEFINE k == at[u]
  <2>1. k \in Kernels \ {Source} /\ DoSegment(u)
    BY <1>2, CalledInPlace DEF DoOtherSegment, RecordedDoSegment, DoSegment
  <2>2. PICK st : /\ instance' = [instance EXCEPT ![k] = st]
                  /\ consumedPos' = [consumedPos EXCEPT
                                        ![u] = ConsumedAfter(k, st, consumedPos[u])]
    BY <2>1 DEF DoSegment
  <2>3. readable' = readable /\ consumed' = consumed
    BY <2>1, ReadSourceAssumption DEF DoSegment, DropPages, Source
  <2>. HIDE DEF k
  <2>4. instance'[Source] = instance[Source] /\ instance'[k] = st
    BY <2>1, <2>2, SourceIsKernel
  <2>5. ConsumedAfter(k, st, consumedPos[u])[Source] \in {consumedPos[u][Source], st.processed}
    BY SourceIsKernel DEF ConsumedAfter
  <2>6. \A t \in Threads :
           consumedPos'[t] = IF t = u THEN ConsumedAfter(k, st, consumedPos[u])
                             ELSE consumedPos[t]
    BY <2>2
  <2>. QED
    BY <2>1, <2>3, <2>4, <2>5, <2>6
<1>3. ASSUME NEW u \in Threads, NEW b \in Kernels, StoreConsumed(u, b)
      PROVE  /\ UNCHANGED <<instance, readable, consumedPos>>
             /\ consumed'[Source] \in {consumed[Source], consumedPos[u][Source]}
  BY <1>3 DEF StoreConsumed
<1>4. ASSUME NEW u \in Threads, LoopSegment(u)
      PROVE  /\ UNCHANGED <<instance, readable, consumed>>
             /\ \A t \in Threads : consumedPos'[t][Source] \in {consumedPos[t][Source], 0}
  BY <1>4, SourceIsKernel DEF LoopSegment, NoPositions, kernelVars
<1>5. ASSUME NEW u \in Threads, CoordinateRead(u),
             ~LoopSegment(u), \A b \in Kernels : ~StoreConsumed(u, b)
      PROVE  UNCHANGED <<instance, readable, consumed, consumedPos>>
  BY <1>5 DEF CoordinateRead, Coordinate, Enter, ExitPipeline, Release, ExitThread,
              kernelVars, registers
<1>6. ASSUME DriveRead \/ ReadReturned \/ UNCHANGED readVars
      PROVE  UNCHANGED <<instance, readable, consumed, consumedPos>>
  BY <1>6 DEF DriveRead, DriverStep, ReadReturned, Spawn, CallThread0, JoinThreads,
              FinalizeInstances, Returned, readVars, allVars, vars, kernelVars, registers
<1>7. CASE \E u \in Threads : DoOtherSegment(u)
  BY <1>0, <1>2, <1>7
<1>8. CASE \E u \in Threads : CoordinateRead(u)
  <2>1. PICK u \in Threads : CoordinateRead(u)
    BY <1>8
  <2>2. CASE \E b \in Kernels : StoreConsumed(u, b)
    BY <1>0, <1>3, <2>2
  <2>3. CASE LoopSegment(u)
    BY <1>0, <1>4, <2>3
  <2>. QED
    BY <1>0, <1>1, <1>5, <2>1, <2>2, <2>3
<1>9. CASE DriveRead \/ ReadReturned \/ UNCHANGED readVars
  BY <1>0, <1>1, <1>6, <1>9
<1>. QED
  BY <1>7, <1>8, <1>9 DEF ReadNext, ReadStep

\* Every step keeps what the source and its consumers are told in bounds.
LEMMA ReadCountsNext ==
    ControlInv /\ DataInv /\ ReadCountsInv /\ [ReadNext]_readVars => ReadCountsInv'
<1>. SUFFICES ASSUME ControlInv, DataInv, ReadCountsInv, [ReadNext]_readVars
              PROVE  ReadCountsInv'
  OBVIOUS
<1>. USE DEF ReadCountsInv
<1>1. DataInv'
  BY ReadDataNext
<1>2. Produced \in Nat /\ Produced' \in Nat
  BY <1>1, SourceIsKernel DEF DataInv, DataType, KernelState, Produced
<1>3. CASE \E t \in Threads : ReadSegment(t)
  <2>1. PICK t \in Threads : ReadSegment(t)
    BY <1>3
  <2>2. PICK st \in KernelState :
           /\ instance' = [instance EXCEPT ![Source] = st]
           /\ Produced <= st.produced /\ st.produced <= input'
           /\ input' \in Nat /\ input' <= FileSize /\ buffer'.bufferedSize = input'
    BY <2>1, ReadOffers
  <2>3. Produced' = st.produced
    BY <2>1, <2>2, ReadLeaves DEF Produced
  <2>4. BufferShape' /\ InputRead'
    BY <2>1, <2>2, <2>3, BufferMoved DEF InputRead
  <2>5. UNCHANGED <<consumed, consumedPos, readable>>
    BY <2>1 DEF ReadSegment
  <2>6. consumed[Source] \in Nat /\ \A u \in Threads : consumedPos[u][Source] \in Nat
    BY SourceIsKernel DEF DataInv, DataType
  <2>7. ConsumedOffered' /\ NoneDropped'
    BY <1>2, <2>2, <2>3, <2>5, <2>6 DEF ConsumedOffered, NoneDropped
  <2>. QED
    BY <2>4, <2>7
<1>4. CASE \A t \in Threads : ~ReadSegment(t)
  <2>1. UNCHANGED <<instance[Source], readable, input, buffer>>
    BY <1>4, OtherCounts DEF sourceVars
  <2>2. Produced' = Produced /\ BufferShape' /\ InputRead' /\ NoneDropped'
    BY <2>1 DEF Produced, BufferShape, InputRead, NoneDropped
  <2>3. consumed'[Source] <= Produced
    BY <1>4, OtherCounts DEF ConsumedOffered
  <2>4. OfferedFirst'
    BY <1>1, ProcessedOffered, PTL
  <2>5. \A t \in Threads : consumedPos'[t][Source] <= Produced
    BY <1>2, <1>4, <2>2, <2>4, OtherCounts DEF ConsumedOffered, OfferedFirst
  <2>. QED
    BY <2>2, <2>3, <2>5 DEF ConsumedOffered
<1>. QED
  BY <1>3, <1>4

\* The counts are in order at every moment, whatever the reads return.
THEOREM ReadData == ReadSpec => [](ControlInv /\ DataInv /\ ReadCountsInv)
<1>1. ReadInit => ControlInv /\ DataInv
  BY ControlInit, DataInit DEF ReadInit, HistoryInit
<1>2. ReadInit => ReadCountsInv
  <2>. SUFFICES ASSUME ReadInit PROVE ReadCountsInv
    OBVIOUS
  <2>1. /\ BufferShape /\ input = 0 /\ buffer.bufferedSize = 0
        /\ consumed[Source] = 0 /\ readable[Source] = 0 /\ Produced = 0
        /\ \A t \in Threads : consumedPos[t][Source] = 0
    BY SourceIsKernel DEF ReadInit, HistoryInit, Init, BufferShape, NoPositions, Produced,
                          InitKernelState
  <2>. QED
    BY <2>1, ItemsAssumption DEF ReadCountsInv, InputRead, ConsumedOffered, NoneDropped
<1>. QED
  BY <1>1, <1>2, ReadControlNext, ReadDataNext, ReadCountsNext, PTL DEF ReadSpec

-----------------------------------------------------------------------------
(* Standard input is read as a mapped file is *)

\* No read is short, and a page is a whole number of segments, unless the first
\* one holds the whole input.
FullReads ==
    /\ ~ShortReads
    /\ FileSize <= ReadSize \/ \E q \in Nat : ReadSize = q * SegmentSize

\* Until the input is exhausted, what is unread is whole segments.
UnreadWhole == input = FileSize \/ \E q \in Nat : Unread = q * SegmentSize

\* So each call has a segment to offer, unless it has the end of the input.
LEMMA WholeOffer ==
    ASSUME FullReads, UnreadWhole, DataInv, ReadCountsInv, NEW n \in Nat,
           input + n <= FileSize, Unread + n \in Nat,
           \/ n = 0 /\ Unread >= SegmentSize
           \/ n = ReadSize
           \/ input + n = FileSize
    PROVE  \/ input + n = FileSize
           \/ \E q \in Nat : Unread + n = SegmentSize + q * SegmentSize
<1>. SUFFICES ASSUME input + n # FileSize
              PROVE  \E q \in Nat : Unread + n = SegmentSize + q * SegmentSize
  OBVIOUS
<1>1. SegmentSize \in Nat \ {0} /\ ReadSize \in Nat \ {0} /\ FileSize \in Nat /\ input \in Nat
  BY ItemsAssumption, ReadSourceAssumption DEF ReadCountsInv, InputRead
<1>2. PICK q \in Nat : Unread = q * SegmentSize
  BY <1>1 DEF UnreadWhole
<1>3. PICK p \in Nat : n = p * SegmentSize /\ (p = 0 => q # 0)
  <2>1. CASE n = 0 /\ Unread >= SegmentSize
    <3>1. n = 0 * SegmentSize /\ q # 0
      BY <1>1, <1>2, <2>1
    <3>. QED
      BY <3>1
  <2>2. CASE n = ReadSize
    <3>1. ~(FileSize <= ReadSize)
      BY <1>1, <2>2
    <3>2. PICK p \in Nat : ReadSize = p * SegmentSize
      BY <3>1 DEF FullReads
    <3>3. p # 0
      BY <1>1, <3>2
    <3>. QED
      BY <2>2, <3>2, <3>3
  <2>. QED
    BY <2>1, <2>2
<1>4. q + p - 1 \in Nat
  BY <1>3
<1>5. q * SegmentSize + p * SegmentSize = SegmentSize + (q + p - 1) * SegmentSize
  BY <1>1, <1>4
<1>. QED
  BY <1>2, <1>3, <1>4, <1>5

\* The same in terms of what was offered.
LEMMA UnreadLeft ==
    ASSUME FullReads, UnreadWhole, DataInv, ReadCountsInv,
           NEW t \in Threads, ReadSegment(t)
    PROVE  /\ UnreadWhole'
           /\ \E unread \in Nat :
                 /\ instance' = [instance EXCEPT ![Source] = Offered(unread)]
                 /\ Produced + unread <= FileSize
                 /\ unread < SegmentSize => Produced + unread = FileSize
<1>1. PICK n \in Nat :
         /\ input' = input + n /\ input + n <= FileSize
         /\ buffer'.bufferedSize = input + n
         /\ Unread + n \in Nat /\ Produced + (Unread + n) = input + n
         /\ instance' = [instance EXCEPT ![Source] = Offered(Unread + n)]
         /\ \/ n = 0 /\ Unread >= SegmentSize
            \/ n = ReadSize
            \/ input + n = FileSize
  BY ReadUnread DEF FullReads
<1>2. /\ SegmentSize \in Nat \ {0} /\ Produced \in Nat
      /\ instance[Source] \in KernelState /\ instance \in [Kernels -> KernelState]
  BY SourceIsKernel, ItemsAssumption DEF DataInv, DataType, Produced, KernelState
<1>. DEFINE unread == Unread + n
<1>3. \/ input + n = FileSize
      \/ \E q \in Nat : unread = SegmentSize + q * SegmentSize
  BY <1>1, WholeOffer
<1>4. Offered(unread).produced
        = Produced + (IF unread < SegmentSize THEN unread ELSE SegmentSize)
  BY <1>1, <1>2, OfferedCounts
<1>5. /\ unread \in Nat /\ Produced + unread = input + n
      /\ instance' = [instance EXCEPT ![Source] = Offered(unread)]
  BY <1>1
<1>. HIDE DEF unread
<1>6. UnreadWhole'
  <2>1. CASE input + n = FileSize
    BY <1>1, <2>1 DEF UnreadWhole
  <2>2. CASE \E q \in Nat : unread = SegmentSize + q * SegmentSize
    <3>1. PICK q \in Nat : unread = SegmentSize + q * SegmentSize
      BY <2>2
    <3>2. q * SegmentSize \in Nat /\ unread >= SegmentSize
      BY <1>2, <3>1
    <3>3. Produced' = Produced + SegmentSize
      BY <1>2, <1>4, <1>5, <3>2, SourceIsKernel DEF Produced
    <3>4. Unread' = q * SegmentSize
      BY <1>1, <1>2, <1>5, <3>1, <3>2, <3>3 DEF Unread
    <3>. QED
      BY <3>4 DEF UnreadWhole
  <2>. QED
    BY <1>3, <2>1, <2>2
<1>7. unread < SegmentSize => Produced + unread = FileSize
  <2>1. ASSUME NEW q \in Nat PROVE ~(SegmentSize + q * SegmentSize < SegmentSize)
    <3>1. q * SegmentSize \in Nat
      BY <1>2
    <3>. QED
      BY <1>2, <3>1
  <2>. QED
    BY <1>3, <1>5, <2>1
<1>. QED
  BY <1>1, <1>5, <1>6, <1>7

\* What is offered is what a mapped source would offer of the same input.
LEMMA OfferIsSegment ==
    ASSUME instance[Source] \in KernelState, NEW unread \in Nat,
           Produced + unread <= FileSize,
           unread < SegmentSize => Produced + unread = FileSize
    PROVE  Offered(unread) = Mapped!SourceSegment(instance[Source])
<1>. DEFINE st == instance[Source]
<1>1. /\ SegmentSize \in Nat /\ FileSize \in Nat /\ Produced \in Nat
      /\ Produced = st.produced
  BY ItemsAssumption DEF Produced, KernelState
<1>2. CASE unread < SegmentSize
  <2>1. FileSize < st.produced + SegmentSize /\ st.produced + unread = FileSize
    BY <1>1, <1>2
  <2>. QED
    BY <1>2, <2>1 DEF Offered, Mapped!SourceSegment
<1>3. CASE ~(unread < SegmentSize)
  <2>1. ~(FileSize < st.produced + SegmentSize)
    BY <1>1, <1>3
  <2>. QED
    BY <1>3, <2>1 DEF Offered, Mapped!SourceSegment
<1>. QED
  BY <1>2, <1>3

\* The operators of the pipeline that no page size enters into.
LEMMA MappedSets ==
    /\ Mapped!Kernels = Kernels /\ Mapped!Threads = Threads /\ Mapped!Sources = Sources
    /\ \A k \in Kernels : Mapped!InputSet(k) = InputSet(k)
    /\ \A b \in Kernels : Mapped!Consumers(b) = Consumers(b)
    /\ Mapped!ConsumedBuffers = ConsumedBuffers
<1>1. Mapped!Kernels = Kernels /\ Mapped!Threads = Threads
  BY DEF Mapped!Kernels, Kernels, Mapped!Threads, Threads
<1>2. Mapped!Sources = Sources
  BY <1>1 DEF Mapped!Sources, Sources
<1>3. \A k \in Kernels : Mapped!InputSet(k) = InputSet(k)
  BY DEF Mapped!InputSet, InputSet
<1>4. \A b \in Kernels : Mapped!Consumers(b) = Consumers(b)
  BY <1>1, <1>3 DEF Mapped!Consumers, Consumers
<1>5. Mapped!ConsumedBuffers = ConsumedBuffers
  BY <1>1, <1>4 DEF Mapped!ConsumedBuffers, ConsumedBuffers
<1>. QED
  BY <1>1, <1>2, <1>3, <1>4, <1>5

\* A kernel's results and what a thread reads of them.
LEMMA MappedResults ==
    ASSUME NEW k \in Kernels
    PROVE  /\ \A st, pos, final :
                 Mapped!DoSegmentResults(k, st, pos, final) = DoSegmentResults(k, st, pos, final)
           /\ \A st, before : Mapped!ConsumedAfter(k, st, before) = ConsumedAfter(k, st, before)
           /\ \A st, before : Mapped!TerminatedAfter(k, st, before) = TerminatedAfter(k, st, before)
<1>1. ASSUME NEW st, NEW pos, NEW final
      PROVE  Mapped!DoSegmentResults(k, st, pos, final) = DoSegmentResults(k, st, pos, final)
  <2>1. \A S : Mapped!Min(S) = Min(S)
    BY DEF Mapped!Min, Min
  <2>2. Mapped!Available(k, pos) = Available(k, pos)
    BY <2>1, MappedSets DEF Mapped!Available, Available
  <2>3. \A avail : Mapped!Advance(k, st, avail, final) = Advance(k, st, avail, final)
    BY DEF Mapped!Advance, Advance, Mapped!StrideItems, StrideItems
  <2>4. ASSUME NEW avail
        PROVE  Mapped!EarlyTermination(k, st, avail, final) = EarlyTermination(k, st, avail, final)
    <3>. DEFINE normal == Advance(k, st, avail, final)
    <3>1. Mapped!Advance(k, st, avail, final) = normal
      BY <2>3
    <3>. HIDE DEF normal
    <3>2. Mapped!EarlyTermination(k, st, avail, final)
            = {[normal EXCEPT !.produced = n, !.signal = TRUE] :
                  n \in st.produced + 1 .. normal.processed - 1}
      BY <3>1 DEF Mapped!EarlyTermination
    <3>3. EarlyTermination(k, st, avail, final)
            = {[normal EXCEPT !.produced = n, !.signal = TRUE] :
                  n \in st.produced + 1 .. normal.processed - 1}
      BY DEF EarlyTermination, normal
    <3>. QED
      BY <3>2, <3>3
  <2>5. Mapped!SourceSegment(st) = SourceSegment(st)
    BY DEF Mapped!SourceSegment, SourceSegment
  <2>. QED
    BY <2>2, <2>3, <2>4, <2>5, MappedSets DEF Mapped!DoSegmentResults, DoSegmentResults
<1>2. ASSUME NEW st, NEW before
      PROVE  Mapped!ConsumedAfter(k, st, before) = ConsumedAfter(k, st, before)
  <2>1. \A b \in Kernels : Mapped!FirstConsumer(b, k) <=> FirstConsumer(b, k)
    BY MappedSets DEF Mapped!FirstConsumer, FirstConsumer
  <2>. QED
    BY <2>1, MappedSets DEF Mapped!ConsumedAfter, ConsumedAfter
<1>3. \A st, before : Mapped!TerminatedAfter(k, st, before) = TerminatedAfter(k, st, before)
  BY DEF Mapped!TerminatedAfter, TerminatedAfter
<1>. QED
  BY <1>1, <1>2, <1>3

\* A call of the source is one of a mapped source that has no page to drop: its
\* page would be longer than the input.
LEMMA ReadIsMapped ==
    ASSUME FullReads, UnreadWhole, ControlInv, DataInv, ReadCountsInv,
           NEW t \in Threads, ReadSegment(t)
    PROVE  Mapped!RecordedDoSegment(t)
<1>1. Source \in Kernels /\ Source \in Sources /\ at[t] = Source
  BY SourceIsKernel, ReadSourceAssumption DEF ReadSegment, Source
<1>2. /\ instance \in [Kernels -> KernelState] /\ consumed \in [Kernels -> Nat]
      /\ readable \in [Kernels -> Nat]
  BY DEF DataInv, DataType
<1>3. PICK unread \in Nat :
         /\ instance' = [instance EXCEPT ![Source] = Offered(unread)]
         /\ Produced + unread <= FileSize
         /\ unread < SegmentSize => Produced + unread = FileSize
  BY UnreadLeft
<1>. DEFINE st == Offered(unread)
<1>4. st = Mapped!SourceSegment(instance[Source]) /\ st \in KernelState
  BY <1>1, <1>2, <1>3, OfferIsSegment, OfferedCounts
<1>. HIDE DEF st
<1>5. instance' = [instance EXCEPT ![Source] = st] /\ instance'[Source] = st
  BY <1>1, <1>2, <1>3 DEF st
<1>6. Leaves(t, st)
  BY <1>4, <1>5, ReadLeaves
<1>7. st \in Mapped!DoSegmentResults(Source, instance[Source], Mapped!InputPositions(t),
                                    terminated[t])
  BY <1>1, <1>4, MappedSets DEF Mapped!DoSegmentResults
<1>8. readable' = Mapped!DropPages(Source)
  <2>1. consumed[Source] \in Nat /\ consumed[Source] <= FileSize
    <3>1. consumed[Source] \in Nat /\ Produced \in Nat /\ input \in Nat
      BY <1>1, <1>2 DEF Produced, KernelState, ReadCountsInv, InputRead
    <3>. QED
      BY <3>1, ItemsAssumption DEF ReadCountsInv, ConsumedOffered, InputRead
  <2>2. consumed[Source] \div (FileSize + 1) = 0
    BY <2>1, ItemsAssumption
  <2>3. Mapped!PageFloor(consumed[Source]) = 0
    BY <2>2, ItemsAssumption DEF Mapped!PageFloor
  <2>4. readable[Source] = 0 /\ readable' = readable
    BY DEF ReadCountsInv, NoneDropped, ReadSegment
  <2>. QED
    BY <1>1, <1>2, <2>3, <2>4, MappedSets DEF Mapped!DropPages
<1>9. Mapped!DoSegment(t)
  <2>1. /\ pc[t] = "doSegment"
        /\ producedPos' = [producedPos EXCEPT ![t][Source] = st.produced]
        /\ consumedPos' = [consumedPos EXCEPT
                              ![t] = Mapped!ConsumedAfter(Source, st, consumedPos[t])]
        /\ terminated' = [terminated EXCEPT
                              ![t] = Mapped!TerminatedAfter(Source, st, terminated[t])]
        /\ pc' = [pc EXCEPT ![t] = "release"]
        /\ UNCHANGED <<logicalSegNo, consumed, driver, segNo, at, unset>>
    BY <1>1, <1>6, MappedResults DEF Leaves
  <2>. QED
    BY <1>1, <1>5, <1>7, <1>8, <2>1 DEF Mapped!DoSegment
<1>. QED
  BY <1>1, <1>9 DEF Mapped!RecordedDoSegment, ReadSegment

\* A call of another kernel drops no page whatever the size of one.
LEMMA OtherIsMapped ==
    ASSUME ControlInv, DataInv, NEW t \in Threads, DoOtherSegment(t)
    PROVE  Mapped!RecordedDoSegment(t)
<1>. DEFINE k == at[t]
<1>1. pc[t] = "doSegment" /\ k # Source /\ DoSegment(t)
  BY DEF DoOtherSegment, RecordedDoSegment, DoSegment
<1>2. k \in Kernels /\ k \notin Sources
  BY <1>1, CalledInPlace, ReadSourceAssumption DEF Source
<1>3. PICK st \in DoSegmentResults(k, instance[k], producedPos[t], terminated[t]) :
         /\ instance' = [instance EXCEPT ![k] = st]
         /\ producedPos' = [producedPos EXCEPT ![t][k] = st.produced]
         /\ consumedPos' = [consumedPos EXCEPT ![t] = ConsumedAfter(k, st, @)]
         /\ terminated' = [terminated EXCEPT ![t] = TerminatedAfter(k, st, @)]
  BY <1>1 DEF DoSegment, InputPositions
<1>4. /\ readable' = Mapped!DropPages(k)
      /\ pc' = [pc EXCEPT ![t] = "release"]
      /\ UNCHANGED <<logicalSegNo, consumed, driver, segNo, at, unset>>
  BY <1>1, <1>2, MappedSets DEF DoSegment, DropPages, Mapped!DropPages
<1>. HIDE DEF k
<1>5. /\ st \in Mapped!DoSegmentResults(k, instance[k], producedPos[t], terminated[t])
      /\ consumedPos' = [consumedPos EXCEPT
                            ![t] = Mapped!ConsumedAfter(k, st, consumedPos[t])]
      /\ terminated' = [terminated EXCEPT
                            ![t] = Mapped!TerminatedAfter(k, st, terminated[t])]
  BY <1>2, <1>3, MappedResults
<1>6. Mapped!DoSegment(t)
  BY <1>1, <1>3, <1>4, <1>5 DEF Mapped!DoSegment, Mapped!InputPositions, k
<1>. QED
  BY <1>6 DEF Mapped!RecordedDoSegment, DoOtherSegment, RecordedDoSegment

\* The other steps of the threads and the driver name no page.
LEMMA CoordinateIsMapped ==
    ASSUME NEW t \in Threads, Coordinate(t)
    PROVE  Mapped!Coordinate(t)
<1>. USE DEF Mapped!kernelVars, kernelVars, Mapped!registers, registers
<1>1. ASSUME Enter(t) PROVE Mapped!Enter(t)
  BY <1>1 DEF Enter, Mapped!Enter, Ready, Mapped!Ready, WaitKernel, Mapped!WaitKernel,
              Completed, Mapped!Completed
<1>2. ASSUME ExitPipeline(t) PROVE Mapped!ExitPipeline(t)
  BY <1>2 DEF ExitPipeline, Mapped!ExitPipeline, Ready, Mapped!Ready, WaitKernel,
              Mapped!WaitKernel, Completed, Mapped!Completed, NextSegNo, Mapped!NextSegNo
<1>3. ASSUME Release(t) PROVE Mapped!Release(t)
  BY <1>3, MappedSets DEF Release, Mapped!Release, NextSegNo, Mapped!NextSegNo
<1>4. ASSUME NEW b \in Kernels, StoreConsumed(t, b) PROVE Mapped!StoreConsumed(t, b)
  BY <1>4 DEF StoreConsumed, Mapped!StoreConsumed
<1>5. ASSUME LoopSegment(t) PROVE Mapped!LoopSegment(t)
  BY <1>5, MappedSets DEF LoopSegment, Mapped!LoopSegment, NextHeld, Mapped!NextHeld,
                          NoPositions, Mapped!NoPositions
<1>6. ASSUME ExitThread(t) PROVE Mapped!ExitThread(t)
  BY <1>6 DEF ExitThread, Mapped!ExitThread
<1>. QED
  BY <1>1, <1>2, <1>3, <1>4, <1>5, <1>6, MappedSets DEF Coordinate, Mapped!Coordinate

\* The same for the driver.
LEMMA DriverIsMapped ==
    /\ DriverStep => Mapped!DriverStep
    /\ UNCHANGED allVars => UNCHANGED Mapped!allVars
    /\ Returned /\ UNCHANGED history => UNCHANGED Mapped!allVars
<1>. USE DEF Mapped!kernelVars, kernelVars, Mapped!registers, registers, Mapped!vars, vars,
             Mapped!allVars, allVars
<1>1. ASSUME DriverStep PROVE Mapped!DriverStep
  BY <1>1, MappedSets
     DEF DriverStep, Mapped!DriverStep, Spawn, Mapped!Spawn, CallThread0,
         Mapped!CallThread0, JoinThreads, Mapped!JoinThreads, Awaited, Mapped!Awaited,
         FinalizeInstances, Mapped!FinalizeInstances
<1>. QED
  BY <1>1 DEF Returned

\* A pipeline behind a ReadSource starts as one behind a mapped source.
LEMMA ReadStartsMapped == ReadInit => Mapped!HistoryInit
BY MappedSets DEF ReadInit, HistoryInit, Init, NoPositions, InitKernelState,
                  Mapped!HistoryInit, Mapped!Init, Mapped!NoPositions,
                  Mapped!InitKernelState

\* And takes its steps.
LEMMA ReadStepsMapped ==
    FullReads /\ UnreadWhole /\ ControlInv /\ DataInv /\ ReadCountsInv /\ [ReadNext]_readVars
       => [Mapped!HistoryNext]_Mapped!allVars /\ UnreadWhole'
<1>. SUFFICES ASSUME FullReads, UnreadWhole, ControlInv, DataInv, ReadCountsInv,
                     [ReadNext]_readVars
              PROVE  [Mapped!HistoryNext]_Mapped!allVars /\ UnreadWhole'
  OBVIOUS
<1>1. CASE \E t \in Threads : ReadSegment(t)
  BY <1>1, ReadIsMapped, UnreadLeft, MappedSets DEF Mapped!HistoryNext
<1>2. CASE \A t \in Threads : ~ReadSegment(t)
  <2>1. UnreadWhole'
    <3>1. UNCHANGED <<instance[Source], input, buffer>>
      BY <1>2, OtherCounts DEF sourceVars
    <3>. QED
      BY <3>1 DEF UnreadWhole, Unread, Produced
  <2>2. CASE \E t \in Threads : DoOtherSegment(t)
    BY <2>1, <2>2, OtherIsMapped, MappedSets DEF Mapped!HistoryNext
  <2>3. CASE \E t \in Threads : CoordinateRead(t)
    BY <2>1, <2>3, CoordinateIsMapped, MappedSets
       DEF CoordinateRead, Mapped!HistoryNext, Mapped!Unrecorded
  <2>4. CASE DriveRead
    BY <2>1, <2>4, DriverIsMapped DEF DriveRead, Mapped!HistoryNext, Mapped!Unrecorded
  <2>5. CASE ReadReturned \/ UNCHANGED readVars
    BY <2>1, <2>5, DriverIsMapped DEF ReadReturned, readVars
  <2>. QED
    BY <1>2, <2>2, <2>3, <2>4, <2>5 DEF ReadNext, ReadStep
<1>. QED
  BY <1>1, <1>2

\* A ReadSource whose reads are full offers exactly what a mapped source does:
\* threads, driver and the other kernels cannot tell standard input from a file
\* (source_kernel.cpp:172-309).
THEOREM ReadImplementsMapped == ASSUME FullReads PROVE ReadSpec => ImplementsMapped
<1>. DEFINE Inv == ControlInv /\ DataInv /\ ReadCountsInv
<1>1. ReadInit => UnreadWhole
  <2>. SUFFICES ASSUME ReadInit PROVE UnreadWhole
    OBVIOUS
  <2>1. Unread = 0 * SegmentSize
    BY SourceIsKernel, ItemsAssumption
       DEF ReadInit, HistoryInit, Init, InitKernelState, Unread, Produced
  <2>. QED
    BY <2>1 DEF UnreadWhole
<1>2. UnreadWhole /\ Inv /\ [ReadNext]_readVars =>
         [Mapped!HistoryNext]_Mapped!allVars /\ UnreadWhole'
  BY ReadStepsMapped
<1>3. ReadSpec => []Inv
  BY ReadData
<1>. HIDE DEF Inv
<1>. QED
  BY <1>1, <1>2, <1>3, ReadStartsMapped, PTL
     DEF ReadSpec, ImplementsMapped, Mapped!HistorySpec

-----------------------------------------------------------------------------
(* All that was read is processed, whatever the reads return.  The source    *)
(* ends the input where a read left it less than a segment, which may be     *)
(* anywhere in the file; but what it offers is then an input of that size,   *)
(* and as long as its offers are those of an input of some size, the calls   *)
(* of the other kernels are what InputInv says of one.                       *)

\* What the source's n-th call left behind: n segments offered, or all that was
\* read, which then ends inside a segment or with the file.
OffersRead(st, n, read) ==
    IF st.signal
    THEN /\ Items(n - 1) <= st.produced /\ st.produced < Items(n)
         /\ st.produced = read
         /\ read = FileSize \/ read % SegmentSize # 0
    ELSE st.produced = Items(n)

\* It offers whole segments, and nothing more once it has signalled.
SourceCalls ==
    \A n \in 1 .. Len(history[Source]) :
        /\ OffersRead(history[Source][n], n, input)
        /\ history[Source][n].signal => n = Len(history[Source])

\* If the source has offered an input of some size, the kernels were called as
\* they are for one.
InputCalls == \A size \in Nat : OffersInput(history, size) => InputInv(history, size)

ReadCallsInv == HistoryInv /\ ExitInv /\ SourceCalls /\ InputCalls

\* The source's counts are those of its last call.
LEMMA SourceRecorded ==
    ASSUME HistoryInv
    PROVE  LET h == history[Source]
           IN  /\ Source \in Kernels /\ Sources = {Source}
               /\ h \in Seq(KernelState) /\ Len(h) \in Nat
               /\ Len(h) = 0 => Produced = 0 /\ ~instance[Source].signal
               /\ Len(h) # 0 => Len(h) \in 1 .. Len(h) /\ instance[Source] = h[Len(h)]
<1>1. Source \in Kernels /\ Sources = {Source}
  BY SourceIsKernel, ReadSourceAssumption DEF Source
<1>2. history[Source] \in Seq(KernelState)
  BY <1>1 DEF HistoryInv
<1>. QED
  BY <1>1, <1>2 DEF HistoryInv, LastRecorded, Produced, InitKernelState

\* It has offered an input of the size of what it has produced so far.
LEMMA OffersProduced ==
    ASSUME HistoryInv, SourceCalls
    PROVE  Produced \in Nat /\ OffersInput(history, Produced)
<1>. DEFINE h == history[Source]
            last == Len(h)
<1>1. /\ Source \in Kernels /\ Sources = {Source} /\ h \in Seq(KernelState) /\ last \in Nat
      /\ last = 0 => Produced = 0
      /\ last # 0 => last \in 1 .. last /\ Produced = h[last].produced
  BY SourceRecorded DEF Produced
<1>2. Produced \in Nat
  <2>1. last # 0 => h[last] \in KernelState
    BY <1>1
  <2>. QED
    BY <1>1, <2>1 DEF KernelState
<1>3. ASSUME NEW n \in 1 .. last PROVE OffersUpTo(h[n], n, Produced)
  <2>1. /\ OffersRead(h[n], n, input) /\ OffersRead(h[last], last, input)
        /\ h[n].signal => n = last
    BY <1>1, <1>3 DEF SourceCalls
  <2>a. n \in Nat /\ last - 1 \in Nat /\ last \in Nat /\ n <= last
    BY <1>1, <1>3
  <2>. HIDE DEF last
  <2>2. Items(n) \in Nat /\ Items(last - 1) \in Nat /\ Items(last) \in Nat
    BY <2>a, ItemsOfSegments
  <2>3. n <= last - 1 => Items(n) <= Items(last - 1)
    BY <2>a, ItemsOfSegments
  <2>4. Items(n) <= Items(last)
    BY <2>a, ItemsOfSegments
  <2>5. CASE h[n].signal
    BY <1>1, <1>2, <2>1, <2>2, <2>5 DEF OffersRead, OffersUpTo
  <2>6. CASE ~h[n].signal
    <3>1. h[n].produced = Items(n)
      BY <2>1, <2>6 DEF OffersRead
    <3>2. ~(Produced < Items(n))
      <4>1. CASE h[last].signal
        <5>1. n <= last - 1
          BY <1>1, <1>3, <2>6, <4>1
        <5>. QED
          BY <1>1, <1>2, <2>1, <2>2, <2>3, <4>1, <5>1 DEF OffersRead
      <4>2. CASE ~h[last].signal
        BY <1>1, <1>2, <2>1, <2>2, <2>4, <4>2 DEF OffersRead
      <4>. QED
        BY <4>1, <4>2
    <3>. QED
      BY <2>6, <3>1, <3>2 DEF OffersUpTo
  <2>. QED
    BY <2>5, <2>6
<1>. QED
  BY <1>1, <1>2, <1>3 DEF OffersInput

\* At first nothing has been called.
LEMMA ReadCallsInit == ReadInit => ReadCallsInv
<1>. SUFFICES ASSUME ReadInit PROVE ReadCallsInv
  OBVIOUS
<1>1. HistoryInit
  BY DEF ReadInit
<1>2. HistoryInv /\ ExitInv
  BY <1>1, NothingRecorded, ExitInit
<1>3. history = [k \in Kernels |-> <<>>]
  BY <1>1 DEF HistoryInit
<1>4. SourceCalls
  <2>1. Len(history[Source]) = 0
    BY <1>3, SourceIsKernel
  <2>. QED
    BY <2>1 DEF SourceCalls
<1>5. InputCalls
  BY <1>3, NothingCalled DEF InputCalls
<1>. QED
  BY <1>2, <1>4, <1>5 DEF ReadCallsInv

\* A recorded call, of the source or of another kernel, keeps what is said of an
\* input of any size that the source still offers after it.
LEMMA CallKeepsInputs ==
    ASSUME StopsPipeline, ControlInv, DataInv, ReadCallsInv,
           NEW u \in Threads, NEW st \in KernelState, LeavesRecord(u, st),
           at[u] \notin Sources =>
              st \in DoSegmentResults(at[u], instance[at[u]], producedPos[u], terminated[u])
    PROVE  HistoryInv' /\ ExitInv' /\ InputCalls'
<1>. USE DEF ReadCallsInv
<1>. DEFINE k == at[u]
            n == segNo[u] + 1
<1>1. HistoryInv'
  BY HistoryCalled
<1>2. Produced \in Nat /\ InputInv(history, Produced)
  BY OffersProduced DEF InputCalls
<1>3. ExitInv'
  BY <1>2, ExitCalled
<1>4. /\ k \in Kernels /\ producedPos[u] \in [Kernels -> Nat] /\ terminated[u] \in BOOLEAN
      /\ Recorded(history, history', k, n, instance[k], producedPos[u], terminated[u], st)
  BY EnteredIsRecorded DEF LeavesRecord, Leaves
<1>. HIDE DEF k, n
<1>5. Extended(history, history', k, n, st)
  BY <1>2, <1>4, CallExtends
<1>6. InputCalls'
  <2>. SUFFICES ASSUME NEW size \in Nat, OffersInput(history', size)
                PROVE  InputInv(history', size)
    BY DEF InputCalls
  <2>1. OffersInput(history, size)
    <3>. SUFFICES ASSUME NEW c \in Sources, NEW m \in 1 .. Len(history[c])
                  PROVE  OffersUpTo(history[c][m], m, size)
      BY DEF OffersInput
    <3>1. c \in Kernels /\ c \in 0 .. c
      BY DEF Sources, Kernels
    <3>2. history'[c][m] = history[c][m]
      BY <1>5, <3>1 DEF Extended
    <3>3. m \in 1 .. Len(history'[c])
      <4>1. history[c] \in Seq(KernelState)
        BY <3>1 DEF HistoryInv
      <4>2. Len(history[c]) \in Nat
        BY <4>1
      <4>3. c # k => history'[c] = history[c]
        BY <1>5, <3>1 DEF Extended
      <4>4. c = k => Len(history'[c]) = Len(history[c]) + 1
        BY <1>5 DEF Extended
      <4>. QED
        BY <4>2, <4>3, <4>4
    <3>. QED
      BY <3>2, <3>3 DEF OffersInput
  <2>2. InputInv(history, size)
    BY <2>1 DEF InputCalls
  <2>3. k \in Sources => OffersUpTo(st, n, size)
    <3>1. n \in 1 .. Len(history'[k]) /\ history'[k][n] = st
      BY <1>5 DEF Extended
    <3>. QED
      BY <3>1 DEF OffersInput
  <2>. QED
    BY <1>4, <2>2, <2>3, InputInvKept
<1>. QED
  BY <1>1, <1>3, <1>6

\* What is left of whole segments.
LEMMA ModOfLess ==
    ASSUME NEW d \in Nat \ {0}, NEW q \in Nat, NEW u \in Nat, u < d
    PROVE  (q * d + u) % d = u
<1>. DEFINE x == q * d + u
            p == x \div d
            v == x % d
<1>1. q * d \in Nat /\ x \in Nat
  OBVIOUS
<1>2. p \in Nat /\ v \in 0 .. d - 1 /\ x = p * d + v
  BY <1>1
<1>. HIDE DEF p, v
<1>3. ~(p < q)
  <2>. SUFFICES ASSUME p < q PROVE FALSE
    OBVIOUS
  <2>1. PICK c \in Nat : q = p + 1 + c
    <3>1. q - (p + 1) \in Nat /\ q = p + 1 + (q - (p + 1))
      BY <1>2
    <3>. QED
      BY <3>1
  <2>2. q * d = p * d + d + c * d /\ c * d \in Nat
    BY <1>2, <2>1
  <2>. QED
    BY <1>1, <1>2, <2>2
<1>4. ~(q < p)
  <2>. SUFFICES ASSUME q < p PROVE FALSE
    OBVIOUS
  <2>1. PICK c \in Nat : p = q + 1 + c
    <3>1. p - (q + 1) \in Nat /\ p = q + 1 + (p - (q + 1))
      BY <1>2
    <3>. QED
      BY <3>1
  <2>2. p * d = q * d + d + c * d /\ c * d \in Nat
    BY <1>2, <2>1
  <2>. QED
    BY <1>1, <1>2, <2>2
<1>5. p = q
  BY <1>2, <1>3, <1>4
<1>6. v = u
  BY <1>1, <1>2, <1>5
<1>. QED
  BY <1>6 DEF v

\* A call of the source offers the next segment, or all that is left of what was
\* read.
LEMMA ReadKeepsCalls ==
    ASSUME StopsPipeline, ControlInv, DataInv, ReadCountsInv, ReadCallsInv,
           NEW t \in Threads, ReadSegment(t)
    PROVE  ReadCallsInv'
<1>. USE DEF ReadCallsInv
<1>. DEFINE h == history[Source]
            last == Len(h)
<1>1. /\ Source \in Kernels /\ Sources = {Source} /\ h \in Seq(KernelState) /\ last \in Nat
      /\ last = 0 => Produced = 0
      /\ last # 0 => last \in 1 .. last /\ instance[Source] = h[last]
  BY SourceRecorded
<1>2. /\ SegmentSize \in Nat \ {0} /\ Produced \in Nat
      /\ instance \in [Kernels -> KernelState] /\ instance[Source] \in KernelState
  BY <1>1, ItemsAssumption DEF DataInv, DataType, Produced, KernelState
<1>3. PICK n \in Nat :
         /\ input' = input + n
         /\ Unread + n \in Nat /\ Produced + (Unread + n) = input + n
         /\ instance' = [instance EXCEPT ![Source] = Offered(Unread + n)]
         /\ Unread + n = 0 => input + n = FileSize
  BY ReadUnread
<1>. DEFINE unread == Unread + n
            st == Offered(unread)
<1>4. /\ st \in KernelState
      /\ st.produced = Produced + (IF unread < SegmentSize THEN unread ELSE SegmentSize)
      /\ st.signal <=> (instance[Source].signal \/ unread < SegmentSize)
  BY <1>2, <1>3, OfferedCounts
<1>5. unread \in Nat /\ Produced + unread = input' /\ (unread = 0 => input' = FileSize)
  BY <1>3
<1>6. LeavesRecord(t, st)
  <2>1. instance' = [instance EXCEPT ![Source] = st]
    BY <1>3
  <2>. HIDE DEF st
  <2>2. Leaves(t, st) /\ instance'[Source] = st
    BY <1>4, <2>1, ReadLeaves
  <2>. QED
    BY <2>2 DEF LeavesRecord, ReadSegment
<1>. HIDE DEF unread, st
<1>7. HistoryInv' /\ ExitInv' /\ InputCalls'
  BY <1>1, <1>4, <1>6, CallKeepsInputs DEF ReadSegment
<1>8. ~instance[Source].signal
  <2>1. ~Ended(Source)
    BY DEF ReadSegment, HistoryInv, EnteredDue
  <2>. QED
    BY <1>1, <2>1 DEF Ended, StopsPipeline
<1>9. Produced = Items(last)
  <2>1. CASE last = 0
    BY <1>1, <2>1, ItemsOfSegments
  <2>2. CASE last # 0
    BY <1>1, <1>8, <2>2 DEF SourceCalls, OffersRead, Produced
  <2>. QED
    BY <2>1, <2>2
<1>10. /\ Items(last) \in Nat /\ Items(last + 1) = Items(last) + SegmentSize
       /\ (last + 1) - 1 = last
  <2>1. last \in Nat
    BY <1>1
  <2>. HIDE DEF last
  <2>. QED
    BY <2>1, ItemsOfSegments
<1>11. OffersRead(st, last + 1, input')
  <2>1. CASE unread < SegmentSize
    <3>1. st.signal /\ st.produced = input' /\ Items(last) <= st.produced
          /\ st.produced < Items(last + 1)
      BY <1>2, <1>4, <1>5, <1>9, <1>10, <2>1
    <3>2. unread # 0 => input' % SegmentSize # 0
      <4>1. input' = last * SegmentSize + unread
        BY <1>5, <1>9 DEF Items
      <4>. HIDE DEF last
      <4>2. (last * SegmentSize + unread) % SegmentSize = unread
        BY <1>1, <1>2, <1>5, <2>1, ModOfLess
      <4>. QED
        BY <4>1, <4>2
    <3>. QED
      BY <1>5, <1>10, <3>1, <3>2 DEF OffersRead
  <2>2. CASE ~(unread < SegmentSize)
    BY <1>2, <1>4, <1>5, <1>8, <1>9, <1>10, <2>2 DEF OffersRead
  <2>. QED
    BY <2>1, <2>2
<1>12. SourceCalls'
  <2>1. history'[Source] = Append(h, st)
    BY <1>1, <1>6 DEF LeavesRecord, ReadSegment, HistoryInv
  <2>. HIDE DEF h
  <2>2. /\ Len(Append(h, st)) = last + 1 /\ Append(h, st)[last + 1] = st
        /\ \A m \in 1 .. last : Append(h, st)[m] = h[m]
    BY <1>1, <1>4
  <2>. SUFFICES ASSUME NEW m \in 1 .. last + 1
                PROVE  /\ OffersRead(Append(h, st)[m], m, input')
                       /\ Append(h, st)[m].signal => m = last + 1
    BY <2>1, <2>2 DEF SourceCalls
  <2>3. CASE m = last + 1
    BY <1>11, <2>2, <2>3
  <2>4. CASE m # last + 1
    <3>1. m \in 1 .. last
      BY <1>1, <2>4
    <3>2. OffersRead(h[m], m, input) /\ (h[m].signal => m = last)
      BY <3>1 DEF SourceCalls, h
    <3>3. ~h[m].signal
      BY <1>1, <1>8, <3>1, <3>2
    <3>. QED
      BY <2>2, <3>1, <3>2, <3>3 DEF OffersRead
  <2>. QED
    BY <2>3, <2>4
<1>. QED
  BY <1>7, <1>12

\* So does every other step: the source offers nothing more, and reads nothing.
LEMMA ReadCallsNext ==
    ASSUME StopsPipeline, ControlInv, DataInv, ReadCountsInv, ReadCallsInv,
           [ReadNext]_readVars
    PROVE  ReadCallsInv'
<1>. USE DEF ReadCallsInv
<1>1. CASE \E t \in Threads : ReadSegment(t)
  BY <1>1, ReadKeepsCalls
<1>2. CASE \A t \in Threads : ~ReadSegment(t)
  <2>1. [HistoryNext]_allVars /\ input' = input
    BY <1>2, OtherSteps DEF sourceVars
  <2>2. HistoryInv'
    BY <2>1, HistoryInvNext
  <2>3. ASSUME UNCHANGED history PROVE InputCalls' /\ SourceCalls'
    BY <2>1, <2>3 DEF InputCalls, SourceCalls
  <2>4. ASSUME NEW t \in Threads, DoOtherSegment(t) PROVE ExitInv' /\ InputCalls' /\ SourceCalls'
    <3>1. at[t] # Source /\ RecordedDoSegment(t)
      BY <2>4 DEF DoOtherSegment
    <3>2. PICK st \in DoSegmentResults(at[t], instance[at[t]], producedPos[t], terminated[t]) :
             st \in KernelState /\ LeavesRecord(t, st)
      BY <3>1, CallLeavesRecord
    <3>3. history'[Source] = history[Source]
      BY <3>1, <3>2, SourceIsKernel DEF LeavesRecord, HistoryInv
    <3>. QED
      BY <2>1, <3>2, <3>3, CallKeepsInputs DEF SourceCalls
  <2>5. ASSUME NEW t \in Threads, CoordinateRead(t) PROVE ExitInv' /\ UNCHANGED history
    BY <2>5, ExitCoordinated DEF CoordinateRead
  <2>6. CASE DriveRead
    BY <2>2, <2>3, <2>6, ExitDriven DEF DriveRead
  <2>7. CASE ReadReturned \/ UNCHANGED readVars
    <3>1. UNCHANGED <<instance, logicalSegNo, driver, pc, segNo, at, terminated, history>>
      BY <2>7 DEF ReadReturned, Returned, readVars, allVars, vars, kernelVars, registers
    <3>2. ExitInv'
      BY <3>1 DEF ExitInv, PastRounds, CallsBounded, ExitsRecorded, Joined, Ended
    <3>. QED
      BY <2>2, <2>3, <3>1, <3>2
  <2>. QED
    BY <1>2, <2>2, <2>3, <2>4, <2>5, <2>6, <2>7 DEF ReadNext, ReadStep
<1>. QED
  BY <1>1, <1>2

\* When the driver goes on to finalize the kernels, each of them has processed all
\* that was read, unless one ended the pipeline early, and the input was cut
\* nowhere but inside a segment (source_kernel.cpp:272-303): however short the
\* reads are, whether a page is more or less than a segment, or no whole number of
\* them, and for every number of threads.  (That the items processed are those of
\* the input is ItemsAreRead, which needs full reads.)  Sources and UntilN must not
\* have the attribute NoTerminate.
THEOREM ReadOutputIsComplete ==
    ASSUME StopsPipeline PROVE ReadSpec => []CompleteRead
<1>1. ASSUME ControlInv, ReadCallsInv PROVE CompleteRead
  <2>. USE <1>1 DEF ReadCallsInv
  <2>. SUFFICES ASSUME driver = "finalize", ~EndedEarly
                PROVE  /\ Produced = input
                       /\ \A k \in Kernels \ Sources : instance[k].processed = input
                       /\ input = FileSize \/ input % SegmentSize # 0
    BY DEF CompleteRead
  <2>. DEFINE h == history[Source]
              last == Len(h)
  <2>1. Produced \in Nat /\ InputInv(history, Produced)
    BY OffersProduced DEF InputCalls
  <2>2. /\ last \in Nat \ {0} /\ Produced < Items(last)
        /\ \A k \in Kernels \ Sources : instance[k].processed = Produced
    BY <2>1, CompleteAtEnd DEF Source
  <2>3. last \in 1 .. last /\ instance[Source] = h[last]
    BY <2>2, SourceRecorded
  <2>4. OffersRead(instance[Source], last, input) /\ Items(last) \in Nat
    BY <2>2, <2>3, ItemsOfSegments DEF SourceCalls
  <2>5. Produced = input /\ (input = FileSize \/ input % SegmentSize # 0)
    BY <2>1, <2>2, <2>4 DEF OffersRead, Produced
  <2>. QED
    BY <2>2, <2>5
<1>. DEFINE Inv == ControlInv /\ DataInv /\ ReadCountsInv
<1>2. ReadCallsInv /\ Inv /\ [ReadNext]_readVars => ReadCallsInv'
  BY ReadCallsNext
<1>3. ReadSpec => []Inv
  BY ReadData
<1>4. ReadCallsInv /\ Inv => CompleteRead
  BY <1>1
<1>. HIDE DEF Inv
<1>. QED
  BY <1>2, <1>3, <1>4, ReadCallsInit, PTL DEF ReadSpec

-----------------------------------------------------------------------------
(* The stores of the source's consumed count *)

\* Thread v has executed a consumer of the source for the segment it holds.
Counted(v) == \E j \in Consumers(Source) : Past(v, j)

\* It has stored the consumed count of that segment.
Stored(v) == at[v] = NumKernels /\ Source \notin unset[v]

\* The segment whose consumed count it has stored last.
LastStored(v) == IF Stored(v) THEN segNo[v] ELSE segNo[v] - ThreadNum

\* It has a count that it is yet to store.
Pending(v) == Counted(v) /\ pc[v] # "exitThread" /\ ~Stored(v)

\* The counts that the threads keep rise with their segments.
RegistersRising ==
    \A u, v \in Threads :
        (pc[u] # "exitThread" /\ segNo[u] < segNo[v] /\ Counted(v)) =>
            consumedPos[u][Source] <= consumedPos[v][Source]

\* A count yet to be stored takes the stored one back only if another thread has
\* stored that of a later segment.
StoredFirst ==
    \A v \in Threads : (Pending(v) /\ \A u \in Threads : LastStored(u) < segNo[v]) =>
        consumed[Source] <= consumedPos[v][Source]

\* Only buffers that have a consumer have such a count.
UnsetConsumed == \A v \in Threads : unset[v] \subseteq ConsumedBuffers

StoreInv == RegistersRising /\ StoredFirst /\ UnsetConsumed

\* What a step may do to the counts: the one stored was kept by a thread, and a
\* thread keeps no less than was stored.
CountsKept ==
    /\ \/ consumed'[Source] = consumed[Source]
       \/ \E v \in Threads : Pending(v) /\ consumed'[Source] = consumedPos[v][Source]
    /\ \A v \in Threads : Pending(v)' =>
          \/ Pending(v) /\ consumedPos'[v][Source] = consumedPos[v][Source]
          \/ consumed[Source] <= consumedPos'[v][Source]

\* The steps that neither start a segment nor store or keep a count.
LEMMA StoresQuiet ==
    ASSUME ControlInv, StoreInv, UNCHANGED segNo, consumed'[Source] = consumed[Source],
           \A v \in Threads :
               /\ consumedPos'[v][Source] = consumedPos[v][Source]
               /\ Counted(v)' <=> Counted(v)
               /\ pc'[v] # "exitThread" => pc[v] # "exitThread"
               /\ Stored(v) => Stored(v)'
               /\ unset'[v] \subseteq unset[v] \cup ConsumedBuffers
    PROVE  StoreInv' /\ CountsKept
<1>1. segNo \in [Threads -> Nat] /\ ThreadNum \in Nat
  BY ThreadsAssumption DEF ControlInv, ControlType
<1>2. \A v \in Threads : /\ Pending(v)' => Pending(v)
                         /\ LastStored(v) <= LastStored(v)'
                         /\ LastStored(v) \in Int /\ LastStored(v)' \in Int
  BY <1>1 DEF Pending, LastStored
<1>3. RegistersRising'
  BY DEF StoreInv, RegistersRising
<1>4. StoredFirst'
  <2>. SUFFICES ASSUME NEW v \in Threads, Pending(v)',
                       \A u \in Threads : LastStored(u)' < segNo[v]
                PROVE  consumed[Source] <= consumedPos[v][Source]
    BY DEF StoredFirst
  <2>1. \A u \in Threads : LastStored(u) < segNo[v]
    BY <1>1, <1>2
  <2>. QED
    BY <1>2, <2>1 DEF StoreInv, StoredFirst
<1>5. UnsetConsumed'
  BY DEF StoreInv, UnsetConsumed, ConsumedBuffers
<1>. QED
  BY <1>2, <1>3, <1>4, <1>5 DEF StoreInv, CountsKept

\* A thread that has executed kernel i holds a segment that is due or past there.
LEMMA PassedTicket ==
    ASSUME ControlInv, NEW v \in Threads, NEW i \in Kernels, Past(v, i)
    PROVE  segNo[v] <= logicalSegNo[i]
<1>1. segNo[v] \in Nat /\ logicalSegNo[i] \in Nat
  BY DEF ControlInv, ControlType
<1>2. CASE i < at[v]
  BY <1>1, <1>2 DEF ControlInv, Behind
<1>3. CASE i = at[v] /\ pc[v] = "release"
  BY <1>1, <1>3 DEF ControlInv, InPlace, Inside
<1>. QED
  BY <1>2, <1>3 DEF Past

\* A call of a consumer of the source: the count it leaves is at least the one
\* stored, and at least those of the threads with earlier segments, each of which
\* has executed that kernel.
LEMMA StoresCalled ==
    ASSUME ControlInv, DataInv, StoreInv, NEW u \in Threads, DoOtherSegment(u)
    PROVE  StoreInv' /\ CountsKept
<1>. DEFINE k == at[u]
            c == consumedPos[u][Source]
            c2 == consumedPos'[u][Source]
<1>1. /\ pc[u] = "doSegment" /\ k # Source /\ DoSegment(u)
      /\ k \in Kernels /\ logicalSegNo[k] = segNo[u]
      /\ k \notin Sources => instance[k].processed <= Available(k, producedPos[u])
  BY CalledInPlace DEF DoOtherSegment, RecordedDoSegment, DoSegment
<1>2. PICK st \in DoSegmentResults(k, instance[k], producedPos[u], terminated[u]) :
         consumedPos' = [consumedPos EXCEPT ![u] = ConsumedAfter(k, st, consumedPos[u])]
  BY <1>1 DEF DoSegment, InputPositions
<1>3. st.processed \in Nat /\ instance[k].processed \in Nat
      /\ instance[k].processed <= st.processed
  <2>1. /\ instance[k] \in KernelState /\ producedPos[u] \in [Kernels -> Nat]
        /\ terminated[u] \in BOOLEAN /\ WithinInput(k, instance[k])
    BY <1>1 DEF DataInv, DataType, InputBound
  <2>. HIDE DEF k
  <2>2. st \in KernelState /\ instance[k].processed <= st.processed
    BY <1>1, <2>1, DoSegmentMovesForward
  <2>. QED
    BY <2>1, <2>2 DEF KernelState
<1>4. /\ UNCHANGED <<segNo, at, unset, consumed>>
      /\ pc' = [pc EXCEPT ![u] = "release"]
      /\ pc \in [Threads -> {"unborn", "segmentWait", "doSegment", "release",
                             "setConsumed", "exitThread"}]
      /\ segNo \in [Threads -> Nat] /\ logicalSegNo \in [Kernels -> Nat]
      /\ at \in [Threads -> 0 .. NumKernels] /\ NumKernels \in Nat
  BY <1>1, KernelsAssumption DEF DoSegment, ControlInv, ControlType
<1>5. \A v \in Threads \ {u} : /\ consumedPos'[v] = consumedPos[v] /\ pc'[v] = pc[v]
                               /\ Counted(v)' <=> Counted(v)
                               /\ Pending(v)' <=> Pending(v)
  BY <1>2, <1>4 DEF DataInv, DataType, Counted, Past, Pending, Stored
<1>6. \A v \in Threads : /\ Stored(v)' <=> Stored(v)
                         /\ LastStored(v)' = LastStored(v)
  BY <1>4 DEF Stored, LastStored
<1>7. /\ pc'[u] = "release" /\ ~Stored(u)
      /\ Counted(u)' <=> Counted(u) \/ k \in Consumers(Source)
  BY <1>1, <1>4 DEF Counted, Past, Consumers, Stored, Kernels
<1>8. c2 = IF Source \in InputSet(k) /\ (FirstConsumer(Source, k) \/ st.processed < c)
           THEN st.processed ELSE c
  BY <1>2, SourceIsKernel DEF ConsumedAfter, DataInv, DataType
<1>9. c \in Nat /\ c2 \in Nat /\ \A v \in Threads : consumedPos[v][Source] \in Nat
  BY <1>3, <1>8, SourceIsKernel DEF DataInv, DataType
<1>. HIDE DEF k, c, c2
<1>10. CASE k \notin Consumers(Source)
  <2>1. c2 = c
    BY <1>1, <1>8, <1>10 DEF Consumers
  <2>2. \A v \in Threads : /\ consumedPos'[v][Source] = consumedPos[v][Source]
                           /\ Counted(v)' <=> Counted(v)
                           /\ pc'[v] # "exitThread" => pc[v] # "exitThread"
    BY <1>1, <1>5, <1>7, <1>10, <2>1 DEF c, c2
  <2>. QED
    BY <1>4, <1>6, <2>2, StoresQuiet
<1>11. CASE k \in Consumers(Source)
  <2>1. Source \in InputSet(k) /\ consumed[Source] <= instance[k].processed
    BY <1>11, SourceIsKernel DEF Consumers, DataInv, DiscardedIsProcessed
  <2>2. consumed[Source] \in Nat /\ consumed[Source] <= st.processed
    BY <1>3, <2>1, SourceIsKernel DEF DataInv, DataType
  <2>3. ~FirstConsumer(Source, k) => Counted(u)
    <3>. SUFFICES ASSUME ~FirstConsumer(Source, k) PROVE Counted(u)
      OBVIOUS
    <3>1. PICK j \in Consumers(Source) : ~(k <= j)
      BY DEF FirstConsumer
    <3>2. j < k
      BY <1>1, <3>1 DEF Consumers, Kernels
    <3>. QED
      BY <3>1, <3>2 DEF Counted, Past, k
  <2>4. c2 = st.processed \/ (c2 = c /\ Counted(u) /\ Pending(u))
    BY <1>1, <1>7, <1>8, <2>1, <2>3 DEF Pending
  <2>5. RegistersRising'
    <3>. SUFFICES ASSUME NEW w \in Threads, NEW v \in Threads,
                         pc'[w] # "exitThread", segNo[w] < segNo[v], Counted(v)'
                  PROVE  consumedPos'[w][Source] <= consumedPos'[v][Source]
      BY <1>4 DEF RegistersRising
    <3>0. pc[w] # "exitThread"
      BY <1>1, <1>5
    <3>1. CASE w # u /\ v # u
      BY <1>5, <3>0, <3>1 DEF StoreInv, RegistersRising
    <3>2. CASE w # u /\ v = u
      <4>1. Past(w, k)
        <5>1. logicalSegNo[k] <= Due(w, k)
          BY <1>1, <3>0 DEF ControlInv, NotAhead
        <5>. QED
          BY <1>1, <1>4, <3>2, <5>1 DEF Due, Past
      <4>2. consumedPos[w][Source] <= instance[k].processed
        BY <1>1, <2>1, <4>1 DEF DataInv, RegisterConsumed
      <4>3. CASE c2 = st.processed
        BY <1>3, <1>5, <1>9, <3>2, <4>2, <4>3 DEF c2
      <4>4. CASE c2 = c /\ Counted(u)
        BY <1>5, <3>0, <3>2, <4>4 DEF StoreInv, RegistersRising, c, c2
      <4>. QED
        BY <2>4, <4>3, <4>4
    <3>3. CASE w = u
      <4>1. v # u /\ Counted(v)
        BY <1>4, <1>5, <3>3
      <4>2. c <= consumedPos[v][Source]
        BY <3>0, <3>3, <4>1 DEF StoreInv, RegistersRising, c
      <4>3. ~FirstConsumer(Source, k)
        <5>. SUFFICES ASSUME FirstConsumer(Source, k) PROVE FALSE
          OBVIOUS
        <5>1. PICK i \in Consumers(Source) : Past(v, i)
          BY <4>1 DEF Counted
        <5>2. i \in Kernels /\ k <= i /\ i \in Nat /\ k \in Nat
          BY <1>1, <5>1 DEF FirstConsumer, Consumers, Kernels
        <5>3. segNo[v] <= logicalSegNo[i]
          BY <5>1, <5>2, PassedTicket
        <5>4. logicalSegNo[i] <= logicalSegNo[k]
          BY <1>1, <1>4, <5>2 DEF ControlInv, Pipelined
        <5>. QED
          BY <1>1, <1>4, <3>3, <5>2, <5>3, <5>4
      <4>4. c2 <= c
        BY <1>3, <1>8, <1>9, <4>3
      <4>5. consumedPos'[v] = consumedPos[v]
        BY <1>5, <4>1
      <4>. QED
        BY <1>9, <3>3, <4>2, <4>4, <4>5 DEF c2
    <3>. QED
      BY <3>1, <3>2, <3>3
  <2>6. StoredFirst'
    <3>. SUFFICES ASSUME NEW v \in Threads, Pending(v)',
                         \A w \in Threads : LastStored(w)' < segNo[v]
                  PROVE  consumed[Source] <= consumedPos'[v][Source]
      BY <1>4 DEF StoredFirst
    <3>1. \A w \in Threads : LastStored(w) < segNo[v]
      BY <1>6
    <3>2. CASE v # u
      BY <1>5, <3>1, <3>2 DEF StoreInv, StoredFirst
    <3>3. CASE v = u /\ c2 = st.processed
      BY <2>2, <3>3 DEF c2
    <3>4. CASE v = u /\ c2 = c /\ Pending(u)
      BY <3>1, <3>4 DEF StoreInv, StoredFirst, c, c2
    <3>. QED
      BY <2>4, <3>2, <3>3, <3>4
  <2>7. UnsetConsumed'
    BY <1>4 DEF StoreInv, UnsetConsumed, ConsumedBuffers
  <2>8. CountsKept
    <3>1. ASSUME NEW v \in Threads, Pending(v)'
          PROVE  \/ Pending(v) /\ consumedPos'[v][Source] = consumedPos[v][Source]
                 \/ consumed[Source] <= consumedPos'[v][Source]
      <4>1. CASE v # u
        BY <1>5, <3>1, <4>1
      <4>2. CASE v = u
        BY <2>2, <2>4, <4>2 DEF c, c2
      <4>. QED
        BY <4>1, <4>2
    <3>. QED
      BY <1>4, <3>1 DEF CountsKept
  <2>. QED
    BY <2>5, <2>6, <2>7, <2>8 DEF StoreInv
<1>. QED
  BY <1>10, <1>11

\* Storing a count leaves no thread with a smaller one, unless it holds an
\* earlier segment.
LEMMA StoresStored ==
    ASSUME ControlInv, DataInv, StoreInv, NEW u \in Threads, NEW b \in Kernels,
           StoreConsumed(u, b)
    PROVE  StoreInv' /\ CountsKept
<1>1. /\ pc[u] = "setConsumed" /\ b \in unset[u]
      /\ consumed' = [consumed EXCEPT ![b] = consumedPos[u][b]]
      /\ unset' = [unset EXCEPT ![u] = unset[u] \ {b}]
      /\ UNCHANGED <<pc, segNo, at, consumedPos>>
  BY DEF StoreConsumed
<1>2. /\ at[u] = NumKernels /\ segNo \in [Threads -> Nat]
      /\ consumed \in [Kernels -> Nat] /\ unset \in [Threads -> SUBSET Kernels]
  BY <1>1 DEF ControlInv, ControlType, InPlace, DataInv, DataType
<1>3. \A v \in Threads : Counted(v)' <=> Counted(v)
  BY <1>1 DEF Counted, Past
<1>4. \A v \in Threads : unset'[v] = IF v = u THEN unset[u] \ {b} ELSE unset[v]
  BY <1>1, <1>2
<1>5. CASE b # Source
  <2>1. consumed'[Source] = consumed[Source]
    BY <1>1, <1>2, <1>5, SourceIsKernel
  <2>2. \A v \in Threads : (Stored(v) => Stored(v)') /\ unset'[v] \subseteq unset[v]
    BY <1>1, <1>4 DEF Stored
  <2>. QED
    BY <1>1, <1>3, <2>1, <2>2, StoresQuiet
<1>6. CASE b = Source
  <2>1. consumed'[Source] = consumedPos[u][Source]
    BY <1>1, <1>2, <1>6, SourceIsKernel
  <2>2. Counted(u) /\ Pending(u)
    <3>1. Consumers(Source) # {}
      BY <1>1, <1>6 DEF StoreInv, UnsetConsumed, ConsumedBuffers
    <3>2. \A j \in Consumers(Source) : Past(u, j)
      BY <1>2, KernelsAssumption DEF Consumers, Past, Kernels
    <3>. QED
      BY <1>1, <1>6, <3>1, <3>2 DEF Counted, Pending, Stored
  <2>3. Stored(u)'
    BY <1>1, <1>2, <1>4, <1>6 DEF Stored
  <2>4. \A v \in Threads : Pending(v)' => v # u /\ Pending(v)
    BY <1>1, <1>3, <1>4, <2>3 DEF Pending, Stored
  <2>5. RegistersRising'
    BY <1>1, <1>3 DEF StoreInv, RegistersRising
  <2>6. StoredFirst'
    <3>. SUFFICES ASSUME NEW v \in Threads, Pending(v)',
                         \A w \in Threads : LastStored(w)' < segNo[v]
                  PROVE  consumedPos[u][Source] <= consumedPos[v][Source]
      BY <1>1, <2>1 DEF StoredFirst
    <3>1. segNo[u] < segNo[v]
      BY <1>1, <2>3 DEF LastStored
    <3>2. Counted(v)
      BY <2>4 DEF Pending
    <3>. QED
      BY <1>1, <3>1, <3>2 DEF StoreInv, RegistersRising
  <2>7. UnsetConsumed'
    BY <1>4 DEF StoreInv, UnsetConsumed, ConsumedBuffers
  <2>8. CountsKept
    BY <1>1, <2>1, <2>2, <2>4 DEF CountsKept
  <2>. QED
    BY <2>5, <2>6, <2>7, <2>8 DEF StoreInv
<1>. QED
  BY <1>5, <1>6

\* A thread that takes its next segment has stored the counts of the last one.
LEMMA StoresLooped ==
    ASSUME ControlInv, DataInv, StoreInv, NEW u \in Threads, LoopSegment(u)
    PROVE  StoreInv' /\ CountsKept
<1>1. /\ pc[u] = "setConsumed" /\ unset[u] = {}
      /\ segNo' = [segNo EXCEPT ![u] = segNo[u] + ThreadNum]
      /\ at' = [at EXCEPT ![u] = 0]
      /\ pc' = [pc EXCEPT ![u] = "segmentWait"]
      /\ consumedPos' = [consumedPos EXCEPT ![u] = NoPositions]
      /\ UNCHANGED <<consumed, unset>>
  BY DEF LoopSegment, NextHeld, kernelVars
<1>2. /\ segNo \in [Threads -> Nat] /\ at \in [Threads -> 0 .. NumKernels]
      /\ pc \in [Threads -> {"unborn", "segmentWait", "doSegment", "release",
                             "setConsumed", "exitThread"}]
      /\ consumedPos \in [Threads -> [Kernels -> Nat]]
      /\ at[u] = NumKernels /\ ThreadNum \in Nat /\ NumKernels \in Nat \ {0}
  BY <1>1, ThreadsAssumption, KernelsAssumption
     DEF ControlInv, ControlType, InPlace, DataInv, DataType
<1>3. \A v \in Threads \ {u} : /\ segNo'[v] = segNo[v] /\ at'[v] = at[v] /\ pc'[v] = pc[v]
                               /\ consumedPos'[v] = consumedPos[v]
  BY <1>1, <1>2
<1>4. /\ segNo'[u] = segNo[u] + ThreadNum /\ at'[u] = 0 /\ pc'[u] = "segmentWait"
      /\ consumedPos'[u][Source] = 0
  BY <1>1, <1>2, SourceIsKernel DEF NoPositions
<1>5. ~Counted(u)' /\ ~Pending(u)'
  BY <1>4 DEF Counted, Past, Consumers, Kernels, Pending
<1>6. \A v \in Threads \ {u} : /\ Counted(v)' <=> Counted(v)
                               /\ Pending(v)' <=> Pending(v)
  BY <1>1, <1>3 DEF Counted, Past, Pending, Stored
<1>7. \A v \in Threads : LastStored(v)' = LastStored(v)
  <2>1. \A v \in Threads \ {u} : LastStored(v)' = LastStored(v)
    BY <1>1, <1>3 DEF LastStored, Stored
  <2>2. LastStored(u) = segNo[u]
    BY <1>1, <1>2 DEF LastStored, Stored
  <2>3. LastStored(u)' = (segNo[u] + ThreadNum) - ThreadNum
    BY <1>2, <1>4 DEF LastStored, Stored
  <2>. QED
    BY <1>2, <2>1, <2>2, <2>3
<1>8. RegistersRising'
  <2>. SUFFICES ASSUME NEW w \in Threads, NEW v \in Threads,
                       pc'[w] # "exitThread", segNo'[w] < segNo'[v], Counted(v)'
                PROVE  consumedPos'[w][Source] <= consumedPos'[v][Source]
    BY DEF RegistersRising
  <2>1. v # u /\ Counted(v)
    BY <1>5, <1>6
  <2>2. CASE w = u
    BY <1>2, <1>3, <1>4, <2>1, <2>2, SourceIsKernel
  <2>3. CASE w # u
    BY <1>3, <2>1, <2>3 DEF StoreInv, RegistersRising
  <2>. QED
    BY <2>2, <2>3
<1>9. StoredFirst'
  <2>. SUFFICES ASSUME NEW v \in Threads, Pending(v)',
                       \A w \in Threads : LastStored(w)' < segNo'[v]
                PROVE  consumed[Source] <= consumedPos'[v][Source]
    BY <1>1 DEF StoredFirst
  <2>1. v # u /\ Pending(v)
    BY <1>5, <1>6
  <2>. QED
    BY <1>3, <1>7, <2>1 DEF StoreInv, StoredFirst
<1>10. UnsetConsumed'
  BY <1>1 DEF StoreInv, UnsetConsumed, ConsumedBuffers
<1>11. CountsKept
  BY <1>1, <1>3, <1>5, <1>6 DEF CountsKept
<1>. QED
  BY <1>8, <1>9, <1>10, <1>11 DEF StoreInv

\* The remaining steps move threads through their loops.
LEMMA StoresMoved ==
    ASSUME ControlInv, DataInv, StoreInv, [ReadNext]_readVars,
           \A t \in Threads :
               /\ ~DoOtherSegment(t) /\ ~LoopSegment(t)
               /\ \A b \in Kernels : ~StoreConsumed(t, b)
    PROVE  StoreInv' /\ CountsKept
<1>. DEFINE Keeps ==
    \A v \in Threads : /\ Counted(v)' <=> Counted(v)
                       /\ pc'[v] # "exitThread" => pc[v] # "exitThread"
                       /\ Stored(v) => Stored(v)'
                       /\ unset'[v] \subseteq unset[v] \cup ConsumedBuffers
<1>1. /\ pc \in [Threads -> {"unborn", "segmentWait", "doSegment", "release",
                             "setConsumed", "exitThread"}]
      /\ at \in [Threads -> 0 .. NumKernels] /\ NumKernels \in Nat \ {0}
      /\ unset \in [Threads -> SUBSET Kernels]
  BY KernelsAssumption DEF ControlInv, ControlType, DataInv, DataType
<1>2. ASSUME UNCHANGED <<at, unset>>,
             \A v \in Threads : /\ pc[v] = "release" <=> pc'[v] = "release"
                                /\ pc'[v] # "exitThread" => pc[v] # "exitThread"
      PROVE  Keeps
  BY <1>2 DEF Counted, Past, Stored
<1>3. ASSUME NEW t \in Threads, ReadSegment(t)
      PROVE  Keeps /\ UNCHANGED <<segNo, consumed, consumedPos>>
  <2>1. /\ pc[t] = "doSegment" /\ at[t] = Source /\ pc' = [pc EXCEPT ![t] = "release"]
        /\ UNCHANGED <<segNo, consumed, consumedPos, at, unset>>
    BY <1>3 DEF ReadSegment
  <2>2. \A j \in Consumers(Source) : j # Source
    BY SourceIsKernel DEF Consumers
  <2>. QED
    BY <1>1, <2>1, <2>2 DEF Counted, Past, Stored
<1>4. ASSUME NEW t \in Threads, Enter(t) \/ ExitPipeline(t) \/ ExitThread(t)
      PROVE  Keeps /\ UNCHANGED <<segNo, consumed, consumedPos>>
  <2>1. /\ pc[t] \notin {"release", "exitThread"}
        /\ \E c \in {"doSegment", "exitThread"} : pc' = [pc EXCEPT ![t] = c]
        /\ UNCHANGED <<segNo, consumed, consumedPos, at, unset>>
    BY <1>4 DEF Enter, ExitPipeline, ExitThread, kernelVars, registers
  <2>. QED
    BY <1>1, <1>2, <2>1
<1>5. ASSUME NEW t \in Threads, Release(t)
      PROVE  Keeps /\ UNCHANGED <<segNo, consumed, consumedPos>>
  <2>1. /\ pc[t] = "release" /\ at[t] < NumKernels
        /\ at' = [at EXCEPT ![t] = at[t] + 1]
        /\ pc' = [pc EXCEPT ![t] = IF at[t] = NumKernels - 1 THEN "setConsumed"
                                   ELSE "segmentWait"]
        /\ unset' \in {unset, [unset EXCEPT ![t] = ConsumedBuffers]}
        /\ UNCHANGED <<segNo, consumed, consumedPos>>
    BY <1>5 DEF Release, ControlInv, InPlace
  <2>2. \A v \in Threads : Counted(v)' <=> Counted(v)
    BY <1>1, <2>1 DEF Counted, Past, Consumers, Kernels
  <2>3. \A v \in Threads : Stored(v) => Stored(v)'
    BY <1>1, <2>1 DEF Stored
  <2>. QED
    BY <1>1, <2>1, <2>2, <2>3
<1>6. ASSUME DriveRead \/ ReadReturned \/ UNCHANGED readVars
      PROVE  Keeps /\ UNCHANGED <<segNo, consumed, consumedPos>>
  <2>1. UNCHANGED <<segNo, consumed, consumedPos, at, unset>>
    BY <1>6 DEF DriveRead, DriverStep, ReadReturned, Spawn, CallThread0, JoinThreads,
                FinalizeInstances, Returned, readVars, allVars, vars, kernelVars, registers
  <2>2. \/ pc' = pc
        \/ \E t \in Threads : pc[t] = "unborn" /\ pc' = [pc EXCEPT ![t] = "segmentWait"]
    <3>1. CASE \E t \in Threads : Spawn(t)
      BY <3>1 DEF Spawn
    <3>2. CASE CallThread0
      <4>1. pc[0] = "unborn" /\ 0 \in Threads
        BY <3>2, ThreadsAssumption DEF CallThread0, ControlInv, Unstarted, Threads
      <4>. QED
        BY <3>2, <4>1 DEF CallThread0
    <3>3. CASE JoinThreads \/ FinalizeInstances \/ ReadReturned \/ UNCHANGED readVars
      BY <3>3 DEF JoinThreads, FinalizeInstances, ReadReturned, Returned, readVars,
                  allVars, vars
    <3>. QED
      BY <1>6, <3>1, <3>2, <3>3 DEF DriveRead, DriverStep
  <2>. QED
    BY <1>1, <1>2, <2>1, <2>2
<1>7. Keeps /\ UNCHANGED <<segNo, consumed, consumedPos>>
  <2>. HIDE DEF Keeps
  <2>. QED
    BY <1>3, <1>4, <1>5, <1>6 DEF ReadNext, ReadStep, CoordinateRead, Coordinate
<1>. QED
  BY <1>7, StoresQuiet

\* Every step keeps the order of the counts.
LEMMA StoresNext ==
    ControlInv /\ DataInv /\ StoreInv /\ [ReadNext]_readVars => StoreInv' /\ CountsKept
<1>. SUFFICES ASSUME ControlInv, DataInv, StoreInv, [ReadNext]_readVars
              PROVE  StoreInv' /\ CountsKept
  OBVIOUS
<1>1. CASE \E t \in Threads : DoOtherSegment(t)
  BY <1>1, StoresCalled
<1>2. CASE \E t \in Threads : LoopSegment(t)
  BY <1>2, StoresLooped
<1>3. CASE \E t \in Threads : \E b \in Kernels : StoreConsumed(t, b)
  BY <1>3, StoresStored
<1>. QED
  BY <1>1, <1>2, <1>3, StoresMoved

\* With two threads, when the consumers have finished the earlier segments, a
\* count that is yet to be stored is no less than the one that is: the thread
\* that keeps it holds the segment before the caller's, and nobody has stored
\* that of a later one.
LEMMA FinishedStores ==
    ASSUME ThreadNum = 2, ControlInv, StoreInv, NEW t \in Threads,
           pc[t] = "doSegment", at[t] = Source, ConsumersFinished,
           NEW v \in Threads, Pending(v)
    PROVE  consumed[Source] <= consumedPos[v][Source]
<1>1. /\ segNo \in [Threads -> Nat] /\ logicalSegNo[Source] = segNo[t]
      /\ NumKernels \in Nat \ {0} /\ at \in [Threads -> 0 .. NumKernels]
  BY KernelsAssumption DEF ControlInv, ControlType, InPlace, Inside
<1>2. PICK j \in Consumers(Source) : Past(v, j)
  BY DEF Pending, Counted
<1>3. j \in Kernels /\ j \in Nat /\ j # Source /\ j > 0
  BY SourceIsKernel DEF Consumers, Kernels, Source
<1>4. v # t
  BY <1>2, <1>3 DEF Past, Source
<1>5. segNo[v] <= segNo[t]
  BY <1>1, <1>2, <1>3, PassedTicket DEF ConsumersFinished
<1>6. segNo[t] <= segNo[v] + 2
  <2>1. Source < at[v]
    BY <1>1, <1>2, <1>3 DEF Past, Source
  <2>2. logicalSegNo[Source] <= Due(v, Source)
    BY SourceIsKernel DEF ControlInv, NotAhead, Pending
  <2>. QED
    BY <1>1, <2>1, <2>2 DEF Due, NextHeld
<1>7. segNo[v] # segNo[t] /\ segNo[v] + 2 # segNo[t]
  BY <1>4, SegmentsDisjoint DEF ControlInv, NextHeld
<1>8. LastStored(t) < segNo[v]
  BY <1>1, <1>5, <1>6, <1>7 DEF LastStored, Stored, Source
<1>9. LastStored(v) < segNo[v]
  BY <1>1 DEF Pending, LastStored
<1>10. \A u \in Threads : LastStored(u) < segNo[v]
  <2>1. \A u \in Threads : u = t \/ u = v
    BY <1>4 DEF Threads
  <2>. QED
    BY <1>8, <1>9, <2>1
<1>. QED
  BY <1>10 DEF StoreInv, StoredFirst

-----------------------------------------------------------------------------
(* The buffer *)

\* The first buffer has room for two pages, and for a page and a segment.
RoomForReads ==
    /\ 2 * ReadSize <= InitialCapacity
    /\ ReadSize + SegmentSize <= InitialCapacity

\* The buffer begins at an aligned position that no thread takes the consumed
\* count back below.
OriginInv ==
    /\ buffer.origin \in Nat
    /\ buffer.capacity \in Nat /\ InitialCapacity <= buffer.capacity
    /\ \E q \in Nat : buffer.origin = q * Alignment
    /\ buffer.origin <= consumed[Source]
    /\ \A v \in Threads : Pending(v) => buffer.origin <= consumedPos[v][Source]

\* What a memory of capacity items may hold, and where the items from org up to
\* size are in it.
Holds(memory, org, size, capacity) ==
    /\ DOMAIN memory \subseteq 0 .. capacity - 1
    /\ \A o \in DOMAIN memory : memory[o] \in 0 .. FileSize - 1 \cup {Zeroed}
    /\ \A o \in 0 .. size - org - 1 : o \in DOMAIN memory /\ memory[o] = org + o

BufferInv ==
    /\ UnreadWhole
    /\ OriginInv
    /\ Holds(buffer.memory, buffer.origin, buffer.bufferedSize, buffer.capacity)

\* Consumed items are dropped in whole multiples of the alignment, so never more
\* than were consumed, nor fewer than an aligned position they are beyond.
LEMMA AlignedBelow ==
    ASSUME NEW c \in Nat, NEW a \in Nat \ {0}, NEW q \in Nat, q * a <= c
    PROVE  /\ (c \div a) \in Nat /\ (c \div a) * a \in Nat
           /\ (c \div a) * a <= c /\ q * a <= (c \div a) * a
<1>. DEFINE d == c \div a
<1>1. d \in Nat /\ c = a * d + (c % a) /\ c % a \in 0 .. a - 1
  OBVIOUS
<1>2. d * a \in Nat /\ d * a <= c
  BY WholeMultiples
<1>. HIDE DEF d
<1>3. c < (d + 1) * a
  BY <1>1
<1>4. q <= d
  <2>. SUFFICES ASSUME d + 1 <= q PROVE FALSE
    BY <1>1
  <2>1. PICK r \in Nat : q = d + 1 + r
    BY <1>1
  <2>2. q * a = (d + 1) * a + r * a /\ r * a \in Nat /\ (d + 1) * a \in Nat
    BY <1>1, <2>1
  <2>. QED
    BY <1>3, <2>2
<1>5. PICK r \in Nat : d = q + r
  BY <1>1, <1>4
<1>6. d * a = q * a + r * a /\ r * a \in Nat /\ q * a \in Nat
  BY <1>1, <1>5
<1>. QED
  BY <1>1, <1>2, <1>6 DEF d

\* after is the memory with n items written from an offset on.
IsWritten(after, memory, offset, n, items) ==
    LET new == offset .. offset + n - 1
    IN  /\ DOMAIN after = DOMAIN memory \cup new
        /\ \A o \in new : after[o] = items[o - offset]
        /\ \A o \in DOMAIN memory \ new : after[o] = memory[o]

\* Where the items written are, and what is left elsewhere.
LEMMA WrittenItems ==
    ASSUME NEW memory, NEW offset \in Nat, NEW n \in Nat, NEW items,
           DOMAIN items = 0 .. n - 1
    PROVE  IsWritten(Written(memory, offset, items), memory, offset, n, items)
<1>. DEFINE here == {offset + i : i \in DOMAIN items}
            W == [o \in DOMAIN memory \cup here |->
                     IF o \in here THEN items[o - offset] ELSE memory[o]]
<1>1. here = offset .. offset + n - 1
  <2>1. ASSUME NEW o \in offset .. offset + n - 1 PROVE o \in here
    <3>1. o - offset \in 0 .. n - 1 /\ o = offset + (o - offset)
      OBVIOUS
    <3>. QED
      BY <3>1
  <2>2. here \subseteq offset .. offset + n - 1
    OBVIOUS
  <2>. QED
    BY <2>1, <2>2
<1>2. Written(memory, offset, items) = W
  BY DEF Written
<1>. HIDE DEF here
<1>. QED
  BY <1>1, <1>2 DEF IsWritten

\* Writing at the end of the items held leaves them, and adds those that are the
\* next ones.
LEMMA HoldsWritten ==
    ASSUME NEW memory, NEW org \in Nat, NEW size \in Nat, NEW capacity \in Nat,
           Holds(memory, org, size, capacity),
           NEW W, NEW offset \in Nat, NEW n \in Nat, NEW items,
           IsWritten(W, memory, offset, n, items),
           \A i \in 0 .. n - 1 : items[i] \in 0 .. FileSize - 1 \cup {Zeroed},
           offset + n <= capacity,
           n = 0 \/ size - org <= offset
    PROVE  /\ Holds(W, org, size, capacity)
           /\ (offset = size - org /\ \A i \in 0 .. n - 1 : items[i] = size + i) =>
                 Holds(W, org, size + n, capacity)
<1>. DEFINE new == offset .. offset + n - 1
<1>1. /\ DOMAIN W = DOMAIN memory \cup new
      /\ \A o \in new : W[o] = items[o - offset]
      /\ \A o \in DOMAIN memory \ new : W[o] = memory[o]
  BY DEF IsWritten
<1>2. \A o \in new : o - offset \in 0 .. n - 1 /\ o \in 0 .. capacity - 1
  OBVIOUS
<1>3. DOMAIN W \subseteq 0 .. capacity - 1
  BY <1>1, <1>2 DEF Holds
<1>4. \A o \in DOMAIN W : W[o] \in 0 .. FileSize - 1 \cup {Zeroed}
  BY <1>1, <1>2 DEF Holds
<1>5. \A o \in 0 .. size - org - 1 : o \in DOMAIN W /\ W[o] = org + o
  <2>1. \A o \in 0 .. size - org - 1 : o \notin new
    OBVIOUS
  <2>. QED
    BY <1>1, <2>1 DEF Holds
<1>6. ASSUME offset = size - org, \A i \in 0 .. n - 1 : items[i] = size + i
      PROVE  \A o \in 0 .. size + n - org - 1 : o \in DOMAIN W /\ W[o] = org + o
  <2>1. \A o \in new : W[o] = org + o
    <3>. SUFFICES ASSUME NEW o \in new PROVE W[o] = org + o
      OBVIOUS
    <3>1. W[o] = items[o - offset] /\ items[o - offset] = size + (o - offset)
      BY <1>1, <1>2, <1>6
    <3>. QED
      BY <1>6, <3>1
  <2>2. \A o \in 0 .. size + n - org - 1 : o \in 0 .. size - org - 1 \/ o \in new
    BY <1>6
  <2>. QED
    BY <1>1, <1>5, <2>1, <2>2
<1>. QED
  BY <1>3, <1>4, <1>5, <1>6 DEF Holds

\* What is copied back, and how much of it there is.
LEMMA DroppedConsumed ==
    ASSUME DataInv, ReadCountsInv, OriginInv
    PROVE  /\ Dropped \in Nat /\ Remaining \in Nat
           /\ \E q \in Nat : Dropped = q * Alignment
           /\ buffer.origin <= Dropped /\ Dropped <= consumed[Source]
           /\ Remaining = buffer.bufferedSize - Dropped
<1>1. /\ consumed[Source] \in Nat /\ Produced \in Nat /\ Alignment \in Nat \ {0}
      /\ consumed[Source] <= Produced
      /\ buffer.bufferedSize \in Nat /\ Produced <= buffer.bufferedSize
  BY SourceIsKernel, ReadSourceAssumption
     DEF DataInv, DataType, KernelState, Produced, ReadCountsInv, ConsumedOffered, InputRead
<1>2. PICK q \in Nat : buffer.origin = q * Alignment
  BY DEF OriginInv
<1>3. buffer.origin <= consumed[Source]
  BY DEF OriginInv
<1>4. /\ (consumed[Source] \div Alignment) \in Nat /\ Dropped \in Nat
      /\ Dropped <= consumed[Source] /\ buffer.origin <= Dropped
  BY <1>1, <1>2, <1>3, AlignedBelow DEF Dropped
<1>5. \E p \in Nat : Dropped = p * Alignment
  BY <1>4 DEF Dropped
<1>6. Remaining \in Nat /\ Remaining = buffer.bufferedSize - Dropped
  BY <1>1, <1>4 DEF Remaining
<1>. QED
  BY <1>4, <1>5, <1>6

\* Copied back, the items are where the new origin says, within the capacity.
LEMMA CopiedHolds ==
    ASSUME DataInv, ReadCountsInv, BufferInv, NEW capacity \in Nat,
           buffer.capacity <= capacity
    PROVE  Holds(MemoryCopied, Dropped, buffer.bufferedSize, capacity)
<1>. DEFINE m    == buffer.memory
            org  == buffer.origin
            size == buffer.bufferedSize
            from == Dropped - org
            target == IF ConsumedMajority THEN m ELSE <<>>
            items == [i \in 0 .. Remaining - 1 |-> m[from + i]]
            W == Written(target, 0, items)
<1>1. /\ Dropped \in Nat /\ Remaining \in Nat /\ from \in Nat /\ size \in Nat
      /\ org \in Nat /\ Remaining = size - Dropped /\ buffer.capacity \in Nat
  BY DroppedConsumed DEF BufferInv, OriginInv, ReadCountsInv, InputRead
<1>2. Holds(m, org, size, buffer.capacity)
  BY DEF BufferInv
<1>3. \A i \in 0 .. Remaining - 1 :
         /\ from + i \in DOMAIN m
         /\ items[i] = Dropped + i
         /\ items[i] \in 0 .. FileSize - 1 \cup {Zeroed}
         /\ i \in 0 .. buffer.capacity - 1
  <2>. SUFFICES ASSUME NEW i \in 0 .. Remaining - 1
                PROVE  /\ from + i \in DOMAIN m
                       /\ m[from + i] = Dropped + i
                       /\ m[from + i] \in 0 .. FileSize - 1 \cup {Zeroed}
                       /\ i \in 0 .. buffer.capacity - 1
    OBVIOUS
  <2>1. from + i \in 0 .. size - org - 1
    BY <1>1
  <2>2. from + i \in DOMAIN m /\ m[from + i] = org + (from + i)
    BY <1>2, <2>1 DEF Holds
  <2>3. from + i \in 0 .. buffer.capacity - 1
    BY <1>2, <2>2 DEF Holds
  <2>. QED
    BY <1>1, <1>2, <2>2, <2>3 DEF Holds
<1>4. DOMAIN items = 0 .. Remaining - 1
  OBVIOUS
<1>5. MemoryCopied = W
  BY DEF MemoryCopied
<1>6. \A o \in DOMAIN target : /\ o \in 0 .. buffer.capacity - 1
                               /\ target[o] \in 0 .. FileSize - 1 \cup {Zeroed}
  BY <1>2 DEF Holds
<1>. HIDE DEF m, org, from, size, target, items
<1>7. IsWritten(W, target, 0, Remaining, items)
  BY <1>1, <1>4, WrittenItems
<1>. HIDE DEF W
<1>8. /\ DOMAIN W = DOMAIN target \cup 0 .. Remaining - 1
      /\ \A o \in 0 .. Remaining - 1 : W[o] = items[o]
      /\ \A o \in DOMAIN target \ (0 .. Remaining - 1) : W[o] = target[o]
  <2>1. 0 .. 0 + Remaining - 1 = 0 .. Remaining - 1 /\ \A o \in 0 .. Remaining - 1 : o - 0 = o
    BY <1>1
  <2>. QED
    BY <1>7, <2>1 DEF IsWritten
<1>9. \A o \in DOMAIN W : /\ o \in 0 .. capacity - 1
                          /\ W[o] \in 0 .. FileSize - 1 \cup {Zeroed}
  <2>1. \A o \in 0 .. buffer.capacity - 1 : o \in 0 .. capacity - 1
    BY <1>1
  <2>. QED
    BY <1>3, <1>6, <1>8, <2>1
<1>10. \A o \in 0 .. size - Dropped - 1 : o \in DOMAIN W /\ W[o] = Dropped + o
  BY <1>1, <1>3, <1>8
<1>. QED
  BY <1>5, <1>9, <1>10 DEF Holds, size

\* The room that copying back makes, or that appending asks for, is enough for a
\* page.
LEMMA RoomForPage ==
    ASSUME RoomForReads, DataInv, ReadCountsInv, BufferInv
    PROVE  /\ Target.origin \in Nat /\ Target.capacity \in Nat
           /\ buffer.capacity <= Target.capacity
           /\ ReadOffset \in Nat /\ ReadOffset + ReadSize <= Target.capacity
           /\ ReadOffset <= buffer.bufferedSize
           /\ ReadOffset + Unread >= buffer.bufferedSize - Target.origin
           /\ Unread = 0 => ReadOffset = buffer.bufferedSize - Target.origin
           /\ Holds(Target.memory, Target.origin, buffer.bufferedSize, Target.capacity)
<1>1. /\ buffer.origin \in Nat /\ buffer.capacity \in Nat
      /\ InitialCapacity <= buffer.capacity /\ buffer.bufferedSize \in Nat
      /\ Produced \in Nat /\ Produced <= buffer.bufferedSize
      /\ consumed[Source] \in Nat /\ consumed[Source] <= Produced
      /\ buffer.origin <= consumed[Source]
      /\ ReadSize \in Nat /\ InitialCapacity \in Nat /\ 2 * ReadSize <= InitialCapacity
  BY SourceIsKernel, ReadSourceAssumption
     DEF RoomForReads, BufferInv, OriginInv, ReadCountsInv, InputRead, ConsumedOffered,
         DataInv, DataType, KernelState, Produced
<1>2. Unread \in Nat /\ Unread = buffer.bufferedSize - Produced
  BY <1>1 DEF Unread
<1>3. CASE CanAppend
  <2>1. Target = buffer /\ ReadOffset = Produced - buffer.origin
    BY <1>3 DEF Target, ReadOffset
  <2>2. Produced - buffer.origin + ReadSize < buffer.capacity
    BY <1>3 DEF CanAppend
  <2>. QED
    BY <1>1, <1>2, <2>1, <2>2 DEF BufferInv
<1>4. CASE ~CanAppend
  <2>1. /\ Target.origin = Dropped /\ Target.memory = MemoryCopied
        /\ Target.capacity = IF ConsumedMajority THEN buffer.capacity
                             ELSE 2 * buffer.capacity
        /\ ReadOffset = Remaining
    BY <1>4, ReadPlaces DEF ReadOffset, ReadCountsInv
  <2>2. /\ Dropped \in Nat /\ Remaining \in Nat /\ buffer.origin <= Dropped
        /\ Remaining = buffer.bufferedSize - Dropped
    BY DroppedConsumed DEF BufferInv
  <2>3. buffer.bufferedSize - buffer.origin <= buffer.capacity
    <3>. SUFFICES ASSUME buffer.bufferedSize - buffer.origin > 0 PROVE
                         buffer.bufferedSize - buffer.origin <= buffer.capacity
      BY <1>1
    <3>1. buffer.bufferedSize - buffer.origin - 1 \in DOMAIN buffer.memory
      BY <1>1 DEF BufferInv, Holds
    <3>2. buffer.bufferedSize - buffer.origin - 1 \in 0 .. buffer.capacity - 1
      BY <3>1 DEF BufferInv, Holds
    <3>. QED
      BY <1>1, <3>2
  <2>4. ConsumedMajority => Remaining < Dropped - buffer.origin
    BY DEF ConsumedMajority
  <2>5. Remaining + ReadSize <= Target.capacity
    BY <1>1, <2>1, <2>2, <2>3, <2>4
  <2>6. Target.capacity \in Nat /\ buffer.capacity <= Target.capacity
    BY <1>1, <2>1
  <2>7. Holds(Target.memory, Target.origin, buffer.bufferedSize, Target.capacity)
    BY <2>1, <2>6, CopiedHolds
  <2>. QED
    BY <1>1, <1>2, <2>1, <2>2, <2>5, <2>6, <2>7
<1>. QED
  BY <1>3, <1>4

\* A read leaves the items where the origin says, its own among them, and writes
\* no further than the capacity, zeros included.
LEMMA ReadHolds ==
    ASSUME FullReads, RoomForReads, DataInv, ReadCountsInv, BufferInv, MustRead,
           NEW n \in ReadCounts
    PROVE  Holds(MemoryAfter(n), Target.origin, buffer.bufferedSize + n, Target.capacity)
<1>. DEFINE org  == Target.origin
            cap  == Target.capacity
            size == buffer.bufferedSize
            read == [i \in 0 .. n - 1 |-> input + i]
            unread == Unread + n
            missing == SegmentSize - unread
            zeros == [i \in 0 .. missing - 1 |-> Zeroed]
<1>1. /\ org \in Nat /\ cap \in Nat
      /\ ReadOffset \in Nat /\ ReadOffset + ReadSize <= cap
      /\ ReadOffset <= size /\ buffer.capacity <= cap
      /\ ReadOffset + Unread >= size - org
      /\ Unread = 0 => ReadOffset = size - org
      /\ Holds(Target.memory, org, size, cap)
  BY RoomForPage
<1>2. /\ n \in Nat /\ n <= ReadSize /\ input + n <= FileSize
      /\ n = ReadSize \/ input + n = FileSize
  BY ReadReturns DEF ReadCountsInv, FullReads
<1>3. /\ input \in Nat /\ input <= FileSize /\ FileSize \in Nat /\ size = input
      /\ Produced \in Nat /\ Produced <= input
      /\ ReadSize \in Nat \ {0} /\ SegmentSize \in Nat \ {0}
  BY SourceIsKernel, ItemsAssumption, ReadSourceAssumption
     DEF ReadCountsInv, InputRead, DataInv, DataType, KernelState, Produced
<1>4. Unread \in Nat /\ Unread < SegmentSize
  BY <1>3 DEF Unread, MustRead
<1>5. ReadOffset + SegmentSize <= cap
  <2>1. CASE FileSize <= ReadSize
    <3>1. /\ InitialCapacity \in Nat /\ buffer.capacity \in Nat
          /\ InitialCapacity <= buffer.capacity
          /\ ReadSize + SegmentSize <= InitialCapacity
      BY ReadSourceAssumption DEF RoomForReads, BufferInv, OriginInv
    <3>. QED
      BY <1>1, <1>3, <2>1, <3>1
  <2>2. CASE \E q \in Nat : ReadSize = q * SegmentSize
    <3>1. PICK q \in Nat : ReadSize = q * SegmentSize
      BY <2>2
    <3>2. q # 0
      BY <1>3, <3>1
    <3>3. PICK r \in Nat : q = r + 1
      BY <3>2
    <3>4. q * SegmentSize = r * SegmentSize + SegmentSize /\ r * SegmentSize \in Nat
      BY <1>3, <3>3
    <3>. QED
      BY <1>1, <1>3, <3>1, <3>4
  <2>. QED
    BY <2>1, <2>2 DEF FullReads
<1>6. n = 0 \/ Unread = 0
  <2>. SUFFICES ASSUME input # FileSize PROVE Unread = 0
    BY <1>2, <1>3
  <2>1. PICK q \in Nat : Unread = q * SegmentSize
    BY DEF BufferInv, UnreadWhole
  <2>2. ASSUME q # 0 PROVE FALSE
    <3>1. PICK r \in Nat : q = r + 1
      BY <2>2
    <3>2. q * SegmentSize = r * SegmentSize + SegmentSize /\ r * SegmentSize \in Nat
      BY <1>3, <3>1
    <3>. QED
      BY <1>3, <1>4, <2>1, <3>2
  <2>. QED
    BY <1>3, <2>1, <2>2
<1>7. /\ DOMAIN read = 0 .. n - 1
      /\ \A i \in 0 .. n - 1 : /\ read[i] = size + i
                               /\ read[i] \in 0 .. FileSize - 1 \cup {Zeroed}
  BY <1>2, <1>3
<1>8. IsWritten(MemoryRead(n), Target.memory, ReadOffset, n, read)
  <2>1. MemoryRead(n) = Written(Target.memory, ReadOffset, read)
    BY DEF MemoryRead
  <2>. HIDE DEF read
  <2>. QED
    BY <1>1, <1>2, <1>7, <2>1, WrittenItems
<1>9. /\ DOMAIN zeros = 0 .. missing - 1
      /\ \A i \in 0 .. missing - 1 : zeros[i] \in 0 .. FileSize - 1 \cup {Zeroed}
  OBVIOUS
<1>10. MemoryAfter(n) = IF unread < SegmentSize
                        THEN Written(MemoryRead(n), ReadOffset + unread, zeros)
                        ELSE MemoryRead(n)
  BY DEF MemoryAfter
<1>. HIDE DEF org, cap, size, read, zeros
<1>11. Holds(MemoryRead(n), org, size + n, cap)
  <2>1. n = 0 \/ size - org <= ReadOffset
    BY <1>1, <1>6
  <2>2. ReadOffset + n <= cap
    BY <1>1, <1>2, <1>3
  <2>3. Holds(MemoryRead(n), org, size, cap)
    BY <1>1, <1>2, <1>3, <1>7, <1>8, <2>1, <2>2, HoldsWritten
  <2>4. CASE n = 0
    BY <1>3, <2>3, <2>4
  <2>5. CASE Unread = 0
    <3>1. ReadOffset = size - org
      BY <1>1, <1>3, <2>5
    <3>. QED
      BY <1>1, <1>2, <1>3, <1>7, <1>8, <2>1, <2>2, <3>1, HoldsWritten
  <2>. QED
    BY <1>6, <2>4, <2>5
<1>12. CASE unread < SegmentSize
  <2>. DEFINE where == ReadOffset + unread
              end   == size + n
              after == Written(MemoryRead(n), where, zeros)
  <2>1. missing \in Nat /\ where \in Nat /\ end \in Nat
    BY <1>1, <1>2, <1>3, <1>4, <1>12
  <2>2. where + missing <= cap
    BY <1>1, <1>2, <1>3, <1>4, <1>5
  <2>3. end - org <= where
    BY <1>1, <1>2, <1>3, <1>4
  <2>4. MemoryAfter(n) = after
    BY <1>10, <1>12
  <2>. HIDE DEF unread, missing, where, end
  <2>5. IsWritten(after, MemoryRead(n), where, missing, zeros)
    BY <1>9, <2>1, WrittenItems
  <2>. HIDE DEF after
  <2>6. Holds(MemoryRead(n), org, end, cap)
    BY <1>11 DEF end
  <2>7. Holds(after, org, end, cap)
    BY <1>1, <1>9, <2>1, <2>2, <2>3, <2>5, <2>6, HoldsWritten
  <2>. QED
    BY <2>4, <2>7 DEF org, cap, size, end
<1>. QED
  BY <1>10, <1>11, <1>12 DEF org, cap, size

\* No step takes a count back below where the buffer begins, unless it moves the
\* buffer.
LEMMA OriginStays ==
    ASSUME DataInv, DataInv', CountsKept, OriginInv,
           buffer'.origin = buffer.origin, buffer'.capacity = buffer.capacity
    PROVE  OriginInv'
<1>1. /\ buffer.origin \in Nat /\ buffer.origin <= consumed[Source]
      /\ consumed[Source] \in Nat /\ consumed'[Source] \in Nat
      /\ \A v \in Threads : consumedPos[v][Source] \in Nat /\ consumedPos'[v][Source] \in Nat
  BY SourceIsKernel DEF OriginInv, DataInv, DataType
<1>2. buffer.origin <= consumed'[Source]
  BY <1>1 DEF CountsKept, OriginInv
<1>3. \A v \in Threads : Pending(v)' => buffer.origin <= consumedPos'[v][Source]
  BY <1>1 DEF CountsKept, OriginInv
<1>. QED
  BY <1>2, <1>3 DEF OriginInv

\* A call of the source keeps the buffer in order.
LEMMA BufferRead ==
    ASSUME FullReads, RoomForReads, ThreadNum = 2, ControlInv, DataInv, DataInv',
           ReadCountsInv, StoreInv, CountsKept, BufferInv, NEW t \in Threads,
           ReadSegment(t)
    PROVE  BufferInv'
<1>1. UnreadWhole'
  BY UnreadLeft DEF BufferInv
<1>2. CASE ~MustRead
  <2>1. buffer' = buffer /\ consumed' = consumed
    BY <1>2 DEF ReadSegment, sourceVars
  <2>. QED
    BY <1>1, <2>1, OriginStays DEF BufferInv
<1>3. CASE MustRead
  <2>1. PICK n \in ReadCounts : buffer' = AfterRead(n)
    BY <1>3 DEF ReadSegment
  <2>2. /\ buffer'.origin = Target.origin /\ buffer'.capacity = Target.capacity
        /\ buffer'.bufferedSize = buffer.bufferedSize + n
        /\ buffer'.memory = MemoryAfter(n)
    BY <2>1, ReadPlaces DEF ReadCountsInv
  <2>3. /\ Target.origin \in Nat /\ Target.capacity \in Nat
        /\ buffer.capacity <= Target.capacity
    BY RoomForPage
  <2>4. Holds(buffer'.memory, buffer'.origin, buffer'.bufferedSize, buffer'.capacity)
    BY <1>3, <2>2, ReadHolds
  <2>5. consumed' = consumed /\ consumedPos \in [Threads -> [Kernels -> Nat]]
    BY <1>3 DEF ReadSegment, DataInv, DataType
  <2>6. CASE CanAppend
    BY <1>1, <2>2, <2>4, <2>6, OriginStays DEF Target, BufferInv
  <2>7. CASE ~CanAppend
    <3>1. Target.origin = Dropped
      BY <2>7, ReadPlaces DEF ReadCountsInv
    <3>2. /\ Dropped \in Nat /\ Dropped <= consumed[Source]
          /\ \E q \in Nat : Dropped = q * Alignment
      BY DroppedConsumed DEF BufferInv
    <3>3. pc[t] = "doSegment" /\ at[t] = Source /\ ConsumersFinished
      BY <1>3, <2>7 DEF ReadSegment
    <3>4. \A v \in Threads : Pending(v) => consumed[Source] <= consumedPos[v][Source]
      BY <3>3, FinishedStores
    <3>5. \A v \in Threads : Pending(v)' => consumed[Source] <= consumedPos'[v][Source]
      BY <3>4 DEF CountsKept
    <3>6. /\ consumed[Source] \in Nat
          /\ \A v \in Threads : consumedPos'[v][Source] \in Nat
      BY SourceIsKernel DEF DataInv, DataType
    <3>7. \A v \in Threads : Pending(v)' => Dropped <= consumedPos'[v][Source]
      BY <3>2, <3>5, <3>6
    <3>8. buffer.capacity \in Nat /\ InitialCapacity \in Nat
          /\ InitialCapacity <= buffer.capacity
      BY ReadSourceAssumption DEF BufferInv, OriginInv
    <3>9. OriginInv'
      BY <2>2, <2>3, <2>5, <3>1, <3>2, <3>7, <3>8 DEF OriginInv
    <3>. QED
      BY <1>1, <2>4, <3>9 DEF BufferInv
  <2>. QED
    BY <2>6, <2>7
<1>. QED
  BY <1>2, <1>3

\* Nothing is in the buffer, nor counted, when the pipeline is created.
LEMMA BufferInit == ReadInit => StoreInv /\ BufferInv
<1>. SUFFICES ASSUME ReadInit PROVE StoreInv /\ BufferInv
  OBVIOUS
<1>1. /\ input = 0 /\ buffer.origin = 0 /\ buffer.capacity = InitialCapacity
      /\ buffer.bufferedSize = 0 /\ buffer.memory = <<>>
      /\ consumed[Source] = 0 /\ Produced = 0
      /\ \A v \in Threads : /\ consumedPos[v][Source] = 0 /\ at[v] = 0
                            /\ unset[v] = {} /\ pc[v] = "unborn"
  BY SourceIsKernel DEF ReadInit, HistoryInit, Init, NoPositions, Produced, InitKernelState
<1>2. InitialCapacity \in Nat /\ Alignment \in Nat /\ SegmentSize \in Nat
  BY ReadSourceAssumption, ItemsAssumption
<1>3. \A v \in Threads : ~Counted(v) /\ ~Pending(v)
  BY <1>1 DEF Counted, Past, Consumers, Kernels, Pending
<1>4. StoreInv
  BY <1>1, <1>3 DEF StoreInv, RegistersRising, StoredFirst, UnsetConsumed
<1>5. UnreadWhole
  <2>1. Unread = 0 * SegmentSize
    BY <1>1, <1>2 DEF Unread
  <2>. QED
    BY <2>1 DEF UnreadWhole
<1>6. OriginInv
  <2>1. buffer.origin = 0 * Alignment
    BY <1>1, <1>2
  <2>. QED
    BY <1>1, <1>2, <1>3, <2>1 DEF OriginInv
<1>7. Holds(buffer.memory, buffer.origin, buffer.bufferedSize, buffer.capacity)
  BY <1>1 DEF Holds
<1>. QED
  BY <1>4, <1>5, <1>6, <1>7 DEF BufferInv

\* Every step keeps it in order.
LEMMA BufferNext ==
    ASSUME FullReads, RoomForReads, ThreadNum = 2
    PROVE  ControlInv /\ DataInv /\ ReadCountsInv /\ StoreInv /\ BufferInv
                /\ [ReadNext]_readVars => BufferInv'
<1>. SUFFICES ASSUME ControlInv, DataInv, ReadCountsInv, StoreInv, BufferInv,
                     [ReadNext]_readVars
              PROVE  BufferInv'
  OBVIOUS
<1>1. DataInv'
  BY ReadDataNext
<1>2. CountsKept
  BY StoresNext
<1>3. CASE \E t \in Threads : ReadSegment(t)
  BY <1>1, <1>2, <1>3, BufferRead
<1>4. CASE \A t \in Threads : ~ReadSegment(t)
  <2>1. UNCHANGED <<instance[Source], input, buffer>>
    BY <1>4, OtherCounts DEF sourceVars
  <2>2. OriginInv'
    BY <1>1, <1>2, <2>1, OriginStays DEF BufferInv
  <2>. QED
    BY <2>1, <2>2 DEF BufferInv, UnreadWhole, Unread, Produced
<1>. QED
  BY <1>3, <1>4

\* The counts that the threads keep and store of the source's buffer are in order
\* at every moment, whatever the reads return and however many threads there are
\* (pipeline.cpp:201-212).
THEOREM ReadStores == ReadSpec => [](ControlInv /\ DataInv /\ StoreInv)
<1>1. ReadInit => ControlInv /\ DataInv
  BY ControlInit, DataInit DEF ReadInit, HistoryInit
<1>2. ReadSpec => [](ControlInv /\ DataInv /\ ReadCountsInv)
  BY ReadData
<1>3. ControlInv /\ DataInv /\ StoreInv /\ [ReadNext]_readVars => StoreInv'
  BY StoresNext
<1>. QED
  BY <1>1, <1>2, <1>3, BufferInit, PTL DEF ReadSpec

\* With two threads, the default, full reads and room for two of them, the buffer
\* is in order at every moment.
THEOREM BufferInvariant ==
    ASSUME FullReads, RoomForReads, ThreadNum = 2
    PROVE  ReadSpec => [](ControlInv /\ DataInv /\ ReadCountsInv /\ BufferInv)
<1>1. ReadSpec => [](ControlInv /\ DataInv /\ ReadCountsInv)
  BY ReadData
<1>2. ReadSpec => [](ControlInv /\ DataInv /\ StoreInv)
  BY ReadStores
<1>3. ControlInv /\ DataInv /\ ReadCountsInv /\ StoreInv /\ BufferInv
         /\ [ReadNext]_readVars => BufferInv'
  BY BufferNext
<1>. QED
  BY <1>1, <1>2, <1>3, BufferInit, PTL DEF ReadSpec

\* Every item read that some consumer has yet to process, or the source to offer,
\* is where the kernels look for it, whatever was copied back and dropped on the
\* strength of a count that may be stale (source_kernel.cpp:205-262).
THEOREM ItemsAreRead ==
    ASSUME FullReads, RoomForReads, ThreadNum = 2
    PROVE  ReadSpec => []InputInBuffer
<1>1. DataInv /\ ReadCountsInv /\ BufferInv => InputInBuffer
  <2>. SUFFICES ASSUME DataInv, ReadCountsInv, BufferInv,
                       NEW p \in 0 .. buffer.bufferedSize - 1,
                       NEW j \in Consumers(Source), instance[j].processed <= p
                PROVE  /\ p - buffer.origin \in DOMAIN buffer.memory
                       /\ buffer.memory[p - buffer.origin] = p
    BY DEF InputInBuffer
  <2>1. /\ consumed[Source] <= instance[j].processed
        /\ consumed[Source] \in Nat /\ instance[j].processed \in Nat
    BY SourceIsKernel
       DEF Consumers, DataInv, DataType, KernelState, DiscardedIsProcessed
  <2>2. /\ buffer.origin \in Nat /\ buffer.origin <= consumed[Source]
        /\ buffer.bufferedSize \in Nat
    BY DEF BufferInv, OriginInv, ReadCountsInv, InputRead
  <2>3. p - buffer.origin \in 0 .. buffer.bufferedSize - buffer.origin - 1
    BY <2>1, <2>2
  <2>4. /\ p - buffer.origin \in DOMAIN buffer.memory
        /\ buffer.memory[p - buffer.origin] = buffer.origin + (p - buffer.origin)
    BY <2>3 DEF BufferInv, Holds
  <2>. QED
    BY <2>2, <2>4
<1>2. ReadSpec => [](ControlInv /\ DataInv /\ ReadCountsInv /\ BufferInv)
  BY BufferInvariant
<1>. QED
  BY <1>1, <1>2, PTL

\* Neither a read, nor what is copied back, nor the zeros after the last items are
\* written outside the buffer (source_kernel.cpp:227-311).
THEOREM WritesAreInBounds ==
    ASSUME FullReads, RoomForReads, ThreadNum = 2
    PROVE  ReadSpec => []WrittenInBounds
<1>1. BufferInv => WrittenInBounds
  BY DEF BufferInv, Holds, WrittenInBounds
<1>2. ReadSpec => [](ControlInv /\ DataInv /\ ReadCountsInv /\ BufferInv)
  BY BufferInvariant
<1>. QED
  BY <1>1, <1>2, PTL

\* What the buffer and the kernels hold is of their types: the buffer nothing but
\* items of the input and zeros (source_kernel.cpp:158-312).
THEOREM ReadTypeCorrect ==
    ASSUME FullReads, RoomForReads, ThreadNum = 2
    PROVE  ReadSpec => []ReadTypeOK
<1>1. ControlInv /\ DataInv /\ ReadCountsInv /\ BufferInv => ReadTypeOK
  <2>. SUFFICES ASSUME ControlInv, DataInv, ReadCountsInv, BufferInv PROVE ReadTypeOK
    OBVIOUS
  <2>1. TypeOK
    BY DEF ControlInv, ControlType, DataInv, DataType, TypeOK
  <2>2. input \in 0 .. FileSize /\ buffer.bufferedSize \in Nat
    BY ItemsAssumption DEF ReadCountsInv, InputRead
  <2>3. \A o \in DOMAIN buffer.memory :
           o \in Nat /\ buffer.memory[o] \in 0 .. FileSize - 1 \cup {Zeroed}
    BY DEF BufferInv, OriginInv, Holds
  <2>. QED
    BY <2>1, <2>2, <2>3 DEF ReadTypeOK, BufferType, BufferInv, OriginInv
<1>2. ReadSpec => [](ControlInv /\ DataInv /\ ReadCountsInv /\ BufferInv)
  BY BufferInvariant
<1>. QED
  BY <1>1, <1>2, PTL

=============================================================================
