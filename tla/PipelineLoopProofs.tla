------------------------- MODULE PipelineLoopProofs -------------------------
(***************************************************************************)
(* Proofs about the single-threaded pipeline, for every pipeline shape,    *)
(* strides and sizes: its counts are well typed, the source is told in     *)
(* order of what every consumer has processed, the loop implements the     *)
(* abstract Dataflow, and it processes the whole file.                     *)
(***************************************************************************)
EXTENDS PipelineLoop, KernelSegmentsProofs

\* Where the loop is: the next kernel to call, or past the last.
InPlace ==
    /\ pc = "pipelineLoop" => at \in Kernels
    /\ pc = "setConsumed" => at = NumKernels

-----------------------------------------------------------------------------
(* Item counts.                                                            *)

\* No kernel is ahead of its input.
InputBound ==
    \A k \in Kernels :
        /\ WithinInput(k, instance[k])
        /\ \A b \in Bounding(k) : instance[k].processed <= instance[b].produced

\* The counts kept in registers are those of the kernels already called.
RegistersRead == \A k \in Kernels : k < at => producedPos[k] = instance[k].produced

\* The count to be stored for a buffer is one that each of its consumers has
\* processed, and is not below the one stored last.
ConsumedBetween ==
    \A j \in Kernels : \A b \in InputSet(j) :
        j < at => consumed[b] <= consumedPos[b] /\ consumedPos[b] <= instance[j].processed

\* What was dropped is whole pages of what is consumed.
DroppedPages == \A b \in Kernels : readable[b] <= PageFloor(consumed[b])

CountsInv ==
    /\ TypeOK
    /\ InPlace
    /\ InputBound
    /\ RegistersRead
    /\ ConsumedBetween
    /\ DroppedPages
    /\ DiscardedIsProcessed

\* More consumed items, no fewer whole pages.
LEMMA PageFloorIsMonotone ==
    ASSUME NEW m \in Nat, NEW n \in Nat, m <= n
    PROVE  PageFloor(m) <= PageFloor(n)
<1>. DEFINE p == PageSize
            i == m \div p
            j == n \div p
<1>1. p \in Nat \ {0}
  BY ItemsAssumption
<1>. HIDE DEF p
<1>2. i \in Nat /\ j \in Nat /\ m % p \in 0 .. p - 1 /\ n % p \in 0 .. p - 1
  BY <1>1
<1>3. m = p * i + (m % p) /\ n = p * j + (n % p)
  BY <1>1
<1>. HIDE DEF i, j
<1>4. i <= j
  <2>. SUFFICES ASSUME j + 1 <= i PROVE FALSE
    BY <1>2
  <2>. DEFINE d == i - (j + 1)
  <2>1. d \in Nat /\ i = j + 1 + d
    BY <1>2
  <2>. HIDE DEF d
  <2>2. p * i = p * j + p + p * d
    BY <1>1, <1>2, <2>1
  <2>3. p * d >= 0 /\ p * d \in Int /\ p * j \in Int
    BY <1>1, <1>2, <2>1
  <2>. QED
    BY <1>1, <1>2, <1>3, <2>2, <2>3
<1>. DEFINE e == j - i
<1>5. e \in Nat /\ j = i + e
  BY <1>2, <1>4
<1>. HIDE DEF e
<1>6. j * p = i * p + e * p /\ e * p >= 0 /\ i * p \in Int /\ e * p \in Int
  BY <1>1, <1>2, <1>5
<1>7. i * p <= j * p
  BY <1>6
<1>. QED
  BY <1>7 DEF PageFloor, i, j, p

\* At first every count is 0.
LEMMA CountsInit == Init => CountsInv
<1>. SUFFICES ASSUME Init PROVE CountsInv
  OBVIOUS
<1>. USE DEF Init
<1>1. InitKernelState \in KernelState
  BY DEF InitKernelState, KernelState
<1>2. TypeOK /\ InPlace
  <2>1. 0 \in Kernels /\ 0 \in 0 .. NumKernels
    BY KernelsAssumption DEF Kernels
  <2>2. history \in [Kernels -> Seq(KernelState)] /\ instance \in [Kernels -> KernelState]
    BY <1>1
  <2>. QED
    BY <2>1, <2>2 DEF TypeOK, InPlace, NoPositions
<1>3. \A k \in Kernels : \A b \in InputSet(k) : b \in Kernels
  BY InputsAreEarlier
<1>4. InputBound
  BY <1>3, ItemsAssumption DEF InputBound, WithinInput, InitKernelState, Bounding
<1>5. RegistersRead /\ ConsumedBetween
  BY <1>3 DEF RegistersRead, ConsumedBetween, NoPositions, InitKernelState, Kernels
<1>6. DroppedPages
  BY PageFloorIsBelow DEF DroppedPages, NoPositions
<1>7. DiscardedIsProcessed
  BY DEF DiscardedIsProcessed, NoPositions, InitKernelState, Consumers
<1>. QED
  BY <1>2, <1>4, <1>5, <1>6, <1>7 DEF CountsInv

\* What a call of the loop's next kernel does to its counts.
LEMMA CalledForward ==
    ASSUME CountsInv, pc = "pipelineLoop",
           NEW st \in DoSegmentResults(at, instance[at], producedPos, terminated)
    PROVE  /\ at \in Kernels
           /\ st \in KernelState
           /\ instance[at].processed <= st.processed
           /\ instance[at].produced <= st.produced
           /\ WithinInput(at, st)
           /\ \A b \in Bounding(at) : b \in Kernels /\ b < at /\ st.processed <= instance[b].produced
<1>. USE DEF CountsInv
<1>1. /\ at \in Kernels /\ instance[at] \in KernelState
      /\ producedPos \in [Kernels -> Nat] /\ terminated \in BOOLEAN
      /\ WithinInput(at, instance[at])
  BY DEF InPlace, TypeOK, InputBound
<1>2. \A b \in Bounding(at) :
         b \in Kernels /\ b < at /\ at \notin Sources /\ producedPos[b] = instance[b].produced
  BY <1>1, InputsAreEarlier DEF Bounding, RegistersRead
<1>3. \A b \in Bounding(at) : instance[at].processed <= producedPos[b]
  BY <1>1, <1>2 DEF InputBound
<1>4. at \notin Sources => instance[at].processed <= Available(at, producedPos)
  <2>. SUFFICES ASSUME at \notin Sources
                PROVE  instance[at].processed <= Available(at, producedPos)
    OBVIOUS
  <2>1. \E b \in Bounding(at) : Available(at, producedPos) = producedPos[b]
    BY <1>1, AvailableIsBounded
  <2>. QED
    BY <1>3, <2>1
<1>5. /\ st \in KernelState
      /\ instance[at].processed <= st.processed
      /\ instance[at].produced <= st.produced
      /\ WithinInput(at, st)
      /\ at \notin Sources => st.processed <= Available(at, producedPos)
  BY <1>1, <1>4, DoSegmentMovesForward
<1>6. \A b \in Bounding(at) : st.processed <= producedPos[b]
  BY <1>1, <1>2, <1>5, AvailableIsBounded DEF KernelState
<1>. QED
  BY <1>1, <1>2, <1>5, <1>6

\* A call keeps the counts in order.
LEMMA CountsCalled ==
    ASSUME CountsInv, DoSegment
    PROVE  CountsInv'
<1>1. PICK st \in DoSegmentResults(at, instance[at], producedPos, terminated) :
         /\ instance' = [instance EXCEPT ![at] = st]
         /\ producedPos' = [producedPos EXCEPT ![at] = st.produced]
         /\ consumedPos' = ConsumedAfter(at, st, consumedPos)
         /\ terminated' = TerminatedAfter(at, st, terminated)
         /\ history' = [history EXCEPT ![at] = Append(@, st)]
  BY DEF DoSegment
<1>2. /\ pc = "pipelineLoop"
      /\ readable' = IF at \in Sources THEN [readable EXCEPT ![at] = PageFloor(consumed[at])] ELSE readable
      /\ logicalSegNo' = [logicalSegNo EXCEPT ![at] = @ + 1]
      /\ at' = at + 1
      /\ pc' = IF at = NumKernels - 1 THEN "setConsumed" ELSE pc
      /\ consumed' = consumed
  BY DEF DoSegment
<1>3. /\ at \in Kernels
      /\ st \in KernelState
      /\ instance[at].processed <= st.processed
      /\ instance[at].produced <= st.produced
      /\ WithinInput(at, st)
      /\ \A b \in Bounding(at) : b \in Kernels /\ b < at /\ st.processed <= instance[b].produced
  BY <1>1, <1>2, CalledForward
<1>. USE DEF CountsInv
<1>4. /\ instance' \in [Kernels -> KernelState]
      /\ instance'[at] = st
      /\ \A j \in Kernels \ {at} : instance'[j] = instance[j]
      /\ \A j \in Kernels : /\ instance[j].processed <= instance'[j].processed
                            /\ instance[j].produced <= instance'[j].produced
                            /\ instance[j] \in KernelState
  <2>1. instance \in [Kernels -> KernelState]
    BY DEF TypeOK
  <2>2. /\ instance' \in [Kernels -> KernelState]
        /\ instance'[at] = st
        /\ \A j \in Kernels \ {at} : instance'[j] = instance[j]
    BY <1>1, <1>3, <2>1
  <2>3. \A x \in KernelState : x.processed \in Nat /\ x.produced \in Nat
    BY DEF KernelState
  <2>. QED
    BY <1>3, <2>1, <2>2, <2>3
<1>5. TypeOK' /\ InPlace'
  <2>1. consumedPos' \in [Kernels -> Nat]
    BY <1>1, <1>3, ConsumedAfterType DEF TypeOK
  <2>2. terminated' \in BOOLEAN
    BY <1>1, <1>3 DEF TerminatedAfter, TypeOK, KernelState
  <2>3. readable' \in [Kernels -> Nat]
    BY <1>2, <1>3, PageFloorIsBelow DEF TypeOK
  <2>4. history' \in [Kernels -> Seq(KernelState)]
    BY <1>1, <1>3 DEF TypeOK
  <2>5. producedPos' \in [Kernels -> Nat] /\ logicalSegNo' \in [Kernels -> Nat]
    <3>1. st.produced \in Nat
      BY <1>3 DEF KernelState
    <3>2. /\ producedPos \in [Kernels -> Nat] /\ logicalSegNo \in [Kernels -> Nat]
          /\ producedPos' = [producedPos EXCEPT ![at] = st.produced]
      BY <1>1 DEF TypeOK
    <3>. QED
      BY <1>2, <1>3, <3>1, <3>2
  <2>6. at' \in 0 .. NumKernels /\ InPlace'
    BY <1>2, <1>3, KernelsAssumption DEF Kernels, InPlace
  <2>. QED
    BY <1>2, <1>4, <2>1, <2>2, <2>3, <2>4, <2>5, <2>6 DEF TypeOK
<1>6. InputBound'
  <2>. SUFFICES ASSUME NEW k \in Kernels
                PROVE  /\ WithinInput(k, instance'[k])
                       /\ \A b \in Bounding(k) : instance'[k].processed <= instance'[b].produced
    BY DEF InputBound
  <2>1. CASE k = at
    BY <1>3, <1>4, <2>1 DEF Kernels
  <2>2. CASE k # at
    <3>1. WithinInput(k, instance[k]) /\ instance'[k] = instance[k]
      BY <1>4, <2>2 DEF InputBound
    <3>2. ASSUME NEW b \in Bounding(k)
          PROVE  instance[k].processed <= instance'[b].produced
      <4>1. b \in Kernels /\ instance[k].processed <= instance[b].produced
        BY InputsAreEarlier DEF Bounding, InputBound
      <4>2. /\ instance[b].produced <= instance'[b].produced
            /\ instance[k].processed \in Nat /\ instance[b].produced \in Nat /\ instance'[b].produced \in Nat
        BY <1>4, <4>1 DEF KernelState
      <4>. QED
        BY <4>1, <4>2
    <3>. QED
      BY <3>1, <3>2
  <2>. QED
    BY <2>1, <2>2
<1>7. RegistersRead'
  BY <1>1, <1>2, <1>3, <1>4 DEF RegistersRead, Kernels, TypeOK
<1>8. ConsumedBetween'
  <2>. SUFFICES ASSUME NEW j \in Kernels, NEW b \in InputSet(j), j < at'
                PROVE  /\ consumed[b] <= consumedPos'[b]
                       /\ consumedPos'[b] <= instance'[j].processed
    BY <1>2 DEF ConsumedBetween
  <2>1. b \in Kernels /\ consumed[b] \in Nat /\ consumedPos[b] \in Nat
    BY InputsAreEarlier DEF TypeOK
  <2>2. consumed[b] <= instance[j].processed
    BY <2>1 DEF DiscardedIsProcessed, Consumers
  <2>3. /\ instance[j] \in KernelState /\ instance[at] \in KernelState
        /\ consumedPos'[b] = IF b \notin InputSet(at) THEN consumedPos[b]
                             ELSE IF FirstConsumer(b, at) \/ st.processed < consumedPos[b] THEN st.processed
                             ELSE consumedPos[b]
    BY <1>1, <1>3, <2>1 DEF ConsumedAfter, TypeOK
  <2>4. j < at => /\ consumed[b] <= consumedPos[b]
                  /\ consumedPos[b] <= instance[j].processed
                  /\ ~FirstConsumer(b, at)
    <3>1. j < at => ~FirstConsumer(b, at)
      BY <1>3 DEF FirstConsumer, Consumers, Kernels
    <3>. QED
      BY <3>1 DEF ConsumedBetween
  <2>5. CASE j < at
    <3>1. b \in InputSet(at) => consumed[b] <= instance[at].processed
      BY <1>3, <2>1 DEF DiscardedIsProcessed, Consumers
    <3>2. instance'[j] = instance[j]
      BY <1>3, <1>4, <2>5 DEF Kernels
    <3>. QED
      BY <1>3, <2>1, <2>3, <2>4, <2>5, <3>1, <3>2 DEF KernelState
  <2>6. CASE j = at
    <3>1. ~FirstConsumer(b, at) => consumed[b] <= consumedPos[b]
      <4>. SUFFICES ASSUME ~FirstConsumer(b, at) PROVE consumed[b] <= consumedPos[b]
        OBVIOUS
      <4>1. PICK i \in Kernels : b \in InputSet(i) /\ i < at
        BY <1>3 DEF FirstConsumer, Consumers, Kernels
      <4>. QED
        BY <4>1 DEF ConsumedBetween
    <3>. QED
      BY <1>3, <1>4, <2>1, <2>2, <2>3, <2>6, <3>1 DEF KernelState
  <2>. QED
    BY <1>2, <1>3, <2>5, <2>6 DEF Kernels
<1>9. DroppedPages'
  <2>. SUFFICES ASSUME NEW b \in Kernels PROVE readable'[b] <= PageFloor(consumed[b])
    BY <1>2 DEF DroppedPages
  <2>1. PageFloor(consumed[b]) \in Nat /\ readable[b] <= PageFloor(consumed[b])
    BY PageFloorIsBelow DEF TypeOK, DroppedPages
  <2>. QED
    BY <1>2, <1>3, <2>1 DEF TypeOK
<1>10. DiscardedIsProcessed'
  <2>. SUFFICES ASSUME NEW b \in Kernels, NEW j \in Consumers(b)
                PROVE  /\ consumed[b] <= instance'[j].processed
                       /\ readable'[b] <= instance'[j].processed
    BY <1>2 DEF DiscardedIsProcessed
  <2>1. j \in Kernels /\ consumed[b] <= instance[j].processed /\ consumed[b] \in Nat
    BY DEF DiscardedIsProcessed, Consumers, TypeOK
  <2>2. consumed[b] <= instance'[j].processed /\ instance'[j].processed \in Nat
    BY <1>4, <2>1 DEF KernelState
  <2>3. readable'[b] <= PageFloor(consumed[b]) /\ readable'[b] \in Nat
    BY <1>5, <1>9, <1>2 DEF DroppedPages, TypeOK
  <2>4. PageFloor(consumed[b]) <= consumed[b] /\ PageFloor(consumed[b]) \in Nat
    BY <2>1, PageFloorIsBelow
  <2>. QED
    BY <2>2, <2>3, <2>1, <2>4
<1>. QED
  BY <1>5, <1>6, <1>7, <1>8, <1>9, <1>10

\* Storing the consumed counts keeps them below what is processed, and no lower
\* than they were.
LEMMA CountsStored ==
    ASSUME CountsInv, EndSegment
    PROVE  CountsInv'
<1>. USE DEF CountsInv
<1>1. /\ pc = "setConsumed" /\ at = NumKernels /\ at' = 0
      /\ consumed' = ConsumedCounts
      /\ pc' \in {"pipelineLoop", "pipelineExit"}
      /\ producedPos' = NoPositions /\ consumedPos' = NoPositions /\ terminated' = FALSE
      /\ UNCHANGED <<instance, logicalSegNo, readable, history>>
  BY DEF EndSegment, InPlace
<1>2. \A b \in Kernels : \A j \in Consumers(b) :
         /\ j \in Kernels /\ b \in InputSet(j) /\ b \in ConsumedBuffers
         /\ consumed[b] <= consumedPos[b] /\ consumedPos[b] <= instance[j].processed
  BY <1>1, KernelsAssumption DEF Consumers, ConsumedBuffers, ConsumedBetween, Kernels
<1>3. \A b \in Kernels : consumed[b] \in Nat /\ consumed'[b] \in Nat /\ consumed[b] <= consumed'[b]
  <2>. SUFFICES ASSUME NEW b \in Kernels
                PROVE  consumed[b] \in Nat /\ consumed'[b] \in Nat /\ consumed[b] <= consumed'[b]
    OBVIOUS
  <2>1. consumed[b] \in Nat /\ consumedPos[b] \in Nat
    BY DEF TypeOK
  <2>2. CASE b \in ConsumedBuffers
    BY <1>1, <1>2, <2>1, <2>2 DEF ConsumedCounts, ConsumedBuffers
  <2>3. CASE b \notin ConsumedBuffers
    BY <1>1, <2>1, <2>3 DEF ConsumedCounts
  <2>. QED
    BY <2>2, <2>3
<1>4. TypeOK' /\ InPlace'
  <2>1. consumed' \in [Kernels -> Nat]
    BY <1>1, <1>3 DEF ConsumedCounts
  <2>2. 0 \in Kernels /\ 0 \in 0 .. NumKernels
    BY KernelsAssumption DEF Kernels
  <2>. QED
    BY <1>1, <2>1, <2>2 DEF TypeOK, InPlace, NoPositions
<1>5. InputBound'
  BY <1>1 DEF InputBound
<1>6. RegistersRead' /\ ConsumedBetween'
  BY <1>1 DEF RegistersRead, ConsumedBetween, Kernels
<1>7. DroppedPages'
  <2>. SUFFICES ASSUME NEW b \in Kernels PROVE readable[b] <= PageFloor(consumed'[b])
    BY <1>1 DEF DroppedPages
  <2>1. PageFloor(consumed[b]) <= PageFloor(consumed'[b])
    BY <1>3, PageFloorIsMonotone
  <2>2. /\ PageFloor(consumed[b]) \in Nat /\ PageFloor(consumed'[b]) \in Nat
        /\ readable[b] \in Nat /\ readable[b] <= PageFloor(consumed[b])
    BY <1>3, PageFloorIsBelow DEF TypeOK, DroppedPages
  <2>. QED
    BY <2>1, <2>2
<1>8. DiscardedIsProcessed'
  <2>. SUFFICES ASSUME NEW b \in Kernels, NEW j \in Consumers(b)
                PROVE  consumed'[b] <= instance[j].processed /\ readable[b] <= instance[j].processed
    BY <1>1 DEF DiscardedIsProcessed
  <2>1. consumed'[b] = consumedPos[b]
    BY <1>1, <1>2 DEF ConsumedCounts
  <2>. QED
    BY <1>2, <2>1 DEF DiscardedIsProcessed
<1>. QED
  BY <1>4, <1>5, <1>6, <1>7, <1>8

\* Every step keeps the counts in order.
LEMMA CountsNext == CountsInv /\ [Next]_vars => CountsInv'
<1>. SUFFICES ASSUME CountsInv, [Next]_vars PROVE CountsInv'
  OBVIOUS
<1>1. CASE DoSegment
  BY <1>1, CountsCalled
<1>2. CASE EndSegment
  BY <1>2, CountsStored
<1>3. CASE FinalizeInstances \/ UNCHANGED vars
  <2>1. /\ UNCHANGED <<instance, logicalSegNo, consumed, readable, at, terminated,
                       producedPos, consumedPos, history>>
        /\ pc' = pc \/ pc' = "returned"
    BY <1>3 DEF FinalizeInstances, vars
  <2>. QED
    BY <2>1 DEF CountsInv, TypeOK, InPlace, InputBound, RegistersRead, ConsumedBetween,
                DroppedPages, DiscardedIsProcessed
<1>. QED
  BY <1>1, <1>2, <1>3 DEF Next, Returned

\* The counts are in order throughout.
THEOREM CountsInvariant == Spec => []CountsInv
BY CountsInit, CountsNext, PTL DEF Spec

\* Every reachable state of the loop is well typed.
THEOREM LoopTypeCorrect == Spec => []TypeOK
<1>1. CountsInv => TypeOK
  BY DEF CountsInv
<1>. QED
  BY <1>1, CountsInvariant, PTL

\* No page is dropped, and no item discarded, before its consumers have
\* processed it (pipeline.cpp:584-595, source_kernel.cpp:90-99).
THEOREM LoopDiscarded == Spec => []DiscardedIsProcessed
<1>1. CountsInv => DiscardedIsProcessed
  BY DEF CountsInv
<1>. QED
  BY <1>1, CountsInvariant, PTL

\* The source is told in order of what is consumed, and drops its pages in
\* order (source_kernel.cpp:104-113).
THEOREM LoopDropLength == Spec => DropLengthIsValid
<1>1. ASSUME CountsInv, Next
      PROVE  \A k \in Sources : readable'[k] >= readable[k]
  <2>. SUFFICES ASSUME NEW k \in Sources PROVE readable'[k] >= readable[k]
    OBVIOUS
  <2>1. /\ k \in Kernels /\ readable[k] \in Nat /\ readable \in [Kernels -> Nat]
        /\ readable[k] <= PageFloor(consumed[k]) /\ PageFloor(consumed[k]) \in Nat
    BY <1>1, PageFloorIsBelow DEF Sources, CountsInv, TypeOK, DroppedPages
  <2>2. CASE readable' = readable
    BY <2>1, <2>2
  <2>3. CASE readable' = [readable EXCEPT ![at] = PageFloor(consumed[at])]
    BY <2>1, <2>3
  <2>. QED
    BY <1>1, <2>2, <2>3 DEF Next, DoSegment, EndSegment, FinalizeInstances, Returned, vars
<1>2. CountsInv /\ [Next]_vars => [\A k \in Sources : readable'[k] >= readable[k]]_vars
  BY <1>1
<1>. QED
  BY <1>2, CountsInvariant, PTL DEF Spec, DropLengthIsValid

-----------------------------------------------------------------------------
(* The loop implements Dataflow.                                           *)

Calling == pc \in {"pipelineLoop", "setConsumed"}

\* The kernels that the loop has called in this round are one segment ahead.
InStep ==
    \E n \in Nat : \A k \in Kernels : Len(history[k]) = IF k < at THEN n + 1 ELSE n

\* A kernel's state is the one that its last call left behind.
LastRecorded ==
    \A k \in Kernels :
        instance[k] = IF history[k] = <<>> THEN InitKernelState ELSE history[k][Len(history[k])]

\* The final flag says whether a kernel called in this round has signalled.
FlagIsSignal ==
    Calling => (terminated <=> \E j \in Kernels : j < at /\ j \notin NoTerminate /\ instance[j].signal)

\* A kernel that has yet to be called has not signalled: the loop would have
\* ended after the round in which it did.
YetToSignal ==
    pc = "pipelineLoop" => \A k \in Kernels : k >= at /\ k \notin NoTerminate => ~instance[k].signal

ScheduleInv ==
    /\ CountsInv
    /\ InStep
    /\ LastRecorded
    /\ FlagIsSignal
    /\ YetToSignal

\* A call's results depend on the counts of the kernel's inputs alone, and are
\* what Dataflow says.
LEMMA ResultsOfInputs ==
    ASSUME NEW k \in Kernels, NEW st, NEW final, NEW pos1, NEW pos2,
           \A b \in InputSet(k) : pos1[b] = pos2[b]
    PROVE  Abstract!DoSegmentResults(k, st, pos1, final) = DoSegmentResults(k, st, pos2, final)
<1>1. k \notin Sources => pos1[Inputs[k][1]] = pos2[Inputs[k][1]]
  BY InputsAssumption DEF Sources, InputSet
<1>2. {pos1[b] : b \in InputSet(k)} = {pos2[b] : b \in InputSet(k)}
  OBVIOUS
<1>3. Abstract!Sources = Sources
  BY DEF Abstract!Sources, Sources, Abstract!Kernels, Kernels
<1>4. Abstract!InputSet(k) = InputSet(k)
  BY DEF Abstract!InputSet, InputSet
<1>5. \A S : Abstract!Min(S) = Min(S)
  BY DEF Abstract!Min, Min
<1>6. k \notin Sources => Abstract!Available(k, pos1) = Available(k, pos2)
  BY <1>1, <1>2, <1>4, <1>5 DEF Abstract!Available, Available
<1>7. \A avail : Abstract!Advance(k, st, avail, final) = Advance(k, st, avail, final)
  BY DEF Abstract!Advance, Advance, Abstract!StrideItems, StrideItems
<1>8. \A avail : Abstract!EarlyTermination(k, st, avail, final) = EarlyTermination(k, st, avail, final)
  <2>. SUFFICES ASSUME NEW avail
                PROVE  Abstract!EarlyTermination(k, st, avail, final) = EarlyTermination(k, st, avail, final)
    OBVIOUS
  <2>. DEFINE normal == Advance(k, st, avail, final)
  <2>1. Abstract!Advance(k, st, avail, final) = normal
    BY <1>7
  <2>. HIDE DEF normal
  <2>2. Abstract!EarlyTermination(k, st, avail, final)
          = {[normal EXCEPT !.produced = n, !.signal = TRUE] : n \in st.produced + 1 .. normal.processed - 1}
    BY <2>1 DEF Abstract!EarlyTermination
  <2>3. EarlyTermination(k, st, avail, final)
          = {[normal EXCEPT !.produced = n, !.signal = TRUE] : n \in st.produced + 1 .. normal.processed - 1}
    BY DEF EarlyTermination, normal
  <2>. QED
    BY <2>2, <2>3
<1>9. Abstract!SourceSegment(st) = SourceSegment(st)
  BY DEF Abstract!SourceSegment, SourceSegment
<1>. QED
  BY <1>3, <1>6, <1>7, <1>8, <1>9 DEF Abstract!DoSegmentResults, DoSegmentResults

\* At first no kernel has been called.
LEMMA ScheduleInit == Init => ScheduleInv
<1>. SUFFICES ASSUME Init PROVE ScheduleInv
  OBVIOUS
<1>1. CountsInv
  BY CountsInit
<1>2. InStep
  BY DEF Init, InStep, Kernels
<1>3. LastRecorded /\ FlagIsSignal /\ YetToSignal
  BY DEF Init, LastRecorded, FlagIsSignal, YetToSignal, InitKernelState, Kernels
<1>. QED
  BY <1>1, <1>2, <1>3 DEF ScheduleInv

\* A call of the loop is a step of Dataflow.
LEMMA CallIsStep ==
    ASSUME ScheduleInv, DoSegment
    PROVE  Abstract!Next
<1>1. PICK st \in DoSegmentResults(at, instance[at], producedPos, terminated) :
         history' = [history EXCEPT ![at] = Append(@, st)]
  BY DEF DoSegment
<1>2. /\ pc = "pipelineLoop" /\ at \in Kernels
      /\ history \in [Kernels -> Seq(KernelState)]
      /\ terminated \in BOOLEAN
  BY DEF ScheduleInv, CountsInv, TypeOK, InPlace, DoSegment
<1>3. PICK n \in Nat : \A k \in Kernels : Len(history[k]) = IF k < at THEN n + 1 ELSE n
  BY DEF ScheduleInv, InStep
<1>4. /\ Len(history[at]) = n
      /\ \A j \in 0 .. at - 1 :
            /\ j \in Kernels /\ j < at
            /\ Len(history[j]) = n + 1 /\ history[j] # <<>>
            /\ instance[j] = history[j][n + 1]
            /\ producedPos[j] = history[j][n + 1].produced
  <2>1. Len(history[at]) = n
    BY <1>2, <1>3 DEF Kernels
  <2>2. ASSUME NEW j \in 0 .. at - 1
        PROVE  /\ j \in Kernels /\ j < at
               /\ Len(history[j]) = n + 1 /\ history[j] # <<>>
               /\ instance[j] = history[j][n + 1]
               /\ producedPos[j] = history[j][n + 1].produced
    <3>1. j \in Kernels /\ j < at
      BY <1>2, KernelsAssumption DEF Kernels
    <3>2. Len(history[j]) = n + 1 /\ history[j] # <<>>
      BY <1>3, <3>1
    <3>. QED
      BY <3>1, <3>2 DEF ScheduleInv, LastRecorded, CountsInv, RegistersRead
  <2>. QED
    BY <2>1, <2>2
<1>. DEFINE pos == [j \in 0 .. at - 1 |-> history[j][n + 1].produced]
<1>5. instance[at] = Abstract!KernelAfter(at, n)
  <2>1. n = 0 <=> history[at] = <<>>
    BY <1>2, <1>4
  <2>2. CASE n = 0
    BY <1>2, <2>1, <2>2 DEF ScheduleInv, LastRecorded, Abstract!KernelAfter, Abstract!InitKernelState, InitKernelState
  <2>3. CASE n # 0
    BY <1>2, <1>4, <2>1, <2>3 DEF ScheduleInv, LastRecorded, Abstract!KernelAfter
  <2>. QED
    BY <2>2, <2>3
<1>6. Abstract!Final(at, n + 1) = terminated
  <2>1. terminated <=> \E j \in Kernels : j < at /\ j \notin NoTerminate /\ instance[j].signal
    BY <1>2 DEF ScheduleInv, FlagIsSignal, Calling
  <2>2. \A j \in Kernels : j < at => j \in 0 .. at - 1
    BY <1>2 DEF Kernels
  <2>3. Abstract!Final(at, n + 1) <=> terminated
    BY <1>4, <2>1, <2>2 DEF Abstract!Final
  <2>4. Abstract!Final(at, n + 1) \in BOOLEAN
    BY DEF Abstract!Final
  <2>. QED
    BY <1>2, <2>3, <2>4
<1>7. \A b \in InputSet(at) : pos[b] = producedPos[b]
  BY <1>2, <1>4, InputsAreEarlier DEF Kernels
<1>8. st \in Abstract!DoSegmentResults(at, Abstract!KernelAfter(at, n), pos, Abstract!Final(at, n + 1))
  <2>. HIDE DEF pos
  <2>1. Abstract!DoSegmentResults(at, instance[at], pos, terminated)
          = DoSegmentResults(at, instance[at], producedPos, terminated)
    BY <1>2, <1>7, ResultsOfInputs
  <2>. QED
    BY <1>5, <1>6, <2>1
<1>9. ~Abstract!Stopped(at)
  BY <1>2, <1>4, <1>5 DEF Abstract!Stopped, ScheduleInv, YetToSignal, Kernels
<1>10. Abstract!Step(at)
  <2>1. Len(history[at]) + 1 = n + 1 /\ (n + 1) - 1 = n
    BY <1>4
  <2>2. \A j \in 0 .. at - 1 : Len(history[j]) >= n + 1
    BY <1>4
  <2>3. \E x \in Abstract!DoSegmentResults(at, Abstract!KernelAfter(at, (n + 1) - 1), pos,
                                          Abstract!Final(at, n + 1)) :
           history' = [history EXCEPT ![at] = Append(@, x)]
    BY <1>1, <1>8, <2>1
  <2>. QED
    BY <1>9, <2>1, <2>2, <2>3 DEF Abstract!Step
<1>. QED
  BY <1>2, <1>10 DEF Abstract!Next, Abstract!Kernels, Kernels

\* A call keeps the schedule.
LEMMA ScheduleCalled ==
    ASSUME ScheduleInv, DoSegment
    PROVE  ScheduleInv'
<1>1. PICK st \in DoSegmentResults(at, instance[at], producedPos, terminated) :
         /\ instance' = [instance EXCEPT ![at] = st]
         /\ terminated' = TerminatedAfter(at, st, terminated)
         /\ history' = [history EXCEPT ![at] = Append(@, st)]
  BY DEF DoSegment
<1>2. /\ pc = "pipelineLoop" /\ at' = at + 1
      /\ pc' = IF at = NumKernels - 1 THEN "setConsumed" ELSE pc
      /\ CountsInv
  BY DEF ScheduleInv, DoSegment
<1>3. /\ at \in Kernels /\ at \in Int
      /\ history \in [Kernels -> Seq(KernelState)]
      /\ instance \in [Kernels -> KernelState]
      /\ terminated \in BOOLEAN
  BY <1>2 DEF CountsInv, TypeOK, InPlace, Kernels
<1>4. CountsInv'
  BY <1>2, CountsCalled
<1>5. st \in KernelState
  BY <1>1, <1>2, CalledForward
<1>6. /\ Len(history'[at]) = Len(history[at]) + 1
      /\ history'[at] # <<>>
      /\ history'[at][Len(history'[at])] = st
      /\ \A j \in Kernels \ {at} : history'[j] = history[j] /\ instance'[j] = instance[j]
      /\ instance'[at] = st
  <2>1. history[at] \in Seq(KernelState)
    BY <1>3
  <2>2. history' = [history EXCEPT ![at] = Append(history[at], st)]
    BY <1>1
  <2>3. history'[at] = Append(history[at], st)
    BY <1>3, <2>2
  <2>4. /\ Len(Append(history[at], st)) = Len(history[at]) + 1
        /\ Append(history[at], st)[Len(history[at]) + 1] = st
        /\ Len(history[at]) \in Nat
    BY <1>5, <2>1
  <2>5. history'[at] # <<>>
    <3>1. Len(history'[at]) # 0
      BY <2>3, <2>4
    <3>. QED
      BY <3>1
  <2>6. \A j \in Kernels \ {at} : history'[j] = history[j] /\ instance'[j] = instance[j]
    BY <1>1, <1>3, <2>2
  <2>7. instance'[at] = st
    BY <1>1, <1>3
  <2>. QED
    BY <2>3, <2>4, <2>5, <2>6, <2>7
<1>7. InStep'
  <2>1. PICK n \in Nat : \A k \in Kernels : Len(history[k]) = IF k < at THEN n + 1 ELSE n
    BY DEF ScheduleInv, InStep
  <2>2. \A k \in Kernels : Len(history'[k]) = IF k < at + 1 THEN n + 1 ELSE n
    BY <1>3, <1>6, <2>1 DEF Kernels
  <2>. QED
    BY <1>2, <2>2 DEF InStep
<1>8. LastRecorded'
  BY <1>6 DEF ScheduleInv, LastRecorded
<1>9. FlagIsSignal'
  <2>1. terminated <=> \E j \in Kernels : j < at /\ j \notin NoTerminate /\ instance[j].signal
    BY <1>2 DEF ScheduleInv, FlagIsSignal, Calling
  <2>2. terminated' <=> terminated \/ (at \notin NoTerminate /\ st.signal)
    BY <1>1, <1>3, <1>5 DEF TerminatedAfter, KernelState
  <2>3. \A j \in Kernels : j < at + 1 <=> j < at \/ j = at
    BY <1>3 DEF Kernels
  <2>4. terminated' <=> \E j \in Kernels : j < at + 1 /\ j \notin NoTerminate /\ instance'[j].signal
    BY <1>3, <1>6, <2>1, <2>2, <2>3
  <2>. QED
    BY <1>2, <2>4 DEF FlagIsSignal
<1>10. YetToSignal'
  BY <1>2, <1>3, <1>6 DEF ScheduleInv, YetToSignal, Kernels
<1>. QED
  BY <1>4, <1>7, <1>8, <1>9, <1>10 DEF ScheduleInv

\* Storing the consumed counts starts a new round, or ends the loop after a
\* round in which a kernel has signalled.
LEMMA ScheduleStored ==
    ASSUME ScheduleInv, EndSegment
    PROVE  ScheduleInv'
<1>1. /\ pc = "setConsumed" /\ at' = 0
      /\ pc' = IF terminated THEN "pipelineExit" ELSE "pipelineLoop"
      /\ terminated' = FALSE
      /\ UNCHANGED <<instance, history>>
  BY DEF EndSegment, Leave
<1>2. CountsInv /\ at = NumKernels
  BY <1>1 DEF ScheduleInv, CountsInv, InPlace
<1>3. CountsInv'
  BY <1>2, CountsStored
<1>4. InStep'
  <2>1. PICK n \in Nat : \A k \in Kernels : Len(history[k]) = IF k < at THEN n + 1 ELSE n
    BY DEF ScheduleInv, InStep
  <2>2. \A k \in Kernels : Len(history'[k]) = IF k < 0 THEN n + 2 ELSE n + 1
    BY <1>1, <1>2, <2>1, KernelsAssumption DEF Kernels
  <2>. QED
    BY <1>1, <2>2 DEF InStep, Kernels
<1>5. LastRecorded'
  BY <1>1 DEF ScheduleInv, LastRecorded
<1>6. FlagIsSignal'
  BY <1>1 DEF FlagIsSignal, Kernels
<1>7. YetToSignal'
  BY <1>1, <1>2, KernelsAssumption DEF ScheduleInv, YetToSignal, FlagIsSignal, Calling, Kernels
<1>. QED
  BY <1>3, <1>4, <1>5, <1>6, <1>7 DEF ScheduleInv

\* Every step keeps the schedule.
LEMMA ScheduleNext == ScheduleInv /\ [Next]_vars => ScheduleInv'
<1>. SUFFICES ASSUME ScheduleInv, [Next]_vars PROVE ScheduleInv'
  OBVIOUS
<1>1. CASE DoSegment
  BY <1>1, ScheduleCalled
<1>2. CASE EndSegment
  BY <1>2, ScheduleStored
<1>3. CASE FinalizeInstances \/ UNCHANGED vars
  <2>1. /\ UNCHANGED <<instance, at, terminated, history>>
        /\ pc' = pc \/ (pc = "pipelineExit" /\ pc' = "returned")
    BY <1>3 DEF FinalizeInstances, vars
  <2>2. CountsInv'
    BY CountsNext DEF ScheduleInv
  <2>. QED
    BY <2>1, <2>2 DEF ScheduleInv, InStep, LastRecorded, FlagIsSignal, YetToSignal, Calling
<1>. QED
  BY <1>1, <1>2, <1>3 DEF Next, Returned

\* The single-threaded loop implements Dataflow: each kernel is called once for
\* each segment, after the kernels before it, with what they had produced and
\* with the final flag that they signalled at that segment, and never again
\* after a kernel has ended the pipeline (pipeline.cpp:526-597).
THEOREM LoopImplementsDataflow == Spec => ImplementsDataflow
<1>1. Init => Abstract!Init
  BY DEF Init, Abstract!Init, Abstract!Kernels, Kernels
<1>2. ScheduleInv /\ [Next]_vars => [Abstract!Next]_history
  <2>. SUFFICES ASSUME ScheduleInv, [Next]_vars PROVE Abstract!Next \/ UNCHANGED history
    OBVIOUS
  <2>1. CASE DoSegment
    BY <2>1, CallIsStep
  <2>2. CASE ~DoSegment
    BY <2>2 DEF Next, EndSegment, FinalizeInstances, Returned, vars
  <2>. QED
    BY <2>1, <2>2
<1>. QED
  BY <1>1, <1>2, ScheduleInit, ScheduleNext, PTL DEF Spec, ImplementsDataflow, Abstract!Spec

-----------------------------------------------------------------------------
(* Output.  The loop's calls are calls as the histories of                   *)
(* KernelSegmentsProofs describe them, and it leaves the loop after a round  *)
(* in which a kernel has ended the pipeline: so it processes the whole file. *)

\* The loop is left between two rounds, after a kernel has signalled.
LeftAtSignal ==
    pc = "pipelineExit" =>
        /\ at = 0
        /\ \E k \in Kernels \ NoTerminate : instance[k].signal

LoopInv == ScheduleInv /\ FileInv(history) /\ LeftAtSignal

\* A call of the loop keeps what the histories say of the calls before it.
LEMMA LoopCalled ==
    ASSUME StopsPipeline, LoopInv, DoSegment
    PROVE  FileInv(history')
<1>. USE DEF LoopInv
<1>1. PICK r \in DoSegmentResults(at, instance[at], producedPos, terminated) :
         history' = [history EXCEPT ![at] = Append(@, r)]
  BY DEF DoSegment
<1>2. /\ pc = "pipelineLoop" /\ at \in Kernels
      /\ history \in [Kernels -> Seq(KernelState)]
      /\ producedPos \in [Kernels -> Nat] /\ terminated \in BOOLEAN
  BY DEF ScheduleInv, CountsInv, TypeOK, InPlace, DoSegment
<1>3. r \in KernelState
  BY <1>2, CalledForward DEF ScheduleInv
<1>4. PICK n \in Nat : \A k \in Kernels : Len(history[k]) = IF k < at THEN n + 1 ELSE n
  BY DEF ScheduleInv, InStep
<1>5. Len(history[at]) = n
  BY <1>2, <1>4 DEF Kernels
<1>6. ASSUME NEW j \in 0 .. at - 1
      PROVE  /\ j \in Kernels /\ j < at /\ Len(history[j]) = n + 1
             /\ instance[j] = history[j][n + 1]
             /\ producedPos[j] = history[j][n + 1].produced
  <2>1. j \in Kernels /\ j < at
    BY <1>2, EarlierKernels DEF Kernels
  <2>2. Len(history[j]) = n + 1 /\ history[j] # <<>>
    BY <1>2, <1>4, <2>1
  <2>. QED
    BY <2>1, <2>2 DEF ScheduleInv, LastRecorded, CountsInv, RegistersRead
<1>7. instance[at] = IF n + 1 = 1 THEN InitKernelState ELSE history[at][(n + 1) - 1]
  <2>1. n = 0 <=> history[at] = <<>>
    BY <1>2, <1>5
  <2>2. (n + 1) - 1 = n /\ (n + 1 = 1 <=> n = 0)
    OBVIOUS
  <2>. QED
    BY <1>2, <1>5, <2>1, <2>2 DEF ScheduleInv, LastRecorded
<1>8. terminated <=> \E j \in 0 .. at - 1 : j \notin NoTerminate /\ history[j][n + 1].signal
  <2>1. terminated <=> \E j \in Kernels : j < at /\ j \notin NoTerminate /\ instance[j].signal
    BY <1>2 DEF ScheduleInv, FlagIsSignal, Calling
  <2>2. \A j \in Kernels : j < at => j \in 0 .. at - 1
    BY <1>2 DEF Kernels
  <2>. QED
    BY <1>6, <2>1, <2>2
<1>9. \A b \in InputSet(at) : producedPos[b] = history[b][n + 1].produced
  BY <1>2, <1>6, InputsAreEarlier DEF Kernels
<1>10. at \notin NoTerminate => ~instance[at].signal
  BY <1>2 DEF ScheduleInv, YetToSignal, Kernels
<1>11. Call(history, history', at, n + 1, instance[at], producedPos, terminated, r)
  BY <1>1, <1>5, <1>6, <1>7, <1>8, <1>9, <1>10 DEF Call, Recorded
<1>. QED
  BY <1>2, <1>3, <1>11, FileInvKept

\* Every step keeps the invariant.
LEMMA LoopInvNext ==
    ASSUME StopsPipeline, LoopInv, [Next]_vars
    PROVE  LoopInv'
<1>. USE DEF LoopInv
<1>1. ScheduleInv'
  BY ScheduleNext
<1>2. CASE DoSegment
  <2>1. FileInv(history')
    BY <1>2, LoopCalled
  <2>2. LeftAtSignal'
    BY <1>2 DEF DoSegment, LeftAtSignal
  <2>. QED
    BY <1>1, <2>1, <2>2
<1>3. CASE EndSegment
  <2>1. /\ pc = "setConsumed" /\ at' = 0
        /\ pc' = IF terminated THEN "pipelineExit" ELSE "pipelineLoop"
        /\ UNCHANGED <<instance, history>>
    BY <1>3 DEF EndSegment, Leave
  <2>2. terminated => \E k \in Kernels \ NoTerminate : instance[k].signal
    BY <2>1 DEF ScheduleInv, FlagIsSignal, Calling
  <2>3. FileInv(history')
    BY <2>1
  <2>. QED
    BY <1>1, <2>1, <2>2, <2>3 DEF LeftAtSignal
<1>4. CASE FinalizeInstances \/ UNCHANGED vars
  <2>1. /\ UNCHANGED <<instance, at, history>>
        /\ pc' = pc \/ pc' = "returned"
    BY <1>4 DEF FinalizeInstances, vars
  <2>2. FileInv(history')
    BY <2>1
  <2>. QED
    BY <1>1, <2>1, <2>2 DEF LeftAtSignal
<1>. QED
  BY <1>2, <1>3, <1>4 DEF Next, Returned

\* When the loop has been left, every kernel has processed the whole file,
\* the items after its last whole stride included, unless a kernel ended the
\* pipeline early (pipeline.cpp:526-597).  Sources and UntilN must not have the
\* attribute NoTerminate.
THEOREM LoopOutputIsComplete ==
    ASSUME StopsPipeline
    PROVE  Spec => []CompleteOutput
<1>1. ASSUME LoopInv PROVE CompleteOutput
  <2>. SUFFICES ASSUME pc = "pipelineExit", ~EndedEarly, NEW k \in Kernels
                PROVE  IF k \in Sources THEN instance[k].produced = FileSize
                                        ELSE instance[k].processed = FileSize
    BY DEF CompleteOutput
  <2>. USE <1>1 DEF LoopInv
  <2>1. /\ history \in [Kernels -> Seq(KernelState)]
        /\ \A j \in Kernels : history[j] # <<>> => instance[j] = history[j][Len(history[j])]
    <3>1. LastRecorded /\ history \in [Kernels -> Seq(KernelState)]
      BY DEF ScheduleInv, FileInv, InputInv
    <3>. QED
      BY <3>1 DEF LastRecorded
  <2>2. NoneCut(history)
    BY <2>1 DEF NoneCut, Cut, EndedEarly
  <2>3. PICK n \in Nat : \A j \in Kernels : Len(history[j]) = n
    <3>1. PICK n \in Nat : \A j \in Kernels : Len(history[j]) = IF j < at THEN n + 1 ELSE n
      BY DEF ScheduleInv, InStep
    <3>2. \A j \in Kernels : ~(j < at)
      BY DEF LeftAtSignal, Kernels
    <3>3. \A j \in Kernels : Len(history[j]) = n
      BY <3>1, <3>2
    <3>. QED
      BY <3>3
  <2>4. PICK e \in Kernels \ NoTerminate : instance[e].signal
    BY DEF LeftAtSignal
  <2>5. n # 0
    <3>. SUFFICES ASSUME n = 0 PROVE FALSE
      OBVIOUS
    <3>1. history[e] = <<>>
      BY <2>1, <2>3
    <3>2. instance[e] = InitKernelState
      BY <3>1 DEF ScheduleInv, LastRecorded
    <3>. QED
      BY <2>4, <3>2 DEF InitKernelState
  <2>6. \A j \in Kernels : n \in 1 .. Len(history[j]) /\ history[j][n] = instance[j]
    BY <2>1, <2>3, <2>5
  <2>7. FileSize < Items(n)
    BY <2>2, <2>4, <2>6, EndsWithInput, ItemsAssumption DEF FileInv
  <2>8. \A j \in 0 .. k : ~Cut(j, history[j][n])
    BY <2>6, EarlierKernels DEF Cut, EndedEarly
  <2>. QED
    BY <2>6, <2>7, <2>8 DEF FileInv, InputInv, ReachesEnd
<1>2. Init => LoopInv
  BY ScheduleInit, NothingCalled DEF Init, LoopInv, FileInv, LeftAtSignal
<1>3. LoopInv /\ [Next]_vars => LoopInv'
  BY LoopInvNext
<1>4. LoopInv => CompleteOutput
  BY <1>1
<1>. QED
  BY <1>2, <1>3, <1>4, PTL DEF Spec

=============================================================================
