----------------------- MODULE SegmentDataflowProofs -----------------------
(***************************************************************************)
(* Proofs that the segment-parallel pipeline implements Dataflow, loses no *)
(* segment and overwrites none, for every number of threads and kernels,   *)
(* every pipeline shape and every file.  The invariant of the first part   *)
(* relates what the threads hold in their registers to what the kernels    *)
(* left behind at the segment each thread holds: the tickets of ControlInv *)
(* see to it that no later call gets between a call and the reads of it.   *)
(***************************************************************************)
EXTENDS SegmentDataflow, SegmentPipelineProofs

\* The pipeline stops at kernel k.
Ended(k) == k \notin NoTerminate /\ instance[k].signal

\* A kernel's state is the one that its last call left behind.
LastRecorded ==
    \A k \in Kernels :
        instance[k] = IF history[k] = <<>> THEN InitKernelState ELSE history[k][Len(history[k])]

\* A ticket counts the calls, the last of which may have yet to be released;
\* but threads that leave at an ended kernel raise its ticket without a call.
TicketsRecorded ==
    \A k \in Kernels :
        \/ Ended(k)
        \/ Len(history[k]) = logicalSegNo[k]
        \/ \E t \in Threads : /\ at[t] = k /\ pc[t] = "release"
                              /\ Len(history[k]) = logicalSegNo[k] + 1

\* A thread about to call a kernel is to make the call of its segment.
EnteredDue ==
    \A t \in Threads : pc[t] = "doSegment" =>
        ~Ended(at[t]) /\ Len(history[at[t]]) = segNo[t]

\* The registers hold what the kernels had produced at the thread's segment.
RegistersRecorded ==
    \A t \in Threads : \A b \in Kernels : Past(t, b) =>
        /\ segNo[t] < Len(history[b])
        /\ producedPos[t][b] = history[b][segNo[t] + 1].produced

\* The final flag says whether one of them signalled at that segment.
FlagRecorded ==
    \A t \in Threads :
        terminated[t] <=> \E b \in Kernels : /\ Past(t, b) /\ b \notin NoTerminate
                                             /\ history[b][segNo[t] + 1].signal

HistoryInv ==
    /\ history \in [Kernels -> Seq(KernelState)]
    /\ LastRecorded
    /\ TicketsRecorded
    /\ EnteredDue
    /\ RegistersRecorded
    /\ FlagRecorded

\* At first nothing has been called.
LEMMA NothingRecorded == HistoryInit => HistoryInv
<1>. SUFFICES ASSUME HistoryInit PROVE HistoryInv
  OBVIOUS
<1>. USE DEF HistoryInit, Init
<1>1. history \in [Kernels -> Seq(KernelState)] /\ \A k \in Kernels : Len(history[k]) = 0
  OBVIOUS
<1>2. \A t \in Threads : \A b \in Kernels : ~Past(t, b)
  BY DEF Past, Kernels
<1>3. LastRecorded /\ TicketsRecorded /\ EnteredDue
  BY <1>1 DEF LastRecorded, TicketsRecorded, EnteredDue
<1>4. RegistersRecorded /\ FlagRecorded
  BY <1>2 DEF RegistersRecorded, FlagRecorded
<1>. QED
  BY <1>1, <1>3, <1>4 DEF HistoryInv

\* The steps that call no kernel: a thread keeps its segment and the kernels
\* it has passed, or starts a new one with none.
LEMMA HistoryKept ==
    ASSUME HistoryInv, UNCHANGED <<instance, history, terminated>>,
           \A t \in Threads :
               \/ /\ segNo'[t] = segNo[t] /\ producedPos'[t] = producedPos[t]
                  /\ \A b \in Kernels : Past(t, b)' <=> Past(t, b)
               \/ ~terminated[t] /\ \A b \in Kernels : ~Past(t, b)',
           TicketsRecorded', EnteredDue'
    PROVE  HistoryInv'
<1>1. LastRecorded' /\ history' \in [Kernels -> Seq(KernelState)]
  BY DEF HistoryInv, LastRecorded
<1>2. RegistersRecorded'
  BY DEF HistoryInv, RegistersRecorded
<1>3. FlagRecorded'
  BY DEF HistoryInv, FlagRecorded
<1>. QED
  BY <1>1, <1>2, <1>3 DEF HistoryInv

\* A call's results depend on the counts of the kernel's inputs alone, and are
\* what Dataflow says.
LEMMA ResultsOfInputs ==
    ASSUME NEW k \in Kernels, NEW st, NEW final, NEW pos1, NEW pos2,
           \A b \in InputSet(k) : pos1[b] = pos2[b]
    PROVE  Abstract!DoSegmentResults(k, st, pos1, final) = DoSegmentResults(k, st, pos2, final)
<1>1. k \notin Sources => pos1[Inputs[k][1]] = pos2[Inputs[k][1]]
  BY InputsAssumption DEF Sources, InputSet
<1>2. {pos1[b] : b \in InputSet(k)} = {pos2[b] : b \in InputSet(k)}
  OBVIOUS
<1>3. Abstract!Sources = Sources
  BY DEF Abstract!Sources, Sources, Abstract!Kernels, Kernels
<1>4. Abstract!InputSet(k) = InputSet(k)
  BY DEF Abstract!InputSet, InputSet
<1>5. \A S : Abstract!Min(S) = Min(S)
  BY DEF Abstract!Min, Min
<1>6. k \notin Sources => Abstract!Available(k, pos1) = Available(k, pos2)
  BY <1>1, <1>2, <1>4, <1>5 DEF Abstract!Available, Available
<1>7. \A avail : Abstract!Advance(k, st, avail, final) = Advance(k, st, avail, final)
  BY DEF Abstract!Advance, Advance, Abstract!StrideItems, StrideItems
<1>8. \A avail : Abstract!EarlyTermination(k, st, avail, final) = EarlyTermination(k, st, avail, final)
  <2>. SUFFICES ASSUME NEW avail
                PROVE  Abstract!EarlyTermination(k, st, avail, final) = EarlyTermination(k, st, avail, final)
    OBVIOUS
  <2>. DEFINE normal == Advance(k, st, avail, final)
  <2>1. Abstract!Advance(k, st, avail, final) = normal
    BY <1>7
  <2>. HIDE DEF normal
  <2>2. Abstract!EarlyTermination(k, st, avail, final)
          = {[normal EXCEPT !.produced = n, !.signal = TRUE] : n \in st.produced + 1 .. normal.processed - 1}
    BY <2>1 DEF Abstract!EarlyTermination
  <2>3. EarlyTermination(k, st, avail, final)
          = {[normal EXCEPT !.produced = n, !.signal = TRUE] : n \in st.produced + 1 .. normal.processed - 1}
    BY DEF EarlyTermination, normal
  <2>. QED
    BY <2>2, <2>3
<1>9. Abstract!SourceSegment(st) = SourceSegment(st)
  BY DEF Abstract!SourceSegment, SourceSegment
<1>. QED
  BY <1>3, <1>6, <1>7, <1>8, <1>9 DEF Abstract!DoSegmentResults, DoSegmentResults

\* A thread inside a kernel is alone there.
LEMMA AloneInside ==
    ASSUME ControlInv, NEW t \in Threads, NEW u \in Threads, Inside(t), t # u,
           at[u] = at[t]
    PROVE  ~Inside(u)
<1>1. segNo[t] # segNo[u]
  BY SegmentsDisjoint DEF ControlInv
<1>. QED
  BY <1>1 DEF ControlInv, InPlace

\* A doSegment call of a thread is a step of Dataflow.
LEMMA CallIsStep ==
    ASSUME ControlInv, DataInv, HistoryInv, NEW u \in Threads, RecordedDoSegment(u)
    PROVE  Abstract!Next
<1>. DEFINE k == at[u]
            n == segNo[u]
            pos == [j \in 0 .. k - 1 |-> history[j][n + 1].produced]
<1>1. /\ pc[u] = "doSegment" /\ k \in Kernels /\ n \in Nat
      /\ history[k] \in Seq(KernelState)
      /\ instance \in [Kernels -> KernelState]
      /\ terminated[u] \in BOOLEAN
  <2>1. pc[u] = "doSegment"
    BY DEF RecordedDoSegment, DoSegment
  <2>2. k \in Kernels /\ n \in Nat
    BY <2>1, KernelsAssumption DEF ControlInv, ControlType, InPlace, Kernels
  <2>. QED
    BY <2>1, <2>2 DEF DataInv, DataType, HistoryInv
<1>2. PICK st \in DoSegmentResults(k, instance[k], producedPos[u], terminated[u]) :
         instance' = [instance EXCEPT ![k] = st]
  BY DEF RecordedDoSegment, DoSegment, InputPositions
<1>3. history' = [history EXCEPT ![k] = Append(@, st)]
  BY <1>1, <1>2 DEF RecordedDoSegment
<1>4. Len(history[k]) = n /\ ~Ended(k)
  BY <1>1 DEF HistoryInv, EnteredDue
<1>5. \A j \in 0 .. k - 1 :
         /\ j \in Kernels /\ Past(u, j)
         /\ Len(history[j]) >= n + 1
         /\ producedPos[u][j] = history[j][n + 1].produced
  <2>. SUFFICES ASSUME NEW j \in 0 .. k - 1
                PROVE  /\ j \in Kernels /\ Past(u, j)
                       /\ Len(history[j]) >= n + 1
                       /\ producedPos[u][j] = history[j][n + 1].produced
    OBVIOUS
  <2>1. j \in Kernels /\ Past(u, j)
    BY <1>1, KernelsAssumption DEF Kernels, Past
  <2>2. history[j] \in Seq(KernelState)
    BY <2>1 DEF HistoryInv
  <2>. QED
    BY <1>1, <2>1, <2>2 DEF HistoryInv, RegistersRecorded
<1>6. \A j \in Kernels : Past(u, j) => j \in 0 .. k - 1
  BY <1>1 DEF Past, Kernels
<1>. HIDE DEF pos
<1>7. instance[k] = Abstract!KernelAfter(k, n)
  <2>1. n = 0 <=> history[k] = <<>>
    BY <1>1, <1>4
  <2>. QED
    BY <1>1, <1>4, <2>1 DEF HistoryInv, LastRecorded, Abstract!KernelAfter,
       Abstract!InitKernelState, InitKernelState
<1>8. Abstract!Final(k, n + 1) = terminated[u]
  <2>1. terminated[u] <=> \E b \in Kernels : /\ Past(u, b) /\ b \notin NoTerminate
                                             /\ history[b][n + 1].signal
    BY DEF HistoryInv, FlagRecorded
  <2>2. Abstract!Final(k, n + 1) <=> terminated[u]
    BY <1>5, <1>6, <2>1 DEF Abstract!Final
  <2>3. Abstract!Final(k, n + 1) \in BOOLEAN
    BY DEF Abstract!Final
  <2>. QED
    BY <1>1, <2>2, <2>3
<1>9. Abstract!DoSegmentResults(k, instance[k], pos, terminated[u])
        = DoSegmentResults(k, instance[k], producedPos[u], terminated[u])
  <2>1. \A b \in InputSet(k) : pos[b] = producedPos[u][b]
    BY <1>1, <1>5, InputsAreEarlier DEF Kernels, pos
  <2>. QED
    BY <1>1, <2>1, ResultsOfInputs
<1>10. ~Abstract!Stopped(k)
  BY <1>1, <1>4, <1>7 DEF Abstract!Stopped, Ended
<1>11. Abstract!Step(k)
  <2>1. Len(history[k]) + 1 = n + 1 /\ (n + 1) - 1 = n
    BY <1>1, <1>4
  <2>2. \A j \in 0 .. k - 1 : Len(history[j]) >= n + 1
    BY <1>5
  <2>3. \E x \in Abstract!DoSegmentResults(k, Abstract!KernelAfter(k, (n + 1) - 1), pos,
                                          Abstract!Final(k, n + 1)) :
           history' = [history EXCEPT ![k] = Append(@, x)]
    BY <1>2, <1>3, <1>7, <1>8, <1>9, <2>1
  <2>. QED
    BY <1>10, <2>1, <2>2, <2>3 DEF Abstract!Step, pos
<1>. QED
  BY <1>1, <1>11 DEF Abstract!Next, Abstract!Kernels, Kernels

\* Thread u's call of kernel at[u] leaves it in state st, and is recorded.
LeavesRecord(u, st) ==
    Leaves(u, st) /\ history' = [history EXCEPT ![at[u]] = Append(@, st)]

\* What a recorded doSegment call of a thread is.
LEMMA CallLeavesRecord ==
    ASSUME ControlInv, DataInv, NEW u \in Threads, RecordedDoSegment(u)
    PROVE  \E st \in DoSegmentResults(at[u], instance[at[u]], producedPos[u], terminated[u]) :
              st \in KernelState /\ LeavesRecord(u, st)
<1>1. PICK st \in DoSegmentResults(at[u], instance[at[u]], producedPos[u], terminated[u]) :
         Leaves(u, st)
  BY DEF RecordedDoSegment, DoSegment, InputPositions, Leaves
<1>2. /\ instance \in [Kernels -> KernelState] /\ instance' \in [Kernels -> KernelState]
      /\ at[u] \in Kernels
  BY DataCalled, CalledInPlace DEF RecordedDoSegment, DoSegment, DataInv, DataType
<1>3. instance'[at[u]] = st /\ st \in KernelState
  BY <1>1, <1>2 DEF Leaves
<1>. QED
  BY <1>1, <1>3 DEF LeavesRecord, RecordedDoSegment

\* A call is recorded at its place and changes no other record, whatever it
\* leaves behind.
LEMMA HistoryCalled ==
    ASSUME ControlInv, DataInv, HistoryInv,
           NEW u \in Threads, NEW st \in KernelState, LeavesRecord(u, st)
    PROVE  HistoryInv'
<1>. DEFINE k == at[u]
<1>1. /\ pc[u] = "doSegment" /\ k \in Kernels /\ segNo[u] \in Nat
      /\ logicalSegNo[k] = segNo[u] /\ Inside(u)
      /\ Len(history[k]) = segNo[u]
      /\ pc' = [pc EXCEPT ![u] = "release"]
      /\ UNCHANGED <<logicalSegNo, segNo, at>>
  BY KernelsAssumption DEF LeavesRecord, Leaves, ControlInv, ControlType, InPlace,
     Inside, HistoryInv, EnteredDue, Kernels
<1>2. /\ instance' = [instance EXCEPT ![k] = st]
      /\ producedPos' = [producedPos EXCEPT ![u][k] = st.produced]
      /\ terminated' = [terminated EXCEPT ![u] = TerminatedAfter(k, st, @)]
  BY DEF LeavesRecord, Leaves
<1>3. /\ instance \in [Kernels -> KernelState]
      /\ history \in [Kernels -> Seq(KernelState)]
      /\ terminated \in [Threads -> BOOLEAN]
      /\ producedPos \in [Threads -> [Kernels -> Nat]]
      /\ pc \in [Threads -> {"unborn", "segmentWait", "doSegment", "release", "setConsumed", "exitThread"}]
  BY DEF DataInv, DataType, ControlInv, ControlType, HistoryInv
<1>4. /\ instance'[k] = st
      /\ \A b \in Kernels \ {k} : instance'[b] = instance[b]
  BY <1>1, <1>2, <1>3
<1>5. history' = [history EXCEPT ![k] = Append(@, st)]
  BY DEF LeavesRecord
<1>6. /\ history'[k] = Append(history[k], st)
      /\ \A b \in Kernels \ {k} : history'[b] = history[b]
      /\ Len(history'[k]) = segNo[u] + 1
      /\ history'[k][segNo[u] + 1] = st
      /\ history'[k] # <<>>
      /\ history' \in [Kernels -> Seq(KernelState)]
  <2>1. history[k] \in Seq(KernelState)
    BY <1>1, <1>3
  <2>2. /\ Append(history[k], st) \in Seq(KernelState)
        /\ Len(Append(history[k], st)) = segNo[u] + 1
        /\ Append(history[k], st)[segNo[u] + 1] = st
    BY <1>1, <1>4, <2>1
  <2>3. /\ history'[k] = Append(history[k], st)
        /\ \A b \in Kernels \ {k} : history'[b] = history[b]
        /\ history' \in [Kernels -> Seq(KernelState)]
    BY <1>1, <1>3, <1>5, <2>2
  <2>4. Len(history'[k]) # 0
    BY <1>1, <2>2, <2>3
  <2>. QED
    BY <2>2, <2>3, <2>4
<1>7. \A b \in Kernels : \A i \in 1 .. Len(history[b]) :
         Len(history[b]) <= Len(history'[b]) /\ history'[b][i] = history[b][i]
  <2>. SUFFICES ASSUME NEW b \in Kernels, NEW i \in 1 .. Len(history[b])
                PROVE  Len(history[b]) <= Len(history'[b]) /\ history'[b][i] = history[b][i]
    OBVIOUS
  <2>1. history[b] \in Seq(KernelState)
    BY <1>3
  <2>2. CASE b = k
    <3>1. /\ Len(Append(history[b], st)) = Len(history[b]) + 1
          /\ Append(history[b], st)[i] = history[b][i]
          /\ Len(history[b]) \in Nat
      BY <1>4, <2>1
    <3>2. history'[b] = Append(history[b], st)
      BY <1>6, <2>2
    <3>. QED
      BY <3>1, <3>2
  <2>3. CASE b # k
    <3>1. history'[b] = history[b] /\ Len(history[b]) \in Nat
      BY <1>6, <2>1, <2>3
    <3>. QED
      BY <3>1
  <2>. QED
    BY <2>2, <2>3
<1>8. /\ \A t \in Threads \ {u} : pc'[t] = pc[t] /\ \A b \in Kernels : Past(t, b)' <=> Past(t, b)
      /\ pc'[u] = "release"
      /\ \A b \in Kernels : Past(u, b)' <=> Past(u, b) \/ b = k
      /\ ~Past(u, k)
  BY <1>1, <1>3 DEF Past, Kernels
<1>9. LastRecorded'
  BY <1>1, <1>4, <1>6 DEF HistoryInv, LastRecorded
<1>10. TicketsRecorded'
  <2>. SUFFICES ASSUME NEW b \in Kernels
                PROVE  \/ Ended(b)'
                       \/ Len(history'[b]) = logicalSegNo[b]
                       \/ \E t \in Threads : /\ at[t] = b /\ pc'[t] = "release"
                                             /\ Len(history'[b]) = logicalSegNo[b] + 1
    BY <1>1 DEF TicketsRecorded
  <2>1. CASE b = k
    BY <1>1, <1>6, <1>8, <2>1
  <2>2. CASE b # k
    <3>1. history'[b] = history[b] /\ (Ended(b)' <=> Ended(b))
      BY <1>4, <1>6, <2>2 DEF Ended
    <3>2. ASSUME NEW t \in Threads, pc[t] = "release" PROVE pc'[t] = "release"
      BY <1>1, <1>8, <3>2
    <3>. QED
      BY <3>1, <3>2 DEF HistoryInv, TicketsRecorded
  <2>. QED
    BY <2>1, <2>2
<1>11. EnteredDue'
  <2>. SUFFICES ASSUME NEW t \in Threads, pc'[t] = "doSegment"
                PROVE  ~Ended(at[t])' /\ Len(history'[at[t]]) = segNo[t]
    BY <1>1 DEF EnteredDue, Ended
  <2>1. t # u /\ pc[t] = "doSegment"
    BY <1>8
  <2>2. at[t] # k
    BY <1>1, <2>1, AloneInside DEF Inside
  <2>3. at[t] \in Kernels
    BY <2>1, KernelsAssumption DEF ControlInv, ControlType, InPlace, Kernels
  <2>. QED
    BY <1>1, <1>4, <1>6, <2>1, <2>2, <2>3 DEF HistoryInv, EnteredDue, Ended
<1>12. RegistersRecorded'
  <2>. SUFFICES ASSUME NEW t \in Threads, NEW b \in Kernels, Past(t, b)'
                PROVE  /\ segNo[t] < Len(history'[b])
                       /\ producedPos'[t][b] = history'[b][segNo[t] + 1].produced
    BY <1>1 DEF RegistersRecorded
  <2>1. CASE t = u /\ b = k
    BY <1>1, <1>2, <1>3, <1>6, <2>1
  <2>2. CASE ~(t = u /\ b = k)
    <3>1. Past(t, b) /\ producedPos'[t][b] = producedPos[t][b]
      BY <1>1, <1>2, <1>3, <1>8, <2>2
    <3>2. /\ segNo[t] < Len(history[b])
          /\ producedPos[t][b] = history[b][segNo[t] + 1].produced
      BY <3>1 DEF HistoryInv, RegistersRecorded
    <3>3. segNo[t] \in Nat /\ Len(history[b]) \in Nat /\ Len(history'[b]) \in Nat
      <4>1. segNo[t] \in Nat
        BY DEF ControlInv, ControlType
      <4>2. history[b] \in Seq(KernelState) /\ history'[b] \in Seq(KernelState)
        BY <1>3, <1>6
      <4>. QED
        BY <4>1, <4>2
    <3>4. segNo[t] + 1 \in 1 .. Len(history[b])
      BY <3>2, <3>3
    <3>5. /\ Len(history[b]) <= Len(history'[b])
          /\ history'[b][segNo[t] + 1] = history[b][segNo[t] + 1]
      BY <1>7, <3>4
    <3>. QED
      BY <3>1, <3>2, <3>3, <3>5
  <2>. QED
    BY <2>1, <2>2
<1>13. FlagRecorded'
  <2>. SUFFICES ASSUME NEW t \in Threads
                PROVE  terminated'[t] <=> \E b \in Kernels : /\ Past(t, b)' /\ b \notin NoTerminate
                                                             /\ history'[b][segNo[t] + 1].signal
    BY <1>1 DEF FlagRecorded
  <2>1. terminated[t] <=> \E b \in Kernels : /\ Past(t, b) /\ b \notin NoTerminate
                                             /\ history[b][segNo[t] + 1].signal
    BY DEF HistoryInv, FlagRecorded
  <2>2. \A b \in Kernels : Past(t, b) => history'[b][segNo[t] + 1] = history[b][segNo[t] + 1]
    <3>. SUFFICES ASSUME NEW b \in Kernels, Past(t, b)
                  PROVE  history'[b][segNo[t] + 1] = history[b][segNo[t] + 1]
      OBVIOUS
    <3>1. segNo[t] < Len(history[b])
      BY DEF HistoryInv, RegistersRecorded
    <3>2. segNo[t] \in Nat /\ Len(history[b]) \in Nat
      BY <1>3 DEF ControlInv, ControlType
    <3>. QED
      BY <1>7, <3>1, <3>2
  <2>3. CASE t # u
    BY <1>2, <1>3, <1>8, <2>1, <2>2, <2>3
  <2>4. CASE t = u
    <3>1. terminated'[u] <=> terminated[u] \/ (k \notin NoTerminate /\ st.signal)
      BY <1>2, <1>3 DEF TerminatedAfter
    <3>2. \A b \in Kernels : Past(u, b)' <=> Past(u, b) \/ b = k
      BY <1>8
    <3>. QED
      BY <1>1, <1>6, <2>1, <2>2, <2>4, <3>1, <3>2
  <2>. QED
    BY <2>3, <2>4
<1>. QED
  BY <1>6, <1>9, <1>10, <1>11, <1>12, <1>13 DEF HistoryInv

\* The other steps keep the records: a thread that enters a kernel finds it
\* called for every earlier segment, and one that leaves a kernel raises the
\* ticket by the one call it made, or for a kernel that has ended.
LEMMA HistoryCoordinated ==
    ASSUME ControlInv, DataInv, HistoryInv, UNCHANGED history,
           NEW t \in Threads, Coordinate(t)
    PROVE  HistoryInv'
<1>. USE DEF ControlInv, ControlType
<1>1. ASSUME UNCHANGED <<instance, logicalSegNo, pc, segNo, at, terminated, producedPos>>
      PROVE  HistoryInv'
  BY <1>1, HistoryKept DEF HistoryInv, TicketsRecorded, EnteredDue, Ended, Past
<1>2. CASE Enter(t)
  <2>1. /\ pc[t] = "segmentWait" /\ pc' = [pc EXCEPT ![t] = "doSegment"]
        /\ UNCHANGED <<instance, logicalSegNo, segNo, at, terminated, producedPos>>
    BY <1>2 DEF Enter, kernelVars, registers
  <2>2. at[t] \in Kernels /\ logicalSegNo[at[t]] = segNo[t] /\ ~Ended(at[t])
    BY <1>2, ReadyIsDue DEF Enter, Completed, Ended
  <2>3. Len(history[at[t]]) = segNo[t]
    <3>1. ASSUME NEW u \in Threads, at[u] = at[t], pc[u] = "release" PROVE FALSE
      <4>1. u # t /\ Inside(u)
        BY <2>1, <3>1 DEF Inside
      <4>2. segNo[u] = segNo[t]
        BY <2>2, <3>1, <4>1 DEF InPlace
      <4>. QED
        BY <4>1, <4>2, SegmentsDisjoint
    <3>. QED
      BY <2>2, <3>1 DEF HistoryInv, TicketsRecorded
  <2>4. TicketsRecorded'
    <3>1. \A u \in Threads : pc[u] = "release" => pc'[u] = "release"
      BY <2>1
    <3>. QED
      BY <2>1, <3>1 DEF HistoryInv, TicketsRecorded, Ended
  <2>5. EnteredDue'
    BY <2>1, <2>2, <2>3 DEF HistoryInv, EnteredDue, Ended
  <2>6. \A u \in Threads : \A b \in Kernels : Past(u, b)' <=> Past(u, b)
    BY <2>1 DEF Past
  <2>. QED
    BY <2>1, <2>4, <2>5, <2>6, HistoryKept
<1>3. CASE ExitPipeline(t)
  <2>1. /\ pc[t] = "segmentWait" /\ pc' = [pc EXCEPT ![t] = "exitThread"]
        /\ logicalSegNo' = [logicalSegNo EXCEPT ![at[t]] = NextSegNo(t)]
        /\ Ended(at[t])
        /\ UNCHANGED <<instance, segNo, at, terminated, producedPos>>
    BY <1>3 DEF ExitPipeline, Completed, Ended, registers
  <2>2. TicketsRecorded'
    <3>1. \A u \in Threads : pc[u] = "release" => pc'[u] = "release"
      BY <2>1
    <3>2. \A k \in Kernels : k # at[t] => logicalSegNo'[k] = logicalSegNo[k]
      BY <2>1
    <3>. QED
      BY <2>1, <3>1, <3>2 DEF HistoryInv, TicketsRecorded, Ended
  <2>3. EnteredDue'
    BY <2>1 DEF HistoryInv, EnteredDue, Ended
  <2>4. \A u \in Threads : \A b \in Kernels : Past(u, b)' <=> Past(u, b)
    BY <2>1 DEF Past
  <2>. QED
    BY <2>1, <2>2, <2>3, <2>4, HistoryKept
<1>4. CASE Release(t)
  <2>1. /\ pc[t] = "release" /\ at[t] \in Kernels /\ Inside(t)
        /\ pc' = [pc EXCEPT ![t] = IF at[t] = NumKernels - 1 THEN "setConsumed" ELSE "segmentWait"]
        /\ logicalSegNo' = [logicalSegNo EXCEPT ![at[t]] = NextSegNo(t)]
        /\ at' = [at EXCEPT ![t] = at[t] + 1]
        /\ UNCHANGED <<instance, segNo, terminated, producedPos>>
        /\ logicalSegNo[at[t]] = segNo[t]
    BY <1>4, KernelsAssumption DEF Release, InPlace, Inside, Kernels
  <2>2. \A u \in Threads : \A b \in Kernels : Past(u, b)' <=> Past(u, b)
    BY <2>1 DEF Past, Kernels
  <2>3. Ended(at[t]) \/ Len(history[at[t]]) = logicalSegNo'[at[t]]
    <3>1. segNo[t] < Len(history[at[t]])
      BY <2>1 DEF HistoryInv, RegistersRecorded, Past
    <3>2. /\ segNo[t] \in Nat /\ logicalSegNo'[at[t]] = segNo[t] + 1
          /\ Len(history[at[t]]) # segNo[t]
      BY <2>1, <3>1 DEF NextSegNo
    <3>. QED
      BY <2>1, <3>2 DEF HistoryInv, TicketsRecorded
  <2>4. TicketsRecorded'
    <3>. SUFFICES ASSUME NEW k \in Kernels
                  PROVE  \/ Ended(k)
                         \/ Len(history[k]) = logicalSegNo'[k]
                         \/ \E u \in Threads : /\ at'[u] = k /\ pc'[u] = "release"
                                               /\ Len(history[k]) = logicalSegNo'[k] + 1
      BY <2>1 DEF TicketsRecorded, Ended
    <3>1. CASE k = at[t]
      BY <2>3, <3>1
    <3>2. CASE k # at[t]
      <4>1. logicalSegNo'[k] = logicalSegNo[k]
        BY <2>1, <3>2
      <4>2. \A u \in Threads : at[u] = k => at'[u] = k /\ pc'[u] = pc[u]
        BY <2>1, <3>2
      <4>. QED
        BY <4>1, <4>2 DEF HistoryInv, TicketsRecorded
    <3>. QED
      BY <3>1, <3>2
  <2>5. EnteredDue'
    <3>1. \A u \in Threads : pc'[u] = "doSegment" => pc[u] = "doSegment" /\ at'[u] = at[u]
      BY <2>1
    <3>. QED
      BY <2>1, <3>1 DEF HistoryInv, EnteredDue, Ended
  <2>. QED
    BY <2>1, <2>2, <2>4, <2>5, HistoryKept
<1>5. CASE \E b \in Kernels : StoreConsumed(t, b)
  BY <1>1, <1>5 DEF StoreConsumed
<1>6. CASE LoopSegment(t)
  <2>1. /\ pc[t] = "setConsumed" /\ ~terminated[t]
        /\ segNo' = [segNo EXCEPT ![t] = NextHeld(t)]
        /\ at' = [at EXCEPT ![t] = 0]
        /\ pc' = [pc EXCEPT ![t] = "segmentWait"]
        /\ producedPos' = [producedPos EXCEPT ![t] = NoPositions]
        /\ UNCHANGED <<instance, logicalSegNo, terminated>>
    BY <1>6 DEF LoopSegment, kernelVars
  <2>2. \A u \in Threads \ {t} : /\ segNo'[u] = segNo[u] /\ producedPos'[u] = producedPos[u]
                                 /\ pc'[u] = pc[u] /\ at'[u] = at[u]
    BY <2>1 DEF DataInv, DataType
  <2>3. pc'[t] = "segmentWait" /\ at'[t] = 0
    BY <2>1
  <2>4. \A b \in Kernels : ~Past(t, b)'
    BY <2>3 DEF Past, Kernels
  <2>5. TicketsRecorded'
    <3>1. \A u \in Threads : pc[u] = "release" => pc'[u] = "release" /\ at'[u] = at[u]
      BY <2>1, <2>2
    <3>. QED
      BY <2>1, <3>1 DEF HistoryInv, TicketsRecorded, Ended
  <2>6. EnteredDue'
    <3>1. \A u \in Threads : pc'[u] = "doSegment" =>
             pc[u] = "doSegment" /\ at'[u] = at[u] /\ segNo'[u] = segNo[u]
      BY <2>2, <2>3
    <3>. QED
      BY <2>1, <3>1 DEF HistoryInv, EnteredDue, Ended
  <2>7. \A u \in Threads \ {t} : \A b \in Kernels : Past(u, b)' <=> Past(u, b)
    BY <2>2 DEF Past
  <2>. QED
    BY <2>1, <2>2, <2>4, <2>5, <2>6, <2>7, HistoryKept
<1>7. CASE ExitThread(t)
  <2>1. /\ pc[t] = "setConsumed" /\ pc' = [pc EXCEPT ![t] = "exitThread"]
        /\ UNCHANGED <<instance, logicalSegNo, segNo, at, terminated, producedPos>>
    BY <1>7 DEF ExitThread, kernelVars, registers
  <2>2. \A u \in Threads : /\ pc[u] = "release" => pc'[u] = "release"
                           /\ pc'[u] = "doSegment" => pc[u] = "doSegment"
    BY <2>1
  <2>3. TicketsRecorded' /\ EnteredDue'
    BY <2>1, <2>2 DEF HistoryInv, TicketsRecorded, EnteredDue, Ended
  <2>4. \A u \in Threads : \A b \in Kernels : Past(u, b)' <=> Past(u, b)
    BY <2>1 DEF Past
  <2>. QED
    BY <2>1, <2>3, <2>4, HistoryKept
<1>. QED
  BY <1>2, <1>3, <1>4, <1>5, <1>6, <1>7 DEF Coordinate

\* The driver's steps touch no kernel and no register.
LEMMA HistoryDriven ==
    ASSUME ControlInv, HistoryInv, UNCHANGED history, DriverStep
    PROVE  HistoryInv'
<1>1. /\ UNCHANGED <<instance, logicalSegNo, segNo, at, terminated, producedPos>>
      /\ pc' = pc \/ \E t \in Threads : pc[t] = "unborn" /\ pc' = [pc EXCEPT ![t] = "segmentWait"]
  <2>1. CASE \E t \in Threads : Spawn(t)
    BY <2>1 DEF Spawn, kernelVars, registers
  <2>2. CASE CallThread0
    <3>1. pc[0] = "unborn" /\ 0 \in Threads
      BY <2>2, ThreadsAssumption DEF CallThread0, ControlInv, Unstarted, Threads
    <3>. QED
      BY <2>2, <3>1 DEF CallThread0, kernelVars, registers
  <2>3. CASE JoinThreads \/ FinalizeInstances
    BY <2>3 DEF JoinThreads, FinalizeInstances, kernelVars, registers
  <2>. QED
    BY <2>1, <2>2, <2>3 DEF DriverStep
<1>2. \A u \in Threads : /\ pc[u] = "release" <=> pc'[u] = "release"
                         /\ pc'[u] = "doSegment" => pc[u] = "doSegment"
  BY <1>1 DEF ControlInv, ControlType
<1>3. TicketsRecorded' /\ EnteredDue'
  BY <1>1, <1>2 DEF HistoryInv, TicketsRecorded, EnteredDue, Ended
<1>4. \A u \in Threads : \A b \in Kernels : Past(u, b)' <=> Past(u, b)
  BY <1>1, <1>2 DEF Past
<1>. QED
  BY <1>1, <1>3, <1>4, HistoryKept

\* A step of the recording pipeline is one of the pipeline.
LEMMA RecordingIsNext == [HistoryNext]_allVars => [Next]_vars
BY DEF HistoryNext, RecordedDoSegment, Unrecorded, Next, ThreadStep, allVars

\* Every step keeps the records.
LEMMA HistoryInvNext ==
    ControlInv /\ DataInv /\ HistoryInv /\ [HistoryNext]_allVars => HistoryInv'
<1>. SUFFICES ASSUME ControlInv, DataInv, HistoryInv, [HistoryNext]_allVars
              PROVE  HistoryInv'
  OBVIOUS
<1>1. CASE \E t \in Threads : RecordedDoSegment(t)
  BY <1>1, CallLeavesRecord, HistoryCalled
<1>2. CASE (\E t \in Threads : Coordinate(t)) /\ UNCHANGED history
  BY <1>2, HistoryCoordinated
<1>3. CASE DriverStep /\ UNCHANGED history
  BY <1>3, HistoryDriven
<1>4. CASE UNCHANGED allVars
  <2>1. UNCHANGED <<instance, logicalSegNo, pc, segNo, at, terminated, producedPos, history>>
    BY <1>4 DEF allVars, vars, kernelVars, registers
  <2>. QED
    BY <2>1, HistoryKept DEF HistoryInv, TicketsRecorded, EnteredDue, Ended, Past
<1>. QED
  BY <1>1, <1>2, <1>3, <1>4 DEF HistoryNext, Unrecorded, Returned, allVars

\* Whatever the interleaving of the threads, the pipeline implements Dataflow:
\* each kernel is called once for each segment, with the counts and the final
\* flag of that segment, and never again after it has ended the pipeline
\* (pipeline.cpp:121-214).
THEOREM ThreadsImplementDataflow == HistorySpec => ImplementsDataflow
<1>. DEFINE Inv == ControlInv /\ DataInv /\ HistoryInv
<1>1. HistoryInit => Inv
  BY ControlInit, DataInit, NothingRecorded DEF HistoryInit
<1>2. Inv /\ [HistoryNext]_allVars => Inv'
  BY RecordingIsNext, ControlNext, DataNext, HistoryInvNext
<1>3. HistoryInit => Abstract!Init
  BY DEF HistoryInit, Abstract!Init, Abstract!Kernels, Kernels
<1>4. Inv /\ [HistoryNext]_allVars => [Abstract!Next]_history
  <2>. SUFFICES ASSUME Inv, [HistoryNext]_allVars
                PROVE  Abstract!Next \/ UNCHANGED history
    OBVIOUS
  <2>1. CASE \E t \in Threads : RecordedDoSegment(t)
    BY <2>1, CallIsStep
  <2>2. CASE ~\E t \in Threads : RecordedDoSegment(t)
    BY <2>2 DEF HistoryNext, allVars
  <2>. QED
    BY <2>1, <2>2
<1>. HIDE DEF Inv
<1>. QED
  BY <1>1, <1>2, <1>3, <1>4, PTL DEF HistorySpec, ImplementsDataflow, Abstract!Spec

-----------------------------------------------------------------------------
(* No segment is lost, and none overwritten.  What the kernels' calls      *)
(* leave behind follows from their order (KernelSegmentsProofs).  What is  *)
(* added here is how far the threads are apart: a thread that holds a      *)
(* segment has carried the one ThreadNum before it through every kernel,   *)
(* and no kernel ended the pipeline there.                                 *)


\* The circular buffers have room for a segment of every thread.
EnoughBuffers == BufferedSegments >= ThreadNum

\* The segment a thread held before was called for at every kernel, and none
\* signalled there.
PastRounds ==
    \A t \in Threads : segNo[t] >= ThreadNum =>
        \A j \in Kernels :
            /\ segNo[t] - ThreadNum < Len(history[j])
            /\ j \notin NoTerminate => ~history[j][segNo[t] - ThreadNum + 1].signal

\* A kernel is not called beyond its ticket.
CallsBounded ==
    \A k \in Kernels :
        \/ Len(history[k]) <= logicalSegNo[k]
        \/ \E t \in Threads : /\ at[t] = k /\ pc[t] = "release"
                              /\ Len(history[k]) = logicalSegNo[k] + 1

\* A thread exits after the last segment, or at a kernel that has ended before
\* the segment it holds.
ExitsRecorded ==
    \A t \in Threads : pc[t] = "exitThread" =>
        IF at[t] < NumKernels
        THEN Ended(at[t]) /\ Len(history[at[t]]) <= segNo[t]
        ELSE terminated[t]

\* The driver goes on when every thread has exited.
Joined == driver \in {"finalize", "returned"} => \A t \in Threads : pc[t] = "exitThread"

ExitInv == PastRounds /\ CallsBounded /\ ExitsRecorded /\ Joined

PipelineInv == ControlInv /\ DataInv /\ HistoryInv /\ FileInv(history) /\ ExitInv

-----------------------------------------------------------------------------
(* The calls of the threads are calls as the histories describe them *)

\* A thread inside a kernel is about to make a call that extends its history.
LEMMA EnteredIsRecorded ==
    ASSUME ControlInv, DataInv, HistoryInv, NEW u \in Threads, pc[u] = "doSegment", NEW r,
           at[u] \notin Sources =>
              r \in DoSegmentResults(at[u], instance[at[u]], producedPos[u], terminated[u])
    PROVE  /\ at[u] \in Kernels
           /\ segNo[u] \in Nat /\ logicalSegNo[at[u]] = segNo[u]
           /\ producedPos[u] \in [Kernels -> Nat] /\ terminated[u] \in BOOLEAN
           /\ \A h : h = [history EXCEPT ![at[u]] = Append(@, r)] =>
                 Recorded(history, h, at[u], segNo[u] + 1, instance[at[u]], producedPos[u],
                          terminated[u], r)
<1>. DEFINE k == at[u]
            n == segNo[u]
<1>1. /\ k \in Kernels /\ n \in Nat /\ logicalSegNo[k] = n
      /\ producedPos[u] \in [Kernels -> Nat] /\ terminated[u] \in BOOLEAN
  <2>1. k \in Kernels /\ logicalSegNo[k] = n
    BY CalledInPlace
  <2>2. n \in Nat
    BY DEF ControlInv, ControlType
  <2>3. producedPos[u] \in [Kernels -> Nat] /\ terminated[u] \in BOOLEAN
    BY DEF DataInv, DataType
  <2>. QED
    BY <2>1, <2>2, <2>3
<1>2. Len(history[k]) = n /\ ~Ended(k) /\ history[k] \in Seq(KernelState)
  BY <1>1 DEF HistoryInv, EnteredDue
<1>3. instance[k] = IF n + 1 = 1 THEN InitKernelState ELSE history[k][(n + 1) - 1]
  <2>1. n = 0 <=> history[k] = <<>>
    BY <1>1, <1>2
  <2>2. (n + 1) - 1 = n /\ (n + 1 = 1 <=> n = 0)
    BY <1>1
  <2>. QED
    BY <1>1, <1>2, <2>1, <2>2 DEF HistoryInv, LastRecorded
<1>4. \A j \in 0 .. k - 1 :
         /\ j \in Kernels /\ Past(u, j)
         /\ Len(history[j]) >= n + 1
         /\ producedPos[u][j] = history[j][n + 1].produced
  <2>. SUFFICES ASSUME NEW j \in 0 .. k - 1
                PROVE  /\ j \in Kernels /\ Past(u, j)
                       /\ Len(history[j]) >= n + 1
                       /\ producedPos[u][j] = history[j][n + 1].produced
    OBVIOUS
  <2>1. j \in Kernels /\ Past(u, j)
    BY <1>1, KernelsAssumption DEF Kernels, Past
  <2>2. Len(history[j]) \in Nat
    <3>1. history[j] \in Seq(KernelState)
      BY <2>1 DEF HistoryInv
    <3>. QED
      BY <3>1
  <2>3. n < Len(history[j]) /\ producedPos[u][j] = history[j][n + 1].produced
    BY <2>1 DEF HistoryInv, RegistersRecorded
  <2>4. Len(history[j]) >= n + 1
    BY <1>1, <2>2, <2>3
  <2>. QED
    BY <2>1, <2>3, <2>4
<1>5. \A b \in InputSet(k) : producedPos[u][b] = history[b][n + 1].produced
  <2>. SUFFICES ASSUME NEW b \in InputSet(k)
                PROVE  producedPos[u][b] = history[b][n + 1].produced
    OBVIOUS
  <2>1. b \in 0 .. k - 1
    BY <1>1, InputsAreEarlier DEF Kernels
  <2>. QED
    BY <1>4, <2>1
<1>6. terminated[u] <=> \E j \in 0 .. k - 1 : j \notin NoTerminate /\ history[j][n + 1].signal
  <2>1. terminated[u] <=> \E b \in Kernels : /\ Past(u, b) /\ b \notin NoTerminate
                                             /\ history[b][n + 1].signal
    BY DEF HistoryInv, FlagRecorded
  <2>2. \A j \in Kernels : Past(u, j) => j \in 0 .. k - 1
    BY <1>1 DEF Past, Kernels
  <2>. QED
    BY <1>4, <2>1, <2>2
<1>. QED
  BY <1>1, <1>2, <1>3, <1>4, <1>5, <1>6 DEF Recorded, Ended

\* With what a kernel or a source of the file may do, it is one of those calls.
LEMMA EnteredIsCall ==
    ASSUME ControlInv, DataInv, HistoryInv, NEW u \in Threads, pc[u] = "doSegment",
           NEW r \in DoSegmentResults(at[u], instance[at[u]], producedPos[u], terminated[u])
    PROVE  /\ at[u] \in Kernels
           /\ segNo[u] \in Nat /\ logicalSegNo[at[u]] = segNo[u]
           /\ producedPos[u] \in [Kernels -> Nat] /\ terminated[u] \in BOOLEAN
           /\ \A h : h = [history EXCEPT ![at[u]] = Append(@, r)] =>
                 Call(history, h, at[u], segNo[u] + 1, instance[at[u]], producedPos[u],
                      terminated[u], r)
BY EnteredIsRecorded DEF Call

\* A recorded call keeps what the histories say of the calls before it.
LEMMA RecordedKeeps ==
    ASSUME StopsPipeline, ControlInv, DataInv, HistoryInv, FileInv(history),
           NEW u \in Threads, RecordedDoSegment(u)
    PROVE  /\ FileInv(history')
           /\ StridesDivide /\ InPace(history) => InPace(history')
<1>. DEFINE k == at[u]
<1>1. PICK r \in DoSegmentResults(k, instance[k], producedPos[u], terminated[u]) :
         r \in KernelState /\ LeavesRecord(u, r)
  BY CallLeavesRecord
<1>2. pc[u] = "doSegment"
  BY <1>1 DEF LeavesRecord, Leaves
<1>3. /\ k \in Kernels /\ segNo[u] \in Nat
      /\ producedPos[u] \in [Kernels -> Nat] /\ terminated[u] \in BOOLEAN
      /\ \A h : h = [history EXCEPT ![k] = Append(@, r)] =>
            Call(history, h, k, segNo[u] + 1, instance[k], producedPos[u], terminated[u], r)
  BY <1>2, EnteredIsCall
<1>4. history' = [history EXCEPT ![k] = Append(@, r)]
  BY <1>1 DEF LeavesRecord
<1>5. Call(history, history', k, segNo[u] + 1, instance[k], producedPos[u], terminated[u], r)
  BY <1>3, <1>4
<1>. HIDE DEF k
<1>6. FileInv(history')
  BY <1>1, <1>3, <1>5, FileInvKept
<1>. QED
  BY <1>1, <1>3, <1>5, <1>6, InPaceKept

-----------------------------------------------------------------------------
(* How far the threads are apart *)

\* At first no thread has held a segment before.
LEMMA ExitInit == HistoryInit => ExitInv
<1>. SUFFICES ASSUME HistoryInit PROVE ExitInv
  OBVIOUS
<1>. USE DEF HistoryInit, Init
<1>1. PastRounds
  <2>. SUFFICES ASSUME NEW t \in Threads PROVE ~(segNo[t] >= ThreadNum)
    BY DEF PastRounds
  <2>. QED
    BY ThreadsAssumption DEF Threads
<1>2. CallsBounded
  BY DEF CallsBounded
<1>3. ExitsRecorded /\ Joined
  BY DEF ExitsRecorded, Joined
<1>. QED
  BY <1>1, <1>2, <1>3 DEF ExitInv

\* A call extends one history, and none of an ended kernel.
LEMMA ExitCalled ==
    ASSUME ControlInv, DataInv, HistoryInv, ExitInv, NEW size, InputInv(history, size),
           NEW u \in Threads, NEW st \in KernelState, LeavesRecord(u, st),
           at[u] \notin Sources =>
              st \in DoSegmentResults(at[u], instance[at[u]], producedPos[u], terminated[u])
    PROVE  ExitInv'
<1>. DEFINE k == at[u]
<1>1. /\ pc[u] = "doSegment"
      /\ pc' = [pc EXCEPT ![u] = "release"]
      /\ UNCHANGED <<logicalSegNo, segNo, at, driver>>
  BY DEF LeavesRecord, Leaves
<1>2. /\ instance' = [instance EXCEPT ![k] = st]
      /\ terminated' = [terminated EXCEPT ![u] = TerminatedAfter(k, st, @)]
      /\ history' = [history EXCEPT ![k] = Append(@, st)]
  BY DEF LeavesRecord, Leaves
<1>3. /\ k \in Kernels /\ segNo[u] \in Nat /\ logicalSegNo[k] = segNo[u]
      /\ producedPos[u] \in [Kernels -> Nat] /\ terminated[u] \in BOOLEAN
      /\ \A h : h = [history EXCEPT ![k] = Append(@, st)] =>
            Recorded(history, h, k, segNo[u] + 1, instance[k], producedPos[u], terminated[u], st)
  BY <1>1, EnteredIsRecorded
<1>4. \A j \in Kernels \ {k} : instance'[j] = instance[j]
  BY <1>2, <1>3 DEF DataInv, DataType
<1>5. Recorded(history, history', k, segNo[u] + 1, instance[k], producedPos[u], terminated[u], st)
  BY <1>2, <1>3
<1>. HIDE DEF k
<1>7. Extended(history, history', k, segNo[u] + 1, st)
  BY <1>3, <1>5, CallExtends
<1>8. /\ history \in [Kernels -> Seq(KernelState)] /\ history' \in [Kernels -> Seq(KernelState)]
      /\ Len(history[k]) = segNo[u] /\ Len(history'[k]) = segNo[u] + 1
      /\ \A j \in Kernels \ {k} : history'[j] = history[j]
  <2>1. Len(history[k]) = segNo[u]
    BY <1>1 DEF HistoryInv, EnteredDue, k
  <2>. QED
    BY <1>7, <2>1 DEF HistoryInv, Extended
<1>9. \A j \in Kernels : \A m \in 1 .. Len(history[j]) : history'[j][m] = history[j][m]
  <2>. SUFFICES ASSUME NEW j \in Kernels, NEW m \in 1 .. Len(history[j])
                PROVE  history'[j][m] = history[j][m]
    OBVIOUS
  <2>1. j \in 0 .. j
    BY DEF Kernels
  <2>. QED
    BY <1>7, <2>1 DEF Extended
<1>10. \A t \in Threads \ {u} : pc'[t] = pc[t] /\ terminated'[t] = terminated[t]
  BY <1>1, <1>2 DEF ControlInv, ControlType, DataInv, DataType
<1>11. pc'[u] = "release"
  BY <1>1 DEF ControlInv, ControlType
<1>12. PastRounds'
  <2>. SUFFICES ASSUME NEW t \in Threads, segNo[t] >= ThreadNum, NEW j \in Kernels
                PROVE  /\ segNo[t] - ThreadNum < Len(history'[j])
                       /\ j \notin NoTerminate => ~history'[j][segNo[t] - ThreadNum + 1].signal
    BY <1>1 DEF PastRounds
  <2>. DEFINE m == segNo[t] - ThreadNum
  <2>1. /\ m < Len(history[j]) /\ m \in Nat /\ Len(history[j]) \in Nat
        /\ Len(history'[j]) \in Nat
        /\ j \notin NoTerminate => ~history[j][m + 1].signal
    BY <1>8, ThreadsAssumption DEF ExitInv, PastRounds, ControlInv, ControlType
  <2>2. Len(history[j]) <= Len(history'[j])
    <3>1. CASE j = k
      BY <1>3, <1>8, <3>1
    <3>2. CASE j # k
      BY <1>8, <2>1, <3>2
    <3>. QED
      BY <3>1, <3>2
  <2>. HIDE DEF m
  <2>3. m + 1 \in 1 .. Len(history[j])
    BY <2>1
  <2>4. m < Len(history'[j]) /\ (j \notin NoTerminate => ~history'[j][m + 1].signal)
    BY <1>9, <2>1, <2>2, <2>3
  <2>. QED
    BY <2>4 DEF m
<1>13. CallsBounded'
  <2>. SUFFICES ASSUME NEW j \in Kernels
                PROVE  \/ Len(history'[j]) <= logicalSegNo[j]
                       \/ \E t \in Threads : /\ at[t] = j /\ pc'[t] = "release"
                                             /\ Len(history'[j]) = logicalSegNo[j] + 1
    BY <1>1 DEF CallsBounded
  <2>1. CASE j = k
    BY <1>3, <1>8, <1>11, <2>1 DEF k
  <2>2. CASE j # k
    <3>1. \A t \in Threads : pc[t] = "release" => pc'[t] = "release"
      BY <1>1, <1>10
    <3>. QED
      BY <1>8, <2>2, <3>1 DEF ExitInv, CallsBounded
  <2>. QED
    BY <2>1, <2>2
<1>14. ExitsRecorded'
  <2>. SUFFICES ASSUME NEW t \in Threads, pc'[t] = "exitThread"
                PROVE  IF at[t] < NumKernels
                       THEN Ended(at[t])' /\ Len(history'[at[t]]) <= segNo[t]
                       ELSE terminated'[t]
    BY <1>1 DEF ExitsRecorded, Ended
  <2>1. t # u /\ pc[t] = "exitThread"
    BY <1>10, <1>11
  <2>2. CASE at[t] < NumKernels
    <3>1. Ended(at[t]) /\ Len(history[at[t]]) <= segNo[t]
      BY <2>1, <2>2 DEF ExitInv, ExitsRecorded
    <3>2. ~Ended(k)
      BY <1>1 DEF HistoryInv, EnteredDue, k
    <3>3. at[t] \in Kernels /\ at[t] # k
      BY <2>2, <3>1, <3>2, KernelsAssumption DEF ControlInv, ControlType, Kernels
    <3>4. history'[at[t]] = history[at[t]] /\ instance'[at[t]] = instance[at[t]]
      BY <1>4, <1>8, <3>3
    <3>5. Ended(at[t])'
      BY <1>1, <3>1, <3>4 DEF Ended
    <3>. QED
      BY <2>2, <3>1, <3>4, <3>5
  <2>3. CASE ~(at[t] < NumKernels)
    BY <1>10, <2>1, <2>3 DEF ExitInv, ExitsRecorded
  <2>. QED
    BY <2>2, <2>3
<1>15. Joined'
  <2>1. ~(driver \in {"finalize", "returned"})
    BY <1>1 DEF ExitInv, Joined
  <2>. QED
    BY <1>1, <2>1 DEF Joined
<1>. QED
  BY <1>12, <1>13, <1>14, <1>15 DEF ExitInv

\* The other steps of a thread: it takes the next segment after one it has
\* carried through every kernel, or exits.
LEMMA ExitCoordinated ==
    ASSUME ControlInv, DataInv, HistoryInv, ExitInv, UNCHANGED history,
           NEW t \in Threads, Coordinate(t)
    PROVE  ExitInv'
<1>. USE DEF ControlInv, ControlType
<1>1. /\ UNCHANGED <<instance, driver, terminated>>
      /\ pc[t] # "exitThread"
      /\ \A u \in Threads \ {t} : pc'[u] = pc[u] /\ segNo'[u] = segNo[u] /\ at'[u] = at[u]
  BY DEF Coordinate, Enter, ExitPipeline, Release, StoreConsumed, LoopSegment, ExitThread,
     kernelVars, registers
<1>2. Joined'
  <2>1. ~(driver \in {"finalize", "returned"})
    BY <1>1 DEF ExitInv, Joined
  <2>. QED
    BY <1>1, <2>1 DEF Joined
<1>3. PastRounds'
  <2>1. CASE LoopSegment(t)
    <3>1. /\ pc[t] = "setConsumed" /\ ~terminated[t]
          /\ segNo'[t] = segNo[t] + ThreadNum
      BY <2>1 DEF LoopSegment, NextHeld
    <3>2. at[t] = NumKernels /\ \A j \in Kernels : Past(t, j)
      BY <3>1 DEF InPlace, Past, Kernels
    <3>3. \A j \in Kernels : /\ segNo[t] < Len(history[j])
                             /\ j \notin NoTerminate => ~history[j][segNo[t] + 1].signal
      BY <3>1, <3>2 DEF HistoryInv, RegistersRecorded, FlagRecorded
    <3>4. segNo'[t] - ThreadNum = segNo[t]
      BY <3>1, ThreadsAssumption
    <3>. QED
      BY <1>1, <3>3, <3>4 DEF ExitInv, PastRounds
  <2>2. CASE ~LoopSegment(t)
    <3>1. UNCHANGED segNo
      BY <2>2 DEF Coordinate, Enter, ExitPipeline, Release, StoreConsumed, ExitThread
    <3>. QED
      BY <3>1 DEF ExitInv, PastRounds
  <2>. QED
    BY <2>1, <2>2
<1>4. CASE Enter(t) \/ (\E b \in Kernels : StoreConsumed(t, b)) \/ LoopSegment(t)
  <2>1. /\ UNCHANGED logicalSegNo
        /\ pc[t] # "release" /\ pc'[t] # "exitThread"
    BY <1>4 DEF Enter, StoreConsumed, LoopSegment, kernelVars
  <2>2. CallsBounded'
    <3>1. \A u \in Threads : pc[u] = "release" => pc'[u] = "release" /\ at'[u] = at[u]
      BY <1>1, <2>1
    <3>. QED
      BY <2>1, <3>1 DEF ExitInv, CallsBounded
  <2>3. ExitsRecorded'
    <3>1. \A u \in Threads : pc'[u] = "exitThread" =>
             pc[u] = "exitThread" /\ at'[u] = at[u] /\ segNo'[u] = segNo[u]
      BY <1>1, <2>1
    <3>. QED
      BY <1>1, <3>1 DEF ExitInv, ExitsRecorded, Ended
  <2>. QED
    BY <1>2, <1>3, <2>2, <2>3 DEF ExitInv
<1>5. CASE ExitPipeline(t)
  <2>1. /\ pc[t] = "segmentWait" /\ pc'[t] = "exitThread"
        /\ logicalSegNo' = [logicalSegNo EXCEPT ![at[t]] = segNo[t] + 1]
        /\ UNCHANGED <<segNo, at>>
        /\ Ended(at[t])
    BY <1>5 DEF ExitPipeline, NextSegNo, Completed, Ended
  <2>2. at[t] \in Kernels /\ logicalSegNo[at[t]] = segNo[t]
    BY <1>5, ReadyIsDue DEF ExitPipeline
  <2>3. Len(history[at[t]]) <= segNo[t]
    <3>1. ASSUME NEW u \in Threads, at[u] = at[t], pc[u] = "release" PROVE FALSE
      <4>1. u # t /\ Inside(u)
        BY <2>1, <3>1 DEF Inside
      <4>2. segNo[u] = segNo[t]
        BY <2>2, <3>1, <4>1 DEF InPlace
      <4>. QED
        BY <4>1, <4>2, SegmentsDisjoint
    <3>. QED
      BY <2>2, <3>1 DEF ExitInv, CallsBounded
  <2>4. CallsBounded'
    <3>. SUFFICES ASSUME NEW k \in Kernels
                  PROVE  \/ Len(history[k]) <= logicalSegNo'[k]
                         \/ \E u \in Threads : /\ at[u] = k /\ pc'[u] = "release"
                                               /\ Len(history[k]) = logicalSegNo'[k] + 1
      BY <2>1 DEF CallsBounded
    <3>1. CASE k = at[t]
      <4>1. logicalSegNo'[k] = segNo[t] + 1
        BY <2>1, <2>2, <3>1
      <4>2. history[k] \in Seq(KernelState) /\ segNo[t] \in Nat
        BY DEF HistoryInv
      <4>3. Len(history[k]) \in Nat
        BY <4>2
      <4>. QED
        BY <2>3, <3>1, <4>1, <4>2, <4>3
    <3>2. CASE k # at[t]
      <4>1. logicalSegNo'[k] = logicalSegNo[k]
        BY <2>1, <3>2
      <4>2. \A u \in Threads : pc[u] = "release" => pc'[u] = "release"
        BY <1>1, <2>1
      <4>3. \/ Len(history[k]) <= logicalSegNo[k]
            \/ \E u \in Threads : /\ at[u] = k /\ pc[u] = "release"
                                  /\ Len(history[k]) = logicalSegNo[k] + 1
        BY DEF ExitInv, CallsBounded
      <4>. QED
        BY <4>1, <4>2, <4>3
    <3>. QED
      BY <3>1, <3>2
  <2>5. ExitsRecorded'
    <3>1. \A u \in Threads \ {t} : pc'[u] = "exitThread" => pc[u] = "exitThread"
      BY <1>1
    <3>2. at[t] < NumKernels
      BY <2>2, KernelsAssumption DEF Kernels
    <3>. QED
      BY <1>1, <2>1, <2>3, <3>1, <3>2 DEF ExitInv, ExitsRecorded, Ended
  <2>. QED
    BY <1>2, <1>3, <2>4, <2>5 DEF ExitInv
<1>6. CASE Release(t)
  <2>1. /\ pc[t] = "release" /\ at[t] \in Kernels /\ logicalSegNo[at[t]] = segNo[t]
        /\ pc'[t] \in {"setConsumed", "segmentWait"}
        /\ logicalSegNo' = [logicalSegNo EXCEPT ![at[t]] = segNo[t] + 1]
        /\ UNCHANGED segNo
    BY <1>6, KernelsAssumption DEF Release, NextSegNo, InPlace, Inside, Kernels
  <2>2. CallsBounded'
    <3>. SUFFICES ASSUME NEW k \in Kernels
                  PROVE  \/ Len(history[k]) <= logicalSegNo'[k]
                         \/ \E u \in Threads : /\ at'[u] = k /\ pc'[u] = "release"
                                               /\ Len(history[k]) = logicalSegNo'[k] + 1
      BY <2>1 DEF CallsBounded
    <3>1. CASE k = at[t]
      <4>1. logicalSegNo'[k] = logicalSegNo[k] + 1 /\ logicalSegNo[k] \in Nat
        BY <2>1, <3>1
      <4>2. history[k] \in Seq(KernelState)
        BY DEF HistoryInv
      <4>3. Len(history[k]) \in Nat
        BY <4>2
      <4>4. Len(history[k]) <= logicalSegNo[k] \/ Len(history[k]) = logicalSegNo[k] + 1
        BY DEF ExitInv, CallsBounded
      <4>. QED
        BY <4>1, <4>3, <4>4
    <3>2. CASE k # at[t]
      <4>1. logicalSegNo'[k] = logicalSegNo[k]
        BY <2>1, <3>2
      <4>2. \A u \in Threads : at[u] = k => pc'[u] = pc[u] /\ at'[u] = at[u]
        BY <1>1, <3>2
      <4>3. \/ Len(history[k]) <= logicalSegNo[k]
            \/ \E u \in Threads : /\ at[u] = k /\ pc[u] = "release"
                                  /\ Len(history[k]) = logicalSegNo[k] + 1
        BY DEF ExitInv, CallsBounded
      <4>. QED
        BY <4>1, <4>2, <4>3
    <3>. QED
      BY <3>1, <3>2
  <2>3. ExitsRecorded'
    <3>1. \A u \in Threads : pc'[u] = "exitThread" =>
             pc[u] = "exitThread" /\ at'[u] = at[u] /\ segNo'[u] = segNo[u]
      BY <1>1, <2>1
    <3>. QED
      BY <1>1, <3>1 DEF ExitInv, ExitsRecorded, Ended
  <2>. QED
    BY <1>2, <1>3, <2>2, <2>3 DEF ExitInv
<1>7. CASE ExitThread(t)
  <2>1. /\ pc[t] = "setConsumed" /\ terminated[t] /\ pc'[t] = "exitThread"
        /\ UNCHANGED <<logicalSegNo, segNo, at>>
    BY <1>7 DEF ExitThread, kernelVars
  <2>2. at[t] = NumKernels
    BY <2>1 DEF InPlace
  <2>3. CallsBounded'
    <3>1. \A u \in Threads : pc[u] = "release" => pc'[u] = "release"
      BY <1>1, <2>1
    <3>. QED
      BY <2>1, <3>1 DEF ExitInv, CallsBounded
  <2>4. ExitsRecorded'
    <3>1. \A u \in Threads \ {t} : pc'[u] = "exitThread" => pc[u] = "exitThread"
      BY <1>1
    <3>2. ~(at[t] < NumKernels)
      BY <2>2, KernelsAssumption
    <3>. QED
      BY <1>1, <2>1, <3>1, <3>2 DEF ExitInv, ExitsRecorded, Ended
  <2>. QED
    BY <1>2, <1>3, <2>3, <2>4 DEF ExitInv
<1>. QED
  BY <1>4, <1>5, <1>6, <1>7 DEF Coordinate

\* The driver joins the threads when each of them has exited.
LEMMA ExitDriven ==
    ASSUME ControlInv, ExitInv, UNCHANGED history, DriverStep
    PROVE  ExitInv'
<1>1. /\ UNCHANGED <<instance, logicalSegNo, segNo, at, terminated>>
      /\ \/ pc' = pc
         \/ /\ \E t \in Threads : pc[t] = "unborn" /\ pc' = [pc EXCEPT ![t] = "segmentWait"]
            /\ driver' \in {"spawn", "call"}
  <2>1. CASE \E t \in Threads : Spawn(t)
    BY <2>1 DEF Spawn, kernelVars, registers
  <2>2. CASE CallThread0
    <3>1. pc[0] = "unborn" /\ 0 \in Threads
      BY <2>2, ThreadsAssumption DEF CallThread0, ControlInv, Unstarted, Threads
    <3>. QED
      BY <2>2, <3>1 DEF CallThread0, kernelVars, registers
  <2>3. CASE JoinThreads \/ FinalizeInstances
    BY <2>3 DEF JoinThreads, FinalizeInstances, kernelVars, registers
  <2>. QED
    BY <2>1, <2>2, <2>3 DEF DriverStep
<1>2. \A u \in Threads : /\ pc[u] = "release" <=> pc'[u] = "release"
                         /\ pc[u] = "exitThread" <=> pc'[u] = "exitThread"
  BY <1>1 DEF ControlInv, ControlType
<1>3. PastRounds' /\ CallsBounded' /\ ExitsRecorded'
  BY <1>1, <1>2 DEF ExitInv, PastRounds, CallsBounded, ExitsRecorded, Ended
<1>4. Joined'
  <2>1. driver' \in {"finalize", "returned"} => \A u \in Threads : pc[u] = "exitThread"
    BY DEF DriverStep, Spawn, CallThread0, JoinThreads, FinalizeInstances, Awaited, ExitInv, Joined
  <2>. QED
    BY <1>2, <2>1 DEF Joined
<1>. QED
  BY <1>3, <1>4 DEF ExitInv

\* Every step keeps the invariant.
LEMMA PipelineInvNext ==
    ASSUME StopsPipeline, PipelineInv, [HistoryNext]_allVars
    PROVE  /\ PipelineInv'
           /\ StridesDivide /\ InPace(history) => InPace(history')
<1>. USE DEF PipelineInv
<1>1. ControlInv' /\ DataInv' /\ HistoryInv'
  BY RecordingIsNext, ControlNext, DataNext, HistoryInvNext
<1>2. CASE \E t \in Threads : RecordedDoSegment(t)
  <2>1. PICK t \in Threads : RecordedDoSegment(t)
    BY <1>2
  <2>2. /\ FileInv(history')
        /\ StridesDivide /\ InPace(history) => InPace(history')
    BY <2>1, RecordedKeeps
  <2>3. ExitInv'
    BY <2>1, CallLeavesRecord, ExitCalled DEF FileInv
  <2>. QED
    BY <1>1, <2>2, <2>3
<1>3. CASE UNCHANGED history /\ (\E t \in Threads : Coordinate(t))
  <2>1. ExitInv'
    BY <1>3, ExitCoordinated
  <2>2. FileInv(history') /\ (InPace(history) => InPace(history'))
    BY <1>3
  <2>. QED
    BY <1>1, <2>1, <2>2
<1>4. CASE UNCHANGED history /\ DriverStep
  <2>1. ExitInv'
    BY <1>4, ExitDriven
  <2>2. FileInv(history') /\ (InPace(history) => InPace(history'))
    BY <1>4
  <2>. QED
    BY <1>1, <2>1, <2>2
<1>5. CASE UNCHANGED allVars
  <2>1. UNCHANGED <<instance, logicalSegNo, driver, pc, segNo, at, terminated, history>>
    BY <1>5 DEF allVars, vars, kernelVars, registers
  <2>2. ExitInv'
    BY <2>1 DEF ExitInv, PastRounds, CallsBounded, ExitsRecorded, Joined, Ended
  <2>3. FileInv(history') /\ (InPace(history) => InPace(history'))
    BY <2>1
  <2>. QED
    BY <1>1, <2>2, <2>3
<1>. QED
  BY <1>2, <1>3, <1>4, <1>5 DEF HistoryNext, Unrecorded, Returned, allVars

\* The invariant holds throughout.
LEMMA PipelineInvariant == ASSUME StopsPipeline PROVE HistorySpec => []PipelineInv
<1>1. HistoryInit => PipelineInv
  BY ControlInit, DataInit, NothingRecorded, NothingCalled, ExitInit DEF HistoryInit, PipelineInv, FileInv
<1>2. PipelineInv /\ [HistoryNext]_allVars => PipelineInv'
  BY PipelineInvNext
<1>. QED
  BY <1>1, <1>2, PTL DEF HistorySpec

-----------------------------------------------------------------------------
(* No overrun *)

\* A kernel that a thread is about to call produces no more than the segments
\* up to its own.
LEMMA ProducesSegment ==
    ASSUME StopsPipeline, StridesDivide, PipelineInv, InPace(history),
           NEW t \in Threads, pc[t] = "doSegment", at[t] \notin Sources,
           NEW r \in DoSegmentResults(at[t], instance[at[t]], producedPos[t], terminated[t])
    PROVE  r.produced \in Nat /\ r.produced <= Items(segNo[t] + 1)
<1>. USE DEF PipelineInv
<1>. DEFINE k == at[t]
            h == [history EXCEPT ![k] = Append(@, r)]
<1>1. /\ k \in Kernels /\ segNo[t] \in Nat /\ logicalSegNo[k] = segNo[t]
      /\ producedPos[t] \in [Kernels -> Nat] /\ terminated[t] \in BOOLEAN
      /\ Call(history, h, k, segNo[t] + 1, instance[k], producedPos[t], terminated[t], r)
  BY EnteredIsCall
<1>2. instance[k] \in KernelState
  BY <1>1 DEF DataInv, DataType
<1>3. instance[k].processed <= Available(k, producedPos[t])
  <2>1. PICK b \in Bounding(k) : Available(k, producedPos[t]) = producedPos[t][b]
    BY <1>1, AvailableIsBounded
  <2>2. b \in Kernels /\ b < k
    BY <1>1, <2>1, InputsAreEarlier DEF Bounding
  <2>3. Past(t, b)
    BY <2>2 DEF Past
  <2>. QED
    BY <1>1, <2>1, <2>2, <2>3 DEF DataInv, InputAhead, ControlInv, ControlType
<1>4. r \in KernelState
  BY <1>1, <1>2, <1>3, KernelCalled
<1>. HIDE DEF k, h
<1>5. FileInv(h)
  BY <1>1, <1>4, FileInvKept
<1>6. InPace(h)
  BY <1>1, <1>4, <1>5, InPaceKept
<1>7. Extended(history, h, k, segNo[t] + 1, r)
  BY <1>1, <1>4, CallExtends DEF Call, FileInv
<1>8. Within(k, r, Items((segNo[t] + 1) - 1), Items(segNo[t] + 1))
  <2>1. segNo[t] + 1 \in 1 .. Len(h[k]) /\ h[k][segNo[t] + 1] = r
    BY <1>1, <1>7 DEF Extended
  <2>. QED
    BY <1>1, <1>6, <2>1 DEF InPace
<1>. QED
  BY <1>4, <1>8 DEF Within, KernelState

\* While a thread holds a segment, every kernel has processed all but the last
\* ThreadNum - 1 segments before it.
LEMMA ProcessedRounds ==
    ASSUME PipelineInv, InPace(history), NEW t \in Threads, NEW j \in Kernels \ Sources
    PROVE  /\ instance[j].processed \in Nat
           /\ Items(segNo[t] + 1) <= instance[j].processed + Items(ThreadNum)
<1>. USE DEF PipelineInv
<1>1. /\ segNo[t] \in Nat /\ ThreadNum \in Nat /\ ThreadNum >= 1
      /\ instance[j] \in KernelState /\ history[j] \in Seq(KernelState)
  BY ThreadsAssumption DEF ControlInv, ControlType, DataInv, DataType, HistoryInv
<1>2. instance[j].processed \in Nat
  BY <1>1 DEF KernelState
<1>3. CASE segNo[t] < ThreadNum
  <2>1. segNo[t] + 1 <= ThreadNum /\ segNo[t] + 1 \in Nat
    BY <1>1, <1>3
  <2>2. Items(segNo[t] + 1) <= Items(ThreadNum) /\ Items(segNo[t] + 1) \in Nat /\ Items(ThreadNum) \in Nat
    BY <1>1, <2>1, ItemsOfSegments
  <2>. QED
    BY <1>2, <2>2
<1>4. CASE ~(segNo[t] < ThreadNum)
  <2>. DEFINE m == segNo[t] - ThreadNum + 1
              c == Len(history[j])
  <2>1. /\ m \in Nat \ {0} /\ c \in Nat /\ m <= c
        /\ segNo[t] + 1 = m + ThreadNum
        /\ m \in 1 .. c /\ c \in 1 .. c
    BY <1>1, <1>4 DEF ExitInv, PastRounds
  <2>2. Quiet(history, j, m)
    <3>. SUFFICES ASSUME NEW i \in 0 .. j, i \notin NoTerminate PROVE ~history[i][m].signal
      BY DEF Quiet
    <3>. QED
      BY <1>1, <1>4, EarlierKernels DEF ExitInv, PastRounds
  <2>3. instance[j] = history[j][c]
    <3>1. history[j] # <<>>
      BY <2>1
    <3>. QED
      BY <3>1 DEF HistoryInv, LastRecorded
  <2>. HIDE DEF m, c
  <2>4. Items(m) <= instance[j].processed
    <3>1. CASE m = c
      BY <2>1, <2>2, <2>3, <3>1 DEF InPace, Within, c
    <3>2. CASE m # c
      <4>1. c - 1 \in Nat /\ m <= c - 1 /\ m \in Nat
        BY <2>1, <3>2
      <4>2. Items(m) <= Items(c - 1) /\ Items(m) \in Nat /\ Items(c - 1) \in Nat
        BY <4>1, ItemsOfSegments
      <4>3. Items(c - 1) <= instance[j].processed
        BY <2>1, <2>3 DEF InPace, Within, c
      <4>. QED
        BY <1>2, <4>2, <4>3
    <3>. QED
      BY <3>1, <3>2
  <2>5. Items(m + ThreadNum) = Items(m) + Items(ThreadNum) /\ Items(m) \in Nat /\ Items(ThreadNum) \in Nat
    <3>1. (m + ThreadNum) * SegmentSize = m * SegmentSize + ThreadNum * SegmentSize
      BY <1>1, <2>1, ItemsAssumption
    <3>. QED
      BY <1>1, <2>1, <3>1, ItemsOfSegments DEF Items
  <2>. QED
    BY <1>2, <2>1, <2>4, <2>5
<1>. QED
  BY <1>2, <1>3, <1>4

\* With room for a segment of each thread, no kernel overwrites items of a
\* circular buffer that a consumer has yet to process, whatever the shape of
\* the pipeline: the threads are at most ThreadNum segments apart
\* (grep_engine.cpp:310, pipeline.cpp:121-195).  Sources and UntilN must
\* not have the attribute NoTerminate, and a segment must be a whole number of
\* strides.
THEOREM BuffersSuffice ==
    ASSUME StopsPipeline, StridesDivide, EnoughBuffers
    PROVE  HistorySpec => []NoOverrun
<1>1. ASSUME PipelineInv, InPace(history) PROVE NoOverrun
  <2>. SUFFICES ASSUME NEW t \in Threads, pc[t] = "doSegment", at[t] \notin Sources,
                       NEW j \in Consumers(at[t]),
                       NEW r \in DoSegmentResults(at[t], instance[at[t]], producedPos[t],
                                                  terminated[t])
                PROVE  ~(r.produced > instance[j].processed + BufferedSegments * SegmentSize)
    BY DEF NoOverrun, Overruns, InputPositions
  <2>1. r.produced \in Nat /\ r.produced <= Items(segNo[t] + 1)
    BY <1>1, ProducesSegment
  <2>2. j \in Kernels \ Sources
    BY DEF Consumers, InputSet, Sources
  <2>3. /\ instance[j].processed \in Nat
        /\ Items(segNo[t] + 1) <= instance[j].processed + Items(ThreadNum)
    BY <1>1, <2>2, ProcessedRounds
  <2>4. BufferedSegments \in Nat /\ ThreadNum \in Nat /\ segNo[t] + 1 \in Nat
    <3>1. BufferSegments * ThreadNum \in Nat /\ BufferSegments \in Nat /\ ThreadNum \in Nat
      BY ThreadsAssumption
    <3>2. segNo[t] \in Nat
      BY <1>1 DEF PipelineInv, ControlInv, ControlType
    <3>. QED
      BY <3>1, <3>2 DEF BufferedSegments
  <2>5. /\ Items(ThreadNum) <= Items(BufferedSegments)
        /\ Items(ThreadNum) \in Nat /\ Items(BufferedSegments) \in Nat /\ Items(segNo[t] + 1) \in Nat
    BY <1>1, <2>4, ItemsOfSegments DEF EnoughBuffers
  <2>6. Items(BufferedSegments) = BufferedSegments * SegmentSize
    BY DEF Items
  <2>. QED
    BY <2>1, <2>3, <2>5, <2>6
<1>. DEFINE Inv == PipelineInv /\ InPace(history)
<1>2. HistoryInit => Inv
  BY ControlInit, DataInit, NothingRecorded, NothingCalled, ExitInit DEF HistoryInit, PipelineInv, FileInv
<1>3. Inv /\ [HistoryNext]_allVars => Inv'
  BY PipelineInvNext
<1>4. Inv => NoOverrun
  BY <1>1
<1>. HIDE DEF Inv
<1>. QED
  BY <1>2, <1>3, <1>4, PTL DEF HistorySpec

-----------------------------------------------------------------------------
(* Complete output *)

\* If no kernel was cut short, a thread that has exited either carried the
\* segment with the end of the input through every kernel, or holds a later one.
LEMMA ExitedAtEnd ==
    ASSUME StopsPipeline, ControlInv, HistoryInv, ExitInv,
           NEW size \in Nat, InputInv(history, size), NoneCut(history),
           NEW t \in Threads, pc[t] = "exitThread"
    PROVE  LET last == Len(history[0])
           IN  /\ last \in Nat \ {0} /\ size < Items(last)
               /\ \/ segNo[t] + 1 = last /\ \A k \in Kernels : Past(t, k)
                  \/ segNo[t] >= last
<1>1. /\ segNo[t] \in Nat /\ at[t] \in 0 .. NumKernels
      /\ history \in [Kernels -> Seq(KernelState)]
  BY DEF ControlInv, ControlType, HistoryInv
<1>2. CASE at[t] < NumKernels
  <2>. DEFINE k == at[t]
              n == Len(history[k])
  <2>1. /\ k \in Kernels \ NoTerminate /\ instance[k].signal
        /\ n <= segNo[t] /\ n \in Nat
    BY <1>1, <1>2, KernelsAssumption DEF ExitInv, ExitsRecorded, Ended, Kernels
  <2>2. history[k] # <<>>
    <3>. SUFFICES ASSUME history[k] = <<>> PROVE FALSE
      OBVIOUS
    <3>1. instance[k] = InitKernelState
      BY <2>1 DEF HistoryInv, LastRecorded
    <3>. QED
      BY <2>1, <3>1 DEF InitKernelState
  <2>3. n \in 1 .. n /\ history[k][n] = instance[k]
    BY <1>1, <2>1, <2>2 DEF HistoryInv, LastRecorded
  <2>. HIDE DEF k
  <2>4. n \in Nat \ {0} /\ n = Len(history[0]) /\ size < Items(n)
    BY <2>1, <2>3, EndsWithInput
  <2>. QED
    BY <2>1, <2>4
<1>3. CASE ~(at[t] < NumKernels)
  <2>1. terminated[t] /\ \A k \in Kernels : Past(t, k)
    BY <1>1, <1>3, KernelsAssumption DEF ExitInv, ExitsRecorded, Past, Kernels
  <2>2. PICK k \in Kernels \ NoTerminate : history[k][segNo[t] + 1].signal
    BY <2>1 DEF HistoryInv, FlagRecorded
  <2>3. segNo[t] + 1 \in 1 .. Len(history[k])
    BY <1>1, <2>1, <2>2 DEF HistoryInv, RegistersRecorded
  <2>4. /\ segNo[t] + 1 = Len(history[0]) /\ segNo[t] + 1 \in Nat \ {0}
        /\ size < Items(segNo[t] + 1)
    BY <2>2, <2>3, EndsWithInput
  <2>. QED
    BY <2>1, <2>4
<1>. QED
  BY <1>2, <1>3

\* The threads take the segments in turn: if one holds a later segment of the
\* turn to which segment m belongs, it has held segment m.
LEMMA TakenInTurn ==
    ASSUME RoundRobin, NEW m \in Nat, segNo[m % ThreadNum] > m
    PROVE  m % ThreadNum \in Threads /\ segNo[m % ThreadNum] - ThreadNum >= m
<1>. DEFINE t == m % ThreadNum
            p == m \div ThreadNum
<1>1. ThreadNum \in Nat \ {0}
  BY ThreadsAssumption
<1>2. t \in Threads /\ t \in Nat /\ p \in Nat /\ m = p * ThreadNum + t
  BY <1>1 DEF Threads
<1>3. PICK q \in Nat : segNo[t] = q * ThreadNum + t
  BY <1>2 DEF RoundRobin
<1>. HIDE DEF t, p
<1>4. q * ThreadNum \in Nat /\ p * ThreadNum \in Nat /\ p * ThreadNum < q * ThreadNum
  <2>1. q * ThreadNum \in Nat /\ p * ThreadNum \in Nat
    BY <1>1, <1>2
  <2>2. segNo[t] > m
    BY DEF t
  <2>. QED
    BY <1>2, <1>3, <2>1, <2>2
<1>5. q >= p + 1
  <2>. SUFFICES ASSUME q <= p PROVE FALSE
    BY <1>2
  <2>1. PICK d \in Nat : p = q + d
    <3>1. p - q \in Nat /\ p = q + (p - q)
      BY <1>2
    <3>. QED
      BY <3>1
  <2>2. p * ThreadNum = q * ThreadNum + d * ThreadNum /\ d * ThreadNum \in Nat
    BY <1>1, <2>1
  <2>. QED
    BY <1>4, <2>2
<1>6. q * ThreadNum >= p * ThreadNum + ThreadNum
  <2>1. PICK d \in Nat : q = p + 1 + d
    <3>1. q - (p + 1) \in Nat /\ q = p + 1 + (q - (p + 1))
      BY <1>2, <1>5
    <3>. QED
      BY <3>1
  <2>2. q * ThreadNum = p * ThreadNum + ThreadNum + d * ThreadNum /\ d * ThreadNum \in Nat
    BY <1>1, <1>2, <2>1
  <2>. QED
    BY <1>1, <1>4, <2>2
<1>7. segNo[t] - ThreadNum >= m
  BY <1>1, <1>2, <1>3, <1>4, <1>6
<1>. QED
  BY <1>2, <1>7 DEF t

\* When the driver goes on, the source has offered the whole of the input, and each
\* kernel has processed all of it, unless one ended the pipeline early: the threads
\* stop where the input ends, and the one whose turn the last segment is has
\* carried it through every kernel.
LEMMA CompleteAtEnd ==
    ASSUME StopsPipeline, ControlInv, HistoryInv, ExitInv,
           NEW size \in Nat, InputInv(history, size), driver = "finalize", ~EndedEarly
    PROVE  /\ Len(history[0]) \in Nat \ {0} /\ size < Items(Len(history[0]))
           /\ \A k \in Kernels : IF k \in Sources THEN instance[k].produced = size
                                                  ELSE instance[k].processed = size
<1>. DEFINE last == Len(history[0])
            u == (last - 1) % ThreadNum
<1>1. /\ history \in [Kernels -> Seq(KernelState)] /\ 0 \in Kernels
      /\ \A j \in Kernels : history[j] # <<>> => instance[j] = history[j][Len(history[j])]
  BY FirstIsSource DEF HistoryInv, LastRecorded, Sources
<1>2. NoneCut(history)
  BY <1>1 DEF NoneCut, Cut, EndedEarly
<1>3. \A t \in Threads : pc[t] = "exitThread"
  BY DEF ExitInv, Joined
<1>4. last \in Nat \ {0} /\ size < Items(last)
  <2>1. 0 \in Threads
    BY ThreadsAssumption DEF Threads
  <2>. QED
    BY <1>2, <1>3, <2>1, ExitedAtEnd
<1>. HIDE DEF last
<1>5. last - 1 \in Nat /\ u \in Threads /\ segNo[u] \in Nat
  <2>1. last - 1 \in Nat /\ u \in 0 .. ThreadNum - 1
    BY <1>4, ThreadsAssumption
  <2>. QED
    BY <2>1 DEF Threads, ControlInv, ControlType
<1>6. segNo[u] + 1 = last /\ \A j \in Kernels : Past(u, j)
  <2>1. (segNo[u] + 1 = last /\ \A j \in Kernels : Past(u, j)) \/ segNo[u] >= last
    BY <1>2, <1>3, <1>5, ExitedAtEnd DEF last
  <2>. SUFFICES ASSUME segNo[u] >= last PROVE FALSE
    BY <2>1
  <2>2. segNo[u] - ThreadNum >= last - 1
    BY <1>4, <1>5, TakenInTurn DEF ControlInv
  <2>3. segNo[u] >= ThreadNum
    BY <1>5, <2>2, ThreadsAssumption
  <2>4. /\ segNo[u] - ThreadNum < last
        /\ 0 \notin NoTerminate => ~history[0][segNo[u] - ThreadNum + 1].signal
    BY <1>1, <1>5, <2>3 DEF ExitInv, PastRounds, last
  <2>5. segNo[u] - ThreadNum + 1 = last
    BY <1>4, <1>5, <2>2, <2>4, ThreadsAssumption
  <2>6. last \in 1 .. Len(history[0])
    BY <1>4 DEF last
  <2>7. history[0][last].signal
    BY <1>4, <2>6, FirstIsSource DEF InputInv, OffersInput, OffersUpTo
  <2>. QED
    BY <2>4, <2>5, <2>7, FirstIsSource DEF StopsPipeline
<1>7. ASSUME NEW j \in Kernels
      PROVE  /\ Len(history[j]) = last /\ last \in 1 .. Len(history[j])
             /\ history[j][last] = instance[j]
  <2>1. last - 1 < Len(history[j])
    BY <1>4, <1>5, <1>6 DEF HistoryInv, RegistersRecorded
  <2>2. Len(history[j]) <= last
    <3>1. CASE j = 0
      BY <1>1, <3>1 DEF last
    <3>2. CASE j # 0
      <4>1. 0 \in 0 .. j - 1
        BY <3>2 DEF Kernels
      <4>. QED
        BY <4>1 DEF InputInv, Staggered, last
    <3>. QED
      BY <3>1, <3>2
  <2>3. Len(history[j]) \in Nat
    BY <1>1
  <2>4. Len(history[j]) = last /\ history[j] # <<>>
    BY <1>4, <2>1, <2>2, <2>3
  <2>. QED
    BY <1>1, <1>4, <2>4
<1>8. ASSUME NEW k \in Kernels
      PROVE  IF k \in Sources THEN instance[k].produced = size ELSE instance[k].processed = size
  <2>1. \A j \in 0 .. k : ~Cut(j, history[j][last])
    BY <1>7, EarlierKernels DEF Cut, EndedEarly
  <2>2. ReachesEnd(history, size)
    BY DEF InputInv
  <2>3. /\ history[k][last].produced = size
        /\ k \notin Sources => history[k][last].processed = size
    BY <1>4, <1>7, <2>1, <2>2 DEF ReachesEnd
  <2>. QED
    BY <1>7, <2>3
<1>. QED
  BY <1>4, <1>8 DEF last

\* When the driver goes on to finalize the kernels, each of them has processed
\* the whole file, unless a kernel ended the pipeline early
\* (pipeline.cpp:121-216, 276-280): the threads stop where the file ends, and
\* the one whose turn the last segment is has carried it through every kernel.
\* Sources and UntilN must not have the attribute NoTerminate.
THEOREM OutputIsComplete ==
    ASSUME StopsPipeline
    PROVE  HistorySpec => []CompleteOutput
<1>1. PipelineInv => CompleteOutput
  BY CompleteAtEnd, ItemsAssumption DEF PipelineInv, FileInv, CompleteOutput
<1>. QED
  BY <1>1, PipelineInvariant, PTL
=============================================================================
