----------------------- MODULE SegmentPipelineProofs -----------------------
(***************************************************************************)
(* Proofs about the segment-parallel pipeline for every number of threads  *)
(* and kernels, every pipeline shape, stride, segment and file size.       *)
(*                                                                         *)
(* The inductive invariant has two parts.  ControlInv is about the         *)
(* tickets: where each thread may be, given the logicalSegNo of the        *)
(* kernels.  DataInv is about the counts: a kernel's counts at one segment *)
(* bound those at the next, so that what a thread keeps in its registers   *)
(* orders with what the instances hold.  DataInv needs ControlInv, because *)
(* the counts are ordered only as long as the tickets order the calls.     *)
(***************************************************************************)
EXTENDS SegmentPipeline, KernelSegmentsProofs

\* Thread t holds one of the segments t, t + ThreadNum, t + 2*ThreadNum, ...
RoundRobin ==
    \A t \in Threads : \E q \in Nat : segNo[t] = q * ThreadNum + t

\* A thread that waits for a kernel has one to wait for; one inside a kernel
\* holds the segment that is due there; one that stores the consumed counts
\* has passed every kernel.
InPlace ==
    \A t \in Threads :
        /\ pc[t] = "unborn" => at[t] = 0
        /\ pc[t] \in {"segmentWait", "doSegment", "release"} => at[t] < NumKernels
        /\ Inside(t) => logicalSegNo[at[t]] = segNo[t]
        /\ pc[t] = "setConsumed" => at[t] = NumKernels

\* The process thread does not run the thread function while it spawns.
Unstarted == driver = "spawn" => pc[0] = "unborn"

\* The kernels a thread has passed are past its segment.
Behind ==
    \A t \in Threads : \A j \in Kernels :
        j < at[t] => segNo[t] < logicalSegNo[j]

\* The first segment at which kernel j needs thread t again.
Due(t, j) == IF j < at[t] THEN NextHeld(t) ELSE segNo[t]

\* No kernel gets past a segment whose thread has yet to bring it there.
NotAhead ==
    \A t \in Threads : pc[t] # "exitThread" =>
        \A j \in Kernels : logicalSegNo[j] <= Due(t, j)

\* A kernel is never ahead of an earlier one.
Pipelined ==
    \A i, j \in Kernels : i < j => logicalSegNo[j] <= logicalSegNo[i]

ControlType ==
    /\ logicalSegNo \in [Kernels -> Nat]
    /\ pc \in [Threads -> {"unborn", "segmentWait", "doSegment", "release",
                           "setConsumed", "exitThread"}]
    /\ segNo \in [Threads -> Nat]
    /\ at \in [Threads -> 0 .. NumKernels]

ControlInv ==
    /\ ControlType
    /\ RoundRobin
    /\ InPlace
    /\ Unstarted
    /\ Behind
    /\ NotAhead
    /\ Pipelined

-----------------------------------------------------------------------------

\* The thread has executed kernel b for the segment it holds.
Past(t, b) == b < at[t] \/ (b = at[t] /\ pc[t] = "release")

DataType ==
    /\ instance \in [Kernels -> KernelState]
    /\ consumed \in [Kernels -> Nat]
    /\ readable \in [Kernels -> Nat]
    /\ driver \in {"spawn", "call", "finalize", "returned"}
    /\ terminated \in [Threads -> BOOLEAN]
    /\ producedPos \in [Threads -> [Kernels -> Nat]]
    /\ consumedPos \in [Threads -> [Kernels -> Nat]]
    /\ unset \in [Threads -> SUBSET Kernels]

\* No kernel is ahead of its input.
InputBound ==
    \A k \in Kernels :
        /\ WithinInput(k, instance[k])
        /\ \A b \in Bounding(k) : instance[k].processed <= instance[b].produced

\* A register holds no more than the instance it was read from.
RegisterBound ==
    \A t \in Threads : \A b \in Kernels :
        Past(t, b) => producedPos[t][b] <= instance[b].produced

\* Registers read at a later segment hold no less.
RegistersOrdered ==
    \A t, u \in Threads : \A b \in Kernels :
        (Past(t, b) /\ Past(u, b) /\ segNo[t] <= segNo[u]) =>
            producedPos[t][b] <= producedPos[u][b]

\* What a kernel has processed was available at every segment it has yet to
\* execute.
InputAhead ==
    \A t \in Threads : \A k \in Kernels : \A b \in Bounding(k) :
        (Past(t, b) /\ logicalSegNo[k] <= segNo[t]) =>
            instance[k].processed <= producedPos[t][b]

\* The consumed count in a thread's register is one that each consumer the
\* thread has passed has processed.
RegisterConsumed ==
    \A t \in Threads : \A j \in Kernels : \A b \in InputSet(j) :
        Past(t, j) => consumedPos[t][b] <= instance[j].processed

DataInv ==
    /\ DataType
    /\ InputBound
    /\ RegisterBound
    /\ RegistersOrdered
    /\ InputAhead
    /\ RegisterConsumed
    /\ DiscardedIsProcessed

-----------------------------------------------------------------------------
(* The tickets *)

\* The number of a segment determines the thread that takes it.
LEMMA Residues ==
    ASSUME NEW T \in Nat \ {0}, NEW q \in Nat, NEW r \in Nat,
           NEW t \in 0 .. T - 1, NEW u \in 0 .. T - 1,
           q * T + t = r * T + u
    PROVE  t = u
<1>1. ASSUME NEW a \in Nat, NEW b \in Nat, a < b
      PROVE  a * T + T <= b * T
  <2>1. PICK c \in Nat : b = a + 1 + c
    <3>1. b - a - 1 \in Nat /\ b = a + 1 + (b - a - 1)
      BY <1>1
    <3>. QED
      BY <3>1
  <2>2. b * T = a * T + T + c * T
    BY <2>1
  <2>3. c * T \in Nat
    OBVIOUS
  <2>. QED
    BY <2>2, <2>3
<1>2. q * T \in Nat /\ r * T \in Nat
  OBVIOUS
<1>3. ~(q < r)
  BY <1>1, <1>2
<1>4. ~(r < q)
  BY <1>1, <1>2
<1>5. q = r
  BY <1>3, <1>4
<1>. QED
  BY <1>2, <1>5

\* In particular no two threads hold the same segment.
LEMMA SegmentsDisjoint ==
    ASSUME ControlType, RoundRobin, NEW t \in Threads, NEW u \in Threads, t # u
    PROVE  segNo[t] # segNo[u] /\ NextHeld(t) # segNo[u]
<1>1. ThreadNum \in Nat \ {0}
  BY ThreadsAssumption
<1>2. PICK q \in Nat, r \in Nat :
         segNo[t] = q * ThreadNum + t /\ segNo[u] = r * ThreadNum + u
  BY DEF RoundRobin
<1>3. NextHeld(t) = (q + 1) * ThreadNum + t
  <2>1. q * ThreadNum \in Nat /\ (q + 1) * ThreadNum = q * ThreadNum + ThreadNum
    BY <1>1
  <2>. QED
    BY <1>1, <1>2, <2>1 DEF NextHeld, Threads
<1>4. t \in 0 .. ThreadNum - 1 /\ u \in 0 .. ThreadNum - 1 /\ q + 1 \in Nat
  BY DEF Threads
<1>5. q * ThreadNum + t # r * ThreadNum + u
  BY <1>1, <1>4, Residues, Zenon
<1>6. (q + 1) * ThreadNum + t # r * ThreadNum + u
  BY <1>1, <1>4, Residues, Zenon
<1>. QED
  BY <1>2, <1>3, <1>5, <1>6, Zenon

\* The first segment of each thread is its own number, and no kernel has
\* executed any.
THEOREM ControlInit == Init => ControlInv
<1>. SUFFICES ASSUME Init PROVE ControlInv
  OBVIOUS
<1>1. NumKernels \in Nat \ {0} /\ ThreadNum \in Nat \ {0}
  BY KernelsAssumption, ThreadsAssumption
<1>2. ControlType
  BY <1>1 DEF Init, ControlType, Threads, Kernels
<1>3. RoundRobin
  BY <1>1 DEF Init, RoundRobin, Threads
<1>4. InPlace /\ Unstarted
  BY <1>1 DEF Init, InPlace, Inside, Unstarted, Threads
<1>5. Behind /\ NotAhead /\ Pipelined
  BY <1>1 DEF Init, Behind, NotAhead, Due, Pipelined, Threads, Kernels
<1>. QED
  BY <1>2, <1>3, <1>4, <1>5 DEF ControlInv

\* The steps that move no thread and no ticket.
LEMMA ControlUnchanged ==
    ASSUME ControlInv,
           UNCHANGED <<logicalSegNo, pc, segNo, at>>,
           UNCHANGED driver \/ driver' # "spawn"
    PROVE  ControlInv'
<1>1. ControlType' /\ RoundRobin' /\ InPlace' /\ Unstarted'
  BY DEF ControlInv, ControlType, RoundRobin, InPlace, Inside, Unstarted
<1>2. Behind' /\ NotAhead' /\ Pipelined'
  BY DEF ControlInv, Behind, NotAhead, Due, NextHeld, Pipelined
<1>. QED
  BY <1>1, <1>2 DEF ControlInv

\* A thread that moves its control state only, without getting to the end of
\* the loop, and enters a kernel only when its ticket is due.
LEMMA ControlMoved ==
    ASSUME ControlInv, NEW t \in Threads,
           NEW c \in {"segmentWait", "doSegment", "release", "exitThread"},
           pc' = [pc EXCEPT ![t] = c],
           pc[t] # "exitThread",
           c # "exitThread" => at[t] < NumKernels,
           c \in {"doSegment", "release"} => logicalSegNo[at[t]] = segNo[t],
           UNCHANGED <<logicalSegNo, segNo, at>>,
           (driver' = "spawn") => (driver = "spawn" /\ t # 0)
    PROVE  ControlInv'
<1>1. ControlType'
  BY DEF ControlInv, ControlType
<1>2. RoundRobin' /\ Behind' /\ Pipelined'
  BY DEF ControlInv, RoundRobin, Behind, Pipelined
<1>3. InPlace'
  BY DEF ControlInv, ControlType, InPlace, Inside
<1>4. Unstarted'
  BY ThreadsAssumption DEF ControlInv, ControlType, Unstarted, Threads
<1>5. NotAhead'
  BY DEF ControlInv, ControlType, NotAhead, Due, NextHeld
<1>. QED
  BY <1>1, <1>2, <1>3, <1>4, <1>5 DEF ControlInv

\* A thread that stops spinning on kernel at[t], or on the last kernel when the
\* threads are serialized, finds its own segment due at at[t].
LEMMA ReadyIsDue ==
    ASSUME ControlInv, NEW t \in Threads, pc[t] = "segmentWait", Ready(t)
    PROVE  /\ at[t] \in Kernels
           /\ logicalSegNo[at[t]] = segNo[t]
<1>1. /\ at[t] \in Kernels
      /\ NumKernels - 1 \in Kernels
      /\ at[t] <= NumKernels - 1
      /\ at[t] \in Nat
      /\ segNo[t] \in Nat
      /\ logicalSegNo \in [Kernels -> Nat]
  BY KernelsAssumption DEF ControlInv, ControlType, InPlace, Kernels
<1>2. logicalSegNo[at[t]] <= segNo[t]
  BY <1>1 DEF ControlInv, NotAhead, Due
<1>3. CASE ~SerializeThreads
  BY <1>1, <1>3 DEF Ready, WaitKernel
<1>4. CASE SerializeThreads
  <2>1. logicalSegNo[NumKernels - 1] = segNo[t]
    BY <1>4 DEF Ready, WaitKernel
  <2>2. CASE at[t] = NumKernels - 1
    BY <1>1, <2>1, <2>2
  <2>3. CASE at[t] < NumKernels - 1
    <3>1. logicalSegNo[NumKernels - 1] <= logicalSegNo[at[t]]
      BY <1>1, <2>3 DEF ControlInv, Pipelined
    <3>. QED
      BY <1>1, <1>2, <2>1, <3>1
  <2>. QED
    BY <1>1, <2>2, <2>3, KernelsAssumption DEF Kernels
<1>. QED
  BY <1>1, <1>3, <1>4

\* Releasing a kernel's segment number breaks no promise to another thread.
LEMMA TicketReleased ==
    ASSUME ControlInv, NEW t \in Threads,
           at[t] \in Kernels, logicalSegNo[at[t]] = segNo[t],
           logicalSegNo' = [logicalSegNo EXCEPT ![at[t]] = NextSegNo(t)]
    PROVE  /\ logicalSegNo' \in [Kernels -> Nat]
           /\ \A j \in Kernels : logicalSegNo[j] <= logicalSegNo'[j]
           /\ logicalSegNo'[at[t]] = segNo[t] + 1
           /\ \A j \in Kernels \ {at[t]} : logicalSegNo'[j] = logicalSegNo[j]
           /\ Pipelined'
           /\ \A u \in Threads \ {t} : Inside(u) => at[u] # at[t]
           /\ \A u \in Threads \ {t} : pc[u] # "exitThread" =>
                 \A j \in Kernels : logicalSegNo'[j] <= Due(u, j)
<1>. USE DEF ControlInv, ControlType
<1>1. /\ logicalSegNo' \in [Kernels -> Nat]
      /\ \A j \in Kernels : logicalSegNo[j] <= logicalSegNo'[j]
      /\ logicalSegNo'[at[t]] = segNo[t] + 1
      /\ \A j \in Kernels \ {at[t]} : logicalSegNo'[j] = logicalSegNo[j]
  BY DEF NextSegNo
<1>2. \A j \in Kernels : j < at[t] => segNo[t] < logicalSegNo[j]
  BY DEF Behind
<1>3. Pipelined'
  <2>1. SUFFICES ASSUME NEW i \in Kernels, NEW j \in Kernels, i < j
                 PROVE  logicalSegNo'[j] <= logicalSegNo'[i]
    BY DEF Pipelined
  <2>2. /\ logicalSegNo[j] <= logicalSegNo[i]
        /\ logicalSegNo[i] \in Nat /\ logicalSegNo[j] \in Nat
        /\ logicalSegNo'[i] \in Nat /\ segNo[t] \in Nat
    BY <1>1, <2>1 DEF Pipelined
  <2>3. CASE j = at[t]
    BY <1>1, <1>2, <2>1, <2>2, <2>3
  <2>4. CASE j # at[t]
    BY <1>1, <2>2, <2>4
  <2>. QED
    BY <2>3, <2>4
<1>4. ASSUME NEW u \in Threads \ {t}, Inside(u)
      PROVE  at[u] # at[t]
  <2>1. segNo[u] # segNo[t]
    BY SegmentsDisjoint
  <2>. QED
    BY <1>4, <2>1 DEF InPlace
<1>5. ASSUME NEW u \in Threads \ {t}, pc[u] # "exitThread", NEW j \in Kernels
      PROVE  logicalSegNo'[j] <= Due(u, j)
  <2>1. logicalSegNo[j] <= Due(u, j)
    BY <1>5 DEF NotAhead
  <2>2. segNo[t] # segNo[u] /\ segNo[t] # NextHeld(u)
    BY SegmentsDisjoint
  <2>3. CASE j = at[t]
    <3>1. logicalSegNo[j] # Due(u, j)
      BY <2>2, <2>3 DEF Due
    <3>2. Due(u, j) \in Nat
      BY ThreadsAssumption DEF Due, NextHeld
    <3>. QED
      BY <1>1, <2>1, <2>3, <3>1, <3>2
  <2>. QED
    BY <1>1, <2>1, <2>3
<1>. QED
  BY <1>1, <1>3, <1>4, <1>5

\* Each step keeps the control invariant: the tickets keep every thread in its
\* place, whatever the kernels do to their counts.
THEOREM ControlNext == ControlInv /\ [Next]_vars => ControlInv'
<1>. SUFFICES ASSUME ControlInv, [Next]_vars PROVE ControlInv'
  OBVIOUS
<1>. USE DEF ControlInv, ControlType
<1>a. ThreadNum \in Nat \ {0} /\ NumKernels \in Nat \ {0}
  BY KernelsAssumption, ThreadsAssumption
<1>1. ASSUME NEW t \in Threads, Spawn(t)
      PROVE  ControlInv'
  <2>1. pc[t] = "unborn" /\ at[t] < NumKernels
    BY <1>1, <1>a DEF Spawn, InPlace
  <2>. QED
    BY <1>1, <2>1, ControlMoved DEF Spawn, kernelVars
<1>2. ASSUME CallThread0
      PROVE  ControlInv'
  <2>1. 0 \in Threads
    BY <1>a DEF Threads
  <2>2. pc[0] = "unborn" /\ at[0] < NumKernels
    BY <1>2, <1>a, <2>1 DEF CallThread0, InPlace, Unstarted
  <2>. QED
    BY <1>2, <2>1, <2>2, ControlMoved DEF CallThread0, kernelVars
<1>3. ASSUME JoinThreads \/ FinalizeInstances \/ Returned
      PROVE  ControlInv'
  <2>1. UNCHANGED <<logicalSegNo, pc, segNo, at>>
    BY <1>3 DEF JoinThreads, FinalizeInstances, Returned, vars, kernelVars
  <2>2. UNCHANGED driver \/ driver' # "spawn"
    BY <1>3 DEF JoinThreads, FinalizeInstances, Returned, vars
  <2>. QED
    BY <2>1, <2>2, ControlUnchanged
<1>4. ASSUME NEW t \in Threads, Enter(t)
      PROVE  ControlInv'
  <2>1. at[t] \in Kernels /\ logicalSegNo[at[t]] = segNo[t]
    BY <1>4, ReadyIsDue DEF Enter
  <2>2. at[t] < NumKernels /\ pc[t] = "segmentWait"
    BY <1>4 DEF Enter, InPlace
  <2>3. driver = "spawn" => t # 0
    BY <2>2 DEF Unstarted
  <2>. QED
    BY <1>4, <2>1, <2>2, <2>3, ControlMoved DEF Enter, kernelVars
<1>5. ASSUME NEW t \in Threads, DoSegment(t)
      PROVE  ControlInv'
  <2>1. pc[t] = "doSegment" /\ at[t] < NumKernels /\ logicalSegNo[at[t]] = segNo[t]
    BY <1>5 DEF DoSegment, InPlace, Inside
  <2>2. driver = "spawn" => t # 0
    BY <2>1 DEF Unstarted
  <2>3. /\ pc' = [pc EXCEPT ![t] = "release"]
        /\ UNCHANGED <<logicalSegNo, segNo, at, driver>>
    BY <1>5 DEF DoSegment
  <2>. QED
    BY <2>1, <2>2, <2>3, ControlMoved
<1>6. ASSUME NEW t \in Threads, ExitPipeline(t)
      PROVE  ControlInv'
  <2>1. /\ at[t] \in Kernels
        /\ logicalSegNo[at[t]] = segNo[t]
        /\ logicalSegNo' = [logicalSegNo EXCEPT ![at[t]] = NextSegNo(t)]
        /\ pc' = [pc EXCEPT ![t] = "exitThread"]
        /\ UNCHANGED <<segNo, at, driver>>
        /\ pc[t] = "segmentWait"
    BY <1>6, ReadyIsDue DEF ExitPipeline
  <2>2. /\ logicalSegNo' \in [Kernels -> Nat]
        /\ \A j \in Kernels : logicalSegNo[j] <= logicalSegNo'[j]
        /\ \A j \in Kernels \ {at[t]} : logicalSegNo'[j] = logicalSegNo[j]
        /\ Pipelined'
        /\ \A u \in Threads \ {t} : Inside(u) => at[u] # at[t]
        /\ \A u \in Threads \ {t} : pc[u] # "exitThread" =>
              \A j \in Kernels : logicalSegNo'[j] <= Due(u, j)
    BY <2>1, TicketReleased
  <2>3. ControlType' /\ RoundRobin' /\ Unstarted'
    <3>1. ControlType'
      BY <2>1, <2>2
    <3>2. RoundRobin'
      BY <2>1 DEF RoundRobin
    <3>3. driver = "spawn" => t # 0
      BY <2>1 DEF Unstarted
    <3>4. Unstarted'
      BY <2>1, <3>3, <1>a DEF Unstarted, Threads
    <3>. QED
      BY <3>1, <3>2, <3>4
  <2>4. InPlace'
    BY <2>1, <2>2, <1>a DEF InPlace, Inside, Kernels
  <2>5. Behind'
    BY <2>1, <2>2 DEF Behind
  <2>6. NotAhead'
    BY <2>1, <2>2 DEF NotAhead, Due, NextHeld
  <2>. QED
    BY <2>2, <2>3, <2>4, <2>5, <2>6
<1>7. ASSUME NEW t \in Threads, Release(t)
      PROVE  ControlInv'
  <2>1. /\ at[t] \in Kernels
        /\ logicalSegNo[at[t]] = segNo[t]
        /\ logicalSegNo' = [logicalSegNo EXCEPT ![at[t]] = NextSegNo(t)]
        /\ pc' = [pc EXCEPT ![t] = IF at[t] = NumKernels - 1 THEN "setConsumed"
                                   ELSE "segmentWait"]
        /\ at' = [at EXCEPT ![t] = at[t] + 1]
        /\ UNCHANGED <<segNo, driver>>
        /\ pc[t] = "release"
    BY <1>7, <1>a DEF Release, InPlace, Inside, Kernels
  <2>2. /\ logicalSegNo' \in [Kernels -> Nat]
        /\ \A j \in Kernels : logicalSegNo[j] <= logicalSegNo'[j]
        /\ logicalSegNo'[at[t]] = segNo[t] + 1
        /\ \A j \in Kernels \ {at[t]} : logicalSegNo'[j] = logicalSegNo[j]
        /\ Pipelined'
        /\ \A u \in Threads \ {t} : Inside(u) => at[u] # at[t]
        /\ \A u \in Threads \ {t} : pc[u] # "exitThread" =>
              \A j \in Kernels : logicalSegNo'[j] <= Due(u, j)
    BY <2>1, TicketReleased
  <2>3. ControlType' /\ RoundRobin' /\ Unstarted'
    <3>1. ControlType'
      BY <2>1, <2>2, <1>a DEF Kernels
    <3>2. RoundRobin'
      BY <2>1 DEF RoundRobin
    <3>3. driver = "spawn" => t # 0
      BY <2>1 DEF Unstarted
    <3>4. Unstarted'
      BY <2>1, <3>3, <1>a DEF Unstarted, Threads
    <3>. QED
      BY <3>1, <3>2, <3>4
  <2>4. InPlace'
    BY <2>1, <2>2, <1>a DEF InPlace, Inside, Kernels
  <2>5. Behind'
    BY <2>1, <2>2 DEF Behind, Kernels
  <2>6. \A j \in Kernels : logicalSegNo'[j] <= Due(t, j)'
    <3>1. \A j \in Kernels : logicalSegNo[j] <= Due(t, j)
      BY <2>1 DEF NotAhead
    <3>. QED
      BY <2>1, <2>2, <3>1, <1>a DEF Due, NextHeld, Kernels
  <2>7. NotAhead'
    BY <2>1, <2>2, <2>6 DEF NotAhead, Due, NextHeld
  <2>. QED
    BY <2>2, <2>3, <2>4, <2>5, <2>7
<1>8. ASSUME NEW t \in Threads, NEW b \in Kernels, StoreConsumed(t, b)
      PROVE  ControlInv'
  BY <1>8, ControlUnchanged DEF StoreConsumed
<1>9. ASSUME NEW t \in Threads, LoopSegment(t)
      PROVE  ControlInv'
  <2>1. /\ pc[t] = "setConsumed"
        /\ at[t] = NumKernels
        /\ segNo' = [segNo EXCEPT ![t] = segNo[t] + ThreadNum]
        /\ at' = [at EXCEPT ![t] = 0]
        /\ pc' = [pc EXCEPT ![t] = "segmentWait"]
        /\ UNCHANGED <<logicalSegNo, driver>>
    BY <1>9 DEF LoopSegment, NextHeld, InPlace, kernelVars
  <2>2. ControlType' /\ Unstarted'
    <3>1. ControlType'
      BY <2>1, <1>a
    <3>2. driver = "spawn" => t # 0
      BY <2>1 DEF Unstarted
    <3>3. Unstarted'
      BY <2>1, <3>2, <1>a DEF Unstarted, Threads
    <3>. QED
      BY <3>1, <3>3
  <2>3. RoundRobin'
    <3>1. ASSUME NEW q \in Nat, segNo[t] = q * ThreadNum + t
          PROVE  q + 1 \in Nat /\ segNo[t] + ThreadNum = (q + 1) * ThreadNum + t
      <4>1. q * ThreadNum \in Nat /\ (q + 1) * ThreadNum = q * ThreadNum + ThreadNum
        BY <1>a
      <4>. QED
        BY <1>a, <3>1, <4>1 DEF Threads
    <3>2. \E q \in Nat : segNo'[t] = q * ThreadNum + t
      BY <2>1, <3>1 DEF RoundRobin
    <3>3. \A u \in Threads \ {t} : segNo'[u] = segNo[u]
      BY <2>1
    <3>. QED
      BY <3>2, <3>3 DEF RoundRobin
  <2>4. InPlace' /\ Behind' /\ Pipelined'
    BY <2>1, <1>a DEF InPlace, Inside, Behind, Pipelined, Kernels
  <2>5. \A j \in Kernels : logicalSegNo[j] <= segNo[t] + ThreadNum
    <3>1. \A j \in Kernels : logicalSegNo[j] <= Due(t, j)
      BY <2>1 DEF NotAhead
    <3>2. \A j \in Kernels : j < at[t]
      BY <2>1, <1>a DEF Kernels
    <3>. QED
      BY <3>1, <3>2 DEF Due, NextHeld
  <2>6. NotAhead'
    BY <2>1, <2>5 DEF NotAhead, Due, NextHeld, Kernels
  <2>. QED
    BY <2>2, <2>3, <2>4, <2>6
<1>10. ASSUME NEW t \in Threads, ExitThread(t)
       PROVE  ControlInv'
  <2>1. pc[t] = "setConsumed"
    BY <1>10 DEF ExitThread
  <2>2. driver = "spawn" => t # 0
    BY <2>1 DEF Unstarted
  <2>. QED
    BY <1>10, <2>1, <2>2, ControlMoved DEF ExitThread, kernelVars
<1>11. ASSUME UNCHANGED vars
       PROVE  ControlInv'
  BY <1>11, ControlUnchanged DEF vars, kernelVars
<1>. QED
  BY <1>1, <1>2, <1>3, <1>4, <1>5, <1>6, <1>7, <1>8, <1>9, <1>10, <1>11
     DEF Next, DriverStep, ThreadStep, Coordinate

\* At every moment the threads and the tickets are where the round-robin of the
\* segments puts them.
THEOREM ControlInvariant == Spec => []ControlInv
BY ControlInit, ControlNext, PTL DEF Spec

\* Whatever the number of threads, kernels and segments, and with or without
\* SerializeThreads, two threads are never inside the same kernel.
THEOREM Exclusion == Spec => []KernelExclusive
<1>1. ControlInv => KernelExclusive
  <2>. SUFFICES ASSUME ControlInv, NEW t \in Threads, NEW u \in Threads,
                       t # u, Inside(t), Inside(u)
                PROVE  at[t] # at[u]
    BY DEF KernelExclusive
  <2>1. segNo[t] # segNo[u]
    BY SegmentsDisjoint DEF ControlInv
  <2>. QED
    BY <2>1 DEF ControlInv, InPlace
<1>. QED
  BY <1>1, ControlInvariant, PTL

\* Each kernel executes the segments in order, and a segment goes through the
\* kernels in order.
THEOREM InOrder == Spec => []SegmentsInOrder
<1>1. ControlInv => SegmentsInOrder
  <2>. SUFFICES ASSUME ControlInv, NEW t \in Threads, Inside(t)
                PROVE  /\ logicalSegNo[at[t]] = segNo[t]
                       /\ \A j \in 0 .. at[t] - 1 : logicalSegNo[j] > segNo[t]
                       /\ \A j \in at[t] + 1 .. NumKernels - 1 :
                             logicalSegNo[j] <= segNo[t]
    BY DEF SegmentsInOrder
  <2>. USE KernelsAssumption DEF ControlInv, ControlType, Kernels
  <2>1. logicalSegNo[at[t]] = segNo[t] /\ at[t] < NumKernels
    BY DEF InPlace, Inside
  <2>2. \A j \in 0 .. at[t] - 1 : logicalSegNo[j] > segNo[t]
    BY <2>1 DEF Behind
  <2>3. \A j \in Kernels : logicalSegNo[j] <= Due(t, j)
    BY DEF NotAhead, Inside
  <2>4. \A j \in at[t] + 1 .. NumKernels - 1 : logicalSegNo[j] <= segNo[t]
    BY <2>1, <2>3 DEF Due
  <2>. QED
    BY <2>1, <2>2, <2>4
<1>. QED
  BY <1>1, ControlInvariant, PTL

-----------------------------------------------------------------------------
(* The counts *)

\* Threads that have executed kernel b did so before one that is about to.
LEMMA ExecutedEarlier ==
    ASSUME ControlInv, NEW u \in Threads, pc[u] = "doSegment",
           NEW t \in Threads, Past(t, at[u])
    PROVE  segNo[t] < segNo[u] /\ t # u
<1>. USE DEF ControlInv, ControlType
<1>1. at[u] \in Kernels /\ logicalSegNo[at[u]] = segNo[u]
  BY KernelsAssumption DEF InPlace, Inside, Kernels
<1>2. t # u
  BY <1>1 DEF Past, Kernels
<1>3. CASE at[u] < at[t]
  BY <1>1, <1>2, <1>3 DEF Behind
<1>4. CASE at[u] = at[t] /\ pc[t] = "release"
  <2>1. segNo[t] = segNo[u]
    BY <1>1, <1>4 DEF InPlace, Inside
  <2>. QED
    BY <1>2, <2>1, SegmentsDisjoint
<1>. QED
  BY <1>3, <1>4 DEF Past

\* At first every count is 0 and no thread has read any.
THEOREM DataInit == Init => DataInv
<1>. SUFFICES ASSUME Init PROVE DataInv
  OBVIOUS
<1>. USE DEF Init
<1>1. InitKernelState \in KernelState
  BY DEF InitKernelState, KernelState
<1>2. DataType
  BY <1>1 DEF DataType, NoPositions
<1>3. InputBound
  <2>1. \A k \in Kernels : \A b \in Bounding(k) : b \in Kernels
    BY InputsAreEarlier DEF Bounding
  <2>. QED
    BY <2>1, ItemsAssumption DEF InputBound, WithinInput, InitKernelState
<1>4. RegisterBound /\ RegistersOrdered
  BY DEF RegisterBound, RegistersOrdered, NoPositions, InitKernelState
<1>5. InputAhead
  <2>1. \A k \in Kernels : \A b \in Bounding(k) : b \in Kernels
    BY InputsAreEarlier DEF Bounding
  <2>. QED
    BY <2>1 DEF InputAhead, NoPositions, InitKernelState
<1>6. RegisterConsumed
  <2>1. \A j \in Kernels : \A b \in InputSet(j) : b \in Kernels
    BY InputsAreEarlier
  <2>. QED
    BY <2>1 DEF RegisterConsumed, NoPositions, InitKernelState
<1>7. DiscardedIsProcessed
  BY DEF DiscardedIsProcessed, NoPositions, InitKernelState, Consumers
<1>. QED
  BY <1>2, <1>3, <1>4, <1>5, <1>6, <1>7 DEF DataInv

\* Steps that call no kernel keep the counts in order, as long as a thread that
\* starts another segment forgets what it read at the one before.
LEMMA DataKept ==
    ASSUME ControlType, ControlType', DataInv,
           UNCHANGED instance,
           \A k \in Kernels : logicalSegNo[k] <= logicalSegNo'[k],
           \A t \in Threads : \A b \in Kernels :
               Past(t, b)' => /\ Past(t, b)
                              /\ segNo'[t] = segNo[t]
                              /\ producedPos'[t] = producedPos[t]
                              /\ consumedPos'[t] = consumedPos[t],
           DataType', DiscardedIsProcessed'
    PROVE  DataInv'
<1>. USE DEF DataInv
<1>1. InputBound'
  BY DEF InputBound
<1>2. RegisterBound' /\ RegistersOrdered'
  BY DEF RegisterBound, RegistersOrdered
<1>3. InputAhead'
  <2>. SUFFICES ASSUME NEW t \in Threads, NEW k \in Kernels, NEW b \in Bounding(k),
                       Past(t, b)', logicalSegNo'[k] <= segNo'[t]
                PROVE  instance[k].processed <= producedPos'[t][b]
    BY DEF InputAhead
  <2>1. b \in Kernels
    BY InputsAreEarlier DEF Bounding
  <2>2. Past(t, b) /\ segNo'[t] = segNo[t] /\ producedPos'[t] = producedPos[t]
    BY <2>1
  <2>3. logicalSegNo[k] <= segNo[t]
    BY <2>2 DEF ControlType
  <2>. QED
    BY <2>2, <2>3 DEF InputAhead
<1>4. RegisterConsumed'
  BY DEF RegisterConsumed
<1>. QED
  BY <1>1, <1>2, <1>3, <1>4

\* Thread u's call of kernel at[u] leaves it in state st, and reads its counts.
Leaves(u, st) ==
    LET k == at[u]
    IN  /\ pc[u] = "doSegment"
        /\ instance' = [instance EXCEPT ![k] = st]
        /\ producedPos' = [producedPos EXCEPT ![u][k] = st.produced]
        /\ consumedPos' = [consumedPos EXCEPT ![u] = ConsumedAfter(k, st, @)]
        /\ terminated' = [terminated EXCEPT ![u] = TerminatedAfter(k, st, @)]
        /\ readable' \in {readable, DropPages(k)}
        /\ pc' = [pc EXCEPT ![u] = "release"]
        /\ UNCHANGED <<logicalSegNo, consumed, driver, segNo, at, unset>>

\* A thread about to call a kernel was let in by its ticket, and what the kernel
\* has processed is available to it at this segment too.
LEMMA CalledInPlace ==
    ASSUME ControlInv, DataInv, NEW u \in Threads, pc[u] = "doSegment"
    PROVE  /\ at[u] \in Kernels
           /\ logicalSegNo[at[u]] = segNo[u]
           /\ at[u] \notin Sources =>
                 instance[at[u]].processed <= Available(at[u], producedPos[u])
           /\ \A b \in Bounding(at[u]) :
                 /\ b \in Kernels
                 /\ Past(u, b)
                 /\ b # at[u]
                 /\ instance[at[u]].processed <= producedPos[u][b]
<1>. DEFINE k == at[u]
<1>. USE DEF ControlInv, ControlType, DataInv
<1>1. k \in Kernels /\ logicalSegNo[k] = segNo[u]
  BY KernelsAssumption DEF InPlace, Inside, Kernels
<1>. HIDE DEF k
<1>2. \A b \in Bounding(k) :
         /\ b \in Kernels
         /\ Past(u, b)
         /\ b # k
         /\ instance[k].processed <= producedPos[u][b]
  <2>1. \A b \in Bounding(k) : b \in Kernels /\ b < k /\ Past(u, b)
    BY <1>1, InputsAreEarlier DEF Bounding, Past, k
  <2>. QED
    BY <1>1, <2>1 DEF InputAhead, Kernels
<1>3. ASSUME k \notin Sources
      PROVE  instance[k].processed <= Available(k, producedPos[u])
  <2>1. producedPos[u] \in [Kernels -> Nat]
    BY DEF DataType
  <2>2. \E b \in Bounding(k) : Available(k, producedPos[u]) = producedPos[u][b]
    BY <1>1, <1>3, <2>1, AvailableIsBounded
  <2>. QED
    BY <1>2, <2>2
<1>. QED
  BY <1>1, <1>2, <1>3 DEF k

\* A call that takes the kernel's counts forward, within its input, keeps the
\* counts in order.
LEMMA DataAdvanced ==
    ASSUME ControlInv, DataInv, NEW u \in Threads, NEW st \in KernelState,
           Leaves(u, st),
           instance[at[u]].processed <= st.processed,
           instance[at[u]].produced <= st.produced,
           WithinInput(at[u], st),
           at[u] \in Sources => st.processed = instance[at[u]].processed,
           at[u] \notin Sources => st.processed <= Available(at[u], producedPos[u])
    PROVE  DataInv'
<1>. DEFINE k == at[u]
<1>. USE DEF ControlInv, ControlType, DataInv
<1>1. k \in Kernels /\ pc[u] = "doSegment" /\ logicalSegNo[k] = segNo[u]
  BY CalledInPlace DEF Leaves
<1>2. /\ instance' = [instance EXCEPT ![k] = st]
      /\ producedPos' = [producedPos EXCEPT ![u][k] = st.produced]
      /\ consumedPos' = [consumedPos EXCEPT
                              ![u] = ConsumedAfter(k, st, consumedPos[u])]
      /\ terminated' = [terminated EXCEPT
                              ![u] = TerminatedAfter(k, st, terminated[u])]
  BY DEF Leaves
<1>3. /\ readable' \in {readable, DropPages(k)}
      /\ pc' = [pc EXCEPT ![u] = "release"]
      /\ UNCHANGED <<logicalSegNo, consumed, driver, segNo, at, unset>>
  BY DEF Leaves
<1>4. \A b \in Bounding(k) :
         /\ b \in Kernels
         /\ Past(u, b)
         /\ b # k
         /\ instance[k].processed <= producedPos[u][b]
  BY <1>1, CalledInPlace
<1>5. /\ st \in KernelState
      /\ instance[k].processed <= st.processed
      /\ instance[k].produced <= st.produced
      /\ WithinInput(k, st)
      /\ k \in Sources => st.processed = instance[k].processed
      /\ k \notin Sources => st.processed <= Available(k, producedPos[u])
  OBVIOUS
<1>. HIDE DEF k
<1>6. /\ instance[k] \in KernelState
      /\ producedPos[u] \in [Kernels -> Nat]
      /\ consumedPos[u] \in [Kernels -> Nat]
      /\ terminated[u] \in BOOLEAN
  BY <1>1 DEF DataType
<1>7. \A b \in Bounding(k) : st.processed <= producedPos[u][b]
  <2>1. ASSUME NEW b \in Bounding(k)
        PROVE  k \notin Sources
    BY <1>1, InputsAreEarlier DEF Bounding
  <2>. QED
    BY <1>1, <1>4, <1>6, <1>5, <2>1, AvailableIsBounded DEF KernelState
<1>8. /\ instance' \in [Kernels -> KernelState]
      /\ instance'[k] = st
      /\ \A j \in Kernels \ {k} : instance'[j] = instance[j]
      /\ \A j \in Kernels : /\ instance[j].processed <= instance'[j].processed
                            /\ instance[j].produced <= instance'[j].produced
  BY <1>1, <1>2, <1>5 DEF DataType, KernelState
<1>9. /\ producedPos' \in [Threads -> [Kernels -> Nat]]
       /\ producedPos'[u][k] = st.produced
       /\ \A t \in Threads, b \in Kernels : (t # u \/ b # k) =>
             producedPos'[t][b] = producedPos[t][b]
  BY <1>1, <1>2, <1>5 DEF DataType, KernelState
<1>10. \A t \in Threads, b \in Kernels :
          Past(t, b)' <=> (Past(t, b) \/ (t = u /\ b = k))
  BY <1>1, <1>3 DEF Past, k
<1>11. DataType'
  <2>1. readable' \in [Kernels -> Nat]
    BY <1>1, <1>3, PageFloorIsBelow DEF DropPages, DataType
  <2>2. consumedPos' \in [Threads -> [Kernels -> Nat]]
    BY <1>1, <1>2, <1>6, <1>5, ConsumedAfterType DEF DataType
  <2>3. terminated' \in [Threads -> BOOLEAN]
    <3>1. TerminatedAfter(k, st, terminated[u]) \in BOOLEAN
      BY DEF TerminatedAfter
    <3>. QED
      BY <1>2, <3>1 DEF DataType
  <2>. QED
    BY <1>3, <1>8, <1>9, <2>1, <2>2, <2>3 DEF DataType
<1>12. InputBound'
  <2>1. ASSUME NEW j \in Kernels, NEW b \in Bounding(j)
        PROVE  instance'[j].processed <= instance'[b].produced
    <3>1. b \in Kernels /\ b # j
      BY InputsAreEarlier DEF Bounding, Kernels
    <3>2. instance[j].processed <= instance[b].produced
      BY DEF InputBound
    <3>3. CASE j = k
      <4>1. st.processed <= producedPos[u][b] /\ Past(u, b)
        BY <1>4, <1>7, <3>3
      <4>2. producedPos[u][b] <= instance[b].produced
        BY <3>1, <4>1 DEF RegisterBound
      <4>. QED
        BY <1>6, <1>5, <1>8, <3>1, <3>3, <4>1, <4>2 DEF DataType, KernelState
    <3>4. CASE j # k
      BY <1>8, <3>1, <3>2, <3>4 DEF DataType, KernelState
    <3>. QED
      BY <3>3, <3>4
  <2>2. \A j \in Kernels : WithinInput(j, instance'[j])
    BY <1>5, <1>8 DEF InputBound
  <2>. QED
    BY <2>1, <2>2 DEF InputBound
<1>13. RegisterBound'
  <2>. SUFFICES ASSUME NEW t \in Threads, NEW b \in Kernels, Past(t, b)'
                PROVE  producedPos'[t][b] <= instance'[b].produced
    BY DEF RegisterBound
  <2>1. CASE t = u /\ b = k
    BY <1>5, <1>8, <1>9, <2>1 DEF KernelState
  <2>2. CASE ~(t = u /\ b = k)
    <3>1. producedPos[t][b] <= instance[b].produced
      BY <1>10, <2>2 DEF RegisterBound
    <3>. QED
      BY <1>8, <1>9, <2>2, <3>1 DEF DataType, KernelState
  <2>. QED
    BY <2>1, <2>2
<1>14. RegistersOrdered'
  <2>. SUFFICES ASSUME NEW t \in Threads, NEW v \in Threads, NEW b \in Kernels,
                       Past(t, b)', Past(v, b)', segNo[t] <= segNo[v]
                PROVE  producedPos'[t][b] <= producedPos'[v][b]
    BY <1>3 DEF RegistersOrdered
  <2>1. CASE t = v
    BY <1>9, <2>1
  <2>2. CASE t # v /\ v = u /\ b = k
    <3>1. producedPos[t][b] <= instance[b].produced
      BY <1>10, <2>2 DEF RegisterBound
    <3>. QED
      BY <1>1, <1>5, <1>9, <2>2, <3>1 DEF DataType, KernelState
  <2>3. CASE t # v /\ t = u /\ b = k
    <3>1. segNo[v] < segNo[u]
      BY <1>1, <1>10, <2>3, ExecutedEarlier DEF k
    <3>. QED
      BY <2>3, <3>1
  <2>4. CASE b # k \/ (t # u /\ v # u)
    <3>1. producedPos[t][b] <= producedPos[v][b]
      BY <1>10, <2>4 DEF RegistersOrdered
    <3>. QED
      BY <1>9, <2>4, <3>1
  <2>. QED
    BY <2>1, <2>2, <2>3, <2>4
<1>15. InputAhead'
  <2>. SUFFICES ASSUME NEW t \in Threads, NEW j \in Kernels, NEW b \in Bounding(j),
                       Past(t, b)', logicalSegNo[j] <= segNo[t]
                PROVE  instance'[j].processed <= producedPos'[t][b]
    BY <1>3 DEF InputAhead
  <2>1. b \in Kernels /\ b # j
    BY InputsAreEarlier DEF Bounding, Kernels
  <2>2. CASE t = u /\ b = k
    <3>1. instance[j].processed <= instance[k].produced
      BY <2>2 DEF InputBound
    <3>. QED
      BY <1>1, <1>5, <1>8, <1>9, <2>1, <2>2, <3>1 DEF DataType, KernelState
  <2>3. CASE ~(t = u /\ b = k) /\ j = k
    <3>1. Past(t, b) /\ segNo[u] <= segNo[t]
      BY <1>1, <1>10, <2>1, <2>3
    <3>2. Past(u, b) /\ st.processed <= producedPos[u][b]
      BY <1>4, <1>7, <2>3
    <3>3. producedPos[u][b] <= producedPos[t][b]
      BY <2>1, <3>1, <3>2 DEF RegistersOrdered
    <3>. QED
      BY <1>5, <1>8, <1>9, <2>1, <2>3, <3>2, <3>3 DEF DataType, KernelState
  <2>4. CASE ~(t = u /\ b = k) /\ j # k
    BY <1>8, <1>9, <1>10, <2>1, <2>4 DEF InputAhead
  <2>. QED
    BY <2>2, <2>3, <2>4
<1>16. RegisterConsumed'
  <2>. SUFFICES ASSUME NEW t \in Threads, NEW j \in Kernels, NEW b \in InputSet(j),
                       Past(t, j)'
                PROVE  consumedPos'[t][b] <= instance'[j].processed
    BY DEF RegisterConsumed
  <2>1. b \in Kernels
    BY InputsAreEarlier
  <2>. DEFINE after == ConsumedAfter(k, st, consumedPos[u])
  <2>2. after \in [Kernels -> Nat]
    BY <1>1, <1>6, <1>5, ConsumedAfterType
  <2>3. /\ b \in InputSet(k) => after[b] <= st.processed
        /\ ~(b \in InputSet(k) /\ FirstConsumer(b, k)) =>
              after[b] <= consumedPos[u][b]
    BY <1>1, <1>6, <1>5, <2>1, ConsumedAfterIsLeast
  <2>4. consumedPos'[t] = IF t = u THEN after ELSE consumedPos[t]
    BY <1>2 DEF DataType
  <2>. HIDE DEF after
  <2>5. CASE t = u /\ j = k
    BY <1>8, <2>3, <2>4, <2>5
  <2>6. CASE t = u /\ j # k
    <3>1. j < k /\ Past(u, j)
      BY <1>1, <1>10, <2>6 DEF Past, k
    <3>2. ~FirstConsumer(b, k)
      BY <1>1, <3>1 DEF FirstConsumer, Consumers, Kernels
    <3>3. after[b] <= consumedPos[u][b] /\ consumedPos[u][b] <= instance[j].processed
      BY <2>3, <3>1, <3>2 DEF RegisterConsumed
    <3>. QED
      BY <1>6, <1>8, <2>1, <2>2, <2>4, <2>6, <3>3 DEF DataType, KernelState
  <2>7. CASE t # u
    <3>1. consumedPos[t][b] <= instance[j].processed
      BY <1>10, <2>7 DEF RegisterConsumed
    <3>. QED
      BY <1>8, <2>1, <2>4, <2>7, <3>1 DEF DataType, KernelState
  <2>. QED
    BY <2>5, <2>6, <2>7
<1>17. DiscardedIsProcessed'
  <2>. SUFFICES ASSUME NEW b \in Kernels, NEW j \in Consumers(b)
                PROVE  /\ consumed'[b] <= instance'[j].processed
                       /\ readable'[b] <= instance'[j].processed
    BY DEF DiscardedIsProcessed
  <2>1. /\ j \in Kernels
        /\ consumed[b] <= instance[j].processed
        /\ readable[b] <= instance[j].processed
    BY DEF DiscardedIsProcessed, Consumers
  <2>2. /\ consumed[b] \in Nat /\ readable[b] \in Nat
        /\ instance[j].processed \in Nat
        /\ instance'[j].processed \in Nat
        /\ instance[j].processed <= instance'[j].processed
    BY <1>8, <2>1 DEF DataType, KernelState
  <2>3. readable'[b] = readable[b] \/ readable'[b] = PageFloor(consumed[b])
    BY <1>1, <1>3 DEF DropPages, DataType
  <2>4. PageFloor(consumed[b]) \in Nat /\ PageFloor(consumed[b]) <= consumed[b]
    BY <2>2, PageFloorIsBelow
  <2>. QED
    BY <1>3, <2>1, <2>2, <2>3, <2>4
<1>. QED
  BY <1>11, <1>12, <1>13, <1>14, <1>15, <1>16, <1>17

\* A call of kernel at[u] by thread u keeps the counts in order.
LEMMA DataCalled ==
    ASSUME ControlInv, DataInv, NEW u \in Threads, DoSegment(u)
    PROVE  DataInv'
<1>. DEFINE k == at[u]
<1>1. /\ k \in Kernels /\ pc[u] = "doSegment"
      /\ k \notin Sources => instance[k].processed <= Available(k, producedPos[u])
  BY CalledInPlace DEF DoSegment
<1>2. PICK st \in DoSegmentResults(k, instance[k], producedPos[u], terminated[u]) :
         Leaves(u, st)
  BY DEF DoSegment, InputPositions, Leaves
<1>. HIDE DEF k
<1>3. /\ instance[k] \in KernelState
      /\ producedPos[u] \in [Kernels -> Nat]
      /\ terminated[u] \in BOOLEAN
      /\ WithinInput(k, instance[k])
  BY <1>1 DEF DataInv, DataType, InputBound
<1>4. /\ st \in KernelState
      /\ instance[k].processed <= st.processed
      /\ instance[k].produced <= st.produced
      /\ WithinInput(k, st)
      /\ k \in Sources => st.processed = instance[k].processed
      /\ k \notin Sources => st.processed <= Available(k, producedPos[u])
  BY <1>1, <1>2, <1>3, DoSegmentMovesForward
<1>. QED
  BY <1>2, <1>4, DataAdvanced DEF k

\* Each step keeps the counts in order.
THEOREM DataNext == ControlInv /\ DataInv /\ [Next]_vars => DataInv'
<1>. SUFFICES ASSUME ControlInv, DataInv, [Next]_vars PROVE DataInv'
  OBVIOUS
<1>. USE DEF ControlInv, ControlType
<1>0. ControlInv' /\ ControlType'
  BY ControlNext
<1>1. ASSUME UNCHANGED <<instance, logicalSegNo, segNo, at, consumed, readable,
                         terminated, producedPos, consumedPos, unset>>,
             driver' \in {"spawn", "call", "finalize", "returned"},
             \A t \in Threads : pc'[t] = "release" => pc[t] = "release"
      PROVE  DataInv'
  <2>1. \A t \in Threads : \A b \in Kernels : Past(t, b)' => Past(t, b)
    BY <1>1 DEF Past
  <2>2. DataType' /\ DiscardedIsProcessed'
    BY <1>1 DEF DataInv, DataType, DiscardedIsProcessed
  <2>3. \A k \in Kernels : logicalSegNo[k] <= logicalSegNo'[k]
    BY <1>1
  <2>. QED
    BY <1>0, <1>1, <2>1, <2>2, <2>3, DataKept
<1>2. ASSUME NEW t \in Threads, Spawn(t)
      PROVE  DataInv'
  BY <1>1, <1>2 DEF Spawn, kernelVars, registers, DataInv, DataType
<1>3. ASSUME CallThread0
      PROVE  DataInv'
  BY <1>1, <1>3 DEF CallThread0, kernelVars, registers, DataInv, DataType
<1>4. ASSUME JoinThreads \/ FinalizeInstances \/ Returned \/ UNCHANGED vars
      PROVE  DataInv'
  <2>1. driver' \in {"spawn", "call", "finalize", "returned"}
    BY <1>4 DEF JoinThreads, FinalizeInstances, Returned, vars, DataInv, DataType
  <2>2. UNCHANGED <<kernelVars, pc, segNo, at, registers>>
    BY <1>4 DEF JoinThreads, FinalizeInstances, Returned, vars
  <2>. QED
    BY <1>1, <2>1, <2>2 DEF kernelVars, registers
<1>5. ASSUME NEW t \in Threads, Enter(t) \/ ExitThread(t)
      PROVE  DataInv'
  BY <1>1, <1>5 DEF Enter, ExitThread, kernelVars, registers, DataInv, DataType
<1>6. ASSUME NEW t \in Threads, DoSegment(t)
      PROVE  DataInv'
  BY <1>6, DataCalled
<1>7. ASSUME NEW t \in Threads, ExitPipeline(t)
      PROVE  DataInv'
  <2>1. at[t] \in Kernels /\ logicalSegNo[at[t]] = segNo[t]
    BY <1>7, ReadyIsDue DEF ExitPipeline
  <2>2. \A k \in Kernels : logicalSegNo[k] <= logicalSegNo'[k]
    BY <1>7, <2>1, TicketReleased DEF ExitPipeline
  <2>3. \A u \in Threads : \A b \in Kernels : Past(u, b)' => Past(u, b)
    BY <1>7 DEF ExitPipeline, Past
  <2>4. DataType' /\ DiscardedIsProcessed'
    BY <1>7 DEF ExitPipeline, registers, DataInv, DataType, DiscardedIsProcessed
  <2>. QED
    BY <1>0, <1>7, <2>2, <2>3, <2>4, DataKept DEF ExitPipeline, registers
<1>8. ASSUME NEW t \in Threads, Release(t)
      PROVE  DataInv'
  <2>1. at[t] \in Kernels /\ logicalSegNo[at[t]] = segNo[t]
    BY <1>8, KernelsAssumption DEF Release, InPlace, Inside, Kernels
  <2>2. \A k \in Kernels : logicalSegNo[k] <= logicalSegNo'[k]
    BY <1>8, <2>1, TicketReleased DEF Release
  <2>3. \A u \in Threads : \A b \in Kernels : Past(u, b)' => Past(u, b)
    BY <1>8, <2>1 DEF Release, Past, Kernels
  <2>4. unset' \in [Threads -> SUBSET Kernels]
    <3>1. ConsumedBuffers \in SUBSET Kernels
      BY DEF ConsumedBuffers
    <3>2. unset' = [unset EXCEPT ![t] = ConsumedBuffers] \/ unset' = unset
      BY <1>8 DEF Release
    <3>3. unset \in [Threads -> SUBSET Kernels]
      BY DEF DataInv, DataType
    <3>. QED
      BY <3>1, <3>2, <3>3
  <2>5. DataType' /\ DiscardedIsProcessed'
    BY <1>8, <2>4 DEF Release, DataInv, DataType, DiscardedIsProcessed
  <2>. QED
    BY <1>0, <1>8, <2>2, <2>3, <2>5, DataKept DEF Release
<1>9. ASSUME NEW t \in Threads, NEW c \in Kernels, StoreConsumed(t, c)
      PROVE  DataInv'
  <2>1. \A u \in Threads : \A b \in Kernels : Past(u, b)' => Past(u, b)
    BY <1>9 DEF StoreConsumed, Past
  <2>2. DataType'
    BY <1>9 DEF StoreConsumed, DataInv, DataType
  <2>3. \A j \in Consumers(c) : consumedPos[t][c] <= instance[j].processed
    <3>. SUFFICES ASSUME NEW j \in Consumers(c)
                  PROVE  consumedPos[t][c] <= instance[j].processed
      OBVIOUS
    <3>1. at[t] = NumKernels
      BY <1>9 DEF StoreConsumed, InPlace
    <3>2. j \in Kernels /\ c \in InputSet(j) /\ Past(t, j)
      BY <3>1, KernelsAssumption DEF Consumers, Past, Kernels
    <3>. QED
      BY <3>2 DEF DataInv, RegisterConsumed
  <2>4. DiscardedIsProcessed'
    BY <1>9, <2>3 DEF StoreConsumed, DataInv, DataType, DiscardedIsProcessed
  <2>. QED
    BY <1>0, <1>9, <2>1, <2>2, <2>4, DataKept DEF StoreConsumed
<1>10. ASSUME NEW t \in Threads, LoopSegment(t)
       PROVE  DataInv'
  <2>1. \A b \in Kernels : ~Past(t, b)'
    BY <1>10 DEF LoopSegment, Past, Kernels
  <2>2. \A u \in Threads \ {t} : \A b \in Kernels : Past(u, b)' =>
           /\ Past(u, b)
           /\ segNo'[u] = segNo[u]
           /\ producedPos'[u] = producedPos[u]
           /\ consumedPos'[u] = consumedPos[u]
    BY <1>10 DEF LoopSegment, Past, DataInv, DataType
  <2>3. NoPositions \in [Kernels -> Nat]
    BY DEF NoPositions
  <2>4. DataType' /\ DiscardedIsProcessed'
    BY <1>10, <2>3 DEF LoopSegment, kernelVars, DataInv, DataType,
                       DiscardedIsProcessed
  <2>5. UNCHANGED <<instance, logicalSegNo>>
    BY <1>10 DEF LoopSegment, kernelVars
  <2>6. \A k \in Kernels : logicalSegNo[k] <= logicalSegNo'[k]
    BY <2>5
  <2>. QED
    BY <1>0, <2>1, <2>2, <2>4, <2>5, <2>6, DataKept
<1>. QED
  BY <1>2, <1>3, <1>4, <1>5, <1>6, <1>7, <1>8, <1>9, <1>10
     DEF Next, DriverStep, ThreadStep, Coordinate

\* At every moment the counts in the registers, in the stores to the source
\* and in the kernel instances are in order.
THEOREM DataInvariant == Spec => [](ControlInv /\ DataInv)
<1>1. Init => ControlInv /\ DataInv
  BY ControlInit, DataInit
<1>2. (ControlInv /\ DataInv) /\ [Next]_vars => (ControlInv /\ DataInv)'
  BY ControlNext, DataNext
<1>. QED
  BY <1>1, <1>2, PTL DEF Spec

\* Every variable keeps its type: no count is ever negative, so that no kernel
\* is called with fewer items than it has processed.
THEOREM TypeCorrect == Spec => []TypeOK
<1>1. ControlInv /\ DataInv => TypeOK
  BY DEF ControlInv, ControlType, DataInv, DataType, TypeOK
<1>. QED
  BY <1>1, DataInvariant, PTL

\* Whatever the order in which the threads store the consumed counts, no source
\* is told that an item is consumed, and MMapSource drops no page, before every
\* consumer has processed it.
THEOREM Discarded == Spec => []DiscardedIsProcessed
<1>1. DataInv => DiscardedIsProcessed
  BY DEF DataInv
<1>. QED
  BY <1>1, DataInvariant, PTL

=============================================================================
