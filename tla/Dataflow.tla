------------------------------ MODULE Dataflow ------------------------------
(***************************************************************************)
(* What a pipeline promises, whoever runs it: every kernel is a process    *)
(* that executes its segments in order, one doSegment call per segment,    *)
(* after the kernels before it have executed the same segment, and is told *)
(* what they had produced at THAT segment, not what they have produced     *)
(* since.  No thread, lock or buffer is mentioned.  Both drivers           *)
(* of toolchain/pipeline.cpp, generatePipelineLoop and                     *)
(* generateSegmentParallelPipeline, implement this specification.          *)
(***************************************************************************)
EXTENDS KernelSegments

VARIABLE history    \* history[k][s]: the state of k after its s-th segment

KernelAfter(k, s) == IF s = 0 THEN InitKernelState ELSE history[k][s]

\* The pipeline stops at a kernel that has signalled termination.
Stopped(k) ==
    /\ k \notin NoTerminate
    /\ KernelAfter(k, Len(history[k])).signal

\* The final flag of segment s for kernel k: an earlier kernel signalled.
Final(k, s) ==
    \E j \in 0 .. k - 1 : j \notin NoTerminate /\ history[j][s].signal

Init == history = [k \in Kernels |-> <<>>]

Step(k) ==
    LET s   == Len(history[k]) + 1
        pos == [j \in 0 .. k - 1 |-> history[j][s].produced]
    IN  /\ ~Stopped(k)
        /\ \A j \in 0 .. k - 1 : Len(history[j]) >= s
        /\ \E st \in DoSegmentResults(k, KernelAfter(k, s - 1), pos, Final(k, s)) :
              history' = [history EXCEPT ![k] = Append(@, st)]

Next == \E k \in Kernels : Step(k)

Spec == Init /\ [][Next]_history

=============================================================================
