--------------------------- MODULE SegmentDataflow ---------------------------
(***************************************************************************)
(* The segment-parallel pipeline implements Dataflow.  The history         *)
(* variable records what each kernel's doSegment calls left behind, in the *)
(* order in which the threads made them; it changes nothing else.          *)
(***************************************************************************)
EXTENDS SegmentPipeline

VARIABLE history

allVars == <<vars, history>>

HistoryInit == Init /\ history = [k \in Kernels |-> <<>>]

RecordedDoSegment(t) ==
    /\ DoSegment(t)
    /\ history' = [history EXCEPT ![at[t]] = Append(@, instance'[at[t]])]

Unrecorded == DriverStep \/ (\E t \in Threads : Coordinate(t)) \/ Returned

HistoryNext ==
    \/ \E t \in Threads : RecordedDoSegment(t)
    \/ Unrecorded /\ UNCHANGED history

HistorySpec == HistoryInit /\ [][HistoryNext]_allVars

\* The same fairness as the pipeline's, over the recording steps.
FairHistorySpec ==
    /\ HistorySpec
    /\ WF_allVars(DriverStep /\ UNCHANGED history)
    /\ \A t \in Threads :
          WF_allVars(RecordedDoSegment(t) \/ (Coordinate(t) /\ UNCHANGED history))

Abstract == INSTANCE Dataflow

\* Whatever the interleaving of the threads, each kernel's results are those
\* of a run of the kernels one segment at a time: the counts a thread keeps in
\* its registers are the ones its segment should see, and no kernel is called
\* again after it has ended the pipeline.
ImplementsDataflow == Abstract!Spec

=============================================================================
