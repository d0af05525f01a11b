------------------------- MODULE MCSegmentPipeline -------------------------
(***************************************************************************)
(* Small instances of the segment-parallel pipeline for TLC: the shape of  *)
(* icgrep's pipeline (grep_engine.cpp), a mapped source, s2p (NoTerminate),*)
(* UntilN and the match scanner, which reads UntilN's output and the       *)
(* source.                                                                 *)
(***************************************************************************)
EXTENDS SegmentDataflow, TLC

GrepInputs == (0 :> <<>>) @@ (1 :> <<0>>) @@ (2 :> <<1>>) @@ (3 :> <<2, 0>>)

GrepStrides == (0 :> 1) @@ (1 :> 1) @@ (2 :> 2) @@ (3 :> 2)

=============================================================================
