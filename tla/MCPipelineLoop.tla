--------------------------- MODULE MCPipelineLoop ---------------------------
(***************************************************************************)
(* Small instances of the single-threaded pipeline for TLC: the shape of   *)
(* icgrep's pipeline, with segments that the strides do not divide.        *)
(***************************************************************************)
EXTENDS PipelineLoop, TLC

GrepInputs == (0 :> <<>>) @@ (1 :> <<0>>) @@ (2 :> <<1>>) @@ (3 :> <<2, 0>>)

GrepStrides == (0 :> 1) @@ (1 :> 2) @@ (2 :> 4) @@ (3 :> 2)

=============================================================================
