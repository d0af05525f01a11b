---------------------------- MODULE MCReadSource ----------------------------
(***************************************************************************)
(* Small instances of icgrep's pipeline over its standard input for TLC:   *)
(* the source, s2p (NoTerminate), UntilN and the match scanner, which      *)
(* reads UntilN's output and the source's buffer.                          *)
(***************************************************************************)
EXTENDS ReadSource, TLC

GrepInputs == (0 :> <<>>) @@ (1 :> <<0>>) @@ (2 :> <<1>>) @@ (3 :> <<2, 0>>)

GrepStrides == (0 :> 1) @@ (1 :> 1) @@ (2 :> 2) @@ (3 :> 2)

=============================================================================
