--------------------------- MODULE MCObjectCache ---------------------------
(* Three runs: two of the same pipeline, with a kernel without a signature  *)
(* (u) and one with a signature (s), and one with a kernel that is never    *)
(* cached (c), a kernel of its own (v) and one that shares s's identifier   *)
(* (t).  There are three names of objects and room for two.                 *)
EXTENDS ObjectCache, TLC

CONSTANTS p1, p2, p3, u, v, s, t, c

MCModuleId  == s :> 1 @@ t :> 1 @@ u :> 2 @@ v :> 3 @@ c :> 4
MCSignature == [k \in Kernels |-> IF k = s THEN "sig s" ELSE IF k = t THEN "sig t" ELSE "none"]
MCSize      == [k \in Kernels |-> 1]
MCPipeline  == p1 :> <<u, s>> @@ p2 :> <<c, v, t>> @@ p3 :> <<u, s>>

\* p1 and p3 run the same pipeline.
MCSymmetry == Permutations({p1, p3})
=============================================================================
