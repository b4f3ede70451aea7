----------------------------- MODULE MCPipeline -----------------------------
(* Pipeline on small instances: a set of failures and a symmetry.   *)
EXTENDS Pipeline, TLC

\* Everything except a consumer that negotiates fewer buffers.
AllFailures == FailureKinds \ {"shrink"}

\* Streams are interchangeable in every safety property.
StreamSymmetry == Permutations(Streams)
=============================================================================
