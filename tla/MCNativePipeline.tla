-------------------------- MODULE MCNativePipeline --------------------------
(* Two histories that overlap, one with two questions and one with one; a    *)
(* single permit for questions, so that those of both histories queue for    *)
(* it; one batch that may be sent twice.                                     *)
EXTENDS NativePipeline, TLC

CONSTANTS h1, h2, q1, q2, q3

MCPlanOf == (q1 :> h1) @@ (q2 :> h1) @@ (q3 :> h2)
=============================================================================
