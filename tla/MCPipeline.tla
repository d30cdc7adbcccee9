----------------------------- MODULE MCPipeline -----------------------------
(* Model values and bounds for checking Pipeline with TLC. *)
EXTENDS Pipeline
=============================================================================
