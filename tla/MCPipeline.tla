----------------------------- MODULE MCPipeline -----------------------------
(* The instances TLC checks: their sets and bounds are in the .cfg files.  *)
EXTENDS RecordingPipeline
=============================================================================
