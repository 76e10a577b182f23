--------------------------- MODULE MCVisionPipeline ---------------------------
(* VisionPipeline with the constants its configurations give.              *)
EXTENDS VisionPipeline
=============================================================================
