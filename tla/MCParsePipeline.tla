--------------------------- MODULE MCParsePipeline ---------------------------
(* Instances of ParsePipeline: five files in chunks of two (three chunks,  *)
(* the last one short), every choice of which files parse and which folds  *)
(* fail.                                                                   *)
EXTENDS ParsePipeline
=============================================================================
