--------------------------- MODULE MCReupPipeline ---------------------------
(***************************************************************************)
(* Small instances of ReupPipeline.                                        *)
(***************************************************************************)
EXTENDS ReupPipeline
=============================================================================
