--------------------------- MODULE MCTaskPipeline ---------------------------
(***************************************************************************)
(* Model values for checking TaskPipeline with TLC.                        *)
(***************************************************************************)
EXTENDS TaskPipeline

CONSTANTS t1, t2, c1, c2, w1
=============================================================================
