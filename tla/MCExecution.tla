------------------------------ MODULE MCExecution ------------------------------
(***************************************************************************)
(* Executions with pipes that hold a single frame, so that every writer    *)
(* meets a full pipe.                                                      *)
(***************************************************************************)
EXTENDS Execution
=============================================================================
