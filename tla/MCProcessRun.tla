---------------------------- MODULE MCProcessRun ----------------------------
(***************************************************************************)
(* The TLC instance: the run's own cleanup and two callers of takeover(),  *)
(* abort() and cleanup() beside it, each of them over and over.            *)
(***************************************************************************)
EXTENDS ProcessRun
=============================================================================
