---------------------------- MODULE MCProcessResult ----------------------------
(***************************************************************************)
(* One prompt of at most two turns, whose child is woken once.             *)
(***************************************************************************)
EXTENDS ProcessResult

=============================================================================
