------------------------------ MODULE MCWorktree ------------------------------
(***************************************************************************)
(* An agent whose snapshot is taken and that may run again, beside one that*)
(* has committed a change of the same file.                                *)
(***************************************************************************)
EXTENDS Worktree

CONSTANTS a, b

MCChild == {a, b}
MCFresh == {a}
MCChanges(c) == IF c = a THEN {1, 2} ELSE {2}
=============================================================================
