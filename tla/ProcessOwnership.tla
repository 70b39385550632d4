-------------------------- MODULE ProcessOwnership --------------------------
(***************************************************************************)
(* What the lifecycle of an RPC run promises its group and its new owner,  *)
(* whatever the files, timers and calls behind it do: the process belongs  *)
(* to its parent until it is taken over, once and for all; only the parent *)
(* that still owns it stops it; its place in the group is given back by    *)
(* that parent alone, and not while the process lives.                     *)
(* ProcessRun implements it.                                               *)
(***************************************************************************)
CONSTANTS Signal  \* ways to stop a process

VARIABLES
  owner,    \* "parent" or "other"
  life,     \* "none", "alive" or "over"
  signals,  \* what the parent has sent
  reserved  \* the group still counts the run

vars == <<owner, life, signals, reserved>>

Init ==
  /\ owner = "parent"
  /\ life = "none"
  /\ signals = {}
  /\ reserved = TRUE

\* A process may fail to start.
Start ==
  /\ reserved
  /\ life = "none"
  /\ life' \in {"alive", "over"}
  /\ UNCHANGED <<owner, signals, reserved>>

End ==
  /\ life = "alive"
  /\ life' = "over"
  /\ UNCHANGED <<owner, signals, reserved>>

TakeOver ==
  /\ life = "alive"
  /\ owner = "parent"
  /\ owner' = "other"
  /\ UNCHANGED <<life, signals, reserved>>

Send(s) ==
  /\ life = "alive"
  /\ owner = "parent"
  /\ signals' = signals \cup {s}
  /\ UNCHANGED <<owner, life, reserved>>

Free ==
  /\ reserved
  /\ life # "alive"
  /\ owner = "parent"
  /\ reserved' = FALSE
  /\ UNCHANGED <<owner, life, signals>>

Next == Start \/ End \/ TakeOver \/ Free \/ \E s \in Signal : Send(s)

Spec == Init /\ [][Next]_vars
=============================================================================
