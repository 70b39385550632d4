-------------------------- MODULE MCNotifications --------------------------
(***************************************************************************)
(* TLC instances: three background agents spawned in one batch or several. *)
(***************************************************************************)
EXTENDS Notifications, TLC

CONSTANTS a1, a2, a3

Alike == Permutations(Agent)

\* Runs that fail before they have a session: their outcome tells nothing here.
ShortRunsSpec == NInit /\ [][NNext /\ sessions' = {}]_notificationVars
=============================================================================
