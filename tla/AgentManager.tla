---------------------------- MODULE AgentManager ----------------------------
(***************************************************************************)
(* AgentManager (src/agent-manager.ts) for agents that run in process:     *)
(* slots and queue of background agents, the life of a record, and the     *)
(* executions behind it.  A record's status is what callers see; an        *)
(* execution is an asynchronous function that goes on after its record was *)
(* stopped, resumed or removed, and reports back when it ends.             *)
(*                                                                         *)
(* One action is what runs between two awaits.  The model, its tools and   *)
(* the callers are the environment: runs end in any way at any time, ask   *)
(* for help, are stopped, steered, resumed and removed in any order.       *)
(***************************************************************************)
EXTENDS Naturals, Sequences, FiniteSets

CONSTANTS
  Agent,       \* identifiers of the records a session creates
  Background,  \* options.isBackground
  Isolated,    \* options.isolation = "worktree"
  MaxLimit,    \* values maxConcurrent may be set to
  MaxResumes,  \* model bound: resumed executions of an agent at a time
  MaxAsks      \* model bound: unresolved request_help calls of an agent

ASSUME ManagerAssumption ==
  /\ IsFiniteSet(Agent)
  /\ Background \subseteq Agent
  /\ Isolated \subseteq Agent
  /\ MaxLimit \in Nat \ {0}
  /\ MaxResumes \in Nat
  /\ MaxAsks \in Nat

VARIABLES
  spawned,           \* identifiers handed out
  status,            \* record.status, "absent" when agents has no such record
  completedAt,       \* records with a completedAt
  queue,             \* this.queue
  runningBackground,
  maxConcurrent,
  exec,              \* execution of spawn(): "none", "working", "closing", "settled"
  reworking,         \* executions of resume() that work, per agent
  reclosing,         \* agents a resume() is about to return for
  worktrees,         \* records whose worktree was created
  sessions,          \* records with a session
  active,            \* record.worktreeActive
  asking,            \* request_help calls that have not returned, per agent
  helping,           \* records with a helpResolver
  down               \* dispose() was called

vars == <<spawned, status, completedAt, queue, runningBackground, maxConcurrent, exec,
          reworking, reclosing, worktrees, sessions, active, asking, helping, down>>
slotVars == <<queue, runningBackground, maxConcurrent>>
resumeVars == <<reworking, reclosing>>
heldVars == <<worktrees, sessions>>
helpVars == <<asking, helping>>

Status == {"absent", "queued", "running", "waiting", "stopped", "completed", "error"}
Open == {"queued", "running", "waiting"}

Init ==
  /\ spawned = {}
  /\ status = [a \in Agent |-> "absent"]
  /\ completedAt = {}
  /\ queue = <<>>
  /\ runningBackground = 0
  /\ maxConcurrent \in 1..MaxLimit
  /\ exec = [a \in Agent |-> "none"]
  /\ reworking = [a \in Agent |-> 0]
  /\ reclosing = {}
  /\ worktrees = {}
  /\ sessions = {}
  /\ active = {}
  /\ asking = [a \in Agent |-> 0]
  /\ helping = {}
  /\ down = FALSE

-----------------------------------------------------------------------------
(* Records and the queue. *)

Executing(a) == exec[a] \in {"working", "closing"}
Working(a) == exec[a] = "working" \/ reworking[a] > 0

\* An execution that could end: one at least is blocked in request_help, if asked.
Ending(a) ==
  (IF exec[a] = "working" THEN 1 ELSE 0) + reworking[a] > (IF asking[a] > 0 THEN 1 ELSE 0)

\* The records of as have their helpResolver called and cleared.
Resolve(as) ==
  /\ helping' = helping \ as
  /\ asking' = [a \in Agent |-> IF a \in helping \cap as THEN asking[a] - 1 ELSE asking[a]]

Set(st, as, s) == [a \in Agent |-> IF a \in as THEN s ELSE st[a]]

\* The entries among the first k of q that startAgent() is called for, and the
\* condition under which the loop of drainQueue() has shifted exactly k entries.
Startable(st, q, k) == {i \in 1..k : st[q[i]] = "queued"}
Drains(st, q, n, max, k) ==
  /\ k = Len(q) \/ n + Cardinality(Startable(st, q, k)) >= max
  /\ \A j \in 0..(k - 1) : n + Cardinality(Startable(st, q, j)) < max

\* drainQueue() from statuses st, executions ex and n slots in use.
Drain(st, ex, act, n, max) ==
  \E k \in 0..Len(queue) :
    LET started == {queue[i] : i \in Startable(st, queue, k)} IN
    /\ Drains(st, queue, n, max, k)
    /\ status' = Set(st, started, "running")
    /\ exec' = Set(ex, started, "working")
    /\ active' = act \cup (started \cap Isolated)
    /\ queue' = SubSeq(queue, k + 1, Len(queue))
    /\ runningBackground' = n + Cardinality(started)

-----------------------------------------------------------------------------
(* spawn() and the execution it starts. *)

Spawn(a) ==
  /\ ~down
  /\ a \notin spawned
  /\ spawned' = spawned \cup {a}
  /\ IF a \in Background /\ runningBackground >= maxConcurrent
     THEN /\ status' = [status EXCEPT ![a] = "queued"]
          /\ queue' = Append(queue, a)
          /\ UNCHANGED <<runningBackground, exec, active>>
     ELSE /\ status' = [status EXCEPT ![a] = "running"]
          /\ exec' = [exec EXCEPT ![a] = "working"]
          /\ active' = active \cup ({a} \cap Isolated)
          /\ runningBackground' = runningBackground + (IF a \in Background THEN 1 ELSE 0)
          /\ UNCHANGED queue
  /\ UNCHANGED <<completedAt, maxConcurrent, resumeVars, heldVars, helpVars, down>>

WorktreeCreated(a) ==
  /\ exec[a] = "working"
  /\ a \in Isolated \ worktrees
  /\ worktrees' = worktrees \cup {a}
  /\ UNCHANGED <<spawned, status, completedAt, slotVars, exec, resumeVars, sessions,
                 active, helpVars, down>>

SessionCreated(a) ==
  /\ exec[a] = "working"
  /\ a \notin sessions
  /\ a \in Isolated => a \in worktrees
  /\ sessions' = sessions \cup {a}
  /\ UNCHANGED <<spawned, status, completedAt, slotVars, exec, resumeVars, worktrees,
                 active, helpVars, down>>

\* Variant: an agent that waits for help keeps its status when its run ends.
LeftWaiting(a, outcome) ==
  IF status[a] \in {"absent", "stopped", "waiting"} THEN status
  ELSE [status EXCEPT ![a] = outcome]

\* The status an execution leaves behind: a stop stays, a removed record is gone.
Left(a, outcome) ==
  IF status[a] \in {"absent", "stopped"} THEN status
  ELSE [status EXCEPT ![a] = outcome]

\* Variants: the slot is not given back; the queue is not served.
ConcludeLeaks(a, st) ==
  Drain(st, [exec EXCEPT ![a] = "settled"], active \ {a}, runningBackground, maxConcurrent)
ConcludeOnly(a, st) ==
  /\ status' = st
  /\ exec' = [exec EXCEPT ![a] = "settled"]
  /\ active' = active \ {a}
  /\ runningBackground' = runningBackground - (IF a \in Background THEN 1 ELSE 0)
  /\ UNCHANGED queue

\* The end of the handlers of the promise: the slot is given back and refilled.
Conclude(a, st) ==
  LET ex == [exec EXCEPT ![a] = "settled"] IN
  IF a \in Background
  THEN Drain(st, ex, active \ {a}, runningBackground - 1, maxConcurrent)
  ELSE /\ status' = st
       /\ exec' = ex
       /\ active' = active \ {a}
       /\ UNCHANGED <<queue, runningBackground>>

\* The run resolves or rejects.  Without a worktree the handler does it all.
Settle(a) ==
  /\ exec[a] = "working"
  /\ Ending(a)
  /\ a \notin worktrees
  /\ completedAt' = completedAt \cup {a}
  /\ \E outcome \in {"completed", "error"} :
       /\ outcome = "completed" => a \in sessions
       /\ Conclude(a, Left(a, outcome))
  /\ UNCHANGED <<spawned, maxConcurrent, resumeVars, heldVars, helpVars, down>>

\* With a worktree the handler sets the status and awaits its inspection ...
SettleIsolated(a) ==
  /\ exec[a] = "working"
  /\ Ending(a)
  /\ a \in worktrees
  /\ completedAt' = completedAt \cup {a}
  /\ \E outcome \in {"completed", "error"} :
       /\ outcome = "completed" => a \in sessions
       /\ status' = Left(a, outcome)
  /\ exec' = [exec EXCEPT ![a] = "closing"]
  /\ UNCHANGED <<spawned, slotVars, resumeVars, heldVars, active, helpVars, down>>

\* ... and goes on when the inspection is there.
Inspected(a) ==
  /\ exec[a] = "closing"
  /\ Conclude(a, status)
  /\ UNCHANGED <<spawned, completedAt, maxConcurrent, resumeVars, heldVars, helpVars,
                 down>>

SetMaxConcurrent(n) ==
  /\ ~down
  /\ n # maxConcurrent
  /\ maxConcurrent' = n
  /\ Drain(status, exec, active, runningBackground, n)
  /\ UNCHANGED <<spawned, completedAt, resumeVars, heldVars, helpVars, down>>

-----------------------------------------------------------------------------
(* resume(). *)

\* Variants: without a session; while the previous execution is in the worktree.
MayResumeFresh(a) == status[a] \notin {"absent", "running", "waiting"} /\ a \notin active
MayResumeActive(a) == status[a] \notin {"absent", "running", "waiting"} /\ a \in sessions

MayResume(a) ==
  /\ status[a] \notin {"absent", "running", "waiting"}
  /\ a \in sessions
  /\ a \notin active

Resume(a) ==
  /\ MayResume(a)
  /\ reworking[a] < MaxResumes
  /\ status' = [status EXCEPT ![a] = "running"]
  /\ completedAt' = completedAt \ {a}
  /\ active' = active \cup ({a} \cap worktrees)
  /\ reworking' = [reworking EXCEPT ![a] = @ + 1]
  /\ UNCHANGED <<spawned, slotVars, exec, reclosing, heldVars, helpVars, down>>

\* A failure overwrites a stop, a result does not.
ResumeSettle(a) ==
  /\ reworking[a] > 0
  /\ Ending(a)
  /\ status' \in {Left(a, "completed"),
                  IF status[a] = "absent" THEN status ELSE [status EXCEPT ![a] = "error"]}
  /\ completedAt' = completedAt \cup {a}
  /\ reworking' = [reworking EXCEPT ![a] = @ - 1]
  /\ reclosing' = reclosing \cup ({a} \cap worktrees)
  /\ UNCHANGED <<spawned, slotVars, exec, heldVars, active, helpVars, down>>

ResumeInspected(a) ==
  /\ a \in reclosing
  /\ reclosing' = reclosing \ {a}
  /\ active' = active \ {a}
  /\ UNCHANGED <<spawned, status, completedAt, slotVars, exec, reworking, heldVars,
                 helpVars, down>>

-----------------------------------------------------------------------------
(* request_help and steer_subagent (src/index.ts). *)

\* The tool runs inside an execution and does not look at the status.  A second
\* call, of the same turn say, replaces the resolver of the first.
RequestHelp(a) ==
  /\ Working(a)
  /\ a \in sessions
  /\ status[a] # "absent"
  /\ asking[a] < MaxAsks
  /\ asking' = [asking EXCEPT ![a] = @ + 1]
  /\ helping' = helping \cup {a}
  /\ status' = [status EXCEPT ![a] = "waiting"]
  /\ UNCHANGED <<spawned, completedAt, slotVars, exec, resumeVars, heldVars, active, down>>

Steer(a) ==
  /\ status[a] = "waiting"
  /\ a \in helping
  /\ Resolve({a})
  /\ status' = [status EXCEPT ![a] = "running"]
  /\ UNCHANGED <<spawned, completedAt, slotVars, exec, resumeVars, heldVars, active, down>>

\* The run's own abort signal (a time limit, say) ends the wait for help.
HelpCancelled(a) ==
  /\ a \in helping
  /\ Resolve({a})
  /\ UNCHANGED <<spawned, status, completedAt, slotVars, exec, resumeVars, heldVars,
                 active, down>>

-----------------------------------------------------------------------------
(* Stopping and forgetting. *)

\* abort(): the record is stopped at once, its execution ends when it will.  A
\* queued agent leaves the queue, one that waits for help is answered.
Abort(a) ==
  /\ status[a] \in Open
  /\ status' = [status EXCEPT ![a] = "stopped"]
  /\ completedAt' = completedAt \cup {a}
  /\ IF status[a] = "queued"
     THEN \E i \in DOMAIN queue :
            /\ queue[i] = a
            /\ queue' = [j \in 1..(Len(queue) - 1) |-> IF j < i THEN queue[j] ELSE queue[j + 1]]
     ELSE UNCHANGED queue
  /\ IF status[a] = "waiting" THEN Resolve({a}) ELSE UNCHANGED helpVars
  /\ UNCHANGED <<spawned, runningBackground, maxConcurrent, exec, resumeVars, heldVars,
                 active, down>>

\* cleanup() and clearCompleted() forget records whose worktree is not in use.
Removable == {a \in Agent : status[a] \notin Open \cup {"absent"} /\ a \notin active}
Remove(as) ==
  /\ as # {}
  /\ status' = Set(status, as, "absent")
  /\ sessions' = sessions \ as
  /\ UNCHANGED <<spawned, completedAt, slotVars, exec, resumeVars, worktrees, active,
                 helpVars, down>>

\* session_shutdown: abortAll() and dispose().
Shutdown ==
  LET open == {a \in Agent : status[a] \in Open} IN
  /\ ~down
  /\ down' = TRUE
  /\ status' = [a \in Agent |-> "absent"]
  /\ completedAt' = completedAt \cup open
  /\ queue' = <<>>
  /\ Resolve({a \in open : status[a] = "waiting"})
  /\ UNCHANGED <<spawned, runningBackground, maxConcurrent, exec, resumeVars, heldVars,
                 active>>

Next ==
  \/ \E a \in Agent :
       \/ Spawn(a) \/ WorktreeCreated(a) \/ SessionCreated(a)
       \/ Settle(a) \/ SettleIsolated(a) \/ Inspected(a)
       \/ Resume(a) \/ ResumeSettle(a) \/ ResumeInspected(a)
       \/ RequestHelp(a) \/ Steer(a) \/ HelpCancelled(a)
       \/ Abort(a)
  \/ \E n \in 1..MaxLimit : SetMaxConcurrent(n)
  \/ \E as \in SUBSET Removable : Remove(as)
  \/ Shutdown

Spec == Init /\ [][Next]_vars

-----------------------------------------------------------------------------
(* Fairness: runs end, by themselves or by the turn and time limits when these are   *)
(* set, and a request for help is answered or the run's signal ends the wait.         *)
RunsEnd ==
  \A a \in Agent :
    /\ SF_vars(Settle(a) \/ SettleIsolated(a))
    /\ WF_vars(Inspected(a))
    /\ WF_vars(Steer(a) \/ HelpCancelled(a))

-----------------------------------------------------------------------------
(* Properties. *)

TypeOK ==
  /\ spawned \subseteq Agent
  /\ status \in [Agent -> Status]
  /\ completedAt \subseteq spawned
  /\ queue \in Seq(Background)
  /\ runningBackground \in Nat
  /\ maxConcurrent \in 1..MaxLimit
  /\ exec \in [Agent -> {"none", "working", "closing", "settled"}]
  /\ reworking \in [Agent -> 0..MaxResumes]
  /\ reclosing \subseteq worktrees
  /\ worktrees \subseteq Isolated
  /\ sessions \subseteq spawned
  /\ active \subseteq Isolated
  /\ asking \in [Agent -> 0..MaxAsks]
  /\ helping \subseteq Agent
  /\ down \in BOOLEAN

\* The counter of slots is the number of background executions that have not
\* reported back, whatever was stopped, resumed, removed or queued meanwhile.
Occupants == {a \in Background : Executing(a)}
SlotsExact == runningBackground = Cardinality(Occupants)

\* The queue holds exactly the agents whose record says "queued", once each, and
\* none of them was started: nobody runs twice or is forgotten in the queue.
QueueSound ==
  /\ {queue[i] : i \in DOMAIN queue} = {a \in Agent : status[a] = "queued"}
  /\ \A i, j \in DOMAIN queue : queue[i] = queue[j] => i = j
  /\ \A i \in DOMAIN queue : exec[queue[i]] = "none"

\* No slot is free while an agent waits for one.
WorkConserving == queue # <<>> => runningBackground >= maxConcurrent

\* A background agent is started only within the limit in force.
StartsWithinLimit ==
  [][Occupants' \ Occupants # {} => Cardinality(Occupants') <= maxConcurrent']_vars

\* A worktree has one execution in it at most, the record says so for as long as it
\* lasts, and that record cannot be resumed or forgotten ("the execution may still
\* own the worktree", agent-manager.ts:644).
Occupations(a) ==
  (IF Executing(a) THEN 1 ELSE 0) + reworking[a] + (IF a \in reclosing THEN 1 ELSE 0)
WorktreeOwned ==
  \A a \in Isolated :
    /\ Occupations(a) <= 1
    /\ Occupations(a) = 1 => a \in active /\ (down \/ status[a] # "absent")

\* A record that says "running" or "waiting" has an execution that will report back:
\* nobody waits for, or is refused because of, a run that is over.
RunningIsReal == \A a \in Agent : status[a] \in {"running", "waiting"} => Working(a)

\* Every queued agent is started or stopped in the end.
QueuedStarts == \A a \in Background : status[a] = "queued" ~> status[a] # "queued"

\* A call of request_help can be answered as long as it waits: "The parent will be
\* notified and can respond via steer_subagent" (index.ts:1608).
HelpAnswerable == \A a \in Agent : asking[a] > 0 => asking[a] = 1 /\ a \in helping
=============================================================================
