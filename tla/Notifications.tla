--------------------------- MODULE Notifications ---------------------------
(***************************************************************************)
(* How a session learns that its background agents are done: batches of    *)
(* agents spawned together, groups that hold completions back until all    *)
(* members are there or a timer fires, delayed nudges, and the             *)
(* get_subagent_result tool that makes a nudge unnecessary.                *)
(* src/index.ts on top of src/group-join.ts and the manager's onComplete.  *)
(*                                                                         *)
(* One session: the behaviours end before session_shutdown.  The join      *)
(* modes "smart" and "group" do the same and are one here.                 *)
(***************************************************************************)
EXTENDS AgentManager

CONSTANTS
  Async,     \* agents with join mode "async", or spawned by another extension
  MaxGroups  \* model bound: groups formed

ASSUME NotificationAssumption ==
  /\ Async \subseteq Background
  /\ MaxGroups \in Nat

VARIABLES
  batch,     \* currentBatchAgents; its timer is armed while it is not empty
  batches,   \* batchCounter
  groups,    \* GroupJoinManager.groups: [ids, done, armed], open while ids is not empty
  groupOf,   \* agentToGroup, 0 for none
  nudges,    \* pendingNudges: [group, of]
  consumed,  \* record.resultConsumed
  fetching,  \* get_subagent_result calls that wait: "no", "ready" or "result"
  notified,  \* history: messages that announced the agent
  early      \* history: agents announced to their batch before their run was over

noticeVars == <<batch, batches, groups, groupOf, nudges, consumed, fetching, notified, early>>
notificationVars == <<vars, noticeVars>>
groupVars == <<groups, groupOf>>
resultVars == <<consumed, fetching>>

GroupId == 1..MaxGroups
NoGroup == [ids |-> {}, done |-> {}, armed |-> FALSE]

NInit ==
  /\ Init
  /\ batch = {}
  /\ batches = 0
  /\ groups = [g \in GroupId |-> NoGroup]
  /\ groupOf = [a \in Agent |-> 0]
  /\ nudges = {}
  /\ consumed = {}
  /\ fetching = [a \in Agent |-> "no"]
  /\ notified = [a \in Agent |-> 0]
  /\ early = {}

-----------------------------------------------------------------------------
(* GroupJoinManager and scheduleNudge(). *)

One(a) == [group |-> FALSE, of |-> {a}]
Group(as) == [group |-> TRUE, of |-> as]

\* The members as of group g complete: all there is delivered, or a timer is set.
Report(g, ids, done) ==
  IF done = ids
  THEN /\ groups' = [groups EXCEPT ![g] = NoGroup]
       /\ groupOf' = [a \in Agent |-> IF a \in ids THEN 0 ELSE groupOf[a]]
       /\ nudges' = nudges \cup {Group(done)}
  ELSE /\ groups' = [groups EXCEPT ![g] = [ids |-> ids, done |-> done, armed |-> done # {}]]
       /\ groupOf' = [a \in Agent |-> IF a \in ids THEN g ELSE groupOf[a]]
       /\ UNCHANGED nudges

\* Variants: the batch is not looked at; an agent without a group is not announced.
OnCompleteInBatch(a) ==
  IF a \in consumed THEN UNCHANGED <<groupVars, nudges>>
  ELSE IF groupOf[a] = 0 THEN nudges' = nudges \cup {One(a)} /\ UNCHANGED groupVars
  ELSE Report(groupOf[a], groups[groupOf[a]].ids, groups[groupOf[a]].done \cup {a})
OnCompleteGrouped(a) ==
  IF a \in consumed \cup batch \/ groupOf[a] = 0 THEN UNCHANGED <<groupVars, nudges>>
  ELSE Report(groupOf[a], groups[groupOf[a]].ids, groups[groupOf[a]].done \cup {a})

\* The manager's onComplete callback.
OnComplete(a) ==
  LET g == groupOf[a] IN
  IF a \in consumed \cup batch THEN UNCHANGED <<groupVars, nudges>>
  ELSE IF g = 0 THEN nudges' = nudges \cup {One(a)} /\ UNCHANGED groupVars
  ELSE Report(g, groups[g].ids, groups[g].done \cup {a})

\* Variant: the members that were announced keep their group.
GroupTimeoutStays(g) ==
  LET done == groups[g].done IN
  /\ groups[g].armed
  /\ groups' = [groups EXCEPT ![g] = [ids |-> @.ids \ done, done |-> {}, armed |-> FALSE]]
  /\ nudges' = nudges \cup {Group(done)}
  /\ UNCHANGED <<vars, batch, batches, groupOf, resultVars, notified, early>>

GroupTimeout(g) ==
  LET done == groups[g].done IN
  /\ groups[g].armed
  /\ groups' = [groups EXCEPT ![g] = [ids |-> @.ids \ done, done |-> {}, armed |-> FALSE]]
  /\ groupOf' = [a \in Agent |-> IF a \in done THEN 0 ELSE groupOf[a]]
  /\ nudges' = nudges \cup {Group(done)}
  /\ UNCHANGED <<vars, batch, batches, resultVars, notified, early>>

\* finalizeBatch(): two agents or more become a group; what is over is reported.
FinalizeBatch ==
  LET over == {a \in batch \cap completedAt : status[a] # "absent" /\ a \notin consumed} IN
  /\ batch # {}
  /\ batch' = {}
  /\ early' = early \cup {a \in over : Executing(a)}
  /\ IF Cardinality(batch) >= 2
     THEN /\ batches < MaxGroups
          /\ batches' = batches + 1
          /\ Report(batches', batch, over)
     ELSE /\ nudges' = nudges \cup {One(a) : a \in over}
          /\ UNCHANGED <<batches, groupVars>>
  /\ UNCHANGED <<vars, resultVars, notified>>

NudgeFires(n) ==
  /\ n \in nudges
  /\ nudges' = nudges \ {n}
  /\ notified' = [a \in Agent |->
                    IF a \in n.of \ consumed THEN notified[a] + 1 ELSE notified[a]]
  /\ UNCHANGED <<vars, batch, batches, groupVars, resultVars, early>>

-----------------------------------------------------------------------------
(* get_subagent_result. *)

Consume(a) ==
  /\ consumed' = consumed \cup {a}
  /\ nudges' = nudges \ {One(a)}

\* The tail of the tool: a result that is there is consumed.
Return(a) ==
  /\ fetching' = [fetching EXCEPT ![a] = "no"]
  /\ IF status[a] \notin Open THEN Consume(a) ELSE UNCHANGED <<consumed, nudges>>

\* wait: true consumes the result of a run before it is there.
AwaitResult(a) ==
  IF status[a] \in {"running", "waiting"}
  THEN Consume(a) /\ fetching' = [fetching EXCEPT ![a] = "result"]
  ELSE Return(a)

Fetch(a, wait) ==
  /\ status[a] # "absent"
  /\ fetching[a] = "no"
  /\ IF ~wait THEN Return(a)
     ELSE IF status[a] = "queued"
     THEN fetching' = [fetching EXCEPT ![a] = "ready"] /\ UNCHANGED <<consumed, nudges>>
     ELSE AwaitResult(a)
  /\ UNCHANGED <<vars, batch, batches, groupVars, notified, early>>

FetchContinues(a) ==
  /\ \/ fetching[a] = "ready" /\ status[a] # "queued" /\ AwaitResult(a)
     \/ fetching[a] = "result" /\ exec[a] = "settled" /\ Return(a)
  /\ UNCHANGED <<vars, batch, batches, groupVars, notified, early>>

-----------------------------------------------------------------------------
(* The manager's steps, with the callbacks they make. *)

\* The Agent tool: the batch timer starts over with every agent of a batch.
AgentTool(a) ==
  /\ Spawn(a)
  /\ batch' = batch \cup ({a} \cap (Background \ Async))
  /\ UNCHANGED <<batches, groupVars, nudges, resultVars, notified, early>>

Concludes(a) ==
  /\ Settle(a) \/ Inspected(a)
  /\ IF a \in Background THEN OnComplete(a) ELSE UNCHANGED <<groupVars, nudges>>
  /\ UNCHANGED <<batch, batches, resultVars, notified, early>>

ManagerStep ==
  /\ \/ \E a \in Agent :
          \/ WorktreeCreated(a) \/ SessionCreated(a) \/ SettleIsolated(a)
          \/ Resume(a) \/ ResumeSettle(a) \/ ResumeInspected(a)
          \/ RequestHelp(a) \/ Steer(a) \/ HelpCancelled(a) \/ Abort(a)
     \/ \E n \in 1..MaxLimit : SetMaxConcurrent(n)
     \/ \E as \in SUBSET Removable : Remove(as)
  /\ UNCHANGED noticeVars

NNext ==
  \/ \E a \in Agent :
       \/ AgentTool(a) \/ Concludes(a) \/ FetchContinues(a)
       \/ \E wait \in BOOLEAN : Fetch(a, wait)
  \/ FinalizeBatch
  \/ \E g \in GroupId : GroupTimeout(g)
  \/ \E n \in nudges : NudgeFires(n)
  \/ ManagerStep

NSpec == NInit /\ [][NNext]_notificationVars

\* Timers fire, and runs end.
NFairSpec ==
  /\ NSpec
  /\ RunsEnd
  /\ WF_notificationVars(FinalizeBatch)
  /\ \A g \in GroupId : WF_notificationVars(GroupTimeout(g))
  /\ WF_notificationVars(\E n \in nudges : NudgeFires(n))
  /\ \A a \in Agent : WF_notificationVars(FetchContinues(a))

-----------------------------------------------------------------------------
(* Properties. *)

\* A completion that a group holds back has a timer that will give it up, and the
\* two tables of the group manager agree: nothing is held for a group that is gone.
HeldHasTimer ==
  /\ \A g \in GroupId :
       /\ groups[g].done # {} => groups[g].armed
       /\ groups[g].armed => groups[g].done # groups[g].ids
  /\ \A a \in Agent, g \in GroupId : groupOf[a] = g <=> a \in groups[g].ids

\* Messages that announced a or still will.
Announcements(a) ==
  notified[a] + Cardinality({n \in nudges : a \in n.of})
    + (IF groupOf[a] # 0 /\ a \in groups[groupOf[a]].done THEN 1 ELSE 0)

\* A completion is announced once, through whichever of batch, group, straggler
\* group or individual nudge it goes.  Only an agent whose batch was finalized
\* between its stop (or the start of its worktree inspection) and the end of its
\* run is announced a second time.
AnnouncedOnce == \A a \in Agent \ early : Announcements(a) <= 1

\* A run that ended is announced, unless its result was fetched or its record was
\* forgotten: no member of a group that was stopped, fetched or forgotten holds up
\* the others for ever.
CompletionAnnounced ==
  \A a \in Background :
    exec[a] = "settled" /\ a \notin batch ~>
      notified[a] > 0 \/ a \in consumed \/ status[a] = "absent"

\* What MANAGED_STATE_EVENT tells a child session that considers itself done.
ManagedPending ==
  \/ nudges # {}
  \/ batch # {}
  \/ \E a \in Agent : status[a] \in Open \/ (status[a] # "absent" /\ Executing(a))

\* "Completion bookkeeping, pending notifications and correlated help also hold the
\* parent open" (docs/process-delegation.md:107): a completion that is still to be
\* announced keeps the session from publishing its final result.
PendingNoticeHoldsParent ==
  (\E g \in GroupId : groups[g].done \ consumed # {}) => ManagedPending
=============================================================================
