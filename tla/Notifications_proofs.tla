------------------------ MODULE Notifications_proofs ------------------------
(***************************************************************************)
(* Proofs about the announcement of background agents, for any agents,     *)
(* batches, groups and limits, however completions, timers, stops,         *)
(* resumes, fetches and removals interleave.                               *)
(***************************************************************************)
EXTENDS Notifications, AgentManager_proofs

-----------------------------------------------------------------------------
(* The manager underneath. *)

\* Every step of a session is a step of its manager, or none.
LEMMA ManagerMoves == [NNext]_notificationVars => [Next]_vars
<1> SUFFICES ASSUME [NNext]_notificationVars PROVE [Next]_vars
  OBVIOUS
<1>1. ASSUME NEW a \in Agent, AgentTool(a) \/ Concludes(a)
      PROVE  [Next]_vars
  BY <1>1 DEF AgentTool, Concludes, Next
<1>2. ASSUME ManagerStep
      PROVE  [Next]_vars
  BY <1>2 DEF ManagerStep, Next
<1>3. ASSUME NEW a \in Agent, FetchContinues(a) \/ \E wait \in BOOLEAN : Fetch(a, wait)
      PROVE  UNCHANGED vars
  BY <1>3 DEF FetchContinues, Fetch
<1>4. ASSUME FinalizeBatch \/ (\E g \in GroupId : GroupTimeout(g))
                \/ (\E n \in nudges : NudgeFires(n))
      PROVE  UNCHANGED vars
  BY <1>4 DEF FinalizeBatch, GroupTimeout, NudgeFires
<1> QED
  BY <1>1, <1>2, <1>3, <1>4 DEF NNext, notificationVars

\* A session's manager is the manager: what is proved of it alone holds here.
THEOREM ImplementsManager == NSpec => Spec
<1>1. NInit => Init
  BY DEF NInit
<1> QED
  BY <1>1, ManagerMoves, PTL DEF NSpec, Spec

\* An agent whose run is over, or was stopped before it began.
Idle(a) == a \in spawned /\ ~Executing(a) /\ status[a] # "queued"

\* What a drain does not start stays as it is.
LEMMA DrainSpares ==
  ASSUME NEW st, NEW ex, NEW act, NEW n, NEW max, Drain(st, ex, act, n, max),
         NEW q \in Agent, st[q] # "queued"
  PROVE  status'[q] = st[q] /\ exec'[q] = ex[q]
BY DEF Drain, Set, Startable

\* The statuses of queued agents come from spawn() alone, and those agents have not
\* completed.
QueuedOpen == \A a \in Agent : status[a] = "queued" => a \notin completedAt

\* An agent that is idle stays so, and who is queued has not completed.
LEMMA IdleStays ==
  ASSUME ManagerInv, QueuedOpen, [Next]_vars, NEW q \in Agent
  PROVE  /\ Idle(q) => Idle(q)'
         /\ status'[q] = "queued" => q \notin completedAt'
<1>1. /\ status \in [Agent -> Status] /\ exec \in [Agent -> ExecState]
      /\ completedAt \subseteq spawned /\ spawned \subseteq Agent
      /\ reworking \in [Agent -> 0..MaxResumes]
      /\ queue \in Seq(Background) /\ QueueSound /\ RecordsSound
  BY DEF ManagerInv, TypeOK, ExecState
<1>2. \A a \in Agent : status[a] = "queued" => exec[a] = "none" /\ reworking[a] = 0
  <2> SUFFICES ASSUME NEW a \in Agent, status[a] = "queued"
               PROVE  exec[a] = "none" /\ reworking[a] = 0
    OBVIOUS
  <2>1. exec[a] = "none"
    BY <1>1 DEF QueueSound
  <2>2. ~(reworking[a] > 0) /\ reworking[a] \in Nat
    BY <1>1, <2>1, ManagerAssumption DEF RecordsSound
  <2> QED
    BY <2>1, <2>2
<1> DEFINE Goal == /\ Idle(q) => Idle(q)'
                   /\ status'[q] = "queued" => q \notin completedAt'
<1>3. ASSUME NEW a \in Agent, Spawn(a)
      PROVE  Goal
  BY <1>1, <1>3 DEF Spawn, Idle, Executing, QueuedOpen
<1>4. ASSUME NEW a \in Agent, Settle(a) \/ Inspected(a)
      PROVE  Goal
  <2>1. Executing(a) /\ status[a] # "queued"
    BY <1>2, <1>4 DEF Settle, Inspected, Executing
  <2>2. /\ completedAt' \subseteq completedAt \cup {a}
        /\ spawned' = spawned
        /\ \E st \in [Agent -> Status] :
             /\ Conclude(a, st)
             /\ st[a] # "queued"
             /\ \A b \in Agent : b # a => st[b] = status[b]
    <3>1. CASE Settle(a)
      <4>1. PICK outcome \in {"completed", "error"} : Conclude(a, Left(a, outcome))
        BY <3>1 DEF Settle
      <4>2. /\ Left(a, outcome) \in [Agent -> Status]
            /\ Left(a, outcome)[a] # "queued"
            /\ \A b \in Agent : b # a => Left(a, outcome)[b] = status[b]
        BY <1>1, <2>1 DEF Left, Status
      <4> QED
        BY <3>1, <4>1, <4>2 DEF Settle
    <3>2. CASE Inspected(a)
      <4>1. Conclude(a, status) /\ UNCHANGED <<spawned, completedAt>>
        BY <3>2 DEF Inspected
      <4> QED
        BY <1>1, <2>1, <4>1
    <3> QED
      BY <1>4, <3>1, <3>2
  <2>3. PICK st \in [Agent -> Status] :
             /\ Conclude(a, st)
             /\ st[a] # "queued"
             /\ \A b \in Agent : b # a => st[b] = status[b]
    BY <2>2
  <2> DEFINE ex == [exec EXCEPT ![a] = "settled"]
  <2>4. CASE status[q] # "queued"
    <3>1. st[q] # "queued"
      BY <2>3, <2>4
    <3>2. status'[q] = st[q] /\ exec'[q] = ex[q]
      BY <2>3, <3>1, DrainSpares DEF Conclude
    <3> QED
      BY <1>1, <2>2, <3>1, <3>2 DEF Idle, Executing
  <2>5. CASE status[q] = "queued"
    BY <2>1, <2>2, <2>5 DEF Idle, QueuedOpen
  <2> QED
    BY <2>4, <2>5
<1>5. ASSUME NEW n \in 1..MaxLimit, SetMaxConcurrent(n)
      PROVE  Goal
  <2>1. Drain(status, exec, active, runningBackground, n) /\ UNCHANGED <<spawned, completedAt>>
    BY <1>5 DEF SetMaxConcurrent
  <2> QED
    BY <2>1, DrainSpares DEF Idle, Executing, QueuedOpen
<1>6. ASSUME NEW a \in Agent, WorktreeCreated(a) \/ SessionCreated(a) \/ SettleIsolated(a)
      PROVE  Goal
  BY <1>1, <1>2, <1>6
     DEF WorktreeCreated, SessionCreated, SettleIsolated, Left, Idle, Executing, QueuedOpen
<1>7. ASSUME NEW a \in Agent, Resume(a) \/ ResumeSettle(a) \/ ResumeInspected(a)
      PROVE  Goal
  <2>1. reworking[a] > 0 => status[a] # "queued"
    BY <1>1, <1>2, ManagerAssumption
  <2> QED
    BY <1>1, <1>7, <2>1
       DEF Resume, ResumeSettle, ResumeInspected, Left, Idle, Executing, QueuedOpen
<1>8. ASSUME NEW a \in Agent, RequestHelp(a) \/ Steer(a) \/ HelpCancelled(a) \/ Abort(a)
      PROVE  Goal
  BY <1>1, <1>8 DEF RequestHelp, Steer, HelpCancelled, Abort, Idle, Executing, QueuedOpen
<1>9. ASSUME (\E as \in SUBSET Removable : Remove(as)) \/ Shutdown
      PROVE  Goal
  BY <1>1, <1>9 DEF Remove, Shutdown, Set, Idle, Executing, QueuedOpen
<1>10. ASSUME UNCHANGED vars PROVE Goal
  BY <1>10 DEF vars, Idle, Executing, QueuedOpen
<1> HIDE DEF Goal
<1>11. ASSUME Next PROVE Goal
  BY <1>3, <1>4, <1>5, <1>6, <1>7, <1>8, <1>9, <1>11 DEF Next
<1>12. Goal
  BY <1>10, <1>11
<1> QED
  BY <1>12 DEF Goal

-----------------------------------------------------------------------------
(* The groups. *)

\* The two tables of the group manager describe the same groups; an open group waits
\* for somebody, and has its timer exactly when it holds a completion; who was just
\* spawned, or is in the batch that is still collected, has no group.
GroupsSound ==
  /\ groups \in [GroupId -> [ids : SUBSET Agent, done : SUBSET Agent, armed : BOOLEAN]]
  /\ groupOf \in [Agent -> 0..MaxGroups]
  /\ batches \in 0..MaxGroups
  /\ \A g \in GroupId :
       /\ groups[g].done \subseteq groups[g].ids
       /\ groups[g].armed <=> groups[g].done # {}
       /\ groups[g].armed => groups[g].done # groups[g].ids
       /\ g > batches => groups[g].ids = {}
  /\ \A a \in Agent, g \in GroupId : groupOf[a] = g <=> a \in groups[g].ids
  /\ batch \subseteq spawned
  /\ \A a \in Agent : a \in batch \/ a \notin spawned => groupOf[a] = 0

\* A completion of q is held back by its group, or about to be announced.
Held(q) == groupOf[q] # 0 /\ q \in groups[groupOf[q]].done
Nudged(q) == \E n \in nudges : q \in n.of

\* Where the announcement of q is: it is made, or about to be made by one nudge, or
\* held by its group, and none of this before the end of its run and of its batch.
Placed(q) ==
  /\ notified[q] \in 0..1
  /\ \A m, n \in nudges : q \in m.of /\ q \in n.of => m = n
  /\ notified[q] = 1 => ~Nudged(q) /\ ~Held(q)
  /\ Nudged(q) => ~Held(q)
  /\ notified[q] = 1 \/ Nudged(q) \/ Held(q) => Idle(q) /\ q \notin batch

\* What Report() is called for: all of an open group, or the agents of a batch.
Reportable(g, ids, done) ==
  /\ g \in GroupId
  /\ ids \subseteq Agent
  /\ done \subseteq ids
  /\ groups[g].ids \subseteq ids
  /\ \A a \in ids : groupOf[a] \in {0, g}

\* Report() keeps the tables, when its members are spawned and in no batch.
LEMMA ReportKeeps ==
  ASSUME GroupsSound, NEW g, NEW ids, NEW done, Reportable(g, ids, done), Report(g, ids, done),
         batches' \in Nat, batches <= batches', batches' <= MaxGroups, g <= batches',
         batch' \subseteq spawned', ids \subseteq spawned', batch' \cap ids = {},
         \A a \in Agent : a \in batch' \/ a \notin spawned' => groupOf[a] = 0
  PROVE  GroupsSound'
<1>1. /\ groups \in [GroupId -> [ids : SUBSET Agent, done : SUBSET Agent, armed : BOOLEAN]]
      /\ groupOf \in [Agent -> 0..MaxGroups]
      /\ g \in GroupId /\ ids \subseteq Agent /\ done \subseteq ids
      /\ MaxGroups \in Nat /\ batches \in Nat
      /\ g \in Nat /\ g # 0
  BY NotificationAssumption DEF GroupsSound, Reportable, GroupId
<1>2. CASE done = ids
  <2>1. /\ groups' = [groups EXCEPT ![g] = NoGroup]
        /\ groupOf' = [a \in Agent |-> IF a \in ids THEN 0 ELSE groupOf[a]]
    BY <1>2 DEF Report
  <2>2. /\ groups' \in [GroupId -> [ids : SUBSET Agent, done : SUBSET Agent, armed : BOOLEAN]]
        /\ groupOf' \in [Agent -> 0..MaxGroups]
    BY <1>1, <2>1 DEF NoGroup
  <2>3. \A h \in GroupId :
          /\ groups'[h].done \subseteq groups'[h].ids
          /\ groups'[h].armed <=> groups'[h].done # {}
          /\ groups'[h].armed => groups'[h].done # groups'[h].ids
          /\ h > batches' => groups'[h].ids = {}
    BY <1>1, <2>1 DEF NoGroup, GroupsSound, GroupId
  <2>4. \A a \in Agent, h \in GroupId : groupOf'[a] = h <=> a \in groups'[h].ids
    BY <1>1, <2>1 DEF NoGroup, GroupsSound, Reportable, GroupId
  <2> QED
    BY <1>1, <2>1, <2>2, <2>3, <2>4 DEF GroupsSound
<1>3. CASE done # ids
  <2>1. /\ groups' = [groups EXCEPT ![g] = [ids |-> ids, done |-> done, armed |-> done # {}]]
        /\ groupOf' = [a \in Agent |-> IF a \in ids THEN g ELSE groupOf[a]]
    BY <1>3 DEF Report
  <2>2. /\ groups' \in [GroupId -> [ids : SUBSET Agent, done : SUBSET Agent, armed : BOOLEAN]]
        /\ groupOf' \in [Agent -> 0..MaxGroups]
    BY <1>1, <2>1 DEF GroupId
  <2>3. \A h \in GroupId :
          /\ groups'[h].done \subseteq groups'[h].ids
          /\ groups'[h].armed <=> groups'[h].done # {}
          /\ groups'[h].armed => groups'[h].done # groups'[h].ids
          /\ h > batches' => groups'[h].ids = {}
    <3> TAKE h \in GroupId
    <3>1. CASE h = g
      <4>1. groups'[h] = [ids |-> ids, done |-> done, armed |-> done # {}]
        BY <1>1, <2>1, <3>1
      <4>2. ~(h > batches')
        BY <1>1, <3>1 DEF GroupId
      <4>3. groups'[h].ids = ids /\ groups'[h].done = done
        BY <4>1
      <4>4. groups'[h].armed = (done # {})
        BY <4>1
      <4>5. groups'[h].armed <=> groups'[h].done # {}
        BY <4>3, <4>4, Zenon
      <4> QED
        BY <1>1, <1>3, <4>2, <4>3, <4>5
    <3>2. CASE h # g
      <4>1. groups'[h] = groups[h]
        BY <1>1, <2>1, <3>2
      <4>2. h > batches' => h > batches
        BY <1>1 DEF GroupId
      <4> QED
        BY <4>1, <4>2 DEF GroupsSound
    <3> QED
      BY <3>1, <3>2
  <2>4. \A a \in Agent, h \in GroupId : groupOf'[a] = h <=> a \in groups'[h].ids
    BY <1>1, <2>1 DEF GroupsSound, Reportable, GroupId
  <2> QED
    BY <1>1, <2>1, <2>2, <2>3, <2>4 DEF GroupsSound
<1> QED
  BY <1>2, <1>3

\* The manager's callback reports for the group of an agent that is spawned, or leaves
\* the tables alone.
LEMMA CallbackReports ==
  ASSUME GroupsSound, NEW a \in Agent, a \notin consumed \cup batch, groupOf[a] # 0
  PROVE  /\ Reportable(groupOf[a], groups[groupOf[a]].ids, groups[groupOf[a]].done \cup {a})
         /\ groupOf[a] <= batches
         /\ groups[groupOf[a]].ids \subseteq spawned
         /\ batch \cap groups[groupOf[a]].ids = {}
<1> DEFINE g == groupOf[a]
<1>1. g \in GroupId /\ a \in groups[g].ids /\ groups[g].ids \subseteq Agent
  BY NotificationAssumption DEF GroupsSound, GroupId
<1>2. \A b \in groups[g].ids : groupOf[b] = g /\ groupOf[b] # 0 /\ b \in Agent
  BY <1>1 DEF GroupsSound, GroupId
<1>3. g <= batches
  BY <1>1, NotificationAssumption DEF GroupsSound, GroupId
<1>4. Reportable(g, groups[g].ids, groups[g].done \cup {a})
  BY <1>1, <1>2 DEF GroupsSound, Reportable
<1> QED
  BY <1>2, <1>3, <1>4 DEF GroupsSound

\* Every step keeps the tables: no completion is held without a timer, for a group that
\* is gone, or in a group nobody is missing from.
LEMMA GroupsStep ==
  ASSUME GroupsSound, TypeOK, [NNext]_notificationVars
  PROVE  GroupsSound'
<1>1. ASSUME NEW a \in Agent, AgentTool(a)
      PROVE  GroupsSound'
  <2>1. /\ spawned' = spawned \cup {a} /\ a \notin spawned
        /\ batch' = batch \cup ({a} \cap (Background \ Async))
        /\ UNCHANGED <<batches, groups, groupOf>>
    BY <1>1 DEF AgentTool, Spawn, groupVars
  <2> QED
    BY <2>1 DEF GroupsSound
<1>2. ASSUME NEW a \in Agent, Concludes(a)
      PROVE  GroupsSound'
  <2>1. UNCHANGED <<spawned, batch, batches>>
    BY <1>2 DEF Concludes, Settle, Inspected
  <2>2. CASE UNCHANGED groupVars
    BY <2>1, <2>2 DEF GroupsSound, groupVars
  <2>3. CASE ~UNCHANGED groupVars
    <3> DEFINE g == groupOf[a]
               ids == groups[g].ids
               done == groups[g].done \cup {a}
    <3>1. /\ a \notin consumed \cup batch /\ g # 0
          /\ Report(g, ids, done)
      BY <1>2, <2>3 DEF Concludes, OnComplete
    <3>2. /\ Reportable(g, ids, done)
          /\ g <= batches /\ ids \subseteq spawned /\ batch \cap ids = {}
      BY <3>1, CallbackReports
    <3> HIDE DEF g, ids, done
    <3>3. /\ batches' \in Nat /\ batches <= batches' /\ batches' <= MaxGroups /\ g <= batches'
          /\ batch' \subseteq spawned' /\ ids \subseteq spawned' /\ batch' \cap ids = {}
          /\ \A b \in Agent : b \in batch' \/ b \notin spawned' => groupOf[b] = 0
      BY <2>1, <3>2, NotificationAssumption DEF GroupsSound
    <3> QED
      BY <3>1, <3>2, <3>3, ReportKeeps
  <2> QED
    BY <2>2, <2>3
<1>3. ASSUME NEW a \in Agent, FetchContinues(a) \/ \E wait \in BOOLEAN : Fetch(a, wait)
      PROVE  GroupsSound'
  <2>1. UNCHANGED <<spawned, batch, batches, groups, groupOf>>
    BY <1>3 DEF FetchContinues, Fetch, groupVars, vars
  <2> QED
    BY <2>1 DEF GroupsSound
<1>4. CASE FinalizeBatch
  <2> DEFINE over == {a \in batch \cap completedAt : status[a] # "absent" /\ a \notin consumed}
  <2>1. batch' = {} /\ UNCHANGED spawned
    BY <1>4 DEF FinalizeBatch, vars
  <2>2. CASE Cardinality(batch) >= 2
    <3> DEFINE g == batches + 1
    <3>1. batches < MaxGroups /\ batches' = g /\ Report(g, batch, over)
      BY <1>4, <2>2 DEF FinalizeBatch
    <3>2. batches \in Nat /\ MaxGroups \in Nat /\ g \in GroupId /\ g > batches
      BY <3>1, NotificationAssumption DEF GroupsSound, GroupId
    <3>3. Reportable(g, batch, over)
      <4>1. batch \subseteq Agent /\ over \subseteq batch
        BY DEF GroupsSound, TypeOK
      <4>2. groups[g].ids = {} /\ \A a \in batch : groupOf[a] = 0
        BY <3>2, <4>1 DEF GroupsSound
      <4> QED
        BY <3>2, <4>1, <4>2 DEF Reportable
    <3> HIDE DEF over
    <3>4. /\ batches' \in Nat /\ batches <= batches' /\ batches' <= MaxGroups /\ g <= batches'
          /\ batch' \subseteq spawned' /\ batch \subseteq spawned' /\ batch' \cap batch = {}
          /\ \A b \in Agent : b \in batch' \/ b \notin spawned' => groupOf[b] = 0
      BY <2>1, <3>1, <3>2 DEF GroupsSound
    <3> HIDE DEF g
    <3> QED
      BY <3>1, <3>3, <3>4, ReportKeeps
  <2>3. CASE ~(Cardinality(batch) >= 2)
    <3>1. UNCHANGED <<batches, groups, groupOf>>
      BY <1>4, <2>3 DEF FinalizeBatch, groupVars
    <3> QED
      BY <2>1, <3>1 DEF GroupsSound
  <2> QED
    BY <2>2, <2>3
<1>5. ASSUME NEW g \in GroupId, GroupTimeout(g)
      PROVE  GroupsSound'
  <2> DEFINE done == groups[g].done
  <2>1. /\ groups' = [groups EXCEPT ![g] =
                        [ids |-> groups[g].ids \ done, done |-> {}, armed |-> FALSE]]
        /\ groupOf' = [a \in Agent |-> IF a \in done THEN 0 ELSE groupOf[a]]
        /\ UNCHANGED <<spawned, batch, batches>>
    BY <1>5 DEF GroupTimeout, vars
  <2>2. /\ groups' \in [GroupId -> [ids : SUBSET Agent, done : SUBSET Agent, armed : BOOLEAN]]
        /\ groupOf' \in [Agent -> 0..MaxGroups]
    BY <2>1, NotificationAssumption DEF GroupsSound
  <2>3. \A h \in GroupId :
          /\ groups'[h].done \subseteq groups'[h].ids
          /\ groups'[h].armed <=> groups'[h].done # {}
          /\ groups'[h].armed => groups'[h].done # groups'[h].ids
          /\ h > batches' => groups'[h].ids = {}
    BY <2>1 DEF GroupsSound
  <2>4. \A a \in Agent, h \in GroupId : groupOf'[a] = h <=> a \in groups'[h].ids
    BY <2>1 DEF GroupsSound, GroupId
  <2> QED
    BY <2>1, <2>2, <2>3, <2>4 DEF GroupsSound
<1>6. CASE (\E n \in nudges : NudgeFires(n)) \/ ManagerStep \/ UNCHANGED notificationVars
  <2>1. UNCHANGED <<batch, batches, groups, groupOf>> /\ UNCHANGED spawned
    BY <1>6 DEF NudgeFires, ManagerStep, noticeVars, groupVars, notificationVars, vars,
       WorktreeCreated, SessionCreated, SettleIsolated, Resume, ResumeSettle, ResumeInspected,
       RequestHelp, Steer, HelpCancelled, Abort, SetMaxConcurrent, Remove
  <2> QED
    BY <2>1 DEF GroupsSound
<1> QED
  BY <1>1, <1>2, <1>3, <1>4, <1>5, <1>6 DEF NNext

-----------------------------------------------------------------------------
(* The announcements. *)

\* A run that ends was going on before, and its agent is idle after.
LEMMA ConcludeIdles ==
  ASSUME ManagerInv, NEW a \in Agent, Settle(a) \/ Inspected(a)
  PROVE  Executing(a) /\ Idle(a)'
<1>1. /\ status \in [Agent -> Status] /\ exec \in [Agent -> ExecState] /\ QueueSound
      /\ \A b \in Agent : exec[b] # "none" => b \in spawned
  BY DEF ManagerInv, TypeOK, ExecState, RecordsSound
<1>2. Executing(a) /\ exec[a] # "none"
  BY DEF Settle, Inspected, Executing
<1>3. status[a] # "queued"
  BY <1>1, <1>2 DEF QueueSound
<1>4. spawned' = spawned
  BY DEF Settle, Inspected
<1>5. PICK st : Conclude(a, st) /\ st[a] # "queued"
  <2>1. \A outcome \in {"completed", "error"} : Left(a, outcome)[a] # "queued"
    BY <1>1, <1>3 DEF Left
  <2> QED
    BY <1>3, <2>1 DEF Settle, Inspected
<1> DEFINE ex == [exec EXCEPT ![a] = "settled"]
<1>6. ex[a] = "settled"
  BY <1>1
<1>7. status'[a] = st[a] /\ exec'[a] = ex[a]
  BY <1>5, DrainSpares DEF Conclude
<1> QED
  BY <1>1, <1>2, <1>4, <1>5, <1>6, <1>7 DEF Idle, Executing

\* An announcement stays where it is when nothing is added for its agent.
LEMMA PlacedQuiet ==
  ASSUME NEW q, Placed(q), Idle(q) => Idle(q)', q \notin batch => q \notin batch' \/ ~Idle(q),
         notified'[q] = notified[q], \A n \in nudges' : q \in n.of => n \in nudges,
         Held(q)' => Held(q)
  PROVE  Placed(q)'
BY DEF Placed, Nudged

\* An agent that is neither announced nor in a nudge may be held or put into one nudge,
\* once its run and its batch are over.
LEMMA PlacedNew ==
  ASSUME NEW q, NEW x, Placed(q), notified[q] = 0, ~Nudged(q), Idle(q)', q \notin batch',
         notified'[q] = notified[q],
         \/ \A n \in nudges' : q \in n.of => n \in nudges
         \/ ~Held(q)' /\ \A n \in nudges' : n = x \/ n \in nudges
  PROVE  Placed(q)'
BY DEF Placed, Nudged

\* Report() holds its members or puts them all into one nudge, and leaves others alone.
LEMMA ReportPlaces ==
  ASSUME GroupsSound, NEW g, NEW ids, NEW done, Reportable(g, ids, done), Report(g, ids, done),
         NEW q \in Agent
  PROVE  /\ q \notin done => /\ Held(q)' => Held(q)
                             /\ \A n \in nudges' : q \in n.of => n \in nudges
         /\ q \in done => \/ \A n \in nudges' : q \in n.of => n \in nudges
                          \/ ~Held(q)' /\ \A n \in nudges' : n = Group(done) \/ n \in nudges
<1>1. /\ groups \in [GroupId -> [ids : SUBSET Agent, done : SUBSET Agent, armed : BOOLEAN]]
      /\ groupOf \in [Agent -> 0..MaxGroups]
      /\ g \in GroupId /\ ids \subseteq Agent /\ done \subseteq ids /\ groups[g].ids \subseteq ids
      /\ groupOf[q] # 0 => groupOf[q] \in GroupId /\ q \in groups[groupOf[q]].ids
  BY NotificationAssumption DEF GroupsSound, Reportable, GroupId
<1>2. CASE done = ids
  <2>1. /\ groups' = [groups EXCEPT ![g] = NoGroup]
        /\ groupOf' = [a \in Agent |-> IF a \in ids THEN 0 ELSE groupOf[a]]
        /\ nudges' = nudges \cup {Group(done)}
    BY <1>2 DEF Report
  <2>2. q \in done => ~Held(q)'
    BY <1>1, <1>2, <2>1 DEF Held
  <2>3. q \notin done => (Held(q)' => Held(q))
    BY <1>1, <1>2, <2>1 DEF Held
  <2>4. Group(done).of = done
    BY DEF Group
  <2> QED
    BY <2>1, <2>2, <2>3, <2>4
<1>3. CASE done # ids
  <2>1. /\ groups' = [groups EXCEPT ![g] = [ids |-> ids, done |-> done, armed |-> done # {}]]
        /\ groupOf' = [a \in Agent |-> IF a \in ids THEN g ELSE groupOf[a]]
        /\ nudges' = nudges
    BY <1>3 DEF Report
  <2>2. groups'[g].done = done /\ \A h \in GroupId \ {g} : groups'[h] = groups[h]
    BY <1>1, <2>1
  <2>3. q \notin done => (Held(q)' => Held(q))
    BY <1>1, <2>1, <2>2 DEF Held
  <2> QED
    BY <2>1, <2>3
<1> QED
  BY <1>2, <1>3

\* A run that ends places the announcement of its own agent, and perhaps sends with it
\* what its group had held.
LEMMA ConcludesPlaces ==
  ASSUME ManagerInv, QueuedOpen, GroupsSound, NEW a \in Agent, Concludes(a),
         NEW q \in Agent, Placed(q)
  PROVE  Placed(q)'
<1>1. /\ Executing(a) /\ Idle(a)' /\ ~Idle(a)
      /\ Idle(q) => Idle(q)'
      /\ UNCHANGED <<batch, notified>>
  <2>1. Settle(a) \/ Inspected(a)
    BY DEF Concludes
  <2>2. Executing(a) /\ Idle(a)'
    BY <2>1, ConcludeIdles
  <2>3. [Next]_vars
    BY <2>1 DEF Next
  <2> QED
    BY <2>2, <2>3, IdleStays DEF Idle, Concludes
<1>2. q = a => notified[q] = 0 /\ ~Nudged(q) /\ ~Held(q)
  BY <1>1 DEF Placed
<1>3. CASE UNCHANGED <<groupVars, nudges>>
  <2>1. Held(q)' => Held(q)
    BY <1>3 DEF Held, groupVars
  <2> QED
    BY <1>1, <1>3, <2>1, PlacedQuiet
<1>4. CASE nudges' = nudges \cup {One(a)} /\ UNCHANGED groupVars /\ a \notin batch
  <2>1. Held(q)' => Held(q)
    BY <1>4 DEF Held, groupVars
  <2>2. CASE q = a
    BY <1>1, <1>2, <1>4, <2>1, <2>2, PlacedNew
  <2>3. CASE q # a
    <3>1. \A n \in nudges' : q \in n.of => n \in nudges
      BY <1>4, <2>3 DEF One
    <3> QED
      BY <1>1, <2>1, <3>1, PlacedQuiet
  <2> QED
    BY <2>2, <2>3
<1>5. ASSUME a \notin consumed \cup batch, groupOf[a] # 0,
             Report(groupOf[a], groups[groupOf[a]].ids, groups[groupOf[a]].done \cup {a})
      PROVE  Placed(q)'
  <2> DEFINE g == groupOf[a]
             ids == groups[g].ids
             done == groups[g].done \cup {a}
  <2>1. Reportable(g, ids, done)
    BY <1>5, CallbackReports
  <2>2. /\ q \notin done => /\ Held(q)' => Held(q)
                            /\ \A n \in nudges' : q \in n.of => n \in nudges
        /\ q \in done => \/ \A n \in nudges' : q \in n.of => n \in nudges
                         \/ ~Held(q)' /\ \A n \in nudges' : n = Group(done) \/ n \in nudges
    <3>1. Report(g, ids, done)
      BY <1>5
    <3> HIDE DEF g, ids, done
    <3> QED
      BY <2>1, <3>1, ReportPlaces
  <2>3. CASE q \notin done
    <3> HIDE DEF g, ids, done
    <3> QED
      BY <1>1, <2>2, <2>3, PlacedQuiet
  <2>4. CASE q \in done
    <3>1. q # a => Held(q)
      <4> SUFFICES ASSUME q # a PROVE Held(q)
        OBVIOUS
      <4>1. g \in GroupId /\ q \in groups[g].done
        BY <1>5, <2>4, NotificationAssumption DEF GroupsSound, GroupId
      <4>2. groupOf[q] = g
        BY <4>1 DEF GroupsSound
      <4> QED
        BY <1>5, <4>1, <4>2 DEF Held
    <3>2. notified[q] = 0 /\ ~Nudged(q) /\ Idle(q)' /\ q \notin batch'
      BY <1>1, <1>2, <1>5, <3>1 DEF Placed
    <3> HIDE DEF g, ids, done
    <3> QED
      BY <1>1, <2>2, <2>4, <3>2, PlacedNew
  <2> QED
    BY <2>3, <2>4
<1> QED
  BY <1>3, <1>4, <1>5 DEF Concludes, OnComplete

\* Every agent but those announced during their run has its announcement in one place.
Announced ==
  /\ notified \in [Agent -> Nat]
  /\ \A q \in Agent \ early : Placed(q)

\* Every step keeps announcements in one place: a batch, a timer and a nudge move them
\* on, a fetch only takes them back.
LEMMA AnnouncedStep ==
  ASSUME ManagerInv, QueuedOpen, GroupsSound, Announced, [NNext]_notificationVars
  PROVE  Announced'
<1>1. \A q \in Agent : Idle(q) => Idle(q)'
  BY ManagerMoves, IdleStays
<1>2. notified' \in [Agent -> Nat]
  <2>1. CASE UNCHANGED notified
    BY <2>1 DEF Announced
  <2>2. ASSUME NEW n \in nudges, NudgeFires(n)
        PROVE  notified' \in [Agent -> Nat]
    BY <2>2 DEF NudgeFires, Announced
  <2>3. ASSUME NNext, ~(\E n \in nudges : NudgeFires(n))
        PROVE  UNCHANGED notified
    BY <2>3 DEF NNext, AgentTool, Concludes, FetchContinues, Fetch, FinalizeBatch, GroupTimeout,
       ManagerStep, noticeVars
  <2> QED
    BY <2>1, <2>2, <2>3 DEF notificationVars, noticeVars
<1> SUFFICES ASSUME NEW q \in Agent, q \notin early' PROVE Placed(q)'
  BY <1>2 DEF Announced
<1>3. early \subseteq early'
  BY DEF NNext, AgentTool, Concludes, FetchContinues, Fetch, FinalizeBatch, GroupTimeout,
     NudgeFires, ManagerStep, notificationVars, noticeVars
<1>4. Placed(q) /\ notified[q] \in Nat
  BY <1>3 DEF Announced
<1>5. ASSUME UNCHANGED <<groupVars, notified>>, nudges' \subseteq nudges,
             q \notin batch => q \notin batch' \/ ~Idle(q)
      PROVE  Placed(q)'
  <2>1. Held(q)' => Held(q)
    BY <1>5 DEF Held, groupVars
  <2> QED
    BY <1>1, <1>4, <1>5, <2>1, PlacedQuiet
<1>6. ASSUME NEW a \in Agent, AgentTool(a)
      PROVE  Placed(q)'
  <2>1. /\ a \notin spawned /\ batch' \subseteq batch \cup {a}
        /\ UNCHANGED <<groupVars, nudges, notified>>
    BY <1>6 DEF AgentTool, Spawn
  <2> QED
    BY <1>5, <2>1 DEF Idle
<1>7. ASSUME NEW a \in Agent, Concludes(a)
      PROVE  Placed(q)'
  BY <1>4, <1>7, ConcludesPlaces
<1>8. ASSUME NEW a \in Agent, FetchContinues(a) \/ \E wait \in BOOLEAN : Fetch(a, wait)
      PROVE  Placed(q)'
  <2>1. nudges' \subseteq nudges /\ UNCHANGED <<batch, groupVars, notified>>
    BY <1>8 DEF FetchContinues, Fetch, AwaitResult, Return, Consume
  <2> QED
    BY <1>5, <2>1
<1>9. CASE FinalizeBatch
  <2> DEFINE over == {a \in batch \cap completedAt : status[a] # "absent" /\ a \notin consumed}
  <2>1. batch' = {} /\ UNCHANGED <<vars, notified>> /\ early' = early \cup {a \in over : Executing(a)}
    BY <1>9 DEF FinalizeBatch
  <2>2. q \in over => /\ notified[q] = 0 /\ ~Nudged(q) /\ ~Held(q)
                      /\ Idle(q)' /\ q \notin batch'
    <3> SUFFICES ASSUME q \in over
                 PROVE  notified[q] = 0 /\ ~Nudged(q) /\ ~Held(q) /\ Idle(q)'
      BY <2>1
    <3>1. notified[q] = 0 /\ ~Nudged(q) /\ ~Held(q)
      BY <1>4 DEF Placed
    <3>2. ~Executing(q)
      BY <2>1
    <3>3. q \in spawned /\ status[q] # "queued"
      BY DEF ManagerInv, TypeOK, QueuedOpen
    <3> QED
      BY <1>1, <3>1, <3>2, <3>3 DEF Idle
  <2>3. CASE Cardinality(batch) >= 2
    <3> DEFINE g == batches + 1
    <3>1. batches < MaxGroups /\ Report(g, batch, over)
      BY <1>9, <2>3 DEF FinalizeBatch
    <3>2. Reportable(g, batch, over)
      <4>1. batch \subseteq Agent /\ over \subseteq batch
        BY DEF GroupsSound, ManagerInv, TypeOK
      <4>2. g \in GroupId /\ g > batches
        BY <3>1, NotificationAssumption DEF GroupsSound, GroupId
      <4>3. groups[g].ids = {} /\ \A a \in batch : groupOf[a] = 0
        BY <4>1, <4>2 DEF GroupsSound
      <4> QED
        BY <4>1, <4>2, <4>3 DEF Reportable
    <3> HIDE DEF over, g
    <3>3. /\ q \notin over => /\ Held(q)' => Held(q)
                              /\ \A n \in nudges' : q \in n.of => n \in nudges
          /\ q \in over => \/ \A n \in nudges' : q \in n.of => n \in nudges
                           \/ ~Held(q)' /\ \A n \in nudges' : n = Group(over) \/ n \in nudges
      BY <3>1, <3>2, ReportPlaces
    <3>4. CASE q \in over
      BY <1>4, <2>1, <2>2, <3>3, <3>4, PlacedNew
    <3>5. CASE q \notin over
      BY <1>1, <1>4, <2>1, <3>3, <3>5, PlacedQuiet
    <3> QED
      BY <3>4, <3>5
  <2>4. CASE ~(Cardinality(batch) >= 2)
    <3>1. nudges' = nudges \cup {One(a) : a \in over} /\ UNCHANGED groupVars
      BY <1>9, <2>4 DEF FinalizeBatch
    <3>2. Held(q)' => Held(q)
      BY <3>1 DEF Held, groupVars
    <3>3. \A n \in nudges' : q \in n.of => n \in nudges \/ (q \in over /\ n = One(q))
      BY <3>1 DEF One
    <3> HIDE DEF over
    <3>4. CASE q \in over
      <4>1. ~Held(q)'
        BY <2>2, <3>2, <3>4
      <4>2. notified'[q] = notified[q] /\ q \notin batch' /\ Idle(q)'
        BY <2>1, <2>2, <3>4
      <4> QED
        BY <1>4, <2>2, <3>3, <3>4, <4>1, <4>2 DEF Placed, Nudged
    <3>5. CASE q \notin over
      BY <1>1, <1>4, <2>1, <3>2, <3>3, <3>5, PlacedQuiet
    <3> QED
      BY <3>4, <3>5
  <2> QED
    BY <2>3, <2>4
<1>10. ASSUME NEW g \in GroupId, GroupTimeout(g)
       PROVE  Placed(q)'
  <2> DEFINE done == groups[g].done
  <2>1. /\ groups' = [groups EXCEPT ![g] =
                        [ids |-> groups[g].ids \ done, done |-> {}, armed |-> FALSE]]
        /\ groupOf' = [a \in Agent |-> IF a \in done THEN 0 ELSE groupOf[a]]
        /\ nudges' = nudges \cup {Group(done)}
        /\ UNCHANGED <<batch, notified>>
    BY <1>10 DEF GroupTimeout
  <2>2. g \in Nat /\ g # 0 /\ Group(done).of = done
    BY DEF GroupId, Group
  <2>3. CASE q \in done
    <3>1. groupOf[q] = g
      BY <2>3 DEF GroupsSound
    <3>2. Held(q)
      BY <2>2, <2>3, <3>1 DEF Held
    <3>3. notified[q] = 0 /\ ~Nudged(q) /\ Idle(q) /\ q \notin batch
      BY <1>4, <3>2 DEF Placed
    <3>4. ~Held(q)'
      BY <2>1, <2>3 DEF Held
    <3> HIDE DEF done
    <3> QED
      BY <1>1, <1>4, <2>1, <3>3, <3>4, PlacedNew
  <2>4. CASE q \notin done
    <3>1. groupOf'[q] = groupOf[q]
      BY <2>1, <2>4
    <3>2. Held(q)' => Held(q)
      BY <2>1, <3>1, NotificationAssumption DEF Held, GroupsSound, GroupId
    <3>3. \A n \in nudges' : q \in n.of => n \in nudges
      BY <2>1, <2>2, <2>4
    <3> HIDE DEF done
    <3> QED
      BY <1>1, <1>4, <2>1, <3>2, <3>3, PlacedQuiet
  <2> QED
    BY <2>3, <2>4
<1>11. ASSUME NEW n \in nudges, NudgeFires(n)
       PROVE  Placed(q)'
  <2>1. /\ nudges' = nudges \ {n}
        /\ notified' = [a \in Agent |->
                          IF a \in n.of \ consumed THEN notified[a] + 1 ELSE notified[a]]
        /\ UNCHANGED <<batch, groups, groupOf>>
    BY <1>11 DEF NudgeFires, groupVars
  <2>2. Held(q)' <=> Held(q)
    BY <2>1 DEF Held
  <2>3. CASE q \in n.of \ consumed
    <3>1. Nudged(q)
      BY <2>3 DEF Nudged
    <3>2. notified[q] = 0 /\ ~Held(q) /\ Idle(q) /\ q \notin batch
      BY <1>4, <3>1 DEF Placed
    <3>3. ~Nudged(q)'
      BY <1>4, <2>1, <2>3 DEF Placed, Nudged
    <3>4. notified'[q] = 1
      BY <2>1, <2>3, <3>2
    <3> QED
      BY <1>1, <2>1, <2>2, <3>2, <3>3, <3>4 DEF Placed, Nudged
  <2>4. CASE q \notin n.of \ consumed
    <3>1. notified'[q] = notified[q]
      BY <2>1, <2>4
    <3> QED
      BY <1>1, <1>4, <2>1, <2>2, <3>1, PlacedQuiet
  <2> QED
    BY <2>3, <2>4
<1>12. CASE ManagerStep \/ UNCHANGED notificationVars
  <2>1. UNCHANGED <<batch, groupVars, nudges, notified>>
    BY <1>12 DEF ManagerStep, noticeVars, notificationVars, groupVars
  <2> QED
    BY <1>5, <2>1
<1> QED
  BY <1>6, <1>7, <1>8, <1>9, <1>10, <1>11, <1>12 DEF NNext

-----------------------------------------------------------------------------
(* What a session relies on. *)

\* The manager's invariant (agent-manager.ts) is one of the session, with who is queued,
\* the groups, and the place of every announcement: the last needs all the others.
THEOREM NotificationInvariant ==
  NSpec => [](ManagerInv /\ QueuedOpen /\ GroupsSound /\ Announced)
<1>1. NInit => QueuedOpen /\ GroupsSound /\ Announced
  <2> SUFFICES ASSUME NInit PROVE QueuedOpen /\ GroupsSound /\ Announced
    OBVIOUS
  <2>1. QueuedOpen
    BY DEF NInit, Init, QueuedOpen
  <2>2. GroupsSound
    BY NotificationAssumption DEF NInit, Init, GroupsSound, NoGroup, GroupId
  <2>3. notified = [a \in Agent |-> 0] /\ nudges = {} /\ groupOf = [a \in Agent |-> 0]
    BY DEF NInit
  <2>4. Announced
    BY <2>3 DEF Announced, Placed, Nudged, Held
  <2> QED
    BY <2>1, <2>2, <2>4
<1>2. ManagerInv /\ QueuedOpen /\ [NNext]_notificationVars => QueuedOpen'
  BY ManagerMoves, IdleStays DEF QueuedOpen
<1>3. ManagerInv /\ GroupsSound /\ [NNext]_notificationVars => GroupsSound'
  BY GroupsStep DEF ManagerInv
<1>4. ManagerInv /\ QueuedOpen /\ GroupsSound /\ Announced /\ [NNext]_notificationVars
        => Announced'
  BY AnnouncedStep
<1> QED
  BY <1>1, <1>2, <1>3, <1>4, ImplementsManager, ManagerInvariant, PTL DEF NSpec

\* A completion that group-join.ts holds back has a timer that will give it up, waits
\* for somebody, and is held for a group that its agent belongs to.
THEOREM NothingHeldForEver == NSpec => []HeldHasTimer
<1>1. GroupsSound => HeldHasTimer
  BY DEF GroupsSound, HeldHasTimer
<1> QED
  BY <1>1, NotificationInvariant, PTL

\* A completion is announced once, whichever of batch, group, straggler group and nudge
\* it goes through, whatever is stopped, fetched, resumed or removed meanwhile; only an
\* agent whose batch was finalized during its run may be announced again.
THEOREM AnnouncedOnceOnly == NSpec => []AnnouncedOnce
<1>1. GroupsSound /\ Announced => AnnouncedOnce
  <2> SUFFICES ASSUME GroupsSound, Announced, NEW a \in Agent, a \notin early
               PROVE  Announcements(a) <= 1
    BY DEF AnnouncedOnce
  <2> DEFINE mine == {n \in nudges : a \in n.of}
             held == IF Held(a) THEN 1 ELSE 0
  <2>1. Placed(a) /\ notified[a] \in 0..1
    BY DEF Announced, Placed
  <2>2. CASE Nudged(a)
    <3>1. PICK n \in nudges : a \in n.of
      BY <2>2 DEF Nudged
    <3>2. mine = {n}
      BY <2>1, <3>1 DEF Placed
    <3>3. Cardinality(mine) = 1
      BY <3>2, FS_Singleton
    <3>4. notified[a] = 0 /\ ~Held(a)
      BY <2>1, <2>2 DEF Placed
    <3> HIDE DEF mine
    <3> QED
      BY <3>3, <3>4 DEF Announcements, Held, mine
  <2>3. CASE ~Nudged(a)
    <3>1. mine = {}
      BY <2>3 DEF Nudged
    <3>2. Cardinality(mine) = 0
      BY <3>1, FS_EmptySet
    <3>3. notified[a] + held <= 1
      BY <2>1 DEF Placed
    <3> HIDE DEF mine
    <3> QED
      BY <2>1, <3>2, <3>3 DEF Announcements, Held, mine
  <2> QED
    BY <2>2, <2>3
<1> QED
  BY <1>1, NotificationInvariant, PTL

\* An agent is announced after the execution that spawn() started is over, and not while
\* its batch is collected (index.ts): no message says of such an execution that goes on
\* that it is done, but for one whose batch was finalized between its stop and its end.
THEOREM AnnouncedIdle ==
  NSpec => [](\A q \in Agent \ early :
                notified[q] > 0 \/ Nudged(q) \/ Held(q) => ~Executing(q) /\ q \notin batch)
<1>1. Announced => \A q \in Agent \ early :
                     notified[q] > 0 \/ Nudged(q) \/ Held(q) => ~Executing(q) /\ q \notin batch
  BY DEF Announced, Placed, Idle
<1> QED
  BY <1>1, NotificationInvariant, PTL
=============================================================================
