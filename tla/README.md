# pi-agent-subagents: verification project

TLA+ models of the parts of this extension in which steps of several actors
meet: the local message transport, the delegation group, the agent manager, the
notifications of a session, the life and the result of a child process, and the
worktree tools. Every definition is translated from the source;
`PROJECT.json` maps it to the lines it stands for.

Paths below are relative to `src/src/` unless they begin with `docs/`.

## The system

A session spawns agents. An agent runs in process, or as a child process that
speaks RPC over its standard streams and talks to its group through a broker in
the root session. Children may spawn children of their own.

| Component | State | Operations | Talks to |
| --- | --- | --- | --- |
| Message broker (`messaging-broker.ts`) | participants, connections, credentials, deliveries, groups, run records | hello, send/route, received, control, request timers, disconnect, close | clients over a socket; group and registry by calls |
| Messaging client (`messaging-client.ts`) | deliveries, requests, controls, inbox, waiters | request, event, reply, cancel, nextMessage, control, receive, timers, fail | broker over a socket; its application by promises |
| Wire, protocol (`messaging-wire.ts`, `messaging-protocol.ts`) | partial frame, write buffer | bounded send, framing, validation | both ends of the socket |
| Delegation group (`delegation-group.ts`) | members with parent, depth, limits, role, incarnation | reserve, resume, release | called by the broker |
| Process registry (`process-lifecycle.ts`) | one locked file per run, one index per agent | register, bindPid, takeover, update, read | broker, runner and child write the same file |
| Process runner (`process-runner.ts`) | runs, busy sessions | execute, resume, abort, cleanup, takeover | broker controls, registry, RPC, ledger |
| Process RPC (`process-rpc.ts`) | pending commands, current prompt, dialogs | start, prompt, steer, close, failure, limits | child process |
| Process child (`process-child.ts`) | publication flag, dialogs | boot, publish, parent_exiting, disconnect, inspect | parent by IPC, broker, registry |
| Results (`process-results.ts`, `process-communication.ts`) | ledger entries, session entries | expect, receive, stage, ingest, persist, publish, help, steer | client, session file |
| Agent manager (`agent-manager.ts`) | records, queue, slots | spawn, drain, resume, abort, cleanup, shutdown | runner of agents; callbacks to the session |
| Notifications (`group-join.ts`, `index.ts`) | batch, groups, nudges, consumed results | onComplete, finalizeBatch, timers, get_subagent_result | manager; messages to the session |
| Worktrees (`worktree*.ts`) | git worktrees and their registration | create, inspect, cleanup, integrate | manager records, git |
| Agent runner (`agent-runner.ts`) | one session | run, resume, steer, limits | model and tools |
| Profiles, protection, settings, definitions | configuration | validate, hash, merge, save | files |
| User interface (`ui/`, `cmux.ts`, `output-file.ts`) | none of consequence | render, log | terminal |

All of it is event-loop code: what runs between two awaits is atomic, and the
hard behaviour is in what other callbacks do between them. Several event loops
meet in the broker and in the registry's files. What makes each part correct:

- **Transport.** A caller is told the outcome of every request whatever is lost;
  the table of deliveries is bounded and still leaves room for the end of every
  open request; retries are recognised; receipts are true.
- **Group.** One limit for the tree, although every member acts alone; authority
  that only narrows; one incarnation of a member at a time; a taken-over run is
  out of its parent's reach.
- **Manager.** Slots are returned once and refilled; nobody is started twice or
  forgotten; a late end of an old execution damages nothing; a worktree has one
  user.
- **Notifications.** Each completion is announced once, none is lost.
- **Processes.** Ownership is decided by the record and changes hands once; a slot
  is freed only when the process is gone; "completed" is honest; a run that is over
  stays over; no child outlives its parent unseen.
- **Results.** One entry per result in the parent's session, success only after the
  hand-off, and the right cause when there is none.
- **Worktree tools.** A snapshot is what the parent held at one moment; a failed
  integration leaves nothing unreported; foreign edits and commits are not lost.

`PROJECT.json` lists the hazards line by line, with the property that would
catch each one or the reason why none does.

## Modules

| Module | Models | Used by |
| --- | --- | --- |
| `MessageBroker` | broker: routing, records, open requests, receipts, connections; clients are the environment | `Messaging`, `MessageBroker_proofs` |
| `Messaging` | real clients at both ends of `MessageBroker`, sockets and timers | `MCMessaging`, `Messaging_proofs` |
| `RequestReply` | abstract: what `client.request()` promises | refined by `Messaging` |
| `DelegationGroup` | members, capabilities, connections and run records in the root broker | `DelegationGroup_proofs` |
| `AgentManager` | records, queue, slots, executions, worktree occupation, help requests | `Notifications`, `AgentManager_proofs` |
| `Notifications` | batches, groups, nudges, result tool, on top of `AgentManager` | `MCNotifications`, `Notifications_proofs` |
| `ProcessRun` | one child process: runner, RPC connection, record on disk, child, broker, parent's end | `MCProcessRun`, `ProcessRun_proofs` |
| `ProcessOwnership` | abstract: whose process it is, who may stop it and free its slot | refined by `ProcessRun` |
| `ProcessResult` | a prompt's outcome and the way of its result into the parent's session | `MCProcessResult`, `ProcessResult_proofs` |
| `Worktree` | snapshots, integration and cleanup beside editors and running agents | `MCWorktree`, `Worktree_proofs` |

`MC*` modules give constants their values. `*_proofs` modules hold the theorems.
Operators with a comment that begins "Variant" are not part of a model: each is
a plausible mistake in the definition after it, and `PROJECT.json` names the
property that a run finds violated when the mistake is put in.

### MessageBroker

`deliveries`, `pending`, `received` and `acceptedBy` are the fields of the
delivery records: a record exists, its `pending` timer is set, its `received`
flag, its `processId`. `expired` are records whose `expires` has passed, which
`prune()` removes at the next envelope unless they are open requests. A socket is
a bounded queue of frames; one write too many destroys it, as in
`JsonLineWire.send`, and a destroyed socket stays registered until its `close`
event (`Disconnect`). The frames written before stay readable. A socket that its own
handler destroys is read to the end of the chunk in hand (`net.chunk`, `Served`), since
`JsonLineWire` looks at the socket only before a chunk. A participant's
connection is one boolean (`online`): reconnecting empties the queue.
`NewIncarnation` stands for the controls `resume` and `register-process`, of
which `DelegationGroup` models the conditions.

Abstractions: payloads are one bit (`ctl`: "steer" or "help", which is refused
across a takeover); `maxQueueBytes` counts frames; unknown senders and targets,
malformed frames and failing reads of the registry are left out (their answer is
an error frame and no state). A child has its run record from the beginning.

### Messaging and RequestReply

The state of a client is `out` (deliveries), `calls` (requests), `inbox` and
`waiters`; `uplink` is its socket. Each branch of `receive()` is an action, with
its failure: a full inbox or socket throws out of `receive()` and ends the
client after what was already done. The connection's handshake is one step.
Histories (`arrived`, `taken`, `answered`, `confirmed`) exist for the
properties. Applications reply only to requests they took from their inbox.

`RequestReply` keeps per call what its caller and its recipient see. The
refinement `RequestReplySpec` says that each step of two clients and the broker
is a step of that, or none: outcomes are final, answers come from replies that
were made, one lost connection may fail many calls. `lost` is the set of calls a
step fails beside what it does: a client that takes a frame off its socket may end
in the same step (a full inbox, a receipt that cannot be written).

### DelegationGroup

A capability is a pair of agent and incarnation; `valid` are those the broker
accepts. `active`, `binding` and `processId` are the fields of `GroupBinding`;
`runs`, `bound` and `taken` are the run record's incarnation, PID and ownership,
`alive` says whether the PID still has its birth identity. Roles are their tools
and the read-only bit. Any connected member may send any control.

### AgentManager

One action per stretch between awaits. `exec[a]` is the promise of `startAgent`:
working, closing (the worktree is being inspected), settled. `reworking` counts
executions of `resume()`, which may overlap the first one when no worktree
guards against it. `asking` counts request_help calls that wait and `helping` is
the one resolver. The statuses "completed", "steered" and "aborted" are one.

Not modelled: what the manager adds for agents of the RPC runner (lines 243-352 and
the branches on `record.process` and `resultDelivery`: a status derived from the
phase of the process, refusals by phase), and callbacks that throw. The runs
themselves are `ProcessRun`.

### Notifications

`OnComplete` is the manager's callback; it runs in the same step as `Conclude`.
`Report` is `onAgentComplete` with the delivery it may cause. The delays (100 ms,
200 ms, 15 s, 30 s) are abstracted: a timer that is set may fire at any time.
A session ends before `session_shutdown`.

### ProcessRun and ProcessOwnership

The record on disk is `phase`, `bound` (its PID), `taken` (ownership "user") and its
`lock` file; `handle` is the copy in the parent's memory, so that `registry.read()`
is a comparison of the two (`Proven`) and `authorize()` is that with a live process
whose PID is in the record (`Authorized`). `main` is where `execute()` and `run()`
are, one value per await; `call[c]` the same for concurrent takeover, abort and
cleanup calls and, as `Self`, the cleanup the run starts itself. `stop` is the chain
of stop timers in `process-rpc.ts`, `refused` a stop that may not signal, `sent` what
was sent. Rejected promises are handled before the next event of the parent
(`Due`, `Idle`).

The broker is two actions that write the record (`BindProcess`, `BrokerTakes`) and
may come after the parent died. The child's update of the record is two steps with
the lock file in between, so that a child or parent that dies there leaves an
"orphan" lock nobody removes. `ParentGone` is a crash between any two steps.

Abstractions: a spawn that fails is a process that dies at once; answers of the
broker may be lost, that of a release also after the slot was given back; a nested
parent's broker shares no locks with others; a child that never finished booting is
left to the host. `Disposed` may come early. The proof of ownership and the signal
after it are one step. That is exact where the broker is in the parent's process; for a
nested parent, whose broker is another process, a takeover between the two is not seen.

`ProcessOwnership` is what is left without files, timers and promises: the process
belongs to its parent until it is taken over; only the owner signals it; its place
is freed by its owner when it does not live. `OwnershipSpec` is the refinement.

### ProcessResult

`run` is the set of the flags of a prompt in `process-rpc.ts`, `turns` and `assistant` its
other two fields, `settled` the deferred that
decides it, `failure` the connection's first failure. `stdout` is a queue of frames,
`inbox` the messages of the broker: two channels without a common order. `status` is
the set of flags of the ledger's delivery record; `memory`, `disk` and `torn` are the entries of the
session in memory and in its file, and a line that was written in part. A turn is one
step (turn_start, message, turn_end). `child`, `said`, `passes`, `published` are the
child: passes begun (its own and those it is woken for), its last message, the
messages of `publish()` sent. `channel` is the pump, `refuses` that `this.failure` is set.
`close()` rejects the waiters of the moment and sets no failure: the pump handles one
more message, and a prompt that comes later waits for its timer. `Redeliver` stands for
what the ledger accepts and its test delivers; `publish()` itself runs once.

Messages are checked against the process before `Receive`; a message of a superseded
process is refused and leaves no state. Digests are compared as wholes: a conflicting
result is refused before anything is written.

### Worktree

A file's content is what wrote it last: its first bytes, an edit, a child's version.
`ident` is HEAD and index of the parent checkout, which may merge a child's commits
(`Move`) and be reset behind them (`Reset`). A snapshot is four captures of all
files, one read each, with the worktree made between the last two (`pass`, `next`,
`sofar`, and `got` of the capture before); `past` remembers which checkouts existed
meanwhile, `rolled` that a rollback put a file back. `head` counts an agent's commits,
`merged` those the parent's HEAD reaches and `reached` those it has reached before; `start` and `goal` are the identities an integration began with. An integration has one action per
stretch between awaits: exclusive lock, identities, reading of originals, the checks
before each file, the second look and the rename of one file, rollback in reverse
order, release. A step may fail wherever it does input or output, and the process may
die. `raced` remembers that somebody wrote between the last look and the rename.
`clean` is the cleanup tool with its inspection, its second check of the agent and
git's removal; `reran` that the agent was resumed during that.

Abstractions: `identity()` and the check of all files before one is replaced are one
step each; an editor never takes back a change between two reads, which
`docs/worktrees.md` excludes, but the rollback of an integration may; each agent's commit is integrated by
one call; directories, modes, ignored files, nested repositories and
a temporary file that cannot be removed are left out.

## Runs

| Run | Question | Bounds | Distinct states |
| --- | --- | --- | --- |
| `MCMessageBroker_requests` | budget, reserved slots, open requests | 4 envelopes (a request, its reply, its cancel, an event under the identifier of the reply), table of 3, sockets of 1, 2 incarnations per child | 2 294 000 |
| `MCMessaging_calls` | justified waiting, receipts, refinement | help call and reply; two connections and incarnations of the child; sockets, inbox of 1 | 988 000 |
| `MCMessaging_prompt` | delivery once; settling without timers | call, reply, cancel, steering event; the child reconnects; sockets and inbox of 1 | 352 000 |
| `MCDelegationGroup_tree` | limit, authority, incarnations, takeover | root and 3 members, 2 generations, 2 slots, 2 incarnations | 161 000 |
| `MCAgentManager_slots` | slots, queue, worktrees, records | 3 agents, limits 1 and 2, one overlapping resume, one help call | 229 000 |
| `MCAgentManager_help` | **violation** | 1 agent, 2 help calls | - |
| `MCNotifications_once` | announced once, timers | 3 agents, limit 1, one group | 509 000 |
| `MCNotifications_eventually` | completions and queue, fair | 2 agents, one in a worktree | 129 000 |
| `MCNotifications_parent` | **violation** | 2 agents | - |
| `MCProcessRun_owned` | ownership, slot, record, both ends | one process, 2 concurrent calls of any kind and the run's own cleanup | 406 000 |
| `MCProcessResult_race` | outcome, hand-off, entries | one prompt, 2 turns, 2 passes, 2 unread frames | 1 435 000 |
| `MCWorktree_calls` | snapshot, integration, cleanup | 2 agents, 2 files, one edit, one change of HEAD or index and one reset, 2 commits | 4 456 000 |

The bounds are the smallest at which every branch is taken. A table of three is
reached with one open request (two slots and its reservation), so each further
envelope meets a full table; a socket of one frame is full whenever two frames
meet in it; `Listeners` lets only agents that something but a reply is addressed
to wait for messages, since others would wait for nothing; two incarnations and connections suffice for a stale one; three
members in two generations make siblings and a grandchild; a limit of two with
three agents leaves one queued, and the change between one and two covers
lowering it below what runs. Three agents make a group of which one member may
be announced early and two remain. Two calls beside the run's own cleanup meet in
every pair (takeover during cleanup, two cleanups, abort during takeover). Two passes
let a child be woken between its result and the end of the prompt; two turns make a
first, an allowed and a refused one; two unread frames are a chunk whose first frame
settles the prompt. Two files let one be replaced before the other fails, and the
agents change one of them both.

`CHECK_DEADLOCK FALSE` everywhere: brokers close, agents run out, a session
becomes idle. What must go on is stated as a property.

`MCNotifications_once` follows agents that fail before they have a session
(`ShortRunsSpec`): outcome, help and resume tell nothing about announcing.

Invariants of one module's run are not repeated in runs that compose it. Type
invariants that are proved for every instance are not checked again by a run.

### Fairness

- `PromptSpec`: weak fairness of event loops (a readable frame is read, a closed
  socket is noticed), of an application that takes messages where some may come,
  and of the reply to a request it took; no timer ever fires. `CallsSettle` then shows that settling never depends on a
  timer.
- `RunsEnd` (with `NFairSpec`): strong fairness of the end of a run, because
  asking for help disables it again and again. The model's turn ends by itself, or by the
  limits of `agent-runner.ts` lines 253-279 when they are set; there is no default
  limit, so this is an assumption about the model at the other end. A parent
  answers or the run's signal ends the wait.
- `ProcessRun!FairSpec`: the event loop of a parent that is up serves its promises,
  timers and events; the broker answers or the connection is lost (both settle the
  promise); SIGKILL ends a process; a child runs its handlers. No fairness for calls
  of users, the broker's writes, dialogs, or a child that ends by itself.
- `ProcessResult!FairSpec`: both event loops run: frames are read, promises continue,
  a pass that began goes on. No timer has to fire, nothing has to be published and no
  prompt to be verified.
- `NFairSpec`: each timer that is set fires; a promise that is settled continues.

## Proofs

Theorems hold for all values of the constants under the named assumptions
(`BrokerAssumption`, `GroupAssumption`, `ManagerAssumption`: finite sets of
agents and envelopes, positive limits; `ClientAssumption`: limits are numbers, and an
agent gives an identifier to one envelope, since `randomUUID()` makes it;
`NotificationAssumption`: agents with join mode "async" are background agents;
`RunAssumption`: the run's own cleanup is none
of its callers; `ResultAssumption`, `WorktreeAssumption`: bounds are numbers, and an
agent is no number, since numbers stand for the parent's own versions of a file).
Each module proves one invariant by induction and reads its theorems off it.

- `MessageBroker_proofs`: `BrokerTypes`; then the invariant `BrokerInv`: the
  table's budget, both ends of open requests connected, incarnations of their
  senders current, no two records of one key, no sender above its limit. They
  need each other: an accepted reply adds a record, and the budget survives only
  because it also ends an open request, whose correlation is looked up among the
  records. `BudgetHolds`, `OpenRequestsSound`, `OpenRequestsCurrentAlways`,
  `TablesSound` are its parts.
  `TerminalNeverRefused` follows from the budget: a terminal envelope requires no
  slot of its own.
- `Messaging_proofs`: two clients, their sockets and the broker. `MSound` adds to types
  and `BrokerInv` what a frame may be and where (`Addressed`, `NetOK`), and that a closed
  broker has nothing open. With it every step of the composition is a step of the broker
  or none (`ImplementsBroker`), so the broker's theorems hold under real clients.
  `CurrentInComposition` says what that means for an open request: its sender is the
  incarnation that asked it, and while it is open no step gives either end a new one,
  because a new incarnation is let in only when the old connection is gone, and that
  closes what was open. `Truth` says that what is on its way is so: an envelope in a
  socket was sent, a reply was made by an application that took its request, a receipt
  was earned; none of these is inductive alone, because a frame becomes a record, the
  record a frame and the frame an entry of an inbox. `ReceiptsHonest` is part of it, and
  with it each step is one of `RequestReply` (`ImplementsRequestReply`).
  `WaitsJustified` needs more: a request is sent once and is not on record
  before (`SentOnce`), or the broker would take a new call for a duplicate of an old one
  and say nothing; and a client without a connection has no call (`Quiet`). `Justified`
  then follows a call through socket, record and error frame. `DeliveriesOnce` is proved
  of `PromptSpec`, where no dedupe time passes: what was passed on stays on record
  (`Fresh`).
- `DelegationGroup_proofs`: `GroupInv` adds to types and limits that bindings of
  members narrow from their parents, that every capability the broker accepts is
  a member's for its current incarnation, and that a run that was taken over is
  its member's current incarnation; without the last, a new incarnation could
  leave the freeze behind.
  `GroupLimitHolds`, `AuthoritySound` and `OneIncarnationSpeaks` are parts of it;
  `TakeoverFreezes` is an action property that follows step by step.
- `AgentManager_proofs`: `ManagerInv` connects queue, statuses and executions: a
  queued agent has no execution, an execution belongs to a spawned agent, a
  session and a resume to an agent that was started, a slot to an execution. It is needed because `drainQueue()` chooses by
  status and counts slots: only then does starting k agents raise the counter by
  exactly k. The drain itself is a lemma used by spawn, settle and the limit's
  change. `SlotsCounted`, `QueueHonest`, `NoIdleSlot`, `LimitRespected` follow.
  Worktrees need one more invariant on top of it: `OwnersSound`, whose work a worktree
  may hold, and for each agent `Kept`, that one execution, resume or cleanup at most is
  in it and that its status tells so. `WorktreeOwnedAlways` and `RunningIsRealAlways`.
- `Notifications_proofs`: every step of a session is one of its manager or none
  (`ImplementsManager`), so `ManagerInv` holds. On top of it, `QueuedOpen` (who is queued
  has not completed), `GroupsSound` (the two tables of `group-join.ts` agree; an open
  group waits for somebody and has its timer exactly when it holds a completion) and
  `Announced`: the announcement of an agent is in one place, and nowhere before its run
  and its batch are over. That last part is what makes it inductive: an end of a run
  places an announcement, and there is none yet because the run went on until then.
  `NothingHeldForEver`, `AnnouncedOnceOnly`, `AnnouncedIdle`.
- `ProcessRun_proofs`: `RunInv`. That the slot of a process that lives is held is not
  inductive: whether it may be given back is decided in one step and done in a later
  one. `ReleaseSound` says that whoever is about to ask for it has seen the process
  end, and `ProgressSound` how far `execute()` has come by then; a process that ended
  never lives again. `StopSound` says what must have happened before the end of a run
  is on record (its connection failed, its parent was disposed of, died, or has
  stopped using the connection), and each writer of an active phase excludes all of
  these. `SlotHeldAlways`, `CompletedHonestAlways` and `OverStaysOverAlways` follow;
  `OwnershipRefined` proves the refinement of `ProcessOwnership`: every step is one of
  its five (`Owned`) or a stutter.
- `ProcessResult_proofs`: `ResultInv` follows a hand-off through its stages
  (`HandOffSound`): a "received" the parent has not read was sent as the third message of
  `publish()`, the ledger has noted it, the prompt was told, its caller returned. It adds
  that the deferred and the failure of a prompt agree (`SettledNamed`) and that the
  session file has no entry that the session's memory does not have (`EntryKept`).
  `HandedOverAlways`, `EntryOnceAlways`, `OutcomeNamedAlways`.
- `Worktree_proofs`: `WorktreeInv` is what each stage of an integration knows:
  `StageSound` which files it has replaced so far, `BytesSound` that bytes of an agent
  in the parent checkout are accounted for by its integration, `FoundSound` that what it
  found before is the snapshot's or the agent's version; `RemovalSound` says what the
  stages of a cleanup have seen of commits. `FailedLeavesNothingAlways`,
  `CommitsKeptAlways`, and the action property `ForeignKeptAlways`.
  For snapshots, `TraceSound` says that no capture has read what is still to be written,
  an edit or the bytes of a child (these go into a file once: `OrderSound`), and
  `MomentSound` names the moment of which all captures of a snapshot agree: the checkout
  when the last capture began. A file that had changed by then never is again what the
  capture before has read, so the comparison finds it. `SnapshotConsistentAlways`.

All type invariants, safety invariants and action properties of the passing runs are
proved, and both refinements. Only model-checked is liveness (`CallsSettle`,
`CompletionAnnounced`, `QueuedStarts`, `OrphanEnds`, `FailureSettles`,
`DeliveredSettles`): fairness is outside the prover's logic.

What the proofs changed in the models. The refinement of `RequestReply` failed on a step
that no small instance met: a client takes a frame, loses its connection by that step,
and all its other calls fail with it (`lost`). A client that used an identifier twice
could have calls that wait in vain, since the broker takes the second for a retry of the
first; hence `ClientAssumption`. `SnapshotConsistent` was stated for any rollback, and
excepts the captures that meet one (`rolled`): a call of the integration tool that was
rolled back may be repeated, its bytes then come and go between the reads of every
capture, and a base that never existed is taken for a snapshot. This is the "ABA change
between reads" that `docs/worktrees.md:114` says cannot be excluded. The model, with one
integration per agent, does not reach it; the theorem says that without a rollback
nothing else is needed.

## Findings

1. `request_help` (`index.ts:1631`): a second call before the first is answered
   replaces its resolver. The first promise can never be resolved
   (`MCAgentManager_help`). It takes two tool calls in one turn.
2. The managed-state query (`index.ts:689`) does not see completions a group
   holds. With a member stopped in the queue, a child session can publish its
   result up to 30 seconds before such a completion is announced, which
   `docs/process-delegation.md:107` excludes (`MCNotifications_parent`).

Met on the way, and kept out of the properties that hold:

- An agent stopped, or whose worktree is being inspected, when its batch is
  finalized has a `completedAt` already; it is announced then and once more when
  its run is over. `AnnouncedOnce` excepts these agents (`early`).
- An agent resumed between its end and the finalizing of its batch has its
  `completedAt` cleared and is not announced at all; the caller of the resume gets
  its result. `MCNotifications_eventually` has no resumes for that reason.
- Without a worktree, the late end of a stopped execution overwrites the status
  of the resumed one. `RunningIsReal` still holds.
- A takeover that arrives while a run starts or prompts does not stop it: the run
  still prompts and still writes "running" or "cleanup-pending" into the record the
  user owns (`process-runner.ts` 692, 705), and is left only when it fails.
- A process that is lost after its run returned ("result-pending", "cleanup-error")
  leaves its slot taken: nothing releases it. `SlotHeld` is the safe direction.
- The catch of `cleanup()` clears `stopping`, so that a later exit turns
  "cleanup-error" into "lost"; of two concurrent cleanups one may end "completed" and
  the other then write "cleanup-error"; a cleanup beside an abort turns "stopped" into
  "completed". `OverStaysOver` allows changes among states that are over.
- `abort()` that finds the record locked leaves `stopping` set without closing.
- A bind that is refused, or a parent lost before it, leaves a child without proof of
  ownership; it holds. `OrphanEnds` names this exception.
- The child may be woken after its result was handed over. Its next agent_start then
  ends the connection of a run that has returned, which becomes "lost".
- One failed wake of the parent's own session makes the collector refuse every later
  wait with RESULT_DELIVERY_FAILED although the pump works. `OutcomeNamed` allows it:
  `channel # "up" \/ refuses`.
- After `close()` a new wait is not refused: without a result it ends with its timer, as
  a time limit.
- A result whose ingestion failed is not tried again by the code; a torn line in the
  session file fails every later ingestion.
- `cleanup_subagent_worktree` inspects HEAD and status before its awaits and asks only
  whether the agent is active just before git runs. An agent that is resumed, commits
  and ends in between loses the worktree of that commit, although the tool "Refuses
  uncommitted files and commits not reachable from cwd HEAD" (`index.ts:1451`).
  `CommitsKept` has exactly this exception (`reran`).
- A reset of the parent between the ancestry check (`worktree.ts:196`) and git's removal
  lets a worktree go whose commits HEAD no longer reaches. The parent's history had them;
  that is what `CommitsKept` promises.

## Not modelled

- What the manager and `control_subagent_process` do for agents of the RPC runner:
  a status derived from the phase that `ProcessRun` has, and refusals by it.
- Refinement of the processes as one system: the broker of `MessageBroker`, the
  records of `DelegationGroup` and the runs of `ProcessRun` are three models of what
  they share, each with the others as an environment that does more than they do. Their
  product is far beyond what can be enumerated.

Out of scope: rendering, settings, agent definitions, profile validation and
protection capture (sequential, no shared state), git and the host SDK.
