------------------------------ MODULE ProcessRun ------------------------------
(***************************************************************************)
(* One run of a child process: the parent's runner (src/process-runner.ts),*)
(* its RPC connection (src/process-rpc.ts: close, signals, failure), the   *)
(* record both ends and the broker write (src/process-lifecycle.ts) and    *)
(* the child's side (src/process-child.ts: parent_exiting, disconnect).    *)
(*                                                                         *)
(* The parent is one thread: its actions are what it does between two      *)
(* awaits, and a rejected or resolved promise is handled before any other  *)
(* event (Due).  The child and the broker run beside it; the child's write *)
(* of the record is two steps with the lock held in between.  What the     *)
(* model asks of the operating system it decides in one step with what it  *)
(* does with the answer, as the code does without an await.                *)
(***************************************************************************)
EXTENDS FiniteSets

CONSTANTS
  Caller,  \* concurrent takeover, abort and cleanup calls
  Self     \* the cleanup that the run itself starts

ASSUME RunAssumption == Self \notin Caller

VARIABLES
  \* the record on disk
  phase, bound, taken, lock,
  \* the child: operating system process, its code, its write under way,
  \* a parent_exiting message it has not read
  proc, child, write, told,
  \* ProcessRpc: failure, stop timers, stopRefused, signals sent
  failed, stop, refused, sent,
  \* runs.get(processId) and the promise chain of execute()
  main, error, handle, stopping, tracked, result, call,
  \* the group's slot, the parent's disposal and the parent itself
  slot, disposal, parent

recordVars == <<phase, bound, taken, lock>>
childVars == <<proc, child, write, told>>
rpcVars == <<failed, stop, refused, sent>>
runVars == <<main, error, handle, stopping, tracked, result>>
hostVars == <<slot, disposal, parent>>
vars == <<recordVars, childVars, rpcVars, runVars, call, hostVars>>

Call == Caller \cup {Self}
Phase == {"none", "starting", "running", "question", "result-pending", "cleanup-pending",
          "cleanup-error", "completed", "stopped", "lost", "uncertain", "detached"}
Removable == {"cleanup-pending", "cleanup-error", "result-pending"}

Init ==
  /\ phase = "none" /\ bound = FALSE /\ taken = FALSE /\ lock = "none"
  /\ proc = "none" /\ child = "booting" /\ write = "none" /\ told = FALSE
  /\ failed = "no" /\ stop = "no" /\ refused = FALSE /\ sent = {}
  /\ main = "registering" /\ error = "none" /\ handle = "unbound"
  /\ stopping = FALSE /\ tracked = FALSE /\ result = "none"
  /\ call = [c \in Call |-> "idle"]
  /\ slot = TRUE /\ disposal = "no" /\ parent = "up"

-----------------------------------------------------------------------------
(* What the parent knows and may do. *)

\* ProcessRpc.alive: the exit was not seen.  A zombie has no OS identity any more.
Alive == proc \in {"alive", "zombie"}

\* What an up-to-date handle looks like, and whether the run's own one is exact.
View == IF ~bound THEN "unbound" ELSE IF taken THEN "taken" ELSE "bound"
Proven == handle = View

\* Variant: the handle in memory is trusted.
AuthorizedByHandle == proc # "zombie" /\ handle = "bound"

\* authorize() and beforeMutation(), which need the pid in the record.
Authorized == proc # "zombie" /\ Proven /\ View = "bound"

\* An exclusive lock file nobody holds; registry.update(handle) wants both.
Writable == lock = "none"
MayUpdate == Proven /\ Writable

\* stopOwned(): cooperative abort and the first timer, or a refusal.
StopOwned ==
  \/ /\ stop # "no" \/ ~Alive
     /\ UNCHANGED <<stop, refused, sent>>
  \/ /\ stop = "no" /\ Alive /\ Authorized
     /\ stop' = "armed"
     /\ sent' = IF main = "prompting" THEN sent \cup {"abort"} ELSE sent
     /\ UNCHANGED refused
  \/ /\ stop = "no" /\ Alive /\ ~Authorized
     /\ refused' = TRUE
     /\ UNCHANGED <<stop, sent>>

\* The first failure stays; it rejects every pending promise.
Fail(code) ==
  \/ failed # "no" /\ UNCHANGED rpcVars
  \/ failed = "no" /\ failed' = code /\ StopOwned

CancelTimers == stop' = IF stop \in {"armed", "termed"} THEN "cancelled" ELSE stop
Detach == CancelTimers /\ UNCHANGED <<failed, refused, sent>>

\* close() up to its await; without authority it returns at once.
Close ==
  \/ Authorized /\ failed' = (IF failed = "no" THEN "other" ELSE failed) /\ StopOwned
  \/ ~Authorized /\ Detach

\* close() after its await: the process is closed, the stop was refused, or three
\* seconds passed, by which both timers have fired unless they were cancelled.
Deadline == stop \in {"killed", "cancelled"} \/ ~Alive
CloseReturns == proc = "closed" \/ refused \/ (Deadline /\ ~Alive)
CloseRejects == Deadline /\ Alive

\* Rejections and resolutions that are handled before the next event.
Failing == main = "threw" \/ (main = "prompting" /\ failed # "no")
Due == Failing \/ main \in {"tidying", "finally"} \/ (main = "cleaning" /\ call[Self] = "idle")
Idle == parent = "up" /\ ~Due

-----------------------------------------------------------------------------
(* execute() and run(). *)

\* register-process, update(delivery), runs.set() and spawn.
Register ==
  /\ Idle
  /\ main = "registering"
  /\ disposal # "closed"
  /\ phase' = "starting" /\ proc' = "alive" /\ tracked' = TRUE /\ main' = "binding"
  /\ UNCHANGED <<bound, taken, lock, child, write, told, rpcVars, error, handle, stopping, result,
                 call, hostVars>>
RegisterFails ==
  /\ Idle
  /\ main = "registering"
  /\ phase' \in {"none", "starting"} /\ main' = "releasing"
  /\ UNCHANGED <<bound, taken, lock, childVars, rpcVars, error, handle, stopping, tracked, result,
                 call, hostVars>>

\* bind-process at the broker, then its answer.
BindProcess ==
  /\ main = "binding" /\ ~bound /\ proc = "alive" /\ Writable
  /\ bound' = TRUE
  /\ UNCHANGED <<phase, taken, lock, childVars, rpcVars, runVars, call, hostVars>>
BindReply ==
  /\ Idle
  /\ main = "binding" /\ bound /\ disposal # "closed"
  /\ handle' = "bound" /\ main' = "readying"
  /\ UNCHANGED <<recordVars, childVars, rpcVars, error, stopping, tracked, result, call, hostVars>>
\* The handle without a pid authorizes nothing, so the close detaches and returns.
BindFails ==
  /\ Idle
  /\ main = "binding"
  /\ error' = "stopped" /\ main' = "threw"
  /\ Detach
  /\ UNCHANGED <<recordVars, childVars, handle, stopping, tracked, result, call, hostVars>>

\* capture() refuses once the parent was disposed of.
Capturable == disposal = "no"

\* Variant: a connection that failed meanwhile is used.
ReadyAnyway ==
  /\ Idle
  /\ main = "readying" /\ child = "serving"
  /\ IF MayUpdate THEN phase' = "running" /\ main' = "prompting" /\ UNCHANGED error
                  ELSE error' = "uncertain" /\ main' = "threw" /\ UNCHANGED phase
  /\ UNCHANGED <<bound, taken, lock, childVars, rpcVars, handle, stopping, tracked, result, call,
                 hostVars>>

\* verifyReady() captures the parent again, which a disposed one refuses.
Ready ==
  /\ Idle
  /\ main = "readying" /\ child = "serving"
  /\ failed = "no" /\ Capturable
  /\ \/ MayUpdate /\ phase' = "running" /\ main' = "prompting" /\ UNCHANGED error
     \/ ~MayUpdate /\ error' = "uncertain" /\ main' = "threw" /\ UNCHANGED phase
  /\ UNCHANGED <<bound, taken, lock, childVars, rpcVars, handle, stopping, tracked, result, call,
                 hostVars>>

\* ProcessRpc.start() rejects, on a failure, a refused proof or its timeout.
StartFails ==
  /\ Idle
  /\ main = "readying"
  /\ Close
  /\ error' = IF failed = "exited" THEN "lost" ELSE "stopped"
  /\ main' = IF Authorized THEN "start-closing" ELSE "threw"
  /\ UNCHANGED <<recordVars, childVars, handle, stopping, tracked, result, call, hostVars>>
StartClosed ==
  /\ Idle
  /\ main = "start-closing"
  /\ \/ CloseReturns /\ UNCHANGED error
     \/ CloseRejects /\ error' = "stopped"
  /\ main' = "threw"
  /\ UNCHANGED <<recordVars, childVars, rpcVars, handle, stopping, tracked, result, call, hostVars>>

\* A limit, an abort signal, a protocol or provider failure ends the connection: that of
\* a prompt, and with an event nobody asked for also that of a run which has returned.
ConnectionFails ==
  /\ Idle
  /\ proc \notin {"none", "closed"}
  /\ Fail("other")
  /\ UNCHANGED <<recordVars, childVars, runVars, call, hostVars>>

\* The result was handed over; it is ingested unless the session could not be written.  A
\* later frame of the same chunk may have failed the connection before the promise goes on.
HandOff ==
  /\ Idle
  /\ main = "prompting" /\ failed = "no" /\ Capturable
  /\ result' \in {"received", "ingested"}
  /\ \/ /\ MayUpdate
        /\ phase' = IF result' = "ingested" THEN "cleanup-pending" ELSE "result-pending"
        /\ main' = IF result' = "ingested" THEN "tidying" ELSE "finally"
        /\ UNCHANGED error
     \/ ~MayUpdate /\ error' = "uncertain" /\ main' = "threw" /\ UNCHANGED phase
  /\ UNCHANGED rpcVars \/ Fail("other")
  /\ UNCHANGED <<bound, taken, lock, childVars, handle, stopping, tracked, call, hostVars>>

\* The catch of run(): a run that was taken over, or whose identity is not proven, is left.
CatchLeaves ==
  /\ parent = "up"
  /\ Failing
  /\ ~Proven \/ View = "taken" \/ phase = "cleanup-error"
  /\ main' = "finally" /\ tracked' = FALSE
  /\ IF Proven THEN UNCHANGED rpcVars ELSE Detach
  /\ UNCHANGED <<recordVars, childVars, error, handle, stopping, result, call, hostVars>>
CatchStops ==
  /\ parent = "up"
  /\ Failing
  /\ Proven /\ View # "taken" /\ phase # "cleanup-error"
  /\ stopping' = TRUE
  /\ \/ /\ Writable
        /\ phase' = IF main = "threw" THEN error ELSE IF failed = "exited" THEN "lost" ELSE "stopped"
        /\ Close
        /\ main' = IF Authorized THEN "catch-closing" ELSE "finally"
     \/ /\ ~Writable
        /\ Detach
        /\ main' = "finally"
        /\ UNCHANGED phase
  /\ tracked' = (tracked /\ main' = "catch-closing")
  /\ UNCHANGED <<bound, taken, lock, childVars, error, handle, result, call, hostVars>>
CatchClosed ==
  /\ Idle
  /\ main = "catch-closing"
  /\ \/ CloseReturns /\ UNCHANGED rpcVars
     \/ CloseRejects /\ Detach
  /\ main' = "finally" /\ tracked' = FALSE
  /\ UNCHANGED <<recordVars, childVars, error, handle, stopping, result, call, hostVars>>

\* Variant: the slot is released while the process lives.
FinallyAlive ==
  /\ parent = "up"
  /\ main = "finally"
  /\ main' = IF ~taken /\ (handle = "unbound") = ~bound THEN "releasing" ELSE "done"
  /\ UNCHANGED <<recordVars, childVars, rpcVars, error, handle, stopping, tracked, result, call,
                 hostVars>>

\* The finally of execute(): registry.read() refuses a handle without the pid.
Finally ==
  /\ parent = "up"
  /\ main = "finally"
  /\ main' = IF ~Alive /\ ~taken /\ (handle = "unbound") = ~bound THEN "releasing" ELSE "done"
  /\ UNCHANGED <<recordVars, childVars, rpcVars, error, handle, stopping, tracked, result, call,
                 hostVars>>

\* The broker refuses a release for a run that was taken over.
Releases == slot' = (slot /\ (taken \/ disposal = "closed"))
MainReleases ==
  /\ Idle
  /\ main = "releasing"
  /\ main' = "done"
  /\ Releases \/ UNCHANGED slot
  /\ UNCHANGED <<recordVars, childVars, rpcVars, error, handle, stopping, tracked, result, call,
                 disposal, parent>>

\* process_dialog_pending and _finished: a stale handle fails the connection.
Dialog ==
  /\ Idle
  /\ main \in {"readying", "prompting"} /\ failed = "no" /\ child = "serving"
  /\ LET shows == View # "taken" /\ ~stopping /\ phase \in {"starting", "running", "question"}
     IN
     \/ /\ Proven /\ shows /\ Writable
        /\ phase' = IF phase = "question" THEN "running" ELSE "question"
        /\ UNCHANGED rpcVars
     \/ /\ ~Proven \/ (shows /\ ~Writable)
        /\ Fail("other")
        /\ UNCHANGED phase
  /\ UNCHANGED <<bound, taken, lock, childVars, runVars, call, hostVars>>

-----------------------------------------------------------------------------
(* takeover(), abort() and cleanup(). *)

Become(c, s) == call' = [call EXCEPT ![c] = s]

TakeoverSend(c) ==
  /\ Idle
  /\ call[c] = "idle"
  /\ Alive /\ Proven /\ View = "bound"
  /\ Become(c, "taking")
  /\ UNCHANGED <<recordVars, childVars, rpcVars, runVars, hostVars>>

\* The broker reads the request, perhaps when the parent is gone.
BrokerTakes(c) ==
  /\ call[c] = "taking"
  /\ bound /\ ~taken /\ proc = "alive" /\ Writable /\ disposal # "closed"
  /\ taken' = TRUE /\ phase' = "detached"
  /\ Become(c, "taken")
  /\ UNCHANGED <<bound, lock, childVars, rpcVars, runVars, hostVars>>
TakeoverReply(c) ==
  /\ Idle
  /\ call[c] = "taken"
  /\ handle' = "taken"
  /\ Become(c, "idle")
  /\ UNCHANGED <<recordVars, childVars, rpcVars, main, error, stopping, tracked, result, hostVars>>
\* Refused, or the answer is lost.
TakeoverFails(c) ==
  /\ Idle
  /\ call[c] \in {"taking", "taken"}
  /\ Become(c, "idle")
  /\ UNCHANGED <<recordVars, childVars, rpcVars, runVars, hostVars>>

Abort(c) ==
  /\ Idle
  /\ call[c] = "idle"
  /\ Alive /\ Authorized
  /\ stopping' = TRUE
  /\ \/ Writable /\ phase' = "stopped" /\ Close /\ Become(c, "aborting")
     \/ ~Writable /\ UNCHANGED <<phase, rpcVars, call>>
  /\ UNCHANGED <<bound, taken, lock, childVars, main, error, handle, tracked, result, hostVars>>
AbortClosed(c) ==
  /\ Idle
  /\ call[c] = "aborting"
  /\ CloseReturns \/ CloseRejects
  /\ Become(c, IF Alive THEN "idle" ELSE "abort-releasing")
  /\ UNCHANGED <<recordVars, childVars, rpcVars, runVars, hostVars>>
\* The broker refuses, or it releases, and its answer may be lost.
AbortReleases(c) ==
  /\ Idle
  /\ call[c] = "abort-releasing"
  /\ Become(c, "idle")
  /\ \/ ~taken /\ disposal # "closed" /\ Releases /\ tracked' \in {FALSE, tracked}
     \/ UNCHANGED <<slot, tracked>>
  /\ UNCHANGED <<recordVars, childVars, rpcVars, main, error, handle, stopping, result, disposal,
                 parent>>

\* Variant: the result is not checked again.
IngestedUnchecked == TRUE
Ingested == result = "ingested"

\* The catch of cleanup().
CleanupError(c) ==
  /\ stopping' = FALSE
  /\ phase' = IF View = "bound" /\ Writable THEN "cleanup-error" ELSE phase
  /\ Become(c, "idle")

MayClean == Authorized /\ phase \in Removable
CleanupStarts(c) ==
  /\ call[c] = "idle"
  /\ MayClean
  /\ \/ /\ Ingested /\ Writable
        /\ phase' = "cleanup-pending" /\ stopping' = TRUE
        /\ Close
        /\ Become(c, "cleaning")
     \/ /\ ~Ingested \/ ~Writable
        /\ CleanupError(c)
        /\ UNCHANGED rpcVars
  /\ UNCHANGED <<bound, taken, lock, childVars, error, handle, tracked, result, hostVars>>
Cleanup(c) == Idle /\ CleanupStarts(c) /\ UNCHANGED main

\* The run's own cleanup: its error is swallowed.
Tidy ==
  /\ parent = "up"
  /\ main = "tidying"
  /\ \/ CleanupStarts(Self) /\ main' = IF call'[Self] = "idle" THEN "finally" ELSE "cleaning"
     \/ ~MayClean /\ main' = "finally"
        /\ UNCHANGED <<recordVars, childVars, rpcVars, error, handle, stopping, tracked, result,
                       call, hostVars>>
Tidied ==
  /\ parent = "up"
  /\ main = "cleaning" /\ call[Self] = "idle"
  /\ main' = "finally"
  /\ UNCHANGED <<recordVars, childVars, rpcVars, error, handle, stopping, tracked, result, call,
                 hostVars>>

CleanupClosed(c) ==
  /\ Idle
  /\ call[c] = "cleaning"
  /\ CloseReturns /\ ~Alive
  /\ Become(c, "releasing")
  /\ UNCHANGED <<recordVars, childVars, rpcVars, runVars, hostVars>>
\* The release, whose answer may be lost.
CleanupReleases(c) ==
  /\ Idle
  /\ call[c] = "releasing"
  /\ ~taken /\ disposal # "closed"
  /\ Releases
  /\ \/ Become(c, "released") /\ UNCHANGED <<phase, stopping>>
     \/ CleanupError(c)
  /\ UNCHANGED <<bound, taken, lock, childVars, rpcVars, main, error, handle, tracked, result,
                 disposal, parent>>
CleanupDone(c) ==
  /\ Idle
  /\ call[c] = "released"
  /\ View = "bound" /\ Writable
  /\ phase' = "completed" /\ tracked' = FALSE
  /\ Become(c, "idle")
  /\ UNCHANGED <<bound, taken, lock, childVars, rpcVars, main, error, handle, stopping, result,
                 hostVars>>
\* A process that lives, a session file that lost the entry, a refused release or a lock.
CleanupFails(c) ==
  /\ Idle
  /\ \/ call[c] = "cleaning" /\ (CloseReturns \/ CloseRejects)
     \/ call[c] = "releasing"
     \/ call[c] = "released" /\ ~(View = "bound" /\ Writable)
  /\ CleanupError(c)
  /\ UNCHANGED <<bound, taken, lock, childVars, rpcVars, main, error, handle, tracked, result,
                 hostVars>>

-----------------------------------------------------------------------------
(* Timers and the end of the process, as the parent sees them. *)

\* Variant: a timer that may not signal is only cancelled.
TermTimerSilent ==
  /\ Idle
  /\ stop = "armed" /\ Alive
  /\ IF Authorized THEN stop' = "termed" /\ sent' = sent \cup {"term"} /\ UNCHANGED refused
                   ELSE UNCHANGED <<stop, refused, sent>>
  /\ UNCHANGED <<recordVars, childVars, failed, runVars, call, hostVars>>

TermTimer ==
  /\ Idle
  /\ stop = "armed" /\ Alive
  /\ \/ Authorized /\ stop' = "termed" /\ sent' = sent \cup {"term"} /\ UNCHANGED refused
     \/ ~Authorized /\ stop' = "cancelled" /\ refused' = TRUE /\ UNCHANGED sent
  /\ UNCHANGED <<recordVars, childVars, failed, runVars, call, hostVars>>
KillTimer ==
  /\ Idle
  /\ stop = "termed" /\ Alive
  /\ \/ Authorized /\ stop' = "killed" /\ sent' = sent \cup {"kill"} /\ UNCHANGED refused
     \/ ~Authorized /\ stop' = "cancelled" /\ refused' = TRUE /\ UNCHANGED sent
  /\ UNCHANGED <<recordVars, childVars, failed, runVars, call, hostVars>>

ExitSeen ==
  /\ Idle
  /\ proc = "zombie"
  /\ proc' = "exited"
  /\ UNCHANGED <<recordVars, child, write, told, rpcVars, runVars, call, hostVars>>

\* "close": the failure, then onExit().
CloseSeen ==
  /\ Idle
  /\ proc = "exited"
  /\ proc' = "closed"
  /\ \E code \in {"exited", "other"} : Fail(code)
  /\ phase' = IF ~stopping /\ MayUpdate /\ View # "taken" THEN "lost" ELSE phase
  /\ UNCHANGED <<bound, taken, lock, child, write, told, runVars, call, hostVars>>

-----------------------------------------------------------------------------
(* The end of the parent. *)

\* The loop of the disposal over the runs; completed and ended ones are skipped.
Dispose ==
  /\ Idle
  /\ disposal = "no"
  /\ disposal' = "closing"
  /\ LET seen == main # "registering" /\ phase # "completed" /\ Alive
         mine == seen /\ ~taken /\ MayUpdate
         given == seen /\ ~mine
         halted == given /\ stop \in {"armed", "termed"}
     IN
     /\ phase' = IF mine THEN "stopped" ELSE phase
     /\ stopping' = (stopping \/ mine)
     /\ told' = (told \/ (mine /\ Authorized /\ child # "booting"))
     /\ \/ tracked /\ Authorized /\ ~halted /\ Close
        \/ tracked /\ Authorized /\ halted /\ Detach
        \/ /\ ~(tracked /\ Authorized)
           /\ failed' = IF main = "prompting" /\ failed = "no" THEN "other" ELSE failed
           /\ refused' = (refused \/ (main = "prompting" /\ failed = "no" /\ stop = "no" /\ Alive))
           /\ IF tracked \/ given THEN CancelTimers ELSE UNCHANGED stop
           /\ UNCHANGED sent
  /\ UNCHANGED <<bound, taken, lock, proc, child, write, main, error, handle, tracked, result, call,
                 slot, parent>>

\* Every tracked process was closed or given up: connection and broker close.
Disposed ==
  /\ Idle
  /\ disposal = "closing"
  /\ ~tracked \/ CloseReturns \/ CloseRejects \/ ~Authorized
  /\ disposal' = "closed"
  /\ UNCHANGED <<recordVars, childVars, rpcVars, runVars, call, slot, parent>>

\* In order, or by a crash, which may leave the lock file behind.  The memory of the
\* parent is gone; what it sent to the broker is not.
ParentGone ==
  /\ parent = "up"
  /\ parent' = "gone"
  /\ lock' \in IF Writable /\ disposal # "closed" THEN {"none", "orphan"} ELSE {lock}
  /\ failed' = "no" /\ stop' = "no" /\ refused' = FALSE
  /\ main' = IF main = "binding" THEN main ELSE "done"
  /\ error' = "none" /\ handle' = "unbound" /\ stopping' = FALSE /\ tracked' = FALSE
  /\ call' = [c \in Call |-> IF call[c] = "taking" THEN "taking" ELSE "idle"]
  /\ UNCHANGED <<phase, bound, taken, childVars, sent, result, slot, disposal>>

-----------------------------------------------------------------------------
(* The child. *)

\* ownsCurrentRun(): its own handle has the pid.
Owns == bound /\ ~taken

Boot ==
  /\ parent = "up" /\ proc = "alive" /\ child = "booting"
  /\ child' = "serving"
  /\ UNCHANGED <<recordVars, proc, write, told, rpcVars, runVars, call, hostVars>>

\* update(): the lock, and below the record.
Writes(w) == lock = "none" /\ lock' = "child" /\ write' = w

HearsExit ==
  /\ proc = "alive" /\ child = "serving" /\ told
  /\ told' = FALSE
  /\ \/ Owns /\ Writes("told")
     \/ UNCHANGED <<lock, write>>
  /\ UNCHANGED <<phase, bound, taken, proc, child, rpcVars, runVars, call, hostVars>>

\* Variant: an update that fails is ignored.
DisconnectStays ==
  /\ proc = "alive" /\ child = "serving" /\ parent = "gone" /\ write = "none" /\ ~told
  /\ \/ bound /\ Writes(IF taken THEN "kept" ELSE "gone") /\ child' = "disconnected"
     \/ (~bound \/ taken \/ ~Writable) /\ UNCHANGED <<child, lock, write>>
  /\ UNCHANGED <<phase, bound, taken, proc, told, rpcVars, runVars, call, hostVars>>

\* The IPC channel is gone.  Without proof of ownership the process holds.
Disconnect ==
  /\ proc = "alive" /\ child = "serving" /\ parent = "gone" /\ write = "none" /\ ~told
  /\ \/ bound /\ Writes(IF taken THEN "kept" ELSE "gone") /\ child' = "disconnected"
     \/ (~bound \/ taken \/ ~Writable) /\ child' = "holding" /\ UNCHANGED <<lock, write>>
  /\ UNCHANGED <<phase, bound, taken, proc, told, rpcVars, runVars, call, hostVars>>

\* Variant: the lock file is not unlinked.
ChildWritesLocked ==
  /\ proc = "alive" /\ lock = "child"
  /\ phase' = IF write = "kept" THEN "detached" ELSE "stopped"
  /\ child' = CASE write = "gone" -> "leaving" [] write = "kept" -> "holding" [] OTHER -> child
  /\ write' = "none"
  /\ UNCHANGED <<bound, taken, lock, proc, told, rpcVars, runVars, call, hostVars>>

ChildWrites ==
  /\ proc = "alive" /\ lock = "child"
  /\ phase' = IF write = "kept" THEN "detached" ELSE "stopped"
  /\ child' = CASE write = "gone" -> "leaving" [] write = "kept" -> "holding" [] OTHER -> child
  /\ lock' = "none" /\ write' = "none"
  /\ UNCHANGED <<bound, taken, proc, told, rpcVars, runVars, call, hostVars>>

\* A process that ends leaves the lock file it holds.
Ends == proc' = "zombie" /\ lock' = IF lock = "child" THEN "orphan" ELSE lock

\* Aborted and disposed of, or at its own deadline.
Leave ==
  /\ proc = "alive" /\ child = "leaving"
  /\ \/ Owns /\ Ends /\ UNCHANGED child
     \/ ~Owns /\ child' = "holding" /\ UNCHANGED <<proc, lock>>
  /\ UNCHANGED <<phase, bound, taken, write, told, rpcVars, runVars, call, hostVars>>

\* By itself, by TERM, by KILL or by anybody else's hand.
Dies ==
  /\ proc = "alive"
  /\ Ends
  /\ UNCHANGED <<phase, bound, taken, child, write, told, rpcVars, runVars, call, hostVars>>
Killed == "kill" \in sent /\ Dies

-----------------------------------------------------------------------------
Continue == CatchLeaves \/ CatchStops \/ Tidy \/ Tidied \/ Finally
Answers ==
  \/ Register \/ BindReply \/ BindFails \/ Ready \/ StartFails \/ StartClosed \/ CatchClosed
  \/ MainReleases
CallWork(c) ==
  \/ TakeoverReply(c) \/ TakeoverFails(c) \/ AbortClosed(c) \/ AbortReleases(c)
  \/ CleanupClosed(c) \/ CleanupReleases(c) \/ CleanupDone(c) \/ CleanupFails(c)
Seen == ExitSeen \/ CloseSeen
StopTimers == TermTimer \/ KillTimer
ChildWork == HearsExit \/ Disconnect \/ ChildWrites \/ Leave

Next ==
  \/ RegisterFails \/ ConnectionFails \/ HandOff \/ Dialog
  \/ Continue \/ Answers \/ Seen \/ StopTimers
  \/ \E c \in Caller : TakeoverSend(c) \/ Abort(c) \/ Cleanup(c)
  \/ \E c \in Call : CallWork(c) \/ BrokerTakes(c)
  \/ Dispose \/ Disposed \/ ParentGone
  \/ BindProcess \/ Boot \/ ChildWork \/ Dies

Spec == Init /\ [][Next]_vars

\* The event loop of a parent that is up serves its promises, timers and events; the
\* broker answers or the connection is lost; a kill kills; a child runs its handlers.
Fairness ==
  /\ WF_vars(Continue) /\ WF_vars(Answers) /\ WF_vars(CallWork(Self))
  /\ WF_vars(StopTimers) /\ WF_vars(Seen)
  /\ WF_vars(ChildWork) /\ WF_vars(Killed)
FairSpec == Spec /\ Fairness

-----------------------------------------------------------------------------
(* Properties. *)

TypeOK ==
  /\ phase \in Phase /\ bound \in BOOLEAN /\ taken \in BOOLEAN
  /\ lock \in {"none", "child", "orphan"}
  /\ proc \in {"none", "alive", "zombie", "exited", "closed"}
  /\ child \in {"booting", "serving", "disconnected", "leaving", "holding"}
  /\ write \in {"none", "told", "gone", "kept"}
  /\ told \in BOOLEAN
  /\ failed \in {"no", "exited", "other"}
  /\ stop \in {"no", "armed", "termed", "killed", "cancelled"}
  /\ refused \in BOOLEAN
  /\ sent \subseteq {"abort", "term", "kill"}
  /\ main \in {"registering", "binding", "readying", "start-closing", "prompting", "threw",
               "catch-closing", "tidying", "cleaning", "finally", "releasing", "done"}
  /\ error \in {"none", "stopped", "lost", "uncertain"}
  /\ handle \in {"unbound", "bound", "taken"}
  /\ stopping \in BOOLEAN /\ tracked \in BOOLEAN
  /\ result \in {"none", "received", "ingested"}
  /\ call \in [Call -> {"idle", "taking", "taken", "aborting", "abort-releasing", "cleaning",
                        "releasing", "released"}]
  /\ slot \in BOOLEAN
  /\ disposal \in {"no", "closing", "closed"}
  /\ parent \in {"up", "gone"}
  /\ taken => bound
  /\ bound => proc # "none"
  /\ lock = "child" => write # "none"

\* The place in the group is not given away while the process lives, and never by a
\* parent that lost it, however run(), abort(), cleanup() and takeovers overlap.
SlotHeld == ~slot => ~Alive /\ ~taken

\* "completed" in the record means what docs/process-lifecycle.md says: the result is
\* persisted in the parent's session, and the cleanup of this run's process finished.
CompletedHonest == phase = "completed" => result = "ingested" /\ ~Alive /\ ~slot /\ ~taken

\* The record, the broker, the runner and the child implement an exclusive ownership
\* that changes hands once: nobody signals a process after it was taken over, and only
\* its owner gives up its slot (src/process-lifecycle.ts, src/process-rpc.ts).
Ownership == INSTANCE ProcessOwnership WITH
  Signal <- {"abort", "term", "kill"},
  owner <- IF taken THEN "other" ELSE "parent",
  life <- IF proc = "none" THEN "none" ELSE IF Alive THEN "alive" ELSE "over",
  signals <- sent,
  reserved <- slot
OwnershipSpec == Ownership!Spec

\* A run that is over does not come back: once a stop, a loss or a completion is on
\* record no late answer of the child, dialog or result makes it active again.
Over == {"completed", "stopped", "lost", "uncertain"}
Active == {"starting", "running", "question", "result-pending"}
OverStaysOver ==
  [][(phase \in Over) => (phase' \notin Active)]_vars

\* A managed child does not outlive its parent: it leaves, or holds because it was taken
\* over, was never bound or finds a lock nobody will remove.
OrphanEnds ==
  (parent = "gone" /\ child = "serving" /\ proc = "alive")
    ~> (proc # "alive" \/ (child = "holding" /\ (taken \/ ~bound \/ lock = "orphan")))

\* execute() returns after a failure: no takeover, refusal or stubborn process keeps its
\* caller waiting.
FailureSettles == (failed # "no" /\ parent = "up") ~> (main = "done" \/ parent = "gone")
=============================================================================
