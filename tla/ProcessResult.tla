----------------------------- MODULE ProcessResult -----------------------------
(***************************************************************************)
(* The outcome of a prompt.  ProcessRpc.prompt() (src/process-rpc.ts) waits*)
(* for the child's stdout to end a pass with a final message and for the   *)
(* collector (src/process-communication.ts) to see the result produced,    *)
(* accepted and received over the broker; the ledger                       *)
(* (src/process-results.ts) writes it to the parent's session file.  Two   *)
(* timers with the same budget, two channels without a common order, the   *)
(* exit of the child and the end of the pump race for one outcome.         *)
(*                                                                         *)
(* The parent is one thread: a promise that is settled is served before    *)
(* the next event, except for frames that came in the same chunk.          *)
(***************************************************************************)
EXTENDS Naturals, Sequences

CONSTANTS
  Run,         \* prompts of one parent, each with its process and its result
  MaxTurns,    \* limits.maxTurns
  MaxPasses,   \* passes of a child: its first one and the ones it is woken for
  MaxFrames    \* frames in stdout that the parent has not read (bound of the model)

ASSUME ResultAssumption == MaxTurns \in Nat \ {0} /\ MaxPasses \in Nat /\ MaxFrames \in Nat \ {0}

VARIABLES
  pc,        \* the caller: waitResult(), prompt() and what execute() does with it
  run,       \* ProcessRpc.run: the flags that are set
  turns,     \* its turns
  assistant, \* and its last message
  settled,   \* run.result, the deferred that decides the outcome
  failure,   \* ProcessRpc.failure, the first one stays
  limits,    \* process_limit events emitted
  waiter,    \* the collector's waiter: waiting, resolved or rejected
  status,    \* the ledger's delivery record: the flags that are set
  channel,   \* the pump: up, closing (one more message at most) or ended
  refuses,   \* this.failure is set: later waits are refused
  memory,    \* matching entries in the parent's SessionManager
  disk,      \* and in its session file
  torn,      \* a line of the session file that was written in part
  child,     \* what the child does
  said,      \* its last stop reason
  acked,     \* it acknowledged the prompt
  passes,    \* passes begun
  published, \* messages of publish() sent: the result and two stages
  stdout,    \* frames the parent has not read
  inbox      \* messages the pump has not read

promptVars == <<run, turns, assistant>>
outcomeVars == <<settled, failure, limits>>
rpcVars == <<pc, promptVars, outcomeVars>>
sessionVars == <<memory, disk, torn>>
pumpVars == <<channel, refuses>>
ledgerVars == <<waiter, status, pumpVars, sessionVars>>
childVars == <<child, said, acked, passes, published>>
queueVars == <<stdout, inbox>>
vars == <<rpcVars, ledgerVars, childVars, queueVars>>

Reason == {"none", "tool", "stop", "error"}
Frame == {"ack", "start", "tool", "stop", "error", "end"}
Message == <<"result", "accepted", "received">>
Active == {"verifying", "submitted"}
Flag == {"started", "ended", "acknowledged", "delivered"}

Init ==
  /\ pc = [r \in Run |-> "ready"] /\ run = [r \in Run |-> {}]
  /\ turns = [r \in Run |-> 0] /\ assistant = [r \in Run |-> "none"]
  /\ settled = [r \in Run |-> "pending"] /\ failure = [r \in Run |-> "none"]
  /\ limits = [r \in Run |-> 0]
  /\ waiter = [r \in Run |-> "none"] /\ status = [r \in Run |-> {}]
  /\ channel = "up" /\ refuses = FALSE
  /\ memory = [r \in Run |-> 0] /\ disk = [r \in Run |-> 0] /\ torn = FALSE
  /\ child = [r \in Run |-> "waiting"] /\ said = [r \in Run |-> "none"]
  /\ acked = [r \in Run |-> FALSE]
  /\ passes = [r \in Run |-> 0] /\ published = [r \in Run |-> 0]
  /\ stdout = [r \in Run |-> <<>>] /\ inbox = [r \in Run |-> <<>>]

-----------------------------------------------------------------------------
(* ProcessRpc: one failure, one outcome. *)

\* Promise reactions that run before the next event.
Settling(r) == pc[r] \in Active /\ settled[r] # "pending"
Idle == \A r \in Run : ~Settling(r)

Fail(r, code) ==
  /\ failure' = [failure EXCEPT ![r] = IF @ = "none" THEN code ELSE @]
  /\ settled' = [settled EXCEPT ![r] = IF @ = "pending" /\ failure[r] = "none" THEN code ELSE @]

Over(s) == {"ended", "acknowledged"} \subseteq s

\* Variant: a managed prompt does not wait for the hand-off.
OutcomeUndelivered(s, message) ==
  IF ~Over(s) THEN "pending"
  ELSE IF message = "error" THEN "PROVIDER_FAILED"
  ELSE IF message \in {"none", "tool"} THEN "INCOMPLETE_RESULT"
  ELSE "resolved"

\* complete(), on the flags s and the last message.
Outcome(s, message) ==
  IF ~Over(s) THEN "pending"
  ELSE IF message = "error" THEN "PROVIDER_FAILED"
  ELSE IF message \in {"none", "tool"} THEN "INCOMPLETE_RESULT"
  ELSE IF "delivered" \in s THEN "resolved" ELSE "pending"
Complete(r, flag) ==
  /\ run' = [run EXCEPT ![r] = @ \cup {flag}]
  /\ settled' = [settled EXCEPT ![r] = IF @ = "pending" THEN Outcome(run'[r], assistant[r]) ELSE @]

\* timeLimit(): by the prompt's own timer or by the collector's.
TimeLimit(r) ==
  /\ limits' = [limits EXCEPT ![r] = IF failure[r] = "none" THEN @ + 1 ELSE @]
  /\ Fail(r, "TIME_LIMIT")

\* waitResult() and prompt(), one call after the other.  Only a failure refuses the wait:
\* when close() was called before, nothing but the collector's timer ends it.
Prompt(r) ==
  /\ Idle
  /\ pc[r] = "ready" /\ failure[r] = "none"
  /\ pc' = [pc EXCEPT ![r] = "verifying"]
  /\ IF refuses
     THEN waiter' = [waiter EXCEPT ![r] = "rejected"] /\ Fail(r, "RESULT_DELIVERY_FAILED")
     ELSE waiter' = [waiter EXCEPT ![r] = "waiting"] /\ UNCHANGED <<settled, failure>>
  /\ UNCHANGED <<promptVars, limits, status, pumpVars, sessionVars, childVars, queueVars>>
PromptRefused(r) ==
  /\ Idle
  /\ pc[r] = "ready" /\ failure[r] # "none"
  /\ pc' = [pc EXCEPT ![r] = "threw"]
  /\ UNCHANGED <<promptVars, outcomeVars, ledgerVars, childVars, queueVars>>

\* get_state, inspect and verifyReady() answered, and the prompt was written to stdin.
Submit(r) ==
  /\ Idle
  /\ pc[r] = "verifying"
  /\ pc' = [pc EXCEPT ![r] = "submitted"]
  /\ child' = [child EXCEPT ![r] = IF @ = "waiting" THEN "idle" ELSE @]
  /\ UNCHANGED <<promptVars, outcomeVars, ledgerVars, said, acked, passes, published, queueVars>>

\* A mismatch, an abort signal, a dialog or a write that failed.
OtherFailure(r) ==
  /\ Idle
  /\ pc[r] \in Active \cup {"ready"} /\ failure[r] = "none"
  /\ Fail(r, "OTHER")
  /\ UNCHANGED <<pc, promptVars, limits, ledgerVars, childVars, queueVars>>

RunTimer(r) ==
  /\ Idle
  /\ pc[r] \in Active
  /\ TimeLimit(r)
  /\ UNCHANGED <<pc, promptVars, ledgerVars, childVars, queueVars>>

\* The end of prompt(), and of execute() with the ledger's record.
Return(r) ==
  /\ pc[r] = "submitted" /\ settled[r] = "resolved"
  /\ pc' = [pc EXCEPT ![r] = IF "ingested" \in status[r] THEN "cleaning" ELSE "received"]
  /\ UNCHANGED <<promptVars, outcomeVars, ledgerVars, childVars, queueVars>>
Throw(r) ==
  /\ pc[r] \in Active /\ settled[r] \notin {"pending", "resolved"}
  /\ pc' = [pc EXCEPT ![r] = "threw"]
  /\ failure' = [failure EXCEPT ![r] = IF @ = "none" THEN settled[r] ELSE @]
  /\ UNCHANGED <<promptVars, settled, limits, ledgerVars, childVars, queueVars>>

-----------------------------------------------------------------------------
(* frame(): what the child's stdout says. *)

\* A pass may start: the first one, or one it was woken for before its result arrived.
MayStart(s) == "started" \notin s \/ ("ended" \in s /\ "delivered" \notin s)

\* A turn: turn_start, the assistant's message and turn_end.
Turn(r, f) ==
  LET over == turns[r] >= MaxTurns
      next == IF over THEN turns[r] ELSE turns[r] + 1
  IN
  /\ turns' = [turns EXCEPT ![r] = next]
  /\ assistant' = [assistant EXCEPT ![r] = IF over THEN @ ELSE f]
  /\ \/ /\ over \/ (next >= MaxTurns /\ f = "tool")
        /\ limits' = [limits EXCEPT ![r] = @ + 1]
        /\ Fail(r, "TURN_LIMIT")
     \/ /\ ~over /\ (next < MaxTurns \/ f # "tool")
        /\ UNCHANGED outcomeVars

Start(r) ==
  \/ /\ turns[r] >= MaxTurns
     /\ limits' = [limits EXCEPT ![r] = @ + 1]
     /\ Fail(r, "TURN_LIMIT") /\ UNCHANGED run
  \/ /\ turns[r] < MaxTurns /\ MayStart(run[r])
     /\ run' = [run EXCEPT ![r] = (@ \ {"ended"}) \cup {"started"}]
     /\ UNCHANGED outcomeVars
  \/ /\ turns[r] < MaxTurns /\ ~MayStart(run[r])
     /\ Fail(r, "PROTOCOL_ERROR") /\ UNCHANGED <<run, limits>>

\* Frames of a connection that failed are dropped, events without a prompt are ignored,
\* but a pass that nobody asked for is a violation of the protocol.
ReadFrame(r) ==
  /\ \A q \in Run \ {r} : ~Settling(q)
  /\ stdout[r] # <<>>
  /\ stdout' = [stdout EXCEPT ![r] = Tail(@)]
  /\ LET f == Head(stdout[r]) IN
     \/ /\ failure[r] # "none" \/ (pc[r] \notin Active /\ f # "start")
        /\ UNCHANGED <<promptVars, outcomeVars>>
     \/ /\ failure[r] = "none"
        /\ pc[r] # "submitted" /\ f = "start"
        /\ Fail(r, "PROTOCOL_ERROR") /\ UNCHANGED <<promptVars, limits>>
     \/ /\ failure[r] = "none" /\ pc[r] = "submitted"
        /\ \/ f = "start" /\ Start(r) /\ UNCHANGED <<turns, assistant>>
           \/ f \in {"tool", "stop", "error"} /\ Turn(r, f) /\ UNCHANGED run
           \/ /\ f = "ack" /\ Complete(r, "acknowledged")
              /\ UNCHANGED <<turns, assistant, failure, limits>>
           \/ /\ f = "end" /\ "started" \in run[r]
              /\ Complete(r, "ended")
              /\ UNCHANGED <<turns, assistant, failure, limits>>
           \/ /\ f = "end" /\ "started" \notin run[r]
              /\ Fail(r, "PROTOCOL_ERROR") /\ UNCHANGED <<promptVars, limits>>
  /\ UNCHANGED <<pc, ledgerVars, childVars, inbox>>

\* "close" comes after the last frame.
CloseSeen(r) ==
  /\ Idle
  /\ child[r] = "gone" /\ stdout[r] = <<>> /\ failure[r] = "none"
  /\ Fail(r, "PROCESS_EXITED")
  /\ UNCHANGED <<pc, promptVars, limits, ledgerVars, childVars, queueVars>>

-----------------------------------------------------------------------------
(* The pump, the ledger and the parent's session file. *)

Known(s) == {"produced", "accepted", "received"} \subseteq s

\* Variant: the hand-off is noted and the prompt is not completed.
NotifyOnly(r) ==
  IF waiter[r] = "waiting" /\ Known(status'[r])
  THEN /\ waiter' = [waiter EXCEPT ![r] = "resolved"]
       /\ run' = [run EXCEPT ![r] = @ \cup {x \in {"delivered"} : pc[r] \in Active}]
       /\ UNCHANGED settled
  ELSE UNCHANGED <<waiter, run, settled>>

\* changed(): a waiter whose result is complete is resolved, and so is the prompt's
\* completion; the record of an ended prompt is left alone.
Notify(r) ==
  IF waiter[r] = "waiting" /\ Known(status'[r])
  THEN /\ waiter' = [waiter EXCEPT ![r] = "resolved"]
       /\ IF pc[r] \in Active THEN Complete(r, "delivered")
                              ELSE UNCHANGED <<run, settled>>
  ELSE UNCHANGED <<waiter, run, settled>>

\* Variant: an append that failed is tried again.
SaveAgain(r) ==
  \/ /\ torn \/ disk[r] > 0
     /\ UNCHANGED sessionVars
  \/ /\ ~torn /\ disk[r] = 0
     /\ memory' = [memory EXCEPT ![r] = @ + 1]
     /\ \/ disk' = [disk EXCEPT ![r] = @ + 1] /\ UNCHANGED torn
        \/ torn' \in BOOLEAN /\ UNCHANGED disk

\* persist(): never a second append, and the file is read again after the first.
Save(r) ==
  \/ /\ torn \/ disk[r] > 0 \/ memory[r] > 0
     /\ UNCHANGED sessionVars
  \/ /\ ~torn /\ disk[r] = 0 /\ memory[r] = 0
     /\ memory' = [memory EXCEPT ![r] = 1]
     /\ \/ disk' = [disk EXCEPT ![r] = 1] /\ UNCHANGED torn
        \/ torn' \in BOOLEAN /\ UNCHANGED disk
Saved(r) == ~torn' /\ disk'[r] = 1

\* pump(): the loop looks at this.ended after every message.
Receive(r) ==
  /\ Idle
  /\ channel # "ended" /\ inbox[r] # <<>>
  /\ inbox' = [inbox EXCEPT ![r] = Tail(@)]
  /\ channel' = IF channel = "closing" THEN "ended" ELSE channel
  /\ \/ /\ Head(inbox[r]) = "result"
        /\ IF "ingested" \in status[r] THEN UNCHANGED sessionVars ELSE Save(r)
        /\ status' = [status EXCEPT ![r] = @ \cup {"produced"} \cup {x \in {"ingested"} : Saved(r)}]
     \/ /\ Head(inbox[r]) \in {"accepted", "received"}
        /\ status' = [status EXCEPT ![r] = @ \cup {Head(inbox[r])}]
        /\ UNCHANGED sessionVars
  /\ Notify(r)
  /\ UNCHANGED <<pc, turns, assistant, failure, limits, refuses, childVars, stdout>>

\* Variant: the collector's deadline is a delivery failure.
CollectorTimerFails(r) ==
  /\ Idle
  /\ waiter[r] = "waiting"
  /\ waiter' = [waiter EXCEPT ![r] = "rejected"]
  /\ IF pc[r] \in Active THEN Fail(r, "RESULT_DELIVERY_FAILED") /\ UNCHANGED limits
                         ELSE UNCHANGED <<limits, settled, failure>>
  /\ UNCHANGED <<pc, promptVars, status, pumpVars, sessionVars, childVars, queueVars>>

\* Variant: the collector reports a limit of a run that ended.
CollectorTimerAgain(r) ==
  /\ Idle
  /\ waiter[r] = "waiting"
  /\ waiter' = [waiter EXCEPT ![r] = "rejected"]
  /\ limits' = [limits EXCEPT ![r] = @ + 1] /\ Fail(r, "TIME_LIMIT")
  /\ UNCHANGED <<pc, promptVars, status, pumpVars, sessionVars, childVars, queueVars>>

CollectorTimer(r) ==
  /\ Idle
  /\ waiter[r] = "waiting"
  /\ waiter' = [waiter EXCEPT ![r] = "rejected"]
  /\ IF pc[r] \in Active THEN TimeLimit(r) ELSE UNCHANGED <<limits, settled, failure>>
  /\ UNCHANGED <<pc, promptVars, status, pumpVars, sessionVars, childVars, queueVars>>

\* Every waiter is rejected, and so is the open prompt that waits for it.
RejectWaiters ==
  LET lost == {r \in Run : waiter[r] = "waiting"}
      open == {r \in lost : pc[r] \in Active /\ failure[r] = "none"}
  IN
  /\ waiter' = [r \in Run |-> IF r \in lost THEN "rejected" ELSE waiter[r]]
  /\ failure' = [r \in Run |-> IF r \in open THEN "RESULT_DELIVERY_FAILED" ELSE failure[r]]
  /\ settled' = [r \in Run |-> IF r \in open THEN "RESULT_DELIVERY_FAILED" ELSE settled[r]]

\* The transport fails, or a message does: the pump ends, and later waits are refused.
PumpEnds ==
  /\ Idle
  /\ channel # "ended"
  /\ channel' = "ended" /\ refuses' = TRUE
  /\ RejectWaiters
  /\ UNCHANGED <<pc, promptVars, limits, status, sessionVars, childVars, queueVars>>
\* close(), when the extension is disposed of: the pump still waits for a message.
CloseChannel ==
  /\ Idle
  /\ channel = "up"
  /\ channel' = "closing"
  /\ RejectWaiters
  /\ UNCHANGED <<pc, promptVars, limits, status, refuses, sessionVars, childVars, queueVars>>
\* It was a message of another kind, or none in time.
PumpStops ==
  /\ Idle
  /\ channel = "closing"
  /\ channel' = "ended"
  /\ UNCHANGED <<rpcVars, waiter, status, refuses, sessionVars, childVars, queueVars>>
\* A message to the parent's own session cannot be handled: the pump goes on and later
\* waits are refused; without a later one nothing asks.
WakeFails ==
  /\ Idle
  /\ ~refuses /\ \E r \in Run : pc[r] = "ready"
  /\ refuses' = TRUE
  /\ UNCHANGED <<rpcVars, waiter, status, channel, sessionVars, childVars, queueVars>>

\* The host writes later what its memory has.
Flush(r) ==
  /\ Idle
  /\ ~torn /\ disk[r] < memory[r]
  /\ disk' = [disk EXCEPT ![r] = memory[r]]
  /\ UNCHANGED <<rpcVars, waiter, status, pumpVars, memory, torn, childVars, queueVars>>

\* cleanup(), at once or when the caller asks again: verifyIngested() reads the file.
Cleanup(r) ==
  /\ Idle
  /\ pc[r] \in {"cleaning", "received", "cleanup-error"}
  /\ pc' = [pc EXCEPT ![r] = IF "ingested" \in status[r] /\ ~torn /\ disk[r] = 1 THEN "cleaned"
                             ELSE "cleanup-error"]
  /\ UNCHANGED <<promptVars, outcomeVars, ledgerVars, childVars, queueVars>>

-----------------------------------------------------------------------------
(* The child (src/process-child.ts) and the session it runs. *)

Says(r, f) == Len(stdout[r]) < MaxFrames /\ stdout' = [stdout EXCEPT ![r] = Append(@, f)]

Acknowledge(r) ==
  /\ child[r] \in {"idle", "running"} /\ ~acked[r]
  /\ Says(r, "ack")
  /\ acked' = [acked EXCEPT ![r] = TRUE]
  /\ UNCHANGED <<rpcVars, ledgerVars, child, said, passes, published, inbox>>
BeginPass(r) ==
  /\ child[r] = "idle" /\ passes[r] < MaxPasses
  /\ Says(r, "start")
  /\ child' = [child EXCEPT ![r] = "running"]
  /\ passes' = [passes EXCEPT ![r] = @ + 1]
  /\ said' = [said EXCEPT ![r] = "none"]
  /\ UNCHANGED <<rpcVars, ledgerVars, acked, published, inbox>>
TakeTurn(r) ==
  /\ child[r] = "running" /\ said[r] \in {"none", "tool"}
  /\ \E reason \in {"tool", "stop", "error"} :
       Says(r, reason) /\ said' = [said EXCEPT ![r] = reason]
  /\ UNCHANGED <<rpcVars, ledgerVars, child, acked, passes, published, inbox>>
EndPass(r) ==
  /\ child[r] = "running" /\ said[r] # "none"
  /\ Says(r, "end")
  /\ child' = [child EXCEPT ![r] = "idle"]
  /\ UNCHANGED <<rpcVars, ledgerVars, said, acked, passes, published, inbox>>

Sends(r, m) == inbox' = [inbox EXCEPT ![r] = Append(@, m)]

\* maybePublish(): idle, nothing pending, after a final message, once.
Publish(r) ==
  /\ child[r] = "idle" /\ published[r] = 0 /\ said[r] = "stop"
  /\ Sends(r, "result")
  /\ published' = [published EXCEPT ![r] = 1]
  /\ UNCHANGED <<rpcVars, ledgerVars, child, said, acked, passes, stdout>>
\* publish(): each stage after the broker's or the parent's transport confirmed the last.
PublishStage(r) ==
  /\ child[r] \in {"idle", "running"} /\ published[r] \in 1 .. 2
  /\ Sends(r, Message[published[r] + 1])
  /\ published' = [published EXCEPT ![r] = @ + 1]
  /\ UNCHANGED <<rpcVars, ledgerVars, child, said, acked, passes, stdout>>
\* The same result once more.  publish() runs once, so no child of this code sends it: it
\* stands for what the ledger accepts and its test delivers.
Redeliver(r) ==
  /\ child[r] \in {"idle", "running"} /\ published[r] = 3 /\ inbox[r] = <<>>
  /\ Sends(r, "result")
  /\ published' = [published EXCEPT ![r] = 4]
  /\ UNCHANGED <<rpcVars, ledgerVars, child, said, acked, passes, stdout>>
Exit(r) ==
  /\ child[r] # "gone"
  /\ child' = [child EXCEPT ![r] = "gone"]
  /\ UNCHANGED <<rpcVars, ledgerVars, said, acked, passes, published, queueVars>>

-----------------------------------------------------------------------------
Settle(r) == Return(r) \/ Throw(r)
Reads(r) == ReadFrame(r) \/ CloseSeen(r)
ChildWork(r) == Acknowledge(r) \/ TakeTurn(r) \/ EndPass(r)

Next ==
  \/ \E r \in Run :
       \/ Prompt(r) \/ PromptRefused(r) \/ Submit(r) \/ OtherFailure(r) \/ RunTimer(r)
       \/ Settle(r) \/ Reads(r) \/ Receive(r) \/ CollectorTimer(r) \/ Flush(r) \/ Cleanup(r)
       \/ ChildWork(r) \/ BeginPass(r) \/ Publish(r) \/ PublishStage(r) \/ Redeliver(r) \/ Exit(r)
  \/ PumpEnds \/ CloseChannel \/ PumpStops \/ WakeFails

Spec == Init /\ [][Next]_vars

\* The event loops of parent and child run; no timer ever has to fire, nothing has to be
\* published and no prompt to be verified.
Fairness ==
  \A r \in Run : WF_vars(Settle(r)) /\ WF_vars(Reads(r)) /\ WF_vars(ChildWork(r))
FairSpec == Spec /\ Fairness

-----------------------------------------------------------------------------
(* Properties. *)

Code == {"OTHER", "TIME_LIMIT", "TURN_LIMIT", "PROTOCOL_ERROR", "PROVIDER_FAILED",
         "INCOMPLETE_RESULT", "RESULT_DELIVERY_FAILED", "PROCESS_EXITED"}

\* One process_limit event at most, and the types of everything else.
TypeOK ==
  /\ pc \in [Run -> {"ready", "verifying", "submitted", "received", "cleaning", "cleaned",
                     "cleanup-error", "threw"}]
  /\ run \in [Run -> SUBSET Flag]
  /\ turns \in [Run -> 0 .. MaxTurns] /\ assistant \in [Run -> Reason]
  /\ settled \in [Run -> Code \cup {"pending", "resolved"}]
  /\ failure \in [Run -> Code \cup {"none"}]
  /\ limits \in [Run -> 0 .. 1]
  /\ waiter \in [Run -> {"none", "waiting", "resolved", "rejected"}]
  /\ status \in [Run -> SUBSET {"produced", "accepted", "received", "ingested"}]
  /\ channel \in {"up", "closing", "ended"} /\ refuses \in BOOLEAN
  /\ memory \in [Run -> 0 .. 2] /\ disk \in [Run -> 0 .. 2] /\ torn \in BOOLEAN
  /\ child \in [Run -> {"waiting", "idle", "running", "gone"}]
  /\ said \in [Run -> Reason] /\ acked \in [Run -> BOOLEAN]
  /\ passes \in [Run -> 0 .. MaxPasses] /\ published \in [Run -> 0 .. 4]
  /\ stdout \in [Run -> Seq(Frame)] /\ inbox \in [Run -> Seq({"result", "accepted", "received"})]

\* A prompt of a managed child succeeds only after its result was produced, accepted and
\* received, and the child published it after a final message; what cleanup() ends was
\* found in the session file (docs/process-delegation.md).
HandedOver ==
  \A r \in Run :
    /\ pc[r] \in {"received", "cleaning", "cleaned", "cleanup-error"}
         => Known(status[r]) /\ published[r] >= 3 /\ "ended" \in run[r]
    /\ pc[r] = "cleaned" => "ingested" \in status[r] /\ memory[r] = 1

\* The session never has two entries for a result, and "ingested" is never claimed for an
\* entry the file does not have, whatever writes failed and however often it was delivered.
EntryOnce ==
  \A r \in Run :
    /\ disk[r] <= 1 /\ memory[r] <= 1
    /\ "ingested" \in status[r] => disk[r] = 1

\* Whichever timer expires first, the run ends with its limit and one event; a delivery
\* failure is never the name of a deadline (docs/process-runner.md, tests).
OutcomeNamed ==
  \A r \in Run :
    /\ failure[r] = "RESULT_DELIVERY_FAILED" => channel # "up" \/ refuses
    /\ limits[r] = IF failure[r] \in {"TIME_LIMIT", "TURN_LIMIT"} THEN 1 ELSE 0

\* A prompt whose result was handed over ends without the help of any timer, although the
\* two channels are not ordered and the child may be woken again meanwhile.
DeliveredSettles ==
  \A r \in Run : (pc[r] = "submitted" /\ Known(status[r])) ~> (pc[r] \notin Active)
=============================================================================
