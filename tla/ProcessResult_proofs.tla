------------------------- MODULE ProcessResult_proofs -------------------------
(***************************************************************************)
(* Proofs about ProcessResult, for any number of prompts and any limits on *)
(* turns, passes and unread frames: the session has one entry per result,  *)
(* a failure keeps its cause, and no prompt succeeds before the hand-off.  *)
(***************************************************************************)
EXTENDS ProcessResult, SequenceTheorems, TLAPS

Ended == {"received", "cleaning", "cleaned", "cleanup-error"}
LimitCode == {"TIME_LIMIT", "TURN_LIMIT"}

\* The deferred of a prompt agrees with the failure of its connection.
SettledNamed ==
  \A r \in Run :
    /\ settled[r] = "RESULT_DELIVERY_FAILED" => channel # "up" \/ refuses
    /\ settled[r] \in LimitCode => failure[r] = settled[r]

\* What the file has, the session has.
EntryKept == \A r \in Run : disk[r] <= memory[r]

\* A pass that ended had started.
RunSound == \A r \in Run : "ended" \in run[r] => "started" \in run[r]

\* How a hand-off becomes the success of a prompt: what was sent, what the ledger has
\* noted, what the prompt was told, and what its caller saw.
HandOffSound ==
  \A r \in Run :
    /\ \A i \in 1 .. Len(inbox[r]) : inbox[r][i] = "received" => published[r] >= 3
    /\ "received" \in status[r] => published[r] >= 3
    /\ "delivered" \in run[r] => Known(status[r])
    /\ settled[r] = "resolved" => {"ended", "delivered"} \subseteq run[r]
    /\ pc[r] \in Ended => settled[r] = "resolved"
    /\ pc[r] = "cleaned" => "ingested" \in status[r] /\ memory[r] = 1

ResultInv ==
  /\ TypeOK /\ EntryOnce /\ EntryKept /\ OutcomeNamed /\ SettledNamed
  /\ RunSound /\ HandOffSound

-----------------------------------------------------------------------------
(* What a failure and the end of a prompt do. *)

Settlement == Code \cup {"pending", "resolved"}

\* A failure has one of the codes of the connection.
LEMMA FailTyped ==
  ASSUME TypeOK, NEW r \in Run, NEW code \in Code, Fail(r, code)
  PROVE  settled' \in [Run -> Settlement] /\ failure' \in [Run -> Code \cup {"none"}]
BY DEF TypeOK, Fail, Settlement

\* A failure is the first one of its connection, or changes nothing but is not forgotten.
LEMMA FailFacts ==
  ASSUME TypeOK, NEW r \in Run, NEW code \in Code, Fail(r, code)
  PROVE  /\ \A q \in Run \ {r} : settled'[q] = settled[q] /\ failure'[q] = failure[q]
         /\ failure[r] = "none" => failure'[r] = code /\ settled'[r] \in {settled[r], code}
         /\ failure[r] # "none" => failure'[r] = failure[r] /\ settled'[r] = settled[r]
BY DEF TypeOK, Fail

\* complete() sets one flag, and resolves a prompt only when it has ended and was delivered.
LEMMA CompleteFacts ==
  ASSUME TypeOK, NEW r \in Run, NEW flag \in Flag, Complete(r, flag)
  PROVE  /\ run' \in [Run -> SUBSET Flag] /\ settled' \in [Run -> Settlement]
         /\ \A q \in Run \ {r} : settled'[q] = settled[q] /\ run'[q] = run[q]
         /\ run'[r] = run[r] \cup {flag}
         /\ settled'[r] \in {settled[r], "PROVIDER_FAILED", "INCOMPLETE_RESULT", "resolved"}
         /\ settled'[r] = "resolved" /\ settled[r] # "resolved"
              => {"ended", "delivered"} \subseteq run'[r]
<1>1. run' \in [Run -> SUBSET Flag] /\ run'[r] = run[r] \cup {flag}
      /\ \A q \in Run \ {r} : run'[q] = run[q]
  BY DEF TypeOK, Complete
<1>2. DEFINE o == Outcome(run'[r], assistant[r])
<1>3. /\ o \in {"pending", "PROVIDER_FAILED", "INCOMPLETE_RESULT", "resolved"}
      /\ o = "resolved" => {"ended", "delivered"} \subseteq run'[r]
  BY DEF Outcome, Over
<1>4. settled' = [settled EXCEPT ![r] = IF settled[r] = "pending" THEN o ELSE settled[r]]
  BY DEF Complete
<1> HIDE DEF o
<1>5. /\ \A q \in Run \ {r} : settled'[q] = settled[q]
      /\ settled'[r] = IF settled[r] = "pending" THEN o ELSE settled[r]
      /\ settled' \in [Run -> Settlement]
  BY <1>3, <1>4 DEF TypeOK, Settlement, Code
<1> QED
  BY <1>1, <1>3, <1>5

\* An entry, in the session and in its file.
LEMMA EntryRange ==
  ASSUME TypeOK, EntryOnce, EntryKept, NEW r \in Run
  PROVE  memory[r] \in 0 .. 1 /\ disk[r] \in 0 .. 1 /\ disk[r] <= memory[r]
<1>1. memory[r] \in 0 .. 2 /\ disk[r] \in 0 .. 2
  BY DEF TypeOK
<1>2. memory[r] <= 1 /\ disk[r] <= 1 /\ disk[r] <= memory[r]
  BY DEF EntryOnce, EntryKept
<1> QED
  BY <1>1, <1>2

\* A failure keeps the names of failures when it counts a limit with the name of one, and
\* names a delivery failure after one of the channel.
LEMMA FailNamed ==
  ASSUME TypeOK, OutcomeNamed, SettledNamed, UNCHANGED pumpVars,
         NEW r \in Run, NEW code \in Code \ {"RESULT_DELIVERY_FAILED"}, Fail(r, code),
         \/ UNCHANGED limits /\ (failure[r] # "none" \/ code \notin LimitCode)
         \/ /\ failure[r] = "none" /\ code \in LimitCode
            /\ limits' = [limits EXCEPT ![r] = limits[r] + 1]
  PROVE  OutcomeNamed' /\ SettledNamed'
<1>1. /\ \A q \in Run \ {r} : settled'[q] = settled[q] /\ failure'[q] = failure[q]
                              /\ limits'[q] = limits[q]
  BY FailFacts DEF TypeOK
<1>2. CASE failure[r] = "none"
  <2>1. failure'[r] = code /\ settled'[r] \in {settled[r], code} /\ settled[r] \notin LimitCode
    BY <1>2, FailFacts DEF SettledNamed, LimitCode
  <2>2. limits[r] = 0
    BY <1>2 DEF OutcomeNamed
  <2>3. limits'[r] = IF code \in LimitCode THEN 1 ELSE 0
    BY <1>2, <2>2 DEF TypeOK
  <2> QED
    BY <1>1, <2>1, <2>3 DEF OutcomeNamed, SettledNamed, LimitCode, Code, pumpVars
<1>3. CASE failure[r] # "none"
  <2>1. failure'[r] = failure[r] /\ settled'[r] = settled[r] /\ limits'[r] = limits[r]
    BY <1>3, FailFacts
  <2> QED
    BY <1>1, <2>1 DEF OutcomeNamed, SettledNamed, pumpVars
<1> QED
  BY <1>2, <1>3

\* persist() writes one entry, or none.
LEMMA SaveFacts ==
  ASSUME TypeOK, NEW r \in Run, Save(r)
  PROVE  \/ UNCHANGED sessionVars
         \/ /\ memory[r] = 0 /\ disk[r] = 0 /\ memory' = [memory EXCEPT ![r] = 1]
            /\ \/ disk' = [disk EXCEPT ![r] = 1] /\ UNCHANGED torn
               \/ torn' \in BOOLEAN /\ UNCHANGED disk
BY Zenon DEF Save

\* A turn or the start of a pass: its limit, a violation of the protocol, or nothing.
LEMMA FrameFails ==
  ASSUME TypeOK, NEW r \in Run, failure[r] = "none",
         \/ Start(r)
         \/ \E f \in {"tool", "stop", "error"} : Turn(r, f)
  PROVE  \/ /\ UNCHANGED <<settled, failure, limits>>
         \/ /\ limits' = [limits EXCEPT ![r] = limits[r] + 1]
            /\ Fail(r, "TURN_LIMIT")
         \/ /\ UNCHANGED limits
            /\ Fail(r, "PROTOCOL_ERROR")
BY DEF Start, Turn, outcomeVars

\* Every step keeps the types.
LEMMA TypeStep ==
  ASSUME TypeOK, EntryOnce, OutcomeNamed, Next
  PROVE  TypeOK'
<1>1. ASSUME NEW r \in Run, Prompt(r) PROVE TypeOK'
  <2>1. settled' \in [Run -> Settlement] /\ failure' \in [Run -> Code \cup {"none"}]
    <3>1. CASE ~refuses
      BY <1>1, <3>1 DEF Prompt, TypeOK, Settlement
    <3>2. CASE refuses
      BY <1>1, <3>2, FailTyped DEF Prompt, Code
    <3> QED
      BY <3>1, <3>2
  <2>2. /\ pc' = [pc EXCEPT ![r] = "verifying"]
        /\ \E w \in {"waiting", "rejected"} : waiter' = [waiter EXCEPT ![r] = w]
        /\ UNCHANGED <<promptVars, limits, status, pumpVars, sessionVars, childVars, queueVars>>
    BY <1>1 DEF Prompt
  <2> QED
    BY <2>1, <2>2 DEF TypeOK, Settlement, promptVars, pumpVars, sessionVars, childVars,
       queueVars
<1>2. ASSUME NEW r \in Run, PromptRefused(r) PROVE TypeOK'
  BY <1>2, ResultAssumption DEF TypeOK, EntryOnce, OutcomeNamed, Code, Reason, Frame, Flag,
     PromptRefused, promptVars, outcomeVars, ledgerVars, pumpVars, sessionVars, childVars,
     queueVars
<1>3. ASSUME NEW r \in Run, Submit(r) PROVE TypeOK'
  BY <1>3, ResultAssumption DEF TypeOK, EntryOnce, OutcomeNamed, Code, Reason, Frame, Flag,
     Submit, promptVars, outcomeVars, ledgerVars, pumpVars, sessionVars, queueVars
<1>4. ASSUME NEW r \in Run, OtherFailure(r) PROVE TypeOK'
  BY <1>4, ResultAssumption DEF TypeOK, EntryOnce, OutcomeNamed, Active, Code, Reason, Frame,
     Flag, OtherFailure, Fail, promptVars, ledgerVars, pumpVars, sessionVars, childVars,
     queueVars
<1>5. ASSUME NEW r \in Run, RunTimer(r) PROVE TypeOK'
  BY <1>5, ResultAssumption DEF TypeOK, EntryOnce, OutcomeNamed, Active, Code, Reason, Frame,
     Flag, RunTimer, TimeLimit, Fail, promptVars, ledgerVars, pumpVars, sessionVars,
     childVars, queueVars
<1>6. ASSUME NEW r \in Run, Return(r) PROVE TypeOK'
  BY <1>6, ResultAssumption DEF TypeOK, EntryOnce, OutcomeNamed, Code, Reason, Frame, Flag,
     Return, promptVars, outcomeVars, ledgerVars, pumpVars, sessionVars, childVars, queueVars
<1>7. ASSUME NEW r \in Run, Throw(r) PROVE TypeOK'
  BY <1>7, ResultAssumption DEF TypeOK, EntryOnce, OutcomeNamed, Active, Code, Reason, Frame,
     Flag, Throw, promptVars, ledgerVars, pumpVars, sessionVars, childVars, queueVars
<1>8. ASSUME NEW r \in Run, ReadFrame(r) PROVE TypeOK'
  <2>1. stdout' \in [Run -> Seq(Frame)] /\ UNCHANGED <<pc, ledgerVars, childVars, inbox>>
    BY <1>8 DEF ReadFrame, TypeOK
  <2>2. CASE UNCHANGED <<promptVars, outcomeVars>>
    BY <2>1, <2>2 DEF TypeOK, promptVars, outcomeVars, ledgerVars, pumpVars, sessionVars,
       childVars
  <2>3. CASE Fail(r, "PROTOCOL_ERROR") /\ UNCHANGED <<promptVars, limits>>
    BY <2>1, <2>3, FailTyped DEF TypeOK, Settlement, Code, promptVars, ledgerVars, pumpVars,
       sessionVars, childVars
  <2>4. ASSUME failure[r] = "none",
               \/ Start(r) /\ UNCHANGED <<turns, assistant>>
               \/ \E f \in {"tool", "stop", "error"} : Turn(r, f) /\ UNCHANGED run
        PROVE  TypeOK'
    <3>1. limits' \in [Run -> 0 .. 1]
      <4>1. limits[r] = 0
        BY <2>4 DEF OutcomeNamed
      <4>2. UNCHANGED limits \/ limits' = [limits EXCEPT ![r] = limits[r] + 1]
        BY <2>4, FrameFails
      <4>3. CASE UNCHANGED limits
        BY <4>3 DEF TypeOK
      <4>4. CASE limits' = [limits EXCEPT ![r] = limits[r] + 1]
        BY <4>1, <4>4 DEF TypeOK
      <4> QED
        BY <4>2, <4>3, <4>4
    <3>2. settled' \in [Run -> Settlement] /\ failure' \in [Run -> Code \cup {"none"}]
      <4>1. CASE UNCHANGED <<settled, failure, limits>>
        BY <4>1 DEF TypeOK, Settlement
      <4> QED
        BY <2>4, <4>1, FrameFails, FailTyped DEF Code
    <3>3. run' \in [Run -> SUBSET Flag]
      <4>1. CASE UNCHANGED run
        BY <4>1 DEF TypeOK
      <4>2. CASE run' = [run EXCEPT ![r] = (run[r] \ {"ended"}) \cup {"started"}]
        BY <4>2 DEF TypeOK, Flag
      <4> QED
        BY <2>4, <4>1, <4>2, Zenon DEF Start
    <3>4. turns' \in [Run -> 0 .. MaxTurns] /\ assistant' \in [Run -> Reason]
      <4>1. turns[r] \in Nat /\ turns[r] <= MaxTurns /\ MaxTurns \in Nat
        BY ResultAssumption DEF TypeOK
      <4>2. CASE UNCHANGED <<turns, assistant>>
        BY <4>2 DEF TypeOK
      <4>3. ASSUME NEW f \in {"tool", "stop", "error"}, Turn(r, f)
            PROVE  turns' \in [Run -> 0 .. MaxTurns] /\ assistant' \in [Run -> Reason]
        <5>1. CASE turns[r] >= MaxTurns
          BY <4>1, <4>3, <5>1 DEF Turn, TypeOK
        <5>2. CASE turns[r] < MaxTurns
          BY <4>1, <4>3, <5>2 DEF Turn, TypeOK, Reason
        <5> QED
          BY <4>1, <5>1, <5>2
      <4> QED
        BY <2>4, <4>2, <4>3
    <3> QED
      BY <2>1, <3>1, <3>2, <3>3, <3>4 DEF TypeOK, Settlement, ledgerVars, pumpVars,
         sessionVars, childVars
  <2>5. ASSUME NEW flag \in {"acknowledged", "ended"}, Complete(r, flag),
               UNCHANGED <<turns, assistant, failure, limits>>
        PROVE  TypeOK'
    BY <2>1, <2>5, CompleteFacts DEF TypeOK, Settlement, Flag, ledgerVars, pumpVars,
       sessionVars, childVars
  <2> DEFINE f == Head(stdout[r])
  <2>6. \/ UNCHANGED <<promptVars, outcomeVars>>
        \/ Fail(r, "PROTOCOL_ERROR") /\ UNCHANGED <<promptVars, limits>>
        \/ /\ failure[r] = "none"
           /\ \/ Start(r) /\ UNCHANGED <<turns, assistant>>
              \/ f \in {"tool", "stop", "error"} /\ Turn(r, f) /\ UNCHANGED run
        \/ Complete(r, "acknowledged") /\ UNCHANGED <<turns, assistant, failure, limits>>
        \/ Complete(r, "ended") /\ UNCHANGED <<turns, assistant, failure, limits>>
    BY <1>8, Zenon DEF ReadFrame
  <2> HIDE DEF f
  <2> QED
    BY <2>2, <2>3, <2>4, <2>5, <2>6
<1>9. ASSUME NEW r \in Run, CloseSeen(r) PROVE TypeOK'
  BY <1>9, ResultAssumption DEF TypeOK, EntryOnce, OutcomeNamed, Code, Reason, Frame, Flag,
     CloseSeen, Fail, promptVars, outcomeVars, ledgerVars, pumpVars, sessionVars, childVars,
     queueVars
<1>10. ASSUME NEW r \in Run, Receive(r) PROVE TypeOK'
  <2>1. /\ run' \in [Run -> SUBSET Flag] /\ settled' \in [Run -> Settlement]
        /\ waiter' \in [Run -> {"none", "waiting", "resolved", "rejected"}]
    <3>1. CASE UNCHANGED <<waiter, run, settled>>
      BY <3>1 DEF TypeOK, Settlement
    <3>2. CASE waiter' = [waiter EXCEPT ![r] = "resolved"] /\ Complete(r, "delivered")
      BY <3>2, CompleteFacts DEF TypeOK, Flag
    <3>3. CASE waiter' = [waiter EXCEPT ![r] = "resolved"] /\ UNCHANGED <<run, settled>>
      BY <3>3 DEF TypeOK, Settlement
    <3> QED
      BY <1>10, <3>1, <3>2, <3>3 DEF Receive, Notify
  <2>2. memory' \in [Run -> 0 .. 2] /\ disk' \in [Run -> 0 .. 2] /\ torn' \in BOOLEAN
    <3>1. CASE UNCHANGED <<memory, disk, torn>>
      BY <3>1 DEF TypeOK
    <3>2. CASE Save(r) /\ memory' = [memory EXCEPT ![r] = 1]
      <4>1. memory' \in [Run -> 0 .. 2]
        BY <3>2 DEF TypeOK
      <4>2. disk' = disk \/ disk' = [disk EXCEPT ![r] = 1]
        BY <3>2, SaveFacts DEF sessionVars
      <4>3. disk' \in [Run -> 0 .. 2]
        <5>1. CASE disk' = [disk EXCEPT ![r] = 1]
          BY <5>1 DEF TypeOK
        <5> QED
          BY <4>2, <5>1 DEF TypeOK
      <4>4. torn' \in BOOLEAN
        <5>1. torn' = torn \/ torn' \in BOOLEAN
          BY <3>2, SaveFacts, Zenon DEF sessionVars
        <5> QED
          BY <5>1, Zenon DEF TypeOK
      <4> QED
        BY <4>1, <4>3, <4>4
    <3> QED
      BY <1>10, <3>1, <3>2 DEF Receive, Save, sessionVars
  <2>3. status' \in [Run -> SUBSET {"produced", "accepted", "received", "ingested"}]
    <3>1. CASE Head(inbox[r]) = "result"
      <4>1. PICK x \in SUBSET {"ingested"} :
              status' = [status EXCEPT ![r] = status[r] \cup {"produced"} \cup x]
        BY <1>10, <3>1, Zenon DEF Receive
      <4> QED
        BY <4>1 DEF TypeOK
    <3>2. CASE Head(inbox[r]) \in {"accepted", "received"}
      <4>1. PICK m \in {"accepted", "received"} :
              status' = [status EXCEPT ![r] = status[r] \cup {m}]
        BY <1>10, <3>2, Zenon DEF Receive
      <4> QED
        BY <4>1 DEF TypeOK
    <3> QED
      BY <1>10, <3>1, <3>2 DEF Receive
  <2>4. inbox' \in [Run -> Seq({"result", "accepted", "received"})]
    BY <1>10 DEF Receive, TypeOK
  <2>5. /\ UNCHANGED <<pc, turns, assistant, failure, limits, refuses, childVars, stdout>>
        /\ channel' \in {"up", "closing", "ended"}
    BY <1>10 DEF Receive, TypeOK
  <2> QED
    BY <2>1, <2>2, <2>3, <2>4, <2>5 DEF TypeOK, Settlement, childVars
<1>11. ASSUME NEW r \in Run, CollectorTimer(r) PROVE TypeOK'
  <2>1. /\ settled' \in [Run -> Settlement] /\ failure' \in [Run -> Code \cup {"none"}]
        /\ limits' \in [Run -> 0 .. 1]
    <3>1. CASE pc[r] \in Active
      <4>1. TimeLimit(r)
        BY <1>11, <3>1 DEF CollectorTimer
      <4>2. limits' \in [Run -> 0 .. 1]
        <5>1. limits[r] \in 0 .. 1 /\ (failure[r] = "none" => limits[r] = 0)
          BY DEF OutcomeNamed
        <5> QED
          BY <4>1, <5>1 DEF TimeLimit, TypeOK
      <4> QED
        BY <4>1, <4>2, FailTyped DEF TimeLimit, Code
    <3>2. CASE pc[r] \notin Active
      BY <1>11, <3>2 DEF CollectorTimer, TypeOK, Settlement
    <3> QED
      BY <3>1, <3>2
  <2>2. /\ waiter' = [waiter EXCEPT ![r] = "rejected"]
        /\ UNCHANGED <<pc, promptVars, status, pumpVars, sessionVars, childVars, queueVars>>
    BY <1>11 DEF CollectorTimer
  <2> QED
    BY <2>1, <2>2 DEF TypeOK, Settlement, promptVars, pumpVars, sessionVars, childVars,
       queueVars
<1>12. ASSUME NEW r \in Run, Flush(r) PROVE TypeOK'
  BY <1>12, ResultAssumption DEF TypeOK, EntryOnce, OutcomeNamed, Active, Code, Reason, Frame,
     Flag, Flush, rpcVars, promptVars, outcomeVars, pumpVars, childVars, queueVars
<1>13. ASSUME NEW r \in Run, Cleanup(r) PROVE TypeOK'
  BY <1>13, ResultAssumption DEF TypeOK, EntryOnce, OutcomeNamed, Active, Code, Reason, Frame,
     Flag, Cleanup, promptVars, outcomeVars, ledgerVars, pumpVars, sessionVars, childVars,
     queueVars
<1>14. ASSUME NEW r \in Run, Acknowledge(r) PROVE TypeOK'
  BY <1>14, ResultAssumption DEF TypeOK, Reason, Frame,
     Acknowledge, Says, rpcVars, promptVars, outcomeVars, ledgerVars, pumpVars,
     sessionVars
<1>15. ASSUME NEW r \in Run, TakeTurn(r) PROVE TypeOK'
  BY <1>15, ResultAssumption DEF TypeOK, Reason, Frame,
     TakeTurn, Says, rpcVars, promptVars, outcomeVars, ledgerVars, pumpVars, sessionVars
<1>16. ASSUME NEW r \in Run, EndPass(r) PROVE TypeOK'
  BY <1>16, ResultAssumption DEF TypeOK, Reason, Frame,
     EndPass, Says, rpcVars, promptVars, outcomeVars, ledgerVars, pumpVars, sessionVars
<1>17. ASSUME NEW r \in Run, BeginPass(r) PROVE TypeOK'
  BY <1>17, ResultAssumption DEF TypeOK, Reason, Frame,
     BeginPass, Says, rpcVars, promptVars, outcomeVars, ledgerVars, pumpVars, sessionVars
<1>18. ASSUME NEW r \in Run, Publish(r) PROVE TypeOK'
  BY <1>18, ResultAssumption DEF TypeOK, Reason, Frame,
     Publish, Sends, rpcVars, promptVars, outcomeVars, ledgerVars, pumpVars, sessionVars
<1>19. ASSUME NEW r \in Run, PublishStage(r) PROVE TypeOK'
  BY <1>19, ResultAssumption DEF TypeOK, Reason, Frame,
     PublishStage, Sends, Message, rpcVars, promptVars, outcomeVars, ledgerVars, pumpVars,
     sessionVars
<1>20. ASSUME NEW r \in Run, Redeliver(r) PROVE TypeOK'
  BY <1>20, ResultAssumption DEF TypeOK, Reason, Frame,
     Redeliver, Sends, rpcVars, promptVars, outcomeVars, ledgerVars, pumpVars, sessionVars
<1>21. ASSUME NEW r \in Run, Exit(r) PROVE TypeOK'
  BY <1>21, ResultAssumption DEF TypeOK, Reason, Frame,
     Exit, rpcVars, promptVars, outcomeVars, ledgerVars, pumpVars, sessionVars, queueVars
<1>22. ASSUME PumpEnds PROVE TypeOK'
  BY <1>22 DEF TypeOK, EntryOnce, OutcomeNamed, Active, Code, Reason, Frame, Flag, PumpEnds,
     RejectWaiters, promptVars, outcomeVars, sessionVars, childVars, queueVars
<1>23. ASSUME WakeFails PROVE TypeOK'
  BY <1>23 DEF TypeOK, EntryOnce, OutcomeNamed, Active, Code, Reason, Frame, Flag, WakeFails,
     rpcVars, promptVars, outcomeVars, sessionVars, childVars, queueVars
<1>24. ASSUME CloseChannel PROVE TypeOK'
  BY <1>24 DEF TypeOK, Active, Code, CloseChannel, RejectWaiters,
     promptVars, sessionVars, childVars, queueVars
<1>25. ASSUME PumpStops PROVE TypeOK'
  BY <1>25 DEF TypeOK, Active, Code, PumpStops,
     rpcVars, promptVars, outcomeVars, sessionVars, childVars, queueVars
<1> QED
  BY <1>1, <1>2, <1>3, <1>4, <1>5, <1>6, <1>7, <1>8, <1>9, <1>10, <1>11, <1>12, <1>13, <1>14,
     <1>15, <1>16, <1>17, <1>18, <1>19, <1>20, <1>21, <1>22, <1>23, <1>24, <1>25 DEF Next,
     Settle, Reads, ChildWork

\* Every step keeps one entry per result, and what the file has in the session.
LEMMA EntryStep ==
  ASSUME TypeOK, EntryOnce, EntryKept, Next
  PROVE  EntryOnce' /\ EntryKept'
<1>1. ASSUME NEW r \in Run, Prompt(r) PROVE EntryOnce' /\ EntryKept'
  BY <1>1, ResultAssumption DEF TypeOK, EntryOnce, EntryKept, Prompt, Fail, promptVars,
     sessionVars, childVars, queueVars
<1>2. ASSUME NEW r \in Run, PromptRefused(r) PROVE EntryOnce' /\ EntryKept'
  BY <1>2, ResultAssumption DEF TypeOK, EntryOnce, EntryKept, PromptRefused, promptVars,
     outcomeVars, ledgerVars, pumpVars, sessionVars, childVars, queueVars
<1>3. ASSUME NEW r \in Run, Submit(r) PROVE EntryOnce' /\ EntryKept'
  BY <1>3, ResultAssumption DEF TypeOK, EntryOnce, EntryKept, Submit, promptVars, outcomeVars,
     ledgerVars, pumpVars, sessionVars, queueVars
<1>4. ASSUME NEW r \in Run, OtherFailure(r) PROVE EntryOnce' /\ EntryKept'
  BY <1>4, ResultAssumption DEF TypeOK, EntryOnce, EntryKept, OtherFailure, Fail, promptVars,
     ledgerVars, pumpVars, sessionVars, childVars, queueVars
<1>5. ASSUME NEW r \in Run, RunTimer(r) PROVE EntryOnce' /\ EntryKept'
  BY <1>5, ResultAssumption DEF TypeOK, EntryOnce, EntryKept, RunTimer, TimeLimit, Fail,
     promptVars, ledgerVars, pumpVars, sessionVars, childVars, queueVars
<1>6. ASSUME NEW r \in Run, Return(r) PROVE EntryOnce' /\ EntryKept'
  BY <1>6, ResultAssumption DEF TypeOK, EntryOnce, EntryKept, Return, promptVars, outcomeVars,
     ledgerVars, pumpVars, sessionVars, childVars, queueVars
<1>7. ASSUME NEW r \in Run, Throw(r) PROVE EntryOnce' /\ EntryKept'
  BY <1>7, ResultAssumption DEF TypeOK, EntryOnce, EntryKept, Throw, promptVars, ledgerVars,
     pumpVars, sessionVars, childVars, queueVars
<1>8. ASSUME NEW r \in Run, ReadFrame(r) PROVE EntryOnce' /\ EntryKept'
  BY <1>8, ResultAssumption DEF TypeOK, EntryOnce, EntryKept, ReadFrame, Start, Turn, MayStart,
     Complete, Outcome, Over, Fail, promptVars, outcomeVars, ledgerVars, pumpVars,
     sessionVars, childVars
<1>9. ASSUME NEW r \in Run, CloseSeen(r) PROVE EntryOnce' /\ EntryKept'
  BY <1>9, ResultAssumption DEF TypeOK, EntryOnce, EntryKept, CloseSeen, Fail, promptVars,
     ledgerVars, pumpVars, sessionVars, childVars, queueVars
<1>10. ASSUME NEW r \in Run, Receive(r) PROVE EntryOnce' /\ EntryKept'
  <2>1. CASE UNCHANGED sessionVars
    <3>1. \A q \in Run : "ingested" \in status'[q] => disk[q] = 1
      <4> SUFFICES ASSUME NEW q \in Run, "ingested" \in status'[q] PROVE disk[q] = 1
        OBVIOUS
      <4>1. "ingested" \in status[q] \/ (q = r /\ Saved(r))
        BY <1>10 DEF Receive, TypeOK
      <4> QED
        BY <2>1, <4>1 DEF EntryOnce, Saved, sessionVars
    <3> QED
      BY <2>1, <3>1 DEF EntryOnce, EntryKept, sessionVars
  <2>2. CASE /\ memory[r] = 0 /\ disk[r] = 0 /\ memory' = [memory EXCEPT ![r] = 1]
             /\ disk' = disk \/ disk' = [disk EXCEPT ![r] = 1]
    <3>1. /\ memory[r] = 0 /\ disk[r] = 0
          /\ disk' = disk \/ disk' = [disk EXCEPT ![r] = 1]
      BY <2>2
    <3>2. \A q \in Run : "ingested" \in status'[q] => disk'[q] = 1
      <4> SUFFICES ASSUME NEW q \in Run, "ingested" \in status'[q] PROVE disk'[q] = 1
        OBVIOUS
      <4>1. "ingested" \in status[q] \/ (q = r /\ Saved(r))
        BY <1>10 DEF Receive, TypeOK
      <4> QED
        BY <3>1, <4>1 DEF EntryOnce, Saved, TypeOK
    <3> QED
      BY <2>2, <3>1, <3>2 DEF EntryOnce, EntryKept, TypeOK
  <2> QED
    <3>1. UNCHANGED sessionVars \/ Save(r)
      BY <1>10, Zenon DEF Receive
    <3> QED
      BY <2>1, <2>2, <3>1, SaveFacts DEF sessionVars
<1>11. ASSUME NEW r \in Run, CollectorTimer(r) PROVE EntryOnce' /\ EntryKept'
  BY <1>11, ResultAssumption DEF TypeOK, EntryOnce, EntryKept, CollectorTimer, TimeLimit, Fail,
     promptVars, sessionVars, childVars, queueVars
<1>12. ASSUME NEW r \in Run, Flush(r) PROVE EntryOnce' /\ EntryKept'
  <2>1. /\ disk[r] < memory[r] /\ disk' = [disk EXCEPT ![r] = memory[r]]
        /\ UNCHANGED <<memory, status>>
    BY <1>12 DEF Flush
  <2>2. memory[r] = 1 /\ disk[r] = 0
    BY <2>1, EntryRange
  <2> QED
    BY <2>1, <2>2 DEF TypeOK, EntryOnce, EntryKept
<1>13. ASSUME NEW r \in Run, Cleanup(r) PROVE EntryOnce' /\ EntryKept'
  BY <1>13, ResultAssumption DEF TypeOK, EntryOnce, EntryKept, Cleanup, promptVars, outcomeVars,
     ledgerVars, pumpVars, sessionVars, childVars, queueVars
<1>14. ASSUME NEW r \in Run, Acknowledge(r) PROVE EntryOnce' /\ EntryKept'
  BY <1>14, ResultAssumption DEF TypeOK, EntryOnce, EntryKept, Acknowledge, Says, rpcVars,
     promptVars, outcomeVars, ledgerVars, pumpVars, sessionVars
<1>15. ASSUME NEW r \in Run, TakeTurn(r) PROVE EntryOnce' /\ EntryKept'
  BY <1>15, ResultAssumption DEF TypeOK, EntryOnce, EntryKept, TakeTurn, Says, rpcVars,
     promptVars, outcomeVars, ledgerVars, pumpVars, sessionVars
<1>16. ASSUME NEW r \in Run, EndPass(r) PROVE EntryOnce' /\ EntryKept'
  BY <1>16, ResultAssumption DEF TypeOK, EntryOnce, EntryKept, EndPass, Says, rpcVars,
     promptVars, outcomeVars, ledgerVars, pumpVars, sessionVars
<1>17. ASSUME NEW r \in Run, BeginPass(r) PROVE EntryOnce' /\ EntryKept'
  BY <1>17, ResultAssumption DEF TypeOK, EntryOnce, EntryKept, BeginPass, Says, rpcVars,
     promptVars, outcomeVars, ledgerVars, pumpVars, sessionVars
<1>18. ASSUME NEW r \in Run, Publish(r) PROVE EntryOnce' /\ EntryKept'
  BY <1>18, ResultAssumption DEF TypeOK, EntryOnce, EntryKept, Publish, Sends, rpcVars,
     promptVars, outcomeVars, ledgerVars, pumpVars, sessionVars
<1>19. ASSUME NEW r \in Run, PublishStage(r) PROVE EntryOnce' /\ EntryKept'
  BY <1>19, ResultAssumption DEF TypeOK, EntryOnce, EntryKept, PublishStage, Sends, Message,
     rpcVars, promptVars, outcomeVars, ledgerVars, pumpVars, sessionVars
<1>20. ASSUME NEW r \in Run, Redeliver(r) PROVE EntryOnce' /\ EntryKept'
  BY <1>20, ResultAssumption DEF TypeOK, EntryOnce, EntryKept, Redeliver, Sends, rpcVars,
     promptVars, outcomeVars, ledgerVars, pumpVars, sessionVars
<1>21. ASSUME NEW r \in Run, Exit(r) PROVE EntryOnce' /\ EntryKept'
  BY <1>21, ResultAssumption DEF TypeOK, EntryOnce, EntryKept, Exit, rpcVars, promptVars,
     outcomeVars, ledgerVars, pumpVars, sessionVars, queueVars
<1>22. ASSUME PumpEnds PROVE EntryOnce' /\ EntryKept'
  BY <1>22 DEF TypeOK, EntryOnce, EntryKept, PumpEnds, RejectWaiters, promptVars, sessionVars,
     childVars, queueVars
<1>23. ASSUME WakeFails PROVE EntryOnce' /\ EntryKept'
  BY <1>23 DEF TypeOK, EntryOnce, EntryKept, WakeFails, rpcVars, promptVars, outcomeVars,
     sessionVars, childVars, queueVars
<1>24. ASSUME CloseChannel PROVE EntryOnce' /\ EntryKept'
  BY <1>24 DEF TypeOK, EntryOnce, EntryKept, CloseChannel, RejectWaiters,
     promptVars, sessionVars, childVars, queueVars
<1>25. ASSUME PumpStops PROVE EntryOnce' /\ EntryKept'
  BY <1>25 DEF TypeOK, EntryOnce, EntryKept, PumpStops,
     rpcVars, promptVars, outcomeVars, sessionVars, childVars, queueVars
<1> QED
  BY <1>1, <1>2, <1>3, <1>4, <1>5, <1>6, <1>7, <1>8, <1>9, <1>10, <1>11, <1>12, <1>13, <1>14,
     <1>15, <1>16, <1>17, <1>18, <1>19, <1>20, <1>21, <1>22, <1>23, <1>24, <1>25 DEF Next,
     Settle, Reads, ChildWork

\* Every step keeps the name of the failure and of the outcome.
LEMMA NamedStep ==
  ASSUME TypeOK, OutcomeNamed, SettledNamed, Next
  PROVE  OutcomeNamed' /\ SettledNamed'
<1>1. ASSUME NEW r \in Run, Prompt(r) PROVE OutcomeNamed' /\ SettledNamed'
  <2>1. CASE ~refuses
    BY <1>1, <2>1 DEF Prompt, OutcomeNamed, SettledNamed, LimitCode, pumpVars
  <2>2. CASE refuses
    <3>1. /\ Fail(r, "RESULT_DELIVERY_FAILED") /\ failure[r] = "none"
          /\ UNCHANGED <<limits, channel, refuses>>
      BY <1>1, <2>2 DEF Prompt, pumpVars
    <3> QED
      BY <2>2, <3>1, FailFacts DEF OutcomeNamed, SettledNamed, LimitCode, Code
  <2> QED
    BY <2>1, <2>2
<1>2. ASSUME NEW r \in Run, PromptRefused(r) PROVE OutcomeNamed' /\ SettledNamed'
  BY <1>2, ResultAssumption DEF TypeOK, OutcomeNamed, SettledNamed, LimitCode, Code,
     PromptRefused, promptVars, outcomeVars, ledgerVars, pumpVars, sessionVars, childVars,
     queueVars
<1>3. ASSUME NEW r \in Run, Submit(r) PROVE OutcomeNamed' /\ SettledNamed'
  BY <1>3, ResultAssumption DEF TypeOK, OutcomeNamed, SettledNamed, LimitCode, Code, Submit,
     promptVars, outcomeVars, ledgerVars, pumpVars, sessionVars, queueVars
<1>4. ASSUME NEW r \in Run, OtherFailure(r) PROVE OutcomeNamed' /\ SettledNamed'
  BY <1>4, ResultAssumption DEF TypeOK, OutcomeNamed, SettledNamed, LimitCode, Active, Code,
     OtherFailure, Fail, promptVars, ledgerVars, pumpVars, sessionVars, childVars, queueVars
<1>5. ASSUME NEW r \in Run, RunTimer(r) PROVE OutcomeNamed' /\ SettledNamed'
  BY <1>5, ResultAssumption DEF TypeOK, OutcomeNamed, SettledNamed, LimitCode, Active, Code,
     RunTimer, TimeLimit, Fail, promptVars, ledgerVars, pumpVars, sessionVars, childVars,
     queueVars
<1>6. ASSUME NEW r \in Run, Return(r) PROVE OutcomeNamed' /\ SettledNamed'
  BY <1>6, ResultAssumption DEF TypeOK, OutcomeNamed, SettledNamed, LimitCode, Code, Return,
     promptVars, outcomeVars, ledgerVars, pumpVars, sessionVars, childVars, queueVars
<1>7. ASSUME NEW r \in Run, Throw(r) PROVE OutcomeNamed' /\ SettledNamed'
  BY <1>7, ResultAssumption DEF TypeOK, OutcomeNamed, SettledNamed, LimitCode, Active, Code,
     Throw, promptVars, ledgerVars, pumpVars, sessionVars, childVars, queueVars
<1>8. ASSUME NEW r \in Run, ReadFrame(r) PROVE OutcomeNamed' /\ SettledNamed'
  <2> DEFINE f == Head(stdout[r])
  <2>1. UNCHANGED pumpVars
    BY <1>8 DEF ReadFrame, ledgerVars, pumpVars
  <2>2. \/ UNCHANGED <<settled, failure, limits>>
        \/ Fail(r, "PROTOCOL_ERROR") /\ UNCHANGED limits
        \/ failure[r] = "none" /\ Start(r)
        \/ failure[r] = "none" /\ f \in {"tool", "stop", "error"} /\ Turn(r, f)
        \/ Complete(r, "acknowledged") /\ UNCHANGED <<failure, limits>>
        \/ Complete(r, "ended") /\ UNCHANGED <<failure, limits>>
    BY <1>8, Zenon DEF ReadFrame, outcomeVars
  <2>3. \/ UNCHANGED <<settled, failure, limits>>
        \/ Fail(r, "PROTOCOL_ERROR") /\ UNCHANGED limits
        \/ /\ failure[r] = "none" /\ Fail(r, "TURN_LIMIT")
           /\ limits' = [limits EXCEPT ![r] = limits[r] + 1]
        \/ \E flag \in Flag : Complete(r, flag) /\ UNCHANGED <<failure, limits>>
    BY <2>2, FrameFails DEF Flag
  <2>4. CASE UNCHANGED <<settled, failure, limits>>
    BY <2>1, <2>4 DEF OutcomeNamed, SettledNamed, pumpVars
  <2>5. CASE Fail(r, "PROTOCOL_ERROR") /\ UNCHANGED limits
    BY <2>1, <2>5, FailNamed DEF Code, LimitCode
  <2>6. CASE /\ failure[r] = "none" /\ Fail(r, "TURN_LIMIT")
             /\ limits' = [limits EXCEPT ![r] = limits[r] + 1]
    BY <2>1, <2>6, FailNamed DEF Code, LimitCode
  <2>7. ASSUME NEW flag \in Flag, Complete(r, flag), UNCHANGED <<failure, limits>>
        PROVE  OutcomeNamed' /\ SettledNamed'
    <3>1. \A q \in Run : settled'[q] = settled[q]
                        \/ settled'[q] \notin LimitCode \cup {"RESULT_DELIVERY_FAILED"}
      BY <2>7, CompleteFacts DEF TypeOK, LimitCode
    <3> QED
      BY <2>1, <2>7, <3>1 DEF OutcomeNamed, SettledNamed, LimitCode, pumpVars
  <2> QED
    BY <2>3, <2>4, <2>5, <2>6, <2>7
<1>9. ASSUME NEW r \in Run, CloseSeen(r) PROVE OutcomeNamed' /\ SettledNamed'
  BY <1>9, ResultAssumption DEF TypeOK, OutcomeNamed, SettledNamed, LimitCode, Code, CloseSeen,
     Fail, promptVars, ledgerVars, pumpVars, sessionVars, childVars, queueVars
<1>10. ASSUME NEW r \in Run, Receive(r) PROVE OutcomeNamed' /\ SettledNamed'
  BY <1>10, ResultAssumption DEF TypeOK, OutcomeNamed, SettledNamed, LimitCode, Active, Code,
     Receive, Save, Saved, Notify, Complete, Outcome, Over, Known, sessionVars, childVars
<1>11. ASSUME NEW r \in Run, CollectorTimer(r) PROVE OutcomeNamed' /\ SettledNamed'
  <2>1. CASE pc[r] \in Active
    <3>1. Fail(r, "TIME_LIMIT") /\ UNCHANGED pumpVars
      BY <1>11, <2>1 DEF CollectorTimer, TimeLimit
    <3>2. limits' = [limits EXCEPT ![r] = IF failure[r] = "none" THEN limits[r] + 1 ELSE limits[r]]
      BY <1>11, <2>1 DEF CollectorTimer, TimeLimit
    <3>3. CASE failure[r] = "none"
      <4>1. limits' = [limits EXCEPT ![r] = limits[r] + 1]
        BY <3>2, <3>3
      <4> QED
        BY <3>1, <3>3, <4>1, FailNamed DEF Code, LimitCode
    <3>4. CASE failure[r] # "none"
      <4>1. UNCHANGED limits
        BY <3>2, <3>4 DEF TypeOK
      <4> QED
        BY <3>1, <3>4, <4>1, FailNamed DEF Code, LimitCode
    <3> QED
      BY <3>3, <3>4
  <2>2. CASE pc[r] \notin Active
    BY <1>11, <2>2 DEF CollectorTimer, OutcomeNamed, SettledNamed, pumpVars
  <2> QED
    BY <2>1, <2>2
<1>12. ASSUME NEW r \in Run, Flush(r) PROVE OutcomeNamed' /\ SettledNamed'
  BY <1>12, ResultAssumption DEF TypeOK, OutcomeNamed, SettledNamed, LimitCode, Active, Code,
     Flush, rpcVars, promptVars, outcomeVars, pumpVars, childVars, queueVars
<1>13. ASSUME NEW r \in Run, Cleanup(r) PROVE OutcomeNamed' /\ SettledNamed'
  BY <1>13, ResultAssumption DEF TypeOK, OutcomeNamed, SettledNamed, LimitCode, Active, Code,
     Cleanup, promptVars, outcomeVars, ledgerVars, pumpVars, sessionVars, childVars, queueVars
<1>14. ASSUME NEW r \in Run, Acknowledge(r) PROVE OutcomeNamed' /\ SettledNamed'
  BY <1>14, ResultAssumption DEF TypeOK, OutcomeNamed, SettledNamed, LimitCode, Active, Code,
     Acknowledge, Says, rpcVars, promptVars, outcomeVars, ledgerVars, pumpVars, sessionVars
<1>15. ASSUME NEW r \in Run, TakeTurn(r) PROVE OutcomeNamed' /\ SettledNamed'
  BY <1>15, ResultAssumption DEF TypeOK, OutcomeNamed, SettledNamed, LimitCode, Active, Code,
     TakeTurn, Says, rpcVars, promptVars, outcomeVars, ledgerVars, pumpVars, sessionVars
<1>16. ASSUME NEW r \in Run, EndPass(r) PROVE OutcomeNamed' /\ SettledNamed'
  BY <1>16, ResultAssumption DEF TypeOK, OutcomeNamed, SettledNamed, LimitCode, Active, Code,
     EndPass, Says, rpcVars, promptVars, outcomeVars, ledgerVars, pumpVars, sessionVars
<1>17. ASSUME NEW r \in Run, BeginPass(r) PROVE OutcomeNamed' /\ SettledNamed'
  BY <1>17, ResultAssumption DEF TypeOK, OutcomeNamed, SettledNamed, LimitCode, Active, Code,
     BeginPass, Says, rpcVars, promptVars, outcomeVars, ledgerVars, pumpVars, sessionVars
<1>18. ASSUME NEW r \in Run, Publish(r) PROVE OutcomeNamed' /\ SettledNamed'
  BY <1>18, ResultAssumption DEF TypeOK, OutcomeNamed, SettledNamed, LimitCode, Active, Code,
     Publish, Sends, rpcVars, promptVars, outcomeVars, ledgerVars, pumpVars, sessionVars
<1>19. ASSUME NEW r \in Run, PublishStage(r) PROVE OutcomeNamed' /\ SettledNamed'
  BY <1>19, ResultAssumption DEF TypeOK, OutcomeNamed, SettledNamed, LimitCode, Active, Code,
     PublishStage, Sends, Message, rpcVars, promptVars, outcomeVars, ledgerVars, pumpVars,
     sessionVars
<1>20. ASSUME NEW r \in Run, Redeliver(r) PROVE OutcomeNamed' /\ SettledNamed'
  BY <1>20, ResultAssumption DEF TypeOK, OutcomeNamed, SettledNamed, LimitCode, Active, Code,
     Redeliver, Sends, rpcVars, promptVars, outcomeVars, ledgerVars, pumpVars, sessionVars
<1>21. ASSUME NEW r \in Run, Exit(r) PROVE OutcomeNamed' /\ SettledNamed'
  BY <1>21, ResultAssumption DEF TypeOK, OutcomeNamed, SettledNamed, LimitCode, Active, Code,
     Exit, rpcVars, promptVars, outcomeVars, ledgerVars, pumpVars, sessionVars, queueVars
<1>22. ASSUME PumpEnds PROVE OutcomeNamed' /\ SettledNamed'
  BY <1>22 DEF TypeOK, OutcomeNamed, SettledNamed, LimitCode, Active, Code, PumpEnds,
     RejectWaiters, promptVars, sessionVars, childVars, queueVars
<1>23. ASSUME WakeFails PROVE OutcomeNamed' /\ SettledNamed'
  BY <1>23 DEF TypeOK, OutcomeNamed, SettledNamed, LimitCode, Active, Code, WakeFails, rpcVars,
     promptVars, outcomeVars, sessionVars, childVars, queueVars
<1>24. ASSUME CloseChannel PROVE OutcomeNamed' /\ SettledNamed'
  BY <1>24 DEF TypeOK, OutcomeNamed, SettledNamed, LimitCode, Active, Code, CloseChannel,
     RejectWaiters, promptVars, sessionVars, childVars, queueVars
<1>25. ASSUME PumpStops PROVE OutcomeNamed' /\ SettledNamed'
  BY <1>25 DEF TypeOK, OutcomeNamed, SettledNamed, LimitCode, Active, Code, PumpStops,
     rpcVars, promptVars, outcomeVars, sessionVars, childVars, queueVars
<1> QED
  BY <1>1, <1>2, <1>3, <1>4, <1>5, <1>6, <1>7, <1>8, <1>9, <1>10, <1>11, <1>12, <1>13, <1>14,
     <1>15, <1>16, <1>17, <1>18, <1>19, <1>20, <1>21, <1>22, <1>23, <1>24, <1>25 DEF Next,
     Settle, Reads, ChildWork

\* Every step keeps the hand-off in the order in which it becomes a success.
LEMMA HandOffStep ==
  ASSUME TypeOK, EntryOnce, EntryKept, RunSound, HandOffSound, Next
  PROVE  HandOffSound'
<1>1. ASSUME NEW r \in Run, Prompt(r) PROVE HandOffSound'
  BY <1>1, ResultAssumption DEF TypeOK, EntryOnce, EntryKept, HandOffSound, Ended, Code, Known,
     Prompt, Fail, promptVars, sessionVars, childVars, queueVars
<1>2. ASSUME NEW r \in Run, PromptRefused(r) PROVE HandOffSound'
  BY <1>2, ResultAssumption DEF TypeOK, EntryOnce, EntryKept, HandOffSound, Ended, Code, Known,
     PromptRefused, promptVars, outcomeVars, ledgerVars, pumpVars, sessionVars, childVars,
     queueVars
<1>3. ASSUME NEW r \in Run, Submit(r) PROVE HandOffSound'
  BY <1>3, ResultAssumption DEF TypeOK, EntryOnce, EntryKept, HandOffSound, Ended, Code, Known,
     Submit, promptVars, outcomeVars, ledgerVars, pumpVars, sessionVars, queueVars
<1>4. ASSUME NEW r \in Run, OtherFailure(r) PROVE HandOffSound'
  BY <1>4, ResultAssumption DEF TypeOK, EntryOnce, EntryKept, HandOffSound, Ended, Active, Code,
     Known, OtherFailure, Fail, promptVars, ledgerVars, pumpVars, sessionVars, childVars,
     queueVars
<1>5. ASSUME NEW r \in Run, RunTimer(r) PROVE HandOffSound'
  BY <1>5, ResultAssumption DEF TypeOK, EntryOnce, EntryKept, HandOffSound, Ended, Active, Code,
     Known, RunTimer, TimeLimit, Fail, promptVars, ledgerVars, pumpVars, sessionVars,
     childVars, queueVars
<1>6. ASSUME NEW r \in Run, Return(r) PROVE HandOffSound'
  BY <1>6, ResultAssumption DEF TypeOK, EntryOnce, EntryKept, HandOffSound, Ended, Code, Known,
     Return, promptVars, outcomeVars, ledgerVars, pumpVars, sessionVars, childVars, queueVars
<1>7. ASSUME NEW r \in Run, Throw(r) PROVE HandOffSound'
  BY <1>7, ResultAssumption DEF TypeOK, EntryOnce, EntryKept, HandOffSound, Ended, Active, Code,
     Known, Throw, promptVars, ledgerVars, pumpVars, sessionVars, childVars, queueVars
<1>8. ASSUME NEW r \in Run, ReadFrame(r) PROVE HandOffSound'
  <2> DEFINE f == Head(stdout[r])
  <2>1. UNCHANGED <<pc, status, memory, published, inbox>>
    BY <1>8 DEF ReadFrame, ledgerVars, pumpVars, sessionVars, childVars
  <2>2. \/ UNCHANGED <<run, settled>>
        \/ UNCHANGED run /\ \E code \in Code : Fail(r, code)
        \/ failure[r] = "none" /\ Start(r)
        \/ Complete(r, "acknowledged") \/ Complete(r, "ended")
    <3>1. \/ UNCHANGED <<run, settled>>
          \/ UNCHANGED run /\ Fail(r, "PROTOCOL_ERROR")
          \/ failure[r] = "none" /\ Start(r)
          \/ failure[r] = "none" /\ f \in {"tool", "stop", "error"} /\ Turn(r, f) /\ UNCHANGED run
          \/ Complete(r, "acknowledged") \/ Complete(r, "ended")
      BY <1>8, Zenon DEF ReadFrame, outcomeVars, promptVars
    <3> QED
      BY <3>1, FrameFails DEF Code
  <2>3. CASE UNCHANGED <<run, settled>>
    BY <2>1, <2>3 DEF HandOffSound
  <2>4. ASSUME UNCHANGED run, NEW code \in Code, Fail(r, code) PROVE HandOffSound'
    <3>1. \A q \in Run : settled'[q] = "resolved" <=> settled[q] = "resolved"
      BY <2>4 DEF Fail, TypeOK, Code
    <3> QED
      BY <2>1, <2>4, <3>1 DEF HandOffSound
  <2>5. CASE failure[r] = "none" /\ Start(r)
    <3>1. \A q \in Run : settled'[q] = "resolved" <=> settled[q] = "resolved"
      BY <2>5 DEF Start, Fail, TypeOK, Code, outcomeVars
    <3>2. CASE UNCHANGED run
      BY <2>1, <3>1, <3>2 DEF HandOffSound
    <3>3. CASE MayStart(run[r]) /\ run' = [run EXCEPT ![r] = (run[r] \ {"ended"}) \cup {"started"}]
      <4>1. settled[r] # "resolved"
        BY <3>3 DEF MayStart, HandOffSound, RunSound
      <4> QED
        BY <2>1, <3>1, <3>3, <4>1 DEF HandOffSound, TypeOK
    <3> QED
      BY <2>5, <3>2, <3>3 DEF Start
  <2>6. ASSUME NEW flag \in {"acknowledged", "ended"}, Complete(r, flag) PROVE HandOffSound'
    <3>1. settled[r] = "resolved" => settled'[r] = "resolved"
      BY <2>6 DEF Complete, TypeOK
    <3> QED
      BY <2>1, <2>6, <3>1, CompleteFacts DEF HandOffSound, Flag, TypeOK
  <2> QED
    BY <2>2, <2>3, <2>4, <2>5, <2>6
<1>9. ASSUME NEW r \in Run, CloseSeen(r) PROVE HandOffSound'
  BY <1>9, ResultAssumption DEF TypeOK, EntryOnce, EntryKept, HandOffSound, Ended, Code, Known,
     CloseSeen, Fail, promptVars, ledgerVars, pumpVars, sessionVars, childVars, queueVars
<1>10. ASSUME NEW r \in Run, Receive(r) PROVE HandOffSound'
  <2>1. /\ inbox[r] # <<>> /\ inbox' = [inbox EXCEPT ![r] = Tail(inbox[r])]
        /\ UNCHANGED <<pc, published>>
    BY <1>10 DEF Receive, childVars
  <2>2. \A q \in Run : \A i \in 1 .. Len(inbox'[q]) :
          inbox'[q][i] = "received" => published'[q] >= 3
    <3> SUFFICES ASSUME NEW q \in Run, NEW i \in 1 .. Len(inbox'[q]), inbox'[q][i] = "received"
                 PROVE  published[q] >= 3
      BY <2>1
    <3>1. \E j \in 1 .. Len(inbox[q]) : inbox[q][j] = "received"
      BY <2>1 DEF TypeOK
    <3> QED
      BY <3>1 DEF HandOffSound
  <2>3. /\ \A q \in Run : status[q] \subseteq status'[q]
        /\ \A q \in Run : "received" \in status'[q] /\ "received" \notin status[q]
             => q = r /\ Head(inbox[r]) = "received"
    <3>1. PICK x \in SUBSET {"produced", "accepted", "received", "ingested"} :
            /\ status' = [status EXCEPT ![r] = status[r] \cup x]
            /\ "received" \in x => Head(inbox[r]) = "received"
      <4>1. CASE Head(inbox[r]) = "result"
        <5>1. PICK y \in SUBSET {"ingested"} :
                status' = [status EXCEPT ![r] = status[r] \cup {"produced"} \cup y]
          BY <1>10, <4>1, Zenon DEF Receive
        <5> WITNESS {"produced"} \cup y \in SUBSET {"produced", "accepted", "received",
        "ingested"}
        <5> QED
          BY <5>1
      <4>2. CASE Head(inbox[r]) \in {"accepted", "received"}
        <5>1. status' = [status EXCEPT ![r] = status[r] \cup {Head(inbox[r])}]
          BY <1>10, <4>2, Zenon DEF Receive
        <5>2. {Head(inbox[r])} \in SUBSET {"produced", "accepted", "received", "ingested"}
          BY <4>2
        <5> WITNESS {Head(inbox[r])} \in SUBSET {"produced", "accepted", "received", "ingested"}
        <5> QED
          BY <4>2, <5>1
      <4> QED
        BY <1>10, <4>1, <4>2 DEF Receive
    <3> QED
      BY <3>1 DEF TypeOK
  <2>4. \A q \in Run : "received" \in status'[q] => published'[q] >= 3
    <3> SUFFICES ASSUME NEW q \in Run, "received" \in status'[q] PROVE published[q] >= 3
      BY <2>1
    <3>1. CASE "received" \in status[q]
      BY <3>1 DEF HandOffSound
    <3>2. CASE "received" \notin status[q]
      <4>1. 1 \in 1 .. Len(inbox[r]) /\ inbox[r][1] = Head(inbox[r])
        BY <2>1 DEF TypeOK
      <4> QED
        BY <2>3, <3>2, <4>1 DEF HandOffSound
    <3> QED
      BY <3>1, <3>2
  <2>5. \/ UNCHANGED <<run, settled>>
        \/ Known(status'[r]) /\ Complete(r, "delivered")
    BY <1>10 DEF Receive, Notify
  <2>6. \A q \in Run :
          /\ "delivered" \in run'[q] => Known(status'[q])
          /\ settled'[q] = "resolved" => {"ended", "delivered"} \subseteq run'[q]
          /\ settled[q] = "resolved" => settled'[q] = "resolved"
    <3>1. CASE UNCHANGED <<run, settled>>
      BY <2>3, <3>1 DEF HandOffSound, Known
    <3>2. CASE Known(status'[r]) /\ Complete(r, "delivered")
      <4>1. settled[r] = "resolved" => settled'[r] = "resolved"
        BY <3>2 DEF Complete, TypeOK
      <4> QED
        BY <2>3, <3>2, <4>1, CompleteFacts DEF HandOffSound, Known, TypeOK, Flag
    <3> QED
      BY <2>5, <3>1, <3>2
  <2>7. \A q \in Run : memory[q] = 1 => memory'[q] = 1
    BY <1>10 DEF Receive, Save, sessionVars, TypeOK
  <2> QED
    BY <2>1, <2>2, <2>3, <2>4, <2>6, <2>7 DEF HandOffSound, Ended
<1>11. ASSUME NEW r \in Run, CollectorTimer(r) PROVE HandOffSound'
  BY <1>11, ResultAssumption DEF TypeOK, EntryOnce, EntryKept, HandOffSound, Ended, Active,
     Code, Known, CollectorTimer, TimeLimit, Fail, promptVars, sessionVars, childVars, queueVars
<1>12. ASSUME NEW r \in Run, Flush(r) PROVE HandOffSound'
  BY <1>12, ResultAssumption DEF TypeOK, EntryOnce, EntryKept, HandOffSound, Ended, Code, Known,
     Flush, rpcVars, promptVars, outcomeVars, pumpVars, childVars, queueVars
<1>13. ASSUME NEW r \in Run, Cleanup(r) PROVE HandOffSound'
  <2>1. /\ pc[r] \in {"cleaning", "received", "cleanup-error"}
        /\ \/ pc' = [pc EXCEPT ![r] = "cleanup-error"]
           \/ /\ pc' = [pc EXCEPT ![r] = "cleaned"]
              /\ "ingested" \in status[r] /\ disk[r] = 1
        /\ UNCHANGED <<settled, inbox, published, status, run, memory>>
    BY <1>13 DEF Cleanup, outcomeVars, queueVars, childVars, ledgerVars, pumpVars,
       sessionVars, promptVars
  <2>2. disk[r] = 1 => memory[r] = 1
    BY EntryRange
  <2> QED
    BY <2>1, <2>2 DEF TypeOK, HandOffSound, Ended
<1>14. ASSUME NEW r \in Run, Acknowledge(r) PROVE HandOffSound'
  BY <1>14, ResultAssumption DEF TypeOK, EntryOnce, EntryKept, HandOffSound, Ended, Code, Known,
     Acknowledge, Says, rpcVars, promptVars, outcomeVars, ledgerVars, pumpVars, sessionVars
<1>15. ASSUME NEW r \in Run, TakeTurn(r) PROVE HandOffSound'
  BY <1>15, ResultAssumption DEF TypeOK, EntryOnce, EntryKept, HandOffSound, Ended, Code, Known,
     TakeTurn, Says, rpcVars, promptVars, outcomeVars, ledgerVars, pumpVars, sessionVars
<1>16. ASSUME NEW r \in Run, EndPass(r) PROVE HandOffSound'
  BY <1>16, ResultAssumption DEF TypeOK, EntryOnce, EntryKept, HandOffSound, Ended, Code, Known,
     EndPass, Says, rpcVars, promptVars, outcomeVars, ledgerVars, pumpVars, sessionVars
<1>17. ASSUME NEW r \in Run, BeginPass(r) PROVE HandOffSound'
  BY <1>17, ResultAssumption DEF TypeOK, EntryOnce, EntryKept, HandOffSound, Ended, Code, Known,
     BeginPass, Says, rpcVars, promptVars, outcomeVars, ledgerVars, pumpVars, sessionVars
<1>18. ASSUME NEW r \in Run, Publish(r) PROVE HandOffSound'
  BY <1>18, ResultAssumption DEF TypeOK, EntryOnce, EntryKept, HandOffSound, Ended, Code, Known,
     Publish, Sends, rpcVars, promptVars, outcomeVars, ledgerVars, pumpVars, sessionVars
<1>19. ASSUME NEW r \in Run, PublishStage(r) PROVE HandOffSound'
  BY <1>19, ResultAssumption DEF TypeOK, EntryOnce, EntryKept, HandOffSound, Ended, Code, Known,
     PublishStage, Sends, Message, rpcVars, promptVars, outcomeVars, ledgerVars, pumpVars,
     sessionVars
<1>20. ASSUME NEW r \in Run, Redeliver(r) PROVE HandOffSound'
  BY <1>20, ResultAssumption DEF TypeOK, EntryOnce, EntryKept, HandOffSound, Ended, Code, Known,
     Redeliver, Sends, rpcVars, promptVars, outcomeVars, ledgerVars, pumpVars, sessionVars
<1>21. ASSUME NEW r \in Run, Exit(r) PROVE HandOffSound'
  BY <1>21, ResultAssumption DEF TypeOK, EntryOnce, EntryKept, HandOffSound, Ended, Code, Known,
     Exit, rpcVars, promptVars, outcomeVars, ledgerVars, pumpVars, sessionVars, queueVars
<1>22. ASSUME PumpEnds PROVE HandOffSound'
  BY <1>22 DEF TypeOK, EntryOnce, EntryKept, HandOffSound, Ended, Active, Code, Known, PumpEnds,
     RejectWaiters, promptVars, sessionVars, childVars, queueVars
<1>23. ASSUME WakeFails PROVE HandOffSound'
  BY <1>23 DEF TypeOK, EntryOnce, EntryKept, HandOffSound, Ended, Code, Known, WakeFails,
     rpcVars, promptVars, outcomeVars, sessionVars, childVars, queueVars
<1>24. ASSUME CloseChannel PROVE HandOffSound'
  BY <1>24 DEF TypeOK, HandOffSound, Ended, Active, Code, Known, CloseChannel, RejectWaiters,
     promptVars, sessionVars, childVars, queueVars
<1>25. ASSUME PumpStops PROVE HandOffSound'
  BY <1>25 DEF TypeOK, HandOffSound, Ended, Active, Code, Known, PumpStops,
     rpcVars, promptVars, outcomeVars, sessionVars, childVars, queueVars
<1> QED
  BY <1>1, <1>2, <1>3, <1>4, <1>5, <1>6, <1>7, <1>8, <1>9, <1>10, <1>11, <1>12, <1>13, <1>14,
     <1>15, <1>16, <1>17, <1>18, <1>19, <1>20, <1>21, <1>22, <1>23, <1>24, <1>25 DEF Next,
     Settle, Reads, ChildWork

\* Every step keeps the order of a pass: it ends after it started.
LEMMA RunStep ==
  ASSUME TypeOK, RunSound, Next
  PROVE  RunSound'
<1>1. CASE UNCHANGED run
  BY <1>1 DEF RunSound
<1>2. ASSUME NEW r \in Run,
             \/ run' = [run EXCEPT ![r] = (run[r] \ {"ended"}) \cup {"started"}]
             \/ "started" \in run[r] /\ run' = [run EXCEPT ![r] = run[r] \cup {"ended"}]
             \/ \E flag \in {"acknowledged", "delivered"} :
                  run' = [run EXCEPT ![r] = run[r] \cup {flag}]
      PROVE  RunSound'
  <2>1. CASE run' = [run EXCEPT ![r] = (run[r] \ {"ended"}) \cup {"started"}]
    BY <2>1 DEF RunSound, TypeOK
  <2>2. CASE "started" \in run[r] /\ run' = [run EXCEPT ![r] = run[r] \cup {"ended"}]
    BY <2>2 DEF RunSound, TypeOK
  <2>3. ASSUME NEW flag \in {"acknowledged", "delivered"},
               run' = [run EXCEPT ![r] = run[r] \cup {flag}]
        PROVE  RunSound'
    BY <2>3 DEF RunSound, TypeOK
  <2> QED
    BY <1>2, <2>1, <2>2, <2>3
<1>3. ASSUME NEW r \in Run, ReadFrame(r) PROVE RunSound'
  <2>1. \/ UNCHANGED run
        \/ Start(r)
        \/ "started" \in run[r] /\ Complete(r, "ended")
        \/ Complete(r, "acknowledged")
    BY <1>3, Zenon DEF ReadFrame, promptVars
  <2>2. CASE Start(r)
    BY <1>1, <1>2, <2>2, Zenon DEF Start
  <2>3. CASE "started" \in run[r] /\ Complete(r, "ended")
    BY <1>2, <2>3 DEF Complete
  <2>4. CASE Complete(r, "acknowledged")
    BY <1>2, <2>4 DEF Complete
  <2> QED
    BY <1>1, <2>1, <2>2, <2>3, <2>4
<1>4. ASSUME NEW r \in Run, Receive(r) PROVE RunSound'
  <2>1. UNCHANGED run \/ Complete(r, "delivered")
    BY <1>4 DEF Receive, Notify
  <2> QED
    BY <1>1, <1>2, <2>1 DEF Complete
<1>5. \/ UNCHANGED run
      \/ \E r \in Run : ReadFrame(r) \/ Receive(r)
  BY Zenon DEF Next, Prompt, PromptRefused, Submit, OtherFailure, RunTimer, Settle, Return,
     Throw, Reads, CloseSeen, CollectorTimer, Flush, Cleanup, ChildWork, Acknowledge, TakeTurn,
     EndPass, BeginPass, Publish, PublishStage, Redeliver, Exit, PumpEnds, CloseChannel,
     PumpStops, WakeFails, rpcVars,
     promptVars
<1> QED
  BY <1>1, <1>3, <1>4, <1>5

-----------------------------------------------------------------------------
(* The theorems. *)

\* The parent starts with nothing settled, nothing written and nothing sent.
LEMMA InitInv == Init => ResultInv
<1> SUFFICES ASSUME Init PROVE ResultInv
  OBVIOUS
<1>1. TypeOK
  <2>1. /\ stdout \in [Run -> Seq(Frame)]
        /\ inbox \in [Run -> Seq({"result", "accepted", "received"})]
    BY DEF Init
  <2>2. /\ run \in [Run -> SUBSET Flag]
        /\ status \in [Run -> SUBSET {"produced", "accepted", "received", "ingested"}]
    BY DEF Init
  <2>3. /\ turns \in [Run -> 0 .. MaxTurns] /\ passes \in [Run -> 0 .. MaxPasses]
        /\ limits \in [Run -> 0 .. 1] /\ published \in [Run -> 0 .. 4]
        /\ memory \in [Run -> 0 .. 2] /\ disk \in [Run -> 0 .. 2]
    BY ResultAssumption DEF Init
  <2>4. torn \in BOOLEAN /\ acked \in [Run -> BOOLEAN]
    BY DEF Init
  <2>5. /\ pc \in [Run -> {"ready", "verifying", "submitted", "received", "cleaning", "cleaned",
                          "cleanup-error", "threw"}]
        /\ assistant \in [Run -> Reason] /\ said \in [Run -> Reason]
        /\ settled \in [Run -> Code \cup {"pending", "resolved"}]
        /\ failure \in [Run -> Code \cup {"none"}]
        /\ waiter \in [Run -> {"none", "waiting", "resolved", "rejected"}]
        /\ channel \in {"up", "closing", "ended"} /\ refuses \in BOOLEAN
        /\ child \in [Run -> {"waiting", "idle", "running", "gone"}]
    BY DEF Init, Reason
  <2> QED
    BY <2>1, <2>2, <2>3, <2>4, <2>5 DEF TypeOK
<1>2. EntryOnce /\ EntryKept /\ OutcomeNamed /\ SettledNamed /\ RunSound
  BY DEF Init, EntryOnce, EntryKept, OutcomeNamed, SettledNamed, RunSound, LimitCode
<1>3. HandOffSound
  <2>1. ASSUME NEW r \in Run
        PROVE  /\ inbox[r] = <<>> /\ status[r] = {} /\ run[r] = {}
               /\ settled[r] = "pending" /\ pc[r] = "ready"
    BY DEF Init
  <2>2. \A r \in Run : \A i \in 1 .. Len(inbox[r]) : FALSE
    <3>1. Len(<<>>) = 0
      OBVIOUS
    <3> QED
      BY <2>1, <3>1
  <2> QED
    BY <2>1, <2>2, Zenon DEF HandOffSound, Ended
<1> QED
  BY <1>1, <1>2, <1>3 DEF ResultInv

\* A step that changes nothing keeps the invariant.
LEMMA StutterInv == ResultInv /\ UNCHANGED vars => ResultInv'
<1> SUFFICES ASSUME ResultInv, UNCHANGED vars PROVE ResultInv'
  OBVIOUS
<1>1. /\ UNCHANGED <<pc, run, turns, assistant, settled, failure, limits>>
      /\ UNCHANGED <<waiter, status, channel, refuses, memory, disk, torn>>
      /\ UNCHANGED <<child, said, acked, passes, published, stdout, inbox>>
  BY DEF vars, rpcVars, promptVars, outcomeVars, ledgerVars, pumpVars, sessionVars, childVars,
     queueVars
<1> QED
  BY <1>1 DEF ResultInv, TypeOK, EntryOnce, EntryKept, OutcomeNamed, SettledNamed, RunSound,
     HandOffSound

\* The conjuncts are inductive together: which result may be noted as ingested depends on
\* the entries, which limit is counted on the failure, and success on the whole hand-off.
LEMMA Invariance == Spec => []ResultInv
<1>1. ResultInv /\ Next => ResultInv'
  BY TypeStep, EntryStep, NamedStep, RunStep, HandOffStep DEF ResultInv
<1> QED
  BY InitInv, StutterInv, <1>1, PTL DEF Spec

\* Every prompt counts one limit at most, whichever timers and turns exceed it, and every
\* other variable of the parent and the child keeps its type.
THEOREM TypeCorrect == Spec => []TypeOK
<1>1. ResultInv => TypeOK
  BY DEF ResultInv
<1> QED
  BY Invariance, <1>1, PTL

\* No prompt of a managed child succeeds before its result was published, produced, accepted
\* and received, and none is cleaned up whose result is not in the session.
THEOREM HandedOverAlways == Spec => []HandedOver
<1>1. ResultInv => HandedOver
  BY DEF ResultInv, HandOffSound, HandedOver, Ended, Known
<1> QED
  BY Invariance, <1>1, PTL

\* The session has one entry for a result, and what is called ingested is in its file.
THEOREM EntryOnceAlways == Spec => []EntryOnce
<1>1. ResultInv => EntryOnce
  BY DEF ResultInv
<1> QED
  BY Invariance, <1>1, PTL

\* A limit is reported as a limit, once, and a delivery failure is one of the channel.
THEOREM OutcomeNamedAlways == Spec => []OutcomeNamed
<1>1. ResultInv => OutcomeNamed
  BY DEF ResultInv
<1> QED
  BY Invariance, <1>1, PTL
=============================================================================
