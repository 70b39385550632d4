--------------------------- MODULE ProcessRun_proofs ---------------------------
(***************************************************************************)
(* Proofs about ProcessRun, for any number of concurrent callers: the slot *)
(* is held while the process lives, "completed" is honest, a run that is   *)
(* over stays over, and the whole implements ProcessOwnership.             *)
(***************************************************************************)
EXTENDS ProcessRun, TLAPS

\* Where execute() does not use its connection any more.
Late == {"threw", "catch-closing", "tidying", "cleaning", "finally", "releasing", "done"}
Releasing == {"abort-releasing", "releasing", "released"}

\* How far execute() and the calls beside it are says what has happened to the process.
ProgressSound ==
  /\ main = "registering" => proc = "none" /\ slot /\ phase = "none"
  /\ main = "releasing" => ~Alive
  /\ result # "none" => main \in Late
  /\ \A c \in Call : call[c] # "idle" => proc # "none"

\* A call that goes on to the slot has seen the end of the process; a cleanup has seen the
\* result in the session.
ReleaseSound ==
  \A c \in Call :
    /\ call[c] \in Releasing => ~Alive
    /\ call[c] = "released" => ~slot
    /\ call[c] \in {"cleaning", "releasing", "released"} => result = "ingested"

\* Whoever puts the end of a run on record has ended its connection, its parent or both.
StopSound ==
  /\ told \/ write = "told" => disposal # "no"
  /\ write \in {"gone", "kept"} => parent = "gone"
  /\ phase \in Over => failed # "no" \/ disposal # "no" \/ parent = "gone" \/ main \in Late

\* A step as the abstract ownership sees it.
Sends == Alive /\ ~taken /\ (\E s \in {"abort", "term", "kill"} : sent' = sent \cup {s})
           /\ UNCHANGED <<taken, proc, slot>>
Starts == slot /\ proc = "none" /\ proc' = "alive" /\ UNCHANGED <<taken, sent, slot>>
Ages == proc # "none" /\ proc' \in {"zombie", "exited", "closed"} /\ (Alive' => Alive)
           /\ UNCHANGED <<taken, sent, slot>>
Takes == proc = "alive" /\ ~taken /\ taken' /\ UNCHANGED <<proc, sent, slot>>
Frees == slot /\ slot' = FALSE /\ ~Alive /\ ~taken /\ UNCHANGED <<taken, proc, sent>>
Owned == UNCHANGED <<taken, proc, sent, slot>> \/ Sends \/ Starts \/ Ages \/ Takes \/ Frees

RunInv ==
  /\ TypeOK /\ ProgressSound /\ ReleaseSound /\ SlotHeld /\ CompletedHonest /\ StopSound

-----------------------------------------------------------------------------
(* The connection. *)

RpcTyped ==
  /\ failed \in {"no", "exited", "other"}
  /\ stop \in {"no", "armed", "termed", "killed", "cancelled"}
  /\ refused \in BOOLEAN
  /\ sent \subseteq {"abort", "term", "kill"}

\* stopOwned() keeps the types of what it changes.
LEMMA StopTyped ==
  ASSUME TypeOK, StopOwned
  PROVE  /\ stop' \in {"no", "armed", "termed", "killed", "cancelled"}
         /\ refused' \in BOOLEAN
         /\ sent' \subseteq {"abort", "term", "kill"}
<1>1. CASE UNCHANGED <<stop, refused, sent>>
  BY <1>1, Zenon DEF TypeOK
<1>2. CASE stop' = "armed" /\ sent' \in {sent, sent \cup {"abort"}} /\ UNCHANGED refused
  <2>1. refused' \in BOOLEAN
    BY <1>2, Zenon DEF TypeOK
  <2>2. sent \subseteq {"abort", "term", "kill"}
    BY Zenon DEF TypeOK
  <2> QED
    BY <1>2, <2>1, <2>2
<1>3. CASE refused' = TRUE /\ UNCHANGED <<stop, sent>>
  BY <1>3, Zenon DEF TypeOK
<1> QED
  BY <1>1, <1>2, <1>3 DEF StopOwned

\* However the connection fails, closes or detaches, its four variables keep their types.
LEMMA RpcStep ==
  ASSUME TypeOK,
         \/ Close \/ Detach \/ UNCHANGED rpcVars
         \/ \E code \in {"exited", "other"} : Fail(code)
  PROVE  RpcTyped'
<1>1. RpcTyped
  BY Zenon DEF TypeOK, RpcTyped
<1>2. CASE UNCHANGED rpcVars
  BY <1>1, <1>2 DEF RpcTyped, rpcVars
<1>3. CASE StopOwned /\ failed' \in {failed, "exited", "other"}
  BY <1>1, <1>3, StopTyped DEF RpcTyped
<1>4. CASE Detach
  BY <1>1, <1>4 DEF RpcTyped, Detach, CancelTimers
<1> QED
  BY <1>2, <1>3, <1>4 DEF Close, Fail

\* What a cleanup changes when it starts keeps its types.
LEMMA CleanupTyped ==
  ASSUME TypeOK, NEW c \in Call, CleanupStarts(c)
  PROVE  /\ RpcTyped' /\ phase' \in Phase /\ stopping' \in BOOLEAN
         /\ \E s \in {"idle", "cleaning"} : call' = [call EXCEPT ![c] = s]
         /\ UNCHANGED <<bound, taken, lock, childVars, error, handle, tracked, result, hostVars>>
<1>1. RpcTyped'
  BY RpcStep DEF CleanupStarts
<1>2. stopping' \in BOOLEAN
  BY Zenon DEF CleanupStarts, CleanupError
<1>3. phase' \in Phase
  BY DEF CleanupStarts, CleanupError, TypeOK, Phase
<1>4. \E s \in {"idle", "cleaning"} : call' = [call EXCEPT ![c] = s]
  BY DEF CleanupStarts, CleanupError, Become
<1> QED
  BY <1>1, <1>2, <1>3, <1>4 DEF CleanupStarts

\* Every step keeps the types.
LEMMA TypeStep ==
  ASSUME TypeOK, ProgressSound, Next
  PROVE  TypeOK'
<1>1. ASSUME RegisterFails PROVE TypeOK'
  BY <1>1 DEF TypeOK, ProgressSound, Phase, RegisterFails, childVars, rpcVars, hostVars
<1>2. ASSUME ConnectionFails PROVE TypeOK'
  <2>1. RpcTyped'
    BY <1>2, RpcStep DEF ConnectionFails
  <2> QED
    BY <1>2, <2>1 DEF ConnectionFails, TypeOK, RpcTyped, Phase, recordVars, childVars, runVars,
       hostVars
<1>3. ASSUME HandOff PROVE TypeOK'
  <2>1. RpcTyped'
    BY <1>3, RpcStep DEF HandOff
  <2> QED
    BY <1>3, <2>1 DEF HandOff, TypeOK, RpcTyped, ProgressSound, Phase, childVars, hostVars
<1>4. ASSUME Dialog PROVE TypeOK'
  <2>1. RpcTyped'
    BY <1>4, RpcStep DEF Dialog
  <2> QED
    BY <1>4, <2>1 DEF Dialog, TypeOK, RpcTyped, Phase, childVars, rpcVars, runVars, hostVars
<1>5. ASSUME CatchLeaves PROVE TypeOK'
  <2>1. RpcTyped'
    BY <1>5, RpcStep DEF CatchLeaves
  <2>2. tracked' \in BOOLEAN
    BY <1>5, Zenon DEF CatchLeaves
  <2> QED
    BY <1>5, <2>1, <2>2 DEF CatchLeaves, TypeOK, RpcTyped, Phase, recordVars, childVars,
       rpcVars, hostVars
<1>6. ASSUME CatchStops PROVE TypeOK'
  <2>1. RpcTyped'
    BY <1>6, RpcStep DEF CatchStops
  <2>2. tracked' \in BOOLEAN /\ stopping' \in BOOLEAN
    BY <1>6, Zenon DEF CatchStops
  <2>3. main' \in {"catch-closing", "finally"} /\ phase' \in Phase
    BY <1>6 DEF CatchStops, TypeOK, Phase
  <2>4. UNCHANGED <<bound, taken, lock, childVars, error, handle, result, call, hostVars>>
    BY <1>6 DEF CatchStops
  <2> QED
    BY <2>1, <2>2, <2>3, <2>4 DEF TypeOK, RpcTyped, Phase, recordVars, childVars, rpcVars,
       runVars, hostVars
<1>7. ASSUME Tidy PROVE TypeOK'
  <2>1. CASE CleanupStarts(Self) /\ main' = IF call'[Self] = "idle" THEN "finally" ELSE "cleaning"
    <3>1. Self \in Call
      BY DEF Call
    <3> QED
      BY <2>1, <3>1, CleanupTyped DEF TypeOK, RpcTyped, childVars, hostVars
  <2>2. CASE /\ main' = "finally"
             /\ UNCHANGED <<recordVars, childVars, rpcVars, error, handle, stopping>>
             /\ UNCHANGED <<tracked, result, call, hostVars>>
    BY <2>2 DEF TypeOK, recordVars, childVars, rpcVars, hostVars
  <2> QED
    BY <1>7, <2>1, <2>2 DEF Tidy
<1>8. ASSUME Tidied PROVE TypeOK'
  BY <1>8 DEF TypeOK, ProgressSound, Phase, Tidied, recordVars, childVars, rpcVars, hostVars
<1>9. ASSUME Finally PROVE TypeOK'
  BY <1>9 DEF TypeOK, ProgressSound, Phase, Finally, recordVars, childVars, rpcVars, hostVars
<1>10. ASSUME Register PROVE TypeOK'
  BY <1>10 DEF TypeOK, ProgressSound, Phase, Register, recordVars, childVars, rpcVars, hostVars
<1>11. ASSUME BindReply PROVE TypeOK'
  BY <1>11 DEF TypeOK, ProgressSound, Phase, BindReply, recordVars, childVars, rpcVars, hostVars
<1>12. ASSUME BindFails PROVE TypeOK'
  BY <1>12 DEF TypeOK, ProgressSound, Phase, BindFails, Detach, CancelTimers, recordVars,
     childVars, rpcVars, hostVars
<1>13. ASSUME Ready PROVE TypeOK'
  BY <1>13 DEF TypeOK, ProgressSound, Phase, Ready, recordVars, childVars, rpcVars, hostVars
<1>14. ASSUME StartFails PROVE TypeOK'
  <2>1. RpcTyped'
    BY <1>14, RpcStep DEF StartFails
  <2> QED
    BY <1>14, <2>1 DEF StartFails, TypeOK, RpcTyped, Phase, recordVars, childVars, rpcVars,
       hostVars
<1>15. ASSUME StartClosed PROVE TypeOK'
  BY <1>15 DEF TypeOK, ProgressSound, Phase, StartClosed, recordVars, childVars, rpcVars,
     hostVars
<1>16. ASSUME CatchClosed PROVE TypeOK'
  <2>1. RpcTyped'
    BY <1>16, RpcStep DEF CatchClosed
  <2>2. tracked' \in BOOLEAN
    BY <1>16, Zenon DEF CatchClosed
  <2> QED
    BY <1>16, <2>1, <2>2 DEF CatchClosed, TypeOK, RpcTyped, Phase, recordVars, childVars,
       rpcVars, hostVars
<1>17. ASSUME MainReleases PROVE TypeOK'
  BY <1>17 DEF TypeOK, ProgressSound, Phase, MainReleases, Releases, recordVars, childVars,
     rpcVars, hostVars
<1>18. ASSUME ExitSeen PROVE TypeOK'
  BY <1>18 DEF TypeOK, ProgressSound, Phase, ExitSeen, recordVars, childVars, rpcVars, runVars,
     hostVars
<1>19. ASSUME CloseSeen PROVE TypeOK'
  <2>1. RpcTyped'
    BY <1>19, RpcStep DEF CloseSeen
  <2> QED
    BY <1>19, <2>1 DEF CloseSeen, TypeOK, RpcTyped, Phase, recordVars, childVars, rpcVars,
       runVars, hostVars
<1>20. ASSUME TermTimer PROVE TypeOK'
  <2>1. refused' \in BOOLEAN
    BY <1>20, Zenon DEF TermTimer, TypeOK
  <2>2. stop' \in {"termed", "cancelled"} /\ sent' \in {sent, sent \cup {"term"}}
    BY <1>20 DEF TermTimer
  <2>3. UNCHANGED <<recordVars, childVars, failed, runVars, call, hostVars>>
    BY <1>20 DEF TermTimer
  <2> QED
    BY <2>1, <2>2, <2>3 DEF TypeOK, Phase, recordVars, childVars, rpcVars, runVars, hostVars
<1>21. ASSUME KillTimer PROVE TypeOK'
  <2>1. refused' \in BOOLEAN
    BY <1>21, Zenon DEF KillTimer, TypeOK
  <2>2. stop' \in {"killed", "cancelled"} /\ sent' \in {sent, sent \cup {"kill"}}
    BY <1>21 DEF KillTimer
  <2>3. UNCHANGED <<recordVars, childVars, failed, runVars, call, hostVars>>
    BY <1>21 DEF KillTimer
  <2> QED
    BY <2>1, <2>2, <2>3 DEF TypeOK, Phase, recordVars, childVars, rpcVars, runVars, hostVars
<1>22. ASSUME Dispose PROVE TypeOK'
  <2>1. stopping' \in BOOLEAN /\ told' \in BOOLEAN
    BY <1>22, Zenon DEF Dispose
  <2>2. phase' \in Phase /\ disposal' \in {"no", "closing", "closed"}
    BY <1>22 DEF Dispose, TypeOK, Phase
  <2>3. RpcTyped'
    <3>1. CASE Close \/ Detach
      BY <3>1, RpcStep
    <3>2. CASE ~(tracked /\ Authorized)
      <4>1. refused' \in BOOLEAN
        BY <1>22, <3>2, Zenon DEF Dispose, Close, Detach
      <4>2. failed' \in {failed, "other"} /\ stop' \in {stop, "cancelled"} /\ UNCHANGED sent
        BY <1>22, <3>2 DEF Dispose, CancelTimers
      <4> QED
        BY <4>1, <4>2 DEF TypeOK, RpcTyped
    <3> QED
      BY <1>22, <3>1, <3>2 DEF Dispose
  <2>4. UNCHANGED <<bound, taken, lock, proc, child, write, main, error, handle, tracked, result,
                    call, slot, parent>>
    BY <1>22 DEF Dispose
  <2> QED
    BY <2>1, <2>2, <2>3, <2>4 DEF TypeOK, RpcTyped
<1>23. ASSUME Disposed PROVE TypeOK'
  BY <1>23 DEF TypeOK, ProgressSound, Phase, Disposed, recordVars, childVars, rpcVars, runVars,
     hostVars
<1>24. ASSUME ParentGone PROVE TypeOK'
  <2>1. refused' \in BOOLEAN /\ stopping' \in BOOLEAN /\ tracked' \in BOOLEAN
    BY <1>24, Zenon DEF ParentGone, TypeOK
  <2> QED
    BY <1>24, <2>1 DEF ParentGone, TypeOK, Phase, recordVars, childVars, rpcVars, hostVars
<1>25. ASSUME BindProcess PROVE TypeOK'
  BY <1>25 DEF TypeOK, ProgressSound, Phase, BindProcess, recordVars, childVars, rpcVars,
     runVars, hostVars
<1>26. ASSUME Boot PROVE TypeOK'
  BY <1>26 DEF TypeOK, ProgressSound, Phase, Boot, recordVars, childVars, rpcVars, runVars,
     hostVars
<1>27. ASSUME HearsExit PROVE TypeOK'
  <2>1. told' \in BOOLEAN
    BY <1>27, Zenon DEF HearsExit, TypeOK
  <2> QED
    BY <1>27, <2>1 DEF HearsExit, Writes, TypeOK, Phase, recordVars, childVars, rpcVars,
       runVars, hostVars
<1>28. ASSUME Disconnect PROVE TypeOK'
  BY <1>28 DEF TypeOK, ProgressSound, Phase, Disconnect, Writes, recordVars, childVars, rpcVars,
     runVars, hostVars
<1>29. ASSUME ChildWrites PROVE TypeOK'
  BY <1>29 DEF TypeOK, ProgressSound, Phase, ChildWrites, recordVars, childVars, rpcVars,
     runVars, hostVars
<1>30. ASSUME Leave PROVE TypeOK'
  BY <1>30 DEF TypeOK, ProgressSound, Phase, Leave, Ends, recordVars, childVars, rpcVars,
     runVars, hostVars
<1>31. ASSUME Dies PROVE TypeOK'
  BY <1>31 DEF TypeOK, ProgressSound, Phase, Dies, Ends, recordVars, childVars, rpcVars,
     runVars, hostVars
<1>32. ASSUME NEW c \in Call, TakeoverSend(c) PROVE TypeOK'
  BY <1>32 DEF TypeOK, ProgressSound, Phase, TakeoverSend, Become, recordVars, childVars,
     rpcVars, runVars, hostVars
<1>33. ASSUME NEW c \in Call, Abort(c) PROVE TypeOK'
  <2>1. RpcTyped'
    BY <1>33, RpcStep DEF Abort
  <2> QED
    BY <1>33, <2>1 DEF Abort, Become, TypeOK, RpcTyped, Phase, recordVars, childVars, rpcVars,
       hostVars
<1>34. ASSUME NEW c \in Call, Cleanup(c) PROVE TypeOK'
  <2>1. CleanupStarts(c) /\ UNCHANGED main
    BY <1>34 DEF Cleanup
  <2> QED
    BY <2>1, CleanupTyped DEF TypeOK, RpcTyped, childVars, hostVars
<1>35. ASSUME NEW c \in Call, TakeoverReply(c) PROVE TypeOK'
  BY <1>35 DEF TypeOK, ProgressSound, Phase, TakeoverReply, Become, recordVars, childVars,
     rpcVars, hostVars
<1>36. ASSUME NEW c \in Call, TakeoverFails(c) PROVE TypeOK'
  BY <1>36 DEF TypeOK, ProgressSound, Phase, TakeoverFails, Become, recordVars, childVars,
     rpcVars, runVars, hostVars
<1>37. ASSUME NEW c \in Call, AbortClosed(c) PROVE TypeOK'
  BY <1>37 DEF TypeOK, ProgressSound, Phase, AbortClosed, Become, recordVars, childVars,
     rpcVars, runVars, hostVars
<1>38. ASSUME NEW c \in Call, AbortReleases(c) PROVE TypeOK'
  <2>1. tracked' \in BOOLEAN /\ slot' \in BOOLEAN
    BY <1>38, Zenon DEF AbortReleases, TypeOK, Releases
  <2> QED
    BY <1>38, <2>1 DEF AbortReleases, Become, TypeOK, Phase, recordVars, childVars, rpcVars,
       hostVars
<1>39. ASSUME NEW c \in Call, CleanupClosed(c) PROVE TypeOK'
  BY <1>39 DEF TypeOK, ProgressSound, Phase, CleanupClosed, Become, recordVars, childVars,
     rpcVars, runVars, hostVars
<1>40. ASSUME NEW c \in Call, CleanupReleases(c) PROVE TypeOK'
  <2>1. slot' \in BOOLEAN /\ stopping' \in BOOLEAN
    BY <1>40, Zenon DEF CleanupReleases, CleanupError, TypeOK, Releases
  <2>2. phase' \in Phase
    BY <1>40 DEF CleanupReleases, CleanupError, TypeOK, Phase
  <2>3. \E s \in {"idle", "released"} : call' = [call EXCEPT ![c] = s]
    BY <1>40 DEF CleanupReleases, CleanupError, Become
  <2> QED
    BY <1>40, <2>1, <2>2, <2>3 DEF CleanupReleases, TypeOK, childVars, rpcVars
<1>41. ASSUME NEW c \in Call, CleanupDone(c) PROVE TypeOK'
  <2>1. tracked' \in BOOLEAN
    BY <1>41, Zenon DEF CleanupDone, TypeOK
  <2> QED
    BY <1>41, <2>1 DEF CleanupDone, Become, View, TypeOK, Phase, recordVars, childVars, rpcVars,
       hostVars
<1>42. ASSUME NEW c \in Call, CleanupFails(c) PROVE TypeOK'
  <2>1. stopping' \in BOOLEAN
    BY <1>42, Zenon DEF CleanupFails, TypeOK, CleanupError
  <2> QED
    BY <1>42, <2>1 DEF CleanupFails, CleanupError, Become, TypeOK, Phase, recordVars, childVars,
       rpcVars, hostVars
<1>43. ASSUME NEW c \in Call, BrokerTakes(c) PROVE TypeOK'
  BY <1>43 DEF TypeOK, ProgressSound, Phase, BrokerTakes, Become, recordVars, childVars,
     rpcVars, runVars, hostVars
<1> QED
  BY <1>1, <1>2, <1>3, <1>4, <1>5, <1>6, <1>7, <1>8, <1>9, <1>10, <1>11, <1>12, <1>13, <1>14,
     <1>15, <1>16, <1>17, <1>18, <1>19, <1>20, <1>21, <1>22, <1>23, <1>24, <1>25, <1>26, <1>27,
     <1>28, <1>29, <1>30, <1>31, <1>32, <1>33, <1>34, <1>35, <1>36, <1>37, <1>38, <1>39, <1>40,
     <1>41, <1>42, <1>43 DEF Next, Continue, Answers, Seen, StopTimers, CallWork, ChildWork,
     Call

\* Every step keeps what progress says of the process.
LEMMA ProgressStep ==
  ASSUME TypeOK, ProgressSound, Next
  PROVE  ProgressSound'
<1>1. ASSUME RegisterFails PROVE ProgressSound'
  BY <1>1 DEF TypeOK, ProgressSound, Alive, Late, RegisterFails, childVars, rpcVars, hostVars
<1>2. ASSUME ConnectionFails PROVE ProgressSound'
  BY <1>2 DEF TypeOK, ProgressSound, Alive, Late, ConnectionFails, Fail, StopOwned, recordVars,
     childVars, rpcVars, runVars, hostVars
<1>3. ASSUME HandOff PROVE ProgressSound'
  BY <1>3 DEF TypeOK, ProgressSound, Alive, Late, HandOff, childVars, rpcVars, hostVars
<1>4. ASSUME Dialog PROVE ProgressSound'
  BY <1>4 DEF TypeOK, ProgressSound, Alive, Late, Dialog, Fail, StopOwned, childVars, rpcVars,
     runVars, hostVars
<1>5. ASSUME CatchLeaves PROVE ProgressSound'
  BY <1>5 DEF TypeOK, ProgressSound, Alive, Late, CatchLeaves, Detach, CancelTimers, Failing,
     recordVars, childVars, rpcVars, hostVars
<1>6. ASSUME CatchStops PROVE ProgressSound'
  BY <1>6 DEF TypeOK, ProgressSound, Alive, Late, CatchStops, Close, StopOwned, Detach,
     CancelTimers, Failing, childVars, hostVars
<1>7. ASSUME Tidy PROVE ProgressSound'
  BY <1>7 DEF TypeOK, ProgressSound, Alive, Late, Tidy, CleanupStarts, CleanupError, MayClean,
     Authorized, View, Become, Ingested, Close, StopOwned, Detach, CancelTimers, recordVars,
     childVars, rpcVars, hostVars
<1>8. ASSUME Tidied PROVE ProgressSound'
  BY <1>8 DEF TypeOK, ProgressSound, Alive, Late, Tidied, recordVars, childVars, rpcVars,
     hostVars
<1>9. ASSUME Finally PROVE ProgressSound'
  BY <1>9 DEF TypeOK, ProgressSound, Alive, Late, Finally, recordVars, childVars, rpcVars,
     hostVars
<1>10. ASSUME Register PROVE ProgressSound'
  BY <1>10 DEF TypeOK, ProgressSound, Alive, Late, Register, rpcVars, hostVars
<1>11. ASSUME BindReply PROVE ProgressSound'
  BY <1>11 DEF TypeOK, ProgressSound, Alive, Late, BindReply, recordVars, childVars, rpcVars,
     hostVars
<1>12. ASSUME BindFails PROVE ProgressSound'
  BY <1>12 DEF TypeOK, ProgressSound, Alive, Late, BindFails, Detach, CancelTimers, recordVars,
     childVars, hostVars
<1>13. ASSUME Ready PROVE ProgressSound'
  BY <1>13 DEF TypeOK, ProgressSound, Alive, Late, Ready, childVars, rpcVars, hostVars
<1>14. ASSUME StartFails PROVE ProgressSound'
  BY <1>14 DEF TypeOK, ProgressSound, Alive, Late, StartFails, Close, StopOwned, Detach,
     CancelTimers, recordVars, childVars, hostVars
<1>15. ASSUME StartClosed PROVE ProgressSound'
  BY <1>15 DEF TypeOK, ProgressSound, Alive, Late, StartClosed, recordVars, childVars, rpcVars,
     hostVars
<1>16. ASSUME CatchClosed PROVE ProgressSound'
  BY <1>16 DEF TypeOK, ProgressSound, Alive, Late, CatchClosed, Detach, CancelTimers,
     recordVars, childVars, rpcVars, hostVars
<1>17. ASSUME MainReleases PROVE ProgressSound'
  BY <1>17 DEF TypeOK, ProgressSound, Alive, Late, MainReleases, Releases, recordVars,
     childVars, rpcVars
<1>18. ASSUME ExitSeen PROVE ProgressSound'
  BY <1>18 DEF TypeOK, ProgressSound, Alive, Late, ExitSeen, recordVars, rpcVars, runVars,
     hostVars
<1>19. ASSUME CloseSeen PROVE ProgressSound'
  BY <1>19 DEF TypeOK, ProgressSound, Alive, Late, CloseSeen, Fail, StopOwned, rpcVars, runVars,
     hostVars
<1>20. ASSUME TermTimer PROVE ProgressSound'
  BY <1>20 DEF TypeOK, ProgressSound, Alive, Late, TermTimer, recordVars, childVars, runVars,
     hostVars
<1>21. ASSUME KillTimer PROVE ProgressSound'
  BY <1>21 DEF TypeOK, ProgressSound, Alive, Late, KillTimer, recordVars, childVars, runVars,
     hostVars
<1>22. ASSUME Dispose PROVE ProgressSound'
  BY <1>22 DEF TypeOK, ProgressSound, Alive, Late, Dispose, Close, StopOwned, Detach,
     CancelTimers
<1>23. ASSUME Disposed PROVE ProgressSound'
  BY <1>23 DEF TypeOK, ProgressSound, Alive, Late, Disposed, recordVars, childVars, rpcVars,
     runVars
<1>24. ASSUME ParentGone PROVE ProgressSound'
  BY <1>24 DEF TypeOK, ProgressSound, Alive, Late, ParentGone, childVars
<1>25. ASSUME BindProcess PROVE ProgressSound'
  BY <1>25 DEF TypeOK, ProgressSound, Alive, Late, BindProcess, childVars, rpcVars, runVars,
     hostVars
<1>26. ASSUME Boot PROVE ProgressSound'
  BY <1>26 DEF TypeOK, ProgressSound, Alive, Late, Boot, recordVars, rpcVars, runVars, hostVars
<1>27. ASSUME HearsExit PROVE ProgressSound'
  BY <1>27 DEF TypeOK, ProgressSound, Alive, Late, HearsExit, Writes, rpcVars, runVars, hostVars
<1>28. ASSUME Disconnect PROVE ProgressSound'
  BY <1>28 DEF TypeOK, ProgressSound, Alive, Late, Disconnect, Writes, rpcVars, runVars,
     hostVars
<1>29. ASSUME ChildWrites PROVE ProgressSound'
  BY <1>29 DEF TypeOK, ProgressSound, Alive, Late, ChildWrites, rpcVars, runVars, hostVars
<1>30. ASSUME Leave PROVE ProgressSound'
  BY <1>30 DEF TypeOK, ProgressSound, Alive, Late, Leave, Ends, rpcVars, runVars, hostVars
<1>31. ASSUME Dies PROVE ProgressSound'
  BY <1>31 DEF TypeOK, ProgressSound, Alive, Late, Dies, Ends, rpcVars, runVars, hostVars
<1>32. ASSUME NEW c \in Call, TakeoverSend(c) PROVE ProgressSound'
  BY <1>32 DEF TypeOK, ProgressSound, Alive, Late, TakeoverSend, Become, recordVars, childVars,
     rpcVars, runVars, hostVars
<1>33. ASSUME NEW c \in Call, Abort(c) PROVE ProgressSound'
  BY <1>33 DEF TypeOK, ProgressSound, Alive, Late, Abort, Become, Close, StopOwned, Detach,
     CancelTimers, Authorized, View, childVars, rpcVars, hostVars
<1>34. ASSUME NEW c \in Call, Cleanup(c) PROVE ProgressSound'
  BY <1>34 DEF TypeOK, ProgressSound, Alive, Late, Cleanup, CleanupStarts, CleanupError,
     MayClean, Authorized, View, Become, Ingested, Close, StopOwned, Detach, CancelTimers,
     childVars, rpcVars, hostVars
<1>35. ASSUME NEW c \in Call, TakeoverReply(c) PROVE ProgressSound'
  BY <1>35 DEF TypeOK, ProgressSound, Alive, Late, TakeoverReply, Become, recordVars, childVars,
     rpcVars, hostVars
<1>36. ASSUME NEW c \in Call, TakeoverFails(c) PROVE ProgressSound'
  BY <1>36 DEF TypeOK, ProgressSound, Alive, Late, TakeoverFails, Become, recordVars, childVars,
     rpcVars, runVars, hostVars
<1>37. ASSUME NEW c \in Call, AbortClosed(c) PROVE ProgressSound'
  BY <1>37 DEF TypeOK, ProgressSound, Alive, Late, AbortClosed, Become, recordVars, childVars,
     rpcVars, runVars, hostVars
<1>38. ASSUME NEW c \in Call, AbortReleases(c) PROVE ProgressSound'
  BY <1>38 DEF TypeOK, ProgressSound, Alive, Late, AbortReleases, Become, Releases, recordVars,
     childVars, rpcVars
<1>39. ASSUME NEW c \in Call, CleanupClosed(c) PROVE ProgressSound'
  BY <1>39 DEF TypeOK, ProgressSound, Alive, Late, CleanupClosed, Become, recordVars, childVars,
     rpcVars, runVars, hostVars
<1>40. ASSUME NEW c \in Call, CleanupReleases(c) PROVE ProgressSound'
  BY <1>40 DEF TypeOK, ProgressSound, Alive, Late, CleanupReleases, Become, Releases,
     recordVars, childVars, rpcVars, runVars
<1>41. ASSUME NEW c \in Call, CleanupDone(c) PROVE ProgressSound'
  BY <1>41 DEF TypeOK, ProgressSound, Alive, Late, CleanupDone, Become, View, childVars,
     rpcVars, hostVars
<1>42. ASSUME NEW c \in Call, CleanupFails(c) PROVE ProgressSound'
  BY <1>42 DEF TypeOK, ProgressSound, Alive, Late, CleanupFails, CleanupError, Become,
     childVars, rpcVars, hostVars
<1>43. ASSUME NEW c \in Call, BrokerTakes(c) PROVE ProgressSound'
  BY <1>43 DEF TypeOK, ProgressSound, Alive, Late, BrokerTakes, Become, childVars, rpcVars,
     runVars, hostVars
<1> QED
  BY <1>1, <1>2, <1>3, <1>4, <1>5, <1>6, <1>7, <1>8, <1>9, <1>10, <1>11, <1>12, <1>13, <1>14,
     <1>15, <1>16, <1>17, <1>18, <1>19, <1>20, <1>21, <1>22, <1>23, <1>24, <1>25, <1>26, <1>27,
     <1>28, <1>29, <1>30, <1>31, <1>32, <1>33, <1>34, <1>35, <1>36, <1>37, <1>38, <1>39, <1>40,
     <1>41, <1>42, <1>43 DEF Next, Continue, Answers, Seen, StopTimers, CallWork, ChildWork,
     Call

\* Every step keeps what a call has seen before it goes on.
LEMMA ReleaseStep ==
  ASSUME TypeOK, ProgressSound, ReleaseSound, Next
  PROVE  ReleaseSound'
<1>1. ASSUME RegisterFails PROVE ReleaseSound'
  BY <1>1 DEF TypeOK, ProgressSound, ReleaseSound, Releasing, Alive, Late, RegisterFails,
     childVars, rpcVars, hostVars
<1>2. ASSUME ConnectionFails PROVE ReleaseSound'
  BY <1>2 DEF TypeOK, ProgressSound, ReleaseSound, Releasing, Alive, Late, ConnectionFails,
     Fail, StopOwned, recordVars, childVars, rpcVars, runVars, hostVars
<1>3. ASSUME HandOff PROVE ReleaseSound'
  BY <1>3 DEF TypeOK, ProgressSound, ReleaseSound, Releasing, Alive, Late, HandOff, childVars,
     rpcVars, hostVars
<1>4. ASSUME Dialog PROVE ReleaseSound'
  BY <1>4 DEF TypeOK, ProgressSound, ReleaseSound, Releasing, Alive, Late, Dialog, Fail,
     StopOwned, childVars, rpcVars, runVars, hostVars
<1>5. ASSUME CatchLeaves PROVE ReleaseSound'
  BY <1>5 DEF TypeOK, ProgressSound, ReleaseSound, Releasing, Alive, Late, CatchLeaves, Detach,
     CancelTimers, Failing, recordVars, childVars, rpcVars, hostVars
<1>6. ASSUME CatchStops PROVE ReleaseSound'
  BY <1>6 DEF TypeOK, ProgressSound, ReleaseSound, Releasing, Alive, Late, CatchStops, Close,
     StopOwned, Detach, CancelTimers, Failing, childVars, hostVars
<1>7. ASSUME Tidy PROVE ReleaseSound'
  BY <1>7 DEF TypeOK, ProgressSound, ReleaseSound, Releasing, Alive, Late, Tidy, CleanupStarts,
     CleanupError, MayClean, Authorized, View, Become, Ingested, Close, StopOwned, Detach,
     CancelTimers, recordVars, childVars, rpcVars, hostVars
<1>8. ASSUME Tidied PROVE ReleaseSound'
  BY <1>8 DEF TypeOK, ProgressSound, ReleaseSound, Releasing, Alive, Late, Tidied, recordVars,
     childVars, rpcVars, hostVars
<1>9. ASSUME Finally PROVE ReleaseSound'
  BY <1>9 DEF TypeOK, ProgressSound, ReleaseSound, Releasing, Alive, Late, Finally, recordVars,
     childVars, rpcVars, hostVars
<1>10. ASSUME Register PROVE ReleaseSound'
  BY <1>10 DEF TypeOK, ProgressSound, ReleaseSound, Releasing, Alive, Late, Register, rpcVars,
     hostVars
<1>11. ASSUME BindReply PROVE ReleaseSound'
  BY <1>11 DEF TypeOK, ProgressSound, ReleaseSound, Releasing, Alive, Late, BindReply,
     recordVars, childVars, rpcVars, hostVars
<1>12. ASSUME BindFails PROVE ReleaseSound'
  BY <1>12 DEF TypeOK, ProgressSound, ReleaseSound, Releasing, Alive, Late, BindFails, Detach,
     CancelTimers, recordVars, childVars, hostVars
<1>13. ASSUME Ready PROVE ReleaseSound'
  BY <1>13 DEF TypeOK, ProgressSound, ReleaseSound, Releasing, Alive, Late, Ready, childVars,
     rpcVars, hostVars
<1>14. ASSUME StartFails PROVE ReleaseSound'
  BY <1>14 DEF TypeOK, ProgressSound, ReleaseSound, Releasing, Alive, Late, StartFails, Close,
     StopOwned, Detach, CancelTimers, recordVars, childVars, hostVars
<1>15. ASSUME StartClosed PROVE ReleaseSound'
  BY <1>15 DEF TypeOK, ProgressSound, ReleaseSound, Releasing, Alive, Late, StartClosed,
     recordVars, childVars, rpcVars, hostVars
<1>16. ASSUME CatchClosed PROVE ReleaseSound'
  BY <1>16 DEF TypeOK, ProgressSound, ReleaseSound, Releasing, Alive, Late, CatchClosed, Detach,
     CancelTimers, recordVars, childVars, rpcVars, hostVars
<1>17. ASSUME MainReleases PROVE ReleaseSound'
  BY <1>17 DEF TypeOK, ProgressSound, ReleaseSound, Releasing, Alive, Late, MainReleases,
     Releases, recordVars, childVars, rpcVars
<1>18. ASSUME ExitSeen PROVE ReleaseSound'
  BY <1>18 DEF TypeOK, ProgressSound, ReleaseSound, Releasing, Alive, Late, ExitSeen,
     recordVars, rpcVars, runVars, hostVars
<1>19. ASSUME CloseSeen PROVE ReleaseSound'
  BY <1>19 DEF TypeOK, ProgressSound, ReleaseSound, Releasing, Alive, Late, CloseSeen, Fail,
     StopOwned, rpcVars, runVars, hostVars
<1>20. ASSUME TermTimer PROVE ReleaseSound'
  BY <1>20 DEF TypeOK, ProgressSound, ReleaseSound, Releasing, Alive, Late, TermTimer,
     recordVars, childVars, runVars, hostVars
<1>21. ASSUME KillTimer PROVE ReleaseSound'
  BY <1>21 DEF TypeOK, ProgressSound, ReleaseSound, Releasing, Alive, Late, KillTimer,
     recordVars, childVars, runVars, hostVars
<1>22. ASSUME Dispose PROVE ReleaseSound'
  BY <1>22 DEF TypeOK, ProgressSound, ReleaseSound, Releasing, Alive, Late, Dispose, Close,
     StopOwned, Detach, CancelTimers
<1>23. ASSUME Disposed PROVE ReleaseSound'
  BY <1>23 DEF TypeOK, ProgressSound, ReleaseSound, Releasing, Alive, Late, Disposed,
     recordVars, childVars, rpcVars, runVars
<1>24. ASSUME ParentGone PROVE ReleaseSound'
  BY <1>24 DEF TypeOK, ProgressSound, ReleaseSound, Releasing, Alive, Late, ParentGone,
     childVars
<1>25. ASSUME BindProcess PROVE ReleaseSound'
  BY <1>25 DEF TypeOK, ProgressSound, ReleaseSound, Releasing, Alive, Late, BindProcess,
     childVars, rpcVars, runVars, hostVars
<1>26. ASSUME Boot PROVE ReleaseSound'
  BY <1>26 DEF TypeOK, ProgressSound, ReleaseSound, Releasing, Alive, Late, Boot, recordVars,
     rpcVars, runVars, hostVars
<1>27. ASSUME HearsExit PROVE ReleaseSound'
  BY <1>27 DEF TypeOK, ProgressSound, ReleaseSound, Releasing, Alive, Late, HearsExit, Writes,
     rpcVars, runVars, hostVars
<1>28. ASSUME Disconnect PROVE ReleaseSound'
  BY <1>28 DEF TypeOK, ProgressSound, ReleaseSound, Releasing, Alive, Late, Disconnect, Writes,
     rpcVars, runVars, hostVars
<1>29. ASSUME ChildWrites PROVE ReleaseSound'
  BY <1>29 DEF TypeOK, ProgressSound, ReleaseSound, Releasing, Alive, Late, ChildWrites,
     rpcVars, runVars, hostVars
<1>30. ASSUME Leave PROVE ReleaseSound'
  BY <1>30 DEF TypeOK, ProgressSound, ReleaseSound, Releasing, Alive, Late, Leave, Ends,
     rpcVars, runVars, hostVars
<1>31. ASSUME Dies PROVE ReleaseSound'
  BY <1>31 DEF TypeOK, ProgressSound, ReleaseSound, Releasing, Alive, Late, Dies, Ends, rpcVars,
     runVars, hostVars
<1>32. ASSUME NEW c \in Call, TakeoverSend(c) PROVE ReleaseSound'
  BY <1>32 DEF TypeOK, ProgressSound, ReleaseSound, Releasing, Alive, Late, TakeoverSend,
     Become, recordVars, childVars, rpcVars, runVars, hostVars
<1>33. ASSUME NEW c \in Call, Abort(c) PROVE ReleaseSound'
  BY <1>33 DEF TypeOK, ProgressSound, ReleaseSound, Releasing, Alive, Late, Abort, Become,
     Close, StopOwned, Detach, CancelTimers, Authorized, View, childVars, rpcVars, hostVars
<1>34. ASSUME NEW c \in Call, Cleanup(c) PROVE ReleaseSound'
  BY <1>34 DEF TypeOK, ProgressSound, ReleaseSound, Releasing, Alive, Late, Cleanup,
     CleanupStarts, CleanupError, MayClean, Authorized, View, Become, Ingested, Close,
     StopOwned, Detach, CancelTimers, childVars, rpcVars, hostVars
<1>35. ASSUME NEW c \in Call, TakeoverReply(c) PROVE ReleaseSound'
  BY <1>35 DEF TypeOK, ProgressSound, ReleaseSound, Releasing, Alive, Late, TakeoverReply,
     Become, recordVars, childVars, rpcVars, hostVars
<1>36. ASSUME NEW c \in Call, TakeoverFails(c) PROVE ReleaseSound'
  BY <1>36 DEF TypeOK, ProgressSound, ReleaseSound, Releasing, Alive, Late, TakeoverFails,
     Become, recordVars, childVars, rpcVars, runVars, hostVars
<1>37. ASSUME NEW c \in Call, AbortClosed(c) PROVE ReleaseSound'
  BY <1>37 DEF TypeOK, ProgressSound, ReleaseSound, Releasing, Alive, Late, AbortClosed, Become,
     recordVars, childVars, rpcVars, runVars, hostVars
<1>38. ASSUME NEW c \in Call, AbortReleases(c) PROVE ReleaseSound'
  BY <1>38 DEF TypeOK, ProgressSound, ReleaseSound, Releasing, Alive, Late, AbortReleases,
     Become, Releases, recordVars, childVars, rpcVars
<1>39. ASSUME NEW c \in Call, CleanupClosed(c) PROVE ReleaseSound'
  BY <1>39 DEF TypeOK, ProgressSound, ReleaseSound, Releasing, Alive, Late, CleanupClosed,
     Become, recordVars, childVars, rpcVars, runVars, hostVars
<1>40. ASSUME NEW c \in Call, CleanupReleases(c) PROVE ReleaseSound'
  BY <1>40 DEF TypeOK, ProgressSound, ReleaseSound, Releasing, Alive, Late, CleanupReleases,
     Become, Releases, recordVars, childVars, rpcVars, runVars
<1>41. ASSUME NEW c \in Call, CleanupDone(c) PROVE ReleaseSound'
  BY <1>41 DEF TypeOK, ProgressSound, ReleaseSound, Releasing, Alive, Late, CleanupDone, Become,
     View, childVars, rpcVars, hostVars
<1>42. ASSUME NEW c \in Call, CleanupFails(c) PROVE ReleaseSound'
  BY <1>42 DEF TypeOK, ProgressSound, ReleaseSound, Releasing, Alive, Late, CleanupFails,
     CleanupError, Become, childVars, rpcVars, hostVars
<1>43. ASSUME NEW c \in Call, BrokerTakes(c) PROVE ReleaseSound'
  BY <1>43 DEF TypeOK, ProgressSound, ReleaseSound, Releasing, Alive, Late, BrokerTakes, Become,
     childVars, rpcVars, runVars, hostVars
<1> QED
  BY <1>1, <1>2, <1>3, <1>4, <1>5, <1>6, <1>7, <1>8, <1>9, <1>10, <1>11, <1>12, <1>13, <1>14,
     <1>15, <1>16, <1>17, <1>18, <1>19, <1>20, <1>21, <1>22, <1>23, <1>24, <1>25, <1>26, <1>27,
     <1>28, <1>29, <1>30, <1>31, <1>32, <1>33, <1>34, <1>35, <1>36, <1>37, <1>38, <1>39, <1>40,
     <1>41, <1>42, <1>43 DEF Next, Continue, Answers, Seen, StopTimers, CallWork, ChildWork,
     Call

\* Every step holds the slot of a process that lives.
LEMMA SlotStep ==
  ASSUME TypeOK, ProgressSound, ReleaseSound, SlotHeld, Next
  PROVE  SlotHeld'
<1>1. ASSUME RegisterFails PROVE SlotHeld'
  BY <1>1 DEF TypeOK, ProgressSound, ReleaseSound, SlotHeld, Releasing, Alive, RegisterFails,
     childVars, rpcVars, hostVars
<1>2. ASSUME ConnectionFails PROVE SlotHeld'
  BY <1>2 DEF TypeOK, ProgressSound, ReleaseSound, SlotHeld, Releasing, Alive, ConnectionFails,
     Fail, StopOwned, recordVars, childVars, rpcVars, runVars, hostVars
<1>3. ASSUME HandOff PROVE SlotHeld'
  BY <1>3 DEF TypeOK, ProgressSound, ReleaseSound, SlotHeld, Releasing, Alive, HandOff,
     childVars, rpcVars, hostVars
<1>4. ASSUME Dialog PROVE SlotHeld'
  BY <1>4 DEF TypeOK, ProgressSound, ReleaseSound, SlotHeld, Releasing, Alive, Dialog, Fail,
     StopOwned, childVars, rpcVars, runVars, hostVars
<1>5. ASSUME CatchLeaves PROVE SlotHeld'
  BY <1>5 DEF TypeOK, ProgressSound, ReleaseSound, SlotHeld, Releasing, Alive, CatchLeaves,
     Detach, CancelTimers, Failing, recordVars, childVars, rpcVars, hostVars
<1>6. ASSUME CatchStops PROVE SlotHeld'
  BY <1>6 DEF TypeOK, ProgressSound, ReleaseSound, SlotHeld, Releasing, Alive, CatchStops,
     Close, StopOwned, Detach, CancelTimers, Failing, childVars, hostVars
<1>7. ASSUME Tidy PROVE SlotHeld'
  BY <1>7 DEF TypeOK, ProgressSound, ReleaseSound, SlotHeld, Releasing, Alive, Tidy,
     CleanupStarts, CleanupError, MayClean, Authorized, View, Become, Ingested, Close,
     StopOwned, Detach, CancelTimers, recordVars, childVars, rpcVars, hostVars
<1>8. ASSUME Tidied PROVE SlotHeld'
  BY <1>8 DEF TypeOK, ProgressSound, ReleaseSound, SlotHeld, Releasing, Alive, Tidied,
     recordVars, childVars, rpcVars, hostVars
<1>9. ASSUME Finally PROVE SlotHeld'
  BY <1>9 DEF TypeOK, ProgressSound, ReleaseSound, SlotHeld, Releasing, Alive, Finally,
     recordVars, childVars, rpcVars, hostVars
<1>10. ASSUME Register PROVE SlotHeld'
  BY <1>10 DEF TypeOK, ProgressSound, ReleaseSound, SlotHeld, Releasing, Alive, Register,
     rpcVars, hostVars
<1>11. ASSUME BindReply PROVE SlotHeld'
  BY <1>11 DEF TypeOK, ProgressSound, ReleaseSound, SlotHeld, Releasing, Alive, BindReply,
     recordVars, childVars, rpcVars, hostVars
<1>12. ASSUME BindFails PROVE SlotHeld'
  BY <1>12 DEF TypeOK, ProgressSound, ReleaseSound, SlotHeld, Releasing, Alive, BindFails,
     Detach, CancelTimers, recordVars, childVars, hostVars
<1>13. ASSUME Ready PROVE SlotHeld'
  BY <1>13 DEF TypeOK, ProgressSound, ReleaseSound, SlotHeld, Releasing, Alive, Ready,
     childVars, rpcVars, hostVars
<1>14. ASSUME StartFails PROVE SlotHeld'
  BY <1>14 DEF TypeOK, ProgressSound, ReleaseSound, SlotHeld, Releasing, Alive, StartFails,
     Close, StopOwned, Detach, CancelTimers, recordVars, childVars, hostVars
<1>15. ASSUME StartClosed PROVE SlotHeld'
  BY <1>15 DEF TypeOK, ProgressSound, ReleaseSound, SlotHeld, Releasing, Alive, StartClosed,
     recordVars, childVars, rpcVars, hostVars
<1>16. ASSUME CatchClosed PROVE SlotHeld'
  BY <1>16 DEF TypeOK, ProgressSound, ReleaseSound, SlotHeld, Releasing, Alive, CatchClosed,
     Detach, CancelTimers, recordVars, childVars, rpcVars, hostVars
<1>17. ASSUME MainReleases PROVE SlotHeld'
  BY <1>17 DEF TypeOK, ProgressSound, ReleaseSound, SlotHeld, Releasing, Alive, MainReleases,
     Releases, recordVars, childVars, rpcVars
<1>18. ASSUME ExitSeen PROVE SlotHeld'
  BY <1>18 DEF TypeOK, ProgressSound, ReleaseSound, SlotHeld, Releasing, Alive, ExitSeen,
     recordVars, rpcVars, runVars, hostVars
<1>19. ASSUME CloseSeen PROVE SlotHeld'
  BY <1>19 DEF TypeOK, ProgressSound, ReleaseSound, SlotHeld, Releasing, Alive, CloseSeen, Fail,
     StopOwned, rpcVars, runVars, hostVars
<1>20. ASSUME TermTimer PROVE SlotHeld'
  BY <1>20 DEF TypeOK, ProgressSound, ReleaseSound, SlotHeld, Releasing, Alive, TermTimer,
     recordVars, childVars, runVars, hostVars
<1>21. ASSUME KillTimer PROVE SlotHeld'
  BY <1>21 DEF TypeOK, ProgressSound, ReleaseSound, SlotHeld, Releasing, Alive, KillTimer,
     recordVars, childVars, runVars, hostVars
<1>22. ASSUME Dispose PROVE SlotHeld'
  BY <1>22 DEF TypeOK, ProgressSound, ReleaseSound, SlotHeld, Releasing, Alive, Dispose, Close,
     StopOwned, Detach, CancelTimers
<1>23. ASSUME Disposed PROVE SlotHeld'
  BY <1>23 DEF TypeOK, ProgressSound, ReleaseSound, SlotHeld, Releasing, Alive, Disposed,
     recordVars, childVars, rpcVars, runVars
<1>24. ASSUME ParentGone PROVE SlotHeld'
  BY <1>24 DEF TypeOK, ProgressSound, ReleaseSound, SlotHeld, Releasing, Alive, ParentGone,
     childVars
<1>25. ASSUME BindProcess PROVE SlotHeld'
  BY <1>25 DEF TypeOK, ProgressSound, ReleaseSound, SlotHeld, Releasing, Alive, BindProcess,
     childVars, rpcVars, runVars, hostVars
<1>26. ASSUME Boot PROVE SlotHeld'
  BY <1>26 DEF TypeOK, ProgressSound, ReleaseSound, SlotHeld, Releasing, Alive, Boot,
     recordVars, rpcVars, runVars, hostVars
<1>27. ASSUME HearsExit PROVE SlotHeld'
  BY <1>27 DEF TypeOK, ProgressSound, ReleaseSound, SlotHeld, Releasing, Alive, HearsExit,
     Writes, rpcVars, runVars, hostVars
<1>28. ASSUME Disconnect PROVE SlotHeld'
  BY <1>28 DEF TypeOK, ProgressSound, ReleaseSound, SlotHeld, Releasing, Alive, Disconnect,
     Writes, rpcVars, runVars, hostVars
<1>29. ASSUME ChildWrites PROVE SlotHeld'
  BY <1>29 DEF TypeOK, ProgressSound, ReleaseSound, SlotHeld, Releasing, Alive, ChildWrites,
     rpcVars, runVars, hostVars
<1>30. ASSUME Leave PROVE SlotHeld'
  BY <1>30 DEF TypeOK, ProgressSound, ReleaseSound, SlotHeld, Releasing, Alive, Leave, Ends,
     rpcVars, runVars, hostVars
<1>31. ASSUME Dies PROVE SlotHeld'
  BY <1>31 DEF TypeOK, ProgressSound, ReleaseSound, SlotHeld, Releasing, Alive, Dies, Ends,
     rpcVars, runVars, hostVars
<1>32. ASSUME NEW c \in Call, TakeoverSend(c) PROVE SlotHeld'
  BY <1>32 DEF TypeOK, ProgressSound, ReleaseSound, SlotHeld, Releasing, Alive, TakeoverSend,
     Become, recordVars, childVars, rpcVars, runVars, hostVars
<1>33. ASSUME NEW c \in Call, Abort(c) PROVE SlotHeld'
  BY <1>33 DEF TypeOK, ProgressSound, ReleaseSound, SlotHeld, Releasing, Alive, Abort, Become,
     Close, StopOwned, Detach, CancelTimers, Authorized, View, childVars, rpcVars, hostVars
<1>34. ASSUME NEW c \in Call, Cleanup(c) PROVE SlotHeld'
  BY <1>34 DEF TypeOK, ProgressSound, ReleaseSound, SlotHeld, Releasing, Alive, Cleanup,
     CleanupStarts, CleanupError, MayClean, Authorized, View, Become, Ingested, Close,
     StopOwned, Detach, CancelTimers, childVars, rpcVars, hostVars
<1>35. ASSUME NEW c \in Call, TakeoverReply(c) PROVE SlotHeld'
  BY <1>35 DEF TypeOK, ProgressSound, ReleaseSound, SlotHeld, Releasing, Alive, TakeoverReply,
     Become, recordVars, childVars, rpcVars, hostVars
<1>36. ASSUME NEW c \in Call, TakeoverFails(c) PROVE SlotHeld'
  BY <1>36 DEF TypeOK, ProgressSound, ReleaseSound, SlotHeld, Releasing, Alive, TakeoverFails,
     Become, recordVars, childVars, rpcVars, runVars, hostVars
<1>37. ASSUME NEW c \in Call, AbortClosed(c) PROVE SlotHeld'
  BY <1>37 DEF TypeOK, ProgressSound, ReleaseSound, SlotHeld, Releasing, Alive, AbortClosed,
     Become, recordVars, childVars, rpcVars, runVars, hostVars
<1>38. ASSUME NEW c \in Call, AbortReleases(c) PROVE SlotHeld'
  <2>1. /\ UNCHANGED <<proc, taken>>
        /\ UNCHANGED slot \/ (call[c] = "abort-releasing" /\ ~taken)
    BY <1>38 DEF AbortReleases, recordVars, childVars
  <2> QED
    BY <2>1 DEF ReleaseSound, SlotHeld, Releasing, Alive
<1>39. ASSUME NEW c \in Call, CleanupClosed(c) PROVE SlotHeld'
  BY <1>39 DEF TypeOK, ProgressSound, ReleaseSound, SlotHeld, Releasing, Alive, CleanupClosed,
     Become, recordVars, childVars, rpcVars, runVars, hostVars
<1>40. ASSUME NEW c \in Call, CleanupReleases(c) PROVE SlotHeld'
  BY <1>40 DEF TypeOK, ProgressSound, ReleaseSound, SlotHeld, Releasing, Alive, CleanupReleases,
     Become, Releases, recordVars, childVars, rpcVars, runVars
<1>41. ASSUME NEW c \in Call, CleanupDone(c) PROVE SlotHeld'
  BY <1>41 DEF TypeOK, ProgressSound, ReleaseSound, SlotHeld, Releasing, Alive, CleanupDone,
     Become, View, childVars, rpcVars, hostVars
<1>42. ASSUME NEW c \in Call, CleanupFails(c) PROVE SlotHeld'
  BY <1>42 DEF TypeOK, ProgressSound, ReleaseSound, SlotHeld, Releasing, Alive, CleanupFails,
     CleanupError, Become, childVars, rpcVars, hostVars
<1>43. ASSUME NEW c \in Call, BrokerTakes(c) PROVE SlotHeld'
  BY <1>43 DEF TypeOK, ProgressSound, ReleaseSound, SlotHeld, Releasing, Alive, BrokerTakes,
     Become, childVars, rpcVars, runVars, hostVars
<1> QED
  BY <1>1, <1>2, <1>3, <1>4, <1>5, <1>6, <1>7, <1>8, <1>9, <1>10, <1>11, <1>12, <1>13, <1>14,
     <1>15, <1>16, <1>17, <1>18, <1>19, <1>20, <1>21, <1>22, <1>23, <1>24, <1>25, <1>26, <1>27,
     <1>28, <1>29, <1>30, <1>31, <1>32, <1>33, <1>34, <1>35, <1>36, <1>37, <1>38, <1>39, <1>40,
     <1>41, <1>42, <1>43 DEF Next, Continue, Answers, Seen, StopTimers, CallWork, ChildWork,
     Call

\* Every step keeps the meaning of "completed".
LEMMA CompletedStep ==
  ASSUME TypeOK, ProgressSound, ReleaseSound, SlotHeld, CompletedHonest, Next
  PROVE  CompletedHonest'
<1>1. ASSUME RegisterFails PROVE CompletedHonest'
  BY <1>1 DEF TypeOK, ProgressSound, ReleaseSound, SlotHeld, CompletedHonest, Releasing, Alive,
     Late, RegisterFails, childVars, rpcVars, hostVars
<1>2. ASSUME ConnectionFails PROVE CompletedHonest'
  BY <1>2 DEF TypeOK, ProgressSound, ReleaseSound, SlotHeld, CompletedHonest, Releasing, Alive,
     Late, ConnectionFails, Fail, StopOwned, recordVars, childVars, rpcVars, runVars, hostVars
<1>3. ASSUME HandOff PROVE CompletedHonest'
  BY <1>3 DEF TypeOK, ProgressSound, ReleaseSound, SlotHeld, CompletedHonest, Releasing, Alive,
     Late, HandOff, childVars, rpcVars, hostVars
<1>4. ASSUME Dialog PROVE CompletedHonest'
  BY <1>4 DEF TypeOK, ProgressSound, ReleaseSound, SlotHeld, CompletedHonest, Releasing, Alive,
     Late, Dialog, Fail, StopOwned, childVars, rpcVars, runVars, hostVars
<1>5. ASSUME CatchLeaves PROVE CompletedHonest'
  BY <1>5 DEF TypeOK, ProgressSound, ReleaseSound, SlotHeld, CompletedHonest, Releasing, Alive,
     Late, CatchLeaves, Detach, CancelTimers, Failing, recordVars, childVars, rpcVars, hostVars
<1>6. ASSUME CatchStops PROVE CompletedHonest'
  BY <1>6 DEF TypeOK, ProgressSound, ReleaseSound, SlotHeld, CompletedHonest, Releasing, Alive,
     Late, CatchStops, Close, StopOwned, Detach, CancelTimers, Failing, childVars, hostVars
<1>7. ASSUME Tidy PROVE CompletedHonest'
  BY <1>7 DEF TypeOK, ProgressSound, ReleaseSound, SlotHeld, CompletedHonest, Releasing, Alive,
     Late, Tidy, CleanupStarts, CleanupError, MayClean, Authorized, View, Become, Ingested,
     Close, StopOwned, Detach, CancelTimers, recordVars, childVars, rpcVars, hostVars
<1>8. ASSUME Tidied PROVE CompletedHonest'
  BY <1>8 DEF TypeOK, ProgressSound, ReleaseSound, SlotHeld, CompletedHonest, Releasing, Alive,
     Late, Tidied, recordVars, childVars, rpcVars, hostVars
<1>9. ASSUME Finally PROVE CompletedHonest'
  BY <1>9 DEF TypeOK, ProgressSound, ReleaseSound, SlotHeld, CompletedHonest, Releasing, Alive,
     Late, Finally, recordVars, childVars, rpcVars, hostVars
<1>10. ASSUME Register PROVE CompletedHonest'
  BY <1>10 DEF TypeOK, ProgressSound, ReleaseSound, SlotHeld, CompletedHonest, Releasing, Alive,
     Late, Register, rpcVars, hostVars
<1>11. ASSUME BindReply PROVE CompletedHonest'
  BY <1>11 DEF TypeOK, ProgressSound, ReleaseSound, SlotHeld, CompletedHonest, Releasing, Alive,
     Late, BindReply, recordVars, childVars, rpcVars, hostVars
<1>12. ASSUME BindFails PROVE CompletedHonest'
  BY <1>12 DEF TypeOK, ProgressSound, ReleaseSound, SlotHeld, CompletedHonest, Releasing, Alive,
     Late, BindFails, Detach, CancelTimers, recordVars, childVars, hostVars
<1>13. ASSUME Ready PROVE CompletedHonest'
  BY <1>13 DEF TypeOK, ProgressSound, ReleaseSound, SlotHeld, CompletedHonest, Releasing, Alive,
     Late, Ready, childVars, rpcVars, hostVars
<1>14. ASSUME StartFails PROVE CompletedHonest'
  BY <1>14 DEF TypeOK, ProgressSound, ReleaseSound, SlotHeld, CompletedHonest, Releasing, Alive,
     Late, StartFails, Close, StopOwned, Detach, CancelTimers, recordVars, childVars, hostVars
<1>15. ASSUME StartClosed PROVE CompletedHonest'
  BY <1>15 DEF TypeOK, ProgressSound, ReleaseSound, SlotHeld, CompletedHonest, Releasing, Alive,
     Late, StartClosed, recordVars, childVars, rpcVars, hostVars
<1>16. ASSUME CatchClosed PROVE CompletedHonest'
  BY <1>16 DEF TypeOK, ProgressSound, ReleaseSound, SlotHeld, CompletedHonest, Releasing, Alive,
     Late, CatchClosed, Detach, CancelTimers, recordVars, childVars, rpcVars, hostVars
<1>17. ASSUME MainReleases PROVE CompletedHonest'
  BY <1>17 DEF TypeOK, ProgressSound, ReleaseSound, SlotHeld, CompletedHonest, Releasing, Alive,
     Late, MainReleases, Releases, recordVars, childVars, rpcVars
<1>18. ASSUME ExitSeen PROVE CompletedHonest'
  BY <1>18 DEF TypeOK, ProgressSound, ReleaseSound, SlotHeld, CompletedHonest, Releasing, Alive,
     Late, ExitSeen, recordVars, rpcVars, runVars, hostVars
<1>19. ASSUME CloseSeen PROVE CompletedHonest'
  BY <1>19 DEF TypeOK, ProgressSound, ReleaseSound, SlotHeld, CompletedHonest, Releasing, Alive,
     Late, CloseSeen, Fail, StopOwned, rpcVars, runVars, hostVars
<1>20. ASSUME TermTimer PROVE CompletedHonest'
  BY <1>20 DEF TypeOK, ProgressSound, ReleaseSound, SlotHeld, CompletedHonest, Releasing, Alive,
     Late, TermTimer, recordVars, childVars, runVars, hostVars
<1>21. ASSUME KillTimer PROVE CompletedHonest'
  BY <1>21 DEF TypeOK, ProgressSound, ReleaseSound, SlotHeld, CompletedHonest, Releasing, Alive,
     Late, KillTimer, recordVars, childVars, runVars, hostVars
<1>22. ASSUME Dispose PROVE CompletedHonest'
  BY <1>22 DEF TypeOK, ProgressSound, ReleaseSound, SlotHeld, CompletedHonest, Releasing, Alive,
     Late, Dispose, Close, StopOwned, Detach, CancelTimers
<1>23. ASSUME Disposed PROVE CompletedHonest'
  BY <1>23 DEF TypeOK, ProgressSound, ReleaseSound, SlotHeld, CompletedHonest, Releasing, Alive,
     Late, Disposed, recordVars, childVars, rpcVars, runVars
<1>24. ASSUME ParentGone PROVE CompletedHonest'
  BY <1>24 DEF TypeOK, ProgressSound, ReleaseSound, SlotHeld, CompletedHonest, Releasing, Alive,
     Late, ParentGone, childVars
<1>25. ASSUME BindProcess PROVE CompletedHonest'
  BY <1>25 DEF TypeOK, ProgressSound, ReleaseSound, SlotHeld, CompletedHonest, Releasing, Alive,
     Late, BindProcess, childVars, rpcVars, runVars, hostVars
<1>26. ASSUME Boot PROVE CompletedHonest'
  BY <1>26 DEF TypeOK, ProgressSound, ReleaseSound, SlotHeld, CompletedHonest, Releasing, Alive,
     Late, Boot, recordVars, rpcVars, runVars, hostVars
<1>27. ASSUME HearsExit PROVE CompletedHonest'
  BY <1>27 DEF TypeOK, ProgressSound, ReleaseSound, SlotHeld, CompletedHonest, Releasing, Alive,
     Late, HearsExit, Writes, rpcVars, runVars, hostVars
<1>28. ASSUME Disconnect PROVE CompletedHonest'
  BY <1>28 DEF TypeOK, ProgressSound, ReleaseSound, SlotHeld, CompletedHonest, Releasing, Alive,
     Late, Disconnect, Writes, rpcVars, runVars, hostVars
<1>29. ASSUME ChildWrites PROVE CompletedHonest'
  BY <1>29 DEF TypeOK, ProgressSound, ReleaseSound, SlotHeld, CompletedHonest, Releasing, Alive,
     Late, ChildWrites, rpcVars, runVars, hostVars
<1>30. ASSUME Leave PROVE CompletedHonest'
  BY <1>30 DEF TypeOK, ProgressSound, ReleaseSound, SlotHeld, CompletedHonest, Releasing, Alive,
     Late, Leave, Ends, rpcVars, runVars, hostVars
<1>31. ASSUME Dies PROVE CompletedHonest'
  BY <1>31 DEF TypeOK, ProgressSound, ReleaseSound, SlotHeld, CompletedHonest, Releasing, Alive,
     Late, Dies, Ends, rpcVars, runVars, hostVars
<1>32. ASSUME NEW c \in Call, TakeoverSend(c) PROVE CompletedHonest'
  BY <1>32 DEF TypeOK, ProgressSound, ReleaseSound, SlotHeld, CompletedHonest, Releasing, Alive,
     Late, TakeoverSend, Become, recordVars, childVars, rpcVars, runVars, hostVars
<1>33. ASSUME NEW c \in Call, Abort(c) PROVE CompletedHonest'
  BY <1>33 DEF TypeOK, ProgressSound, ReleaseSound, SlotHeld, CompletedHonest, Releasing, Alive,
     Late, Abort, Become, Close, StopOwned, Detach, CancelTimers, Authorized, View, childVars,
     rpcVars, hostVars
<1>34. ASSUME NEW c \in Call, Cleanup(c) PROVE CompletedHonest'
  BY <1>34 DEF TypeOK, ProgressSound, ReleaseSound, SlotHeld, CompletedHonest, Releasing, Alive,
     Late, Cleanup, CleanupStarts, CleanupError, MayClean, Authorized, View, Become, Ingested,
     Close, StopOwned, Detach, CancelTimers, childVars, rpcVars, hostVars
<1>35. ASSUME NEW c \in Call, TakeoverReply(c) PROVE CompletedHonest'
  BY <1>35 DEF TypeOK, ProgressSound, ReleaseSound, SlotHeld, CompletedHonest, Releasing, Alive,
     Late, TakeoverReply, Become, recordVars, childVars, rpcVars, hostVars
<1>36. ASSUME NEW c \in Call, TakeoverFails(c) PROVE CompletedHonest'
  BY <1>36 DEF TypeOK, ProgressSound, ReleaseSound, SlotHeld, CompletedHonest, Releasing, Alive,
     Late, TakeoverFails, Become, recordVars, childVars, rpcVars, runVars, hostVars
<1>37. ASSUME NEW c \in Call, AbortClosed(c) PROVE CompletedHonest'
  BY <1>37 DEF TypeOK, ProgressSound, ReleaseSound, SlotHeld, CompletedHonest, Releasing, Alive,
     Late, AbortClosed, Become, recordVars, childVars, rpcVars, runVars, hostVars
<1>38. ASSUME NEW c \in Call, AbortReleases(c) PROVE CompletedHonest'
  BY <1>38 DEF TypeOK, ProgressSound, ReleaseSound, SlotHeld, CompletedHonest, Releasing, Alive,
     Late, AbortReleases, Become, Releases, recordVars, childVars, rpcVars
<1>39. ASSUME NEW c \in Call, CleanupClosed(c) PROVE CompletedHonest'
  BY <1>39 DEF TypeOK, ProgressSound, ReleaseSound, SlotHeld, CompletedHonest, Releasing, Alive,
     Late, CleanupClosed, Become, recordVars, childVars, rpcVars, runVars, hostVars
<1>40. ASSUME NEW c \in Call, CleanupReleases(c) PROVE CompletedHonest'
  BY <1>40 DEF TypeOK, ProgressSound, ReleaseSound, SlotHeld, CompletedHonest, Releasing, Alive,
     Late, CleanupReleases, Become, Releases, recordVars, childVars, rpcVars, runVars
<1>41. ASSUME NEW c \in Call, CleanupDone(c) PROVE CompletedHonest'
  BY <1>41 DEF TypeOK, ProgressSound, ReleaseSound, SlotHeld, CompletedHonest, Releasing, Alive,
     Late, CleanupDone, Become, View, childVars, rpcVars, hostVars
<1>42. ASSUME NEW c \in Call, CleanupFails(c) PROVE CompletedHonest'
  BY <1>42 DEF TypeOK, ProgressSound, ReleaseSound, SlotHeld, CompletedHonest, Releasing, Alive,
     Late, CleanupFails, CleanupError, Become, childVars, rpcVars, hostVars
<1>43. ASSUME NEW c \in Call, BrokerTakes(c) PROVE CompletedHonest'
  BY <1>43 DEF TypeOK, ProgressSound, ReleaseSound, SlotHeld, CompletedHonest, Releasing, Alive,
     Late, BrokerTakes, Become, childVars, rpcVars, runVars, hostVars
<1> QED
  BY <1>1, <1>2, <1>3, <1>4, <1>5, <1>6, <1>7, <1>8, <1>9, <1>10, <1>11, <1>12, <1>13, <1>14,
     <1>15, <1>16, <1>17, <1>18, <1>19, <1>20, <1>21, <1>22, <1>23, <1>24, <1>25, <1>26, <1>27,
     <1>28, <1>29, <1>30, <1>31, <1>32, <1>33, <1>34, <1>35, <1>36, <1>37, <1>38, <1>39, <1>40,
     <1>41, <1>42, <1>43 DEF Next, Continue, Answers, Seen, StopTimers, CallWork, ChildWork,
     Call

\* Every step keeps who may have ended a run.
LEMMA StopStep ==
  ASSUME TypeOK, ProgressSound, ReleaseSound, StopSound, Next
  PROVE  StopSound'
<1>1. ASSUME RegisterFails PROVE StopSound'
  BY <1>1 DEF TypeOK, ProgressSound, ReleaseSound, StopSound, Over, Late, RegisterFails,
     childVars, rpcVars, hostVars
<1>2. ASSUME ConnectionFails PROVE StopSound'
  BY <1>2 DEF TypeOK, ProgressSound, ReleaseSound, StopSound, Over, Late, ConnectionFails, Fail,
     StopOwned, recordVars, childVars, rpcVars, runVars, hostVars
<1>3. ASSUME HandOff PROVE StopSound'
  BY <1>3 DEF TypeOK, ProgressSound, ReleaseSound, StopSound, Over, Late, HandOff, childVars,
     rpcVars, hostVars
<1>4. ASSUME Dialog PROVE StopSound'
  BY <1>4 DEF TypeOK, ProgressSound, ReleaseSound, StopSound, Over, Late, Dialog, Fail,
     StopOwned, childVars, rpcVars, runVars, hostVars
<1>5. ASSUME CatchLeaves PROVE StopSound'
  BY <1>5 DEF TypeOK, ProgressSound, ReleaseSound, StopSound, Over, Late, CatchLeaves, Detach,
     CancelTimers, Failing, recordVars, childVars, rpcVars, hostVars
<1>6. ASSUME CatchStops PROVE StopSound'
  BY <1>6 DEF TypeOK, ProgressSound, ReleaseSound, StopSound, Over, Late, CatchStops, Close,
     StopOwned, Detach, CancelTimers, Failing, childVars, hostVars
<1>7. ASSUME Tidy PROVE StopSound'
  BY <1>7 DEF TypeOK, ProgressSound, ReleaseSound, StopSound, Over, Late, Tidy, CleanupStarts,
     CleanupError, MayClean, Authorized, View, Become, Ingested, Close, StopOwned, Detach,
     CancelTimers, recordVars, childVars, rpcVars, hostVars
<1>8. ASSUME Tidied PROVE StopSound'
  BY <1>8 DEF TypeOK, ProgressSound, ReleaseSound, StopSound, Over, Late, Tidied, recordVars,
     childVars, rpcVars, hostVars
<1>9. ASSUME Finally PROVE StopSound'
  BY <1>9 DEF TypeOK, ProgressSound, ReleaseSound, StopSound, Over, Late, Finally, recordVars,
     childVars, rpcVars, hostVars
<1>10. ASSUME Register PROVE StopSound'
  BY <1>10 DEF TypeOK, ProgressSound, ReleaseSound, StopSound, Over, Late, Register, rpcVars,
     hostVars
<1>11. ASSUME BindReply PROVE StopSound'
  BY <1>11 DEF TypeOK, ProgressSound, ReleaseSound, StopSound, Over, Late, BindReply,
     recordVars, childVars, rpcVars, hostVars
<1>12. ASSUME BindFails PROVE StopSound'
  BY <1>12 DEF TypeOK, ProgressSound, ReleaseSound, StopSound, Over, Late, BindFails, Detach,
     CancelTimers, recordVars, childVars, hostVars
<1>13. ASSUME Ready PROVE StopSound'
  BY <1>13 DEF TypeOK, ProgressSound, ReleaseSound, StopSound, Over, Late, Ready, childVars,
     rpcVars, hostVars
<1>14. ASSUME StartFails PROVE StopSound'
  BY <1>14 DEF TypeOK, ProgressSound, ReleaseSound, StopSound, Over, Late, StartFails, Close,
     StopOwned, Detach, CancelTimers, recordVars, childVars, hostVars
<1>15. ASSUME StartClosed PROVE StopSound'
  BY <1>15 DEF TypeOK, ProgressSound, ReleaseSound, StopSound, Over, Late, StartClosed,
     recordVars, childVars, rpcVars, hostVars
<1>16. ASSUME CatchClosed PROVE StopSound'
  BY <1>16 DEF TypeOK, ProgressSound, ReleaseSound, StopSound, Over, Late, CatchClosed, Detach,
     CancelTimers, recordVars, childVars, rpcVars, hostVars
<1>17. ASSUME MainReleases PROVE StopSound'
  BY <1>17 DEF TypeOK, ProgressSound, ReleaseSound, StopSound, Over, Late, MainReleases,
     Releases, recordVars, childVars, rpcVars
<1>18. ASSUME ExitSeen PROVE StopSound'
  BY <1>18 DEF TypeOK, ProgressSound, ReleaseSound, StopSound, Over, Late, ExitSeen, recordVars,
     rpcVars, runVars, hostVars
<1>19. ASSUME CloseSeen PROVE StopSound'
  BY <1>19 DEF TypeOK, ProgressSound, ReleaseSound, StopSound, Over, Late, CloseSeen, Fail,
     StopOwned, rpcVars, runVars, hostVars
<1>20. ASSUME TermTimer PROVE StopSound'
  BY <1>20 DEF TypeOK, ProgressSound, ReleaseSound, StopSound, Over, Late, TermTimer,
     recordVars, childVars, runVars, hostVars
<1>21. ASSUME KillTimer PROVE StopSound'
  BY <1>21 DEF TypeOK, ProgressSound, ReleaseSound, StopSound, Over, Late, KillTimer,
     recordVars, childVars, runVars, hostVars
<1>22. ASSUME Dispose PROVE StopSound'
  BY <1>22 DEF TypeOK, ProgressSound, ReleaseSound, StopSound, Over, Late, Dispose, Close,
     StopOwned, Detach, CancelTimers
<1>23. ASSUME Disposed PROVE StopSound'
  BY <1>23 DEF TypeOK, ProgressSound, ReleaseSound, StopSound, Over, Late, Disposed, recordVars,
     childVars, rpcVars, runVars
<1>24. ASSUME ParentGone PROVE StopSound'
  BY <1>24 DEF TypeOK, ProgressSound, ReleaseSound, StopSound, Over, Late, ParentGone, childVars
<1>25. ASSUME BindProcess PROVE StopSound'
  BY <1>25 DEF TypeOK, ProgressSound, ReleaseSound, StopSound, Over, Late, BindProcess,
     childVars, rpcVars, runVars, hostVars
<1>26. ASSUME Boot PROVE StopSound'
  BY <1>26 DEF TypeOK, ProgressSound, ReleaseSound, StopSound, Over, Late, Boot, recordVars,
     rpcVars, runVars, hostVars
<1>27. ASSUME HearsExit PROVE StopSound'
  BY <1>27 DEF TypeOK, ProgressSound, ReleaseSound, StopSound, Over, Late, HearsExit, Writes,
     rpcVars, runVars, hostVars
<1>28. ASSUME Disconnect PROVE StopSound'
  BY <1>28 DEF TypeOK, ProgressSound, ReleaseSound, StopSound, Over, Late, Disconnect, Writes,
     rpcVars, runVars, hostVars
<1>29. ASSUME ChildWrites PROVE StopSound'
  BY <1>29 DEF TypeOK, ProgressSound, ReleaseSound, StopSound, Over, Late, ChildWrites, rpcVars,
     runVars, hostVars
<1>30. ASSUME Leave PROVE StopSound'
  BY <1>30 DEF TypeOK, ProgressSound, ReleaseSound, StopSound, Over, Late, Leave, Ends, rpcVars,
     runVars, hostVars
<1>31. ASSUME Dies PROVE StopSound'
  BY <1>31 DEF TypeOK, ProgressSound, ReleaseSound, StopSound, Over, Late, Dies, Ends, rpcVars,
     runVars, hostVars
<1>32. ASSUME NEW c \in Call, TakeoverSend(c) PROVE StopSound'
  BY <1>32 DEF TypeOK, ProgressSound, ReleaseSound, StopSound, Over, Late, TakeoverSend, Become,
     recordVars, childVars, rpcVars, runVars, hostVars
<1>33. ASSUME NEW c \in Call, Abort(c) PROVE StopSound'
  BY <1>33 DEF TypeOK, ProgressSound, ReleaseSound, StopSound, Over, Late, Abort, Become, Close,
     StopOwned, Detach, CancelTimers, Authorized, View, childVars, rpcVars, hostVars
<1>34. ASSUME NEW c \in Call, Cleanup(c) PROVE StopSound'
  BY <1>34 DEF TypeOK, ProgressSound, ReleaseSound, StopSound, Over, Late, Cleanup,
     CleanupStarts, CleanupError, MayClean, Authorized, View, Become, Ingested, Close,
     StopOwned, Detach, CancelTimers, childVars, rpcVars, hostVars
<1>35. ASSUME NEW c \in Call, TakeoverReply(c) PROVE StopSound'
  BY <1>35 DEF TypeOK, ProgressSound, ReleaseSound, StopSound, Over, Late, TakeoverReply,
     Become, recordVars, childVars, rpcVars, hostVars
<1>36. ASSUME NEW c \in Call, TakeoverFails(c) PROVE StopSound'
  BY <1>36 DEF TypeOK, ProgressSound, ReleaseSound, StopSound, Over, Late, TakeoverFails,
     Become, recordVars, childVars, rpcVars, runVars, hostVars
<1>37. ASSUME NEW c \in Call, AbortClosed(c) PROVE StopSound'
  BY <1>37 DEF TypeOK, ProgressSound, ReleaseSound, StopSound, Over, Late, AbortClosed, Become,
     recordVars, childVars, rpcVars, runVars, hostVars
<1>38. ASSUME NEW c \in Call, AbortReleases(c) PROVE StopSound'
  BY <1>38 DEF TypeOK, ProgressSound, ReleaseSound, StopSound, Over, Late, AbortReleases,
     Become, Releases, recordVars, childVars, rpcVars
<1>39. ASSUME NEW c \in Call, CleanupClosed(c) PROVE StopSound'
  BY <1>39 DEF TypeOK, ProgressSound, ReleaseSound, StopSound, Over, Late, CleanupClosed,
     Become, recordVars, childVars, rpcVars, runVars, hostVars
<1>40. ASSUME NEW c \in Call, CleanupReleases(c) PROVE StopSound'
  BY <1>40 DEF TypeOK, ProgressSound, ReleaseSound, StopSound, Over, Late, CleanupReleases,
     Become, Releases, recordVars, childVars, rpcVars, runVars
<1>41. ASSUME NEW c \in Call, CleanupDone(c) PROVE StopSound'
  BY <1>41 DEF TypeOK, ProgressSound, ReleaseSound, StopSound, Over, Late, CleanupDone, Become,
     View, childVars, rpcVars, hostVars
<1>42. ASSUME NEW c \in Call, CleanupFails(c) PROVE StopSound'
  BY <1>42 DEF TypeOK, ProgressSound, ReleaseSound, StopSound, Over, Late, CleanupFails,
     CleanupError, Become, childVars, rpcVars, hostVars
<1>43. ASSUME NEW c \in Call, BrokerTakes(c) PROVE StopSound'
  BY <1>43 DEF TypeOK, ProgressSound, ReleaseSound, StopSound, Over, Late, BrokerTakes, Become,
     childVars, rpcVars, runVars, hostVars
<1> QED
  BY <1>1, <1>2, <1>3, <1>4, <1>5, <1>6, <1>7, <1>8, <1>9, <1>10, <1>11, <1>12, <1>13, <1>14,
     <1>15, <1>16, <1>17, <1>18, <1>19, <1>20, <1>21, <1>22, <1>23, <1>24, <1>25, <1>26, <1>27,
     <1>28, <1>29, <1>30, <1>31, <1>32, <1>33, <1>34, <1>35, <1>36, <1>37, <1>38, <1>39, <1>40,
     <1>41, <1>42, <1>43 DEF Next, Continue, Answers, Seen, StopTimers, CallWork, ChildWork,
     Call

\* A signal goes to a process that lives and was not taken over.
LEMMA StopOwnedOwned ==
  ASSUME TypeOK, StopOwned, UNCHANGED <<taken, proc, slot>>
  PROVE  Owned
<1>1. CASE UNCHANGED sent
  BY <1>1 DEF Owned
<1>2. CASE sent' = sent \cup {"abort"} /\ Alive /\ Authorized
  BY <1>2 DEF Owned, Sends, Authorized, View
<1> QED
  BY <1>1, <1>2 DEF StopOwned

\* close() stops the process only as its owner.
LEMMA CloseOwned ==
  ASSUME TypeOK, Close, UNCHANGED <<taken, proc, slot>>
  PROVE  Owned
<1>1. CASE StopOwned
  BY <1>1, StopOwnedOwned
<1>2. CASE UNCHANGED sent
  BY <1>2 DEF Owned
<1> QED
  BY <1>1, <1>2 DEF Close, Detach

\* Every step is one that the abstract ownership knows, or none of its business.
LEMMA OwnedStep ==
  ASSUME TypeOK, ProgressSound, ReleaseSound, Next
  PROVE  Owned
<1>1. ASSUME RegisterFails PROVE Owned
  BY <1>1 DEF Owned, RegisterFails, childVars, rpcVars, hostVars
<1>2. ASSUME ConnectionFails PROVE Owned
  <2>1. UNCHANGED <<taken, proc, slot>> /\ (Fail("other") \/ UNCHANGED rpcVars)
    BY <1>2 DEF ConnectionFails, recordVars, childVars, hostVars
  <2> QED
    BY <2>1, StopOwnedOwned DEF Owned, Fail, rpcVars
<1>3. ASSUME HandOff PROVE Owned
  <2>1. UNCHANGED <<taken, proc, slot>> /\ (Fail("other") \/ UNCHANGED rpcVars)
    BY <1>3 DEF HandOff, childVars, hostVars
  <2> QED
    BY <2>1, StopOwnedOwned DEF Owned, Fail, rpcVars
<1>4. ASSUME Dialog PROVE Owned
  <2>1. UNCHANGED <<taken, proc, slot>> /\ (Fail("other") \/ UNCHANGED rpcVars)
    BY <1>4 DEF Dialog, childVars, hostVars
  <2> QED
    BY <2>1, StopOwnedOwned DEF Owned, Fail, rpcVars
<1>5. ASSUME CatchLeaves PROVE Owned
  BY <1>5 DEF Owned, CatchLeaves, Detach, recordVars, childVars, rpcVars, hostVars
<1>6. ASSUME CatchStops PROVE Owned
  <2>1. Close \/ UNCHANGED rpcVars \/ Detach
    BY <1>6 DEF CatchStops
  <2>2. UNCHANGED <<taken, proc, slot>>
    BY <1>6 DEF CatchStops, childVars, hostVars
  <2> QED
    BY <2>1, <2>2, CloseOwned DEF Owned, Detach, rpcVars
<1>7. ASSUME Tidy PROVE Owned
  <2>1. UNCHANGED <<taken, proc, slot>> /\ (Close \/ UNCHANGED rpcVars)
    BY <1>7 DEF Tidy, CleanupStarts, recordVars, childVars, hostVars
  <2> QED
    BY <2>1, CloseOwned DEF Owned, rpcVars
<1>8. ASSUME Tidied PROVE Owned
  BY <1>8 DEF Owned, Tidied, recordVars, childVars, rpcVars, hostVars
<1>9. ASSUME Finally PROVE Owned
  BY <1>9 DEF Owned, Finally, recordVars, childVars, rpcVars, hostVars
<1>10. ASSUME Register PROVE Owned
  BY <1>10 DEF Owned, Starts, ProgressSound, Register, rpcVars, hostVars
<1>11. ASSUME BindReply PROVE Owned
  BY <1>11 DEF Owned, BindReply, recordVars, childVars, rpcVars, hostVars
<1>12. ASSUME BindFails PROVE Owned
  BY <1>12 DEF Owned, BindFails, Detach, recordVars, childVars, hostVars
<1>13. ASSUME Ready PROVE Owned
  BY <1>13 DEF Owned, Ready, childVars, rpcVars, hostVars
<1>14. ASSUME StartFails PROVE Owned
  <2>1. Close \/ UNCHANGED rpcVars \/ Detach
    BY <1>14 DEF StartFails
  <2>2. UNCHANGED <<taken, proc, slot>>
    BY <1>14 DEF StartFails, recordVars, childVars, hostVars
  <2> QED
    BY <2>1, <2>2, CloseOwned DEF Owned, Detach, rpcVars
<1>15. ASSUME StartClosed PROVE Owned
  BY <1>15 DEF Owned, StartClosed, recordVars, childVars, rpcVars, hostVars
<1>16. ASSUME CatchClosed PROVE Owned
  BY <1>16 DEF Owned, CatchClosed, Detach, recordVars, childVars, rpcVars, hostVars
<1>17. ASSUME MainReleases PROVE Owned
  BY <1>17 DEF Owned, Frees, ProgressSound, TypeOK, MainReleases, Releases, recordVars,
     childVars, rpcVars
<1>18. ASSUME ExitSeen PROVE Owned
  BY <1>18 DEF Owned, Ages, Alive, ExitSeen, recordVars, rpcVars, runVars, hostVars
<1>19. ASSUME CloseSeen PROVE Owned
  <2>1. UNCHANGED <<taken, slot, sent>> /\ proc = "exited" /\ proc' = "closed"
    BY <1>19 DEF CloseSeen, Fail, StopOwned, Alive, hostVars, rpcVars
  <2> QED
    BY <2>1 DEF Owned, Ages, Alive
<1>20. ASSUME TermTimer PROVE Owned
  BY <1>20 DEF Owned, Sends, TermTimer, Alive, Authorized, View, recordVars, childVars, runVars,
     hostVars
<1>21. ASSUME KillTimer PROVE Owned
  BY <1>21 DEF Owned, Sends, KillTimer, Alive, Authorized, View, recordVars, childVars, runVars,
     hostVars
<1>22. ASSUME Dispose PROVE Owned
  <2>1. UNCHANGED <<taken, proc, slot>> /\ (Close \/ Detach \/ UNCHANGED sent)
    BY <1>22 DEF Dispose
  <2> QED
    BY <2>1, CloseOwned DEF Owned, Detach
<1>23. ASSUME Disposed PROVE Owned
  BY <1>23 DEF Owned, Disposed, recordVars, childVars, rpcVars, runVars
<1>24. ASSUME ParentGone PROVE Owned
  BY <1>24 DEF Owned, ParentGone, childVars
<1>25. ASSUME BindProcess PROVE Owned
  BY <1>25 DEF Owned, BindProcess, childVars, rpcVars, runVars, hostVars
<1>26. ASSUME Boot PROVE Owned
  BY <1>26 DEF Owned, Boot, recordVars, rpcVars, runVars, hostVars
<1>27. ASSUME HearsExit PROVE Owned
  BY <1>27 DEF Owned, HearsExit, Writes, rpcVars, runVars, hostVars
<1>28. ASSUME Disconnect PROVE Owned
  BY <1>28 DEF Owned, Disconnect, Writes, rpcVars, runVars, hostVars
<1>29. ASSUME ChildWrites PROVE Owned
  BY <1>29 DEF Owned, ChildWrites, rpcVars, runVars, hostVars
<1>30. ASSUME Leave PROVE Owned
  BY <1>30 DEF Owned, Ages, Alive, Leave, Ends, rpcVars, runVars, hostVars
<1>31. ASSUME Dies PROVE Owned
  BY <1>31 DEF Owned, Ages, Alive, Dies, Ends, rpcVars, runVars, hostVars
<1>32. ASSUME NEW c \in Call, TakeoverSend(c) PROVE Owned
  BY <1>32 DEF Owned, TakeoverSend, Become, recordVars, childVars, rpcVars, runVars, hostVars
<1>33. ASSUME NEW c \in Call, Abort(c) PROVE Owned
  <2>1. Close \/ UNCHANGED rpcVars \/ Detach
    BY <1>33 DEF Abort
  <2>2. UNCHANGED <<taken, proc, slot>>
    BY <1>33 DEF Abort, childVars, hostVars
  <2> QED
    BY <2>1, <2>2, CloseOwned DEF Owned, Detach, rpcVars
<1>34. ASSUME NEW c \in Call, Cleanup(c) PROVE Owned
  <2>1. UNCHANGED <<taken, proc, slot>> /\ (Close \/ UNCHANGED rpcVars)
    BY <1>34 DEF Cleanup, CleanupStarts, childVars, hostVars
  <2> QED
    BY <2>1, CloseOwned DEF Owned, rpcVars
<1>35. ASSUME NEW c \in Call, TakeoverReply(c) PROVE Owned
  BY <1>35 DEF Owned, TakeoverReply, Become, recordVars, childVars, rpcVars, hostVars
<1>36. ASSUME NEW c \in Call, TakeoverFails(c) PROVE Owned
  BY <1>36 DEF Owned, TakeoverFails, Become, recordVars, childVars, rpcVars, runVars, hostVars
<1>37. ASSUME NEW c \in Call, AbortClosed(c) PROVE Owned
  BY <1>37 DEF Owned, AbortClosed, Become, recordVars, childVars, rpcVars, runVars, hostVars
<1>38. ASSUME NEW c \in Call, AbortReleases(c) PROVE Owned
  BY <1>38 DEF Owned, Frees, ReleaseSound, Releasing, TypeOK, AbortReleases, Releases,
     recordVars, childVars, rpcVars
<1>39. ASSUME NEW c \in Call, CleanupClosed(c) PROVE Owned
  BY <1>39 DEF Owned, CleanupClosed, Become, recordVars, childVars, rpcVars, runVars, hostVars
<1>40. ASSUME NEW c \in Call, CleanupReleases(c) PROVE Owned
  BY <1>40 DEF Owned, Frees, ReleaseSound, Releasing, TypeOK, CleanupReleases, Releases,
     recordVars, childVars, rpcVars, runVars
<1>41. ASSUME NEW c \in Call, CleanupDone(c) PROVE Owned
  BY <1>41 DEF Owned, CleanupDone, Become, View, childVars, rpcVars, hostVars
<1>42. ASSUME NEW c \in Call, CleanupFails(c) PROVE Owned
  BY <1>42 DEF Owned, CleanupFails, CleanupError, Become, childVars, rpcVars, hostVars
<1>43. ASSUME NEW c \in Call, BrokerTakes(c) PROVE Owned
  BY <1>43 DEF Owned, Takes, BrokerTakes, childVars, rpcVars, runVars, hostVars
<1> QED
  BY <1>1, <1>2, <1>3, <1>4, <1>5, <1>6, <1>7, <1>8, <1>9, <1>10, <1>11, <1>12, <1>13, <1>14,
     <1>15, <1>16, <1>17, <1>18, <1>19, <1>20, <1>21, <1>22, <1>23, <1>24, <1>25, <1>26, <1>27,
     <1>28, <1>29, <1>30, <1>31, <1>32, <1>33, <1>34, <1>35, <1>36, <1>37, <1>38, <1>39, <1>40,
     <1>41, <1>42, <1>43 DEF Next, Continue, Answers, Seen, StopTimers, CallWork, ChildWork,
     Call

\* No step makes a run active again that is over on record.
LEMMA OverStep ==
  ASSUME TypeOK, ProgressSound, StopSound, phase \in Over, Next
  PROVE  phase' \notin Active
<1>1. ASSUME RegisterFails PROVE phase' \notin Active
  BY <1>1 DEF TypeOK, ProgressSound, StopSound, Over, Active, Late, Idle, RegisterFails,
     childVars, rpcVars, hostVars
<1>2. ASSUME ConnectionFails PROVE phase' \notin Active
  BY <1>2 DEF TypeOK, ProgressSound, StopSound, Over, Active, Late, Idle, ConnectionFails, Fail,
     StopOwned, recordVars, childVars, rpcVars, runVars, hostVars
<1>3. ASSUME HandOff PROVE phase' \notin Active
  BY <1>3 DEF TypeOK, ProgressSound, StopSound, Over, Active, Late, Capturable, Idle, HandOff,
     childVars, rpcVars, hostVars
<1>4. ASSUME Dialog PROVE phase' \notin Active
  BY <1>4 DEF TypeOK, ProgressSound, StopSound, Over, Active, Late, Idle, Dialog, Fail,
     StopOwned, childVars, rpcVars, runVars, hostVars
<1>5. ASSUME CatchLeaves PROVE phase' \notin Active
  BY <1>5 DEF TypeOK, ProgressSound, StopSound, Over, Active, Late, CatchLeaves, Detach,
     CancelTimers, Failing, recordVars, childVars, rpcVars, hostVars
<1>6. ASSUME CatchStops PROVE phase' \notin Active
  BY <1>6 DEF TypeOK, ProgressSound, StopSound, Over, Active, Late, CatchStops, Close,
     StopOwned, Detach, CancelTimers, Failing, childVars, hostVars
<1>7. ASSUME Tidy PROVE phase' \notin Active
  BY <1>7 DEF TypeOK, ProgressSound, StopSound, Over, Active, Late, Tidy, CleanupStarts,
     CleanupError, MayClean, Authorized, View, Become, Ingested, Close, StopOwned, Detach,
     CancelTimers, recordVars, childVars, rpcVars, hostVars
<1>8. ASSUME Tidied PROVE phase' \notin Active
  BY <1>8 DEF TypeOK, ProgressSound, StopSound, Over, Active, Late, Tidied, recordVars,
     childVars, rpcVars, hostVars
<1>9. ASSUME Finally PROVE phase' \notin Active
  BY <1>9 DEF TypeOK, ProgressSound, StopSound, Over, Active, Late, Finally, recordVars,
     childVars, rpcVars, hostVars
<1>10. ASSUME Register PROVE phase' \notin Active
  BY <1>10 DEF TypeOK, ProgressSound, StopSound, Over, Active, Late, Idle, Register, rpcVars,
     hostVars
<1>11. ASSUME BindReply PROVE phase' \notin Active
  BY <1>11 DEF TypeOK, ProgressSound, StopSound, Over, Active, Late, Idle, BindReply,
     recordVars, childVars, rpcVars, hostVars
<1>12. ASSUME BindFails PROVE phase' \notin Active
  BY <1>12 DEF TypeOK, ProgressSound, StopSound, Over, Active, Late, Idle, BindFails, Detach,
     CancelTimers, recordVars, childVars, hostVars
<1>13. ASSUME Ready PROVE phase' \notin Active
  BY <1>13 DEF TypeOK, ProgressSound, StopSound, Over, Active, Late, Capturable, Idle, Ready,
     childVars, rpcVars, hostVars
<1>14. ASSUME StartFails PROVE phase' \notin Active
  BY <1>14 DEF TypeOK, ProgressSound, StopSound, Over, Active, Late, Idle, StartFails, Close,
     StopOwned, Detach, CancelTimers, recordVars, childVars, hostVars
<1>15. ASSUME StartClosed PROVE phase' \notin Active
  BY <1>15 DEF TypeOK, ProgressSound, StopSound, Over, Active, Late, Idle, StartClosed,
     recordVars, childVars, rpcVars, hostVars
<1>16. ASSUME CatchClosed PROVE phase' \notin Active
  BY <1>16 DEF TypeOK, ProgressSound, StopSound, Over, Active, Late, Idle, CatchClosed, Detach,
     CancelTimers, recordVars, childVars, rpcVars, hostVars
<1>17. ASSUME MainReleases PROVE phase' \notin Active
  BY <1>17 DEF TypeOK, ProgressSound, StopSound, Over, Active, Late, Idle, MainReleases,
     Releases, recordVars, childVars, rpcVars
<1>18. ASSUME ExitSeen PROVE phase' \notin Active
  BY <1>18 DEF TypeOK, ProgressSound, StopSound, Over, Active, Late, Idle, ExitSeen, recordVars,
     rpcVars, runVars, hostVars
<1>19. ASSUME CloseSeen PROVE phase' \notin Active
  BY <1>19 DEF TypeOK, ProgressSound, StopSound, Over, Active, Late, Idle, CloseSeen, Fail,
     StopOwned, rpcVars, runVars, hostVars
<1>20. ASSUME TermTimer PROVE phase' \notin Active
  BY <1>20 DEF TypeOK, ProgressSound, StopSound, Over, Active, Late, Idle, TermTimer,
     recordVars, childVars, runVars, hostVars
<1>21. ASSUME KillTimer PROVE phase' \notin Active
  BY <1>21 DEF TypeOK, ProgressSound, StopSound, Over, Active, Late, Idle, KillTimer,
     recordVars, childVars, runVars, hostVars
<1>22. ASSUME Dispose PROVE phase' \notin Active
  BY <1>22 DEF TypeOK, ProgressSound, StopSound, Over, Active, Late, Idle, Dispose, Close,
     StopOwned, Detach, CancelTimers
<1>23. ASSUME Disposed PROVE phase' \notin Active
  BY <1>23 DEF TypeOK, ProgressSound, StopSound, Over, Active, Late, Idle, Disposed, recordVars,
     childVars, rpcVars, runVars
<1>24. ASSUME ParentGone PROVE phase' \notin Active
  BY <1>24 DEF TypeOK, ProgressSound, StopSound, Over, Active, Late, ParentGone, childVars
<1>25. ASSUME BindProcess PROVE phase' \notin Active
  BY <1>25 DEF TypeOK, ProgressSound, StopSound, Over, Active, Late, BindProcess, childVars,
     rpcVars, runVars, hostVars
<1>26. ASSUME Boot PROVE phase' \notin Active
  BY <1>26 DEF TypeOK, ProgressSound, StopSound, Over, Active, Late, Boot, recordVars, rpcVars,
     runVars, hostVars
<1>27. ASSUME HearsExit PROVE phase' \notin Active
  BY <1>27 DEF TypeOK, ProgressSound, StopSound, Over, Active, Late, HearsExit, Writes, rpcVars,
     runVars, hostVars
<1>28. ASSUME Disconnect PROVE phase' \notin Active
  BY <1>28 DEF TypeOK, ProgressSound, StopSound, Over, Active, Late, Disconnect, Writes,
     rpcVars, runVars, hostVars
<1>29. ASSUME ChildWrites PROVE phase' \notin Active
  BY <1>29 DEF TypeOK, ProgressSound, StopSound, Over, Active, Late, ChildWrites, rpcVars,
     runVars, hostVars
<1>30. ASSUME Leave PROVE phase' \notin Active
  BY <1>30 DEF TypeOK, ProgressSound, StopSound, Over, Active, Late, Leave, Ends, rpcVars,
     runVars, hostVars
<1>31. ASSUME Dies PROVE phase' \notin Active
  BY <1>31 DEF TypeOK, ProgressSound, StopSound, Over, Active, Late, Dies, Ends, rpcVars,
     runVars, hostVars
<1>32. ASSUME NEW c \in Call, TakeoverSend(c) PROVE phase' \notin Active
  BY <1>32 DEF TypeOK, ProgressSound, StopSound, Over, Active, Late, Idle, TakeoverSend, Become,
     recordVars, childVars, rpcVars, runVars, hostVars
<1>33. ASSUME NEW c \in Call, Abort(c) PROVE phase' \notin Active
  BY <1>33 DEF TypeOK, ProgressSound, StopSound, Over, Active, Late, Idle, Abort, Become, Close,
     StopOwned, Detach, CancelTimers, Authorized, View, childVars, rpcVars, hostVars
<1>34. ASSUME NEW c \in Call, Cleanup(c) PROVE phase' \notin Active
  BY <1>34 DEF TypeOK, ProgressSound, StopSound, Over, Active, Late, Idle, Cleanup,
     CleanupStarts, CleanupError, MayClean, Authorized, View, Become, Ingested, Close,
     StopOwned, Detach, CancelTimers, childVars, rpcVars, hostVars
<1>35. ASSUME NEW c \in Call, TakeoverReply(c) PROVE phase' \notin Active
  BY <1>35 DEF TypeOK, ProgressSound, StopSound, Over, Active, Late, Idle, TakeoverReply,
     Become, recordVars, childVars, rpcVars, hostVars
<1>36. ASSUME NEW c \in Call, TakeoverFails(c) PROVE phase' \notin Active
  BY <1>36 DEF TypeOK, ProgressSound, StopSound, Over, Active, Late, Idle, TakeoverFails,
     Become, recordVars, childVars, rpcVars, runVars, hostVars
<1>37. ASSUME NEW c \in Call, AbortClosed(c) PROVE phase' \notin Active
  BY <1>37 DEF TypeOK, ProgressSound, StopSound, Over, Active, Late, Idle, AbortClosed, Become,
     recordVars, childVars, rpcVars, runVars, hostVars
<1>38. ASSUME NEW c \in Call, AbortReleases(c) PROVE phase' \notin Active
  BY <1>38 DEF TypeOK, ProgressSound, StopSound, Over, Active, Late, Idle, AbortReleases,
     Become, Releases, recordVars, childVars, rpcVars
<1>39. ASSUME NEW c \in Call, CleanupClosed(c) PROVE phase' \notin Active
  BY <1>39 DEF TypeOK, ProgressSound, StopSound, Over, Active, Late, Idle, CleanupClosed,
     Become, recordVars, childVars, rpcVars, runVars, hostVars
<1>40. ASSUME NEW c \in Call, CleanupReleases(c) PROVE phase' \notin Active
  BY <1>40 DEF Over, Active, CleanupReleases, CleanupError
<1>41. ASSUME NEW c \in Call, CleanupDone(c) PROVE phase' \notin Active
  BY <1>41 DEF TypeOK, ProgressSound, StopSound, Over, Active, Late, Idle, CleanupDone, Become,
     View, childVars, rpcVars, hostVars
<1>42. ASSUME NEW c \in Call, CleanupFails(c) PROVE phase' \notin Active
  BY <1>42 DEF TypeOK, ProgressSound, StopSound, Over, Active, Late, Idle, CleanupFails,
     CleanupError, Become, childVars, rpcVars, hostVars
<1>43. ASSUME NEW c \in Call, BrokerTakes(c) PROVE phase' \notin Active
  BY <1>43 DEF TypeOK, ProgressSound, StopSound, Over, Active, Late, BrokerTakes, Become,
     childVars, rpcVars, runVars, hostVars
<1> QED
  BY <1>1, <1>2, <1>3, <1>4, <1>5, <1>6, <1>7, <1>8, <1>9, <1>10, <1>11, <1>12, <1>13, <1>14,
     <1>15, <1>16, <1>17, <1>18, <1>19, <1>20, <1>21, <1>22, <1>23, <1>24, <1>25, <1>26, <1>27,
     <1>28, <1>29, <1>30, <1>31, <1>32, <1>33, <1>34, <1>35, <1>36, <1>37, <1>38, <1>39, <1>40,
     <1>41, <1>42, <1>43 DEF Next, Continue, Answers, Seen, StopTimers, CallWork, ChildWork,
     Call

-----------------------------------------------------------------------------
(* The invariant and the theorems. *)

\* The run begins before its process exists.
LEMMA InitInv == Init => RunInv
<1> SUFFICES ASSUME Init PROVE RunInv
  OBVIOUS
<1>1. TypeOK
  <2>1. sent \subseteq {"abort", "term", "kill"}
    BY DEF Init
  <2>2. /\ call \in [Call -> {"idle", "taking", "taken", "aborting", "abort-releasing",
                              "cleaning", "releasing", "released"}]
    BY DEF Init
  <2> QED
    BY <2>1, <2>2 DEF Init, TypeOK, Phase
<1>2. \A c \in Call : call[c] = "idle"
  BY DEF Init
<1>3. ProgressSound /\ ReleaseSound /\ SlotHeld /\ CompletedHonest /\ StopSound
  BY <1>2 DEF Init, ProgressSound, ReleaseSound, SlotHeld, CompletedHonest, StopSound, Alive,
     Releasing, Over
<1> QED
  BY <1>1, <1>3 DEF RunInv

\* A step that changes nothing keeps the invariant.
LEMMA StutterInv == RunInv /\ UNCHANGED vars => RunInv'
<1> SUFFICES ASSUME RunInv, UNCHANGED vars PROVE RunInv'
  OBVIOUS
<1> USE DEF vars, recordVars, childVars, rpcVars, runVars, hostVars
<1>1. TypeOK'
  BY DEF RunInv, TypeOK
<1>2. ProgressSound'
  BY DEF RunInv, ProgressSound, Alive
<1>3. ReleaseSound'
  BY DEF RunInv, ReleaseSound, Alive
<1>4. SlotHeld' /\ CompletedHonest'
  BY DEF RunInv, SlotHeld, CompletedHonest, Alive
<1>5. StopSound'
  BY DEF RunInv, StopSound
<1> QED
  BY <1>1, <1>2, <1>3, <1>4, <1>5 DEF RunInv

\* The slot alone is not inductive: that a call has seen the end of the process before it
\* asks for the slot is, and so is who may have ended a run.
LEMMA Invariance == Spec => []RunInv
<1>1. RunInv /\ Next => RunInv'
  BY TypeStep, ProgressStep, ReleaseStep, SlotStep, CompletedStep, StopStep DEF RunInv
<1> QED
  BY InitInv, StutterInv, <1>1, PTL DEF Spec

\* The record, the process, the connection and the calls keep their types; nobody takes over
\* a run that was never bound, and a lock is held by a write under way.
THEOREM TypeCorrect == Spec => []TypeOK
<1>1. RunInv => TypeOK
  BY DEF RunInv
<1> QED
  BY Invariance, <1>1, PTL

\* However many takeovers, aborts and cleanups overlap with execute(), the slot of a process
\* that lives, or that was taken over, is not given back by its parent.
THEOREM SlotHeldAlways == Spec => []SlotHeld
<1>1. RunInv => SlotHeld
  BY DEF RunInv
<1> QED
  BY Invariance, <1>1, PTL

\* "completed" on record: the result is in the session, the process has ended and its slot is
\* free.
THEOREM CompletedHonestAlways == Spec => []CompletedHonest
<1>1. RunInv => CompletedHonest
  BY DEF RunInv
<1> QED
  BY Invariance, <1>1, PTL

\* No late handshake, result or dialog makes a run active that is over on record.
THEOREM OverStaysOverAlways == Spec => OverStaysOver
<1>1. RunInv /\ [Next]_vars => [(phase \in Over) => (phase' \notin Active)]_vars
  BY OverStep DEF RunInv
<1> QED
  BY Invariance, <1>1, PTL DEF OverStaysOver, Spec

\* Every step of the run is a step of the exclusive ownership or leaves it alone: nobody
\* signals a process that was taken over, and its owner alone gives up the slot.
THEOREM OwnershipRefined == Spec => OwnershipSpec
<1>1. Init => Ownership!Init
  BY DEF Init, Ownership!Init
<1>2. Owned => [Ownership!Next]_(Ownership!vars)
  <2> USE DEF Ownership!vars
  <2>1. CASE UNCHANGED <<taken, proc, sent, slot>>
    BY <2>1 DEF Alive
  <2>2. CASE Sends
    BY <2>2 DEF Sends, Alive, Ownership!Next, Ownership!Send
  <2>3. CASE Starts
    BY <2>3 DEF Starts, Ownership!Next, Ownership!Start
  <2>4. CASE Ages
    BY <2>4 DEF Ages, Alive, Ownership!Next, Ownership!End
  <2>5. CASE Takes
    BY <2>5 DEF Takes, Alive, Ownership!Next, Ownership!TakeOver
  <2>6. CASE Frees
    BY <2>6 DEF Frees, Alive, Ownership!Next, Ownership!Free
  <2> QED
    BY <2>1, <2>2, <2>3, <2>4, <2>5, <2>6 DEF Owned
<1>3. RunInv /\ [Next]_vars => [Ownership!Next]_(Ownership!vars)
  <2>1. CASE UNCHANGED vars
    BY <2>1 DEF vars, recordVars, childVars, rpcVars, hostVars, Ownership!vars, Alive
  <2> QED
    BY <1>2, <2>1, OwnedStep DEF RunInv
<1> QED
  BY Invariance, <1>1, <1>3, PTL DEF Spec, OwnershipSpec, Ownership!Spec
=============================================================================
