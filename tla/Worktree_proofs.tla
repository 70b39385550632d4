---------------------------- MODULE Worktree_proofs ----------------------------
(***************************************************************************)
(* Proofs about Worktree, for any children, files, edits and commits: the  *)
(* integration lock excludes, an integration accounts for its own bytes    *)
(* and replaces only what it expects, and a removal loses no commit.       *)
(***************************************************************************)
EXTENDS Worktree, TLAPS

Unstarted == {"no", "refused", "locked", "reading", "read", "conflict", "failed"}

\* A removal that goes on knows the commits of an agent that rests.
RemovalSound ==
  \A c \in Child :
    /\ merged[c] <= reached[c] /\ reached[c] <= head[c]
    /\ clean[c] # "no" => made[c] \in {"yes", "removed"}
    /\ made[c] = "removed" => clean[c] = "removed"
    /\ ~reran[c] =>
         /\ clean[c] \notin {"no", "refused"} => agent[c] = "idle"
         /\ clean[c] \in {"head", "clean", "reachable", "removing", "removed"} => seen[c] = head[c]
         /\ clean[c] \in {"reachable", "removing", "removed"} => seen[c] <= reached[c]

\* An integration has a whole worktree, and has replaced files that it changes.
StageSound ==
  \A c \in Child :
    /\ lock = c => phase[c] \notin {"no", "refused"}
    /\ phase[c] # "no" => made[c] \in {"yes", "removed"}
    /\ pass[c] \in 1 .. 4 => made[c] \in {"no", "partial"}
    /\ phase[c] \in Unstarted => applied[c] = {}
    /\ \A p \in applied[c] : p \in Changed(c) /\ original[c][p] # c
    /\ phase[c] \in {"installing", "renaming"} => at[c] \in Changed(c) /\ original[c][at[c]] # c
    /\ phase[c] = "restoring" => at[c] \in applied[c]

\* What the user knows to be a child's: by its success, or by its report.
Accounted(c, p) == phase[c] \in {"integrated", "dead"} \/ p \in recovery[c]

\* A child's bytes are accounted for, or still to be rolled back; and a rollback of
\* another child does not bring back what is not accounted for.
BytesSound ==
  \A c \in Child, p \in Path :
    /\ file[p] = c => Accounted(c, p) \/ (phase[c] \in Busy /\ p \in applied[c])
    /\ \A d \in Child \ {c} : original[d][p] = c => Accounted(c, p)

\* What is replaced was found to be the snapshot's or the child's, and is so still unless
\* somebody wrote it after the last look.
FoundSound ==
  \A c \in Child :
    /\ \A p \in Changed(c) :
         (\/ phase[c] = "reading" /\ p <= at[c]
          \/ phase[c] \in {"read", "applying", "installing", "renaming"})
           => original[c][p] \in {base[c][p], c}
    /\ phase[c] = "renaming" /\ ~raced[c] => file[at[c]] = original[c][at[c]]
    /\ phase[c] = "restoring" /\ ~raced[c] => file[at[c]] = c

WorktreeInv == TypeOK /\ RemovalSound /\ StageSound /\ BytesSound /\ FoundSound

-----------------------------------------------------------------------------
(* Helpers. *)

Phase == Busy \cup {"no", "refused", "conflict", "integrated", "failed", "dead"}

\* A child's own version is what it wants of a file that it changes.
LEMMA DesiredFacts ==
  ASSUME TypeOK, NEW c \in Child, NEW p \in Path
  PROVE  Desired(c, p) \in Content /\ (p \in Changed(c) => Desired(c, p) = c)
BY DEF TypeOK, Desired, Changed, Content, Files

\* A call that holds the lock may go to any phase.
LEMMA ToTyped ==
  ASSUME TypeOK, NEW c \in Child, phase[c] \in Busy, NEW s \in Phase, UNCHANGED lock,
         To(c, s) \/ UNCHANGED phase
  PROVE  phase' \in [Child -> Phase] /\ \A q \in Child : phase'[q] \in Busy => lock' = q
BY DEF TypeOK, To, Phase

\* A file of a function of files is replaced.
LEMMA FilesTyped ==
  ASSUME NEW f \in Files, NEW p, NEW v \in Content
  PROVE  [f EXCEPT ![p] = v] \in Files
BY DEF Files

\* An integrated child, or a report, stays.
LEMMA AccountKept ==
  ASSUME TypeOK, NEW q \in Child, NEW p \in Path, Accounted(q, p),
         \/ UNCHANGED phase
         \/ \E c \in Child, s \in Phase : To(c, s) /\ (phase[c] \notin {"integrated", "dead"} \/ s = "dead"),
         \/ UNCHANGED recovery
         \/ \E c \in Child, r \in SUBSET Path :
              recovery' = [recovery EXCEPT ![c] = recovery[c] \cup r]
  PROVE  Accounted(q, p)'
BY DEF TypeOK, Accounted, To

\* Every step keeps what a removal knows.
LEMMA RemovalStep ==
  ASSUME TypeOK, RemovalSound, StageSound, Next
  PROVE  RemovalSound'
<1>1. ASSUME NEW c \in Child, Resume(c) PROVE RemovalSound'
  <2>1. /\ \A q \in Child \ {c} : reran'[q] = reran[q] /\ agent'[q] = agent[q]
        /\ ~reran'[c] => ~reran[c] /\ clean[c] \in {"no", "refused"}
    <3>1. reran' = [reran EXCEPT ![c] = reran[c] \/ clean[c] \notin {"no", "refused"}]
          /\ agent' = [agent EXCEPT ![c] = "active"]
      BY <1>1 DEF Resume
    <3> QED
      BY <3>1, Zenon DEF TypeOK
  <2>2. UNCHANGED <<merged, reached, head, clean, made, seen>>
    BY <1>1 DEF Resume, checkoutVars
  <2> QED
    BY <2>1, <2>2 DEF RemovalSound
<1>2. ASSUME NEW c \in Child, ChangeFile(c) PROVE RemovalSound'
  BY <1>2, WorktreeAssumption DEF TypeOK, RemovalSound, StageSound, ChangeFile, checkoutVars,
     passVars, snapVars, integrateVars, cleanVars
<1>3. ASSUME NEW c \in Child, Commit(c) PROVE RemovalSound'
  BY <1>3, WorktreeAssumption DEF TypeOK, RemovalSound, StageSound, Commit, checkoutVars,
     passVars, snapVars, integrateVars, cleanVars
<1>4. ASSUME NEW c \in Child, Finish(c) PROVE RemovalSound'
  BY <1>4, WorktreeAssumption DEF TypeOK, RemovalSound, StageSound, Finish, checkoutVars,
     passVars, snapVars, integrateVars, cleanVars
<1>5. ASSUME NEW c \in Child, Capture(c) PROVE RemovalSound'
  BY <1>5, WorktreeAssumption DEF TypeOK, RemovalSound, StageSound, Capture, checkoutVars,
     integrateVars, cleanVars, SnapVarsBut
<1>6. ASSUME NEW c \in Child, ReadEntry(c) PROVE RemovalSound'
  BY <1>6, WorktreeAssumption DEF TypeOK, RemovalSound, StageSound, ReadEntry, Capturing,
     checkoutVars, integrateVars, cleanVars, SnapVarsBut
<1>7. ASSUME NEW c \in Child, EndPass(c) PROVE RemovalSound'
  BY <1>7, WorktreeAssumption DEF TypeOK, RemovalSound, StageSound, EndPass, Forget, Capturing,
     checkoutVars, integrateVars, cleanVars, SnapVarsBut
<1>8. ASSUME NEW c \in Child, Open(c) PROVE RemovalSound'
  BY <1>8, WorktreeAssumption DEF TypeOK, RemovalSound, StageSound, Open, To, agentVars,
     passVars, cleanVars, IntVarsBut, Quiet
<1>9. ASSUME NEW c \in Child, Identify(c) PROVE RemovalSound'
  BY <1>9, WorktreeAssumption DEF TypeOK, RemovalSound, StageSound, Identify, To, agentVars,
     passVars, cleanVars, IntVarsBut, Quiet
<1>10. ASSUME NEW c \in Child, ReadOriginal(c) PROVE RemovalSound'
  BY <1>10, WorktreeAssumption DEF TypeOK, RemovalSound, StageSound, ReadOriginal, To, Rest,
     First, agentVars, passVars, cleanVars, IntVarsBut, Quiet
<1>11. ASSUME NEW c \in Child, Recheck(c) PROVE RemovalSound'
  BY <1>11, WorktreeAssumption DEF TypeOK, RemovalSound, StageSound, Recheck, To, agentVars,
     passVars, cleanVars, IntVarsBut, Quiet
<1>12. ASSUME NEW c \in Child, Check(c) PROVE RemovalSound'
  BY <1>12, WorktreeAssumption DEF TypeOK, RemovalSound, StageSound, Check, To, Rest, First,
     agentVars, passVars, cleanVars, IntVarsBut, Quiet
<1>13. ASSUME NEW c \in Child, Reread(c) PROVE RemovalSound'
  BY <1>13, WorktreeAssumption DEF TypeOK, RemovalSound, StageSound, Reread, Fresher, To,
     agentVars, passVars, cleanVars, IntVarsBut, Quiet
<1>14. ASSUME NEW c \in Child, Rename(c) PROVE RemovalSound'
  BY <1>14, WorktreeAssumption DEF TypeOK, RemovalSound, StageSound, Rename, Write, To,
     Replacing, agentVars, passVars, cleanVars, IntVarsBut
<1>15. ASSUME NEW c \in Child, Undo(c) PROVE RemovalSound'
  BY <1>15, WorktreeAssumption DEF TypeOK, RemovalSound, StageSound, Undo, To, Fresher, GiveUp,
     Last, agentVars, passVars, cleanVars, IntVarsBut, Quiet
<1>16. ASSUME NEW c \in Child, Restore(c) PROVE RemovalSound'
  BY <1>16, WorktreeAssumption DEF TypeOK, RemovalSound, StageSound, Restore, Write, To,
     Replacing, agentVars, passVars, cleanVars, IntVarsBut
<1>17. ASSUME NEW c \in Child, Release(c) PROVE RemovalSound'
  BY <1>17, WorktreeAssumption DEF TypeOK, RemovalSound, StageSound, Release, agentVars,
     passVars, cleanVars, IntVarsBut, Quiet
<1>18. ASSUME NEW c \in Child, Die(c) PROVE RemovalSound'
  BY <1>18, WorktreeAssumption DEF TypeOK, RemovalSound, StageSound, Die, To, agentVars,
     passVars, cleanVars, IntVarsBut, Quiet
<1>19. ASSUME NEW c \in Child, AskCleanup(c) PROVE RemovalSound'
  BY <1>19, WorktreeAssumption DEF TypeOK, RemovalSound, StageSound, AskCleanup, Cleanup,
     checkoutVars, passVars, snapVars, integrateVars, CleanVarsBut
<1>20. ASSUME NEW c \in Child, InspectHead(c) PROVE RemovalSound'
  BY <1>20, WorktreeAssumption DEF TypeOK, RemovalSound, StageSound, InspectHead, Cleanup,
     checkoutVars, passVars, snapVars, integrateVars, CleanVarsBut
<1>21. ASSUME NEW c \in Child, InspectStatus(c) PROVE RemovalSound'
  BY <1>21, WorktreeAssumption DEF TypeOK, RemovalSound, StageSound, InspectStatus, Cleanup,
     checkoutVars, passVars, snapVars, integrateVars, CleanVarsBut
<1>22. ASSUME NEW c \in Child, CheckAncestry(c) PROVE RemovalSound'
  BY <1>22, WorktreeAssumption DEF TypeOK, RemovalSound, StageSound, CheckAncestry, Cleanup,
     Reachable, checkoutVars, passVars, snapVars, integrateVars, CleanVarsBut
<1>23. ASSUME NEW c \in Child, BeforeRemove(c) PROVE RemovalSound'
  BY <1>23, WorktreeAssumption DEF TypeOK, RemovalSound, StageSound, BeforeRemove, Cleanup,
     checkoutVars, passVars, snapVars, integrateVars, CleanVarsBut
<1>24. ASSUME NEW c \in Child, Remove(c) PROVE RemovalSound'
  BY <1>24, WorktreeAssumption DEF TypeOK, RemovalSound, StageSound, Remove, Cleanup,
     checkoutVars, passVars, snapVars, integrateVars, CleanVarsBut
<1>25. ASSUME NEW p \in Path, Edit(p) PROVE RemovalSound'
  BY <1>25, WorktreeAssumption DEF TypeOK, RemovalSound, StageSound, Edit, Write, Replacing,
     agentVars, passVars, cleanVars
<1>26. ASSUME Move PROVE RemovalSound'
  BY <1>26, WorktreeAssumption DEF TypeOK, RemovalSound, StageSound, Move, agentVars, passVars,
     snapVars, integrateVars, cleanVars
<1>27. ASSUME Reset PROVE RemovalSound'
  BY <1>27, WorktreeAssumption DEF TypeOK, RemovalSound, StageSound, Reset, agentVars, passVars,
     snapVars, integrateVars, cleanVars
<1> QED
  BY <1>1, <1>2, <1>3, <1>4, <1>5, <1>6, <1>7, <1>8, <1>9, <1>10, <1>11, <1>12, <1>13, <1>14,
     <1>15, <1>16, <1>17, <1>18, <1>19, <1>20, <1>21, <1>22, <1>23, <1>24, <1>25, <1>26, <1>27
     DEF Next, Integrate, CleanUp

\* Every step keeps the types and the lock.
LEMMA TypeStep ==
  ASSUME TypeOK, StageSound, Next
  PROVE  TypeOK'
<1>1. ASSUME NEW c \in Child, Resume(c) PROVE TypeOK'
  BY <1>1, WorktreeAssumption DEF TypeOK, StageSound, Busy, Files, Content, Resume,
     checkoutVars, passVars, snapVars, integrateVars
<1>2. ASSUME NEW c \in Child, ChangeFile(c) PROVE TypeOK'
  BY <1>2, WorktreeAssumption DEF TypeOK, StageSound, Busy, Files, Content, ChangeFile,
     checkoutVars, passVars, snapVars, integrateVars, cleanVars
<1>3. ASSUME NEW c \in Child, Commit(c) PROVE TypeOK'
  BY <1>3, WorktreeAssumption DEF TypeOK, StageSound, Busy, Files, Content, Commit,
     checkoutVars, passVars, snapVars, integrateVars, cleanVars
<1>4. ASSUME NEW c \in Child, Finish(c) PROVE TypeOK'
  BY <1>4, WorktreeAssumption DEF TypeOK, StageSound, Busy, Files, Content, Finish,
     checkoutVars, passVars, snapVars, integrateVars, cleanVars
<1>5. ASSUME NEW c \in Child, Capture(c) PROVE TypeOK'
  BY <1>5, WorktreeAssumption DEF TypeOK, StageSound, Busy, Files, Content, Capture,
     checkoutVars, integrateVars, cleanVars, SnapVarsBut
<1>6. ASSUME NEW c \in Child, ReadEntry(c) PROVE TypeOK'
  <2>1. /\ next[c] \in Path
        /\ sofar' = [sofar EXCEPT ![c] = [sofar[c] EXCEPT ![next[c]] = file[next[c]]]]
        /\ next' = [next EXCEPT ![c] = next[c] + 1]
    BY <1>6, WorktreeAssumption DEF ReadEntry, TypeOK, Path
  <2>2. [sofar[c] EXCEPT ![next[c]] = file[next[c]]] \in Files
    BY <2>1, FilesTyped DEF TypeOK, Files
  <2>3. sofar' \in [Child -> Files] /\ next' \in [Child -> 1 .. Paths + 1]
    BY <2>1, <2>2, WorktreeAssumption DEF TypeOK, Path
  <2> QED
    BY <1>6, <2>3 DEF ReadEntry, TypeOK, SnapVarsBut, checkoutVars, integrateVars, cleanVars
<1>7. ASSUME NEW c \in Child, EndPass(c) PROVE TypeOK'
  <2>1. /\ pass' \in [Child -> 0 .. 6]
        /\ made' \in [Child -> {"no", "partial", "yes", "removed"}]
    <3>1. pass[c] \in 1 .. 4
      BY <1>7 DEF EndPass, Capturing
    <3>2. \/ pass' = [pass EXCEPT ![c] = pass[c] + 1]
          \/ \E n \in 5 .. 6 : pass' = [pass EXCEPT ![c] = n]
      BY <1>7 DEF EndPass
    <3>3. \/ UNCHANGED made
          \/ \E m \in {"no", "partial", "yes", "removed"} : made' = [made EXCEPT ![c] = m]
      BY <1>7 DEF EndPass, TypeOK
    <3> QED
      BY <3>1, <3>2, <3>3 DEF TypeOK
  <2>2. /\ next' \in [Child -> 1 .. Paths + 1] /\ noted' \in [Child -> 0 .. MaxMoves + 1]
        /\ sofar' \in [Child -> Files] /\ got' \in [Child -> Files] /\ base' \in [Child -> Files]
    <3>1. Committed \in Files /\ 1 \in 1 .. Paths + 1 /\ 0 \in 0 .. MaxMoves + 1
      BY WorktreeAssumption DEF Committed, Files, Content
    <3>2. /\ next' = [next EXCEPT ![c] = 1]
          /\ UNCHANGED noted \/ noted' = [noted EXCEPT ![c] = 0]
          /\ UNCHANGED sofar \/ sofar' = [sofar EXCEPT ![c] = Committed]
          /\ got' = [got EXCEPT ![c] = sofar[c]] \/ got' = [got EXCEPT ![c] = Committed]
          /\ UNCHANGED base \/ base' = [base EXCEPT ![c] = sofar[c]]
      BY <1>7 DEF EndPass, Forget
    <3> QED
      BY <3>1, <3>2 DEF TypeOK
  <2> QED
    BY <1>7, <2>1, <2>2 DEF EndPass, TypeOK, SnapVarsBut, checkoutVars, integrateVars, cleanVars
<1>8. ASSUME NEW c \in Child, Open(c) PROVE TypeOK'
  <2>1. \/ lock = None /\ To(c, "locked") /\ lock' = c
        \/ To(c, "refused") /\ UNCHANGED lock
    BY <1>8 DEF Open
  <2>2. /\ lock' \in Child \cup {None} /\ phase' \in [Child -> Phase]
        /\ \A q \in Child : phase'[q] \in Busy => lock' = q
    BY <2>1, WorktreeAssumption DEF TypeOK, To, Phase, Busy
  <2> QED
    BY <1>8, <2>2 DEF Open, TypeOK, Phase, IntVarsBut, Quiet, agentVars, passVars, cleanVars
<1>9. ASSUME NEW c \in Child, Identify(c) PROVE TypeOK'
  BY <1>9, WorktreeAssumption DEF TypeOK, StageSound, Busy, Files, Content, Identify, To,
     agentVars, passVars, cleanVars, IntVarsBut, Quiet
<1>10. ASSUME NEW c \in Child, ReadOriginal(c) PROVE TypeOK'
  <2>1. phase[c] \in Busy /\ UNCHANGED lock
    BY <1>10 DEF ReadOriginal, Busy
  <2>2. \E s \in Phase : To(c, s) \/ UNCHANGED phase
    BY <1>10 DEF ReadOriginal, Phase, Busy
  <2>3. /\ \E n \in {0} \cup Path : at' = [at EXCEPT ![c] = n]
        /\ \/ UNCHANGED original
           \/ \E p \in Path :
                original' = [original EXCEPT ![c] = [original[c] EXCEPT ![p] = file[p]]]
    BY <1>10 DEF ReadOriginal, First, Rest, Changed
  <2>4. at' \in [Child -> 0 .. Paths + 1]
    BY <2>3, WorktreeAssumption DEF TypeOK, Path
  <2>5. original' \in [Child -> Files]
    <3>1. ASSUME NEW p \in Path,
                 original' = [original EXCEPT ![c] = [original[c] EXCEPT ![p] = file[p]]]
          PROVE  original' \in [Child -> Files]
      <4>1. [original[c] EXCEPT ![p] = file[p]] \in Files
        BY FilesTyped DEF TypeOK, Files
      <4> QED
        BY <3>1, <4>1 DEF TypeOK
    <3> QED
      BY <2>3, <3>1 DEF TypeOK
  <2>6. phase' \in [Child -> Phase] /\ \A q \in Child : phase'[q] \in Busy => lock' = q
    BY <2>1, <2>2, ToTyped
  <2> QED
    BY <1>10, <2>4, <2>5, <2>6 DEF ReadOriginal, TypeOK, Phase, agentVars, passVars, cleanVars,
       IntVarsBut, Quiet
<1>11. ASSUME NEW c \in Child, Recheck(c) PROVE TypeOK'
  BY <1>11, WorktreeAssumption DEF TypeOK, StageSound, Busy, Files, Content, Recheck, To,
     agentVars, passVars, cleanVars, IntVarsBut, Quiet
<1>12. ASSUME NEW c \in Child, Check(c) PROVE TypeOK'
  <2>1. phase[c] \in Busy /\ UNCHANGED lock
    BY <1>12 DEF Check, Busy
  <2>2. \E s \in Phase : To(c, s) \/ UNCHANGED phase
    BY <1>12 DEF Check, Phase, Busy
  <2>3. phase' \in [Child -> Phase] /\ \A q \in Child : phase'[q] \in Busy => lock' = q
    BY <2>1, <2>2, ToTyped
  <2>4. UNCHANGED at \/ \E n \in Path : at' = [at EXCEPT ![c] = n]
    BY <1>12 DEF Check, First, Rest, Changed
  <2>5. at' \in [Child -> 0 .. Paths + 1]
    BY <2>4, WorktreeAssumption DEF TypeOK, Path
  <2> QED
    BY <1>12, <2>3, <2>5 DEF Check, TypeOK, Phase, agentVars, passVars, cleanVars, IntVarsBut,
       Quiet
<1>13. ASSUME NEW c \in Child, Reread(c) PROVE TypeOK'
  <2>1. phase[c] \in Busy /\ UNCHANGED lock
    BY <1>13 DEF Reread, Busy
  <2>2. \E s \in Phase : To(c, s) \/ UNCHANGED phase
    BY <1>13 DEF Reread, Phase, Busy
  <2>3. phase' \in [Child -> Phase] /\ \A q \in Child : phase'[q] \in Busy => lock' = q
    BY <2>1, <2>2, ToTyped
  <2> QED
    BY <1>13, <2>3 DEF Reread, Fresher, TypeOK, Phase, agentVars, passVars, cleanVars,
       IntVarsBut, Quiet
<1>14. ASSUME NEW c \in Child, Rename(c) PROVE TypeOK'
  <2>1. phase[c] \in Busy /\ UNCHANGED lock
    BY <1>14 DEF Rename, Busy
  <2>2. \E s \in Phase : To(c, s) \/ UNCHANGED phase
    BY <1>14 DEF Rename, Phase, Busy
  <2>3. phase' \in [Child -> Phase] /\ \A q \in Child : phase'[q] \in Busy => lock' = q
    BY <2>1, <2>2, ToTyped
  <2>4. at[c] \in Path
    BY <1>14 DEF Rename, StageSound, Changed
  <2>5. file' \in Files
    BY <1>14, <2>4, DesiredFacts, FilesTyped DEF Rename, Write, TypeOK
  <2>6. applied' \in [Child -> SUBSET Path] /\ raced' \in [Child -> BOOLEAN]
    BY <1>14, <2>4 DEF Rename, Write, TypeOK
  <2> QED
    BY <1>14, <2>3, <2>5, <2>6 DEF Rename, TypeOK, Phase, agentVars, passVars, cleanVars,
       IntVarsBut
<1>15. ASSUME NEW c \in Child, Undo(c) PROVE TypeOK'
  <2>1. phase[c] \in Busy /\ UNCHANGED lock
    BY <1>15 DEF Undo, Busy
  <2>2. \E s \in Phase : To(c, s) \/ UNCHANGED phase
    BY <1>15 DEF Undo, Phase, Busy
  <2>3. phase' \in [Child -> Phase] /\ \A q \in Child : phase'[q] \in Busy => lock' = q
    BY <2>1, <2>2, ToTyped
  <2>4. /\ UNCHANGED at \/ \E n \in Path : at' = [at EXCEPT ![c] = n]
        /\ UNCHANGED applied \/ \E n \in Path : applied' = [applied EXCEPT ![c] = applied[c] \ {n}]
        /\ \/ UNCHANGED recovery
           \/ \E n \in Path : recovery' = [recovery EXCEPT ![c] = recovery[c] \cup {n}]
    BY <1>15 DEF Undo, Last, GiveUp, TypeOK
  <2>5. at' \in [Child -> 0 .. Paths + 1]
    BY <2>4, WorktreeAssumption DEF TypeOK, Path
  <2>6. applied' \in [Child -> SUBSET Path] /\ recovery' \in [Child -> SUBSET Path]
    BY <2>4 DEF TypeOK
  <2> QED
    BY <1>15, <2>3, <2>5, <2>6 DEF Undo, Fresher, TypeOK, Phase, agentVars, passVars, cleanVars,
       IntVarsBut, Quiet
<1>16. ASSUME NEW c \in Child, Restore(c) PROVE TypeOK'
  BY <1>16, WorktreeAssumption DEF TypeOK, StageSound, Busy, Files, Content, Restore, Write, To,
     Replacing, agentVars, passVars, cleanVars, IntVarsBut
<1>17. ASSUME NEW c \in Child, Release(c) PROVE TypeOK'
  BY <1>17, WorktreeAssumption DEF TypeOK, StageSound, Busy, Files, Committed, Content, Release,
     agentVars, passVars, cleanVars, IntVarsBut, Quiet
<1>18. ASSUME NEW c \in Child, Die(c) PROVE TypeOK'
  BY <1>18, WorktreeAssumption DEF TypeOK, StageSound, Busy, Files, Content, Die, To, agentVars,
     passVars, cleanVars, IntVarsBut, Quiet
<1>19. ASSUME NEW c \in Child, AskCleanup(c) PROVE TypeOK'
  BY <1>19, WorktreeAssumption DEF TypeOK, StageSound, Busy, Files, Content, AskCleanup,
     Cleanup, checkoutVars, passVars, snapVars, integrateVars, CleanVarsBut
<1>20. ASSUME NEW c \in Child, InspectHead(c) PROVE TypeOK'
  BY <1>20, WorktreeAssumption DEF TypeOK, StageSound, Busy, Files, Content, InspectHead,
     Cleanup, checkoutVars, passVars, snapVars, integrateVars, CleanVarsBut
<1>21. ASSUME NEW c \in Child, InspectStatus(c) PROVE TypeOK'
  BY <1>21, WorktreeAssumption DEF TypeOK, StageSound, Busy, Files, Content, InspectStatus,
     Cleanup, checkoutVars, passVars, snapVars, integrateVars, CleanVarsBut
<1>22. ASSUME NEW c \in Child, CheckAncestry(c) PROVE TypeOK'
  BY <1>22, WorktreeAssumption DEF TypeOK, StageSound, Busy, Files, Content, CheckAncestry,
     Cleanup, Reachable, checkoutVars, passVars, snapVars, integrateVars, CleanVarsBut
<1>23. ASSUME NEW c \in Child, BeforeRemove(c) PROVE TypeOK'
  BY <1>23, WorktreeAssumption DEF TypeOK, StageSound, Busy, Files, Content, BeforeRemove,
     Cleanup, checkoutVars, passVars, snapVars, integrateVars, CleanVarsBut
<1>24. ASSUME NEW c \in Child, Remove(c) PROVE TypeOK'
  BY <1>24, WorktreeAssumption DEF TypeOK, StageSound, Busy, Files, Content, Remove, Cleanup,
     checkoutVars, passVars, snapVars, integrateVars, CleanVarsBut
<1>25. ASSUME NEW p \in Path, Edit(p) PROVE TypeOK'
  BY <1>25, WorktreeAssumption DEF TypeOK, StageSound, Busy, Files, Content, Edit, Write,
     Replacing, agentVars, passVars, cleanVars
<1>26. ASSUME Move PROVE TypeOK'
  <2>1. \/ UNCHANGED <<merged, reached>>
        \/ \E c \in Fresh : /\ merged' = [merged EXCEPT ![c] = head[c]]
                            /\ reached' = [reached EXCEPT ![c] = head[c]]
    BY <1>26 DEF Move
  <2>2. /\ merged' \in [Child -> 0 .. MaxCommits] /\ reached' \in [Child -> 0 .. MaxCommits]
        /\ ident' \in 0 .. MaxMoves + 1
    BY <1>26, <2>1, WorktreeAssumption DEF Move, TypeOK
  <2> QED
    BY <1>26, <2>2 DEF Move, TypeOK, agentVars, passVars, snapVars, integrateVars, cleanVars
<1>27. ASSUME Reset PROVE TypeOK'
  <2>1. merged' \in [Child -> 0 .. MaxCommits] /\ ident' \in 0 .. MaxMoves + 1
    BY <1>27, WorktreeAssumption DEF Reset, TypeOK
  <2> QED
    BY <1>27, <2>1 DEF Reset, TypeOK, agentVars, passVars, snapVars, integrateVars, cleanVars
<1> QED
  BY <1>1, <1>2, <1>3, <1>4, <1>5, <1>6, <1>7, <1>8, <1>9, <1>10, <1>11, <1>12, <1>13, <1>14,
     <1>15, <1>16, <1>17, <1>18, <1>19, <1>20, <1>21, <1>22, <1>23, <1>24, <1>25, <1>26, <1>27
     DEF Next, Integrate, CleanUp

\* Every step keeps the stages.
LEMMA StageStep ==
  ASSUME TypeOK, RemovalSound, StageSound, Next
  PROVE  StageSound'
<1>1. ASSUME NEW c \in Child, Resume(c) PROVE StageSound'
  BY <1>1, WorktreeAssumption DEF TypeOK, StageSound, RemovalSound, Unstarted, Changed, Desired,
     Resume, checkoutVars, passVars, snapVars, integrateVars
<1>2. ASSUME NEW c \in Child, ChangeFile(c) PROVE StageSound'
  BY <1>2, WorktreeAssumption DEF TypeOK, StageSound, RemovalSound, Unstarted, Changed, Desired,
     ChangeFile, checkoutVars, passVars, snapVars, integrateVars, cleanVars
<1>3. ASSUME NEW c \in Child, Commit(c) PROVE StageSound'
  BY <1>3, WorktreeAssumption DEF TypeOK, StageSound, RemovalSound, Unstarted, Changed, Desired,
     Commit, checkoutVars, passVars, snapVars, integrateVars, cleanVars
<1>4. ASSUME NEW c \in Child, Finish(c) PROVE StageSound'
  BY <1>4, WorktreeAssumption DEF TypeOK, StageSound, RemovalSound, Unstarted, Changed, Desired,
     Finish, checkoutVars, passVars, snapVars, integrateVars, cleanVars
<1>5. ASSUME NEW c \in Child, Capture(c) PROVE StageSound'
  BY <1>5, WorktreeAssumption DEF TypeOK, StageSound, RemovalSound, Unstarted, Changed, Desired,
     Capture, checkoutVars, integrateVars, cleanVars, SnapVarsBut
<1>6. ASSUME NEW c \in Child, ReadEntry(c) PROVE StageSound'
  BY <1>6, WorktreeAssumption DEF TypeOK, StageSound, RemovalSound, Unstarted, Changed, Desired,
     ReadEntry, Capturing, checkoutVars, integrateVars, cleanVars, SnapVarsBut
<1>7. ASSUME NEW c \in Child, EndPass(c) PROVE StageSound'
  BY <1>7, WorktreeAssumption DEF TypeOK, StageSound, RemovalSound, Unstarted, Changed, Desired,
     EndPass, Forget, Capturing, checkoutVars, integrateVars, cleanVars, SnapVarsBut
<1>8. ASSUME NEW c \in Child, Open(c) PROVE StageSound'
  BY <1>8, WorktreeAssumption DEF TypeOK, StageSound, RemovalSound, Unstarted, Changed, Desired,
     Open, To, agentVars, passVars, cleanVars, IntVarsBut, Quiet
<1>9. ASSUME NEW c \in Child, Identify(c) PROVE StageSound'
  BY <1>9, WorktreeAssumption DEF TypeOK, StageSound, RemovalSound, Unstarted, Changed, Desired,
     Identify, To, agentVars, passVars, cleanVars, IntVarsBut, Quiet
<1>10. ASSUME NEW c \in Child, ReadOriginal(c) PROVE StageSound'
  BY <1>10, WorktreeAssumption DEF TypeOK, StageSound, RemovalSound, Unstarted, Changed,
     Desired, ReadOriginal, To, Rest, First, agentVars, passVars, cleanVars, IntVarsBut, Quiet
<1>11. ASSUME NEW c \in Child, Recheck(c) PROVE StageSound'
  BY <1>11, WorktreeAssumption DEF TypeOK, StageSound, RemovalSound, Unstarted, Changed,
     Desired, Recheck, To, agentVars, passVars, cleanVars, IntVarsBut, Quiet
<1>12. ASSUME NEW c \in Child, Check(c) PROVE StageSound'
  BY <1>12, WorktreeAssumption DEF TypeOK, StageSound, RemovalSound, Unstarted, Changed,
     Desired, Check, To, Rest, First, agentVars, passVars, cleanVars, IntVarsBut, Quiet
<1>13. ASSUME NEW c \in Child, Reread(c) PROVE StageSound'
  BY <1>13, WorktreeAssumption DEF TypeOK, StageSound, RemovalSound, Unstarted, Changed,
     Desired, Reread, Fresher, To, agentVars, passVars, cleanVars, IntVarsBut, Quiet
<1>14. ASSUME NEW c \in Child, Rename(c) PROVE StageSound'
  BY <1>14, WorktreeAssumption DEF TypeOK, StageSound, RemovalSound, Unstarted, Changed,
     Desired, Rename, Write, To, Replacing, agentVars, passVars, cleanVars, IntVarsBut
<1>15. ASSUME NEW c \in Child, Undo(c) PROVE StageSound'
  BY <1>15, WorktreeAssumption DEF TypeOK, StageSound, RemovalSound, Unstarted, Changed,
     Desired, Undo, To, Fresher, GiveUp, Last, agentVars, passVars, cleanVars, IntVarsBut, Quiet
<1>16. ASSUME NEW c \in Child, Restore(c) PROVE StageSound'
  BY <1>16, WorktreeAssumption DEF TypeOK, StageSound, RemovalSound, Unstarted, Changed,
     Desired, Restore, Write, To, Replacing, agentVars, passVars, cleanVars, IntVarsBut
<1>17. ASSUME NEW c \in Child, Release(c) PROVE StageSound'
  BY <1>17, WorktreeAssumption DEF TypeOK, StageSound, RemovalSound, Unstarted, Changed,
     Desired, Release, agentVars, passVars, cleanVars, IntVarsBut, Quiet
<1>18. ASSUME NEW c \in Child, Die(c) PROVE StageSound'
  BY <1>18, WorktreeAssumption DEF TypeOK, StageSound, RemovalSound, Unstarted, Changed,
     Desired, Die, To, agentVars, passVars, cleanVars, IntVarsBut, Quiet
<1>19. ASSUME NEW c \in Child, AskCleanup(c) PROVE StageSound'
  BY <1>19, WorktreeAssumption DEF TypeOK, StageSound, RemovalSound, Unstarted, Changed,
     Desired, AskCleanup, Cleanup, checkoutVars, passVars, snapVars, integrateVars, CleanVarsBut
<1>20. ASSUME NEW c \in Child, InspectHead(c) PROVE StageSound'
  BY <1>20, WorktreeAssumption DEF TypeOK, StageSound, RemovalSound, Unstarted, Changed,
     Desired, InspectHead, Cleanup, checkoutVars, passVars, snapVars, integrateVars,
     CleanVarsBut
<1>21. ASSUME NEW c \in Child, InspectStatus(c) PROVE StageSound'
  BY <1>21, WorktreeAssumption DEF TypeOK, StageSound, RemovalSound, Unstarted, Changed,
     Desired, InspectStatus, Cleanup, checkoutVars, passVars, snapVars, integrateVars,
     CleanVarsBut
<1>22. ASSUME NEW c \in Child, CheckAncestry(c) PROVE StageSound'
  BY <1>22, WorktreeAssumption DEF TypeOK, StageSound, RemovalSound, Unstarted, Changed,
     Desired, CheckAncestry, Cleanup, Reachable, checkoutVars, passVars, snapVars,
     integrateVars, CleanVarsBut
<1>23. ASSUME NEW c \in Child, BeforeRemove(c) PROVE StageSound'
  BY <1>23, WorktreeAssumption DEF TypeOK, StageSound, RemovalSound, Unstarted, Changed,
     Desired, BeforeRemove, Cleanup, checkoutVars, passVars, snapVars, integrateVars,
     CleanVarsBut
<1>24. ASSUME NEW c \in Child, Remove(c) PROVE StageSound'
  BY <1>24, WorktreeAssumption DEF TypeOK, StageSound, RemovalSound, Unstarted, Changed,
     Desired, Remove, Cleanup, checkoutVars, passVars, snapVars, integrateVars, CleanVarsBut
<1>25. ASSUME NEW p \in Path, Edit(p) PROVE StageSound'
  BY <1>25, WorktreeAssumption DEF TypeOK, StageSound, RemovalSound, Unstarted, Changed,
     Desired, Edit, Write, Replacing, agentVars, passVars, cleanVars
<1>26. ASSUME Move PROVE StageSound'
  BY <1>26, WorktreeAssumption DEF TypeOK, StageSound, RemovalSound, Unstarted, Changed,
     Desired, Move, agentVars, passVars, snapVars, integrateVars, cleanVars
<1>27. ASSUME Reset PROVE StageSound'
  BY <1>27, WorktreeAssumption DEF TypeOK, StageSound, RemovalSound, Unstarted, Changed,
     Desired, Reset, agentVars, passVars, snapVars, integrateVars, cleanVars
<1> QED
  BY <1>1, <1>2, <1>3, <1>4, <1>5, <1>6, <1>7, <1>8, <1>9, <1>10, <1>11, <1>12, <1>13, <1>14,
     <1>15, <1>16, <1>17, <1>18, <1>19, <1>20, <1>21, <1>22, <1>23, <1>24, <1>25, <1>26, <1>27
     DEF Next, Integrate, CleanUp

\* Every step keeps the account of all bytes.
LEMMA BytesStep ==
  ASSUME TypeOK, StageSound, BytesSound, Next
  PROVE  BytesSound'
<1>1. ASSUME NEW c \in Child, Resume(c) PROVE BytesSound'
  BY <1>1, WorktreeAssumption DEF TypeOK, StageSound, BytesSound, Accounted, Unstarted, Busy,
     Resume, checkoutVars, passVars, snapVars, integrateVars
<1>2. ASSUME NEW c \in Child, ChangeFile(c) PROVE BytesSound'
  BY <1>2, WorktreeAssumption DEF TypeOK, StageSound, BytesSound, Accounted, Unstarted, Busy,
     ChangeFile, checkoutVars, passVars, snapVars, integrateVars, cleanVars
<1>3. ASSUME NEW c \in Child, Commit(c) PROVE BytesSound'
  BY <1>3, WorktreeAssumption DEF TypeOK, StageSound, BytesSound, Accounted, Unstarted, Busy,
     Commit, checkoutVars, passVars, snapVars, integrateVars, cleanVars
<1>4. ASSUME NEW c \in Child, Finish(c) PROVE BytesSound'
  BY <1>4, WorktreeAssumption DEF TypeOK, StageSound, BytesSound, Accounted, Unstarted, Busy,
     Finish, checkoutVars, passVars, snapVars, integrateVars, cleanVars
<1>5. ASSUME NEW c \in Child, Capture(c) PROVE BytesSound'
  BY <1>5, WorktreeAssumption DEF TypeOK, StageSound, BytesSound, Accounted, Unstarted, Busy,
     Capture, checkoutVars, integrateVars, cleanVars, SnapVarsBut
<1>6. ASSUME NEW c \in Child, ReadEntry(c) PROVE BytesSound'
  BY <1>6, WorktreeAssumption DEF TypeOK, StageSound, BytesSound, Accounted, Unstarted, Busy,
     ReadEntry, Capturing, checkoutVars, integrateVars, cleanVars, SnapVarsBut
<1>7. ASSUME NEW c \in Child, EndPass(c) PROVE BytesSound'
  BY <1>7, WorktreeAssumption DEF TypeOK, StageSound, BytesSound, Accounted, Unstarted, Busy,
     EndPass, Forget, Capturing, checkoutVars, integrateVars, cleanVars, SnapVarsBut
<1>8. ASSUME NEW c \in Child, Open(c) PROVE BytesSound'
  BY <1>8, WorktreeAssumption DEF TypeOK, StageSound, BytesSound, Accounted, Unstarted, Busy,
     Open, To, agentVars, passVars, cleanVars, IntVarsBut, Quiet
<1>9. ASSUME NEW c \in Child, Identify(c) PROVE BytesSound'
  BY <1>9, WorktreeAssumption DEF TypeOK, StageSound, BytesSound, Accounted, Unstarted, Busy,
     Identify, To, agentVars, passVars, cleanVars, IntVarsBut, Quiet
<1>10. ASSUME NEW c \in Child, ReadOriginal(c) PROVE BytesSound'
  <2>1. /\ phase[c] = "reading" /\ applied[c] = {} /\ UNCHANGED <<file, applied, recovery>>
        /\ \E s \in Phase : To(c, s) \/ UNCHANGED phase
    BY <1>10 DEF ReadOriginal, StageSound, Unstarted, IntVarsBut, Quiet, Phase, Busy
  <2>2. \/ UNCHANGED original
        \/ \E p \in Path : original' = [original EXCEPT ![c] = [original[c] EXCEPT ![p] = file[p]]]
    BY <1>10 DEF ReadOriginal, First, Rest, Changed
  <2>3. \A q \in Child, p \in Path : Accounted(q, p) => Accounted(q, p)'
    BY <2>1, AccountKept DEF Phase, Busy
  <2>4. \A q \in Child \ {c}, p \in Path : file[p] = q => Accounted(q, p)
    BY <2>1 DEF BytesSound, TypeOK, Busy
  <2>5. \A q \in Child, p \in Path : file'[p] = q => Accounted(q, p)'
    BY <2>1, <2>3, <2>4 DEF BytesSound
  <2>6. \A q \in Child, p \in Path : \A d \in Child \ {q} : original'[d][p] = q => Accounted(q, p)'
    <3> SUFFICES ASSUME NEW q \in Child, NEW p \in Path, NEW d \in Child \ {q},
                        original'[d][p] = q
                 PROVE  Accounted(q, p)'
      OBVIOUS
    <3>1. original[d][p] = q \/ (d = c /\ file[p] = q)
      BY <2>2 DEF TypeOK, Files
    <3> QED
      BY <2>3, <2>4, <3>1 DEF BytesSound
  <2> QED
    BY <2>5, <2>6 DEF BytesSound
<1>11. ASSUME NEW c \in Child, Recheck(c) PROVE BytesSound'
  BY <1>11, WorktreeAssumption DEF TypeOK, StageSound, BytesSound, Accounted, Unstarted, Busy,
     Recheck, To, agentVars, passVars, cleanVars, IntVarsBut, Quiet
<1>12. ASSUME NEW c \in Child, Check(c) PROVE BytesSound'
  BY <1>12, WorktreeAssumption DEF TypeOK, StageSound, BytesSound, Accounted, Unstarted, Busy,
     Check, To, Rest, First, agentVars, passVars, cleanVars, IntVarsBut, Quiet
<1>13. ASSUME NEW c \in Child, Reread(c) PROVE BytesSound'
  BY <1>13, WorktreeAssumption DEF TypeOK, StageSound, BytesSound, Accounted, Unstarted, Busy,
     Reread, Fresher, To, agentVars, passVars, cleanVars, IntVarsBut, Quiet
<1>14. ASSUME NEW c \in Child, Rename(c) PROVE BytesSound'
  <2>1. /\ phase[c] = "renaming" /\ at[c] \in Changed(c) /\ at[c] \in Path
        /\ file' = [file EXCEPT ![at[c]] = Desired(c, at[c])]
        /\ applied' = [applied EXCEPT ![c] = applied[c] \cup {at[c]}]
        /\ To(c, "applying") /\ UNCHANGED <<original, recovery>>
    BY <1>14 DEF Rename, Write, StageSound, Changed
  <2>2. Desired(c, at[c]) = c
    BY <2>1, DesiredFacts
  <2>3. \A q \in Child, p \in Path : Accounted(q, p) => Accounted(q, p)'
    BY <2>1, AccountKept DEF Phase, Busy
  <2>4. \A q \in Child, p \in Path : file'[p] = q =>
          Accounted(q, p)' \/ (phase'[q] \in Busy /\ p \in applied'[q])
    <3> SUFFICES ASSUME NEW q \in Child, NEW p \in Path, file'[p] = q, ~Accounted(q, p)'
                 PROVE  phase'[q] \in Busy /\ p \in applied'[q]
      OBVIOUS
    <3>1. CASE p = at[c]
      <4>1. q = c
        BY <2>1, <2>2, <3>1 DEF TypeOK, Files
      <4> QED
        BY <2>1, <3>1, <4>1 DEF TypeOK, To, Busy
    <3>2. CASE p # at[c]
      <4>1. file[p] = q
        BY <2>1, <3>2 DEF TypeOK, Files
      <4>2. phase[q] \in Busy /\ p \in applied[q]
        BY <2>3, <4>1 DEF BytesSound
      <4> QED
        BY <2>1, <4>2 DEF TypeOK, To, Busy
    <3> QED
      BY <3>1, <3>2
  <2> QED
    BY <2>1, <2>3, <2>4 DEF BytesSound
<1>15. ASSUME NEW c \in Child, Undo(c) PROVE BytesSound'
  BY <1>15, WorktreeAssumption DEF TypeOK, StageSound, BytesSound, Accounted, Unstarted, Busy,
     Undo, To, Fresher, GiveUp, Last, agentVars, passVars, cleanVars, IntVarsBut, Quiet
<1>16. ASSUME NEW c \in Child, Restore(c) PROVE BytesSound'
  <2>1. /\ phase[c] = "restoring" /\ at[c] \in applied[c] /\ at[c] \in Path
        /\ original[c][at[c]] # c
        /\ file' = [file EXCEPT ![at[c]] = original[c][at[c]]]
        /\ applied' = [applied EXCEPT ![c] = applied[c] \ {at[c]}]
        /\ To(c, "undoing") /\ UNCHANGED <<original, recovery>>
    BY <1>16 DEF Restore, Write, StageSound, Changed
  <2>2. \A q \in Child, p \in Path : Accounted(q, p) => Accounted(q, p)'
    BY <2>1, AccountKept DEF Phase, Busy
  <2>3. \A q \in Child, p \in Path : file'[p] = q =>
          Accounted(q, p)' \/ (phase'[q] \in Busy /\ p \in applied'[q])
    <3> SUFFICES ASSUME NEW q \in Child, NEW p \in Path, file'[p] = q, ~Accounted(q, p)'
                 PROVE  phase'[q] \in Busy /\ p \in applied'[q]
      OBVIOUS
    <3>1. CASE p = at[c]
      <4>1. original[c][p] = q /\ q # c
        BY <2>1, <3>1 DEF TypeOK, Files
      <4> QED
        BY <2>2, <4>1 DEF BytesSound
    <3>2. CASE p # at[c]
      <4>1. file[p] = q
        BY <2>1, <3>2 DEF TypeOK, Files
      <4>2. phase[q] \in Busy /\ p \in applied[q]
        BY <2>2, <4>1 DEF BytesSound
      <4> QED
        BY <2>1, <3>2, <4>2 DEF TypeOK, To, Busy
    <3> QED
      BY <3>1, <3>2
  <2> QED
    BY <2>1, <2>2, <2>3 DEF BytesSound
<1>17. ASSUME NEW c \in Child, Release(c) PROVE BytesSound'
  <2>1. /\ phase[c] \notin Busy /\ UNCHANGED <<file, phase, recovery>>
        /\ original' = [original EXCEPT ![c] = Committed]
        /\ applied' = [applied EXCEPT ![c] = {}]
    BY <1>17 DEF Release, Busy, IntVarsBut, Quiet
  <2>2. \A q \in Child, p \in Path : Accounted(q, p) => Accounted(q, p)'
    BY <2>1 DEF Accounted
  <2>3. \A q \in Child, p \in Path : file'[p] = q =>
          Accounted(q, p)' \/ (phase'[q] \in Busy /\ p \in applied'[q])
    BY <2>1, <2>2 DEF BytesSound, TypeOK
  <2>4. \A q \in Child, p \in Path : Committed[p] # q
    BY WorktreeAssumption DEF Committed
  <2>5. \A q \in Child, p \in Path : \A d \in Child \ {q} : original'[d][p] = q => Accounted(q, p)'
    BY <2>1, <2>2, <2>4 DEF BytesSound, TypeOK
  <2> QED
    BY <2>3, <2>5 DEF BytesSound
<1>18. ASSUME NEW c \in Child, Die(c) PROVE BytesSound'
  BY <1>18, WorktreeAssumption DEF TypeOK, StageSound, BytesSound, Accounted, Unstarted, Busy,
     Die, To, agentVars, passVars, cleanVars, IntVarsBut, Quiet
<1>19. ASSUME NEW c \in Child, AskCleanup(c) PROVE BytesSound'
  BY <1>19, WorktreeAssumption DEF TypeOK, StageSound, BytesSound, Accounted, Unstarted, Busy,
     AskCleanup, Cleanup, checkoutVars, passVars, snapVars, integrateVars, CleanVarsBut
<1>20. ASSUME NEW c \in Child, InspectHead(c) PROVE BytesSound'
  BY <1>20, WorktreeAssumption DEF TypeOK, StageSound, BytesSound, Accounted, Unstarted, Busy,
     InspectHead, Cleanup, checkoutVars, passVars, snapVars, integrateVars, CleanVarsBut
<1>21. ASSUME NEW c \in Child, InspectStatus(c) PROVE BytesSound'
  BY <1>21, WorktreeAssumption DEF TypeOK, StageSound, BytesSound, Accounted, Unstarted, Busy,
     InspectStatus, Cleanup, checkoutVars, passVars, snapVars, integrateVars, CleanVarsBut
<1>22. ASSUME NEW c \in Child, CheckAncestry(c) PROVE BytesSound'
  BY <1>22, WorktreeAssumption DEF TypeOK, StageSound, BytesSound, Accounted, Unstarted, Busy,
     CheckAncestry, Cleanup, Reachable, checkoutVars, passVars, snapVars, integrateVars,
     CleanVarsBut
<1>23. ASSUME NEW c \in Child, BeforeRemove(c) PROVE BytesSound'
  BY <1>23, WorktreeAssumption DEF TypeOK, StageSound, BytesSound, Accounted, Unstarted, Busy,
     BeforeRemove, Cleanup, checkoutVars, passVars, snapVars, integrateVars, CleanVarsBut
<1>24. ASSUME NEW c \in Child, Remove(c) PROVE BytesSound'
  BY <1>24, WorktreeAssumption DEF TypeOK, StageSound, BytesSound, Accounted, Unstarted, Busy,
     Remove, Cleanup, checkoutVars, passVars, snapVars, integrateVars, CleanVarsBut
<1>25. ASSUME NEW p \in Path, Edit(p) PROVE BytesSound'
  <2>1. /\ file' = [file EXCEPT ![p] = edits + 1] /\ edits + 1 \in 0 .. MaxEdits
        /\ UNCHANGED <<phase, applied, recovery, original>>
    BY <1>25, WorktreeAssumption DEF Edit, Write, TypeOK
  <2>2. \A q \in Child : edits + 1 # q
    BY <2>1, WorktreeAssumption
  <2>3. \A q \in Child, n \in Path : Accounted(q, n) => Accounted(q, n)'
    BY <2>1 DEF Accounted
  <2>4. \A q \in Child, n \in Path : file'[n] = q => file[n] = q
    BY <2>1, <2>2 DEF TypeOK, Files
  <2> QED
    BY <2>1, <2>3, <2>4 DEF BytesSound
<1>26. ASSUME Move PROVE BytesSound'
  BY <1>26, WorktreeAssumption DEF TypeOK, StageSound, BytesSound, Accounted, Unstarted, Busy,
     Move, agentVars, passVars, snapVars, integrateVars, cleanVars
<1>27. ASSUME Reset PROVE BytesSound'
  BY <1>27, WorktreeAssumption DEF TypeOK, StageSound, BytesSound, Accounted, Unstarted, Busy,
     Reset, agentVars, passVars, snapVars, integrateVars, cleanVars
<1> QED
  BY <1>1, <1>2, <1>3, <1>4, <1>5, <1>6, <1>7, <1>8, <1>9, <1>10, <1>11, <1>12, <1>13, <1>14,
     <1>15, <1>16, <1>17, <1>18, <1>19, <1>20, <1>21, <1>22, <1>23, <1>24, <1>25, <1>26, <1>27
     DEF Next, Integrate, CleanUp

\* Every step keeps what was found.
LEMMA FoundStep ==
  ASSUME TypeOK, StageSound, FoundSound, Next
  PROVE  FoundSound'
<1>1. ASSUME NEW c \in Child, Resume(c) PROVE FoundSound'
  BY <1>1, WorktreeAssumption DEF TypeOK, StageSound, FoundSound, Changed, Desired, Resume,
     checkoutVars, passVars, snapVars, integrateVars
<1>2. ASSUME NEW c \in Child, ChangeFile(c) PROVE FoundSound'
  BY <1>2, WorktreeAssumption DEF TypeOK, StageSound, FoundSound, Changed, Desired, ChangeFile,
     checkoutVars, passVars, snapVars, integrateVars, cleanVars
<1>3. ASSUME NEW c \in Child, Commit(c) PROVE FoundSound'
  BY <1>3, WorktreeAssumption DEF TypeOK, StageSound, FoundSound, Changed, Desired, Commit,
     checkoutVars, passVars, snapVars, integrateVars, cleanVars
<1>4. ASSUME NEW c \in Child, Finish(c) PROVE FoundSound'
  BY <1>4, WorktreeAssumption DEF TypeOK, StageSound, FoundSound, Changed, Desired, Finish,
     checkoutVars, passVars, snapVars, integrateVars, cleanVars
<1>5. ASSUME NEW c \in Child, Capture(c) PROVE FoundSound'
  BY <1>5, WorktreeAssumption DEF TypeOK, StageSound, FoundSound, Changed, Desired, Capture,
     checkoutVars, integrateVars, cleanVars, SnapVarsBut
<1>6. ASSUME NEW c \in Child, ReadEntry(c) PROVE FoundSound'
  BY <1>6, WorktreeAssumption DEF TypeOK, StageSound, FoundSound, Changed, Desired, ReadEntry,
     Capturing, checkoutVars, integrateVars, cleanVars, SnapVarsBut
<1>7. ASSUME NEW c \in Child, EndPass(c) PROVE FoundSound'
  BY <1>7, WorktreeAssumption DEF TypeOK, StageSound, FoundSound, Changed, Desired, EndPass,
     Forget, Capturing, checkoutVars, integrateVars, cleanVars, SnapVarsBut
<1>8. ASSUME NEW c \in Child, Open(c) PROVE FoundSound'
  BY <1>8, WorktreeAssumption DEF TypeOK, StageSound, FoundSound, Changed, Desired, Open, To,
     agentVars, passVars, cleanVars, IntVarsBut, Quiet
<1>9. ASSUME NEW c \in Child, Identify(c) PROVE FoundSound'
  <2>1. /\ phase[c] = "locked" /\ at' = [at EXCEPT ![c] = 0]
        /\ goal' = [goal EXCEPT ![c] = head[c]]
        /\ To(c, "undoing") \/ To(c, "reading")
        /\ UNCHANGED <<file, raced, original, base>>
    BY <1>9 DEF Identify, IntVarsBut, Quiet, passVars
  <2>2. \A q \in Child \ {c} :
          /\ Changed(q)' = Changed(q) /\ at'[q] = at[q] /\ phase'[q] = phase[q]
    BY <2>1 DEF Changed, Desired, TypeOK, To
  <2>3. /\ phase'[c] \in {"undoing", "reading"} /\ at'[c] = 0
        /\ \A p \in Changed(c)' : p > at'[c]
    BY <2>1, WorktreeAssumption DEF TypeOK, To, Changed, Path
  <2>4. \A p \in Changed(c)' : ~(p <= at'[c])
    BY <2>3, WorktreeAssumption DEF Changed, Path
  <2> QED
    BY <2>1, <2>2, <2>3, <2>4 DEF FoundSound
<1>10. ASSUME NEW c \in Child, ReadOriginal(c) PROVE FoundSound'
  <2>1. /\ phase[c] = "reading" /\ UNCHANGED <<file, raced, base, goal>>
    BY <1>10 DEF ReadOriginal, IntVarsBut, Quiet, passVars
  <2>2. \A q \in Child : Changed(q)' = Changed(q)
    BY <2>1 DEF Changed, Desired
  <2>3. \A q \in Child \ {c} :
          at'[q] = at[q] /\ phase'[q] = phase[q] /\ original'[q] = original[q]
    BY <1>10 DEF ReadOriginal, To, TypeOK
  <2>4. phase'[c] \in {"read", "reading", "conflict"}
    BY <1>10 DEF ReadOriginal, To, TypeOK
  <2>5. ASSUME NEW p \in Changed(c),
               (phase'[c] = "reading" /\ p <= at'[c]) \/ phase'[c] = "read"
        PROVE  original'[c][p] \in {base[c][p], c}
    <3>1. CASE Rest(c) = {} /\ UNCHANGED original
      <4>1. p \in Nat /\ at[c] \in Nat
        BY WorktreeAssumption DEF Changed, Path, TypeOK
      <4>2. ~(p > at[c])
        BY <3>1 DEF Rest
      <4>3. p <= at[c]
        BY <4>1, <4>2
      <4> QED
        BY <2>1, <3>1, <4>3 DEF FoundSound
    <3>2. ASSUME NEW n \in First(Rest(c)), at' = [at EXCEPT ![c] = n],
                 file[n] \in {base[c][n], Desired(c, n)}, UNCHANGED phase,
                 original' = [original EXCEPT ![c] = [original[c] EXCEPT ![n] = file[n]]]
          PROVE  original'[c][p] \in {base[c][p], c}
      <4>1. n \in Path /\ n \in Changed(c) /\ p \in Path /\ p <= n
        BY <2>1, <2>5, <3>2 DEF First, Rest, Changed, TypeOK
      <4>2. CASE p = n
        BY <3>2, <4>1, <4>2, DesiredFacts DEF TypeOK, Files
      <4>3. CASE p # n
        <5>1. p <= at[c]
          <6>1. p \in Nat /\ n \in Nat /\ at[c] \in Nat /\ p < n
            <7>1. at[c] \in 0 .. Paths + 1
              BY DEF TypeOK
            <7>2. p \in 1 .. Paths /\ n \in 1 .. Paths /\ p <= n /\ Paths \in Nat
              BY <4>1, WorktreeAssumption DEF Path
            <7> QED
              BY <4>3, <7>1, <7>2
          <6>2. p \notin Rest(c)
            BY <3>2, <6>1 DEF First
          <6> QED
            BY <2>5, <6>1, <6>2 DEF Rest
        <5>2. original[c][p] \in {base[c][p], c}
          BY <2>1, <5>1 DEF FoundSound
        <5> QED
          BY <3>2, <4>1, <4>3, <5>2 DEF TypeOK, Files
      <4> QED
        BY <4>2, <4>3
    <3>3. ASSUME NEW n \in First(Rest(c)), To(c, "conflict")
          PROVE  FALSE
      BY <2>5, <3>3 DEF To, TypeOK
    <3> QED
      BY <1>10, <3>1, <3>2, <3>3 DEF ReadOriginal
  <2> QED
    BY <2>1, <2>2, <2>3, <2>4, <2>5 DEF FoundSound
<1>11. ASSUME NEW c \in Child, Recheck(c) PROVE FoundSound'
  BY <1>11, WorktreeAssumption DEF TypeOK, StageSound, FoundSound, Changed, Desired, Recheck,
     To, agentVars, passVars, cleanVars, IntVarsBut, Quiet
<1>12. ASSUME NEW c \in Child, Check(c) PROVE FoundSound'
  BY <1>12, WorktreeAssumption DEF TypeOK, StageSound, FoundSound, Changed, Desired, Check, To,
     Rest, First, agentVars, passVars, cleanVars, IntVarsBut, Quiet
<1>13. ASSUME NEW c \in Child, Reread(c) PROVE FoundSound'
  BY <1>13, WorktreeAssumption DEF TypeOK, StageSound, FoundSound, Changed, Desired, Reread,
     Fresher, To, agentVars, passVars, cleanVars, IntVarsBut, Quiet
<1>14. ASSUME NEW c \in Child, Rename(c) PROVE FoundSound'
  <2>1. /\ phase[c] \in Busy /\ To(c, "applying")
        /\ UNCHANGED <<at, original, base, goal>>
    BY <1>14 DEF Rename, Busy, IntVarsBut, passVars
  <2>2. \A q \in Child \ {c} : phase[q] \notin Busy
    BY <2>1 DEF TypeOK
  <2>3. \A q \in Child : Changed(q)' = Changed(q)
    BY <2>1 DEF Changed, Desired
  <2>4. \A q \in Child : phase'[q] \notin {"renaming", "restoring"}
    BY <2>1, <2>2 DEF TypeOK, To, Busy
  <2>5. \A q \in Child : phase'[q] \in {"reading", "read", "applying", "installing", "renaming"}
          => (q = c /\ phase[c] = "renaming") \/ phase'[q] = phase[q]
    BY <1>14, <2>1 DEF Rename, TypeOK, To
  <2> QED
    BY <2>1, <2>3, <2>4, <2>5 DEF FoundSound
<1>15. ASSUME NEW c \in Child, Undo(c) PROVE FoundSound'
  BY <1>15, WorktreeAssumption DEF TypeOK, StageSound, FoundSound, Changed, Desired, Undo, To,
     Fresher, GiveUp, Last, agentVars, passVars, cleanVars, IntVarsBut, Quiet
<1>16. ASSUME NEW c \in Child, Restore(c) PROVE FoundSound'
  <2>1. /\ phase[c] \in Busy /\ To(c, "undoing")
        /\ UNCHANGED <<at, original, base, goal>>
    BY <1>16 DEF Restore, Busy, IntVarsBut, passVars
  <2>2. \A q \in Child \ {c} : phase[q] \notin Busy
    BY <2>1 DEF TypeOK
  <2>3. \A q \in Child : Changed(q)' = Changed(q)
    BY <2>1 DEF Changed, Desired
  <2>4. \A q \in Child : phase'[q] \notin {"renaming", "restoring"}
    BY <2>1, <2>2 DEF TypeOK, To, Busy
  <2>5. \A q \in Child : phase'[q] \in {"reading", "read", "applying", "installing", "renaming"}
          => (q = c /\ phase[c] = "renaming") \/ phase'[q] = phase[q]
    BY <1>16, <2>1 DEF Restore, TypeOK, To
  <2> QED
    BY <2>1, <2>3, <2>4, <2>5 DEF FoundSound
<1>17. ASSUME NEW c \in Child, Release(c) PROVE FoundSound'
  BY <1>17, WorktreeAssumption DEF TypeOK, StageSound, FoundSound, Changed, Desired, Release,
     agentVars, passVars, cleanVars, IntVarsBut, Quiet
<1>18. ASSUME NEW c \in Child, Die(c) PROVE FoundSound'
  BY <1>18, WorktreeAssumption DEF TypeOK, StageSound, FoundSound, Changed, Desired, Die, To,
     agentVars, passVars, cleanVars, IntVarsBut, Quiet
<1>19. ASSUME NEW c \in Child, AskCleanup(c) PROVE FoundSound'
  BY <1>19, WorktreeAssumption DEF TypeOK, StageSound, FoundSound, Changed, Desired, AskCleanup,
     Cleanup, checkoutVars, passVars, snapVars, integrateVars, CleanVarsBut
<1>20. ASSUME NEW c \in Child, InspectHead(c) PROVE FoundSound'
  BY <1>20, WorktreeAssumption DEF TypeOK, StageSound, FoundSound, Changed, Desired,
     InspectHead, Cleanup, checkoutVars, passVars, snapVars, integrateVars, CleanVarsBut
<1>21. ASSUME NEW c \in Child, InspectStatus(c) PROVE FoundSound'
  BY <1>21, WorktreeAssumption DEF TypeOK, StageSound, FoundSound, Changed, Desired,
     InspectStatus, Cleanup, checkoutVars, passVars, snapVars, integrateVars, CleanVarsBut
<1>22. ASSUME NEW c \in Child, CheckAncestry(c) PROVE FoundSound'
  BY <1>22, WorktreeAssumption DEF TypeOK, StageSound, FoundSound, Changed, Desired,
     CheckAncestry, Cleanup, Reachable, checkoutVars, passVars, snapVars, integrateVars,
     CleanVarsBut
<1>23. ASSUME NEW c \in Child, BeforeRemove(c) PROVE FoundSound'
  BY <1>23, WorktreeAssumption DEF TypeOK, StageSound, FoundSound, Changed, Desired,
     BeforeRemove, Cleanup, checkoutVars, passVars, snapVars, integrateVars, CleanVarsBut
<1>24. ASSUME NEW c \in Child, Remove(c) PROVE FoundSound'
  BY <1>24, WorktreeAssumption DEF TypeOK, StageSound, FoundSound, Changed, Desired, Remove,
     Cleanup, checkoutVars, passVars, snapVars, integrateVars, CleanVarsBut
<1>25. ASSUME NEW p \in Path, Edit(p) PROVE FoundSound'
  <2>1. /\ file' = [file EXCEPT ![p] = edits + 1]
        /\ raced' = [q \in Child |-> raced[q] \/ q \in Replacing(p)]
        /\ UNCHANGED <<phase, at, original, base, goal>>
    BY <1>25, Zenon DEF Edit, Write, passVars
  <2>2. \A q \in Child : Changed(q)' = Changed(q)
    BY <2>1 DEF Changed, Desired
  <2>3. ASSUME NEW q \in Child, phase[q] \in {"renaming", "restoring"}, ~raced'[q]
        PROVE  ~raced[q] /\ file'[at[q]] = file[at[q]]
    <3>1. ~raced[q] /\ q \notin Replacing(p)
      BY <2>1, <2>3
    <3>2. at[q] # p
      BY <2>3, <3>1 DEF Replacing
    <3> QED
      BY <2>1, <3>1, <3>2 DEF TypeOK, Files
  <2> QED
    BY <2>1, <2>2, <2>3 DEF FoundSound
<1>26. ASSUME Move PROVE FoundSound'
  BY <1>26, WorktreeAssumption DEF TypeOK, StageSound, FoundSound, Changed, Desired, Move,
     agentVars, passVars, snapVars, integrateVars, cleanVars
<1>27. ASSUME Reset PROVE FoundSound'
  BY <1>27, WorktreeAssumption DEF TypeOK, StageSound, FoundSound, Changed, Desired, Reset,
     agentVars, passVars, snapVars, integrateVars, cleanVars
<1> QED
  BY <1>1, <1>2, <1>3, <1>4, <1>5, <1>6, <1>7, <1>8, <1>9, <1>10, <1>11, <1>12, <1>13, <1>14,
     <1>15, <1>16, <1>17, <1>18, <1>19, <1>20, <1>21, <1>22, <1>23, <1>24, <1>25, <1>26, <1>27
     DEF Next, Integrate, CleanUp

-----------------------------------------------------------------------------
(* The theorems. *)

\* At first nothing is locked, replaced or removed.
LEMMA InitInv == Init => WorktreeInv
<1> SUFFICES ASSUME Init PROVE WorktreeInv
  OBVIOUS
<1>1. 0 \in 0 .. MaxEdits /\ 0 \in 0 .. MaxMoves + 1 /\ 0 \in 0 .. MaxCommits /\ 1 \in 0 .. MaxCommits
  BY WorktreeAssumption
<1>2. Committed \in Files /\ 1 \in 1 .. Paths + 1 /\ 1 \in 0 .. Paths + 1
  BY <1>1, WorktreeAssumption DEF Committed, Files, Content
<1>3. TypeOK
  <2>1. /\ file \in Files /\ ident \in 0 .. MaxMoves + 1 /\ edits \in 0 .. MaxEdits
        /\ sofar \in [Child -> Files] /\ got \in [Child -> Files] /\ base \in [Child -> Files]
        /\ original \in [Child -> Files]
    BY <1>1, <1>2 DEF Init
  <2>2. /\ merged \in [Child -> 0 .. MaxCommits] /\ reached \in [Child -> 0 .. MaxCommits]
        /\ head \in [Child -> 0 .. MaxCommits]
        /\ goal \in [Child -> 0 .. MaxCommits] /\ seen \in [Child -> 0 .. MaxCommits]
        /\ noted \in [Child -> 0 .. MaxMoves + 1] /\ start \in [Child -> 0 .. MaxMoves + 1]
        /\ pass \in [Child -> 0 .. 6] /\ next \in [Child -> 1 .. Paths + 1]
        /\ at \in [Child -> 0 .. Paths + 1]
    BY <1>1, <1>2 DEF Init
  <2>3. /\ dirty \in [Child -> BOOLEAN] /\ raced \in [Child -> BOOLEAN]
        /\ reran \in [Child -> BOOLEAN]
    BY DEF Init
  <2>4. /\ applied \in [Child -> SUBSET Path] /\ recovery \in [Child -> SUBSET Path]
    BY DEF Init
  <2>5. \A c \in Child : phase[c] \notin Busy
    BY DEF Init, Busy
  <2> QED
    BY <2>1, <2>2, <2>3, <2>4, <2>5 DEF Init, TypeOK
<1>4. RemovalSound
  <2> SUFFICES ASSUME NEW c \in Child
               PROVE  /\ merged[c] <= reached[c] /\ reached[c] <= head[c]
                      /\ made[c] # "removed" /\ clean[c] = "no"
    BY DEF RemovalSound
  <2>1. head[c] \in {0, 1} /\ made[c] \in {"no", "yes"}
    BY DEF Init
  <2> QED
    BY <2>1 DEF Init
<1>5. StageSound
  <2> SUFFICES ASSUME NEW c \in Child
               PROVE  lock # c /\ phase[c] = "no" /\ pass[c] \notin 1 .. 4 /\ applied[c] = {}
    BY Zenon DEF StageSound
  <2> QED
    BY WorktreeAssumption DEF Init
<1>6. BytesSound
  <2>1. \A c \in Child, p \in Path : Committed[p] # c
    BY <1>1, WorktreeAssumption DEF Committed
  <2> QED
    BY <2>1 DEF Init, BytesSound
<1>7. FoundSound
  BY DEF Init, FoundSound
<1> QED
  BY <1>3, <1>4, <1>5, <1>6, <1>7 DEF WorktreeInv

\* A step that changes nothing keeps the invariant.
LEMMA StutterInv == WorktreeInv /\ UNCHANGED vars => WorktreeInv'
<1> SUFFICES ASSUME WorktreeInv, UNCHANGED vars PROVE WorktreeInv'
  OBVIOUS
<1>1. /\ UNCHANGED <<file, ident, edits, merged, reached, made, agent, head, dirty>>
      /\ UNCHANGED <<pass, next, noted, sofar, got, base, past, rolled>>
      /\ UNCHANGED <<lock, phase, at, start, goal, original, applied, recovery, raced>>
      /\ UNCHANGED <<clean, seen, reran>>
  BY DEF vars, checkoutVars, agentVars, snapVars, passVars, integrateVars, cleanVars
<1> QED
  BY <1>1 DEF WorktreeInv, TypeOK, RemovalSound, StageSound, BytesSound, FoundSound, Accounted,
     Changed, Desired

\* The stages say which files a call has replaced, and with them the account of bytes and
\* what was found are inductive; removals need the stages of the worktree.
LEMMA Invariance == Spec => []WorktreeInv
<1>1. WorktreeInv /\ Next => WorktreeInv'
  BY RemovalStep, TypeStep, StageStep, BytesStep, FoundStep DEF WorktreeInv
<1> QED
  BY InitInv, StutterInv, <1>1, PTL DEF Spec

\* Every variable keeps its type, and no two integrations are ever under way together.
THEOREM TypeCorrect == Spec => []TypeOK
<1>1. WorktreeInv => TypeOK
  BY DEF WorktreeInv
<1> QED
  BY Invariance, <1>1, PTL

\* An integration that failed, met a conflict or was refused has left none of the child's
\* bytes in the parent checkout that it does not report, whoever wrote there meanwhile.
THEOREM FailedLeavesNothingAlways == Spec => []FailedLeavesNothing
<1>1. WorktreeInv => FailedLeavesNothing
  BY DEF WorktreeInv, BytesSound, FailedLeavesNothing, Accounted, Busy
<1> QED
  BY Invariance, <1>1, PTL

\* A removed worktree had no commit that the parent's HEAD has never reached, unless its agent
\* ran again after the cleanup had begun.
THEOREM CommitsKeptAlways == Spec => []CommitsKept
<1>1. WorktreeInv => CommitsKept
  <2> SUFFICES ASSUME WorktreeInv, NEW c \in Child, made[c] = "removed", ~reran[c]
               PROVE  head[c] <= reached[c]
    BY DEF CommitsKept
  <2> QED
    BY DEF WorktreeInv, RemovalSound
<1> QED
  BY Invariance, <1>1, PTL

\* What an integration or its rollback replaces is the snapshot's or the child's own version,
\* unless somebody wrote the file between the last look and the replacement.
THEOREM ForeignKeptAlways == Spec => ForeignKept
<1> DEFINE Step == \A c \in Child, p \in Path :
             (applied'[c] # applied[c] /\ file'[p] # file[p] /\ ~raced[c])
               => file[p] \in {base[c][p], Desired(c, p)}
<1>1. ASSUME WorktreeInv, NEW d \in Child, Rename(d) \/ Restore(d) PROVE Step
  <2> SUFFICES ASSUME NEW c \in Child, NEW p \in Path,
                      applied'[c] # applied[c], file'[p] # file[p], ~raced[c]
               PROVE  file[p] \in {base[c][p], Desired(c, p)}
    OBVIOUS
  <2>1. c = d
    BY <1>1 DEF Rename, Restore, WorktreeInv, TypeOK
  <2>2. p = at[c]
    BY <1>1, <2>1 DEF Rename, Restore, Write, WorktreeInv, TypeOK, Files
  <2>3. at[c] \in Changed(c)
    BY <1>1, <2>1 DEF Rename, Restore, WorktreeInv, StageSound
  <2>4. file[at[c]] \in {base[c][at[c]], c}
    BY <1>1, <2>1, <2>3 DEF Rename, Restore, WorktreeInv, FoundSound
  <2>5. Desired(c, p) = c
    BY <1>1, <2>2, <2>3, DesiredFacts DEF WorktreeInv
  <2> QED
    BY <2>2, <2>4, <2>5
<1> DEFINE Harmless ==
         UNCHANGED applied \/ UNCHANGED file \/ \E d \in Child : Rename(d) \/ Restore(d)
<1>2. ASSUME Next PROVE Harmless
  <2>1. ASSUME NEW p \in Path, Edit(p) PROVE Harmless
    BY <2>1 DEF Edit
  <2>2. ASSUME Move \/ Reset PROVE Harmless
    BY <2>2 DEF Move, Reset
  <2>3. ASSUME NEW c \in Child, Resume(c) \/ ChangeFile(c) \/ Commit(c) \/ Finish(c)
        PROVE  Harmless
    BY <2>3 DEF Resume, ChangeFile, Commit, Finish, checkoutVars
  <2>4. ASSUME NEW c \in Child, Capture(c) \/ ReadEntry(c) \/ EndPass(c) PROVE Harmless
    BY <2>4 DEF Capture, ReadEntry, EndPass, SnapVarsBut, checkoutVars
  <2>5. ASSUME NEW c \in Child, CleanUp(c) PROVE Harmless
    BY <2>5 DEF CleanUp, AskCleanup, InspectHead, InspectStatus, CheckAncestry, BeforeRemove,
       Remove, CleanVarsBut, checkoutVars
  <2>6. ASSUME NEW c \in Child, Integrate(c) \/ Die(c)
        PROVE  Harmless
    BY <2>6 DEF Integrate, Die, Open, Identify, ReadOriginal, Recheck, Check, Reread, Undo,
       Release, Quiet
  <2> HIDE DEF Harmless
  <2> QED
    BY <1>2, <2>1, <2>2, <2>3, <2>4, <2>5, <2>6, Zenon DEF Next
<1>3. WorktreeInv /\ [Next]_vars => [Step]_vars
  BY <1>1, <1>2
<1> QED
  BY Invariance, <1>3, PTL DEF ForeignKept, Spec

-----------------------------------------------------------------------------
(* Snapshots. *)

\* Contents the parent checkout has had, or may still get from a child.
Known == (0 .. edits) \cup Child

\* An integration that has not put its bytes into a file, and still may.
Early == {"no", "locked", "reading", "read", "applying", "installing", "renaming"}
Unapplied(q, p) == phase[q] \in Early /\ p \notin applied[q]

\* What a capture has read was there: it holds no edit to come, and no bytes of a child
\* that are still to be put into the file.
TraceSound ==
  \A c \in Child :
    /\ phase[c] \in Early => recovery[c] = {}
    /\ \A p \in Path :
         /\ file[p] \in Known /\ original[c][p] \in Known
         /\ sofar[c][p] \in Known /\ got[c][p] \in Known
         /\ \A q \in Child : sofar[c][p] = q \/ got[c][p] = q => ~Unapplied(q, p)

\* The checkout f agrees with every file of the last capture that this one has found
\* unchanged; a file that f had changed already is never again what it was.
Between(c, f) ==
  \A p \in Path :
    /\ f[p] # got[c][p] => file[p] # got[c][p]
    /\ p < next[c] /\ sofar[c][p] = got[c][p] => f[p] = got[c][p]

\* From its second capture on, a snapshot has a moment that all captures could agree on:
\* the one when this capture began.
MomentSound ==
  /\ past \in [Child -> SUBSET Files]
  /\ \A c \in Child :
       /\ Capturing(c) => file \in past[c]
       /\ pass[c] \in 2 .. 4 /\ c \notin rolled => \E f \in past[c] : Between(c, f)
       /\ pass[c] = 5 /\ c \notin rolled => base[c] \notin past[c]

\* The contents of the checkout and what the snapshots have of them.
captureVars == <<file, edits, pass, next, sofar, got, base, past, rolled>>

\* What the agents, the parent's git commands and the removals do is no matter here.
LEMMA Unrelated ==
  ASSUME \/ Move \/ Reset \/ UNCHANGED vars
         \/ \E c \in Child : Resume(c) \/ ChangeFile(c) \/ Commit(c) \/ Finish(c) \/ CleanUp(c)
  PROVE  UNCHANGED captureVars /\ UNCHANGED <<phase, applied, recovery, original>>
<1>1. CASE Move \/ Reset \/ UNCHANGED vars
  BY <1>1 DEF Move, Reset, vars, captureVars, checkoutVars, snapVars, passVars, integrateVars
<1>2. ASSUME NEW c \in Child, Resume(c) \/ ChangeFile(c) \/ Commit(c) \/ Finish(c)
      PROVE  UNCHANGED captureVars /\ UNCHANGED <<phase, applied, recovery, original>>
  BY <1>2 DEF Resume, ChangeFile, Commit, Finish, captureVars, checkoutVars, snapVars, passVars,
     integrateVars
<1>3. ASSUME NEW c \in Child, CleanUp(c)
      PROVE  UNCHANGED captureVars /\ UNCHANGED <<phase, applied, recovery, original>>
  BY <1>3 DEF CleanUp, AskCleanup, InspectHead, InspectStatus, CheckAncestry, BeforeRemove, Remove,
     CleanVarsBut, captureVars, checkoutVars, snapVars, passVars, integrateVars
<1> QED
  BY <1>1, <1>2, <1>3

\* A step of an integration that replaces no file: it never has a chance again that it
\* had not, and reports only what it rolls back.
LEMMA Looking ==
  ASSUME TypeOK, StageSound, TraceSound, NEW c \in Child,
         Open(c) \/ Identify(c) \/ ReadOriginal(c) \/ Recheck(c) \/ Check(c) \/ Reread(c) \/ Undo(c)
           \/ Release(c) \/ Die(c)
  PROVE  /\ UNCHANGED captureVars
         /\ \A q \in Child : phase'[q] \in Early => recovery'[q] = {}
         /\ \A q \in Child, p \in Path : Unapplied(q, p)' => Unapplied(q, p)
         /\ \A q \in Child, p \in Path : original'[q][p] \in Known
<1>1. UNCHANGED captureVars
  BY DEF Open, Identify, ReadOriginal, Recheck, Check, Reread, Undo, Release, Die, IntVarsBut,
     Quiet, captureVars, passVars
<1>2. \A q \in Child : phase'[q] \in Early => recovery'[q] = {}
  <2>1. CASE Undo(c)
    <3>1. phase'[c] \notin Early
      BY <2>1 DEF Undo, To, TypeOK, Early
    <3>2. \A q \in Child \ {c} : phase'[q] = phase[q] /\ recovery'[q] = recovery[q]
      BY <2>1 DEF Undo, To, GiveUp, TypeOK
    <3> QED
      BY <3>1, <3>2 DEF TraceSound
  <2>2. CASE ~Undo(c)
    <3>1. UNCHANGED recovery
      BY <2>2 DEF Open, Identify, ReadOriginal, Recheck, Check, Reread, Release, Die
    <3>2. phase'[c] \in Early => phase[c] \in Early
      BY <2>2 DEF Open, Identify, ReadOriginal, Recheck, Check, Reread, Release, Die, To, TypeOK,
         Early, IntVarsBut
    <3>3. \A q \in Child \ {c} : phase'[q] = phase[q]
      BY <2>2 DEF Open, Identify, ReadOriginal, Recheck, Check, Reread, Release, Die, To, TypeOK
    <3> QED
      BY <3>1, <3>2, <3>3 DEF TraceSound
  <2> QED
    BY <2>1, <2>2
<1>3. \A q \in Child, p \in Path : Unapplied(q, p)' => Unapplied(q, p)
  <2>1. CASE Undo(c)
    BY <2>1 DEF Undo, To, GiveUp, TypeOK, Unapplied, Early
  <2>2. CASE Release(c)
    BY <2>2 DEF Release, TypeOK, Unapplied, Early
  <2>3. CASE ~Undo(c) /\ ~Release(c)
    <3>1. UNCHANGED applied
      BY <2>3 DEF Open, Identify, ReadOriginal, Recheck, Check, Reread, Die
    <3>2. phase'[c] \in Early => phase[c] \in Early
      BY <2>3 DEF Open, Identify, ReadOriginal, Recheck, Check, Reread, Die, To, TypeOK, Early
    <3>3. \A q \in Child \ {c} : phase'[q] = phase[q]
      BY <2>3 DEF Open, Identify, ReadOriginal, Recheck, Check, Reread, Die, To, TypeOK
    <3> QED
      BY <3>1, <3>2, <3>3 DEF Unapplied
  <2> QED
    BY <2>1, <2>2, <2>3
<1>4. \A q \in Child, p \in Path : original'[q][p] \in Known
  <2>1. CASE ReadOriginal(c)
    <3>1. \/ UNCHANGED original
          \/ \E p \in Path : original' = [original EXCEPT ![c] = [original[c] EXCEPT ![p] = file[p]]]
      BY <2>1 DEF ReadOriginal, First, Rest, Changed
    <3>2. \A q \in Child, p \in Path : original[q][p] \in Known /\ file[p] \in Known
      BY DEF TraceSound
    <3>3. original \in [Child -> [Path -> Content]]
      BY DEF TypeOK, Files
    <3>4. CASE UNCHANGED original
      BY <3>2, <3>4
    <3>5. ASSUME NEW n \in Path, NEW q \in Child, NEW p \in Path,
                 original' = [original EXCEPT ![c] = [original[c] EXCEPT ![n] = file[n]]]
          PROVE  original'[q][p] \in Known
      <4>1. CASE q = c
        <5>1. original'[q] = [original[c] EXCEPT ![n] = file[n]]
          BY <3>3, <3>5, <4>1
        <5> QED
          BY <3>2, <3>3, <5>1
      <4>2. CASE q # c
        BY <3>2, <3>3, <3>5, <4>2
      <4> QED
        BY <4>1, <4>2
    <3> QED
      BY <3>1, <3>4, <3>5
  <2>2. CASE Release(c)
    <3>1. original' = [original EXCEPT ![c] = Committed]
      BY <2>2 DEF Release
    <3>2. \A p \in Path : Committed[p] \in Known
      BY WorktreeAssumption DEF Committed, Known, TypeOK
    <3> QED
      BY <3>1, <3>2 DEF TypeOK, TraceSound
  <2>3. CASE ~ReadOriginal(c) /\ ~Release(c)
    <3>1. UNCHANGED original
      BY <2>3 DEF Open, Identify, Recheck, Check, Reread, Undo, Die
    <3> QED
      BY <3>1 DEF TraceSound
  <2> QED
    BY <2>1, <2>2, <2>3
<1> QED
  BY <1>1, <1>2, <1>3, <1>4

\* Files are replaced in order: the one in hand is not among those that are.
OrderSound ==
  \A c \in Child :
    /\ phase[c] = "applying" => \A p \in applied[c] : p <= at[c]
    /\ phase[c] \in {"installing", "renaming"} => \A p \in applied[c] : p < at[c]

\* Every step keeps the order.
LEMMA OrderStep ==
  ASSUME TypeOK, StageSound, OrderSound, [Next]_vars
  PROVE  OrderSound'
<1> USE DEF OrderSound
<1>1. ASSUME UNCHANGED <<phase, applied, at>> PROVE OrderSound'
  BY <1>1
<1>2. ASSUME NEW c \in Child, Check(c) PROVE OrderSound'
  <2>1. /\ phase[c] = "applying" /\ UNCHANGED applied
        /\ \A q \in Child \ {c} : phase'[q] = phase[q] /\ at'[q] = at[q]
        /\ \/ phase'[c] \notin {"applying", "installing", "renaming"}
           \/ at'[c] \in Path /\ at'[c] > at[c] /\ phase'[c] \in {"applying", "installing"}
    BY <1>2 DEF Check, To, TypeOK, First, Rest, Changed
  <2>2. \A p \in applied[c] : p \in Nat /\ at[c] \in Nat /\ p <= at[c]
    BY <2>1, WorktreeAssumption DEF TypeOK, Path
  <2>3. CASE at'[c] \in Path /\ at'[c] > at[c] /\ phase'[c] \in {"applying", "installing"}
    <3>1. at'[c] \in Nat
      BY <2>3, WorktreeAssumption DEF Path
    <3>2. \A p \in applied[c] : p < at'[c] /\ p <= at'[c]
      BY <2>2, <2>3, <3>1
    <3> QED
      BY <2>1, <3>2
  <2> QED
    BY <2>1, <2>3
<1>3. ASSUME NEW c \in Child, Rename(c) PROVE OrderSound'
  <2>1. /\ phase[c] = "renaming" /\ UNCHANGED at
        /\ applied' = [applied EXCEPT ![c] = applied[c] \cup {at[c]}]
        /\ phase' = [phase EXCEPT ![c] = "applying"]
    BY <1>3 DEF Rename, To
  <2>2. at[c] \in Nat /\ \A p \in applied[c] : p \in Nat /\ p < at[c]
    BY <2>1, WorktreeAssumption DEF TypeOK, Path
  <2>3. \A p \in applied'[c] : p <= at'[c]
    BY <2>1, <2>2 DEF TypeOK
  <2>4. \A q \in Child \ {c} : phase'[q] = phase[q] /\ applied'[q] = applied[q]
    BY <2>1 DEF TypeOK
  <2>5. phase'[c] = "applying"
    BY <2>1 DEF TypeOK
  <2> QED
    BY <2>1, <2>3, <2>4, <2>5
<1>4. ASSUME NEW c \in Child,
             Open(c) \/ Identify(c) \/ ReadOriginal(c) \/ Recheck(c) \/ Reread(c) \/ Undo(c)
               \/ Restore(c) \/ Release(c) \/ Die(c)
      PROVE  OrderSound'
  <2>1. \/ phase'[c] \notin {"applying", "installing", "renaming"}
        \/ Recheck(c) /\ phase[c] = "read" /\ UNCHANGED applied
        \/ Reread(c) /\ phase[c] = "installing" /\ UNCHANGED <<applied, at>>
    BY <1>4 DEF Open, Identify, ReadOriginal, Recheck, Reread, Undo, Restore, Release, Die, To,
       TypeOK
  <2>2. \A q \in Child \ {c} :
          phase'[q] = phase[q] /\ at'[q] = at[q] /\ applied'[q] = applied[q]
    BY <1>4 DEF Open, Identify, ReadOriginal, Recheck, Reread, Undo, Restore, Release, Die, To,
       GiveUp, TypeOK
  <2>3. CASE Recheck(c) /\ phase[c] = "read" /\ UNCHANGED applied
    BY <2>2, <2>3 DEF StageSound, Unstarted
  <2>4. CASE Reread(c) /\ phase[c] = "installing" /\ UNCHANGED <<applied, at>>
    <3>1. phase'[c] \in {"renaming", "undoing"}
      BY <2>4 DEF Reread, To, TypeOK
    <3> QED
      BY <2>2, <2>4, <3>1
  <2>5. CASE phase'[c] \notin {"applying", "installing", "renaming"}
    BY <2>2, <2>5
  <2> QED
    BY <2>1, <2>3, <2>4, <2>5
<1>5. ASSUME \/ Move \/ Reset \/ UNCHANGED vars
             \/ \E c \in Child : Resume(c) \/ ChangeFile(c) \/ Commit(c) \/ Finish(c) \/ CleanUp(c)
             \/ \E c \in Child : Capture(c) \/ ReadEntry(c) \/ EndPass(c)
             \/ \E p \in Path : Edit(p)
      PROVE  UNCHANGED <<phase, applied, at>>
  BY <1>5 DEF Move, Reset, vars, Resume, ChangeFile, Commit, Finish, CleanUp, AskCleanup,
     InspectHead, InspectStatus, CheckAncestry, BeforeRemove, Remove, CleanVarsBut, Capture,
     ReadEntry, EndPass, SnapVarsBut, Edit, integrateVars
<1> QED
  BY <1>1, <1>2, <1>3, <1>4, <1>5 DEF Next, Integrate

\* Bytes of a child in the checkout come from an integration that has put them there.
LEMMA FileTraced ==
  ASSUME BytesSound, TraceSound, NEW q \in Child, NEW p \in Path, file[p] = q
  PROVE  ~Unapplied(q, p)
BY DEF BytesSound, TraceSound, Accounted, Unapplied, Early

\* What replaces a file is an edit no capture has read, or bytes of a child that no
\* capture has read in it; and a rollback brings back what the checkout has had.
LEMMA ReplacedBy ==
  ASSUME WorktreeInv, OrderSound, TraceSound
  PROVE  /\ \A p \in Path : Edit(p) =>
              /\ edits \in Nat /\ edits + 1 \in 0 .. MaxEdits
              /\ \A c \in Child : got[c][p] # edits + 1
         /\ \A c \in Child : Rename(c) =>
              /\ at[c] \in Path /\ Desired(c, at[c]) = c /\ at[c] \notin applied[c]
              /\ \A d \in Child : got[d][at[c]] # c
<1>1. ASSUME NEW p \in Path, Edit(p)
      PROVE  /\ edits \in Nat /\ edits + 1 \in 0 .. MaxEdits
             /\ \A c \in Child : got[c][p] # edits + 1
  <2>1. edits \in Nat /\ edits + 1 \in 0 .. MaxEdits
    BY <1>1, WorktreeAssumption DEF Edit, WorktreeInv, TypeOK
  <2>2. edits + 1 \notin Known
    BY <2>1, WorktreeAssumption DEF Known
  <2> QED
    BY <2>1, <2>2 DEF TraceSound
<1>2. ASSUME NEW c \in Child, Rename(c)
      PROVE  /\ at[c] \in Path /\ Desired(c, at[c]) = c /\ at[c] \notin applied[c]
             /\ \A d \in Child : got[d][at[c]] # c
  <2>1. phase[c] = "renaming" /\ at[c] \in Changed(c)
    BY <1>2 DEF Rename, WorktreeInv, StageSound
  <2>2. at[c] \in Path /\ Desired(c, at[c]) = c
    BY <2>1, DesiredFacts DEF Changed, WorktreeInv
  <2>3. at[c] \notin applied[c]
    BY <2>1, <2>2, WorktreeAssumption DEF OrderSound, Path
  <2>4. Unapplied(c, at[c])
    BY <2>1, <2>3 DEF Unapplied, Early
  <2> QED
    BY <2>2, <2>3, <2>4 DEF TraceSound
<1> QED
  BY <1>1, <1>2

\* Every step keeps the traces.
LEMMA TraceStep ==
  ASSUME WorktreeInv, OrderSound, TraceSound, [Next]_vars
  PROVE  TraceSound'
<1>1. /\ file \in [Path -> Content] /\ sofar \in [Child -> [Path -> Content]]
      /\ got \in [Child -> [Path -> Content]] /\ original \in [Child -> [Path -> Content]]
      /\ phase \in [Child -> Phase] /\ applied \in [Child -> SUBSET Path]
  BY DEF WorktreeInv, TypeOK, Files, Phase
<1>2. ASSUME UNCHANGED <<file, edits, sofar, got>>,
             \A q \in Child : phase'[q] \in Early => recovery'[q] = {},
             \A q \in Child, p \in Path : Unapplied(q, p)' => Unapplied(q, p),
             \A q \in Child, p \in Path : original'[q][p] \in Known
      PROVE  TraceSound'
  BY <1>2 DEF TraceSound, Known
<1>3. ASSUME NEW c \in Child,
             Open(c) \/ Identify(c) \/ ReadOriginal(c) \/ Recheck(c) \/ Check(c) \/ Reread(c)
               \/ Undo(c) \/ Release(c) \/ Die(c)
      PROVE  TraceSound'
  BY <1>2, <1>3, Looking DEF WorktreeInv, captureVars
<1>4. ASSUME UNCHANGED <<file, edits, sofar, got, phase, applied, recovery, original>>
      PROVE  TraceSound'
  BY <1>4 DEF TraceSound, Known, Unapplied
<1>5. ASSUME NEW c \in Child, Capture(c) \/ ReadEntry(c) \/ EndPass(c)
      PROVE  /\ UNCHANGED <<file, edits, phase, applied, recovery, original>>
             /\ UNCHANGED got \/ got' = [got EXCEPT ![c] = sofar[c]]
                  \/ got' = [got EXCEPT ![c] = Committed]
             /\ \/ UNCHANGED sofar \/ sofar' = [sofar EXCEPT ![c] = Committed]
                \/ \E n \in Path : sofar' = [sofar EXCEPT ![c] = [sofar[c] EXCEPT ![n] = file[n]]]
  <2>1. ReadEntry(c) => next[c] \in Path
    BY WorktreeAssumption DEF ReadEntry, WorktreeInv, TypeOK, Path
  <2> QED
    BY <1>5, <2>1 DEF Capture, ReadEntry, EndPass, Forget, SnapVarsBut, checkoutVars, integrateVars
<1>6. ASSUME NEW c \in Child, Capture(c) \/ ReadEntry(c) \/ EndPass(c)
      PROVE  TraceSound'
  <2> DEFINE Fine(v, p) == v \in Known /\ \A q \in Child : v = q => ~Unapplied(q, p)
  <2>1. \A p \in Path : /\ Fine(Committed[p], p) /\ Fine(file[p], p)
                        /\ \A d \in Child : Fine(sofar[d][p], p) /\ Fine(got[d][p], p)
    <3>1. \A p \in Path : Committed[p] \in Known /\ Committed[p] \notin Child
      BY WorktreeAssumption DEF Committed, Known, WorktreeInv, TypeOK
    <3>2. \A p \in Path : Fine(file[p], p)
      BY FileTraced DEF TraceSound, WorktreeInv
    <3> QED
      BY <3>1, <3>2 DEF TraceSound
  <2>2. \A q \in Child, p \in Path : Unapplied(q, p)' <=> Unapplied(q, p)
    BY <1>5, <1>6 DEF Unapplied
  <2> HIDE DEF Fine
  <2>3. \A d \in Child, p \in Path : Fine(got'[d][p], p)
    BY <1>1, <1>5, <1>6, <2>1
  <2>4. \A d \in Child, p \in Path : Fine(sofar'[d][p], p)
    <3>1. ASSUME NEW n \in Path, NEW d \in Child, NEW p \in Path,
                 sofar' = [sofar EXCEPT ![c] = [sofar[c] EXCEPT ![n] = file[n]]]
          PROVE  sofar'[d][p] = sofar[d][p] \/ sofar'[d][p] = file[p]
      <4>1. CASE d = c
        <5>1. sofar'[d] = [sofar[c] EXCEPT ![n] = file[n]]
          BY <1>1, <3>1, <4>1
        <5> QED
          BY <1>1, <4>1, <5>1
      <4>2. CASE d # c
        BY <1>1, <3>1, <4>2
      <4> QED
        BY <4>1, <4>2
    <3>2. \A d \in Child, p \in Path :
            sofar'[d][p] \in {sofar[d][p], file[p], Committed[p]}
      <4>1. CASE UNCHANGED sofar
        BY <4>1
      <4>2. CASE sofar' = [sofar EXCEPT ![c] = Committed]
        BY <1>1, <4>2
      <4>3. ASSUME NEW n \in Path,
                   sofar' = [sofar EXCEPT ![c] = [sofar[c] EXCEPT ![n] = file[n]]]
            PROVE  \A d \in Child, p \in Path : sofar'[d][p] \in {sofar[d][p], file[p]}
        BY <3>1, <4>3
      <4> QED
        BY <1>5, <1>6, <4>1, <4>2, <4>3
    <3> QED
      BY <2>1, <3>2
  <2>5. Known' = Known
    BY <1>5, <1>6 DEF Known
  <2> QED
    BY <1>5, <1>6, <2>2, <2>3, <2>4, <2>5 DEF Fine, TraceSound
<1>7. ASSUME NEW c \in Child, Rename(c) PROVE TraceSound'
  <2>1. /\ file' = [file EXCEPT ![at[c]] = c]
        /\ phase[c] = "renaming" /\ phase' = [phase EXCEPT ![c] = "applying"]
        /\ applied' = [applied EXCEPT ![c] = applied[c] \cup {at[c]}]
        /\ UNCHANGED <<edits, sofar, got, recovery, original>>
    <3>1. Desired(c, at[c]) = c
      BY <1>7, ReplacedBy
    <3> QED
      BY <1>7, <3>1 DEF Rename, Write, To, IntVarsBut, passVars
  <2>2. \A q \in Child, p \in Path : Unapplied(q, p)' => Unapplied(q, p)
    BY <1>1, <2>1 DEF Unapplied, Early
  <2>3. \A p \in Path : file'[p] \in Known
    BY <1>1, <2>1 DEF TraceSound, Known
  <2>4. \A q \in Child : phase'[q] \in Early => recovery'[q] = {}
    BY <1>1, <2>1 DEF TraceSound, Early
  <2>5. Known' = Known
    BY <2>1 DEF Known
  <2> QED
    BY <2>1, <2>2, <2>3, <2>4, <2>5 DEF TraceSound
<1>8. ASSUME NEW c \in Child, Restore(c) PROVE TraceSound'
  <2>1. /\ file' = [file EXCEPT ![at[c]] = original[c][at[c]]]
        /\ phase' = [phase EXCEPT ![c] = "undoing"]
        /\ applied' = [applied EXCEPT ![c] = applied[c] \ {at[c]}]
        /\ UNCHANGED <<edits, sofar, got, recovery, original>>
    BY <1>8 DEF Restore, Write, To, IntVarsBut, passVars
  <2>2. \A q \in Child, p \in Path : Unapplied(q, p)' => Unapplied(q, p)
    BY <1>1, <2>1 DEF Unapplied, Early
  <2>3. \A p \in Path : file'[p] \in Known
    BY <1>1, <2>1 DEF TraceSound
  <2>4. \A q \in Child : phase'[q] \in Early => recovery'[q] = {}
    BY <1>1, <2>1 DEF TraceSound, Early
  <2>5. Known' = Known
    BY <2>1 DEF Known
  <2> QED
    BY <2>1, <2>2, <2>3, <2>4, <2>5 DEF TraceSound
<1>9. ASSUME NEW n \in Path, Edit(n) PROVE TraceSound'
  <2>1. /\ file' = [file EXCEPT ![n] = edits + 1] /\ edits' = edits + 1 /\ edits \in Nat
        /\ UNCHANGED <<sofar, got, recovery, original, phase, applied>>
    BY <1>9, ReplacedBy DEF Edit, Write, passVars
  <2>2. \A q \in Child, p \in Path : Unapplied(q, p)' => Unapplied(q, p)
    BY <2>1 DEF Unapplied
  <2>3. Known \subseteq Known' /\ edits + 1 \in Known'
    BY <2>1 DEF Known
  <2>4. \A c \in Child, p \in Path : file'[p] \in Known'
    BY <1>1, <2>1, <2>3 DEF TraceSound
  <2> QED
    BY <2>1, <2>2, <2>3, <2>4 DEF TraceSound
<1> QED
  BY <1>3, <1>4, <1>6, <1>7, <1>8, <1>9, Unrelated DEF Next, Integrate, captureVars

\* A replacement of a file that is not what a capture has read there leaves the moment,
\* and so does any other when the captures under way are not accounted for any more.
LEMMA WriteMoment ==
  ASSUME TypeOK, TypeOK', MomentSound, NEW n \in Path, NEW v, NEW but, Write(n, v, but),
         UNCHANGED <<pass, next, sofar, got, base>>,
         rolled \subseteq rolled',
         \A c \in Child : Capturing(c) /\ c \notin rolled' => got[c][n] # v
  PROVE  MomentSound'
<1>1. /\ file' = [file EXCEPT ![n] = v] /\ file' \in Files /\ file \in [Path -> Content]
      /\ past' = [c \in Child |-> IF Capturing(c) THEN past[c] \cup {file'} ELSE past[c]]
  BY DEF Write, TypeOK, Files
<1>2. past' \in [Child -> SUBSET Files]
  BY <1>1 DEF MomentSound
<1>3. ASSUME NEW c \in Child
      PROVE  /\ Capturing(c)' <=> Capturing(c)
             /\ Capturing(c)' => file' \in past'[c]
             /\ past[c] \subseteq past'[c]
             /\ ~Capturing(c) => past'[c] = past[c]
  BY <1>1 DEF Capturing
<1>4. ASSUME NEW c \in Child, pass[c] \in 2 .. 4, c \notin rolled'
      PROVE  \E f \in past'[c] : Between(c, f)'
  <2>1. Capturing(c) /\ c \notin rolled /\ got[c][n] # v
    BY <1>4 DEF Capturing
  <2>2. PICK f \in past[c] : Between(c, f)
    BY <1>4, <2>1 DEF MomentSound
  <2>3. Between(c, f)'
    <3> SUFFICES ASSUME NEW p \in Path
                 PROVE  /\ f[p] # got[c][p] => file'[p] # got[c][p]
                        /\ p < next[c] /\ sofar[c][p] = got[c][p] => f[p] = got[c][p]
      BY DEF Between
    <3>1. p # n => file'[p] = file[p]
      BY <1>1
    <3>2. p = n => file'[p] = v
      BY <1>1
    <3> QED
      BY <2>1, <2>2, <3>1, <3>2 DEF Between
  <2> QED
    BY <1>3, <2>2, <2>3
<1>5. ASSUME NEW c \in Child, pass[c] = 5, c \notin rolled'
      PROVE  base[c] \notin past'[c]
  BY <1>3, <1>5 DEF MomentSound, Capturing
<1> QED
  BY <1>2, <1>3, <1>4, <1>5 DEF MomentSound

\* Every step keeps the moment.
LEMMA MomentStep ==
  ASSUME WorktreeInv, WorktreeInv', OrderSound, TraceSound, MomentSound, [Next]_vars
  PROVE  MomentSound'
<1>1. ASSUME UNCHANGED captureVars PROVE MomentSound'
  BY <1>1 DEF captureVars, MomentSound, Between, Capturing
<1>2. ASSUME NEW n \in Path, Edit(n) PROVE MomentSound'
  <2>1. /\ Write(n, edits + 1, {}) /\ UNCHANGED <<pass, next, sofar, got, base, rolled>>
        /\ \A c \in Child : got[c][n] # edits + 1
    BY <1>2, ReplacedBy DEF Edit, passVars
  <2> QED
    BY <2>1, WriteMoment DEF WorktreeInv
<1>3. ASSUME NEW c \in Child, Rename(c) PROVE MomentSound'
  <2>1. /\ Write(at[c], Desired(c, at[c]), {c})
        /\ UNCHANGED <<pass, next, sofar, got, base, rolled>>
        /\ at[c] \in Path /\ \A d \in Child : got[d][at[c]] # Desired(c, at[c])
    BY <1>3, ReplacedBy DEF Rename, IntVarsBut, passVars
  <2> QED
    BY <2>1, WriteMoment DEF WorktreeInv
<1>4. ASSUME NEW c \in Child, Restore(c) PROVE MomentSound'
  <2>1. /\ Write(at[c], original[c][at[c]], {c})
        /\ UNCHANGED <<pass, next, sofar, got, base>>
        /\ rolled' = rolled \cup {q \in Child : Capturing(q)}
    BY <1>4 DEF Restore, IntVarsBut, passVars
  <2>2. at[c] \in Path
    BY <1>4 DEF Restore, WorktreeInv, StageSound, TypeOK
  <2> QED
    BY <2>1, <2>2, WriteMoment DEF WorktreeInv
<1>5. /\ pass \in [Child -> 0 .. 6] /\ next \in [Child -> 1 .. Paths + 1] /\ Paths \in Nat
      /\ file \in Files /\ sofar \in [Child -> Files] /\ got \in [Child -> Files]
      /\ base \in [Child -> Files] /\ past \in [Child -> SUBSET Files]
  BY WorktreeAssumption DEF WorktreeInv, TypeOK, MomentSound
<1>6. ASSUME NEW c \in Child, Capture(c) PROVE MomentSound'
  <2>1. /\ pass' = [pass EXCEPT ![c] = 1] /\ past' = [past EXCEPT ![c] = {file}]
        /\ UNCHANGED <<file, next, sofar, got, base, rolled>>
    BY <1>6 DEF Capture, SnapVarsBut, checkoutVars
  <2> QED
    BY <1>5, <2>1 DEF MomentSound, Capturing, Between
<1>7. ASSUME NEW c \in Child, ReadEntry(c) PROVE MomentSound'
  <2> DEFINE n == next[c]
  <2>1. /\ Capturing(c) /\ n <= Paths /\ next' = [next EXCEPT ![c] = n + 1]
        /\ sofar' = [sofar EXCEPT ![c] = [sofar[c] EXCEPT ![n] = file[n]]]
        /\ UNCHANGED <<file, pass, got, base, past, rolled>>
    BY <1>7 DEF ReadEntry, SnapVarsBut, checkoutVars
  <2>2. n \in Path /\ n \in Nat
    BY <1>5, <2>1 DEF Path
  <2>3. ASSUME NEW f, Between(c, f) PROVE Between(c, f)'
    <3> SUFFICES ASSUME NEW p \in Path, p < next'[c], sofar'[c][p] = got[c][p]
                 PROVE  f[p] = got[c][p]
      BY <2>1, <2>3 DEF Between
    <3>1. next'[c] = n + 1 /\ p \in Nat
      BY <1>5, <2>1 DEF Path
    <3>2. sofar'[c] = [sofar[c] EXCEPT ![n] = file[n]] /\ sofar[c] \in [Path -> Content]
      BY <1>5, <2>1 DEF Files
    <3>3. CASE p = n
      BY <2>2, <2>3, <3>2, <3>3 DEF Between
    <3>4. CASE p # n
      <4>1. p < next[c] /\ sofar[c][p] = got[c][p]
        BY <2>2, <3>1, <3>2, <3>4
      <4> QED
        BY <2>3, <4>1 DEF Between
    <3> QED
      BY <3>3, <3>4
  <2>4. ASSUME NEW d \in Child, d # c, NEW f, Between(d, f) PROVE Between(d, f)'
    BY <1>5, <2>1, <2>4 DEF Between
  <2> HIDE DEF n
  <2>5. \A d \in Child : \A f \in past[d] : Between(d, f) => Between(d, f)'
    BY <2>3, <2>4
  <2> QED
    BY <2>1, <2>5 DEF MomentSound, Capturing
<1>8. ASSUME NEW c \in Child, EndPass(c) PROVE MomentSound'
  <2>1. Capturing(c) /\ next[c] > Paths /\ UNCHANGED file
    BY <1>8 DEF EndPass, SnapVarsBut, checkoutVars
  <2>2. pass[c] \in 1 .. 4 /\ file \in past[c]
    BY <2>1 DEF Capturing, MomentSound
  <2>3. ASSUME NEW d \in Child, d # c, NEW f, Between(d, f) PROVE Between(d, f)'
    <3>1. next'[d] = next[d] /\ got'[d] = got[d] /\ sofar'[d] = sofar[d]
      BY <1>5, <1>8, <2>3 DEF EndPass, Forget
    <3> QED
      BY <2>1, <2>3, <3>1 DEF Between
  <2>4. \A d \in Child : d # c =>
          /\ pass'[d] = pass[d] /\ past'[d] = past[d] /\ base'[d] = base[d]
          /\ d \in rolled' <=> d \in rolled
    BY <1>5, <1>8 DEF EndPass
  <2>5. past' \in [Child -> SUBSET Files]
    BY <1>5, <1>8 DEF EndPass
  <2>6. \A d \in Child : d # c =>
          /\ Capturing(d)' => file' \in past'[d]
          /\ pass'[d] \in 2 .. 4 /\ d \notin rolled' => \E f \in past'[d] : Between(d, f)'
          /\ pass'[d] = 5 /\ d \notin rolled' => base'[d] \notin past'[d]
    BY <2>1, <2>3, <2>4 DEF MomentSound, Capturing
  <2>7. CASE pass'[c] = 6
    BY <2>5, <2>6, <2>7 DEF MomentSound, Capturing
  <2>8. CASE pass'[c] = pass[c] + 1 /\ pass[c] < 4
    <3>1. next'[c] = 1 /\ got'[c] = sofar[c] /\ past' = past
      BY <1>5, <1>8, <2>2, <2>8 DEF EndPass
    <3>2. Between(c, file)'
      BY <1>5, <2>1, <3>1 DEF Between, Path
    <3> QED
      BY <2>1, <2>2, <2>5, <2>6, <2>8, <3>1, <3>2 DEF MomentSound
  <2>9. CASE pass'[c] = 5
    <3>1. /\ pass[c] = 4 /\ Agrees(c) /\ base'[c] = sofar[c] /\ past'[c] = {sofar[c]} \ past[c]
          /\ rolled' = rolled
      BY <1>5, <1>8, <2>2, <2>9 DEF EndPass
    <3>2. sofar[c] = got[c]
      BY <3>1 DEF Agrees
    <3>3. ASSUME c \notin rolled PROVE sofar[c] \in past[c]
      <4>1. PICK f \in past[c] : Between(c, f)
        BY <3>1, <3>3 DEF MomentSound
      <4>2. f \in [Path -> Content] /\ sofar[c] \in [Path -> Content]
        BY <1>5 DEF Files
      <4>3. \A p \in Path : p < next[c]
        BY <1>5, <2>1 DEF Path
      <4>4. \A p \in Path : f[p] = sofar[c][p]
        BY <3>2, <4>1, <4>3 DEF Between
      <4> QED
        BY <4>2, <4>4
    <3> QED
      BY <2>5, <2>6, <2>9, <3>1, <3>3 DEF MomentSound, Capturing
  <2> QED
    BY <1>5, <1>8, <2>7, <2>8, <2>9 DEF EndPass
<1> QED
  BY <1>1, <1>2, <1>3, <1>4, <1>6, <1>7, <1>8, Unrelated, Looking DEF Next, Integrate, WorktreeInv

\* A snapshot that is usable is what the parent checkout held at one moment of its capture
\* (createSnapshotWorktree()), for any files, edits, integrations and deaths; only a
\* rollback during the capture may undo what it was to notice.
THEOREM SnapshotConsistentAlways == Spec => []SnapshotConsistent
<1> DEFINE Inv == OrderSound /\ TraceSound /\ MomentSound
<1>1. Init => Inv
  <2> SUFFICES ASSUME Init PROVE Inv
    OBVIOUS
  <2>1. \A c \in Child : /\ phase[c] = "no" /\ pass[c] = 0 /\ applied[c] = {} /\ recovery[c] = {}
                         /\ sofar[c] = Committed /\ got[c] = Committed
                         /\ original[c] = Committed
    BY DEF Init
  <2>2. file = Committed /\ edits = 0 /\ past = [c \in Child |-> {}]
    BY DEF Init
  <2>3. \A p \in Path : Committed[p] \in Known /\ Committed[p] \notin Child
    BY <2>2, WorktreeAssumption DEF Committed, Known
  <2>4. OrderSound
    BY <2>1 DEF OrderSound
  <2>5. TraceSound
    BY <2>1, <2>2, <2>3 DEF TraceSound
  <2>6. MomentSound
    BY <2>1, <2>2 DEF MomentSound, Capturing
  <2> QED
    BY <2>4, <2>5, <2>6
<1>2. WorktreeInv /\ WorktreeInv' /\ Inv /\ [Next]_vars => Inv'
  BY OrderStep, TraceStep, MomentStep DEF WorktreeInv
<1>3. Inv => SnapshotConsistent
  BY WorktreeAssumption DEF MomentSound, SnapshotConsistent
<1> HIDE DEF Inv
<1> QED
  BY <1>1, <1>2, <1>3, Invariance, PTL DEF Spec
=============================================================================
