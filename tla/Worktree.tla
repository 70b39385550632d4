------------------------------- MODULE Worktree -------------------------------
(***************************************************************************)
(* Worktrees of agents and the checkout of their parent: taking a snapshot,*)
(* integrating a committed child (src/worktree-snapshot.ts) and removing a *)
(* worktree (src/worktree.ts, the tools of src/index.ts).                  *)
(*                                                                         *)
(* Every call is a chain of awaits on git and on files; editors, git       *)
(* commands of the parent, the agents and other calls run between any two  *)
(* of them.  Reading the identity of a checkout, and the checks of all     *)
(* files before a file is replaced, are one step each.  An editor always   *)
(* writes something new: a change that is taken back unseen is what        *)
(* docs/worktrees.md excludes ("an ABA change between reads").             *)
(***************************************************************************)
EXTENDS Naturals

CONSTANTS
  Child,      \* agents with a worktree of their own
  Fresh,      \* the ones of this session: snapshot, runs, cleanup and integration; the
              \* others have committed and are only integrated
  Paths,      \* number of files, in sorted order
  Changes(_), \* the files a child's commit changes
  MaxEdits,   \* external edits of files in the parent checkout (bound of the model)
  MaxMoves,   \* external changes of its HEAD or index, one reset apart (bound of the model)
  MaxCommits, \* commits of a child (bound of the model)
  None        \* no call holds the integration lock

ASSUME WorktreeAssumption ==
  /\ Fresh \subseteq Child /\ None \notin Child /\ Child \cap (0 .. MaxEdits) = {}
  /\ Paths \in Nat /\ MaxEdits \in Nat /\ MaxMoves \in Nat /\ MaxCommits \in Nat \ {0}

VARIABLES
  \* the parent checkout: contents, identity (HEAD and index), commits of the
  \* children that its HEAD reaches, and those it has ever reached
  file, ident, edits, merged, reached,
  \* the worktree and its agent; head counts the commits on top of the base
  made, agent, head, dirty,
  \* createSnapshotWorktree(): pass (5 done, 6 given up), next file, identity and contents
  \* of this pass, contents of the last one and of the worktree; for the properties, the
  \* contents the checkout has had meanwhile, or the base when it was none of them, and
  \* the calls during which a rollback put a file back
  pass, next, noted, sofar, got, base, past, rolled,
  \* integrateSnapshotWorktree() and the lock file: identity of the parent and of the child
  \* when it began, contents found, files replaced and files left to the user
  lock, phase, at, start, goal, original, applied, recovery, raced,
  \* cleanupWorktree()
  clean, seen, reran

checkoutVars == <<file, ident, edits, merged, reached>>
agentVars == <<made, agent, head, dirty>>
passVars == <<pass, next, noted, sofar, got, base>>
snapVars == <<passVars, past, rolled>>
integrateVars == <<lock, phase, at, start, goal, original, applied, recovery, raced>>
cleanVars == <<clean, seen, reran>>
vars == <<checkoutVars, agentVars, snapVars, integrateVars, cleanVars>>

Path == 1 .. Paths
\* What a file may hold: its first bytes, those of an edit, a child's version.
Content == (0 .. MaxEdits) \cup Child
Files == [Path -> Content]
Committed == [p \in Path |-> 0]

Init ==
  /\ file = Committed /\ ident = 0 /\ edits = 0 /\ merged = [c \in Child |-> 0]
  /\ reached = merged
  /\ made = [c \in Child |-> IF c \in Fresh THEN "no" ELSE "yes"]
  /\ agent = [c \in Child |-> "idle"]
  /\ head = [c \in Child |-> IF c \in Fresh THEN 0 ELSE 1] /\ dirty = [c \in Child |-> FALSE]
  /\ pass = [c \in Child |-> 0] /\ next = [c \in Child |-> 1] /\ noted = [c \in Child |-> 0]
  /\ sofar = [c \in Child |-> Committed] /\ got = [c \in Child |-> Committed]
  /\ base = [c \in Child |-> Committed] /\ past = [c \in Child |-> {}] /\ rolled = {}
  /\ lock = None /\ phase = [c \in Child |-> "no"] /\ at = [c \in Child |-> 1]
  /\ start = [c \in Child |-> 0] /\ goal = [c \in Child |-> 0]
  /\ original = [c \in Child |-> Committed]
  /\ applied = [c \in Child |-> {}] /\ recovery = [c \in Child |-> {}]
  /\ raced = [c \in Child |-> FALSE]
  /\ clean = [c \in Child |-> "no"] /\ seen = [c \in Child |-> 0]
  /\ reran = [c \in Child |-> FALSE]

-----------------------------------------------------------------------------
(* Others: editors, git commands of the parent, the agents. *)

Capturing(c) == pass[c] \in 1 .. 4
\* Calls that have read a file for the last time and are about to replace it.
Replacing(p) == {c \in Child : phase[c] \in {"renaming", "restoring"} /\ at[c] = p}

\* A file changes: captures under way see another checkout, replacements come late.
Write(p, v, but) ==
  /\ file' = [file EXCEPT ![p] = v]
  /\ past' = [c \in Child |-> IF Capturing(c) THEN past[c] \cup {file'} ELSE past[c]]
  /\ raced' = [c \in Child |-> raced[c] \/ (c \in Replacing(p) \ but)]

Edit(p) ==
  /\ edits < MaxEdits
  /\ edits' = edits + 1
  /\ Write(p, edits + 1, {})
  /\ UNCHANGED <<ident, merged, reached, agentVars, passVars, rolled, lock, phase, at, start, goal,
                 original, applied, recovery, cleanVars>>
\* The parent stages or commits, or merges the commit of a child.
Move ==
  /\ ident < MaxMoves
  /\ ident' = ident + 1
  /\ \/ UNCHANGED <<merged, reached>>
     \/ \E c \in Fresh :
          /\ merged' = [merged EXCEPT ![c] = head[c]]
          /\ reached' = [reached EXCEPT ![c] = head[c]]
  /\ UNCHANGED <<file, edits, agentVars, snapVars, integrateVars, cleanVars>>
\* The parent resets HEAD to where no commit of a child was merged (bound: once).
Reset ==
  /\ ident <= MaxMoves /\ \E c \in Child : merged[c] > 0
  /\ ident' = MaxMoves + 1 /\ merged' = [c \in Child |-> 0]
  /\ UNCHANGED <<file, edits, reached, agentVars, snapVars, integrateVars, cleanVars>>

Resume(c) ==
  /\ c \in Fresh /\ made[c] = "yes" /\ agent[c] = "idle"
  /\ agent' = [agent EXCEPT ![c] = "active"]
  /\ reran' = [reran EXCEPT ![c] = @ \/ clean[c] \notin {"no", "refused"}]
  /\ UNCHANGED <<checkoutVars, made, head, dirty, snapVars, integrateVars, clean, seen>>
ChangeFile(c) ==
  /\ agent[c] = "active" /\ made[c] = "yes" /\ ~dirty[c]
  /\ dirty' = [dirty EXCEPT ![c] = TRUE]
  /\ UNCHANGED <<checkoutVars, made, agent, head, snapVars, integrateVars, cleanVars>>
Commit(c) ==
  /\ agent[c] = "active" /\ made[c] = "yes" /\ dirty[c] /\ head[c] < MaxCommits
  /\ head' = [head EXCEPT ![c] = @ + 1] /\ dirty' = [dirty EXCEPT ![c] = FALSE]
  /\ UNCHANGED <<checkoutVars, made, agent, snapVars, integrateVars, cleanVars>>
Finish(c) ==
  /\ agent[c] = "active"
  /\ agent' = [agent EXCEPT ![c] = "idle"]
  /\ UNCHANGED <<checkoutVars, made, head, dirty, snapVars, integrateVars, cleanVars>>

-----------------------------------------------------------------------------
(* createSnapshotWorktree(): four captures, the worktree between the last two. *)

SnapVarsBut == <<checkoutVars, agent, head, dirty, integrateVars, cleanVars>>

Capture(c) ==
  /\ made[c] = "no" /\ pass[c] = 0
  /\ pass' = [pass EXCEPT ![c] = 1] /\ noted' = [noted EXCEPT ![c] = ident]
  /\ past' = [past EXCEPT ![c] = {file}]
  /\ UNCHANGED <<SnapVarsBut, made, next, sofar, got, base, rolled>>
ReadEntry(c) ==
  /\ Capturing(c) /\ next[c] <= Paths
  /\ sofar' = [sofar EXCEPT ![c] = [@ EXCEPT ![next[c]] = file[next[c]]]]
  /\ next' = [next EXCEPT ![c] = @ + 1]
  /\ UNCHANGED <<SnapVarsBut, made, pass, noted, got, base, past, rolled>>

\* Variant: the captures are not compared.
AgreesByIdentity(c) == ident = noted[c]
Agrees(c) == ident = noted[c] /\ (pass[c] > 1 => sofar[c] = got[c])

Forget(c) ==
  /\ next' = [next EXCEPT ![c] = 1] /\ noted' = [noted EXCEPT ![c] = 0]
  /\ sofar' = [sofar EXCEPT ![c] = Committed] /\ got' = [got EXCEPT ![c] = Committed]

\* The end of a capture: the next one, after the third one with a worktree; the snapshot,
\* after the last one; or a difference gives up, and leaves the worktree there is.
EndPass(c) ==
  /\ Capturing(c) /\ next[c] > Paths
  /\ \/ /\ Agrees(c) /\ pass[c] < 4
        /\ pass' = [pass EXCEPT ![c] = @ + 1] /\ next' = [next EXCEPT ![c] = 1]
        /\ got' = [got EXCEPT ![c] = sofar[c]]
        /\ made' = [made EXCEPT ![c] = IF pass[c] = 3 THEN "partial" ELSE @]
        /\ UNCHANGED <<noted, sofar, base, past, rolled>>
     \/ /\ Agrees(c) /\ pass[c] = 4
        /\ pass' = [pass EXCEPT ![c] = 5]
        /\ made' = [made EXCEPT ![c] = "yes"] /\ base' = [base EXCEPT ![c] = sofar[c]]
        /\ past' = [past EXCEPT ![c] = {sofar[c]} \ @]
        /\ Forget(c)
        /\ UNCHANGED rolled
     \/ /\ ~Agrees(c)
        /\ pass' = [pass EXCEPT ![c] = 6]
        /\ past' = [past EXCEPT ![c] = {}] /\ rolled' = rolled \ {c}
        /\ Forget(c)
        /\ UNCHANGED <<made, base>>
  /\ UNCHANGED SnapVarsBut

-----------------------------------------------------------------------------
(* integrateSnapshotWorktree() *)

IntVarsBut == <<ident, edits, merged, reached, agentVars, passVars, cleanVars>>
Quiet == <<file, past, rolled>>
Fresher(c) == raced' = [raced EXCEPT ![c] = FALSE]
To(c, s) == phase' = [phase EXCEPT ![c] = s]

\* What the child's commit has, and the files where that is not the snapshot's.
Desired(c, p) == IF goal[c] > 0 /\ p \in Changes(c) THEN c ELSE base[c][p]
Changed(c) == {p \in Path : Desired(c, p) # base[c][p]}
Rest(c) == {p \in Changed(c) : p > at[c]}
First(S) == {p \in S : \A q \in S : p <= q}
Last(S) == {p \in S : \A q \in S : p >= q}

\* Variant: the lock file is opened without "wx".
OpenShared(c) ==
  /\ made[c] = "yes" /\ agent[c] = "idle" /\ phase[c] = "no"
  /\ To(c, "locked") /\ lock' = c
  /\ UNCHANGED <<IntVarsBut, Quiet, raced, at, start, goal, original, applied, recovery>>

\* The tool's check, the registration and the exclusive lock file.
Open(c) ==
  /\ made[c] = "yes" /\ agent[c] = "idle" /\ phase[c] = "no"
  /\ IF lock = None THEN To(c, "locked") /\ lock' = c ELSE To(c, "refused") /\ UNCHANGED lock
  /\ UNCHANGED <<IntVarsBut, Quiet, raced, at, start, goal, original, applied, recovery>>

\* Both identities; the child has to be clean.
Identify(c) ==
  /\ phase[c] = "locked"
  /\ start' = [start EXCEPT ![c] = ident] /\ goal' = [goal EXCEPT ![c] = head[c]]
  /\ To(c, IF dirty[c] \/ made[c] # "yes" THEN "undoing" ELSE "reading")
  /\ at' = [at EXCEPT ![c] = 0]
  /\ UNCHANGED <<IntVarsBut, Quiet, raced, lock, original, applied, recovery>>

\* One changed file after the other has to be the snapshot's or the child's.
ReadOriginal(c) ==
  /\ phase[c] = "reading"
  /\ \/ /\ Rest(c) = {}
        /\ at' = [at EXCEPT ![c] = 0] /\ To(c, "read") /\ UNCHANGED original
     \/ \E p \in First(Rest(c)) :
          /\ at' = [at EXCEPT ![c] = p]
          /\ IF file[p] \in {base[c][p], Desired(c, p)}
             THEN original' = [original EXCEPT ![c] = [@ EXCEPT ![p] = file[p]]] /\ UNCHANGED phase
             ELSE To(c, "conflict") /\ UNCHANGED original
  /\ UNCHANGED <<IntVarsBut, Quiet, raced, lock, start, goal, applied, recovery>>

Unmoved(c) == ident = start[c]
Recheck(c) ==
  /\ phase[c] = "read"
  /\ To(c, IF Unmoved(c) /\ head[c] = goal[c] /\ ~dirty[c] /\ made[c] = "yes"
           THEN "applying" ELSE "undoing")
  /\ UNCHANGED <<IntVarsBut, Quiet, raced, lock, at, start, goal, original, applied, recovery>>

Expected(c, p) == IF p \in applied[c] THEN Desired(c, p) ELSE original[c][p]

\* The checks before the next file, or the last ones.
Check(c) ==
  /\ phase[c] = "applying"
  /\ LET fine == Unmoved(c) /\ \A q \in Changed(c) : file[q] = Expected(c, q)
         done == Unmoved(c) /\ \A q \in Changed(c) : file[q] = Desired(c, q)
     IN
     \/ /\ Rest(c) = {}
        /\ To(c, IF done THEN "integrated" ELSE "undoing") /\ UNCHANGED at
     \/ /\ Rest(c) # {} /\ ~fine
        /\ To(c, "undoing") /\ UNCHANGED at
     \/ \E p \in First(Rest(c)) :
          /\ fine
          /\ at' = [at EXCEPT ![c] = p]
          /\ IF original[c][p] = Desired(c, p) THEN UNCHANGED phase ELSE To(c, "installing")
  /\ UNCHANGED <<IntVarsBut, Quiet, raced, lock, start, goal, original, applied, recovery>>

\* Variant: install() does not read the file again.
RereadNothing(c) ==
  /\ phase[c] = "installing"
  /\ \E s \in {"renaming", "undoing"} : To(c, s)
  /\ Fresher(c)
  /\ UNCHANGED <<IntVarsBut, Quiet, lock, at, start, goal, original, applied, recovery>>

\* install(): the file beside it is written and the file read again; either may fail.
Reread(c) ==
  /\ phase[c] = "installing"
  /\ \/ file[at[c]] = original[c][at[c]] /\ To(c, "renaming")
     \/ To(c, "undoing")
  /\ Fresher(c)
  /\ UNCHANGED <<IntVarsBut, Quiet, lock, at, start, goal, original, applied, recovery>>
Rename(c) ==
  /\ phase[c] = "renaming"
  /\ Write(at[c], Desired(c, at[c]), {c})
  /\ applied' = [applied EXCEPT ![c] = @ \cup {at[c]}]
  /\ To(c, "applying")
  /\ UNCHANGED <<IntVarsBut, rolled, lock, at, start, goal, original, recovery>>

GiveUp(c, p) ==
  /\ recovery' = [recovery EXCEPT ![c] = @ \cup {p}]
  /\ applied' = [applied EXCEPT ![c] = @ \ {p}]

\* Variant: what cannot be rolled back is not reported.
UndoSilently(c) ==
  /\ phase[c] = "undoing"
  /\ \/ applied[c] = {} /\ To(c, "failed") /\ UNCHANGED <<at, applied, recovery>>
     \/ \E p \in Last(applied[c]) :
          /\ at' = [at EXCEPT ![c] = p]
          /\ \/ file[p] = Desired(c, p) /\ To(c, "restoring") /\ UNCHANGED <<applied, recovery>>
             \/ applied' = [applied EXCEPT ![c] = @ \ {p}] /\ UNCHANGED <<phase, recovery>>
  /\ Fresher(c)
  /\ UNCHANGED <<IntVarsBut, Quiet, lock, start, goal, original>>

\* The rollback, in reverse: a file that is not the call's own any more is left, and so is
\* one that cannot be written.
Undo(c) ==
  /\ phase[c] = "undoing"
  /\ \/ applied[c] = {} /\ To(c, "failed") /\ UNCHANGED <<at, applied, recovery>>
     \/ \E p \in Last(applied[c]) :
          /\ at' = [at EXCEPT ![c] = p]
          /\ \/ file[p] = Desired(c, p) /\ To(c, "restoring") /\ UNCHANGED <<applied, recovery>>
             \/ GiveUp(c, p) /\ UNCHANGED phase
  /\ Fresher(c)
  /\ UNCHANGED <<IntVarsBut, Quiet, lock, start, goal, original>>
Restore(c) ==
  /\ phase[c] = "restoring"
  /\ Write(at[c], original[c][at[c]], {c})
  /\ applied' = [applied EXCEPT ![c] = @ \ {at[c]}]
  /\ To(c, "undoing")
  /\ rolled' = rolled \cup {q \in Child : Capturing(q)}
  /\ UNCHANGED <<IntVarsBut, lock, at, start, goal, original, recovery>>

\* finally: the lock file is unlinked by the call that made it, and its locals are gone.
Release(c) ==
  /\ phase[c] \in {"integrated", "failed", "conflict"} /\ lock = c
  /\ lock' = None
  /\ at' = [at EXCEPT ![c] = 1] /\ start' = [start EXCEPT ![c] = 0]
  /\ goal' = [goal EXCEPT ![c] = 0] /\ original' = [original EXCEPT ![c] = Committed]
  /\ applied' = [applied EXCEPT ![c] = {}] /\ raced' = [raced EXCEPT ![c] = FALSE]
  /\ UNCHANGED <<IntVarsBut, Quiet, phase, recovery>>
\* The process ends: the lock file and what was applied stay.
Die(c) ==
  /\ lock = c /\ phase[c] # "dead"
  /\ To(c, "dead")
  /\ UNCHANGED <<IntVarsBut, Quiet, raced, lock, at, start, goal, original, applied, recovery>>

-----------------------------------------------------------------------------
(* cleanup_subagent_worktree *)

CleanVarsBut == <<checkoutVars, agent, head, dirty, snapVars, integrateVars, reran>>
Cleanup(c, from, to) == clean[c] = from /\ clean' = [clean EXCEPT ![c] = to]

AskCleanup(c) ==
  /\ c \in Fresh /\ made[c] = "yes" /\ agent[c] = "idle"
  /\ Cleanup(c, "no", "asked")
  /\ UNCHANGED <<CleanVarsBut, made, seen>>
InspectHead(c) ==
  /\ Cleanup(c, "asked", "head")
  /\ seen' = [seen EXCEPT ![c] = head[c]]
  /\ UNCHANGED <<CleanVarsBut, made>>
InspectStatus(c) ==
  /\ Cleanup(c, "head", IF dirty[c] THEN "refused" ELSE "clean")
  /\ UNCHANGED <<CleanVarsBut, made, seen>>

\* Variant: commits are not looked for.
ReachableAlways(c) == TRUE
\* HEAD is the base, or merge-base --is-ancestor finds it behind the parent's HEAD.
Reachable(c) == seen[c] <= merged[c]

CheckAncestry(c) ==
  /\ Cleanup(c, "clean", IF Reachable(c) THEN "reachable" ELSE "refused")
  /\ UNCHANGED <<CleanVarsBut, made, seen>>
\* beforeRemove(): the agent once more, and git starts.
BeforeRemove(c) ==
  /\ Cleanup(c, "reachable", IF agent[c] = "idle" THEN "removing" ELSE "refused")
  /\ UNCHANGED <<CleanVarsBut, made, seen>>
\* git worktree remove refuses modified and untracked files, and nothing else.
Remove(c) ==
  /\ Cleanup(c, "removing", IF dirty[c] THEN "refused" ELSE "removed")
  /\ made' = [made EXCEPT ![c] = IF dirty[c] THEN @ ELSE "removed"]
  /\ UNCHANGED <<CleanVarsBut, seen>>

-----------------------------------------------------------------------------
Integrate(c) ==
  \/ Open(c) \/ Identify(c) \/ ReadOriginal(c) \/ Recheck(c) \/ Check(c) \/ Reread(c) \/ Rename(c)
  \/ Undo(c) \/ Restore(c) \/ Release(c)
CleanUp(c) ==
  \/ AskCleanup(c) \/ InspectHead(c) \/ InspectStatus(c) \/ CheckAncestry(c) \/ BeforeRemove(c)
  \/ Remove(c)

Next ==
  \/ \E p \in Path : Edit(p)
  \/ Move \/ Reset
  \/ \E c \in Child :
       \/ Resume(c) \/ ChangeFile(c) \/ Commit(c) \/ Finish(c)
       \/ Capture(c) \/ ReadEntry(c) \/ EndPass(c)
       \/ Integrate(c) \/ Die(c) \/ CleanUp(c)

Spec == Init /\ [][Next]_vars

-----------------------------------------------------------------------------
(* Properties. *)

Busy == {"locked", "reading", "read", "applying", "installing", "renaming", "undoing", "restoring"}

\* Types; and the lock belongs to the one integration that is under way, so that no two
\* ever change the parent checkout together.
TypeOK ==
  /\ file \in Files /\ ident \in 0 .. MaxMoves + 1 /\ edits \in 0 .. MaxEdits
  /\ merged \in [Child -> 0 .. MaxCommits] /\ reached \in [Child -> 0 .. MaxCommits]
  /\ made \in [Child -> {"no", "partial", "yes", "removed"}]
  /\ agent \in [Child -> {"idle", "active"}]
  /\ head \in [Child -> 0 .. MaxCommits] /\ dirty \in [Child -> BOOLEAN]
  /\ pass \in [Child -> 0 .. 6] /\ next \in [Child -> 1 .. Paths + 1]
  /\ noted \in [Child -> 0 .. MaxMoves + 1] /\ sofar \in [Child -> Files]
  /\ got \in [Child -> Files] /\ base \in [Child -> Files]
  /\ lock \in Child \cup {None}
  /\ phase \in [Child -> Busy \cup {"no", "refused", "conflict", "integrated", "failed", "dead"}]
  /\ at \in [Child -> 0 .. Paths + 1] /\ start \in [Child -> 0 .. MaxMoves + 1]
  /\ goal \in [Child -> 0 .. MaxCommits] /\ original \in [Child -> Files]
  /\ applied \in [Child -> SUBSET Path] /\ recovery \in [Child -> SUBSET Path]
  /\ raced \in [Child -> BOOLEAN] /\ rolled \subseteq Child
  /\ clean \in [Child -> {"no", "asked", "head", "clean", "reachable", "removing", "removed",
                          "refused"}]
  /\ seen \in [Child -> 0 .. MaxCommits] /\ reran \in [Child -> BOOLEAN]
  /\ \A c \in Child : phase[c] \in Busy => lock = c

\* A usable snapshot is what the parent checkout held at one moment, although its files are
\* read one by one while editors and integrations go on.  Only the rollback of another
\* integration can bring back what a file was, and with it "an ABA change between reads"
\* (docs/worktrees.md:114).
SnapshotConsistent ==
  \A c \in Fresh : pass[c] = 5 /\ c \notin rolled => base[c] \notin past[c]

\* An integration that did not succeed leaves none of its own bytes behind that it does not
\* report, whatever failed and whoever else wrote meanwhile.
FailedLeavesNothing ==
  \A c \in Child : phase[c] \in {"failed", "conflict", "refused"} =>
    \A p \in Path : file[p] = c => p \in recovery[c]

\* A call replaces only what it expects to find; anything else was written in the instant
\* between its last look and the replacement, the window docs/worktrees.md admits.
ForeignKept ==
  [][\A c \in Child, p \in Path :
       (applied'[c] # applied[c] /\ file'[p] # file[p] /\ ~raced[c])
         => file[p] \in {base[c][p], Desired(c, p)}]_vars

\* The removal of a worktree takes no commit that the parent's history never had, though
\* agents commit and the parent resets between inspection, ancestry check and removal;
\* unless the agent ran again meanwhile.
CommitsKept ==
  \A c \in Child : made[c] = "removed" => head[c] <= reached[c] \/ reran[c]
=============================================================================
