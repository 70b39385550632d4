--------------------------- MODULE DelegationGroup ---------------------------
(***************************************************************************)
(* The delegation group kept by the root broker: src/delegation-group.ts   *)
(* and the controls of src/messaging-broker.ts that reserve, resume,       *)
(* register, bind, take over and release a member.                         *)
(*                                                                         *)
(* Members keep their agent and session identity for the broker's lifetime *)
(* and get a new process identity (an incarnation, counted from 1 here)    *)
(* each time they are reserved or resumed.  Any connected member may send  *)
(* any control with any arguments, so stale and misdirected requests are   *)
(* part of every behaviour.  Controls that are refused change nothing.     *)
(***************************************************************************)
EXTENDS Naturals, FiniteSets

CONSTANTS
  Agent,          \* identifiers a member may get
  Root,           \* the root's identifier
  Tool,           \* tools a role may allow
  ReadTool,       \* "read", "grep", "find" and "ls"
  RootConcurrent, \* root.maxConcurrent
  RootDepth,      \* root.maxDepth
  MaxParticipants,\* limits.maxParticipants
  MaxIncarnation  \* model bound: incarnations per member

ASSUME GroupAssumption ==
  /\ IsFiniteSet(Agent)
  /\ Root \in Agent
  /\ ReadTool \subseteq Tool
  /\ RootConcurrent \in Nat \ {0}
  /\ RootDepth \in Nat \ {0}
  /\ MaxParticipants \in Nat
  /\ MaxIncarnation \in Nat \ {0}

VARIABLES
  members,    \* keys of group.members; the same agents are participants
  binding,    \* parent, depth, limits and role of each member
  active,     \* members whose binding says active
  processId,  \* current incarnation of each member
  valid,      \* capabilities the broker accepts, as <<agent, incarnation>>
  connected,  \* connections, as the <<agent, incarnation>> that authenticated
  runs,       \* incarnation in the broker's run record of each member, 0 if none
  bound,      \* runs with a process identifier
  alive,      \* bound runs whose operating system process still exists
  taken       \* runs whose ownership is manual or external

vars == <<members, binding, active, processId, valid, connected, runs, bound, alive, taken>>
runVars == <<runs, bound, alive, taken>>

Run == Agent \X (1..MaxIncarnation)
Incarnation(a) == <<a, processId[a]>>

Binding ==
  [parent : Agent, depth : 0..RootDepth, maxDepth : 1..RootDepth,
   maxConcurrent : 1..RootConcurrent, tools : SUBSET Tool, readOnly : BOOLEAN]

RootBinding ==
  [parent |-> Root, depth |-> 0, maxDepth |-> RootDepth,
   maxConcurrent |-> RootConcurrent, tools |-> Tool, readOnly |-> FALSE]

Init ==
  /\ members = {Root}
  /\ binding = [a \in Agent |-> RootBinding]
  /\ active = {Root}
  /\ processId = [a \in Agent |-> 0]
  /\ valid = {<<Root, 0>>}
  /\ connected = {}
  /\ runs = [a \in Agent |-> 0]
  /\ bound = {}
  /\ alive = {}
  /\ taken = {}

-----------------------------------------------------------------------------
Connected(a) == \E c \in connected : c[1] = a

\* The run record of a exists and was taken over: its parent lost authority.
Detached(a) == <<a, runs[a]>> \in taken

\* capacity(): room for one more running descendant under this limit.
Descendants == active \ {Root}
\* Variant: one too many.
HasRoomOver(limit) ==
  Cardinality(Descendants) <= IF limit < RootConcurrent THEN limit ELSE RootConcurrent
HasRoom(limit) ==
  Cardinality(Descendants) < IF limit < RootConcurrent THEN limit ELSE RootConcurrent

\* Variant: readers delegate too.
MayDelegateAny(p) == p \in active

\* A member that may delegate.
MayDelegate(p) == p \in active /\ ~binding[p].readOnly

\* The role and limits a parent may give away.
Narrows(b, p) ==
  /\ b.parent = p
  /\ b.depth = binding[p].depth + 1
  /\ b.depth <= b.maxDepth
  /\ b.maxDepth <= binding[p].maxDepth
  /\ b.maxConcurrent <= binding[p].maxConcurrent
  /\ b.tools \subseteq binding[p].tools
  /\ b.readOnly => b.tools \subseteq ReadTool

-----------------------------------------------------------------------------
(* Connections. *)

\* hello: any process that was handed a capability may present it at any time.
Hello(c) ==
  /\ c \in valid
  /\ ~Connected(c[1])
  /\ connected' = connected \cup {c}
  /\ UNCHANGED <<members, binding, active, processId, valid, runVars>>

Disconnect(c) ==
  /\ c \in connected
  /\ connected' = connected \ {c}
  /\ UNCHANGED <<members, binding, active, processId, valid, runVars>>

-----------------------------------------------------------------------------
(* Controls of a connected member p. *)

Reserve(p, a, b) ==
  /\ Connected(p)
  /\ Cardinality(members) < MaxParticipants
  /\ a \notin members
  /\ MayDelegate(p)
  /\ Narrows(b, p)
  /\ HasRoom(b.maxConcurrent)
  /\ members' = members \cup {a}
  /\ binding' = [binding EXCEPT ![a] = b]
  /\ active' = active \cup {a}
  /\ processId' = [processId EXCEPT ![a] = 1]
  /\ valid' = valid \cup {<<a, 1>>}
  /\ UNCHANGED <<connected, runVars>>

\* Variant: the capability of the earlier incarnation stays valid.
ResumeUnrevoked(p, a) ==
  /\ Connected(p) /\ ~Detached(a) /\ MayDelegate(p) /\ ~Connected(a)
  /\ a \in members \ (active \cup {Root})
  /\ binding[a].parent = p
  /\ HasRoom(binding[a].maxConcurrent)
  /\ processId[a] < MaxIncarnation
  /\ processId' = [processId EXCEPT ![a] = @ + 1]
  /\ active' = active \cup {a}
  /\ valid' = valid \cup {<<a, processId[a] + 1>>}
  /\ UNCHANGED <<members, binding, connected, runVars>>

\* The old capability is revoked with the old incarnation.
Resume(p, a) ==
  /\ Connected(p)
  /\ ~Detached(a)
  /\ MayDelegate(p)
  /\ a \in members \ {Root}
  /\ binding[a].parent = p
  /\ a \notin active
  /\ ~Connected(a)
  /\ HasRoom(binding[a].maxConcurrent)
  /\ processId[a] < MaxIncarnation
  /\ processId' = [processId EXCEPT ![a] = @ + 1]
  /\ active' = active \cup {a}
  /\ valid' = (valid \ {Incarnation(a)}) \cup {<<a, processId[a] + 1>>}
  /\ UNCHANGED <<members, binding, connected, runVars>>

\* Variant: a parent frees the slot of a run that was taken over.
ReleaseDetached(p, a, i) ==
  /\ Connected(p)
  /\ a \in members \ {Root}
  /\ binding[a].parent = p
  /\ processId[a] = i
  /\ active' = active \ {a}
  /\ UNCHANGED <<members, binding, processId, valid, connected, runVars>>

\* Names the incarnation it gives up.
Release(p, a, i) ==
  /\ Connected(p)
  /\ ~Detached(a)
  /\ a \in members \ {Root}
  /\ binding[a].parent = p
  /\ processId[a] = i
  /\ active' = active \ {a}
  /\ UNCHANGED <<members, binding, processId, valid, connected, runVars>>

\* register-process: each incarnation is registered at most once, while active.
RegisterRun(p, a) ==
  /\ Connected(p)
  /\ a \in active \ {Root}
  /\ binding[a].parent = p
  /\ runs[a] # processId[a]
  /\ runs' = [runs EXCEPT ![a] = processId[a]]
  /\ UNCHANGED <<members, binding, active, processId, valid, connected, bound, alive, taken>>

\* The run that bind-process and takeover-process act on.
OwnRun(p, a) ==
  /\ Connected(p)
  /\ a \in members \ {Root}
  /\ binding[a].parent = p
  /\ runs[a] # 0
  /\ runs[a] = processId[a]

BindRun(p, a) ==
  /\ OwnRun(p, a)
  /\ Incarnation(a) \notin bound
  /\ bound' = bound \cup {Incarnation(a)}
  /\ alive' = alive \cup {Incarnation(a)}
  /\ UNCHANGED <<members, binding, active, processId, valid, connected, runs, taken>>

\* takeover-process: only a managed run whose process still exists.
TakeOver(p, a) ==
  /\ OwnRun(p, a)
  /\ Incarnation(a) \in alive \ taken
  /\ taken' = taken \cup {Incarnation(a)}
  /\ UNCHANGED <<members, binding, active, processId, valid, connected, runs, bound, alive>>

\* The operating system process of a run ends by itself or by a signal.
ProcessExit(r) ==
  /\ r \in alive
  /\ alive' = alive \ {r}
  /\ UNCHANGED <<members, binding, active, processId, valid, connected, runs, bound, taken>>

\* What p may offer a new member: a child of its own.
Grants(p) == {b \in Binding : b.parent = p /\ b.depth = binding[p].depth + 1}

Next ==
  \/ \E c \in valid : Hello(c)
  \/ \E c \in connected : Disconnect(c)
  \/ \E p \in {q \in Agent : Connected(q)}, a \in Agent :
       \/ \E b \in Grants(p) : Reserve(p, a, b)
       \/ Resume(p, a)
       \/ \E i \in 1..MaxIncarnation : Release(p, a, i)
       \/ RegisterRun(p, a) \/ BindRun(p, a) \/ TakeOver(p, a)
  \/ \E r \in alive : ProcessExit(r)

Spec == Init /\ [][Next]_vars

-----------------------------------------------------------------------------
(* Properties. *)

TypeOK ==
  /\ members \subseteq Agent /\ Root \in members
  /\ binding \in [Agent -> Binding]
  /\ active \subseteq members
  /\ processId \in [Agent -> 0..MaxIncarnation]
  /\ valid \subseteq Agent \X Nat
  /\ connected \subseteq valid
  /\ runs \in [Agent -> 0..MaxIncarnation]
  /\ bound \subseteq Run
  /\ alive \subseteq bound
  /\ taken \subseteq bound

\* The whole tree never runs more descendants than the root allows, though every
\* member reserves, resumes and releases on its own ("Reserve is atomic across all
\* connected processes", docs/process-delegation.md).
GroupLimit == Cardinality(Descendants) <= RootConcurrent

\* Authority only narrows on the way down, at any depth: a member's tools and
\* limits are within its parent's and the root's, readers have no children.
AuthorityNarrows ==
  \A a \in members \ {Root} :
    LET p == binding[a].parent IN
    /\ p \in members
    /\ ~binding[p].readOnly
    /\ Narrows(binding[a], p)

\* The connection of an agent belongs to its current incarnation: a process that
\* was superseded cannot speak for its successor, nor come back after it.
IncarnationExclusive ==
  /\ \A c \in connected : c[2] = processId[c[1]]
  /\ \A c, d \in connected : c[1] = d[1] => c = d

\* Taking a run over freezes its member: the parent neither frees its slot nor
\* starts another incarnation, whatever happens to the process afterwards.
DetachedHeld ==
  [][\A a \in members : Detached(a) =>
       /\ processId'[a] = processId[a]
       /\ runs'[a] = runs[a]
       /\ a \in active => a \in active']_vars
=============================================================================
