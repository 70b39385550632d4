----------------------- MODULE DelegationGroup_proofs -----------------------
(***************************************************************************)
(* Proofs about DelegationGroup, for any set of agents, any limits and any *)
(* number of incarnations.                                                 *)
(***************************************************************************)
EXTENDS DelegationGroup, FiniteSetTheorems, TLAPS

\* Every capability the broker accepts is a member's, for its current incarnation.
CapabilityCurrent ==
  \A c \in valid :
    /\ c = <<c[1], c[2]>>
    /\ c[1] \in members
    /\ c[2] = processId[c[1]]

\* A run that was taken over is its member's current incarnation.
DetachedCurrent ==
  \A a \in Agent : Detached(a) => a \in members /\ runs[a] = processId[a]

GroupInv ==
  /\ TypeOK
  /\ GroupLimit
  /\ AuthorityNarrows
  /\ CapabilityCurrent
  /\ DetachedCurrent

-----------------------------------------------------------------------------
(* Types. *)

\* The group begins well typed.
LEMMA TypeInit == Init => TypeOK
<1> SUFFICES ASSUME Init PROVE TypeOK
  OBVIOUS
<1>1. RootBinding \in Binding
  BY GroupAssumption DEF RootBinding, Binding
<1> QED
  BY <1>1, GroupAssumption DEF Init, TypeOK

\* Every control, exit and connection keeps the types.
LEMMA TypeStep == TypeOK /\ CapabilityCurrent /\ [Next]_vars => TypeOK'
<1> SUFFICES ASSUME TypeOK, CapabilityCurrent, [Next]_vars PROVE TypeOK'
  OBVIOUS
<1> USE DEF TypeOK, Incarnation, Run, runVars
<1>1. ASSUME NEW c \in valid, Hello(c) PROVE TypeOK'
  BY <1>1 DEF Hello
<1>2. ASSUME NEW c \in connected, Disconnect(c) PROVE TypeOK'
  BY <1>2 DEF Disconnect
<1>3. ASSUME NEW p \in Agent, NEW a \in Agent, NEW b \in Binding, Reserve(p, a, b)
      PROVE TypeOK'
  <2>1. 1 \in 0..MaxIncarnation
    BY GroupAssumption
  <2> QED
    BY <1>3, <2>1 DEF Reserve
<1>4. ASSUME NEW p \in Agent, NEW a \in Agent, Resume(p, a) PROVE TypeOK'
  <2>1. processId[a] + 1 \in 0..MaxIncarnation
    BY <1>4, GroupAssumption DEF Resume
  <2>2. \A c \in connected : c # Incarnation(a)
    BY <1>4 DEF Resume, Connected
  <2>3. connected' \subseteq valid'
    BY <1>4, <2>2 DEF Resume
  <2> QED
    BY <1>4, <2>1, <2>3 DEF Resume
<1>5. ASSUME NEW p \in Agent, NEW a \in Agent, NEW i \in 1..MaxIncarnation, Release(p, a, i)
      PROVE TypeOK'
  BY <1>5 DEF Release
<1>6. ASSUME NEW p \in Agent, NEW a \in Agent, RegisterRun(p, a) PROVE TypeOK'
  BY <1>6 DEF RegisterRun
<1>7. ASSUME NEW p \in Agent, NEW a \in Agent, BindRun(p, a) PROVE TypeOK'
  BY <1>7 DEF BindRun, OwnRun
<1>8. ASSUME NEW p \in Agent, NEW a \in Agent, TakeOver(p, a) PROVE TypeOK'
  BY <1>8 DEF TakeOver, OwnRun
<1>9. ASSUME NEW r \in alive, ProcessExit(r) PROVE TypeOK'
  BY <1>9 DEF ProcessExit
<1>10. CASE UNCHANGED vars
  BY <1>10 DEF vars
<1> QED
  BY <1>1, <1>2, <1>3, <1>4, <1>5, <1>6, <1>7, <1>8, <1>9, <1>10 DEF Next, Grants

-----------------------------------------------------------------------------
(* Capabilities and run records. *)

\* Every step keeps accepted capabilities those of current incarnations.
LEMMA CapabilityStep ==
  TypeOK /\ CapabilityCurrent /\ [Next]_vars => CapabilityCurrent'
<1> SUFFICES ASSUME TypeOK, CapabilityCurrent, [Next]_vars PROVE CapabilityCurrent'
  OBVIOUS
<1> USE DEF CapabilityCurrent, runVars
<1>1. ASSUME NEW p \in Agent, NEW a \in Agent, NEW b \in Binding, Reserve(p, a, b)
      PROVE CapabilityCurrent'
  <2> USE <1>1 DEF Reserve
  <2>1. \A x \in members : x # a /\ processId'[x] = processId[x]
    BY DEF TypeOK
  <2>2. processId'[a] = 1
    BY DEF TypeOK
  <2> QED
    BY <2>1, <2>2
<1>2. ASSUME NEW p \in Agent, NEW a \in Agent, Resume(p, a) PROVE CapabilityCurrent'
  <2> USE <1>2 DEF Resume, Incarnation
  <2>1. /\ processId'[a] = processId[a] + 1
        /\ \A x \in members : x # a => processId'[x] = processId[x]
    BY DEF TypeOK
  <2>2. ASSUME NEW c \in valid' PROVE c = <<c[1], c[2]>> /\ c[1] \in members' /\ c[2] = processId'[c[1]]
    <3>1. CASE c = <<a, processId[a] + 1>>
      BY <2>1, <3>1 DEF TypeOK
    <3>2. CASE c \in valid /\ c # <<a, processId[a]>>
      BY <2>1, <3>2
    <3> QED
      BY <2>2, <3>1, <3>2
  <2> QED
    BY <2>2
<1>3. ASSUME UNCHANGED <<members, processId, valid>> PROVE CapabilityCurrent'
  BY <1>3
<1> QED
  BY <1>1, <1>2, <1>3
     DEF Next, Grants, vars, Hello, Disconnect, Release, RegisterRun, BindRun, TakeOver, ProcessExit

\* Every step keeps a run that was taken over the current one of its member.
LEMMA DetachedStep == TypeOK /\ DetachedCurrent /\ [Next]_vars => DetachedCurrent'
<1> SUFFICES ASSUME TypeOK, DetachedCurrent, [Next]_vars PROVE DetachedCurrent'
  OBVIOUS
<1> USE DEF DetachedCurrent, Detached, runVars, TypeOK
<1>1. ASSUME NEW p \in Agent, NEW a \in Agent, NEW b \in Binding, Reserve(p, a, b)
      PROVE DetachedCurrent'
  BY <1>1 DEF Reserve
<1>2. ASSUME NEW p \in Agent, NEW a \in Agent, Resume(p, a) PROVE DetachedCurrent'
  BY <1>2 DEF Resume
<1>3. ASSUME NEW p \in Agent, NEW a \in Agent, RegisterRun(p, a) PROVE DetachedCurrent'
  BY <1>3 DEF RegisterRun
<1>4. ASSUME NEW p \in Agent, NEW a \in Agent, TakeOver(p, a) PROVE DetachedCurrent'
  BY <1>4 DEF TakeOver, OwnRun, Incarnation
<1>5. ASSUME UNCHANGED <<members, processId, runs, taken>> PROVE DetachedCurrent'
  BY <1>5
<1> QED
  BY <1>1, <1>2, <1>3, <1>4, <1>5
     DEF Next, Grants, vars, Hello, Disconnect, Release, BindRun, ProcessExit

-----------------------------------------------------------------------------
(* Slots and authority. *)

\* One more descendant fits wherever there was room.
LEMMA RoomForOne ==
  ASSUME TypeOK, NEW a \in Agent, NEW limit \in Nat, HasRoom(limit)
  PROVE  Cardinality(Descendants \cup {a}) <= RootConcurrent
<1>1. IsFiniteSet(Descendants)
  BY FS_Subset, GroupAssumption DEF TypeOK, Descendants
<1> DEFINE n == Cardinality(Descendants)
           k == Cardinality(Descendants \cup {a})
<1>2. n \in Nat
  BY <1>1, FS_CardinalityType
<1>3. k = n \/ k = n + 1
  <2> HIDE DEF Descendants
  <2> QED
    BY <1>1, FS_AddElement
<1>4. n < RootConcurrent
  <2>1. n < (IF limit < RootConcurrent THEN limit ELSE RootConcurrent)
    BY DEF HasRoom
  <2> HIDE DEF n
  <2> QED
    BY <1>2, <2>1, GroupAssumption
<1> HIDE DEF n, k
<1>5. k <= RootConcurrent
  BY <1>2, <1>3, <1>4, GroupAssumption
<1> QED
  BY <1>5 DEF k

\* Giving a slot up, or leaving all of them alone, keeps the limit.
LEMMA FewerDescendants ==
  ASSUME TypeOK, GroupLimit, active' \subseteq active
  PROVE  GroupLimit'
<1>1. IsFiniteSet(Descendants)
  BY FS_Subset, GroupAssumption DEF TypeOK, Descendants
<1>2. Descendants' \subseteq Descendants
  BY DEF Descendants
<1> DEFINE n == Cardinality(Descendants)
           k == Cardinality(Descendants')
<1>3. k <= n /\ n \in Nat /\ k \in Nat
  <2> HIDE DEF Descendants
  <2> QED
    BY <1>1, <1>2, FS_Subset, FS_CardinalityType
<1>4. n <= RootConcurrent
  BY DEF GroupLimit
<1> HIDE DEF n, k
<1>5. k <= RootConcurrent
  BY <1>3, <1>4, GroupAssumption
<1> QED
  BY <1>5 DEF k, GroupLimit

\* Every step keeps the limit of the tree.
LEMMA LimitStep == TypeOK /\ GroupLimit /\ [Next]_vars => GroupLimit'
<1> SUFFICES ASSUME TypeOK, GroupLimit, [Next]_vars PROVE GroupLimit'
  OBVIOUS
<1>1. ASSUME NEW p \in Agent, NEW a \in Agent, NEW b \in Binding, Reserve(p, a, b)
      PROVE GroupLimit'
  <2>1. b.maxConcurrent \in Nat /\ HasRoom(b.maxConcurrent)
    BY <1>1, GroupAssumption DEF Reserve, Binding
  <2>2. Descendants' = Descendants \cup {a}
    BY <1>1 DEF Reserve, Descendants, TypeOK
  <2> QED
    BY <2>1, <2>2, RoomForOne DEF GroupLimit
<1>2. ASSUME NEW p \in Agent, NEW a \in Agent, Resume(p, a) PROVE GroupLimit'
  <2>1. binding[a].maxConcurrent \in Nat /\ HasRoom(binding[a].maxConcurrent)
    BY <1>2, GroupAssumption DEF Resume, Binding, TypeOK
  <2>2. Descendants' = Descendants \cup {a}
    BY <1>2 DEF Resume, Descendants, TypeOK
  <2> QED
    BY <2>1, <2>2, RoomForOne DEF GroupLimit
<1>3. ASSUME active' \subseteq active PROVE GroupLimit'
  BY <1>3, FewerDescendants
<1> QED
  BY <1>1, <1>2, <1>3
     DEF Next, Grants, vars, Hello, Disconnect, Release, RegisterRun, BindRun, TakeOver, ProcessExit

\* Every step keeps authority narrower than that of the parent.
LEMMA NarrowStep == TypeOK /\ AuthorityNarrows /\ [Next]_vars => AuthorityNarrows'
<1> SUFFICES ASSUME TypeOK, AuthorityNarrows, [Next]_vars PROVE AuthorityNarrows'
  OBVIOUS
<1>1. ASSUME NEW p \in Agent, NEW a \in Agent, NEW b \in Binding, Reserve(p, a, b)
      PROVE AuthorityNarrows'
  <2> USE <1>1 DEF Reserve, MayDelegate
  <2>1. p \in members /\ p # a /\ ~binding[p].readOnly /\ b.parent = p
    BY DEF TypeOK, Narrows
  <2>2. binding'[a] = b /\ \A x \in members : x # a /\ binding'[x] = binding[x]
    BY DEF TypeOK
  <2>3. ASSUME NEW x \in members' \ {Root}
        PROVE /\ binding'[x].parent \in members'
              /\ ~binding'[binding'[x].parent].readOnly
              /\ Narrows(binding[x], binding[x].parent)'
    <3>1. CASE x = a
      BY <2>1, <2>2, <3>1 DEF Narrows
    <3>2. CASE x \in members
      BY <2>2, <3>2 DEF Narrows, AuthorityNarrows
    <3> QED
      BY <3>1, <3>2
  <2> QED
    BY <2>3 DEF AuthorityNarrows, Narrows
<1>2. ASSUME UNCHANGED <<members, binding>> PROVE AuthorityNarrows'
  BY <1>2 DEF AuthorityNarrows, Narrows
<1> QED
  BY <1>1, <1>2
     DEF Next, Grants, vars, Hello, Disconnect, Resume, Release, RegisterRun, BindRun, TakeOver, ProcessExit

-----------------------------------------------------------------------------
(* The invariant and what follows from it. *)

\* The root alone satisfies the invariant.
LEMMA GroupInit == Init => GroupInv
<1> SUFFICES ASSUME Init PROVE GroupInv
  OBVIOUS
<1>1. GroupLimit
  <2>1. Descendants = {}
    BY DEF Init, Descendants
  <2>2. Cardinality({}) = 0
    BY FS_EmptySet
  <2>3. 0 <= RootConcurrent
    BY GroupAssumption
  <2> QED
    BY <2>1, <2>2, <2>3 DEF GroupLimit
<1> QED
  BY <1>1, TypeInit, GroupAssumption
     DEF Init, GroupInv, AuthorityNarrows, CapabilityCurrent, DetachedCurrent, Detached

\* Every step keeps the invariant.
LEMMA GroupStep == GroupInv /\ [Next]_vars => GroupInv'
BY TypeStep, LimitStep, NarrowStep, CapabilityStep, DetachedStep DEF GroupInv

\* The inductive invariant: limits and authority hold, every accepted capability is
\* the current one, and a run that was taken over stays its member's last run.
THEOREM GroupInvariant == Spec => []GroupInv
BY GroupInit, GroupStep, PTL DEF Spec

\* The state of the group is well formed for every size of the group.
THEOREM GroupTypes == Spec => []TypeOK
<1>1. GroupInv => TypeOK
  BY DEF GroupInv
<1> QED
  BY <1>1, GroupInvariant, PTL

\* reserve() and resume() never let more descendants run than the root allows.
THEOREM GroupLimitHolds == Spec => []GroupLimit
<1>1. GroupInv => GroupLimit
  BY DEF GroupInv
<1> QED
  BY <1>1, GroupInvariant, PTL

\* Every delegation, at any depth, narrows the authority of the parent.
THEOREM AuthoritySound == Spec => []AuthorityNarrows
<1>1. GroupInv => AuthorityNarrows
  BY DEF GroupInv
<1> QED
  BY <1>1, GroupInvariant, PTL

\* An agent has one connection at most, and it is its current incarnation's.
THEOREM OneIncarnationSpeaks == Spec => []IncarnationExclusive
<1>1. GroupInv => IncarnationExclusive
  <2> SUFFICES ASSUME GroupInv PROVE IncarnationExclusive
    OBVIOUS
  <2>1. \A c \in connected : c = <<c[1], c[2]>> /\ c[2] = processId[c[1]]
    BY DEF GroupInv, CapabilityCurrent, TypeOK
  <2> QED
    BY <2>1 DEF IncarnationExclusive
<1> QED
  BY <1>1, GroupInvariant, PTL

\* A member whose run was taken over keeps its slot, its incarnation and its run
\* record in every step.
THEOREM TakeoverFreezes == Spec => DetachedHeld
<1> DEFINE Frozen ==
  \A a \in members : Detached(a) =>
    /\ processId'[a] = processId[a]
    /\ runs'[a] = runs[a]
    /\ a \in active => a \in active'
<1>1. ASSUME GroupInv, [Next]_vars PROVE Frozen
  <2> USE <1>1 DEF GroupInv, TypeOK, DetachedCurrent, runVars
  <2>1. ASSUME NEW p \in Agent, NEW a \in Agent, NEW b \in Binding, Reserve(p, a, b)
        PROVE Frozen
    BY <2>1 DEF Reserve
  <2>2. ASSUME NEW p \in Agent, NEW a \in Agent, Resume(p, a) PROVE Frozen
    BY <2>2 DEF Resume
  <2>3. ASSUME NEW p \in Agent, NEW a \in Agent, NEW i \in 1..MaxIncarnation, Release(p, a, i)
        PROVE Frozen
    BY <2>3 DEF Release
  <2>4. ASSUME NEW p \in Agent, NEW a \in Agent, RegisterRun(p, a) PROVE Frozen
    BY <2>4 DEF RegisterRun
  <2>5. ASSUME UNCHANGED <<processId, runs, active>> PROVE Frozen
    BY <2>5
  <2> QED
    BY <2>1, <2>2, <2>3, <2>4, <2>5
       DEF Next, Grants, vars, Hello, Disconnect, BindRun, TakeOver, ProcessExit
<1>2. GroupInv /\ [Next]_vars => [Frozen]_vars
  BY <1>1
<1>3. Spec => [][Frozen]_vars
  BY <1>2, GroupInvariant, PTL DEF Spec
<1> QED
  BY <1>3 DEF DetachedHeld
=============================================================================
