------------------------ MODULE AgentManager_proofs ------------------------
(***************************************************************************)
(* Proofs about AgentManager: the slots of background agents and the queue *)
(* they wait in, for any number of agents, any limits and any interleaving *)
(* of spawns, ends, stops, resumes and removals; and who works in an       *)
(* agent's worktree, with what its record says meanwhile.                  *)
(***************************************************************************)
EXTENDS AgentManager, FiniteSetTheorems, SequenceTheorems, TLAPS

\* What the records, executions and help calls have in common.
RecordsSound ==
  \A a \in Agent :
    /\ exec[a] # "none" => a \in spawned
    /\ a \notin spawned => status[a] = "absent"
    /\ a \in sessions => exec[a] # "none"
    /\ reworking[a] > 0 => exec[a] # "none"
    /\ a \in helping => asking[a] > 0

ManagerInv ==
  /\ TypeOK
  /\ RecordsSound
  /\ QueueSound
  /\ SlotsExact
  /\ WorkConserving

-----------------------------------------------------------------------------
(* The queue as a set. *)

Prefix(k) == {queue[i] : i \in 1..k}

\* A prefix of a queue without duplicates has as many agents as entries.
LEMMA PrefixCount ==
  ASSUME queue \in Seq(Background),
         \A i, j \in DOMAIN queue : queue[i] = queue[j] => i = j,
         NEW k \in 0..Len(queue)
  PROVE  IsFiniteSet(Prefix(k)) /\ Cardinality(Prefix(k)) = k
<1> DEFINE f == [i \in 1..k |-> queue[i]]
<1>1. \A i \in 1..k : i \in DOMAIN queue
  OBVIOUS
<1>2. f \in Bijection(1..k, Prefix(k))
  BY <1>1 DEF Bijection, Injection, Surjection, IsInjective, Prefix
<1>3. IsFiniteSet(1..k) /\ Cardinality(1..k) = k
  BY FS_Interval
<1> QED
  BY <1>2, <1>3, FS_Bijection DEF ExistsBijection

\* While every entry is queued, the entries startAgent() is called for are the
\* first k: the queue is first in, first out.
LEMMA StartedIsPrefix ==
  ASSUME NEW st, NEW k \in 0..Len(queue), queue \in Seq(Background),
         \A i \in DOMAIN queue : st[queue[i]] = "queued"
  PROVE  /\ Startable(st, queue, k) = 1..k
         /\ {queue[i] : i \in Startable(st, queue, k)} = Prefix(k)
BY DEF Startable, Prefix

ExecState == {"none", "working", "closing", "settled"}

\* The occupants of executions ex.
Busy(ex) == {a \in Background : ex[a] \in {"working", "closing"}}

\* The first k entries were started.
Drained(st, ex, act, n, max, k) ==
  /\ status' = Set(st, Prefix(k), "running")
  /\ exec' = Set(ex, Prefix(k), "working")
  /\ active' = act \cup (Prefix(k) \cap Isolated)
  /\ queue' = SubSeq(queue, k + 1, Len(queue))
  /\ runningBackground' = n + k
  /\ Cardinality(Occupants') = n + k
  /\ k = Len(queue) \/ n + k >= max
  /\ k > 0 => n + k <= max

\* What drainQueue() does to a sound queue.
LEMMA DrainFacts ==
  ASSUME queue \in Seq(Background),
         \A i, j \in DOMAIN queue : queue[i] = queue[j] => i = j,
         NEW st, NEW ex \in [Agent -> ExecState],
         NEW act, NEW n \in Nat, NEW max \in Nat,
         \A i \in DOMAIN queue : st[queue[i]] = "queued" /\ ex[queue[i]] = "none",
         n = Cardinality(Busy(ex)),
         Drain(st, ex, act, n, max)
  PROVE  \E k \in 0..Len(queue) : Drained(st, ex, act, n, max, k)
<1> DEFINE started(k) == {queue[i] : i \in Startable(st, queue, k)}
<1>1. PICK k \in 0..Len(queue) :
        /\ Drains(st, queue, n, max, k)
        /\ status' = Set(st, started(k), "running")
        /\ exec' = Set(ex, started(k), "working")
        /\ active' = act \cup (started(k) \cap Isolated)
        /\ queue' = SubSeq(queue, k + 1, Len(queue))
        /\ runningBackground' = n + Cardinality(started(k))
  BY Zenon DEF Drain
<1>2. started(k) = Prefix(k)
  BY StartedIsPrefix
<1>3. IsFiniteSet(Prefix(k)) /\ Cardinality(Prefix(k)) = k
  BY PrefixCount
<1>4. /\ status' = Set(st, Prefix(k), "running")
      /\ exec' = Set(ex, Prefix(k), "working")
      /\ active' = act \cup (Prefix(k) \cap Isolated)
      /\ queue' = SubSeq(queue, k + 1, Len(queue))
      /\ runningBackground' = n + k
  <2> HIDE DEF started
  <2> QED
    BY <1>1, <1>2, <1>3, Zenon
<1>5. \A j \in 0..k : Cardinality(Startable(st, queue, j)) = j
  <2> SUFFICES ASSUME NEW j \in 0..k PROVE Cardinality(Startable(st, queue, j)) = j
    OBVIOUS
  <2>1. Startable(st, queue, j) = 1..j
    BY DEF Startable
  <2> QED
    BY <2>1, FS_Interval
<1>6. k = Len(queue) \/ n + k >= max
  <2>1. Cardinality(Startable(st, queue, k)) = k
    BY <1>5
  <2>2. k = Len(queue) \/ n + Cardinality(Startable(st, queue, k)) >= max
    BY <1>1, Zenon DEF Drains
  <2> QED
    BY <2>1, <2>2, Zenon
<1>7. k > 0 => n + k <= max
  <2> SUFFICES ASSUME k > 0 PROVE n + k <= max
    OBVIOUS
  <2>1. k - 1 \in 0..(k - 1) /\ k - 1 \in 0..k
    OBVIOUS
  <2>2. n + (k - 1) < max
    BY <1>1, <1>5, <2>1 DEF Drains
  <2> QED
    BY <2>2
<1>8. Occupants' = Busy(ex) \cup Prefix(k)
  <2>1. Prefix(k) \subseteq Background
    BY DEF Prefix
  <2> QED
    BY <1>4, <2>1, ManagerAssumption DEF Occupants, Executing, Set, Busy
<1>9. Busy(ex) \cap Prefix(k) = {}
  BY DEF Busy, Prefix
<1>10. IsFiniteSet(Busy(ex))
  BY FS_Subset, ManagerAssumption DEF Busy
<1>11. Cardinality(Occupants') = n + k
  <2>1. Cardinality(Busy(ex) \cup Prefix(k))
          = Cardinality(Busy(ex)) + Cardinality(Prefix(k)) - Cardinality(Busy(ex) \cap Prefix(k))
    <3> HIDE DEF Busy, Prefix
    <3> QED
      BY <1>3, <1>10, FS_Union, Zenon
  <2>2. Cardinality(Busy(ex) \cap Prefix(k)) = 0
    BY <1>9, FS_EmptySet, Zenon
  <2>3. Cardinality(Busy(ex) \cup Prefix(k)) = n + k - 0
    BY <1>3, <2>1, <2>2, Zenon
  <2> QED
    BY <1>8, <2>3
<1> QED
  BY <1>4, <1>6, <1>7, <1>11 DEF Drained

\* Queue and slots are as they should be.
SlotsSound ==
  /\ queue \in Seq(Background)
  /\ runningBackground \in Nat
  /\ QueueSound
  /\ SlotsExact
  /\ WorkConserving

\* From st, ex and act, a step changed queued agents only, and started them within max.
Refilled(st, ex, act, max) ==
  /\ status' \in [Agent -> Status]
  /\ exec' \in [Agent -> ExecState]
  /\ act \subseteq active' /\ active' \subseteq act \cup Isolated
  /\ \A a \in Agent : status'[a] # st[a] \/ exec'[a] # ex[a]
                    => exec'[a] = "working" /\ (a \in Isolated => a \in active')
  /\ \A a \in Agent : /\ status'[a] = st[a] \/ (status[a] = "queued" /\ status'[a] = "running")
                      /\ exec'[a] = ex[a] \/ (status[a] = "queued" /\ exec'[a] = "working")
  /\ Occupants' \ Busy(ex) # {} => Cardinality(Occupants') <= max

\* What is left of a sequence once its first k elements are shifted out.
LEMMA SuffixFacts ==
  ASSUME NEW S, NEW s \in Seq(S), NEW k \in 0..Len(s)
  PROVE  LET t == SubSeq(s, k + 1, Len(s)) IN
         /\ t \in Seq(S)
         /\ Len(t) = Len(s) - k
         /\ \A i \in 1..Len(t) : t[i] = s[k + i]
<1>1. Len(s) \in Nat
  OBVIOUS
<1>2. SubSeq(s, k + 1, Len(s)) \in Seq(S)
  BY <1>1
<1>3. Len(SubSeq(s, k + 1, Len(s))) = Len(s) - k
  BY <1>1
<1>4. \A i \in 1..(Len(s) - k) : SubSeq(s, k + 1, Len(s))[i] = s[k + i]
  BY <1>1
<1> QED
  BY <1>2, <1>3, <1>4, Zenon

\* A drain leaves a sound queue, an exact count of slots and no idle slot behind.
LEMMA AfterDrain ==
  ASSUME TypeOK, QueueSound,
         NEW st \in [Agent -> Status], NEW ex \in [Agent -> ExecState],
         NEW act, NEW n \in Nat, NEW max \in Nat,
         \A a \in Agent : st[a] = "queued" <=> status[a] = "queued",
         \A i \in DOMAIN queue : ex[queue[i]] = "none",
         n = Cardinality(Busy(ex)),
         Drain(st, ex, act, n, max),
         maxConcurrent' = max
  PROVE  SlotsSound' /\ Refilled(st, ex, act, max)
<1>1. queue \in Seq(Background)
  BY DEF TypeOK
<1>2. \A i \in DOMAIN queue : queue[i] \in Agent /\ status[queue[i]] = "queued"
  BY <1>1, ManagerAssumption DEF QueueSound
<1>3. \A i \in DOMAIN queue : st[queue[i]] = "queued" /\ ex[queue[i]] = "none"
  BY <1>2
<1>4. \A i, j \in DOMAIN queue : queue[i] = queue[j] => i = j
  BY DEF QueueSound
<1>0. PICK k \in 0..Len(queue) : Drained(st, ex, act, n, max, k)
  BY <1>1, <1>3, <1>4, DrainFacts, Zenon
<1>5. /\ status' = Set(st, Prefix(k), "running")
      /\ exec' = Set(ex, Prefix(k), "working")
      /\ active' = act \cup (Prefix(k) \cap Isolated)
      /\ queue' = SubSeq(queue, k + 1, Len(queue))
      /\ runningBackground' = n + k
      /\ Cardinality(Occupants') = n + k
      /\ k = Len(queue) \/ n + k >= max
      /\ k > 0 => n + k <= max
  BY <1>0 DEF Drained
<1>6. /\ queue' \in Seq(Background)
      /\ Len(queue') = Len(queue) - k
      /\ \A i \in 1..Len(queue') : queue'[i] = queue[k + i]
  BY <1>1, <1>5, SuffixFacts, Zenon
<1>7. \A i \in DOMAIN queue' : k + i \in DOMAIN queue /\ k + i > k
  BY <1>1, <1>6
<1>8. \A i \in DOMAIN queue' : queue'[i] \notin Prefix(k)
  <2> SUFFICES ASSUME NEW i \in DOMAIN queue', NEW j \in 1..k, queue'[i] = queue[j]
               PROVE  FALSE
    BY DEF Prefix
  <2>0. i \in 1..Len(queue') /\ j \in DOMAIN queue
    BY <1>1, <1>6
  <2>1. queue[k + i] = queue[j] /\ j \in DOMAIN queue /\ k + i \in DOMAIN queue
    BY <1>6, <1>7, <2>0, Zenon
  <2>2. k + i = j
    BY <1>4, <2>1
  <2> QED
    BY <1>7, <2>2
<1>9. QueueSound'
  <2>1. \A i \in DOMAIN queue' :
          /\ queue'[i] \in Agent /\ status'[queue'[i]] = "queued"
          /\ exec'[queue'[i]] = "none"
    BY <1>2, <1>3, <1>5, <1>6, <1>7, <1>8 DEF Set
  <2>2. \A a \in Agent : status'[a] = "queued" => \E i \in DOMAIN queue' : queue'[i] = a
    <3> SUFFICES ASSUME NEW a \in Agent, status'[a] = "queued"
                 PROVE  \E i \in DOMAIN queue' : queue'[i] = a
      OBVIOUS
    <3>1. st[a] = "queued" /\ a \notin Prefix(k)
      BY <1>5 DEF Set
    <3>2. PICK j \in DOMAIN queue : queue[j] = a
      BY <3>1 DEF QueueSound
    <3>3. j > k
      BY <1>1, <3>1, <3>2 DEF Prefix
    <3>4. j - k \in 1..Len(queue') /\ k + (j - k) = j
      BY <1>1, <1>6, <3>3
    <3>5. j - k \in DOMAIN queue' /\ queue'[j - k] = queue[j]
      BY <1>6, <3>4
    <3> QED
      BY <3>2, <3>5
  <2>3. \A i, j \in DOMAIN queue' : queue'[i] = queue'[j] => i = j
    <3> SUFFICES ASSUME NEW i \in DOMAIN queue', NEW j \in DOMAIN queue',
                        queue'[i] = queue'[j]
                 PROVE  i = j
      OBVIOUS
    <3>1. queue[k + i] = queue[k + j] /\ k + i \in DOMAIN queue /\ k + j \in DOMAIN queue
      BY <1>6, <1>7
    <3>2. k + i = k + j
      BY <1>4, <3>1
    <3> QED
      BY <1>6, <3>2
  <2> QED
    BY <2>1, <2>2, <2>3 DEF QueueSound
<1>10. SlotsExact' /\ runningBackground' \in Nat
  BY <1>5 DEF SlotsExact
<1>11. WorkConserving'
  BY <1>1, <1>5, <1>6 DEF WorkConserving
<1>12. status' \in [Agent -> Status] /\ exec' \in [Agent -> ExecState]
  BY <1>5 DEF Set, Status, ExecState
<1>13. \A a \in Prefix(k) : a \in Agent /\ status[a] = "queued"
  BY <1>1, <1>2 DEF Prefix
<1>14. \A a \in Agent : /\ status'[a] = st[a] \/ (status[a] = "queued" /\ status'[a] = "running")
                        /\ exec'[a] = ex[a] \/ (status[a] = "queued" /\ exec'[a] = "working")
  BY <1>5, <1>13 DEF Set
<1>15. Occupants' \ Busy(ex) # {} => Cardinality(Occupants') <= max
  <2> SUFFICES ASSUME NEW a \in Occupants', a \notin Busy(ex)
               PROVE  Cardinality(Occupants') <= max
    OBVIOUS
  <2>1. a \in Prefix(k)
    BY <1>5, ManagerAssumption DEF Occupants, Executing, Set, Busy
  <2>2. k > 0
    BY <2>1 DEF Prefix
  <2> QED
    BY <1>5, <2>2
<1>16. act \subseteq active' /\ active' \subseteq act \cup Isolated
  BY <1>5
<1>18. \A a \in Agent : status'[a] # st[a] \/ exec'[a] # ex[a]
                        => exec'[a] = "working" /\ (a \in Isolated => a \in active')
  BY <1>5 DEF Set
<1>17. SlotsSound'
  BY <1>6, <1>9, <1>10, <1>11 DEF SlotsSound
<1> QED
  BY <1>12, <1>14, <1>15, <1>16, <1>17, <1>18 DEF Refilled

-----------------------------------------------------------------------------
(* The steps. *)

\* A step that neither starts nor ends an execution and leaves the queue alone.
LEMMA Quiet ==
  ASSUME ManagerInv, UNCHANGED slotVars,
         \A a \in Agent : /\ status'[a] = "queued" <=> status[a] = "queued"
                          /\ \/ exec'[a] = exec[a]
                             \/ exec[a] = "working" /\ exec'[a] = "closing"
  PROVE  SlotsSound' /\ Occupants' = Occupants
<1>1. Occupants' = Occupants
  BY ManagerAssumption DEF Occupants, Executing
<1>2. queue \in Seq(Background) /\ runningBackground \in Nat
  BY DEF ManagerInv, TypeOK
<1>3. QueueSound'
  <2>1. \A i \in DOMAIN queue : queue[i] \in Agent /\ exec[queue[i]] = "none"
    BY <1>2, ManagerAssumption DEF ManagerInv, QueueSound
  <2>2. \A i \in DOMAIN queue : exec'[queue[i]] = "none"
    BY <2>1
  <2>3. {a \in Agent : status[a] = "queued"}' = {a \in Agent : status[a] = "queued"}
    OBVIOUS
  <2> QED
    BY <2>2, <2>3 DEF ManagerInv, QueueSound, slotVars
<1> QED
  BY <1>1, <1>2, <1>3 DEF ManagerInv, SlotsExact, WorkConserving, SlotsSound, slotVars

\* The end of an execution gives back exactly its own slot.
LEMMA ConcludeStep ==
  ASSUME ManagerInv, NEW a \in Agent, Executing(a),
         NEW st \in [Agent -> Status],
         \A b \in Agent : st[b] = "queued" <=> status[b] = "queued",
         Conclude(a, st), UNCHANGED maxConcurrent
  PROVE  SlotsSound' /\ Refilled(st, [exec EXCEPT ![a] = "settled"], active \ {a}, maxConcurrent)
<1> DEFINE ex == [exec EXCEPT ![a] = "settled"]
<1>1. /\ TypeOK /\ QueueSound /\ runningBackground \in Nat /\ maxConcurrent \in Nat
      /\ queue \in Seq(Background)
  BY ManagerAssumption DEF ManagerInv, TypeOK
<1>2. exec \in [Agent -> ExecState] /\ ex \in [Agent -> ExecState]
  BY DEF ManagerInv, TypeOK, ExecState
<1>3. \A i \in DOMAIN queue : ex[queue[i]] = "none"
  BY <1>1, ManagerAssumption DEF ManagerInv, QueueSound, Executing
<1>4. Busy(ex) = Occupants \ {a}
  BY <1>2, ManagerAssumption DEF Busy, Occupants, Executing
<1>5. CASE a \in Background
  <2>1. a \in Occupants
    BY <1>5 DEF Occupants
  <2>2. IsFiniteSet(Occupants)
    BY FS_Subset, ManagerAssumption DEF Occupants
  <2>3. Cardinality(Occupants \ {a}) = Cardinality(Occupants) - 1
    BY <2>1, <2>2, FS_RemoveElement, Zenon
  <2>4. runningBackground - 1 = Cardinality(Busy(ex))
    BY <1>4, <2>3, Zenon DEF ManagerInv, SlotsExact
  <2>5. runningBackground - 1 \in Nat
    <3>1. IsFiniteSet(Occupants \ {a})
      BY <2>2, FS_RemoveElement, Zenon
    <3> QED
      BY <1>4, <2>4, <3>1, FS_CardinalityType, Zenon
  <2>6. Drain(st, ex, active \ {a}, runningBackground - 1, maxConcurrent)
    BY <1>5 DEF Conclude
  <2>7. maxConcurrent' = maxConcurrent
    OBVIOUS
  <2> HIDE DEF ex
  <2> QED
    BY <1>1, <1>2, <1>3, <2>4, <2>5, <2>6, <2>7, AfterDrain, Zenon DEF ex
<1>6. CASE a \notin Background
  <2>1. /\ status' = st /\ exec' = ex /\ active' = active \ {a}
        /\ UNCHANGED <<queue, runningBackground>>
    BY <1>6 DEF Conclude
  <2>2. Busy(ex) = Occupants /\ Occupants' = Occupants
    BY <1>2, <1>4, <1>6, <2>1, ManagerAssumption DEF Occupants, Executing
  <2>3. QueueSound'
    BY <1>1, <1>3, <2>1, ManagerAssumption DEF QueueSound
  <2>4. SlotsSound'
    BY <1>1, <2>1, <2>2, <2>3 DEF ManagerInv, SlotsExact, WorkConserving, SlotsSound
  <2>5. active \subseteq Isolated
    BY DEF ManagerInv, TypeOK
  <2> QED
    BY <1>2, <2>1, <2>2, <2>4, <2>5 DEF Refilled
<1> QED
  BY <1>5, <1>6

\* What a step may do to the background executions.
Starts == Occupants' \ Occupants # {} => Cardinality(Occupants') <= maxConcurrent'

\* spawn() keeps slots, queue and executions consistent, whether it starts or queues.
LEMMA SpawnSlots ==
  ASSUME ManagerInv, NEW a \in Agent, Spawn(a)
  PROVE  SlotsSound' /\ Starts
<1>1. /\ queue \in Seq(Background) /\ runningBackground \in Nat /\ maxConcurrent \in Nat
      /\ status \in [Agent -> Status] /\ exec \in [Agent -> ExecState] /\ QueueSound
  BY ManagerAssumption DEF ManagerInv, TypeOK, ExecState
<1>2. exec[a] = "none" /\ status[a] = "absent" /\ UNCHANGED maxConcurrent
  BY DEF ManagerInv, RecordsSound, Spawn
<1>3. \A i \in DOMAIN queue : queue[i] \in Agent /\ queue[i] # a
  BY <1>1, <1>2, ManagerAssumption DEF QueueSound
<1>4. IsFiniteSet(Occupants)
  BY FS_Subset, ManagerAssumption DEF Occupants
<1>5. CASE a \in Background /\ runningBackground >= maxConcurrent
  <2>1. /\ status' = [status EXCEPT ![a] = "queued"] /\ queue' = Append(queue, a)
        /\ UNCHANGED <<runningBackground, exec, active>>
    BY <1>5 DEF Spawn
  <2>2. Occupants' = Occupants
    BY <2>1 DEF Occupants, Executing
  <2>3. QueueSound'
    <3>1. \A i \in DOMAIN queue' : \/ i \in DOMAIN queue /\ queue'[i] = queue[i]
                                   \/ i = Len(queue) + 1 /\ queue'[i] = a
      BY <1>1, <2>1
    <3>2. \A i \in DOMAIN queue : i \in DOMAIN queue' /\ queue'[i] = queue[i]
      BY <1>1, <2>1
    <3>3. Len(queue) + 1 \in DOMAIN queue' /\ queue'[Len(queue) + 1] = a
      BY <1>1, <2>1
    <3>4. {queue'[i] : i \in DOMAIN queue'} = {queue[i] : i \in DOMAIN queue} \cup {a}
      BY <3>1, <3>2, <3>3
    <3>5. {b \in Agent : status'[b] = "queued"} = {b \in Agent : status[b] = "queued"} \cup {a}
      BY <1>1, <2>1
    <3>6. \A i, j \in DOMAIN queue' : queue'[i] = queue'[j] => i = j
      BY <1>1, <1>3, <3>1 DEF QueueSound
    <3>7. \A i \in DOMAIN queue' : exec'[queue'[i]] = "none"
      BY <1>1, <1>2, <2>1, <3>1 DEF QueueSound
    <3> QED
      BY <1>1, <3>4, <3>5, <3>6, <3>7 DEF QueueSound
  <2>4. queue' \in Seq(Background)
    BY <1>1, <1>5, <2>1
  <2> QED
    BY <1>1, <1>2, <1>5, <2>1, <2>2, <2>3, <2>4
       DEF ManagerInv, SlotsExact, WorkConserving, SlotsSound, Starts
<1>6. CASE ~(a \in Background /\ runningBackground >= maxConcurrent)
  <2>1. /\ status' = [status EXCEPT ![a] = "running"] /\ exec' = [exec EXCEPT ![a] = "working"]
        /\ runningBackground' = runningBackground + (IF a \in Background THEN 1 ELSE 0)
        /\ queue' = queue
    BY <1>6, Zenon DEF Spawn
  <2>2. QueueSound'
    BY <1>1, <1>2, <1>3, <2>1 DEF QueueSound
  <2>3. Occupants' = IF a \in Background THEN Occupants \cup {a} ELSE Occupants
    BY <1>1, <2>1, ManagerAssumption DEF Occupants, Executing
  <2>4. a \notin Occupants
    BY <1>2 DEF Occupants, Executing
  <2>5. Cardinality(Occupants \cup {a}) = Cardinality(Occupants) + 1
    BY <1>4, <2>4, FS_AddElement, Zenon
  <2>6. Cardinality(Occupants') = runningBackground'
    BY <1>1, <2>1, <2>3, <2>5 DEF ManagerInv, SlotsExact
  <2>7. runningBackground' \in Nat /\ runningBackground' >= runningBackground
    BY <1>1, <2>1
  <2>8. WorkConserving'
    BY <1>1, <1>2, <2>1, <2>7 DEF ManagerInv, WorkConserving
  <2>9. Starts
    BY <1>1, <1>2, <1>6, <2>1, <2>3, <2>6 DEF Starts
  <2> QED
    BY <1>1, <2>1, <2>2, <2>6, <2>7, <2>8, <2>9 DEF SlotsExact, SlotsSound
<1> QED
  BY <1>5, <1>6

\* abort() of a queued, running or helped agent keeps them consistent.
LEMMA AbortSlots ==
  ASSUME ManagerInv, NEW a \in Agent, Abort(a)
  PROVE  SlotsSound' /\ Starts
<1>1. /\ queue \in Seq(Background) /\ runningBackground \in Nat /\ maxConcurrent \in Nat
      /\ status \in [Agent -> Status] /\ QueueSound
  BY ManagerAssumption DEF ManagerInv, TypeOK
<1>2. /\ status' = [status EXCEPT ![a] = "stopped"]
      /\ UNCHANGED <<runningBackground, maxConcurrent, exec>>
  BY DEF Abort
<1>3. Occupants' = Occupants
  BY <1>2 DEF Occupants, Executing
<1>4. CASE status[a] = "queued"
  <2>1. PICK n \in DOMAIN queue :
          /\ queue[n] = a
          /\ queue' = [j \in 1..(Len(queue) - 1) |-> IF j < n THEN queue[j] ELSE queue[j + 1]]
    BY <1>4 DEF Abort
  <2>2. /\ queue' \in Seq(Background) /\ Len(queue') = Len(queue) - 1
        /\ DOMAIN queue' = 1..(Len(queue) - 1)
    BY <1>1, <2>1
  <2> DEFINE old(j) == IF j < n THEN j ELSE j + 1
  <2>3. \A j \in DOMAIN queue' : old(j) \in DOMAIN queue \ {n} /\ queue'[j] = queue[old(j)]
    BY <1>1, <2>1, <2>2
  <2>4. \A j \in DOMAIN queue' : queue'[j] # a /\ queue'[j] \in Agent
    BY <1>1, <2>1, <2>3, ManagerAssumption DEF QueueSound
  <2>5. \A i, j \in DOMAIN queue' : queue'[i] = queue'[j] => i = j
    <3> SUFFICES ASSUME NEW i \in DOMAIN queue', NEW j \in DOMAIN queue', queue'[i] = queue'[j]
                 PROVE  i = j
      OBVIOUS
    <3>1. old(i) = old(j)
      BY <1>1, <2>3 DEF QueueSound
    <3> QED
      BY <1>1, <2>2, <3>1
  <2>6. \A j \in DOMAIN queue' : exec'[queue'[j]] = "none" /\ status'[queue'[j]] = "queued"
    BY <1>1, <1>2, <2>3, <2>4 DEF QueueSound
  <2>7. \A b \in Agent : status'[b] = "queued" => \E j \in DOMAIN queue' : queue'[j] = b
    <3> SUFFICES ASSUME NEW b \in Agent, status'[b] = "queued"
                 PROVE  \E j \in DOMAIN queue' : queue'[j] = b
      OBVIOUS
    <3>1. b # a /\ status[b] = "queued"
      BY <1>1, <1>2
    <3>2. PICK i \in DOMAIN queue : queue[i] = b
      BY <1>1, <3>1 DEF QueueSound
    <3>3. i # n
      BY <2>1, <3>1, <3>2
    <3>4. CASE i < n
      BY <1>1, <2>1, <2>2, <3>2, <3>4
    <3>5. CASE i > n
      <4>1. i - 1 \in DOMAIN queue' /\ ~(i - 1 < n) /\ (i - 1) + 1 = i
        BY <1>1, <2>1, <2>2, <3>5
      <4> QED
        BY <2>3, <3>2, <4>1
    <3> QED
      BY <1>1, <3>3, <3>4, <3>5
  <2>8. QueueSound'
    BY <2>4, <2>5, <2>6, <2>7 DEF QueueSound
  <2>9. queue' # <<>> => queue # <<>>
    BY <1>1, <2>2
  <2> QED
    BY <1>1, <1>2, <1>3, <2>2, <2>8, <2>9
       DEF ManagerInv, SlotsExact, WorkConserving, SlotsSound, Starts
<1>5. CASE status[a] # "queued"
  <2>1. UNCHANGED slotVars
    BY <1>2, <1>5 DEF Abort, slotVars
  <2>2. \A b \in Agent : status'[b] = "queued" <=> status[b] = "queued"
    BY <1>1, <1>2, <1>5
  <2> QED
    BY <1>2, <1>3, <2>1, <2>2, Quiet DEF Starts
<1> QED
  BY <1>4, <1>5

\* Every step of the manager keeps slots, queue and executions consistent.
LEMMA SlotsStep ==
  ASSUME ManagerInv, [Next]_vars
  PROVE  SlotsSound' /\ Starts
<1>1. /\ queue \in Seq(Background) /\ runningBackground \in Nat /\ maxConcurrent \in Nat
      /\ status \in [Agent -> Status] /\ exec \in [Agent -> ExecState]
      /\ TypeOK /\ QueueSound
  BY ManagerAssumption DEF ManagerInv, TypeOK, ExecState
<1>2. \A a \in Agent : exec[a] # "none" => status[a] # "queued"
  BY <1>1, ManagerAssumption DEF QueueSound
<1>3. runningBackground = Cardinality(Busy(exec)) /\ Busy(exec) = Occupants
  BY DEF ManagerInv, SlotsExact, Occupants, Busy, Executing
<1>4. ASSUME NEW a \in Agent,
             \/ WorktreeCreated(a) \/ SessionCreated(a) \/ SettleIsolated(a)
             \/ Resume(a) \/ ResumeSettle(a) \/ ResumeInspected(a)
             \/ RequestHelp(a) \/ Steer(a) \/ HelpCancelled(a)
      PROVE  SlotsSound' /\ Starts
  <2>1. UNCHANGED slotVars
    BY <1>4 DEF WorktreeCreated, SessionCreated, SettleIsolated, Resume, ResumeSettle,
                ResumeInspected, RequestHelp, Steer, HelpCancelled
  <2>2. \A b \in Agent : \/ exec'[b] = exec[b]
                         \/ exec[b] = "working" /\ exec'[b] = "closing"
    BY <1>1, <1>4 DEF WorktreeCreated, SessionCreated, SettleIsolated, Resume,
                      ResumeSettle, ResumeInspected, RequestHelp, Steer, HelpCancelled
  <2>3. \A b \in Agent : status'[b] = "queued" <=> status[b] = "queued"
    <3>1. CASE \/ WorktreeCreated(a) \/ SessionCreated(a) \/ ResumeInspected(a) \/ HelpCancelled(a)
      BY <3>1 DEF WorktreeCreated, SessionCreated, ResumeInspected, HelpCancelled
    <3>2. CASE SettleIsolated(a)
      BY <1>1, <1>2, <3>2 DEF SettleIsolated, Left
    <3>3. CASE Resume(a)
      BY <1>1, <1>2, <3>3 DEF Resume, MayResume, ManagerInv, RecordsSound
    <3>4. CASE ResumeSettle(a)
      BY <1>1, <1>2, <3>4 DEF ResumeSettle, Left, ManagerInv, RecordsSound
    <3>5. CASE RequestHelp(a) \/ Steer(a)
      BY <1>1, <1>2, <3>5 DEF RequestHelp, Steer, ManagerInv, RecordsSound
    <3> QED
      BY <1>4, <3>1, <3>2, <3>3, <3>4, <3>5
  <2>4. SlotsSound' /\ Occupants' = Occupants
    BY <2>1, <2>2, <2>3, Quiet
  <2> QED
    BY <2>4 DEF Starts
<1>5. ASSUME NEW a \in Agent, Settle(a) \/ Inspected(a)
      PROVE  SlotsSound' /\ Starts
  <2>1. PICK st \in [Agent -> Status] :
          /\ \A b \in Agent : st[b] = "queued" <=> status[b] = "queued"
          /\ Conclude(a, st)
    <3>1. CASE Settle(a)
      <4>1. PICK outcome \in {"completed", "error"} : Conclude(a, Left(a, outcome))
        BY <3>1 DEF Settle
      <4>2. exec[a] # "none"
        BY <3>1 DEF Settle
      <4>3. Left(a, outcome) \in [Agent -> Status]
        BY <1>1 DEF Left, Status
      <4>4. \A b \in Agent : Left(a, outcome)[b] = "queued" <=> status[b] = "queued"
        BY <1>1, <1>2, <4>2 DEF Left
      <4> QED
        BY <4>1, <4>3, <4>4
    <3>2. CASE Inspected(a)
      BY <1>1, <3>2 DEF Inspected
    <3> QED
      BY <1>5, <3>1, <3>2
  <2>2. Executing(a) /\ UNCHANGED maxConcurrent
    BY <1>5 DEF Settle, Inspected, Executing
  <2> DEFINE ex == [exec EXCEPT ![a] = "settled"]
  <2>3. SlotsSound' /\ Refilled(st, ex, active \ {a}, maxConcurrent)
    BY <2>1, <2>2, ConcludeStep, Zenon
  <2>4. Busy(ex) \subseteq Occupants
    BY <1>1, ManagerAssumption DEF Busy, Occupants, Executing
  <2> HIDE DEF ex
  <2> QED
    BY <2>2, <2>3, <2>4 DEF Starts, Refilled
<1>6. ASSUME NEW n \in 1..MaxLimit, SetMaxConcurrent(n)
      PROVE  SlotsSound' /\ Starts
  <2>1. maxConcurrent' = n /\ Drain(status, exec, active, runningBackground, n) /\ n \in Nat
    BY <1>6 DEF SetMaxConcurrent
  <2>2. \A i \in DOMAIN queue : exec[queue[i]] = "none"
    BY <1>1 DEF QueueSound
  <2>3. SlotsSound' /\ Refilled(status, exec, active, n)
    BY <1>1, <1>3, <2>1, <2>2, AfterDrain, Zenon
  <2> QED
    BY <1>3, <2>1, <2>3 DEF Starts, Refilled
<1>7. ASSUME NEW as \in SUBSET Removable, Remove(as)
      PROVE  SlotsSound' /\ Starts
  <2>1. UNCHANGED slotVars /\ exec' = exec
    BY <1>7 DEF Remove
  <2>2. \A b \in Agent : status'[b] = "queued" <=> status[b] = "queued"
    BY <1>1, <1>7 DEF Remove, Removable, Set, Open
  <2>3. SlotsSound' /\ Occupants' = Occupants
    BY <2>1, <2>2, Quiet
  <2> QED
    BY <2>3 DEF Starts
<1>8. ASSUME Shutdown
      PROVE  SlotsSound' /\ Starts
  <2>1. /\ queue' = <<>> /\ status' = [a \in Agent |-> "absent"]
        /\ UNCHANGED <<runningBackground, maxConcurrent, exec>>
    BY <1>8 DEF Shutdown
  <2>2. Occupants' = Occupants
    BY <2>1 DEF Occupants, Executing
  <2>3. QueueSound'
    BY <2>1 DEF QueueSound
  <2> QED
    BY <1>1, <2>1, <2>2, <2>3 DEF ManagerInv, SlotsExact, WorkConserving, SlotsSound, Starts
<1>9. ASSUME UNCHANGED vars
      PROVE  SlotsSound' /\ Starts
  <2>1. UNCHANGED slotVars /\ UNCHANGED <<status, exec>>
    BY <1>9 DEF vars, slotVars
  <2>2. SlotsSound' /\ Occupants' = Occupants
    BY <2>1, Quiet
  <2> QED
    BY <2>2 DEF Starts
<1> QED
  BY <1>4, <1>5, <1>6, <1>7, <1>8, <1>9, SpawnSlots, AbortSlots DEF Next

\* The rest of the record: its types, and what its help calls and sessions rest on.
LEMMA TypeStep ==
  ASSUME ManagerInv, [Next]_vars
  PROVE  TypeOK' /\ RecordsSound'
<1>1. SlotsSound' /\ queue' \in Seq(Background) /\ runningBackground' \in Nat
  BY SlotsStep DEF SlotsSound
<1>2. TypeOK /\ RecordsSound
  BY DEF ManagerInv
<1>3. ManagerAssumption
  BY ManagerAssumption
<1>4. ASSUME NEW a \in Agent, Spawn(a) \/ WorktreeCreated(a) \/ SessionCreated(a)
      PROVE  TypeOK' /\ RecordsSound'
  <2>1. CASE Spawn(a)
    BY <1>1, <1>2, <1>3, <2>1
       DEF Spawn, TypeOK, RecordsSound, ManagerAssumption, Status, resumeVars, heldVars, helpVars
  <2>2. CASE WorktreeCreated(a)
    BY <1>1, <1>2, <2>2
       DEF WorktreeCreated, TypeOK, RecordsSound, slotVars, resumeVars, helpVars
  <2>3. CASE SessionCreated(a)
    BY <1>1, <1>2, <2>3
       DEF SessionCreated, TypeOK, RecordsSound, slotVars, resumeVars, helpVars
  <2> QED
    BY <1>4, <2>1, <2>2, <2>3
<1>5. ASSUME NEW a \in Agent, Settle(a) \/ Inspected(a)
      PROVE  TypeOK' /\ RecordsSound'
  <2>1. PICK st \in [Agent -> Status] :
          /\ \A b \in Agent : /\ st[b] = "queued" <=> status[b] = "queued"
                              /\ b \notin spawned => st[b] = "absent"
          /\ Conclude(a, st)
    <3>1. CASE Settle(a)
      <4>1. PICK outcome \in {"completed", "error"} : Conclude(a, Left(a, outcome))
        BY <3>1 DEF Settle
      <4>2. exec[a] # "none" /\ a \in spawned
        BY <1>2, <3>1 DEF Settle, RecordsSound
      <4>3. status[a] # "queued"
        BY <1>3, <4>2 DEF ManagerInv, TypeOK, QueueSound, ManagerAssumption
      <4>4. Left(a, outcome) \in [Agent -> Status]
        BY <1>2 DEF Left, Status, TypeOK
      <4>5. \A b \in Agent : /\ Left(a, outcome)[b] = "queued" <=> status[b] = "queued"
                             /\ b \notin spawned => Left(a, outcome)[b] = "absent"
        BY <1>2, <4>2, <4>3 DEF Left, TypeOK, RecordsSound
      <4> QED
        BY <4>1, <4>4, <4>5
    <3>2. CASE Inspected(a)
      BY <1>2, <3>2 DEF Inspected, TypeOK, RecordsSound
    <3> QED
      BY <1>5, <3>1, <3>2
  <2>2. Executing(a) /\ UNCHANGED maxConcurrent
    BY <1>5 DEF Settle, Inspected, Executing
  <2> DEFINE ex == [exec EXCEPT ![a] = "settled"]
  <2>3. Refilled(st, ex, active \ {a}, maxConcurrent)
    BY <2>1, <2>2, ConcludeStep, Zenon
  <2>4. a \in spawned
    BY <1>2, <2>2 DEF RecordsSound, Executing
  <2>5. /\ UNCHANGED <<spawned, maxConcurrent, resumeVars, heldVars, helpVars, down>>
        /\ completedAt' \subseteq spawned
    BY <1>2, <1>5, <2>4 DEF Settle, Inspected, TypeOK
  <2>6. /\ status' \in [Agent -> Status] /\ exec' \in [Agent -> ExecState]
        /\ active' \subseteq Isolated
    BY <1>2, <2>3 DEF Refilled, TypeOK
  <2>7. TypeOK'
    BY <1>1, <1>2, <2>5, <2>6 DEF TypeOK, ExecState, resumeVars, heldVars, helpVars
  <2>8. \A b \in Agent : exec[b] # "none" => exec'[b] # "none"
    BY <1>2, <2>3 DEF Refilled, TypeOK
  <2>9. \A b \in Agent : exec'[b] # "none" => b \in spawned
    BY <1>2, <2>2, <2>3, <2>4 DEF Refilled, TypeOK, RecordsSound, Executing
  <2>10. \A b \in Agent : b \notin spawned => status'[b] = "absent"
    BY <1>2, <2>1, <2>3 DEF Refilled, RecordsSound
  <2>11. RecordsSound'
    BY <1>2, <2>5, <2>8, <2>9, <2>10 DEF RecordsSound, resumeVars, heldVars, helpVars
  <2> QED
    BY <2>7, <2>11
<1>6. ASSUME NEW a \in Agent, SettleIsolated(a) \/ ResumeInspected(a)
      PROVE  TypeOK' /\ RecordsSound'
  <2>1. CASE SettleIsolated(a)
    BY <1>1, <1>2, <2>1
       DEF SettleIsolated, TypeOK, RecordsSound, Left, Status, slotVars, resumeVars, heldVars, helpVars
  <2>2. CASE ResumeInspected(a)
    BY <1>1, <1>2, <2>2
       DEF ResumeInspected, TypeOK, RecordsSound, slotVars, heldVars, helpVars
  <2> QED
    BY <1>6, <2>1, <2>2
<1>7. ASSUME NEW a \in Agent, Resume(a) \/ ResumeSettle(a)
      PROVE  TypeOK' /\ RecordsSound'
  <2>1. CASE Resume(a)
    BY <1>1, <1>2, <1>3, <2>1
       DEF Resume, MayResume, TypeOK, RecordsSound, Status, slotVars, heldVars, helpVars,
           ManagerAssumption
  <2>2. CASE ResumeSettle(a)
    <3>1. a \in spawned /\ reworking[a] \in 1..MaxResumes
      BY <1>2, <1>3, <2>2 DEF ResumeSettle, TypeOK, RecordsSound, ManagerAssumption
    <3>2. /\ status' \in [Agent -> Status]
          /\ \A b \in Agent : b # a => status'[b] = status[b]
      BY <1>2, <2>2 DEF ResumeSettle, Left, TypeOK, Status
    <3>3. /\ completedAt' = completedAt \cup {a}
          /\ reworking' = [reworking EXCEPT ![a] = @ - 1]
          /\ reclosing' \subseteq reclosing \cup worktrees
          /\ UNCHANGED <<spawned, slotVars, exec, heldVars, active, helpVars, down>>
      BY <2>2 DEF ResumeSettle
    <3>4. reworking' \in [Agent -> 0..MaxResumes]
      BY <1>2, <1>3, <3>1, <3>3 DEF TypeOK, ManagerAssumption
    <3>5. TypeOK'
      BY <1>1, <1>2, <3>1, <3>2, <3>3, <3>4 DEF TypeOK, slotVars, heldVars, helpVars
    <3>6. \A b \in Agent : reworking'[b] > 0 => reworking[b] > 0
      BY <1>2, <1>3, <3>1, <3>3 DEF TypeOK, ManagerAssumption
    <3>7. RecordsSound'
      BY <1>2, <3>1, <3>2, <3>3, <3>6 DEF RecordsSound, heldVars, helpVars
    <3> QED
      BY <3>5, <3>7
  <2> QED
    BY <1>7, <2>1, <2>2
<1>8. ASSUME NEW a \in Agent, RequestHelp(a) \/ Steer(a) \/ HelpCancelled(a)
      PROVE  TypeOK' /\ RecordsSound'
  <2>1. CASE RequestHelp(a)
    BY <1>1, <1>2, <1>3, <2>1
       DEF RequestHelp, TypeOK, RecordsSound, Status, slotVars, resumeVars, heldVars,
           ManagerAssumption
  <2>2. CASE Steer(a)
    BY <1>1, <1>2, <1>3, <2>2
       DEF Steer, Resolve, TypeOK, RecordsSound, Status, slotVars, resumeVars, heldVars,
           ManagerAssumption
  <2>3. CASE HelpCancelled(a)
    BY <1>1, <1>2, <1>3, <2>3
       DEF HelpCancelled, Resolve, TypeOK, RecordsSound, slotVars, resumeVars, heldVars,
           ManagerAssumption
  <2> QED
    BY <1>8, <2>1, <2>2, <2>3
<1>9. ASSUME NEW a \in Agent, Abort(a)
      PROVE  TypeOK' /\ RecordsSound'
  <2>1. a \in spawned
    BY <1>2, <1>9 DEF Abort, Open, RecordsSound
  <2>2. UNCHANGED helpVars \/ Resolve({a})
    BY <1>9 DEF Abort
  <2>3. /\ asking' \in [Agent -> 0..MaxAsks] /\ helping' \subseteq Agent
        /\ \A b \in Agent : b \in helping' => asking'[b] > 0
    BY <1>2, <1>3, <2>2 DEF helpVars, Resolve, TypeOK, RecordsSound, ManagerAssumption
  <2>4. /\ status' = [status EXCEPT ![a] = "stopped"]
        /\ completedAt' = completedAt \cup {a}
        /\ UNCHANGED <<spawned, maxConcurrent, exec, reworking, reclosing, worktrees,
                       sessions, active, down>>
    BY <1>9, Zenon DEF Abort, resumeVars, heldVars
  <2>5. TypeOK'
    BY <1>1, <1>2, <2>1, <2>3, <2>4 DEF TypeOK, Status
  <2>6. RecordsSound'
    BY <1>2, <2>1, <2>3, <2>4 DEF TypeOK, RecordsSound
  <2> QED
    BY <2>5, <2>6
<1>10. ASSUME NEW n \in 1..MaxLimit, SetMaxConcurrent(n)
       PROVE  TypeOK' /\ RecordsSound'
  <2>1. PICK k \in 0..Len(queue) :
          LET started == {queue[i] : i \in Startable(status, queue, k)} IN
          /\ status' = Set(status, started, "running")
          /\ exec' = Set(exec, started, "working")
          /\ active' = active \cup (started \cap Isolated)
    BY <1>10, Zenon DEF SetMaxConcurrent, Drain
  <2>2. \A i \in Startable(status, queue, k) : status[queue[i]] = "queued"
    BY DEF Startable
  <2> DEFINE started == {queue[i] : i \in Startable(status, queue, k)}
  <2>3. \A a \in started : status[a] = "queued"
    BY <2>2
  <2> HIDE DEF started
  <2>4. /\ status' = Set(status, started, "running")
        /\ exec' = Set(exec, started, "working")
        /\ active' = active \cup (started \cap Isolated)
    BY <2>1, Zenon DEF started
  <2> QED
    BY <1>1, <1>2, <1>10, <2>3, <2>4
       DEF SetMaxConcurrent, TypeOK, RecordsSound, Set, Status, resumeVars, heldVars, helpVars
<1>11. ASSUME NEW as \in SUBSET Removable, Remove(as)
       PROVE  TypeOK' /\ RecordsSound'
  BY <1>1, <1>2, <1>11
     DEF Remove, TypeOK, RecordsSound, Set, Status, slotVars, resumeVars, helpVars
<1>12. ASSUME Shutdown
       PROVE  TypeOK' /\ RecordsSound'
  BY <1>1, <1>2, <1>3, <1>12
     DEF Shutdown, Resolve, Open, TypeOK, RecordsSound, Status, resumeVars, heldVars,
         ManagerAssumption
<1>13. ASSUME UNCHANGED vars
       PROVE  TypeOK' /\ RecordsSound'
  BY <1>2, <1>13 DEF vars, TypeOK, RecordsSound
<1> QED
  BY <1>4, <1>5, <1>6, <1>7, <1>8, <1>9, <1>10, <1>11, <1>12, <1>13 DEF Next

\* The manager begins without agents.
LEMMA ManagerInit == Init => ManagerInv
<1> SUFFICES ASSUME Init PROVE ManagerInv
  OBVIOUS
<1>0. queue \in Seq(Background)
  BY DEF Init
<1>1. TypeOK /\ RecordsSound
  <2>1. 0 \in 0..MaxResumes /\ 0 \in 0..MaxAsks
    BY ManagerAssumption
  <2>2. RecordsSound
    BY DEF Init, RecordsSound
  <2>3. TypeOK
    BY <1>0, <2>1 DEF Init, TypeOK, Status
  <2> QED
    BY <2>2, <2>3
<1>2. Occupants = {}
  BY ManagerAssumption DEF Init, Occupants, Executing
<1>3. SlotsExact
  BY <1>2, FS_EmptySet, Zenon DEF Init, SlotsExact
<1>4. QueueSound /\ WorkConserving
  BY DEF Init, QueueSound, WorkConserving
<1> QED
  BY <1>1, <1>3, <1>4 DEF ManagerInv

-----------------------------------------------------------------------------
(* The owners of worktrees, and what stands behind a status. *)

\* A worktree and a session belong to an agent that was started, a session in a worktree.
OwnersSound ==
  \A a \in Agent :
    /\ a \in worktrees => exec[a] # "none"
    /\ a \in sessions \cap Isolated => a \in worktrees

\* The worktree of an agent has one owner at most, and the record shows it.
Owned(a) ==
  /\ Occupations(a) <= 1
  /\ Occupations(a) = 1 => a \in active /\ (down \/ status[a] # "absent")
Free(a) == ~Executing(a) /\ reworking[a] = 0 /\ a \notin reclosing
Real(a) == status[a] \in {"running", "waiting"} => Working(a)

\* Occupations() counts: none, or one of the three kinds.
LEMMA OccupationFacts ==
  ASSUME TypeOK, NEW a \in Agent
  PROVE  /\ Occupations(a) \in Nat
         /\ Occupations(a) = 0 <=> Free(a)
         /\ Occupations(a) = 1 /\ Executing(a) => reworking[a] = 0 /\ a \notin reclosing
         /\ Occupations(a) = 1 /\ reworking[a] > 0 => reworking[a] = 1 /\ a \notin reclosing
         /\ Occupations(a) = 1 /\ a \in reclosing => reworking[a] = 0 /\ ~Executing(a)
<1>1. reworking[a] \in Nat
  BY ManagerAssumption DEF TypeOK
<1> QED
  BY <1>1 DEF Occupations, Free

\* An agent that no step touched keeps its owner.
LEMMA OwnerFrame ==
  ASSUME NEW a \in Agent, Owned(a),
         Executing(a)' <=> Executing(a), reworking'[a] = reworking[a],
         a \in reclosing' <=> a \in reclosing,
         a \in active => a \in active',
         down => down',
         status[a] # "absent" => status'[a] # "absent" \/ down' \/ Occupations(a) # 1
  PROVE  Owned(a)'
<1>1. Occupations(a)' = Occupations(a)
  BY DEF Occupations
<1> QED
  BY <1>1 DEF Owned

\* Somebody who works alone in a worktree owns it.
LEMMA OwnerNew ==
  ASSUME TypeOK, NEW a \in Agent, Free(a),
         a \in active', status'[a] # "absent", a \notin reclosing',
         \/ Executing(a)' /\ reworking'[a] = 0
         \/ ~Executing(a)' /\ reworking'[a] = 1
  PROVE  Owned(a)'
BY DEF Owned, Occupations, Free

\* Nobody owns a worktree that is free.
LEMMA OwnerNone ==
  ASSUME NEW a \in Agent, Free(a)'
  PROVE  Owned(a)'
BY DEF Owned, Occupations, Free

\* A drain starts agents that own nothing yet, in worktrees of their own.
LEMMA OwnerRefilled ==
  ASSUME ManagerInv, OwnersSound, NEW a \in Agent, NEW st \in [Agent -> Status],
         NEW ex \in [Agent -> ExecState], NEW act, NEW max, Refilled(st, ex, act, max),
         st[a] = status[a], ex[a] = exec[a], a \in active => a \in act,
         UNCHANGED <<resumeVars, down>>, a \in Isolated => Owned(a), Real(a)
  PROVE  (a \in Isolated => Owned(a)') /\ Real(a)'
<1>1. CASE status'[a] = status[a] /\ exec'[a] = exec[a]
  <2>1. a \in Isolated => Owned(a)'
    BY <1>1, OwnerFrame DEF Refilled, Executing, resumeVars
  <2> QED
    BY <1>1, <2>1 DEF Real, Working, resumeVars
<1>2. CASE status'[a] # st[a] \/ exec'[a] # ex[a]
  <2>1. exec'[a] = "working" /\ (a \in Isolated => a \in active')
    BY <1>2 DEF Refilled
  <2>2. status[a] = "queued"
    BY <1>2 DEF Refilled
  <2>3. exec[a] = "none"
    BY <2>2 DEF ManagerInv, QueueSound, TypeOK
  <2>4. Free(a)
    BY <2>3, ManagerAssumption
       DEF Free, Executing, OwnersSound, ManagerInv, RecordsSound, TypeOK
  <2>5. status'[a] # "absent"
    BY <2>2 DEF Refilled
  <2>6. Executing(a)' /\ reworking'[a] = 0 /\ a \notin reclosing'
    BY <2>1, <2>4 DEF Free, Executing, resumeVars
  <2>7. a \in Isolated => Owned(a)'
    BY <2>1, <2>4, <2>5, <2>6, OwnerNew DEF ManagerInv
  <2> QED
    BY <2>1, <2>7 DEF Real, Working
<1> QED
  BY <1>1, <1>2

\* What a step shows of every agent.
Kept(q) == (q \in Isolated => Owned(q)) /\ Real(q)

\* An agent that a step left alone, or stopped, keeps what it owns and shows.
LEMMA KeptFrame ==
  ASSUME TypeOK, NEW q \in Agent, Kept(q),
         exec'[q] = exec[q], reworking'[q] = reworking[q], q \in reclosing' <=> q \in reclosing,
         q \in active => q \in active', down => down',
         status'[q] \in {"running", "waiting"} => status[q] \in {"running", "waiting"},
         status'[q] = "absent" => status[q] = "absent" \/ down' \/ q \notin active
  PROVE  Kept(q)'
<1>1. Executing(q)' <=> Executing(q)
  BY DEF Executing
<1>2. q \in Isolated => Owned(q)'
  <2> SUFFICES ASSUME Owned(q) PROVE Owned(q)'
    BY DEF Kept
  <2>1. Occupations(q)' = Occupations(q)
    BY <1>1 DEF Occupations
  <2> QED
    BY <2>1 DEF Owned
<1> QED
  BY <1>2 DEF Kept, Real, Working

\* An execution is never forgotten.
LEMMA ExecKept ==
  ASSUME ManagerInv, [Next]_vars, NEW q \in Agent, exec[q] # "none"
  PROVE  exec'[q] # "none"
<1>1. exec \in [Agent -> ExecState]
  BY DEF ManagerInv, TypeOK, ExecState
<1>2. ASSUME NEW st, NEW ex, NEW act, NEW n, NEW max, Drain(st, ex, act, n, max), ex[q] # "none"
      PROVE  exec'[q] # "none"
  BY <1>2 DEF Drain, Set
<1>3. ASSUME NEW a \in Agent, Settle(a) \/ Inspected(a) PROVE exec'[q] # "none"
  <2>1. [exec EXCEPT ![a] = "settled"][q] # "none"
    BY <1>1
  <2>2. PICK st : Conclude(a, st)
    BY <1>3 DEF Settle, Inspected
  <2> QED
    BY <1>2, <2>1, <2>2 DEF Conclude
<1>4. ASSUME NEW n \in 1..MaxLimit, SetMaxConcurrent(n) PROVE exec'[q] # "none"
  BY <1>2, <1>4 DEF SetMaxConcurrent
<1>5. ASSUME NEW a \in Agent, Spawn(a) \/ SettleIsolated(a) PROVE exec'[q] # "none"
  BY <1>1, <1>5 DEF Spawn, SettleIsolated
<1>6. CASE UNCHANGED exec
  BY <1>6
<1>7. ASSUME Next, exec' # exec
      PROVE  \/ \E a \in Agent : Spawn(a) \/ Settle(a) \/ SettleIsolated(a) \/ Inspected(a)
             \/ \E n \in 1..MaxLimit : SetMaxConcurrent(n)
  BY <1>7 DEF Next, WorktreeCreated, SessionCreated, Resume, ResumeSettle,
     ResumeInspected, RequestHelp, Steer, HelpCancelled, Abort, Remove, Shutdown
<1> QED
  BY <1>3, <1>4, <1>5, <1>6, <1>7 DEF vars

\* Starts, ends, resumes, help, stops and removals leave every worktree with its one owner,
\* and every status with an execution behind it.
LEMMA OwnerStep ==
  ASSUME ManagerInv, OwnersSound, \A q \in Agent : Kept(q), [Next]_vars
  PROVE  \A q \in Agent : Kept(q)'
<1>1. /\ TypeOK /\ RecordsSound
      /\ status \in [Agent -> Status] /\ exec \in [Agent -> ExecState]
  BY DEF ManagerInv, TypeOK, ExecState
<1>2. \A q \in Agent : exec[q] = "none" => Free(q)
  BY <1>1, ManagerAssumption DEF Free, Executing, OwnersSound, RecordsSound, TypeOK
<1>3. \A q \in Agent : reworking[q] \in Nat
  BY <1>1, ManagerAssumption DEF TypeOK
<1>4. ASSUME NEW a \in Agent, Spawn(a) PROVE \A q \in Agent : Kept(q)'
  <2> SUFFICES ASSUME NEW q \in Agent PROVE Kept(q)'
    OBVIOUS
  <2>0. UNCHANGED <<reworking, reclosing, down>> /\ active \subseteq active'
    BY <1>4, Zenon DEF Spawn, resumeVars
  <2>1. CASE q # a
    <3>1. exec'[q] = exec[q] /\ status'[q] = status[q]
      BY <1>1, <1>4, <2>1 DEF Spawn
    <3> QED
      BY <1>1, <2>0, <3>1, KeptFrame
  <2>2. CASE q = a
    <3>1. exec[a] = "none" /\ Free(a)
      BY <1>1, <1>2, <1>4 DEF Spawn, RecordsSound
    <3>2. CASE exec' = exec /\ status' = [status EXCEPT ![a] = "queued"]
      <4>1. Free(a)' /\ status'[a] = "queued"
        BY <1>1, <2>0, <3>1, <3>2 DEF Free, Executing
      <4> QED
        BY <2>2, <4>1, OwnerNone DEF Kept, Real
    <3>3. CASE /\ exec' = [exec EXCEPT ![a] = "working"]
               /\ status' = [status EXCEPT ![a] = "running"]
               /\ active' = active \cup ({a} \cap Isolated)
      <4>1. exec'[a] = "working" /\ status'[a] = "running"
        BY <1>1, <3>3
      <4>2. Executing(a)' /\ reworking'[a] = 0 /\ a \notin reclosing'
        BY <2>0, <3>1, <4>1 DEF Free, Executing
      <4>3. a \in Isolated => Owned(a)'
        BY <1>1, <3>1, <3>3, <4>1, <4>2, OwnerNew
      <4> QED
        BY <2>2, <4>1, <4>3 DEF Kept, Real, Working
    <3> QED
      BY <1>4, <3>2, <3>3 DEF Spawn
  <2> QED
    BY <2>1, <2>2
<1>5. ASSUME NEW a \in Agent, WorktreeCreated(a) \/ SessionCreated(a) \/ HelpCancelled(a)
      PROVE  \A q \in Agent : Kept(q)'
  <2>1. UNCHANGED <<status, exec, reworking, reclosing, active, down>>
    BY <1>5 DEF WorktreeCreated, SessionCreated, HelpCancelled, resumeVars
  <2> QED
    BY <1>1, <2>1, KeptFrame
<1>6. ASSUME NEW a \in Agent, Settle(a) \/ Inspected(a) PROVE \A q \in Agent : Kept(q)'
  <2>1. PICK st \in [Agent -> Status] :
          /\ \A b \in Agent : st[b] = "queued" <=> status[b] = "queued"
          /\ \A b \in Agent \ {a} : st[b] = status[b]
          /\ st[a] \in {"running", "waiting"} => reworking[a] > 0
          /\ Conclude(a, st)
    <3>1. CASE Settle(a)
      <4>1. PICK outcome \in {"completed", "error"} : Conclude(a, Left(a, outcome))
        BY <3>1 DEF Settle
      <4>2. status[a] # "queued"
        BY <1>1, <3>1, ManagerAssumption DEF Settle, ManagerInv, QueueSound
      <4>3. /\ Left(a, outcome) \in [Agent -> Status]
            /\ \A b \in Agent : Left(a, outcome)[b] = "queued" <=> status[b] = "queued"
            /\ \A b \in Agent \ {a} : Left(a, outcome)[b] = status[b]
            /\ Left(a, outcome)[a] \notin {"running", "waiting"}
        BY <1>1, <4>2 DEF Left, Status
      <4> QED
        BY <4>1, <4>3
    <3>2. CASE Inspected(a)
      BY <1>1, <3>2 DEF Inspected, Kept, Real, Working
    <3> QED
      BY <1>6, <3>1, <3>2
  <2>2. Executing(a) /\ UNCHANGED <<maxConcurrent, resumeVars, down>>
    BY <1>6 DEF Settle, Inspected, Executing
  <2> DEFINE ex == [exec EXCEPT ![a] = "settled"]
  <2>3. Refilled(st, ex, active \ {a}, maxConcurrent)
    BY <2>1, <2>2, ConcludeStep, Zenon
  <2>4. ex \in [Agent -> ExecState]
    BY <1>1 DEF ExecState
  <2>5. \A q \in Agent \ {a} : Kept(q)'
    <3> SUFFICES ASSUME NEW q \in Agent, q # a PROVE Kept(q)'
      OBVIOUS
    <3>1. st[q] = status[q] /\ ex[q] = exec[q] /\ (q \in active => q \in active \ {a})
      BY <1>1, <2>1
    <3> HIDE DEF ex
    <3> QED
      BY <2>2, <2>3, <2>4, <3>1, OwnerRefilled DEF Kept
  <2>6. Kept(a)'
    <3>1. status[a] # "queued"
      BY <1>1, <2>2, ManagerAssumption DEF ManagerInv, QueueSound, Executing
    <3>2. exec'[a] = "settled" /\ status'[a] = st[a]
      BY <1>1, <2>3, <3>1 DEF Refilled
    <3>4. Real(a)'
      BY <2>1, <2>2, <3>2 DEF Real, Working, resumeVars
    <3>5. a \in Isolated => Owned(a)'
      <4> SUFFICES ASSUME Owned(a) PROVE Owned(a)'
        BY DEF Kept
      <4>1. reworking[a] = 0 /\ a \notin reclosing
        BY <1>1, <1>3, <2>2, OccupationFacts DEF Owned, Free
      <4> QED
        BY <2>2, <3>2, <4>1, OwnerNone DEF Free, Executing, resumeVars
    <3> QED
      BY <3>4, <3>5 DEF Kept
  <2> QED
    BY <2>5, <2>6
<1>7. ASSUME NEW a \in Agent, SettleIsolated(a) PROVE \A q \in Agent : Kept(q)'
  <2> SUFFICES ASSUME NEW q \in Agent PROVE Kept(q)'
    OBVIOUS
  <2>1. UNCHANGED <<reworking, reclosing, active, down>>
    BY <1>7 DEF SettleIsolated, resumeVars
  <2>2. CASE q # a
    <3>1. exec'[q] = exec[q] /\ status'[q] = status[q]
      BY <1>1, <1>7, <2>2 DEF SettleIsolated, Left
    <3> QED
      BY <1>1, <2>1, <3>1, KeptFrame
  <2>3. CASE q = a
    <3>1. /\ exec[a] = "working" /\ exec'[a] = "closing"
          /\ status'[a] \notin {"running", "waiting"}
          /\ status'[a] = "absent" => status[a] = "absent"
      BY <1>1, <1>7 DEF SettleIsolated, Left
    <3>2. a \in Isolated => Owned(a)'
      <4> SUFFICES ASSUME Owned(a) PROVE Owned(a)'
        BY <2>3 DEF Kept
      <4>1. Occupations(a)' = Occupations(a)
        BY <2>1, <3>1 DEF Occupations, Executing
      <4> QED
        BY <2>1, <3>1, <4>1 DEF Owned
    <3> QED
      BY <2>3, <3>1, <3>2 DEF Kept, Real
  <2> QED
    BY <2>2, <2>3
<1>8. ASSUME NEW a \in Agent, Resume(a) PROVE \A q \in Agent : Kept(q)'
  <2> SUFFICES ASSUME NEW q \in Agent PROVE Kept(q)'
    OBVIOUS
  <2>1. /\ status' = [status EXCEPT ![a] = "running"]
        /\ active' = active \cup ({a} \cap worktrees)
        /\ reworking' = [reworking EXCEPT ![a] = reworking[a] + 1]
        /\ UNCHANGED <<exec, reclosing, down>>
    BY <1>8 DEF Resume
  <2>2. CASE q # a
    <3>1. exec'[q] = exec[q] /\ status'[q] = status[q] /\ reworking'[q] = reworking[q]
      BY <1>1, <2>1, <2>2 DEF TypeOK
    <3> QED
      BY <1>1, <2>1, <3>1, KeptFrame
  <2>3. CASE q = a
    <3>1. status'[a] = "running" /\ reworking'[a] = reworking[a] + 1
      BY <1>1, <2>1 DEF TypeOK
    <3>2. Real(a)'
      BY <1>3, <3>1 DEF Real, Working
    <3>3. a \in Isolated => Owned(a)'
      <4> SUFFICES ASSUME a \in Isolated, Owned(a) PROVE Owned(a)'
        BY <2>3 DEF Kept
      <4>1. a \in active'
        BY <1>8, <2>1 DEF Resume, MayResume, OwnersSound
      <4>2. Free(a)
        <5>1. Occupations(a) # 1
          BY <1>8 DEF Resume, MayResume, Owned
        <5>2. Occupations(a) \in Nat /\ (Occupations(a) = 0 <=> Free(a))
          BY <1>1, OccupationFacts
        <5> QED
          BY <5>1, <5>2 DEF Owned
      <4>3. ~Executing(a)' /\ reworking'[a] = 1 /\ a \notin reclosing'
        BY <2>1, <3>1, <4>2 DEF Free, Executing
      <4> QED
        BY <1>1, <3>1, <4>1, <4>2, <4>3, OwnerNew
    <3> QED
      BY <2>3, <3>2, <3>3 DEF Kept
  <2> QED
    BY <2>2, <2>3
<1>9. ASSUME NEW a \in Agent, ResumeSettle(a) PROVE \A q \in Agent : Kept(q)'
  <2> SUFFICES ASSUME NEW q \in Agent PROVE Kept(q)'
    OBVIOUS
  <2>1. /\ reworking[a] > 0
        /\ reworking' = [reworking EXCEPT ![a] = reworking[a] - 1]
        /\ reclosing' = reclosing \cup ({a} \cap worktrees)
        /\ UNCHANGED <<exec, active, down>>
    BY <1>9 DEF ResumeSettle
  <2>2. /\ \A b \in Agent \ {a} : status'[b] = status[b]
        /\ status'[a] \notin {"running", "waiting"}
        /\ status'[a] = "absent" => status[a] = "absent"
    BY <1>1, <1>9 DEF ResumeSettle, Left
  <2>3. CASE q # a
    <3>1. reworking'[q] = reworking[q] /\ (q \in reclosing' <=> q \in reclosing)
      BY <1>1, <2>1, <2>3 DEF TypeOK
    <3> QED
      BY <1>1, <2>1, <2>2, <2>3, <3>1, KeptFrame
  <2>4. CASE q = a
    <3>1. a \in Isolated => Owned(a)'
      <4> SUFFICES ASSUME Owned(a) PROVE Owned(a)'
        BY <2>4 DEF Kept
      <4>1. Occupations(a) = 1
        BY <1>1, <1>3, <2>1, OccupationFacts DEF Owned, Free
      <4>2. reworking[a] = 1 /\ a \notin reclosing /\ ~Executing(a)
        BY <1>1, <2>1, <4>1, OccupationFacts
      <4>3. reworking'[a] = 0
        BY <1>1, <2>1, <4>2 DEF TypeOK
      <4>4. Occupations(a)' <= 1
        BY <2>1, <4>2, <4>3 DEF Occupations, Executing
      <4>5. a \in active' /\ (down' \/ status'[a] # "absent")
        BY <2>1, <2>2, <4>1 DEF Owned
      <4> QED
        BY <4>4, <4>5 DEF Owned
    <3> QED
      BY <2>2, <2>4, <3>1 DEF Kept, Real
  <2> QED
    BY <2>3, <2>4
<1>10. ASSUME NEW a \in Agent, ResumeInspected(a) PROVE \A q \in Agent : Kept(q)'
  <2> SUFFICES ASSUME NEW q \in Agent PROVE Kept(q)'
    OBVIOUS
  <2>1. /\ a \in reclosing /\ reclosing' = reclosing \ {a} /\ active' = active \ {a}
        /\ UNCHANGED <<status, exec, reworking, down>>
    BY <1>10 DEF ResumeInspected
  <2>2. CASE q # a
    BY <1>1, <2>1, <2>2, KeptFrame
  <2>3. CASE q = a
    <3>1. a \in Isolated => Owned(a)'
      <4> SUFFICES ASSUME Owned(a) PROVE Owned(a)'
        BY <2>3 DEF Kept
      <4>1. reworking[a] = 0 /\ ~Executing(a)
        BY <1>1, <2>1, OccupationFacts DEF Owned, Free
      <4> QED
        BY <2>1, <4>1, OwnerNone DEF Free, Executing
    <3> QED
      BY <2>1, <2>3, <3>1 DEF Kept, Real, Working
  <2> QED
    BY <2>2, <2>3
<1>11. ASSUME NEW a \in Agent, RequestHelp(a) \/ Steer(a) \/ Abort(a)
       PROVE  \A q \in Agent : Kept(q)'
  <2> SUFFICES ASSUME NEW q \in Agent PROVE Kept(q)'
    OBVIOUS
  <2>1. UNCHANGED <<exec, reworking, reclosing, active, down>>
    BY <1>11 DEF RequestHelp, Steer, Abort, resumeVars
  <2>2. \A b \in Agent \ {a} : status'[b] = status[b]
    BY <1>1, <1>11 DEF RequestHelp, Steer, Abort
  <2>3. status'[a] # "absent" /\ (status'[a] \in {"running", "waiting"} => Working(a))
    BY <1>1, <1>11 DEF RequestHelp, Steer, Abort, Kept, Real
  <2>4. CASE q # a
    BY <1>1, <2>1, <2>2, <2>4, KeptFrame
  <2>5. CASE q = a
    <3>1. a \in Isolated => Owned(a)'
      <4> SUFFICES ASSUME Owned(a) PROVE Owned(a)'
        BY <2>5 DEF Kept
      <4>1. Executing(a)' <=> Executing(a)
        BY <2>1 DEF Executing
      <4> QED
        BY <2>1, <2>3, <4>1, OwnerFrame
    <3> QED
      BY <2>1, <2>3, <2>5, <3>1 DEF Kept, Real, Working
  <2> QED
    BY <2>4, <2>5
<1>12. ASSUME NEW n \in 1..MaxLimit, SetMaxConcurrent(n) PROVE \A q \in Agent : Kept(q)'
  <2>1. /\ maxConcurrent' = n /\ Drain(status, exec, active, runningBackground, n) /\ n \in Nat
        /\ UNCHANGED <<resumeVars, down>>
    BY <1>12 DEF SetMaxConcurrent
  <2>2. \A i \in DOMAIN queue : exec[queue[i]] = "none"
    BY DEF ManagerInv, QueueSound
  <2>3. /\ runningBackground = Cardinality(Busy(exec)) /\ runningBackground \in Nat
        /\ QueueSound
    BY <1>1 DEF ManagerInv, SlotsExact, Occupants, Busy, Executing, TypeOK
  <2>4. Refilled(status, exec, active, n)
    BY <1>1, <2>1, <2>2, <2>3, AfterDrain, Zenon
  <2> QED
    BY <1>1, <2>1, <2>4, OwnerRefilled DEF Kept
<1>13. ASSUME NEW as \in SUBSET Removable, Remove(as) PROVE \A q \in Agent : Kept(q)'
  <2>1. UNCHANGED <<exec, reworking, reclosing, active, down>>
    BY <1>13 DEF Remove, resumeVars
  <2>2. \A q \in Agent : \/ status'[q] = status[q]
                         \/ status'[q] = "absent" /\ q \notin active
    BY <1>13 DEF Remove, Removable, Set
  <2> QED
    BY <1>1, <2>1, <2>2, KeptFrame
<1>14. ASSUME Shutdown PROVE \A q \in Agent : Kept(q)'
  <2>1. UNCHANGED <<exec, reworking, reclosing, active>> /\ down'
    BY <1>14 DEF Shutdown, resumeVars
  <2>2. \A q \in Agent : status'[q] = "absent"
    BY <1>14 DEF Shutdown
  <2> QED
    BY <1>1, <2>1, <2>2, KeptFrame
<1>15. ASSUME UNCHANGED vars PROVE \A q \in Agent : Kept(q)'
  <2>1. UNCHANGED <<status, exec, reworking, reclosing, active, down>>
    BY <1>15 DEF vars
  <2> QED
    BY <1>1, <2>1, KeptFrame
<1> QED
  BY <1>4, <1>5, <1>6, <1>7, <1>8, <1>9, <1>10, <1>11, <1>12, <1>13, <1>14, <1>15 DEF Next

\* What a worktree and a session belong to.
LEMMA OwnersSoundStep ==
  ASSUME ManagerInv, OwnersSound, [Next]_vars
  PROVE  OwnersSound'
<1>1. ASSUME NEW a \in Agent, WorktreeCreated(a) \/ SessionCreated(a) PROVE OwnersSound'
  BY <1>1 DEF WorktreeCreated, SessionCreated, OwnersSound, heldVars
<1>2. CASE UNCHANGED worktrees /\ sessions' \subseteq sessions
  <2>1. \A a \in Agent : exec[a] # "none" => exec'[a] # "none"
    BY ExecKept
  <2> QED
    BY <1>2, <2>1 DEF OwnersSound
<1>3. ASSUME Next, ~(UNCHANGED worktrees /\ sessions' \subseteq sessions)
      PROVE  \E a \in Agent : WorktreeCreated(a) \/ SessionCreated(a)
  BY <1>3 DEF Next, Spawn, Settle, SettleIsolated, Inspected, Resume, ResumeSettle,
     ResumeInspected, RequestHelp, Steer, HelpCancelled, Abort, SetMaxConcurrent, Remove,
     Shutdown, heldVars
<1> QED
  BY <1>1, <1>2, <1>3 DEF vars

-----------------------------------------------------------------------------
(* The theorems. *)

\* Types, records, queue, slots and work conservation together are inductive
\* (agent-manager.ts): each of the three queue properties needs the other two.
THEOREM ManagerInvariant == Spec => []ManagerInv
<1>1. Init => ManagerInv
  BY ManagerInit
<1>2. ManagerInv /\ [Next]_vars => ManagerInv'
  BY SlotsStep, TypeStep DEF ManagerInv, SlotsSound
<1> QED
  BY <1>1, <1>2, PTL DEF Spec

\* Records, queue and counters keep their types (the fields of AgentManager).
THEOREM ManagerTypes == Spec => []TypeOK
BY ManagerInvariant, PTL DEF ManagerInv

\* runningBackground counts the background executions that have not reported back:
\* no slot is lost or given back twice, however stops, resumes and ends interleave.
THEOREM SlotsCounted == Spec => []SlotsExact
BY ManagerInvariant, PTL DEF ManagerInv

\* The queue is exactly the agents reported as queued, each once and never started.
THEOREM QueueHonest == Spec => []QueueSound
BY ManagerInvariant, PTL DEF ManagerInv

\* drainQueue() is called wherever a slot or a limit could let an agent start.
THEOREM NoIdleSlot == Spec => []WorkConserving
BY ManagerInvariant, PTL DEF ManagerInv

\* spawn() and drainQueue() start a background agent within the limit in force only,
\* also when setMaxConcurrent() lowered it below what is running.
THEOREM LimitRespected == Spec => StartsWithinLimit
<1>1. ManagerInv /\ [Next]_vars
        => [Occupants' \ Occupants # {} => Cardinality(Occupants') <= maxConcurrent']_vars
  BY SlotsStep DEF Starts
<1> QED
  BY <1>1, ManagerInvariant, PTL DEF Spec, StartsWithinLimit

\* Owners and statuses need each other's past, and the invariant above.
LEMMA OwnerInvariant == Spec => [](WorktreeOwned /\ RunningIsReal)
<1> DEFINE Inv == OwnersSound /\ \A q \in Agent : Kept(q)
<1>1. Init => Inv
  <2> SUFFICES ASSUME Init PROVE Inv
    OBVIOUS
  <2>1. OwnersSound
    BY DEF Init, OwnersSound
  <2>2. \A q \in Agent : Free(q) /\ Real(q)
    BY DEF Init, Free, Executing, Real
  <2>3. \A q \in Agent : Owned(q)
    BY <2>2 DEF Owned, Occupations, Free
  <2> QED
    BY <2>1, <2>2, <2>3 DEF Kept
<1>2. ManagerInv /\ Inv /\ [Next]_vars => Inv'
  BY OwnerStep, OwnersSoundStep
<1>3. Inv => WorktreeOwned /\ RunningIsReal
  BY ManagerAssumption DEF Kept, Owned, Real, WorktreeOwned, RunningIsReal
<1> QED
  BY <1>1, <1>2, <1>3, ManagerInvariant, PTL DEF Spec

\* A worktree has one execution in it at most, first or resumed, and for as long as it lasts
\* its record says so and is neither resumed nor forgotten.
THEOREM WorktreeOwnedAlways == Spec => []WorktreeOwned
BY OwnerInvariant, PTL

\* A record that says "running" or "waiting" has an execution that will report back.
THEOREM RunningIsRealAlways == Spec => []RunningIsReal
BY OwnerInvariant, PTL
=============================================================================
