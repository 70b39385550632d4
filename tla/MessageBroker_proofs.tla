------------------------ MODULE MessageBroker_proofs ------------------------
(***************************************************************************)
(* Proofs about the routing core, for any set of agents and envelopes and  *)
(* any limits.  The inductive invariant BrokerInv is the conjunction of    *)
(* the type invariant and five named parts: a request is in the table of   *)
(* open requests together with its record, its two connections, its        *)
(* incarnation and its reserved slot, so none can be proved alone.         *)
(***************************************************************************)
EXTENDS MessageBroker, FiniteSetTheorems, TLAPS

BrokerInv ==
  /\ TypeOK
  /\ DedupeBudget
  /\ OpenRequestsConnected
  /\ OpenRequestsCurrent
  /\ RecordsUnique
  /\ SenderBudget

-----------------------------------------------------------------------------
(* What acceptance relies on. *)

\* Every table of envelopes is finite, so it has a cardinality, and a smaller
\* table has no greater one.
LEMMA Finite ==
  ASSUME NEW S, S \subseteq Message
  PROVE  /\ IsFiniteSet(S)
         /\ Cardinality(S) \in Nat
         /\ \A T \in SUBSET S : Cardinality(T) \in Nat /\ Cardinality(T) <= Cardinality(S)
<1>1. IsFiniteSet(S)
  BY FS_Subset, BrokerAssumption
<1>2. \A T \in SUBSET S : IsFiniteSet(T) /\ Cardinality(T) <= Cardinality(S)
  BY <1>1, FS_Subset
<1>3. \A T \in SUBSET S : Cardinality(T) \in Nat
  BY <1>2, FS_CardinalityType
<1> QED
  BY <1>1, <1>2, <1>3, FS_CardinalityType

\* Pruning never drops an open request.
LEMMA PrunedKeepsOpen ==
  ASSUME TypeOK, NEW m \in Message
  PROVE  /\ pending \subseteq Retained(m)
         /\ Retained(m) \subseteq deliveries
         /\ pending \subseteq Pruned
         /\ Pruned \subseteq deliveries
BY DEF TypeOK, Retained, Pruned

\* An envelope that is accepted found its recipient connected, its identifier
\* unused, its correlation open and room in the table.
LEMMA AcceptedConditions ==
  ASSUME NEW m \in Message, NEW ds, Refusal(m, ds) = "none", m \notin ds
  PROVE  /\ m.to \in online
         /\ ~ \E d \in ds : SameKey(m, d)
         /\ CorrelationHolds(m)
         /\ HasCapacity(m, ds)
BY DEF Refusal

\* Only replies and cancels end a request, and an accepted one ends at least one.
LEMMA ClosedByTerminal ==
  ASSUME NEW m \in Message, CorrelationHolds(m)
  PROVE  /\ m.kind \in {"request", "event"} => Closed(m) = {}
         /\ m.kind \in {"reply", "cancel"} => Closed(m) # {}
         /\ Closed(m) \subseteq pending
BY DEF CorrelationHolds, Closed, Correlated

-----------------------------------------------------------------------------
(* The type invariant. *)

\* The broker begins well typed.
LEMMA TypeInit == Init => TypeOK
<1> SUFFICES ASSUME Init PROVE TypeOK
  OBVIOUS
<1>1. processId \in [Agent -> Nat] /\ acceptedBy \in [Message -> Nat]
  BY DEF Init
<1>2. /\ online = {} /\ managed = Child /\ deliveries = {} /\ pending = {}
      /\ expired = {} /\ received = {} /\ closed = FALSE
  BY DEF Init
<1> QED
  BY <1>1, <1>2 DEF TypeOK

\* Every step of the broker keeps the types.
LEMMA TypeStep == TypeOK /\ [Next]_vars => TypeOK'
<1> SUFFICES ASSUME TypeOK, [Next]_vars PROVE TypeOK'
  OBVIOUS
<1> USE BrokerAssumption DEF TypeOK, processVars
<1>1. ASSUME NEW a \in Agent, Hello(a) PROVE TypeOK'
  BY <1>1 DEF Hello
<1>2. ASSUME NEW a \in Agent, Disconnect(a) PROVE TypeOK'
  BY <1>2 DEF Disconnect
<1>3. ASSUME NEW a \in Agent, Read(a) PROVE TypeOK'
  BY <1>3 DEF Read
<1>4. ASSUME NEW m \in Message, RouteRefuse(m) PROVE TypeOK'
  BY <1>4, PrunedKeepsOpen DEF RouteRefuse, Keep
<1>5. ASSUME NEW m \in Message, RouteReplay(m) PROVE TypeOK'
  BY <1>5, PrunedKeepsOpen DEF RouteReplay, Keep
<1>6. ASSUME NEW m \in Message, RouteAccept(m) PROVE TypeOK'
  BY <1>6, PrunedKeepsOpen DEF RouteAccept, Keep, OpenAfter
<1>7. ASSUME NEW m \in Message, RequestTimeout(m) PROVE TypeOK'
  BY <1>7 DEF RequestTimeout
<1>8. ASSUME NEW m \in Message, Expire(m) PROVE TypeOK'
  BY <1>8 DEF Expire
<1>9. ASSUME NEW a \in Agent, NEW m \in Message, Receipt(a, m) PROVE TypeOK'
  BY <1>9, PrunedKeepsOpen DEF Receipt
<1>10. ASSUME NEW a \in Child, NewIncarnation(a) PROVE TypeOK'
  BY <1>10 DEF NewIncarnation
<1>11. ASSUME NEW a \in Child, Takeover(a) PROVE TypeOK'
  BY <1>11 DEF Takeover
<1>12. CASE Shutdown
  BY <1>12 DEF Shutdown
<1>13. CASE UNCHANGED vars
  BY <1>13 DEF vars
<1> QED
  BY <1>1, <1>2, <1>3, <1>4, <1>5, <1>6, <1>7, <1>8, <1>9, <1>10, <1>11, <1>12, <1>13
  DEF Next, Route

\* The tables hold what they should whatever the clients send: open requests are
\* recorded requests, and receipts and expiries belong to records.
THEOREM BrokerTypes == Spec => []TypeOK
BY TypeInit, TypeStep, PTL DEF Spec

-----------------------------------------------------------------------------
(* Steps that leave the tables alone, or only shrink them. *)

\* A smaller table of records and of open requests keeps every promise, as long
\* as the requests that stay open keep their connections and incarnations.
LEMMA ShrinkStep ==
  ASSUME BrokerInv, TypeOK',
         deliveries' \subseteq deliveries, pending' \subseteq pending,
         \A r \in pending' : {r.from, r.to} \subseteq online',
         \A r \in pending' : r.from \in Child =>
                             acceptedBy'[r] = processId'[r.from]
  PROVE  BrokerInv'
<1> USE DEF BrokerInv
<1>1. deliveries \subseteq Message /\ pending \subseteq Message
  BY DEF TypeOK
<1>2. DedupeBudget'
  <2>1. /\ Cardinality(deliveries') \in Nat
        /\ Cardinality(deliveries') <= Cardinality(deliveries)
        /\ Cardinality(deliveries) \in Nat
    BY <1>1, Finite
  <2>2. /\ Cardinality(pending') \in Nat
        /\ Cardinality(pending') <= Cardinality(pending)
        /\ Cardinality(pending) \in Nat
    BY <1>1, Finite
  <2> QED
    BY <2>1, <2>2, BrokerAssumption DEF DedupeBudget
<1>3. SenderBudget'
  <2> SUFFICES ASSUME NEW a \in Agent
               PROVE  Cardinality({r \in pending' : r.from = a}) <= MaxPending
    BY DEF SenderBudget
  <2> DEFINE S == {r \in pending : r.from = a}
             T == {r \in pending' : r.from = a}
  <2>1. S \subseteq Message /\ T \in SUBSET S
    BY <1>1
  <2>2. Cardinality(T) \in Nat /\ Cardinality(S) \in Nat /\ Cardinality(T) <= Cardinality(S)
    BY <2>1, Finite
  <2>3. Cardinality(S) <= MaxPending
    BY DEF SenderBudget
  <2> QED
    BY <2>2, <2>3, BrokerAssumption
<1>4. RecordsUnique'
  BY DEF RecordsUnique, SameKey
<1> QED
  BY <1>2, <1>3, <1>4 DEF OpenRequestsConnected, OpenRequestsCurrent

-----------------------------------------------------------------------------
(* Acceptance is the one step that adds records and open requests. *)

\* The table after acceptance stays within its budget: a request brings two
\* slots that were free, an event one, and a terminal envelope takes the slot its
\* request had reserved.
LEMMA AcceptBudget ==
  ASSUME BrokerInv, NEW m \in Message, RouteAccept(m)
  PROVE  DedupeBudget'
<1> DEFINE ds == Retained(m)
<1> USE DEF BrokerInv
<1>1. /\ Refusal(m, ds) = "none" /\ m \notin ds
      /\ deliveries' = ds \cup {m} /\ pending' = OpenAfter(m)
  BY DEF RouteAccept
<1>2. CorrelationHolds(m) /\ HasCapacity(m, ds)
  BY <1>1, AcceptedConditions
<1>3. ds \subseteq Message /\ pending \subseteq Message /\ pending \subseteq ds
  BY PrunedKeepsOpen DEF TypeOK
<1>4. IsFiniteSet(ds) /\ Cardinality(ds) \in Nat
      /\ IsFiniteSet(pending) /\ Cardinality(pending) \in Nat
  BY <1>3, Finite
<1>5. Cardinality(deliveries') = Cardinality(ds) + 1
  BY <1>1, <1>4, FS_AddElement
<1>6. m.kind \in Kind
  BY BrokerAssumption
<1>7. CASE m.kind = "request"
  <2>1. pending' = pending \cup {m}
    BY <1>1, <1>2, <1>7, ClosedByTerminal DEF OpenAfter
  <2>2. Cardinality(pending') = Cardinality(pending) + 1
    BY <2>1, <1>1, <1>3, <1>4, FS_AddElement
  <2>3. Required(m) = 2
    BY <1>7 DEF Required
  <2> QED
    BY <1>2, <1>4, <1>5, <2>2, <2>3, BrokerAssumption DEF HasCapacity, DedupeBudget
<1>8. CASE m.kind = "event"
  <2>1. pending' = pending
    BY <1>1, <1>2, <1>8, ClosedByTerminal DEF OpenAfter
  <2>2. Required(m) = 1
    BY <1>8 DEF Required
  <2> QED
    BY <1>2, <1>4, <1>5, <2>1, <2>2, BrokerAssumption DEF HasCapacity, DedupeBudget
<1>9. CASE m.kind \in {"reply", "cancel"}
  <2>1. Closed(m) # {} /\ Closed(m) \subseteq pending
    BY <1>2, <1>9, ClosedByTerminal
  <2>2. PICK r \in Closed(m) : r \in pending
    BY <2>1
  <2>3. pending' \subseteq pending \ {r}
    BY <1>1, <1>9, <2>2 DEF OpenAfter
  <2>4. Cardinality(pending \ {r}) = Cardinality(pending) - 1
    BY <1>4, <2>2, FS_RemoveElement
  <2>5. Cardinality(pending') \in Nat /\ Cardinality(pending') <= Cardinality(pending) - 1
    BY <2>3, <2>4, <1>3, Finite, pending \ {r} \subseteq Message
  <2>6. Required(m) = 0
    BY <1>9 DEF Required
  <2> QED
    BY <1>2, <1>4, <1>5, <2>5, <2>6, BrokerAssumption DEF HasCapacity, DedupeBudget
<1> QED
  BY <1>6, <1>7, <1>8, <1>9 DEF Kind

\* A sender at its limit opens no further request.
LEMMA AcceptSenderBudget ==
  ASSUME BrokerInv, NEW m \in Message, RouteAccept(m)
  PROVE  SenderBudget'
<1> DEFINE ds == Retained(m)
<1> USE DEF BrokerInv
<1>1. /\ Refusal(m, ds) = "none" /\ m \notin ds /\ pending' = OpenAfter(m)
  BY DEF RouteAccept
<1>2. CorrelationHolds(m) /\ HasCapacity(m, ds)
  BY <1>1, AcceptedConditions
<1>3. pending \subseteq Message
  BY DEF TypeOK
<1> SUFFICES ASSUME NEW a \in Agent
             PROVE  Cardinality({r \in pending' : r.from = a}) <= MaxPending
  BY DEF SenderBudget
<1> DEFINE S == {r \in pending : r.from = a}
           T == {r \in pending' : r.from = a}
<1>4. IsFiniteSet(S) /\ Cardinality(S) \in Nat
      /\ \A U \in SUBSET S : Cardinality(U) \in Nat /\ Cardinality(U) <= Cardinality(S)
  <2>1. S \subseteq Message
    BY <1>3
  <2> HIDE DEF S
  <2> QED
    BY <2>1, Finite
<1>5. Cardinality(S) <= MaxPending
  BY DEF SenderBudget
<1>6. CASE m.kind = "request" /\ m.from = a
  <2>1. T \subseteq S \cup {m}
    BY <1>1, <1>6 DEF OpenAfter
  <2>2. Cardinality(S) < MaxPending
    BY <1>2, <1>6 DEF HasCapacity
  <2>3. Cardinality(S \cup {m}) <= Cardinality(S) + 1 /\ IsFiniteSet(S \cup {m})
        /\ Cardinality(S \cup {m}) \in Nat
    <3> HIDE DEF S
    <3>1. IsFiniteSet(S) /\ Cardinality(S) \in Nat
      BY <1>4
    <3>2. /\ IsFiniteSet(S \cup {m})
          /\ Cardinality(S \cup {m}) = IF m \in S THEN Cardinality(S) ELSE Cardinality(S) + 1
      BY <3>1, FS_AddElement
    <3> QED
      BY <3>1, <3>2
  <2>4. Cardinality(T) \in Nat /\ Cardinality(T) <= Cardinality(S \cup {m})
    <3> HIDE DEF S, T
    <3> QED
      BY <2>1, <2>3, FS_Subset, FS_CardinalityType
  <2> HIDE DEF S, T
  <2>5. Cardinality(T) <= MaxPending
    BY <1>4, <2>2, <2>3, <2>4, BrokerAssumption
  <2> QED
    BY <2>5 DEF T
<1>7. CASE ~(m.kind = "request" /\ m.from = a)
  <2>1. T \subseteq S
    BY <1>1, <1>7 DEF OpenAfter
  <2> HIDE DEF S, T
  <2>2. Cardinality(T) <= MaxPending
    BY <1>4, <1>5, <2>1, BrokerAssumption
  <2> QED
    BY <2>2 DEF T
<1> QED
  BY <1>6, <1>7

\* An envelope that is accepted keeps budget, keys and open requests sound.
LEMMA AcceptStep ==
  ASSUME BrokerInv, NEW m \in Message, RouteAccept(m), TypeOK'
  PROVE  BrokerInv'
<1> DEFINE ds == Retained(m)
<1> USE DEF BrokerInv
<1>1. /\ Refusal(m, ds) = "none" /\ m \notin ds /\ Reads(m.from)
      /\ deliveries' = ds \cup {m} /\ pending' = OpenAfter(m)
      /\ acceptedBy' = [acceptedBy EXCEPT ![m] = processId[m.from]]
      /\ online' = online /\ processId' = processId
  BY DEF RouteAccept, processVars
<1>2. m.to \in online /\ m.from \in online /\ ~ \E d \in ds : SameKey(m, d)
  BY <1>1, AcceptedConditions DEF Reads
<1>3. pending \subseteq ds /\ ds \subseteq deliveries
  BY PrunedKeepsOpen
<1>4. \A r \in pending' : r = m \/ (r \in pending /\ r # m)
  BY <1>1, <1>3 DEF OpenAfter
<1>5. OpenRequestsConnected'
  BY <1>1, <1>2, <1>4 DEF OpenRequestsConnected
<1>6. OpenRequestsCurrent'
  BY <1>1, <1>4 DEF OpenRequestsCurrent, TypeOK
<1>7. RecordsUnique'
  BY <1>1, <1>2, <1>3 DEF RecordsUnique, SameKey
<1> QED
  BY <1>5, <1>6, <1>7, AcceptBudget, AcceptSenderBudget

\* Every step of the broker keeps the invariant.
LEMMA BrokerStep == BrokerInv /\ [Next]_vars => BrokerInv'
<1> SUFFICES ASSUME BrokerInv, [Next]_vars PROVE BrokerInv'
  OBVIOUS
<1>0. TypeOK'
  BY TypeStep DEF BrokerInv
<1>a. /\ TypeOK /\ OpenRequestsConnected /\ OpenRequestsCurrent
      /\ \A r \in pending : r \in Message /\ r.from \in Agent /\ r.to \in Agent
  BY BrokerAssumption DEF BrokerInv, TypeOK
<1> USE DEF OpenRequestsConnected, OpenRequestsCurrent, processVars
<1>1. ASSUME NEW a \in Agent, Hello(a) PROVE BrokerInv'
  BY <1>0, <1>1, <1>a, ShrinkStep DEF Hello
<1>2. ASSUME NEW a \in Agent, Disconnect(a) PROVE BrokerInv'
  BY <1>0, <1>2, <1>a, ShrinkStep DEF Disconnect, Abandoned
<1>3. ASSUME NEW a \in Agent, Read(a) PROVE BrokerInv'
  BY <1>0, <1>3, <1>a, ShrinkStep DEF Read
<1>4. ASSUME NEW m \in Message, RouteRefuse(m) PROVE BrokerInv'
  BY <1>0, <1>4, <1>a, ShrinkStep, PrunedKeepsOpen DEF RouteRefuse
<1>5. ASSUME NEW m \in Message, RouteReplay(m) PROVE BrokerInv'
  BY <1>0, <1>5, <1>a, ShrinkStep, PrunedKeepsOpen DEF RouteReplay
<1>6. ASSUME NEW m \in Message, RouteAccept(m) PROVE BrokerInv'
  BY <1>0, <1>6, AcceptStep
<1>7. ASSUME NEW m \in Message, RequestTimeout(m) PROVE BrokerInv'
  BY <1>0, <1>7, <1>a, ShrinkStep DEF RequestTimeout
<1>8. ASSUME NEW m \in Message, Expire(m) PROVE BrokerInv'
  BY <1>0, <1>8, <1>a, ShrinkStep DEF Expire
<1>9. ASSUME NEW a \in Agent, NEW m \in Message, Receipt(a, m) PROVE BrokerInv'
  BY <1>0, <1>9, <1>a, ShrinkStep, PrunedKeepsOpen DEF Receipt
<1>10. ASSUME NEW a \in Child, NewIncarnation(a) PROVE BrokerInv'
  BY <1>0, <1>10, <1>a, ShrinkStep, BrokerAssumption DEF NewIncarnation, TypeOK
<1>11. ASSUME NEW a \in Child, Takeover(a) PROVE BrokerInv'
  BY <1>0, <1>11, <1>a, ShrinkStep DEF Takeover
<1>12. CASE Shutdown
  BY <1>0, <1>12, <1>a, ShrinkStep DEF Shutdown
<1>13. CASE UNCHANGED vars
  BY <1>0, <1>13, <1>a, ShrinkStep DEF vars
<1> QED
  BY <1>1, <1>2, <1>3, <1>4, <1>5, <1>6, <1>7, <1>8, <1>9, <1>10, <1>11, <1>12, <1>13
  DEF Next, Route

\* The empty table satisfies the invariant.
LEMMA BrokerInit == Init => BrokerInv
<1> SUFFICES ASSUME Init PROVE BrokerInv
  OBVIOUS
<1>1. deliveries = {} /\ pending = {}
  BY DEF Init
<1>2. Cardinality({}) = 0
  BY FS_EmptySet
<1>3. DedupeBudget
  BY <1>1, <1>2, BrokerAssumption DEF DedupeBudget
<1>4. SenderBudget
  <2> SUFFICES ASSUME NEW a \in Agent
               PROVE  Cardinality({r \in pending : r.from = a}) <= MaxPending
    BY DEF SenderBudget
  <2>1. {r \in pending : r.from = a} = {}
    BY <1>1
  <2>2. Cardinality({r \in pending : r.from = a}) = 0
    BY <1>2, <2>1
  <2> QED
    BY <2>2, BrokerAssumption
<1> QED
  BY <1>1, <1>3, <1>4, TypeInit
  DEF BrokerInv, OpenRequestsConnected, OpenRequestsCurrent, RecordsUnique

-----------------------------------------------------------------------------
(* The results. *)

\* The inductive invariant of the tables: it ties every open request to its record,
\* its reserved slot and the connections of both of its agents.
THEOREM BrokerInvariant == Spec => []BrokerInv
BY BrokerInit, BrokerStep, PTL DEF Spec

\* Records and reserved terminal slots never exceed maxDedupeEntries.
THEOREM BudgetHolds == Spec => []DedupeBudget
<1>1. BrokerInv => DedupeBudget
  BY DEF BrokerInv
<1> QED
  BY BrokerInvariant, <1>1, PTL

\* A request is open only between two connected agents, and only for the
\* incarnation that asked.
THEOREM OpenRequestsSound == Spec => [](OpenRequestsConnected /\ OpenRequestsCurrent)
<1>1. BrokerInv => OpenRequestsConnected /\ OpenRequestsCurrent
  BY DEF BrokerInv
<1> QED
  BY BrokerInvariant, <1>1, PTL

\* A child that was invalidated or replaced leaves no request of its old incarnation
\* behind: what is open was asked by the run its binding names now.
THEOREM OpenRequestsCurrentAlways == Spec => []OpenRequestsCurrent
<1>1. BrokerInv => OpenRequestsCurrent
  BY DEF BrokerInv
<1> QED
  BY BrokerInvariant, <1>1, PTL

\* The reply to, or cancel of, an open request is never refused with CAPACITY.
THEOREM TerminalNeverRefused == Spec => []TerminalSlotReserved
<1>1. BrokerInv => TerminalSlotReserved
  <2> SUFFICES ASSUME BrokerInv, NEW m \in Message, m.kind \in {"reply", "cancel"},
                      Correlated(m) # {}
               PROVE  Refusal(m, Retained(m)) # "CAPACITY"
    BY DEF TerminalSlotReserved
  <2> DEFINE ds == Retained(m)
  <2>1. ds \subseteq deliveries /\ deliveries \subseteq Message /\ pending \subseteq Message
    BY PrunedKeepsOpen DEF BrokerInv, TypeOK
  <2>2. Cardinality(ds) \in Nat /\ Cardinality(deliveries) \in Nat
        /\ Cardinality(ds) <= Cardinality(deliveries)
    BY <2>1, Finite
  <2>3. Cardinality(pending) \in Nat
    BY <2>1, Finite
  <2>4. Cardinality(deliveries) + Cardinality(pending) <= MaxDedupeEntries
    BY DEF BrokerInv, DedupeBudget
  <2>5. HasCapacity(m, ds)
    BY <2>2, <2>3, <2>4, BrokerAssumption DEF HasCapacity, Required
  <2> QED
    BY <2>5 DEF Refusal
<1> QED
  BY BrokerInvariant, <1>1, PTL

\* Duplicate suppression is sound: no two records share sender and identifier, and
\* no sender exceeds its share of open requests.
THEOREM TablesSound == Spec => [](RecordsUnique /\ SenderBudget)
<1>1. BrokerInv => RecordsUnique /\ SenderBudget
  BY DEF BrokerInv
<1> QED
  BY BrokerInvariant, <1>1, PTL
=============================================================================
