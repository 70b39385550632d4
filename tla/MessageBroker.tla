--------------------------- MODULE MessageBroker ---------------------------
(***************************************************************************)
(* The routing core of LocalMessageBroker (src/messaging-broker.ts): which *)
(* envelopes are accepted, how a request stays open and is closed, what is *)
(* remembered for duplicate suppression, and what each socket is sent.     *)
(*                                                                         *)
(* The broker runs in one event loop: every handler below is one step.     *)
(* Envelopes are members of the constant set Message; payloads are reduced *)
(* to the one bit routing looks at (a "steer" or "help" payload).  Clients *)
(* are the environment here: they send any well formed envelope at any     *)
(* time.  The module Messaging puts the real client at the other end.      *)
(***************************************************************************)
EXTENDS Naturals, Sequences, FiniteSets, SequencesExt

CONSTANTS
  Agent,            \* agent identifiers registered with the broker
  Child,            \* agents that are run as a process (they have a run record)
  Group,            \* group of each agent
  Message,          \* every envelope a client may send
  MaxPending,       \* limits.maxPending: open requests per sender
  MaxDedupeEntries, \* limits.maxDedupeEntries
  MaxQueue,         \* limits.maxQueueBytes, counted in frames
  MaxIncarnation    \* model bound: process incarnations per child

Kind == {"request", "reply", "event", "cancel"}

ASSUME BrokerAssumption ==
  /\ Child \subseteq Agent
  /\ MaxPending \in Nat \ {0}
  /\ MaxDedupeEntries \in Nat \ {0}
  /\ MaxQueue \in Nat \ {0}
  /\ MaxIncarnation \in Nat
  /\ IsFiniteSet(Message)
  /\ \A m \in Message : m.from \in Agent /\ m.to \in Agent /\ m.kind \in Kind

VARIABLES
  online,      \* agents whose registration holds a connection
  net,         \* [broken, chunk, queue]: sockets on the way out, the one of these whose
               \* chunk of frames is still being handled, frames written to each
  processId,   \* incarnation in the current run record of each child
  managed,     \* children whose run record still says ownership "managed"
  deliveries,  \* envelopes with a delivery record
  pending,     \* the delivery records that are open requests
  expired,     \* delivery records whose dedupe time has passed
  received,    \* delivery records with a receipt
  acceptedBy,  \* incarnation of the sender noted in the delivery record
  closed       \* broker.close() was called

vars == <<online, net, processId, managed, deliveries, pending, expired,
          received, acceptedBy, closed>>

processVars == <<processId, managed>>

-----------------------------------------------------------------------------
(* Sockets. *)

\* Frames of the wire protocol that the broker writes.
MessageFrame(m) == [type |-> "message", msg |-> m]
StageFrame(stage, m) == [type |-> stage, msg |-> m]
ErrorFrame(m, code) == [type |-> "error", msg |-> m, code |-> code]
GoneFrame(a) == [type |-> "peer-disconnected", agent |-> a]
ShutdownFrame == [type |-> "shutdown"]

\* A write that exceeds the budget, or meets an ended socket, destroys it.
Writable(n, a) == a \notin n.broken /\ Len(n.queue[a]) < MaxQueue

Write(n, a, frame) ==
  IF a \notin online THEN n
  ELSE IF Writable(n, a)
       THEN [n EXCEPT !.queue[a] = Append(@, frame)]
       ELSE [n EXCEPT !.broken = @ \cup {a}]

\* A handler is done that was called for a frame of agents as, or else by a timer.  When it
\* destroyed the socket that it reads from, the frames of the same chunk follow all the same;
\* one that the client writes later stands for one that was in the chunk.
Served(n, as) == [n EXCEPT !.chunk = as \cap n.broken]

\* One write after the other to every agent, of all that its socket takes.
WriteEach(n, frames) ==
  LET line(a) == n.queue[a] \o frames[a]
      over == {a \in online : Len(line(a)) > MaxQueue}
  IN [broken |-> n.broken \cup over, chunk |-> n.chunk,
      queue |-> [a \in Agent |->
                   IF a \notin online \ n.broken THEN n.queue[a]
                   ELSE IF a \in over THEN SubSeq(line(a), 1, MaxQueue) ELSE line(a)]]

WriteAll(n, as, frame) ==
  WriteEach(n, [a \in Agent |-> IF a \in as THEN <<frame>> ELSE <<>>])

\* Variant: the requester is not told.
FailSilently(n, requests, code) == n

\* finishRequest with an error code: the requester is told, if connected.
FailRequests(n, requests, code) ==
  WriteEach(n, [a \in Agent |-> SetToSeq({ErrorFrame(r, code) : r \in {q \in requests : q.from = a}})])

-----------------------------------------------------------------------------
(* Delivery records. *)

SameKey(m, d) == m.from = d.from /\ m.id = d.id

\* prune(): an open request outlives its dedupe time.
Pruned == deliveries \ (expired \ pending)

\* The open request a reply or cancel refers to.
Correlated(m) ==
  {r \in pending :
     \/ m.kind = "reply"  /\ r.from = m.to   /\ r.to = m.from /\ r.id = m.corr
     \/ m.kind = "cancel" /\ r.from = m.from /\ r.to = m.to   /\ r.id = m.corr}

\* A reply is matched to the incarnation that asked.
CorrelationHolds(m) ==
  m.kind \in {"reply", "cancel"} =>
    \E r \in Correlated(m) :
      m.kind = "reply" /\ m.to \in Child => acceptedBy[r] = processId[m.to]

\* Directed traffic is refused to and from a process that was taken over.
Directed(m) == m.ctl \/ m.kind = "reply"
RoutingAllowed(m) ==
  /\ Group[m.from] = Group[m.to]
  /\ Directed(m) => {m.from, m.to} \cap Child \subseteq managed

\* Variants: no slot is reserved for the reply; the reply is charged for its slot.
RequiredOnce(m) == IF m.kind \in {"request", "event"} THEN 1 ELSE 0
RequiredAlways(m) == IF m.kind = "request" THEN 2 ELSE 1

Required(m) ==
  IF m.kind = "request" THEN 2 ELSE IF m.kind = "event" THEN 1 ELSE 0

\* Every open request holds one more slot for its reply or cancel.
HasCapacity(m, ds) ==
  /\ Cardinality(ds) + Cardinality(pending) + Required(m) <= MaxDedupeEntries
  /\ m.kind = "request" =>
       Cardinality({r \in pending : r.from = m.from}) < MaxPending

\* The error route() throws for envelope m once the records are pruned to ds.
Refusal(m, ds) ==
  IF ~RoutingAllowed(m) THEN "FORBIDDEN"
  ELSE IF \E d \in ds : SameKey(m, d)
       THEN IF m \in ds THEN "none" ELSE "DUPLICATE_CONFLICT"
  ELSE IF m.to \notin online \/ m.to \in net.broken THEN "TARGET_DISCONNECTED"
  ELSE IF ~CorrelationHolds(m) THEN "INVALID_CORRELATION"
  ELSE IF ~HasCapacity(m, ds) THEN "CAPACITY"
  ELSE IF ~Writable(net, m.to) THEN "TARGET_DISCONNECTED"
  ELSE "none"

\* Variant: records go as soon as their request is over.
RetainedWhileOpen(m) == pending

\* The table after the prune that route() and "received" begin with; a refusal
\* of the addressing rules is thrown before it.
Retained(m) == IF RoutingAllowed(m) THEN Pruned ELSE deliveries

Keep(ds) ==
  /\ expired' = expired \cap ds
  /\ received' = received \cap ds

-----------------------------------------------------------------------------
(* Handlers. *)

Init ==
  /\ online = {}
  /\ net = [broken |-> {}, chunk |-> {}, queue |-> [a \in Agent |-> <<>>]]
  /\ processId = [a \in Agent |-> 0]
  /\ managed = Child
  /\ deliveries = {}
  /\ pending = {}
  /\ expired = {}
  /\ received = {}
  /\ acceptedBy = [m \in Message |-> 0]
  /\ closed = FALSE

\* receive(): a hello with the registration's capability.
Hello(a) ==
  /\ ~closed
  /\ a \notin online
  /\ online' = online \cup {a}
  /\ net' = [net EXCEPT !.broken = @ \ {a}, !.chunk = {}, !.queue[a] = <<>>]
  /\ UNCHANGED <<processVars, deliveries, pending, expired, received, acceptedBy, closed>>

\* A connection whose frames the broker still reads: a destroyed socket has no more, but the
\* rest of the chunk in hand is handled (JsonLineWire).
Reads(a) == ~closed /\ a \in online /\ (a \notin net.broken \/ a \in net.chunk)

\* route() throws; the sender is told which envelope failed.
RouteRefuse(m) ==
  LET ds == Retained(m)
      code == Refusal(m, ds)
      full == code = "TARGET_DISCONNECTED" /\ m.to \in online /\ ~Writable(net, m.to)
      sent == IF full THEN [net EXCEPT !.broken = @ \cup {m.to}] ELSE net
  IN /\ Reads(m.from)
     /\ code # "none"
     /\ net' = Served(Write(sent, m.from, ErrorFrame(m, code)), {m.from})
     /\ deliveries' = ds
     /\ Keep(ds)
     /\ UNCHANGED <<online, processVars, pending, acceptedBy, closed>>

\* The same envelope again: acceptance and receipt are replayed, nothing else.
RouteReplay(m) ==
  LET ds == Retained(m)
      again == Write(net, m.from, StageFrame("accepted", m))
  IN /\ Reads(m.from)
     /\ Refusal(m, ds) = "none"
     /\ m \in ds
     /\ net' = Served(IF m \in received
                        THEN Write(again, m.from, StageFrame("received", m)) ELSE again, {m.from})
     /\ deliveries' = ds
     /\ Keep(ds)
     /\ UNCHANGED <<online, processVars, pending, acceptedBy, closed>>

\* The open requests that envelope m brings to an end, and those it leaves open.
Closed(m) == Correlated(m)
OpenAfter(m) == (pending \ Closed(m)) \cup (IF m.kind = "request" THEN {m} ELSE {})

\* Acceptance: the recipient's socket takes the frame, the record is made, the
\* correlated request is finished, and the sender hears of it.
RouteAccept(m) ==
  LET ds == Retained(m)
      passed == Write(net, m.to, MessageFrame(m))
      ended == IF m.kind = "cancel"
                 THEN FailRequests(passed, Closed(m), "CANCELLED") ELSE passed
  IN /\ Reads(m.from)
     /\ Refusal(m, ds) = "none"
     /\ m \notin ds
     /\ net' = Served(Write(ended, m.from, StageFrame("accepted", m)), {m.from})
     /\ deliveries' = ds \cup {m}
     /\ Keep(ds)
     /\ pending' = OpenAfter(m)
     /\ acceptedBy' = [acceptedBy EXCEPT ![m] = processId[m.from]]
     /\ UNCHANGED <<online, processVars, closed>>

\* receive(): the recipient's transport confirms receipt of m.  A claim about
\* an envelope it was not sent is a fatal protocol error: the broker stops
\* reading that socket and ends it.
Receipt(a, m) ==
  /\ Reads(a)
  /\ deliveries' = Pruned
  /\ expired' = expired \cap Pruned
  /\ IF m \in Pruned /\ m.to = a
       THEN /\ received' = (received \cap Pruned) \cup {m}
            /\ net' = Served(Write(net, m.from, StageFrame("received", m)), {a})
       ELSE /\ received' = received \cap Pruned
            /\ net' = [net EXCEPT !.broken = @ \cup {a}, !.chunk = {}]
  /\ UNCHANGED <<online, processVars, pending, acceptedBy, closed>>

\* The timer of an open request fires.
RequestTimeout(r) ==
  /\ ~closed
  /\ r \in pending
  /\ pending' = pending \ {r}
  /\ net' = Served(FailRequests(net, {r}, "TIMEOUT"), {})
  /\ UNCHANGED <<online, processVars, deliveries, expired, received, acceptedBy, closed>>

\* The dedupe time of a record passes; the record goes at the next prune.
Expire(m) ==
  /\ m \in deliveries \ expired
  /\ expired' = expired \cup {m}
  /\ UNCHANGED <<online, net, processVars, deliveries, pending, received, acceptedBy, closed>>

\* Variants: only what a asked, or only what a was asked.
AbandonedFrom(a) == {r \in pending : r.from = a}
AbandonedTo(a) == {r \in pending : r.to = a}

\* Requests that end when agent a's connection goes away.
Abandoned(a) == {r \in pending : a \in {r.from, r.to}}

\* disconnect(): the socket of agent a reports close.
Disconnect(a) ==
  LET others == {b \in online \ {a} : Group[b] = Group[a]}
      told == {r \in Abandoned(a) : r.from # a}
  IN /\ a \in online
     /\ online' = online \ {a}
     /\ pending' = pending \ Abandoned(a)
     /\ net' = LET left == [net EXCEPT !.broken = @ \ {a}, !.chunk = {}]
                   failed == FailRequests(left, told, "TARGET_DISCONNECTED")
               IN IF closed THEN left ELSE WriteAll(failed, others, GoneFrame(a))
     /\ UNCHANGED <<processVars, deliveries, expired, received, acceptedBy, closed>>

\* A client takes the next frame off its socket.
Read(a) ==
  /\ net.queue[a] # <<>>
  /\ net' = [net EXCEPT !.queue[a] = Tail(@)]
  /\ UNCHANGED <<online, processVars, deliveries, pending, expired, received,
                 acceptedBy, closed>>

\* Controls "resume" and "register-process": refused while the agent is still
\* connected, and for a run that was taken over.
NewIncarnation(a) ==
  /\ ~closed
  /\ a \in managed
  /\ a \notin online
  /\ processId[a] < MaxIncarnation
  /\ processId' = [processId EXCEPT ![a] = @ + 1]
  /\ UNCHANGED <<online, net, managed, deliveries, pending, expired, received,
                 acceptedBy, closed>>

\* Control "takeover-process": ownership becomes manual or external for good.
Takeover(a) ==
  /\ ~closed
  /\ a \in managed
  /\ managed' = managed \ {a}
  /\ UNCHANGED <<online, net, processId, deliveries, pending, expired, received,
                 acceptedBy, closed>>

\* close(): the delivery table is cleared, every socket gets a last frame.
Shutdown ==
  /\ ~closed
  /\ closed' = TRUE
  /\ deliveries' = {}
  /\ pending' = {}
  /\ expired' = {}
  /\ received' = {}
  /\ net' = [WriteAll(net, online, ShutdownFrame) EXCEPT !.broken = online, !.chunk = {}]
  /\ UNCHANGED <<online, processVars, acceptedBy>>

Route(m) == RouteRefuse(m) \/ RouteReplay(m) \/ RouteAccept(m)

Next ==
  \/ \E a \in Agent : Hello(a) \/ Disconnect(a) \/ Read(a)
  \/ \E m \in Message : Route(m) \/ RequestTimeout(m) \/ Expire(m)
  \/ \E a \in Agent, m \in Message : Receipt(a, m)
  \/ \E a \in Child : NewIncarnation(a) \/ Takeover(a)
  \/ Shutdown

Spec == Init /\ [][Next]_vars

-----------------------------------------------------------------------------
(* Properties. *)

TypeOK ==
  /\ online \subseteq Agent
  /\ processId \in [Agent -> Nat]
  /\ managed \subseteq Child
  /\ deliveries \subseteq Message
  /\ pending \subseteq {m \in deliveries : m.kind = "request"}
  /\ expired \subseteq deliveries
  /\ received \subseteq deliveries
  /\ acceptedBy \in [Message -> Nat]
  /\ closed \in BOOLEAN

\* The records and the slots reserved for the end of every open request fit the
\* configured table, however acceptance, expiry, timeouts and pruning interleave
\* (route(), lines 415-430).
DedupeBudget ==
  Cardinality(deliveries) + Cardinality(pending) <= MaxDedupeEntries

\* An open request can always be answered or cancelled: its terminal envelope is
\* never refused for lack of room ("Events cannot consume it", line 423).
TerminalSlotReserved ==
  \A m \in Message :
    /\ m.kind \in {"reply", "cancel"}
    /\ Correlated(m) # {}
    => Refusal(m, Retained(m)) # "CAPACITY"

\* A request is open only while both of its ends hold a connection, so a requester
\* never waits for a recipient that is gone, whatever reconnects (disconnect()).
OpenRequestsConnected == \A r \in pending : {r.from, r.to} \subseteq online

\* The incarnation that asked is the one whose run record is current: a resumed
\* child never inherits the questions of its previous process.
OpenRequestsCurrent ==
  \A r \in pending : r.from \in Child => acceptedBy[r] = processId[r.from]

\* No sender keeps more open requests than the limit, and no two records share
\* the sender and message identifier that duplicates are recognised by.
SenderBudget ==
  \A a \in Agent : Cardinality({r \in pending : r.from = a}) <= MaxPending
RecordsUnique == \A d, e \in deliveries : SameKey(d, e) => d = e
=============================================================================
