----------------------------- MODULE Messaging -----------------------------
(***************************************************************************)
(* LocalMessageClient (src/messaging-client.ts) at both ends of the broker *)
(* of MessageBroker: outgoing frames wait in a socket, the client keeps    *)
(* what it sent until a receipt, its calls until a reply or an error, and  *)
(* a bounded inbox for its application.  Local timers, broker timers, lost *)
(* connections and reconnects may come in any order.                       *)
(*                                                                         *)
(* An application replies only to a request it took from its inbox, and    *)
(* calls request() with a fresh identifier; events, replies and cancels    *)
(* may be sent again.                                                      *)
(***************************************************************************)
EXTENDS MessageBroker

CONSTANTS
  MaxInbox,     \* limits.maxInboxMessages
  MaxConnects   \* model bound: connections each agent opens

\* Identifiers are drawn by randomUUID() (envelope()); an envelope that is sent
\* again under its identifier is the same envelope.
ASSUME ClientAssumption ==
  /\ MaxInbox \in Nat \ {0}
  /\ MaxConnects \in [Agent -> Nat]
  /\ \A m, n \in Message : SameKey(m, n) => m = n

VARIABLES
  client,    \* "open", or "ended" once fail() ran
  connects,  \* connections opened so far
  uplink,    \* frames each client has written and the broker has not read
  out,       \* client.deliveries: envelopes without a receipt
  calls,     \* client.requests: requests without an outcome
  inbox,     \* envelopes queued for the application
  waiters,   \* nextMessage() calls that wait
  outcome,   \* per request: "none", "waiting", "answered" or "failed"
  arrived,   \* history: envelopes each transport took from its socket
  taken,     \* history: envelopes each application consumed
  answered,  \* history: requests for which the application sent a reply
  confirmed  \* history: envelopes whose sender saw the receipt

clientVars == <<client, connects, uplink, out, calls, inbox, waiters, outcome,
                arrived, taken, answered, confirmed>>
messagingVars == <<vars, clientVars>>
historyVars == <<arrived, taken, answered, confirmed>>

Requests == {m \in Message : m.kind = "request"}

MInit ==
  /\ Init
  /\ client = [a \in Agent |-> "ended"]
  /\ connects = [a \in Agent |-> 0]
  /\ uplink = [a \in Agent |-> <<>>]
  /\ out = {}
  /\ calls = {}
  /\ inbox = [a \in Agent |-> <<>>]
  /\ waiters = [a \in Agent |-> 0]
  /\ outcome = [r \in Requests |-> "none"]
  /\ arrived = {}
  /\ taken = {}
  /\ answered = {}
  /\ confirmed = {}

-----------------------------------------------------------------------------
(* The client's tables. *)

SentBy(a, ms) == {m \in ms : m.from = a}

Settle(oc, rs, how) == [r \in Requests |-> IF r \in rs THEN how ELSE oc[r]]

\* Variants: a call is dropped without being rejected; a settled call is rejected.
RejectSilently(ms) == out' = out \ ms /\ calls' = calls \ ms /\ UNCHANGED outcome
RejectSettled(ms) ==
  /\ out' = out \ ms
  /\ calls' = calls \ ms
  /\ outcome' = Settle(outcome, {r \in ms \cap Requests : outcome[r] # "none"}, "failed")

\* rejectMessage() for every envelope of ms: delivery and call are given up.
Reject(ms) ==
  /\ out' = out \ ms
  /\ calls' = calls \ ms
  /\ outcome' = Settle(outcome, ms \cap calls, "failed")

\* fail(): every delivery, call and waiter is rejected, the inbox is dropped.
Fail(a) ==
  /\ client' = [client EXCEPT ![a] = "ended"]
  /\ Reject(SentBy(a, Message))
  /\ inbox' = [inbox EXCEPT ![a] = <<>>]
  /\ waiters' = [waiters EXCEPT ![a] = 0]

RoomUp(a) == Len(uplink[a]) < MaxQueue
WriteUp(a, frame) == uplink' = [uplink EXCEPT ![a] = Append(@, frame)]

-----------------------------------------------------------------------------
(* The application calls its client. *)

\* connect(): the handshake of socket, hello and ready, as one step.
Connect(a) ==
  /\ client[a] = "ended"
  /\ connects[a] < MaxConnects[a]
  /\ Hello(a)
  /\ client' = [client EXCEPT ![a] = "open"]
  /\ connects' = [connects EXCEPT ![a] = @ + 1]
  /\ uplink' = [uplink EXCEPT ![a] = <<>>]
  /\ UNCHANGED <<out, calls, inbox, waiters, outcome, historyVars>>

\* request(): the call is entered, then send() may refuse it at once.
Request(m) ==
  LET a == m.from
      fits == Cardinality(SentBy(a, out)) < MaxPending /\ RoomUp(a)
  IN /\ client[a] = "open"
     /\ outcome[m] = "none"
     /\ Cardinality(SentBy(a, calls)) < MaxPending
     /\ IF fits
        THEN /\ calls' = calls \cup {m}
             /\ out' = out \cup {m}
             /\ outcome' = [outcome EXCEPT ![m] = "waiting"]
             /\ WriteUp(a, [type |-> "send", msg |-> m])
        ELSE /\ outcome' = [outcome EXCEPT ![m] = "failed"]
             /\ UNCHANGED <<calls, out, uplink>>
     /\ UNCHANGED <<vars, client, connects, inbox, waiters, historyVars>>

\* The requests the application has that reply m is for.
Asked(m) == {r \in taken \cap Requests : r.id = m.corr /\ r.from = m.to /\ r.to = m.from}

\* event(), reply() and cancel(), each possibly a retry of the same envelope.
Post(m) ==
  LET a == m.from IN
  /\ client[a] = "open"
  /\ m.kind # "request"
  /\ m.kind = "reply" => Asked(m) # {}
  /\ m.kind = "cancel" => \E r \in Requests : r.id = m.corr /\ r.from = a /\ outcome[r] # "none"
  /\ m \notin out
  /\ Cardinality(SentBy(a, out)) < MaxPending
  /\ RoomUp(a)
  /\ out' = out \cup {m}
  /\ WriteUp(a, [type |-> "send", msg |-> m])
  /\ answered' = IF m.kind # "reply" THEN answered
                 ELSE answered \cup Asked(m)
  /\ UNCHANGED <<vars, client, connects, calls, inbox, waiters, outcome, arrived,
                 taken, confirmed>>

\* nextMessage(): take the oldest envelope or wait.
NextMessage(a) ==
  /\ client[a] = "open"
  /\ IF inbox[a] # <<>>
     THEN /\ taken' = taken \cup {Head(inbox[a])}
          /\ inbox' = [inbox EXCEPT ![a] = Tail(@)]
          /\ UNCHANGED waiters
     ELSE /\ waiters[a] < MaxPending
          /\ waiters' = [waiters EXCEPT ![a] = @ + 1]
          /\ UNCHANGED <<inbox, taken>>
  /\ UNCHANGED <<vars, client, connects, uplink, out, calls, outcome, arrived,
                 answered, confirmed>>

Close(a) ==
  /\ client[a] = "open"
  /\ Fail(a)
  /\ UNCHANGED <<vars, connects, uplink, historyVars>>

\* The timers of a delivery or a call, and of a waiter.
LocalTimeout(m) ==
  /\ m \in out \cup calls
  /\ Reject({m})
  /\ UNCHANGED <<vars, client, connects, uplink, inbox, waiters, historyVars>>

WaiterTimeout(a) ==
  /\ waiters[a] > 0
  /\ waiters' = [waiters EXCEPT ![a] = @ - 1]
  /\ UNCHANGED <<vars, client, connects, uplink, out, calls, inbox, outcome, historyVars>>

-----------------------------------------------------------------------------
(* The client's socket: receive() by type of frame. *)

\* A message resolves a call, wakes a waiter or is queued; then it is
\* acknowledged.  A full inbox, or no room for the acknowledgement, is thrown
\* out of receive() and ends the client: what was handed over stays handed over.
ReceiveMessage(a, m) ==
  LET settled == {r \in calls : m.kind = "reply" /\ r.from = a /\ r.to = m.from
                                 /\ r.id = m.corr}
      woken == m.kind # "reply" /\ waiters[a] > 0
      queued == m.kind # "reply" /\ waiters[a] = 0
      overflow == queued /\ Len(inbox[a]) >= MaxInbox
      rest == SentBy(a, calls) \ settled
  IN /\ arrived' = IF overflow THEN arrived ELSE arrived \cup {m}
     /\ taken' = IF woken THEN taken \cup {m} ELSE taken
     /\ IF overflow \/ ~RoomUp(a)
        THEN /\ client' = [client EXCEPT ![a] = "ended"]
             /\ out' = out \ SentBy(a, out)
             /\ calls' = calls \ SentBy(a, calls)
             /\ inbox' = [inbox EXCEPT ![a] = <<>>]
             /\ waiters' = [waiters EXCEPT ![a] = 0]
             /\ outcome' = Settle(Settle(outcome, rest, "failed"), settled, "answered")
             /\ UNCHANGED uplink
        ELSE /\ WriteUp(a, [type |-> "received", msg |-> m])
             /\ calls' = calls \ settled
             /\ inbox' = IF queued THEN [inbox EXCEPT ![a] = Append(@, m)] ELSE inbox
             /\ waiters' = IF woken THEN [waiters EXCEPT ![a] = @ - 1] ELSE waiters
             /\ outcome' = Settle(outcome, settled, "answered")
             /\ UNCHANGED <<client, out>>
     /\ UNCHANGED <<answered, confirmed>>

\* Variant: acceptance by the broker is taken for the receipt.
AcceptanceSettles(frame) ==
  LET done == {m \in out : SameKey(m, frame.msg)} IN
  /\ confirmed' = confirmed \cup done
  /\ out' = out \ done
  /\ UNCHANGED <<client, uplink, calls, inbox, waiters, outcome, arrived, taken, answered>>

\* A receipt settles the delivery; acceptance alone changes no table.
ReceiveStage(frame) ==
  /\ IF frame.type = "received"
     THEN LET done == {m \in out : SameKey(m, frame.msg)}
          IN confirmed' = confirmed \cup done /\ out' = out \ done
     ELSE UNCHANGED <<confirmed, out>>
  /\ UNCHANGED <<client, uplink, calls, inbox, waiters, outcome, arrived, taken, answered>>

\* An error names one envelope; a lost peer fails everything addressed to it.
ReceiveLoss(lost) ==
  /\ Reject(lost)
  /\ UNCHANGED <<client, uplink, inbox, waiters, historyVars>>

Receive(a) ==
  LET frame == Head(net.queue[a]) IN
  /\ client[a] = "open"
  /\ Read(a)
  /\ \/ frame.type = "message" /\ ReceiveMessage(a, frame.msg)
     \/ frame.type \in {"accepted", "received"} /\ ReceiveStage(frame)
     \/ frame.type = "error" /\ ReceiveLoss({m \in Message : SameKey(m, frame.msg)})
     \/ frame.type = "peer-disconnected"
        /\ ReceiveLoss({m \in SentBy(a, Message) : m.to = frame.agent})
     \/ frame.type = "shutdown" /\ Fail(a) /\ UNCHANGED <<uplink, historyVars>>
  /\ UNCHANGED connects

\* The socket closes under an open client; frames still in it are lost.
SocketClosed(a) ==
  /\ client[a] = "open"
  /\ a \notin online \/ a \in net.broken
  /\ Fail(a)
  /\ UNCHANGED <<vars, connects, uplink, historyVars>>

-----------------------------------------------------------------------------
(* The broker's side of the sockets. *)

BrokerReads(a) ==
  LET frame == Head(uplink[a]) IN
  /\ uplink[a] # <<>>
  /\ \/ frame.type = "send" /\ Route(frame.msg)
     \/ frame.type = "received" /\ Receipt(a, frame.msg)
  /\ uplink' = [uplink EXCEPT ![a] = Tail(@)]
  /\ UNCHANGED <<client, connects, out, calls, inbox, waiters, outcome, historyVars>>

\* The broker sees a socket close that either side has ended.
BrokerDisconnect(a) ==
  /\ client[a] = "ended" \/ a \in net.broken
  /\ Disconnect(a)
  /\ uplink' = [uplink EXCEPT ![a] = <<>>]
  /\ UNCHANGED <<client, connects, out, calls, inbox, waiters, outcome, historyVars>>

BrokerTimers(m) ==
  /\ RequestTimeout(m) \/ Expire(m)
  /\ UNCHANGED clientVars

BrokerShutdown ==
  /\ Shutdown
  /\ UNCHANGED clientVars

ProcessControl(a) ==
  /\ NewIncarnation(a) \/ Takeover(a)
  /\ UNCHANGED clientVars

\* Model bound: only agents that something but a reply is addressed to ask for
\* messages; the others would wait for nothing.
Listeners == {m.to : m \in {n \in Message : n.kind # "reply"}}

Timers ==
  \/ \E a \in Agent : WaiterTimeout(a)
  \/ \E m \in Message : LocalTimeout(m) \/ BrokerTimers(m)

PromptNext ==
  \/ \E a \in Agent :
       Connect(a) \/ Close(a) \/ Receive(a) \/ SocketClosed(a)
         \/ BrokerReads(a) \/ BrokerDisconnect(a)
  \/ \E a \in Listeners : NextMessage(a)
  \/ \E m \in Message : Post(m)
  \/ \E r \in Requests : Request(r)
  \/ \E a \in Child : ProcessControl(a)
  \/ BrokerShutdown

MNext == PromptNext \/ Timers

MSpec == MInit /\ [][MNext]_messagingVars

\* Sockets, brokers and applications keep going; no timer ever fires.
PromptSpec ==
  /\ MInit
  /\ [][PromptNext]_messagingVars
  /\ \A a \in Agent :
       /\ WF_messagingVars(Receive(a) \/ SocketClosed(a))
       /\ WF_messagingVars(BrokerReads(a) \/ BrokerDisconnect(a))
  /\ \A a \in Listeners : WF_messagingVars(NextMessage(a))
  /\ \A m \in Message : m.kind = "reply" => WF_messagingVars(Post(m))

-----------------------------------------------------------------------------
(* Properties. *)

MTypeOK ==
  /\ TypeOK
  /\ client \in [Agent -> {"open", "ended"}]
  /\ out \subseteq Message
  /\ calls \subseteq Requests
  /\ \A a \in Agent : Len(inbox[a]) <= MaxInbox /\ waiters[a] \in 0..MaxPending
  /\ outcome \in [Requests -> {"none", "waiting", "answered", "failed"}]
  /\ calls = {r \in Requests : outcome[r] = "waiting"}

Carries(queue, frame) == \E i \in DOMAIN queue : queue[i] = frame

\* Frames that settle call r at the requester.
Settles(frame, r) ==
  \/ frame.type = "error" /\ SameKey(frame.msg, r)
  \/ frame.type = "message" /\ frame.msg.kind = "reply" /\ frame.msg.corr = r.id
       /\ frame.msg.from = r.to
  \/ frame.type = "peer-disconnected" /\ frame.agent = r.to
  \/ frame.type = "shutdown"

\* No call waits in vain: its request is on the way to the broker, open there, or
\* its outcome is on the way back, or the caller's own connection is going down.
\* So only a recipient that does not reply makes a caller wait for its timer.
WaitJustified ==
  \A r \in calls :
    \/ Carries(uplink[r.from], [type |-> "send", msg |-> r])
    \/ r \in pending
    \/ \E i \in DOMAIN net.queue[r.from] : Settles(net.queue[r.from][i], r)
    \/ r.from \notin online \ net.broken

\* A receipt reported to the sender is the truth: the recipient's transport took
\* that envelope ("The recipient transport queues the message ... or resolves").
ReceiptHonest == confirmed \subseteq arrived

\* Within the retention window an envelope reaches its recipient at most once,
\* whatever is retried and whoever reconnects.
DeliveredOnce ==
  \A m \in Message :
    Cardinality({i \in DOMAIN net.queue[m.to] : net.queue[m.to][i] = MessageFrame(m)})
      + (IF m \in arrived THEN 1 ELSE 0) <= 1

\* Even with no timer at all, every call is settled: by the reply of a recipient
\* that keeps reading and answering, or by the error of a lost connection.
CallsSettle == \A r \in Requests : outcome[r] = "waiting" ~> outcome[r] # "waiting"

\* The composition refines the abstract call.
RR == INSTANCE RequestReply WITH
  CallId <- Requests,
  call <- [r \in Requests |-> IF outcome[r] = "none" THEN "idle" ELSE outcome[r]],
  work <- [r \in Requests |-> IF r \in answered THEN "replied"
                              ELSE IF r \in taken THEN "arrived" ELSE "none"]
RequestReplySpec == RR!RRSpec
=============================================================================
