-------------------------- MODULE Messaging_proofs --------------------------
(***************************************************************************)
(* Proofs about the broker with the client of messaging-client.ts at both  *)
(* ends of it, for any agents, envelopes and limits and any interleaving   *)
(* of sends, receipts, timers, lost connections and reconnects.            *)
(***************************************************************************)
EXTENDS Messaging, MessageBroker_proofs, SequenceTheorems, FunctionTheorems

-----------------------------------------------------------------------------
(* Queues of frames. *)

\* A frame that is in the queue at one place at most.
Once(q, f) == \A i, j \in DOMAIN q : q[i] = f /\ q[j] = f => i = j

\* What is appended is there, and everything else as before.
LEMMA AppendFacts ==
  ASSUME NEW S, NEW q \in Seq(S), NEW e \in S
  PROVE  /\ Append(q, e) \in Seq(S)
         /\ Len(Append(q, e)) = Len(q) + 1
         /\ Range(Append(q, e)) = Range(q) \cup {e}
         /\ \A f : Once(q, f) /\ (f # e \/ f \notin Range(q)) => Once(Append(q, e), f)
<1>1. /\ Append(q, e) \in Seq(S) /\ Len(q) \in Nat
      /\ Len(Append(q, e)) = Len(q) + 1
      /\ DOMAIN q = 1..Len(q) /\ DOMAIN Append(q, e) = 1..(Len(q) + 1)
      /\ \A i \in 1..Len(q) : Append(q, e)[i] = q[i]
      /\ Append(q, e)[Len(q) + 1] = e
  BY AppendProperties, LenProperties
<1> DEFINE r == Append(q, e)
<1> HIDE DEF r
<1>2. \A i \in 1..(Len(q) + 1) : i \in 1..Len(q) \/ i = Len(q) + 1
  BY <1>1
<1>3. Range(r) = Range(q) \cup {e}
  BY <1>1, <1>2 DEF r, Range
<1>4. ASSUME NEW f, Once(q, f), f # e \/ f \notin Range(q)
      PROVE  Once(r, f)
  BY <1>1, <1>2, <1>4 DEF r, Range, Once
<1> QED
  BY <1>1, <1>3, <1>4 DEF r

\* Reading takes the first frame and leaves the others.
LEMMA TailFacts ==
  ASSUME NEW S, NEW q \in Seq(S), q # <<>>
  PROVE  /\ Head(q) \in S /\ Head(q) \in Range(q)
         /\ Tail(q) \in Seq(S) /\ Len(Tail(q)) = Len(q) - 1
         /\ Range(q) = Range(Tail(q)) \cup {Head(q)}
         /\ \A f : Once(q, f) => Once(Tail(q), f)
         /\ Once(q, Head(q)) => Head(q) \notin Range(Tail(q))
<1>1. /\ Head(q) \in S /\ Tail(q) \in Seq(S)
      /\ Len(q) \in Nat \ {0} /\ Len(Tail(q)) = Len(q) - 1
      /\ DOMAIN q = 1..Len(q) /\ DOMAIN Tail(q) = 1..(Len(q) - 1)
      /\ \A i \in 1..(Len(q) - 1) : Tail(q)[i] = q[i + 1]
      /\ Head(q) = q[1]
  BY HeadTailProperties, LenProperties, EmptySeq
<1> DEFINE t == Tail(q)
<1> HIDE DEF t
<1>2. \A i \in 1..Len(q) : i = 1 \/ (i - 1 \in 1..(Len(q) - 1) /\ (i - 1) + 1 = i)
  BY <1>1
<1>3. \A i \in 1..(Len(q) - 1) : i + 1 \in 1..Len(q) /\ i + 1 # 1
  BY <1>1
<1>4. 1 \in 1..Len(q)
  BY <1>1
<1>5. Range(q) = Range(t) \cup {q[1]}
  <2>1. \A i \in 1..Len(q) : i = 1 \/ \E j \in 1..(Len(q) - 1) : q[i] = t[j]
    BY <1>1, <1>2 DEF t
  <2>2. \A j \in 1..(Len(q) - 1) : \E i \in 1..Len(q) : t[j] = q[i]
    BY <1>1, <1>3 DEF t
  <2>3. DOMAIN q = 1..Len(q) /\ DOMAIN t = 1..(Len(q) - 1)
    BY <1>1 DEF t
  <2>4. ASSUME NEW x \in Range(q)
        PROVE  x \in Range(t) \cup {q[1]}
    <3>1. PICK i \in 1..Len(q) : x = q[i]
      BY <2>3, <2>4 DEF Range
    <3>2. CASE i = 1
      BY <3>1, <3>2
    <3>3. CASE \E j \in 1..(Len(q) - 1) : q[i] = t[j]
      BY <2>3, <3>1, <3>3, Zenon DEF Range
    <3> QED
      BY <2>1, <3>2, <3>3
  <2>5. ASSUME NEW x \in Range(t) \cup {q[1]}
        PROVE  x \in Range(q)
    BY <1>4, <2>2, <2>3, Zenon DEF Range
  <2> QED
    BY <2>4, <2>5
<1>6. ASSUME NEW f, Once(q, f)
      PROVE  Once(t, f)
  <2> SUFFICES ASSUME NEW i \in 1..(Len(q) - 1), NEW j \in 1..(Len(q) - 1),
                      t[i] = f, t[j] = f
               PROVE  i = j
    BY <1>1 DEF t, Once
  <2>1. q[i + 1] = f /\ q[j + 1] = f
    BY <1>1 DEF t
  <2>2. i + 1 = j + 1
    BY <1>1, <1>3, <1>6, <2>1 DEF Once
  <2> QED
    BY <1>1, <2>2
<1>7. ASSUME Once(q, q[1])
      PROVE  q[1] \notin Range(t)
  BY <1>1, <1>3, <1>4, <1>7 DEF t, Range, Once
<1> QED
  BY <1>1, <1>4, <1>5, <1>6, <1>7 DEF t, Range

\* Two queues in a row.
LEMMA ConcatFacts ==
  ASSUME NEW S, NEW q \in Seq(S), NEW r \in Seq(S)
  PROVE  /\ q \o r \in Seq(S)
         /\ Len(q \o r) = Len(q) + Len(r)
         /\ Range(q \o r) = Range(q) \cup Range(r)
         /\ \A f : Once(q, f) /\ f \notin Range(r) => Once(q \o r, f)
<1> DEFINE s == q \o r
<1>1. /\ s \in Seq(S) /\ Len(s) = Len(q) + Len(r)
      /\ Len(q) \in Nat /\ Len(r) \in Nat
      /\ DOMAIN q = 1..Len(q) /\ DOMAIN r = 1..Len(r) /\ DOMAIN s = 1..(Len(q) + Len(r))
      /\ \A i \in 1..(Len(q) + Len(r)) :
           s[i] = IF i <= Len(q) THEN q[i] ELSE r[i - Len(q)]
  BY ConcatProperties, LenProperties
<1> HIDE DEF s
<1>2. \A i \in 1..(Len(q) + Len(r)) :
        \/ i \in 1..Len(q) /\ s[i] = q[i]
        \/ i - Len(q) \in 1..Len(r) /\ s[i] = r[i - Len(q)]
  BY <1>1
<1>3. \A i \in 1..Len(q) : i \in 1..(Len(q) + Len(r)) /\ s[i] = q[i]
  BY <1>1
<1>4. ASSUME NEW i \in 1..Len(r)
      PROVE  i + Len(q) \in 1..(Len(q) + Len(r)) /\ s[i + Len(q)] = r[i]
  <2>1. i + Len(q) \in 1..(Len(q) + Len(r)) /\ ~(i + Len(q) <= Len(q))
        /\ (i + Len(q)) - Len(q) = i
    BY <1>1
  <2> QED
    BY <1>1, <2>1
<1>5. ASSUME NEW x \in Range(s)
      PROVE  x \in Range(q) \cup Range(r)
  <2>1. PICK i \in 1..(Len(q) + Len(r)) : x = s[i]
    BY <1>1, <1>5 DEF Range
  <2> QED
    BY <1>1, <1>2, <2>1, Zenon DEF Range
<1>6. ASSUME NEW x \in Range(q) \cup Range(r)
      PROVE  x \in Range(s)
  <2>1. (\E i \in 1..Len(q) : x = q[i]) \/ (\E i \in 1..Len(r) : x = r[i])
    BY <1>1, <1>6, Zenon DEF Range
  <2>2. \E i \in 1..(Len(q) + Len(r)) : x = s[i]
    BY <1>3, <1>4, <2>1, Zenon
  <2> QED
    BY <1>1, <2>2, Zenon DEF Range
<1>7. ASSUME NEW f, Once(q, f), f \notin Range(r)
      PROVE  Once(s, f)
  <2>1. \A i \in 1..(Len(q) + Len(r)) : s[i] = f => i \in 1..Len(q) /\ q[i] = f
    BY <1>1, <1>2, <1>7, Zenon DEF Range
  <2> QED
    BY <1>1, <1>7, <2>1, Zenon DEF Once
<1> QED
  BY <1>1, <1>5, <1>6, <1>7 DEF s

\* The first k frames of a queue.
LEMMA CutFacts ==
  ASSUME NEW S, NEW q \in Seq(S), NEW k \in Nat, k <= Len(q)
  PROVE  /\ SubSeq(q, 1, k) \in Seq(S)
         /\ Len(SubSeq(q, 1, k)) = k
         /\ Range(SubSeq(q, 1, k)) \subseteq Range(q)
         /\ \A f : Once(q, f) => Once(SubSeq(q, 1, k), f)
         /\ \A i \in 1..k : q[i] \in Range(SubSeq(q, 1, k))
<1> DEFINE c == SubSeq(q, 1, k)
<1>1. Len(q) \in Nat /\ DOMAIN q = 1..Len(q) /\ \A i \in 1..k : i \in 1..Len(q) /\ q[i] \in S
  BY LenProperties, ElementOfSeq
<1>2. /\ c \in Seq(S) /\ Len(c) = k /\ DOMAIN c = 1..k
      /\ \A i \in 1..k : c[i] = q[i]
  <2>1. /\ c \in Seq(S)
        /\ Len(c) = IF 1 <= k THEN k - 1 + 1 ELSE 0
        /\ \A i \in 1 .. k - 1 + 1 : c[i] = q[1 + i - 1]
    BY <1>1, SubSeqProperties
  <2>2. Len(c) = k /\ k - 1 + 1 = k /\ \A i \in 1..k : 1 + i - 1 = i
    BY <2>1
  <2> HIDE DEF c
  <2> QED
    BY <2>1, <2>2, LenProperties
<1> HIDE DEF c
<1>3. Range(c) \subseteq Range(q)
  BY <1>1, <1>2, Zenon DEF Range
<1>4. ASSUME NEW f, Once(q, f)
      PROVE  Once(c, f)
  BY <1>1, <1>2, <1>4, Zenon DEF Once
<1>5. \A i \in 1..k : q[i] \in Range(c)
  BY <1>2, Zenon DEF Range
<1> QED
  BY <1>2, <1>3, <1>4, <1>5 DEF c

\* The sequence of a finite set has its elements and no others.
LEMMA SetToSeqFacts ==
  ASSUME NEW S, IsFiniteSet(S)
  PROVE  SetToSeq(S) \in Seq(S) /\ Range(SetToSeq(S)) = S
<1> DEFINE D == 1..Cardinality(S)
<1>1. Cardinality(S) \in Nat /\ ExistsBijection(D, S)
  BY FS_CardinalityType
<1>2. \E f \in [D -> S] : IsInjective(f)
  BY <1>1 DEF ExistsBijection, Bijection, Injection, IsInjective
<1>3. SetToSeq(S) \in [D -> S] /\ IsInjective(SetToSeq(S))
  BY <1>2 DEF SetToSeq
<1>4. SetToSeq(S) \in Injection(D, S)
  BY <1>3 DEF Injection, IsInjective
<1>5. Cardinality(D) = Cardinality(S)
  BY <1>1, FS_Interval
<1>6. SetToSeq(S) \in Surjection(D, S)
  BY <1>4, <1>5, FS_Injection
<1>7. SetToSeq(S) \in Seq(S)
  BY <1>1, <1>3
<1> QED
  BY <1>3, <1>6, <1>7 DEF Surjection, Range

\* The frames the broker writes, and those a client writes.
Stage == {"accepted", "received"}
Code == {"none", "FORBIDDEN", "DUPLICATE_CONFLICT", "TARGET_DISCONNECTED",
         "INVALID_CORRELATION", "CAPACITY", "CANCELLED", "TIMEOUT"}
Frame ==
  UNION { {MessageFrame(m) : m \in Message},
          {StageFrame(s, m) : s \in Stage, m \in Message},
          {ErrorFrame(m, code) : m \in Message, code \in Code},
          {GoneFrame(a) : a \in Agent},
          {ShutdownFrame} }
SendFrame(m) == [type |-> "send", msg |-> m]
ReceivedFrame(m) == [type |-> "received", msg |-> m]
UpFrame == {SendFrame(m) : m \in Message} \cup {ReceivedFrame(m) : m \in Message}

\* What a type says of the frame.
LEMMA FrameFacts ==
  ASSUME NEW f \in Frame
  PROVE  /\ f.type \in {"message", "accepted", "received", "error", "peer-disconnected",
                        "shutdown"}
         /\ f.type = "message" => f.msg \in Message /\ f = MessageFrame(f.msg)
         /\ f.type \in Stage \cup {"error"} => f.msg \in Message
BY DEF Frame, MessageFrame, StageFrame, ErrorFrame, GoneFrame, ShutdownFrame, Stage

\* Every frame the broker may write is one.
LEMMA FramesTyped ==
  /\ \A m \in Message : MessageFrame(m) \in Frame
  /\ \A m \in Message, s \in Stage : StageFrame(s, m) \in Frame
  /\ \A m \in Message, code \in Code : ErrorFrame(m, code) \in Frame
  /\ \A a \in Agent : GoneFrame(a) \in Frame
  /\ ShutdownFrame \in Frame
BY DEF Frame
\* A broker's side of the sockets: frames within the budget.
NetOK(n) ==
  /\ n \in [broken : SUBSET Agent, chunk : SUBSET Agent, queue : [Agent -> Seq(Frame)]]
  /\ \A a \in Agent : Len(n.queue[a]) <= MaxQueue

\* Net n became net k by writing to each agent b the frames new[b], or by breaking its
\* socket.
Sends(n, k, new) ==
  /\ NetOK(k)
  /\ n.broken \subseteq k.broken
  /\ \A b \in Agent :
       /\ Range(n.queue[b]) \subseteq Range(k.queue[b])
       /\ Range(k.queue[b]) \subseteq Range(n.queue[b]) \cup new[b]
       /\ \A f \in Frame : Once(n.queue[b], f) /\ f \notin new[b] => Once(k.queue[b], f)
       /\ b \in online => b \in k.broken \/ new[b] \subseteq Range(k.queue[b])

\* One frame for one agent.
To(a, f) == [b \in Agent |-> IF b = a THEN {f} ELSE {}]

\* What of a chunk is left to be read is no matter for what was written.
LEMMA ServedSends ==
  ASSUME NEW n, NEW k, NEW new, Sends(n, k, new), NEW as
  PROVE  Sends(n, Served(k, as), new)
<1>1. /\ NetOK(Served(k, as)) /\ Served(k, as).broken = k.broken
      /\ Served(k, as).queue = k.queue
  BY DEF Served, NetOK, Sends
<1> QED
  BY <1>1 DEF Sends

\* A write reaches its agent or breaks its socket.
LEMMA WriteSends ==
  ASSUME NEW n, NetOK(n), NEW a \in Agent, NEW f \in Frame
  PROVE  /\ Sends(n, Write(n, a, f), To(a, f))
         /\ Once(n.queue[a], f) /\ f \notin Range(n.queue[a])
              => Once(Write(n, a, f).queue[a], f)
<1>1. CASE a \notin online
  BY <1>1 DEF Write, Sends, NetOK, To
<1>2. CASE a \in online /\ ~Writable(n, a)
  BY <1>2 DEF Write, Sends, NetOK, To
<1>3. CASE a \in online /\ Writable(n, a)
  <2> DEFINE q == n.queue[a]
             k == Write(n, a, f)
  <2>1. q \in Seq(Frame) /\ Len(q) \in Nat /\ Len(q) < MaxQueue
    BY <1>3, LenProperties DEF NetOK, Writable
  <2>2. k = [n EXCEPT !.queue[a] = Append(q, f)]
    BY <1>3 DEF Write
  <2>3. /\ k.broken = n.broken
        /\ k.queue = [n.queue EXCEPT ![a] = Append(q, f)]
        /\ k \in [broken : SUBSET Agent, chunk : SUBSET Agent, queue : [Agent -> Seq(Frame)]]
        /\ k.queue[a] = Append(q, f)
        /\ \A b \in Agent : b # a => k.queue[b] = n.queue[b]
    <3>1. n \in [broken : SUBSET Agent, chunk : SUBSET Agent, queue : [Agent -> Seq(Frame)]]
      BY DEF NetOK
    <3>2. Append(q, f) \in Seq(Frame)
      BY <2>1, AppendFacts
    <3> HIDE DEF q, k
    <3> QED
      BY <2>2, <3>1, <3>2
  <2>4. /\ Len(Append(q, f)) = Len(q) + 1
        /\ Range(Append(q, f)) = Range(q) \cup {f}
        /\ \A g : Once(q, g) /\ (g # f \/ g \notin Range(q)) => Once(Append(q, f), g)
    BY <2>1, AppendFacts
  <2>5. NetOK(k)
    BY <2>1, <2>3, <2>4, BrokerAssumption DEF NetOK
  <2> HIDE DEF k
  <2>6. Sends(n, k, To(a, f))
    <3> SUFFICES ASSUME NEW b \in Agent
                 PROVE  /\ Range(n.queue[b]) \subseteq Range(k.queue[b])
                        /\ Range(k.queue[b]) \subseteq Range(n.queue[b]) \cup To(a, f)[b]
                        /\ \A g \in Frame : Once(n.queue[b], g) /\ g \notin To(a, f)[b]
                                              => Once(k.queue[b], g)
                        /\ To(a, f)[b] \subseteq Range(k.queue[b])
      BY <2>3, <2>5 DEF Sends
    <3>1. CASE b = a
      BY <2>3, <2>4, <3>1 DEF To
    <3>2. CASE b # a
      BY <2>3, <3>2 DEF To
    <3> QED
      BY <3>1, <3>2
  <2> QED
    BY <2>3, <2>4, <2>6 DEF k
<1> QED
  BY <1>1, <1>2, <1>3
\* Frames for several agents, one after the other.
LEMMA WriteEachSends ==
  ASSUME NEW n, NetOK(n), online \subseteq Agent, NEW frames \in [Agent -> Seq(Frame)]
  PROVE  Sends(n, WriteEach(n, frames), [b \in Agent |-> Range(frames[b])])
<1> DEFINE line(b) == n.queue[b] \o frames[b]
           over == {b \in online : Len(line(b)) > MaxQueue}
           sent == [b \in Agent |-> IF b \notin online \ n.broken THEN n.queue[b]
                                    ELSE IF b \in over THEN SubSeq(line(b), 1, MaxQueue)
                                    ELSE line(b)]
           k == WriteEach(n, frames)
<1>1. k.broken = n.broken \cup over /\ k.queue = sent
  BY DEF WriteEach
<1>2. k \in [broken : {n.broken \cup over}, chunk : {n.chunk}, queue : {sent}]
  BY DEF WriteEach
<1>3. MaxQueue \in Nat
  BY BrokerAssumption
<1> HIDE DEF k, sent
<1>4. ASSUME NEW b \in Agent
      PROVE  /\ k.queue[b] \in Seq(Frame)
             /\ Len(k.queue[b]) <= MaxQueue
             /\ Range(n.queue[b]) \subseteq Range(k.queue[b])
             /\ Range(k.queue[b]) \subseteq Range(n.queue[b]) \cup Range(frames[b])
             /\ \A f : Once(n.queue[b], f) /\ f \notin Range(frames[b]) => Once(k.queue[b], f)
             /\ b \in online => b \in k.broken \/ Range(frames[b]) \subseteq Range(k.queue[b])
  <2> DEFINE q == n.queue[b]
             l == line(b)
  <2>1. q \in Seq(Frame) /\ frames[b] \in Seq(Frame) /\ Len(q) <= MaxQueue
    BY DEF NetOK
  <2>2. /\ l \in Seq(Frame) /\ Len(l) = Len(q) + Len(frames[b])
        /\ Range(l) = Range(q) \cup Range(frames[b])
        /\ \A f : Once(q, f) /\ f \notin Range(frames[b]) => Once(l, f)
    BY <2>1, ConcatFacts
  <2>3. Len(l) \in Nat /\ Len(q) \in Nat
    BY <2>1, <2>2, LenProperties
  <2>4. CASE b \notin online \ n.broken
    <3>1. k.queue[b] = q
      BY <1>1, <2>4 DEF sent
    <3> HIDE DEF l
    <3> QED
      BY <1>1, <2>1, <2>4, <3>1
  <2>5. CASE b \in online \ n.broken /\ b \notin over
    <3>1. k.queue[b] = l
      BY <1>1, <2>5 DEF sent
    <3>2. ~(Len(l) > MaxQueue)
      BY <2>5
    <3> HIDE DEF l, q
    <3> QED
      BY <1>3, <2>2, <2>3, <3>1, <3>2 DEF q
  <2>6. CASE b \in online \ n.broken /\ b \in over
    <3> DEFINE c == SubSeq(l, 1, MaxQueue)
    <3>1. k.queue[b] = c /\ b \in k.broken
      BY <1>1, <2>6 DEF sent
    <3>2. MaxQueue <= Len(l)
      BY <1>3, <2>3, <2>6
    <3>3. /\ c \in Seq(Frame) /\ Len(c) = MaxQueue /\ Range(c) \subseteq Range(l)
          /\ \A f : Once(l, f) => Once(c, f)
          /\ \A i \in 1..MaxQueue : l[i] \in Range(c)
      BY <1>3, <2>2, <3>2, CutFacts
    <3>4. Range(q) \subseteq Range(c)
      <4>1. \A i \in 1..Len(q) : i \in 1..MaxQueue /\ l[i] = q[i]
        BY <1>3, <2>1, <2>3, ConcatProperties, LenProperties
      <4>2. DOMAIN q = 1..Len(q)
        BY <2>1, LenProperties
      <4> HIDE DEF c, l, q
      <4> QED
        BY <3>3, <4>1, <4>2, Zenon DEF Range
    <3> HIDE DEF c, l, q
    <3> QED
      BY <1>3, <2>2, <3>1, <3>3, <3>4 DEF q
  <2> QED
    BY <2>4, <2>5, <2>6
<1>5. NetOK(k)
  <2>1. n.broken \cup over \subseteq Agent /\ n.chunk \subseteq Agent
    BY DEF NetOK
  <2>2. k.queue \in [Agent -> Seq(Frame)]
    BY <1>1, <1>4 DEF sent
  <2> QED
    BY <1>1, <1>2, <1>4, <2>1, <2>2 DEF NetOK
<1> QED
  BY <1>1, <1>4, <1>5 DEF Sends, k

\* The same frame for several agents.
LEMMA WriteAllSends ==
  ASSUME NEW n, NetOK(n), online \subseteq Agent, NEW as, NEW f \in Frame
  PROVE  Sends(n, WriteAll(n, as, f), [b \in Agent |-> IF b \in as THEN {f} ELSE {}])
<1> DEFINE frames == [b \in Agent |-> IF b \in as THEN <<f>> ELSE <<>>]
<1>a. <<f>> \in Seq(Frame) /\ DOMAIN <<f>> = 1..1 /\ <<f>>[1] = f
  OBVIOUS
<1>b. <<>> \in Seq(Frame) /\ DOMAIN <<>> = {}
  OBVIOUS
<1>c. Range(<<f>>) = {f} /\ Range(<<>>) = {}
  BY <1>a, <1>b DEF Range
<1>1. frames \in [Agent -> Seq(Frame)]
  BY <1>a, <1>b
<1>2. \A b \in Agent : Range(frames[b]) = IF b \in as THEN {f} ELSE {}
  BY <1>c
<1>3. [b \in Agent |-> Range(frames[b])] = [b \in Agent |-> IF b \in as THEN {f} ELSE {}]
  BY <1>2
<1> HIDE DEF frames
<1> QED
  BY <1>1, <1>3, WriteEachSends DEF WriteAll, frames

\* The errors that the requests bring to agent b.
Errors(requests, code, b) == {ErrorFrame(r, code) : r \in {q \in requests : q.from = b}}

\* Every requester is told of the end of each of its requests.
LEMMA FailSends ==
  ASSUME NEW n, NetOK(n), online \subseteq Agent, NEW requests \in SUBSET Message, NEW code \in Code
  PROVE  Sends(n, FailRequests(n, requests, code),
               [b \in Agent |-> Errors(requests, code, b)])
<1> DEFINE frames == [b \in Agent |-> SetToSeq(Errors(requests, code, b))]
<1>1. ASSUME NEW b \in Agent
      PROVE  SetToSeq(Errors(requests, code, b)) \in Seq(Frame)
             /\ Range(SetToSeq(Errors(requests, code, b))) = Errors(requests, code, b)
  <2> DEFINE R == {q \in requests : q.from = b}
             E == Errors(requests, code, b)
             e == [r \in R |-> ErrorFrame(r, code)]
  <2>1. IsFiniteSet(R)
    BY Finite
  <2>2. e \in Surjection(R, E)
    BY DEF Surjection, Errors
  <2>3. IsFiniteSet(E)
    BY <2>1, <2>2, FS_Surjection
  <2>4. E \subseteq Frame
    BY FramesTyped DEF Errors
  <2> HIDE DEF E
  <2>5. SetToSeq(E) \in Seq(E) /\ Range(SetToSeq(E)) = E
    BY <2>3, SetToSeqFacts
  <2>6. SetToSeq(E) \in Seq(Frame)
    BY <2>4, <2>5, SeqMonotonic
  <2> QED
    BY <2>5, <2>6 DEF E
<1>2. frames \in [Agent -> Seq(Frame)]
  BY <1>1
<1>3. [b \in Agent |-> Range(frames[b])] = [b \in Agent |-> Errors(requests, code, b)]
  BY <1>1
<1>4. FailRequests(n, requests, code) = WriteEach(n, frames)
  BY DEF FailRequests, Errors
<1> HIDE DEF frames
<1> QED
  BY <1>2, <1>3, <1>4, WriteEachSends

\* Writes in sequence.
LEMMA SendsThen ==
  ASSUME NEW n, NEW k, NEW l, NEW x \in [Agent -> SUBSET Frame], NEW y \in [Agent -> SUBSET Frame],
         Sends(n, k, x), Sends(k, l, y)
  PROVE  Sends(n, l, [b \in Agent |-> x[b] \cup y[b]])
BY DEF Sends

\* A write that is not made.
LEMMA SendsNothing ==
  ASSUME NEW n, NetOK(n)
  PROVE  Sends(n, n, [b \in Agent |-> {}])
BY DEF Sends
-----------------------------------------------------------------------------
(* What the broker's steps write. *)

\* Request r is over for its caller: it has been told, or its connection goes down.
Told(r) ==
  \/ \E f \in Range(net.queue[r.from]) : Settles(f, r)
  \/ r.from \notin online \ net.broken

\* A step of the broker that passes on the envelopes ms: whatever else it writes is no
\* message, a receipt is one it has on record, and who waits is not forgotten.
Pushed(ms) ==
  /\ NetOK(net')
  /\ \A b \in Agent :
       /\ Range(net.queue[b]) \subseteq Range(net'.queue[b])
       /\ \A f \in Range(net'.queue[b]) \ Range(net.queue[b]) :
            /\ f.type = "message" => f.msg \in ms /\ f.msg.to = b
            /\ f.type = "received" => f.msg \in received'
       /\ \A m \in Message \ ms :
            Once(net.queue[b], MessageFrame(m)) => Once(net'.queue[b], MessageFrame(m))
  /\ \A r \in Requests : Told(r) => Told(r)'
  /\ \A r \in pending : r \in pending' \/ Told(r)'

\* What a step of writes alone has to show for it.
LEMMA SendsPush ==
  ASSUME NEW n, n.queue = net.queue, NEW new \in [Agent -> SUBSET Frame],
         Sends(n, net', new), NEW ms,
         pending \subseteq Message,
         online' \subseteq online, net.broken \cap online' \subseteq n.broken,
         \A b \in Agent : \A f \in new[b] :
            /\ f.type = "message" => f.msg \in ms /\ f.msg.to = b
            /\ f.type = "received" => f.msg \in received',
         \A r \in pending \ pending' :
            (\E f \in new[r.from] : Settles(f, r)) \/ r.from \notin online'
  PROVE  Pushed(ms)
<1>1. \A m \in Message : m.from \in Agent /\ MessageFrame(m) \in Frame
                         /\ MessageFrame(m).type = "message" /\ MessageFrame(m).msg = m
  BY BrokerAssumption, FramesTyped DEF MessageFrame
<1>2. \A r \in Requests : r \in Message
  BY DEF Requests
<1>3. ASSUME NEW r \in Requests, Told(r)
      PROVE  Told(r)'
  BY <1>1, <1>2, <1>3 DEF Told, Sends
<1>4. ASSUME NEW r \in pending, r \notin pending'
      PROVE  Told(r)'
  BY <1>1, <1>4 DEF Told, Sends
<1>5. \A b \in Agent :
       /\ Range(net.queue[b]) \subseteq Range(net'.queue[b])
       /\ \A f \in Range(net'.queue[b]) \ Range(net.queue[b]) :
            /\ f.type = "message" => f.msg \in ms /\ f.msg.to = b
            /\ f.type = "received" => f.msg \in received'
  BY DEF Sends
<1>6. \A b \in Agent, m \in Message \ ms :
        Once(net.queue[b], MessageFrame(m)) => Once(net'.queue[b], MessageFrame(m))
  BY <1>1 DEF Sends
<1> QED
  BY <1>3, <1>4, <1>5, <1>6 DEF Pushed, Sends

\* A refused envelope: its sender is told.
LEMMA RefusePush ==
  ASSUME TypeOK, NetOK(net), NEW m \in Message, RouteRefuse(m)
  PROVE  Pushed({}) /\ (m \in Requests => Told(m)')
<1> DEFINE code == Refusal(m, Retained(m))
           full == code = "TARGET_DISCONNECTED" /\ m.to \in online /\ ~Writable(net, m.to)
           n == IF full THEN [net EXCEPT !.broken = @ \cup {m.to}] ELSE net
           f == ErrorFrame(m, code)
<1>1. /\ net' = Served(Write(n, m.from, f), {m.from})
      /\ online' = online /\ pending' = pending
  BY DEF RouteRefuse
<1>2. m.from \in Agent /\ m.to \in Agent /\ online \subseteq Agent /\ pending \subseteq Message
  BY BrokerAssumption DEF TypeOK
<1>3. code \in Code
  BY DEF Refusal, Code
<1>4. f \in Frame /\ f.type = "error" /\ f.msg = m
  BY <1>3, FramesTyped DEF ErrorFrame
<1>5. NetOK(n) /\ n.queue = net.queue /\ net.broken \subseteq n.broken
  BY <1>2 DEF NetOK
<1> HIDE DEF n, f
<1>6. Sends(n, net', To(m.from, f)) /\ To(m.from, f) \in [Agent -> SUBSET Frame]
  BY <1>1, <1>2, <1>4, <1>5, WriteSends, ServedSends DEF To
<1>7. Pushed({})
  BY <1>1, <1>2, <1>4, <1>5, <1>6, SendsPush DEF To
<1>8. Settles(f, m)
  BY <1>4 DEF Settles, SameKey
<1> QED
  BY <1>1, <1>2, <1>6, <1>7, <1>8 DEF Sends, To, Told

\* A replayed acceptance or receipt.
LEMMA ReplayPush ==
  ASSUME TypeOK, NetOK(net), NEW m \in Message, RouteReplay(m)
  PROVE  Pushed({})
<1> DEFINE f == StageFrame("accepted", m)
           g == StageFrame("received", m)
           n == Write(net, m.from, f)
<1>1. /\ net' = Served(IF m \in received THEN Write(n, m.from, g) ELSE n, {m.from})
      /\ online' = online /\ pending' = pending
      /\ m \in received => m \in received'
  BY DEF RouteReplay, Keep
<1>2. m.from \in Agent /\ online \subseteq Agent /\ pending \subseteq Message
  BY BrokerAssumption DEF TypeOK
<1>3. f \in Frame /\ f.type = "accepted" /\ g \in Frame /\ g.type = "received" /\ g.msg = m
  BY FramesTyped DEF StageFrame, Stage
<1> HIDE DEF f, g
<1>4. Sends(net, n, To(m.from, f))
  BY <1>2, <1>3, WriteSends
<1>7. To(m.from, f) \in [Agent -> SUBSET Frame] /\ To(m.from, g) \in [Agent -> SUBSET Frame]
  BY <1>3 DEF To
<1>8. NetOK(n)
  BY <1>4 DEF Sends
<1> HIDE DEF n
<1>5. CASE m \in received
  <2> DEFINE new == [b \in Agent |-> To(m.from, f)[b] \cup To(m.from, g)[b]]
  <2>1. Sends(n, net', To(m.from, g))
    BY <1>1, <1>2, <1>3, <1>5, <1>8, WriteSends, ServedSends
  <2>2. Sends(net, net', new) /\ new \in [Agent -> SUBSET Frame]
    BY <1>4, <1>7, <2>1, SendsThen
  <2>3. \A b \in Agent : \A h \in new[b] : h \in {f, g}
    BY DEF To
  <2> HIDE DEF new
  <2> QED
    BY <1>1, <1>2, <1>3, <1>5, <2>2, <2>3, SendsPush
<1>6. CASE m \notin received
  <2>1. Sends(net, net', To(m.from, f))
    BY <1>1, <1>4, <1>6, ServedSends
  <2> QED
    BY <1>1, <1>2, <1>3, <1>7, <2>1, SendsPush DEF To
<1> QED
  BY <1>5, <1>6

\* An accepted envelope: it is the only message written, to its recipient, and what it
\* ends is answered or told.
LEMMA AcceptPush ==
  ASSUME TypeOK, NetOK(net), NEW m \in Message, RouteAccept(m)
  PROVE  /\ Pushed({m})
         /\ MessageFrame(m) \notin Range(net.queue[m.to]) =>
              Once(net'.queue[m.to], MessageFrame(m))
<1> DEFINE f == MessageFrame(m)
           g == StageFrame("accepted", m)
           n == Write(net, m.to, f)
           k == IF m.kind = "cancel" THEN FailRequests(n, Closed(m), "CANCELLED") ELSE n
           e == [b \in Agent |-> IF m.kind = "cancel" THEN Errors(Closed(m), "CANCELLED", b)
                                 ELSE {}]
<1>1. /\ net' = Served(Write(k, m.from, g), {m.from})
      /\ online' = online /\ pending' = OpenAfter(m)
      /\ Refusal(m, Retained(m)) = "none" /\ m \notin Retained(m)
  BY DEF RouteAccept
<1>2. /\ m.from \in Agent /\ m.to \in Agent /\ online \subseteq Agent
      /\ pending \subseteq Message /\ Closed(m) \in SUBSET Message
      /\ \A r \in pending : r.from \in Agent
  BY BrokerAssumption DEF TypeOK, Closed, Correlated
<1>3. /\ f \in Frame /\ f.type = "message" /\ f.msg = m
      /\ g \in Frame /\ g.type = "accepted"
  BY FramesTyped DEF StageFrame, Stage, MessageFrame
<1>e. \A b \in Agent : e[b] \subseteq Frame /\ \A h \in e[b] : h.type = "error"
  <2> SUFFICES ASSUME NEW b \in Agent, NEW r \in Closed(m)
               PROVE  ErrorFrame(r, "CANCELLED") \in Frame
                      /\ ErrorFrame(r, "CANCELLED").type = "error"
    BY DEF Errors
  <2> QED
    BY <1>2, FramesTyped DEF ErrorFrame, Code
<1>4. e \in [Agent -> SUBSET Frame] /\ To(m.to, f) \in [Agent -> SUBSET Frame]
      /\ To(m.from, g) \in [Agent -> SUBSET Frame]
  BY <1>2, <1>3, <1>e DEF To
<1> HIDE DEF f, g
<1>5. /\ Sends(net, n, To(m.to, f))
      /\ f \notin Range(net.queue[m.to]) => Once(n.queue[m.to], f)
  <2>1. f \notin Range(net.queue[m.to]) => Once(net.queue[m.to], f)
    BY DEF Once, Range
  <2> QED
    BY <1>2, <1>3, <2>1, WriteSends
<1>6. NetOK(n)
  BY <1>5 DEF Sends
<1> HIDE DEF n
<1>7. Sends(n, k, e) /\ NetOK(k)
  <2>1. CASE m.kind = "cancel"
    <3>1. k = FailRequests(n, Closed(m), "CANCELLED")
          /\ e = [b \in Agent |-> Errors(Closed(m), "CANCELLED", b)]
      BY <2>1
    <3>2. "CANCELLED" \in Code
      BY DEF Code
    <3> HIDE DEF k, e
    <3>3. Sends(n, k, e)
      BY <1>2, <1>6, <3>1, <3>2, FailSends
    <3> QED
      BY <3>3 DEF Sends
  <2>2. CASE m.kind # "cancel"
    BY <1>6, <2>2, SendsNothing DEF Sends
  <2> QED
    BY <2>1, <2>2
<1> HIDE DEF k, e
<1>8. Sends(k, net', To(m.from, g))
  BY <1>1, <1>2, <1>3, <1>7, WriteSends, ServedSends
<1> DEFINE x == [b \in Agent |-> To(m.to, f)[b] \cup e[b]]
           new == [b \in Agent |-> x[b] \cup To(m.from, g)[b]]
<1>9. x \in [Agent -> SUBSET Frame] /\ Sends(net, k, x)
  BY <1>4, <1>5, <1>7, SendsThen
<1> HIDE DEF x
<1>10. new \in [Agent -> SUBSET Frame] /\ Sends(net, net', new)
  BY <1>4, <1>8, <1>9, SendsThen
<1>11. \A b \in Agent : \A h \in new[b] : h = g \/ h.type = "error" \/ (h = f /\ b = m.to)
  BY <1>3, <1>4, <1>e DEF x, To
<1>12. ASSUME NEW r \in pending \ pending'
       PROVE  \E h \in new[r.from] : Settles(h, r)
  <2>1. r \in Closed(m)
    BY <1>1, <1>12 DEF OpenAfter
  <2>2. CASE m.kind = "reply"
    <3>1. r.from = m.to /\ r.to = m.from /\ r.id = m.corr
      BY <2>1, <2>2 DEF Closed, Correlated
    <3>2. f \in new[r.from] /\ Settles(f, r)
      BY <1>2, <1>3, <2>2, <3>1 DEF x, To, Settles
    <3> QED
      BY <3>2
  <2>3. CASE m.kind = "cancel"
    <3>1. ErrorFrame(r, "CANCELLED") \in new[r.from]
      BY <1>2, <2>1, <2>3 DEF x, e, Errors
    <3>2. Settles(ErrorFrame(r, "CANCELLED"), r)
      BY DEF Settles, ErrorFrame, SameKey
    <3> QED
      BY <3>1, <3>2
  <2> QED
    BY <2>1, <2>2, <2>3 DEF Closed, Correlated
<1>13. Pushed({m})
  <2> HIDE DEF new
  <2>1. online' = online
    BY <1>1
  <2>2. \A b \in Agent : \A h \in new[b] :
          /\ h.type = "message" => h.msg \in {m} /\ h.msg.to = b
          /\ h.type = "received" => h.msg \in received'
    BY <1>3, <1>11
  <2> QED
    BY <1>2, <1>10, <1>12, <2>1, <2>2, SendsPush
<1>14. ASSUME f \notin Range(net.queue[m.to])
       PROVE  Once(net'.queue[m.to], f)
  <2>1. Once(n.queue[m.to], f)
    BY <1>5, <1>14
  <2>2. f \notin e[m.to] /\ f \notin To(m.from, g)[m.to]
    BY <1>2, <1>3, <1>e DEF To
  <2>3. Once(k.queue[m.to], f)
    BY <1>2, <1>3, <1>7, <2>1, <2>2 DEF Sends
  <2> QED
    BY <1>2, <1>3, <1>8, <2>2, <2>3 DEF Sends
<1> QED
  BY <1>13, <1>14 DEF f
\* A confirmed receipt is passed on; a false one breaks the socket it came from.
LEMMA ReceiptPush ==
  ASSUME TypeOK, NetOK(net), NEW a \in Agent, NEW m \in Message, Receipt(a, m)
  PROVE  Pushed({}) /\ received' \subseteq received \cup {m}
<1> DEFINE f == StageFrame("received", m)
<1>1. /\ online' = online /\ pending' = pending /\ a \in online
      /\ received' \subseteq received \cup {m}
  BY DEF Receipt, Reads
<1>2. m.from \in Agent /\ online \subseteq Agent /\ pending \subseteq Message
  BY BrokerAssumption DEF TypeOK
<1>3. f \in Frame /\ f.type = "received" /\ f.msg = m
  BY FramesTyped DEF StageFrame, Stage
<1> HIDE DEF f
<1>4. CASE m \in Pruned /\ m.to = a
  <2>1. net' = Served(Write(net, m.from, f), {a}) /\ m \in received'
    BY <1>4 DEF Receipt, f
  <2>2. Sends(net, net', To(m.from, f))
    BY <1>2, <1>3, <2>1, WriteSends, ServedSends
  <2>3. To(m.from, f) \in [Agent -> SUBSET Frame]
    BY <1>3 DEF To
  <2> QED
    BY <1>1, <1>2, <1>3, <2>1, <2>2, <2>3, SendsPush DEF To
<1>5. CASE ~(m \in Pruned /\ m.to = a)
  <2>1. net' = [net EXCEPT !.broken = @ \cup {a}, !.chunk = {}]
    BY <1>5 DEF Receipt
  <2>2. NetOK(net') /\ net'.queue = net.queue /\ net.broken \subseteq net'.broken
    BY <1>2, <2>1 DEF NetOK
  <2>3. Sends(net', net', [b \in Agent |-> {}])
    BY <2>2, SendsNothing
  <2>4. [b \in Agent |-> {}] \in [Agent -> SUBSET Frame]
    OBVIOUS
  <2> QED
    BY <1>1, <1>2, <2>2, <2>3, <2>4, SendsPush
<1> QED
  BY <1>1, <1>4, <1>5

\* A request that timed out is told to its caller.
LEMMA TimeoutPush ==
  ASSUME TypeOK, NetOK(net), NEW m \in Message, RequestTimeout(m)
  PROVE  Pushed({})
<1> DEFINE new == [b \in Agent |-> Errors({m}, "TIMEOUT", b)]
<1>1. /\ net' = Served(FailRequests(net, {m}, "TIMEOUT"), {})
      /\ online' = online /\ pending' = pending \ {m}
  BY DEF RequestTimeout
<1>2. m.from \in Agent /\ online \subseteq Agent /\ pending \subseteq Message
  BY BrokerAssumption DEF TypeOK
<1>3. Sends(net, net', new)
  BY <1>1, <1>2, FailSends, ServedSends DEF Code
<1>4. \A b \in Agent : new[b] \subseteq {ErrorFrame(m, "TIMEOUT")}
  BY DEF Errors
<1>5. ErrorFrame(m, "TIMEOUT") \in new[m.from] /\ Settles(ErrorFrame(m, "TIMEOUT"), m)
  BY <1>2 DEF Errors, Settles, ErrorFrame, SameKey
<1>6. ErrorFrame(m, "TIMEOUT") \in Frame /\ ErrorFrame(m, "TIMEOUT").type = "error"
  BY FramesTyped DEF ErrorFrame, Code
<1>7. new \in [Agent -> SUBSET Frame]
  BY <1>4, <1>6
<1> HIDE DEF new
<1> QED
  BY <1>1, <1>2, <1>3, <1>4, <1>5, <1>6, <1>7, SendsPush

\* A closed broker has no open requests.
ClosedQuiet == closed => pending = {}

\* A lost connection: the requests that depended on it are told to who is still there.
LEMMA DisconnectPush ==
  ASSUME TypeOK, NetOK(net), ClosedQuiet, NEW a \in Agent, Disconnect(a)
  PROVE  Pushed({})
<1> DEFINE others == {b \in online \ {a} : Group[b] = Group[a]}
           told == {r \in Abandoned(a) : r.from # a}
           n == [net EXCEPT !.broken = @ \ {a}, !.chunk = {}]
           k == FailRequests(n, told, "TARGET_DISCONNECTED")
           e == [b \in Agent |-> Errors(told, "TARGET_DISCONNECTED", b)]
           g == [b \in Agent |-> IF b \in others THEN {GoneFrame(a)} ELSE {}]
           new == [b \in Agent |-> e[b] \cup g[b]]
<1>1. /\ net' = IF closed THEN n ELSE WriteAll(k, others, GoneFrame(a))
      /\ online' = online \ {a} /\ pending' = pending \ Abandoned(a)
  BY DEF Disconnect
<1>2. online \subseteq Agent /\ pending \subseteq Message /\ \A r \in pending : r.from \in Agent
  BY BrokerAssumption DEF TypeOK
<1>3. /\ NetOK(n) /\ n.queue = net.queue
      /\ online' \subseteq online /\ net.broken \cap online' \subseteq n.broken
  BY <1>1 DEF NetOK
<1>4. told \in SUBSET Message /\ told \subseteq pending
  BY <1>2 DEF Abandoned
<1>5. GoneFrame(a) \in Frame /\ GoneFrame(a).type = "peer-disconnected"
  BY FramesTyped DEF GoneFrame
<1>6. \A b \in Agent : \A f \in e[b] : f \in Frame /\ f.type = "error"
  <2> SUFFICES ASSUME NEW r \in told
               PROVE  LET f == ErrorFrame(r, "TARGET_DISCONNECTED") IN
                      f \in Frame /\ f.type = "error"
    BY DEF Errors
  <2> QED
    BY <1>4, FramesTyped DEF ErrorFrame, Code
<1>7. e \in [Agent -> SUBSET Frame] /\ g \in [Agent -> SUBSET Frame]
  BY <1>5, <1>6
<1>8. ASSUME NEW r \in pending \ pending'
      PROVE  (\E f \in e[r.from] : Settles(f, r)) \/ r.from \notin online'
  <2>1. CASE r.from = a
    BY <1>1, <2>1
  <2>2. CASE r.from # a
    <3>1. r \in told
      BY <1>1, <1>8, <2>2
    <3>2. ErrorFrame(r, "TARGET_DISCONNECTED") \in e[r.from]
      BY <1>2, <3>1 DEF Errors
    <3> QED
      BY <3>2 DEF Settles, ErrorFrame, SameKey
  <2> QED
    BY <2>1, <2>2
<1>9. Sends(n, k, e) /\ NetOK(k)
  <2>1. Sends(n, k, e)
    BY <1>2, <1>3, <1>4, FailSends DEF Code
  <2> QED
    BY <2>1 DEF Sends
<1> HIDE DEF n, e, k
<1>10. CASE closed
  <2>1. Sends(n, net', [b \in Agent |-> {}]) /\ [b \in Agent |-> {}] \in [Agent -> SUBSET Frame]
    BY <1>1, <1>3, <1>10, SendsNothing
  <2>2. pending = {}
    BY <1>10 DEF ClosedQuiet
  <2> QED
    BY <1>2, <1>3, <2>1, <2>2, SendsPush
<1>11. CASE ~closed
  <2>1. Sends(k, net', g)
    BY <1>1, <1>2, <1>5, <1>9, <1>11, WriteAllSends
  <2>2. Sends(n, net', new) /\ new \in [Agent -> SUBSET Frame]
    BY <1>7, <1>9, <2>1, SendsThen
  <2>3. \A b \in Agent : \A f \in new[b] : f.type \in {"error", "peer-disconnected"}
    BY <1>5, <1>6
  <2>4. \A r \in pending \ pending' : (\E f \in new[r.from] : Settles(f, r)) \/ r.from \notin online'
    BY <1>2, <1>8
  <2> HIDE DEF new, g
  <2> QED
    BY <1>2, <1>3, <2>2, <2>3, <2>4, SendsPush
<1> QED
  BY <1>10, <1>11

\* The end of the broker breaks every socket.
LEMMA ShutdownPush ==
  ASSUME TypeOK, NetOK(net), Shutdown
  PROVE  Pushed({})
<1> DEFINE k == WriteAll(net, online, ShutdownFrame)
           new == [b \in Agent |-> IF b \in online THEN {ShutdownFrame} ELSE {}]
<1>1. /\ net' = [k EXCEPT !.broken = online, !.chunk = {}]
      /\ online' = online
  BY DEF Shutdown
<1>2. online \subseteq Agent
  BY DEF TypeOK
<1>3. ShutdownFrame \in Frame /\ ShutdownFrame.type = "shutdown"
  BY FramesTyped DEF ShutdownFrame
<1>4. Sends(net, k, new)
  BY <1>2, <1>3, WriteAllSends
<1> HIDE DEF k
<1>5. NetOK(net') /\ net'.queue = k.queue /\ net'.broken = online
  BY <1>1, <1>2, <1>4 DEF Sends, NetOK
<1>6. \A r : Told(r)'
  BY <1>1, <1>5 DEF Told
<1>7. \A m \in Message : MessageFrame(m) \in Frame /\ MessageFrame(m).type = "message"
  BY FramesTyped DEF MessageFrame
<1> QED
  BY <1>3, <1>4, <1>5, <1>6, <1>7 DEF Pushed, Sends

\* Steps that write nothing.
LEMMA SilentPush ==
  ASSUME NetOK(net), UNCHANGED <<online, net, pending>>
  PROVE  Pushed({})
BY DEF Pushed, Told
\* A connection begins with an empty queue; the others are as they were.
LEMMA HelloFacts ==
  ASSUME NetOK(net), NEW a \in Agent, Hello(a)
  PROVE  /\ NetOK(net')
         /\ net'.queue[a] = <<>> /\ Range(net'.queue[a]) = {}
         /\ \A b \in Agent : b # a => net'.queue[b] = net.queue[b]
         /\ \A r \in Requests : r.from # a /\ Told(r) => Told(r)'
<1>1. /\ net' = [net EXCEPT !.broken = @ \ {a}, !.chunk = {}, !.queue[a] = <<>>]
      /\ online' = online \cup {a}
  BY DEF Hello
<1>2. /\ net \in [broken : SUBSET Agent, chunk : SUBSET Agent, queue : [Agent -> Seq(Frame)]]
      /\ \A b \in Agent : Len(net.queue[b]) <= MaxQueue
  BY DEF NetOK
<1>3. <<>> \in Seq(Frame) /\ Len(<<>>) = 0 /\ 0 <= MaxQueue /\ Range(<<>>) = {}
  BY BrokerAssumption DEF Range
<1>4. /\ net' \in [broken : SUBSET Agent, chunk : SUBSET Agent, queue : [Agent -> Seq(Frame)]]
      /\ net'.broken = net.broken \ {a} /\ net'.queue[a] = <<>>
      /\ \A b \in Agent : b # a => net'.queue[b] = net.queue[b]
  BY <1>1, <1>2, <1>3
<1>5. NetOK(net')
  BY <1>2, <1>3, <1>4 DEF NetOK
<1>6. \A r \in Requests : r.from \in Agent
  BY BrokerAssumption DEF Requests
<1> QED
  BY <1>1, <1>3, <1>4, <1>5, <1>6 DEF Told

\* A client reads the oldest frame; who was told is told, or reads it by this very step.
LEMMA ReadFacts ==
  ASSUME NetOK(net), NEW a \in Agent, Read(a)
  PROVE  /\ NetOK(net') /\ UNCHANGED <<online, pending>>
         /\ Head(net.queue[a]) \in Frame /\ Head(net.queue[a]) \in Range(net.queue[a])
         /\ Range(net.queue[a]) = Range(net'.queue[a]) \cup {Head(net.queue[a])}
         /\ \A f : Once(net.queue[a], f) => Once(net'.queue[a], f)
         /\ Once(net.queue[a], Head(net.queue[a])) =>
              Head(net.queue[a]) \notin Range(net'.queue[a])
         /\ \A b \in Agent : b # a => net'.queue[b] = net.queue[b]
         /\ \A r \in Requests :
              Told(r) => Told(r)' \/ (r.from = a /\ Settles(Head(net.queue[a]), r))
<1>1. /\ net' = [net EXCEPT !.queue[a] = Tail(@)]
      /\ net.queue[a] # <<>> /\ online' = online /\ pending' = pending
  BY DEF Read
<1>2. /\ net \in [broken : SUBSET Agent, chunk : SUBSET Agent, queue : [Agent -> Seq(Frame)]]
      /\ \A b \in Agent : Len(net.queue[b]) <= MaxQueue
      /\ Len(net.queue[a]) \in Nat /\ MaxQueue \in Nat
  BY BrokerAssumption, LenProperties DEF NetOK
<1> DEFINE q == net.queue[a]
<1>3. /\ Head(q) \in Frame /\ Head(q) \in Range(q)
      /\ Tail(q) \in Seq(Frame) /\ Len(Tail(q)) = Len(q) - 1
      /\ Range(q) = Range(Tail(q)) \cup {Head(q)}
      /\ \A f : Once(q, f) => Once(Tail(q), f)
      /\ Once(q, Head(q)) => Head(q) \notin Range(Tail(q))
  BY <1>1, <1>2, TailFacts
<1>4. /\ net' \in [broken : SUBSET Agent, chunk : SUBSET Agent, queue : [Agent -> Seq(Frame)]]
      /\ net'.broken = net.broken /\ net'.queue[a] = Tail(q)
      /\ \A b \in Agent : b # a => net'.queue[b] = net.queue[b]
  BY <1>1, <1>2, <1>3
<1> HIDE DEF q
<1>5. NetOK(net')
  <2>1. Len(q) <= MaxQueue /\ Len(q) \in Nat /\ Len(net'.queue[a]) = Len(q) - 1
    BY <1>2, <1>3, <1>4 DEF q
  <2>2. Len(net'.queue[a]) <= MaxQueue
    BY <1>2, <2>1
  <2>3. \A b \in Agent : Len(net'.queue[b]) <= MaxQueue
    BY <1>2, <1>4, <2>2
  <2> QED
    BY <1>4, <2>3 DEF NetOK
<1>6. \A r \in Requests : r.from \in Agent
  BY BrokerAssumption DEF Requests
<1>7. ASSUME NEW r \in Requests, Told(r)
      PROVE  Told(r)' \/ (r.from = a /\ Settles(Head(q), r))
  <2>1. CASE r.from \notin online \ net.broken
    BY <1>1, <1>4, <2>1 DEF Told
  <2>2. CASE \E f \in Range(net.queue[r.from]) : Settles(f, r)
    BY <1>3, <1>4, <1>6, <2>2 DEF Told, q
  <2> QED
    BY <1>7, <2>1, <2>2 DEF Told
<1> QED
  BY <1>1, <1>3, <1>4, <1>5, <1>7 DEF q

-----------------------------------------------------------------------------
(* Types, and the broker inside the composition. *)

\* Frames travel on the sockets of those they are from or for.
Addressed ==
  \A a \in Agent :
    /\ \A f \in Range(net.queue[a]) : f.type = "message" => f.msg.to = a
    /\ \A f \in Range(uplink[a]) : f.type = "send" => f.msg.from = a

MSound ==
  /\ MTypeOK
  /\ Addressed
  /\ BrokerInv
  /\ ClosedQuiet
  /\ NetOK(net)
  /\ uplink \in [Agent -> Seq(UpFrame)]
  /\ inbox \in [Agent -> Seq(Message)]
  /\ waiters \in [Agent -> Nat]
  /\ arrived \subseteq Message
  /\ taken \subseteq Message
  /\ answered \subseteq Requests
  /\ confirmed \subseteq Message

\* A frame the broker reads is an envelope of its sender's or a receipt.
LEMMA UplinkFacts ==
  ASSUME uplink \in [Agent -> Seq(UpFrame)], NEW a \in Agent, uplink[a] # <<>>
  PROVE  LET f == Head(uplink[a]) IN
         /\ f \in UpFrame /\ f \in Range(uplink[a])
         /\ f.msg \in Message
         /\ f.type = "send" => f = SendFrame(f.msg)
         /\ Tail(uplink[a]) \in Seq(UpFrame)
         /\ Range(uplink[a]) = Range(Tail(uplink[a])) \cup {f}
         /\ \A g : Once(uplink[a], g) => Once(Tail(uplink[a]), g)
         /\ Once(uplink[a], f) => f \notin Range(Tail(uplink[a]))
<1>1. \A f \in UpFrame : f.msg \in Message /\ (f.type = "send" => f = SendFrame(f.msg))
  BY DEF UpFrame, SendFrame, ReceivedFrame
<1>2. uplink[a] \in Seq(UpFrame)
  OBVIOUS
<1> QED
  BY <1>1, <1>2, TailFacts

\* The steps of the composition that the broker takes for itself.
BrokerAlone ==
  \/ \E m \in Message : BrokerTimers(m)
  \/ \E a \in Child : ProcessControl(a)
  \/ BrokerShutdown

\* They tell who has to be told and touch no client.
LEMMA AloneFacts ==
  ASSUME MSound, BrokerAlone
  PROVE  /\ [Next]_vars /\ Pushed({}) /\ UNCHANGED clientVars
         /\ deliveries' \subseteq deliveries /\ received' \subseteq received
         /\ closed' => closed \/ pending' = {}
         /\ closed => closed' /\ pending' \subseteq pending
<1> USE DEF MSound
<1>0. TypeOK /\ Child \subseteq Agent
  BY BrokerAssumption DEF BrokerInv
<1>1. ASSUME NEW m \in Message, RequestTimeout(m), UNCHANGED clientVars
      PROVE  /\ Next /\ Pushed({}) /\ UNCHANGED clientVars
             /\ UNCHANGED <<deliveries, received, closed>> /\ pending' \subseteq pending
  BY <1>0, <1>1, TimeoutPush DEF Next, RequestTimeout
<1>2. ASSUME NEW m \in Message, Expire(m), UNCHANGED clientVars
      PROVE  /\ Next /\ Pushed({}) /\ UNCHANGED clientVars
             /\ UNCHANGED <<deliveries, received, closed, pending>>
  BY <1>2, SilentPush DEF Next, Expire
<1>3. ASSUME NEW a \in Child, NewIncarnation(a) \/ Takeover(a), UNCHANGED clientVars
      PROVE  /\ Next /\ Pushed({}) /\ UNCHANGED clientVars
             /\ UNCHANGED <<deliveries, received, closed, pending>>
  BY <1>3, SilentPush DEF Next, NewIncarnation, Takeover
<1>4. ASSUME BrokerShutdown
      PROVE  /\ Next /\ Pushed({}) /\ UNCHANGED clientVars
             /\ deliveries' = {} /\ received' = {} /\ pending' = {} /\ closed' = TRUE
  BY <1>0, <1>4, ShutdownPush DEF Next, BrokerShutdown, Shutdown
<1> QED
  BY <1>1, <1>2, <1>3, <1>4 DEF BrokerAlone, BrokerTimers, ProcessControl

\* A client ends, by close() or because its socket did.
Ends(a) == client[a] = "open" /\ Fail(a) /\ UNCHANGED <<vars, connects, uplink, historyVars>>

\* A step of the composition is a step of one client, of one socket or of the broker.
LEMMA Cases ==
  ASSUME MNext
  PROVE  \/ \E a \in Agent : Connect(a) \/ Ends(a) \/ Receive(a) \/ BrokerReads(a)
                             \/ BrokerDisconnect(a) \/ NextMessage(a) \/ WaiterTimeout(a)
         \/ \E m \in Message : Post(m) \/ LocalTimeout(m)
         \/ \E r \in Requests : Request(r)
         \/ BrokerAlone
<1>1. Listeners \subseteq Agent
  BY BrokerAssumption DEF Listeners
<1> QED
  BY <1>1 DEF MNext, PromptNext, Timers, BrokerAlone, Ends, Close, SocketClosed

\* Every step of the composition is a step of the broker, or none, and its sockets stay
\* within their budget.
LEMMA BrokerMoves ==
  ASSUME MSound, [MNext]_messagingVars
  PROVE  [Next]_vars /\ BrokerInv' /\ ClosedQuiet' /\ NetOK(net)'
<1>0. TypeOK /\ NetOK(net) /\ ClosedQuiet /\ BrokerInv
  BY DEF MSound, BrokerInv
<1>1. [Next]_vars /\ NetOK(net)'
  <2>1. ASSUME NEW a \in Agent, Connect(a)
        PROVE  [Next]_vars /\ NetOK(net)'
    BY <1>0, <2>1, HelloFacts DEF Connect, Next
  <2>2. ASSUME UNCHANGED vars
        PROVE  [Next]_vars /\ NetOK(net)'
    BY <1>0, <2>2 DEF vars
  <2>3. ASSUME NEW a \in Agent, Receive(a)
        PROVE  [Next]_vars /\ NetOK(net)'
    BY <1>0, <2>3, ReadFacts DEF Receive, Next
  <2>4. ASSUME NEW a \in Agent, BrokerReads(a)
        PROVE  [Next]_vars /\ NetOK(net)'
    <3> DEFINE f == Head(uplink[a])
    <3>1. f.msg \in Message
      BY <2>4, UplinkFacts DEF BrokerReads, MSound
    <3>2. \/ RouteRefuse(f.msg) \/ RouteReplay(f.msg) \/ RouteAccept(f.msg)
          \/ Receipt(a, f.msg)
      BY <2>4 DEF BrokerReads, Route
    <3> HIDE DEF f
    <3>3. Next
      BY <3>1, <3>2 DEF Next, Route
    <3>4. NetOK(net)'
      BY <1>0, <3>1, <3>2, RefusePush, ReplayPush, AcceptPush, ReceiptPush DEF Pushed
    <3> QED
      BY <3>3, <3>4
  <2>5. ASSUME NEW a \in Agent, BrokerDisconnect(a)
        PROVE  [Next]_vars /\ NetOK(net)'
    <3>1. Disconnect(a)
      BY <2>5 DEF BrokerDisconnect
    <3> QED
      BY <1>0, <3>1, DisconnectPush DEF Next, Pushed
  <2>6. ASSUME BrokerAlone
        PROVE  [Next]_vars /\ NetOK(net)'
    BY <2>6, AloneFacts DEF Pushed
  <2>7. CASE UNCHANGED messagingVars
    BY <2>2, <2>7 DEF messagingVars
  <2>8. CASE MNext
    BY <2>1, <2>2, <2>3, <2>4, <2>5, <2>6, <2>8, Cases
       DEF Ends, NextMessage, WaiterTimeout, Post, LocalTimeout, Request
  <2> QED
    BY <2>7, <2>8
<1>2. BrokerInv'
  BY <1>0, <1>1, BrokerStep
<1>3. ClosedQuiet'
  <2> USE <1>0 DEF ClosedQuiet, Reads
  <2>1. ASSUME Next
        PROVE  ClosedQuiet'
    BY <2>1 DEF Next, Route, Hello, Disconnect, Read, RouteRefuse, RouteReplay, RouteAccept,
       RequestTimeout, Expire, Receipt, NewIncarnation, Takeover, Shutdown
  <2> QED
    BY <1>1, <2>1 DEF vars
<1> QED
  BY <1>1, <1>2, <1>3

\* rejectMessage() fails the calls it is given and no others.
LEMMA RejectFacts ==
  ASSUME MTypeOK, NEW ms, Reject(ms)
  PROVE  /\ out' \subseteq Message /\ calls' \subseteq Requests /\ calls' = calls \ ms
         /\ outcome' \in [Requests -> {"none", "waiting", "answered", "failed"}]
         /\ calls' = {r \in Requests : outcome'[r] = "waiting"}
         /\ outcome' = [r \in Requests |-> IF r \in calls \ calls' THEN "failed" ELSE outcome[r]]
BY DEF MTypeOK, Reject, Settle

\* A client that ends forgets its calls, its inbox and its waiters.
LEMMA FailFacts ==
  ASSUME MSound, NEW a \in Agent, Fail(a)
  PROVE  /\ client' = [client EXCEPT ![a] = "ended"]
         /\ client' \in [Agent -> {"open", "ended"}]
         /\ Reject(SentBy(a, Message))
         /\ inbox' = [inbox EXCEPT ![a] = <<>>]
         /\ inbox' \in [Agent -> Seq(Message)]
         /\ waiters' \in [Agent -> Nat]
         /\ \A b \in Agent : Len(inbox'[b]) <= MaxInbox /\ waiters'[b] \in 0..MaxPending
         /\ \A b \in Agent : Range(inbox'[b]) \subseteq Range(inbox[b])
<1>1. /\ client \in [Agent -> {"open", "ended"}] /\ inbox \in [Agent -> Seq(Message)]
      /\ waiters \in [Agent -> Nat]
      /\ \A b \in Agent : Len(inbox[b]) <= MaxInbox /\ waiters[b] \in 0..MaxPending
  BY DEF MSound, MTypeOK
<1>2. /\ inbox' = [inbox EXCEPT ![a] = <<>>] /\ waiters' = [waiters EXCEPT ![a] = 0]
      /\ client' = [client EXCEPT ![a] = "ended"] /\ Reject(SentBy(a, Message))
  BY DEF Fail
<1>3. <<>> \in Seq(Message) /\ Len(<<>>) <= MaxInbox /\ 0 \in 0..MaxPending /\ Range(<<>>) = {}
  BY ClientAssumption, BrokerAssumption DEF Range
<1> QED
  BY <1>1, <1>2, <1>3

\* Envelope m is a reply to request r.
Replies(m, r) == m.kind = "reply" /\ r.from = m.to /\ r.to = m.from /\ r.id = m.corr

\* What comes of message m at client a.
HandedOver(a, m) ==
  /\ arrived' = arrived \/ arrived' = arrived \cup {m}
  /\ taken' = taken \/ (m.kind # "reply" /\ taken' = taken \cup {m})
  /\ UNCHANGED <<answered, confirmed>>
  /\ out' \subseteq out /\ calls' \subseteq calls
  /\ outcome' \in [Requests -> {"none", "waiting", "answered", "failed"}]
  /\ calls' = {r \in Requests : outcome'[r] = "waiting"}
  /\ outcome' = [r \in Requests |-> IF r \notin calls \ calls' THEN outcome[r]
                                    ELSE IF Replies(m, r) THEN "answered" ELSE "failed"]
  /\ \A r \in calls : /\ Replies(m, r) => r \notin calls'
                      /\ r.from # a => r \in calls'
  /\ \/ client' = client
     \/ client' = [client EXCEPT ![a] = "ended"] /\ \A r \in calls' : r.from # a
  /\ \/ uplink' = uplink
     \/ m \in arrived' /\ uplink' = [uplink EXCEPT ![a] = Append(@, ReceivedFrame(m))]
  /\ inbox' \in [Agent -> Seq(Message)] /\ waiters' \in [Agent -> Nat]
  /\ \A b \in Agent : Len(inbox'[b]) <= MaxInbox /\ waiters'[b] \in 0..MaxPending
  /\ \A b \in Agent : Range(inbox'[b]) \subseteq
       Range(inbox[b]) \cup (IF b = a /\ m.kind # "reply" THEN {m} ELSE {})

\* A message that is taken from the socket settles the call it replies to, goes to the
\* application or into the inbox, and is acknowledged, unless it is more than the client
\* can take: then the client ends.
LEMMA HandoverFacts ==
  ASSUME MSound, NEW a \in Agent, NEW m \in Message, m.to = a, client[a] = "open",
         ReceiveMessage(a, m)
  PROVE  HandedOver(a, m)
<1> USE DEF HandedOver
<1> DEFINE settled == {r \in calls : m.kind = "reply" /\ r.from = a /\ r.to = m.from
                                      /\ r.id = m.corr}
           woken == m.kind # "reply" /\ waiters[a] > 0
           queued == m.kind # "reply" /\ waiters[a] = 0
           overflow == queued /\ Len(inbox[a]) >= MaxInbox
           rest == SentBy(a, calls) \ settled
<1>1. /\ arrived' = IF overflow THEN arrived ELSE arrived \cup {m}
      /\ taken' = IF woken THEN taken \cup {m} ELSE taken
      /\ UNCHANGED <<answered, confirmed>>
  BY DEF ReceiveMessage
<1>2. /\ client \in [Agent -> {"open", "ended"}] /\ inbox \in [Agent -> Seq(Message)]
      /\ waiters \in [Agent -> Nat] /\ calls \subseteq Requests
      /\ outcome \in [Requests -> {"none", "waiting", "answered", "failed"}]
      /\ calls = {r \in Requests : outcome[r] = "waiting"}
      /\ \A b \in Agent : Len(inbox[b]) <= MaxInbox /\ waiters[b] \in 0..MaxPending
  BY DEF MSound, MTypeOK
<1>3. settled = {r \in calls : Replies(m, r)}
  BY DEF Replies
<1>4. rest = {r \in calls : r.from = a /\ r \notin settled}
  BY DEF SentBy
<1>5. CASE overflow \/ ~RoomUp(a)
  <2>1. /\ client' = [client EXCEPT ![a] = "ended"]
        /\ out' = out \ SentBy(a, out)
        /\ calls' = calls \ SentBy(a, calls)
        /\ inbox' = [inbox EXCEPT ![a] = <<>>]
        /\ waiters' = [waiters EXCEPT ![a] = 0]
        /\ outcome' = Settle(Settle(outcome, rest, "failed"), settled, "answered")
        /\ UNCHANGED uplink
    BY <1>5 DEF ReceiveMessage
  <2>2. <<>> \in Seq(Message) /\ Len(<<>>) <= MaxInbox /\ 0 \in 0..MaxPending /\ Range(<<>>) = {}
    BY ClientAssumption, BrokerAssumption DEF Range
  <2>3. /\ inbox' \in [Agent -> Seq(Message)] /\ waiters' \in [Agent -> Nat]
        /\ \A b \in Agent : Len(inbox'[b]) <= MaxInbox /\ waiters'[b] \in 0..MaxPending
        /\ \A b \in Agent : Range(inbox'[b]) \subseteq Range(inbox[b])
    BY <1>2, <2>1, <2>2
  <2>4. calls' = {r \in calls : r.from # a}
    BY <2>1 DEF SentBy
  <2>5. settled \subseteq calls /\ \A r \in settled : r.from = a
    OBVIOUS
  <2> HIDE DEF settled, rest, overflow, woken, queued
  <2>6. outcome' = [r \in Requests |-> IF r \in settled THEN "answered"
                                       ELSE IF r \in rest THEN "failed" ELSE outcome[r]]
    BY <2>1 DEF Settle
  <2>7. outcome' = [r \in Requests |-> IF r \notin calls \ calls' THEN outcome[r]
                                       ELSE IF Replies(m, r) THEN "answered" ELSE "failed"]
    BY <1>2, <1>3, <1>4, <2>4, <2>5, <2>6
  <2>8. outcome' \in [Requests -> {"none", "waiting", "answered", "failed"}]
        /\ calls' = {r \in Requests : outcome'[r] = "waiting"}
    BY <1>2, <2>4, <2>7
  <2> QED
    BY <1>1, <1>3, <2>1, <2>3, <2>4, <2>5, <2>7, <2>8 DEF woken
<1>6. CASE ~overflow /\ RoomUp(a)
  <2>1. /\ WriteUp(a, [type |-> "received", msg |-> m])
        /\ calls' = calls \ settled
        /\ inbox' = IF queued THEN [inbox EXCEPT ![a] = Append(@, m)] ELSE inbox
        /\ waiters' = IF woken THEN [waiters EXCEPT ![a] = @ - 1] ELSE waiters
        /\ outcome' = Settle(outcome, settled, "answered")
        /\ UNCHANGED <<client, out>>
    BY <1>6 DEF ReceiveMessage
  <2>2. uplink' = [uplink EXCEPT ![a] = Append(@, ReceivedFrame(m))]
    BY <2>1 DEF WriteUp, ReceivedFrame
  <2>3. /\ inbox' \in [Agent -> Seq(Message)]
        /\ \A b \in Agent : Len(inbox'[b]) <= MaxInbox
        /\ \A b \in Agent : Range(inbox'[b]) \subseteq
             Range(inbox[b]) \cup (IF b = a /\ m.kind # "reply" THEN {m} ELSE {})
    <3>1. CASE queued
      <4> DEFINE q == inbox[a]
      <4>1. q \in Seq(Message) /\ Len(q) \in Nat /\ Len(q) < MaxInbox /\ MaxInbox \in Nat
        BY <1>2, <1>6, <3>1, LenProperties, ClientAssumption
      <4>2. /\ Append(q, m) \in Seq(Message) /\ Len(Append(q, m)) = Len(q) + 1
            /\ Range(Append(q, m)) = Range(q) \cup {m}
        BY <4>1, AppendFacts
      <4>3. Len(Append(q, m)) <= MaxInbox
        BY <4>1, <4>2
      <4>4. inbox' = [inbox EXCEPT ![a] = Append(q, m)] /\ m.kind # "reply"
        BY <2>1, <3>1
      <4> HIDE DEF q
      <4>5. /\ inbox'[a] = Append(q, m) /\ q = inbox[a]
            /\ \A b \in Agent : b # a => inbox'[b] = inbox[b]
        BY <1>2, <4>4 DEF q
      <4> QED
        BY <1>2, <4>2, <4>3, <4>4, <4>5
    <3>2. CASE ~queued
      BY <1>2, <2>1, <3>2
    <3> QED
      BY <3>1, <3>2
  <2>4. waiters' \in [Agent -> Nat] /\ \A b \in Agent : waiters'[b] \in 0..MaxPending
    <3>1. CASE woken
      <4>1. waiters[a] \in 1..MaxPending /\ MaxPending \in Nat
        BY <1>2, <3>1, BrokerAssumption
      <4>2. waiters[a] - 1 \in 0..MaxPending
        BY <4>1
      <4> QED
        BY <1>2, <2>1, <3>1, <4>2
    <3>2. CASE ~woken
      BY <1>2, <2>1, <3>2
    <3> QED
      BY <3>1, <3>2
  <2>5. settled \subseteq calls /\ \A r \in settled : r.from = a
    OBVIOUS
  <2>6. arrived' = arrived \cup {m}
    BY <1>1, <1>6
  <2> HIDE DEF settled, rest, overflow, woken, queued
  <2>7. outcome' = [r \in Requests |-> IF r \in settled THEN "answered" ELSE outcome[r]]
    BY <2>1 DEF Settle
  <2>8. outcome' = [r \in Requests |-> IF r \notin calls \ calls' THEN outcome[r]
                                       ELSE IF Replies(m, r) THEN "answered" ELSE "failed"]
    BY <1>2, <1>3, <2>1, <2>5, <2>7
  <2>9. outcome' \in [Requests -> {"none", "waiting", "answered", "failed"}]
        /\ calls' = {r \in Requests : outcome'[r] = "waiting"}
    BY <1>2, <2>1, <2>5, <2>7
  <2> QED
    BY <1>1, <1>3, <2>1, <2>2, <2>3, <2>4, <2>5, <2>6, <2>8, <2>9 DEF woken
<1> QED
  BY <1>5, <1>6

\* The clients' tables keep their types.
ClientTypes ==
  /\ client \in [Agent -> {"open", "ended"}]
  /\ out \subseteq Message
  /\ calls \subseteq Requests
  /\ outcome \in [Requests -> {"none", "waiting", "answered", "failed"}]
  /\ calls = {r \in Requests : outcome[r] = "waiting"}
  /\ inbox \in [Agent -> Seq(Message)]
  /\ waiters \in [Agent -> Nat]
  /\ \A a \in Agent : Len(inbox[a]) <= MaxInbox /\ waiters[a] \in 0..MaxPending
HistoryTypes ==
  /\ uplink \in [Agent -> Seq(UpFrame)]
  /\ arrived \subseteq Message
  /\ taken \subseteq Message
  /\ answered \subseteq Requests
  /\ confirmed \subseteq Message

\* Soundness part by part.
LEMMA Sound ==
  MSound <=> BrokerInv /\ ClosedQuiet /\ NetOK(net) /\ ClientTypes /\ HistoryTypes /\ Addressed
BY DEF MSound, MTypeOK, BrokerInv, ClientTypes, HistoryTypes

\* A read of a client's socket, by the type of frame.
LEMMA ReceiveCases ==
  ASSUME MSound, NEW a \in Agent, Receive(a)
  PROVE  LET f == Head(net.queue[a]) IN
         /\ f \in Frame /\ client[a] = "open" /\ Read(a) /\ UNCHANGED connects
         /\ \/ f.type = "message" /\ f.msg \in Message /\ f = MessageFrame(f.msg)
                 /\ f.msg.to = a /\ ReceiveMessage(a, f.msg)
            \/ f.type \in Stage /\ f.msg \in Message /\ ReceiveStage(f)
            \/ f.type \in {"error", "peer-disconnected"}
                 /\ \E lost \in SUBSET Message :
                      /\ ReceiveLoss(lost)
                      /\ \A r \in Requests : r.from = a /\ Settles(f, r) => r \in lost
            \/ f.type = "shutdown" /\ Fail(a) /\ UNCHANGED <<uplink, historyVars>>
<1> DEFINE f == Head(net.queue[a])
<1>1. NetOK(net) /\ Read(a) /\ \A r \in Requests : r \in Message
  BY DEF MSound, Receive, Requests
<1>2. /\ f.type = "message" => f.msg \in Message /\ f = MessageFrame(f.msg)
      /\ f.type \in Stage \cup {"error"} => f.msg \in Message
      /\ f \in Frame
      /\ f.type = "message" => f.msg.to = a
  BY <1>1, ReadFacts, FrameFacts DEF MSound, Addressed
<1>3. ASSUME f.type = "error", ReceiveLoss({m \in Message : SameKey(m, f.msg)})
      PROVE  \E lost \in SUBSET Message :
               /\ ReceiveLoss(lost)
               /\ \A r \in Requests : r.from = a /\ Settles(f, r) => r \in lost
  BY <1>1, <1>3 DEF Settles, SameKey
<1>4. ASSUME f.type = "peer-disconnected",
             ReceiveLoss({m \in SentBy(a, Message) : m.to = f.agent})
      PROVE  \E lost \in SUBSET Message :
               /\ ReceiveLoss(lost)
               /\ \A r \in Requests : r.from = a /\ Settles(f, r) => r \in lost
  BY <1>1, <1>4 DEF Settles, SentBy
<1> QED
  BY <1>2, <1>3, <1>4 DEF Receive, Stage

\* Every step keeps the clients' tables.
LEMMA ClientMoves ==
  ASSUME MSound, [MNext]_messagingVars
  PROVE  ClientTypes'
<1>0. ClientTypes /\ MTypeOK
  BY Sound DEF MSound
<1>1. ASSUME UNCHANGED <<client, out, calls, outcome, inbox, waiters>>
      PROVE  ClientTypes'
  BY <1>0, <1>1 DEF ClientTypes
<1>2. ASSUME NEW ms, Reject(ms), UNCHANGED <<client, inbox, waiters>>
      PROVE  ClientTypes'
  BY <1>0, <1>2, RejectFacts DEF ClientTypes
<1>3. ASSUME NEW a \in Agent, Fail(a)
      PROVE  ClientTypes'
  BY <1>0, <1>3, FailFacts, RejectFacts DEF ClientTypes
<1>4. ASSUME NEW a \in Agent, Connect(a)
      PROVE  ClientTypes'
  BY <1>0, <1>4 DEF Connect, ClientTypes
<1>5. ASSUME NEW a \in Agent, Receive(a)
      PROVE  ClientTypes'
  <2> DEFINE f == Head(net.queue[a])
  <2>1. CASE f.type = "message" /\ f.msg \in Message /\ f.msg.to = a /\ ReceiveMessage(a, f.msg)
    <3>1. client[a] = "open"
      BY <1>5 DEF Receive
    <3> HIDE DEF f
    <3>2. /\ out' \subseteq out /\ calls' \subseteq calls
          /\ client' = client \/ client' = [client EXCEPT ![a] = "ended"]
          /\ outcome' \in [Requests -> {"none", "waiting", "answered", "failed"}]
          /\ calls' = {r \in Requests : outcome'[r] = "waiting"}
          /\ inbox' \in [Agent -> Seq(Message)] /\ waiters' \in [Agent -> Nat]
          /\ \A b \in Agent : Len(inbox'[b]) <= MaxInbox /\ waiters'[b] \in 0..MaxPending
      BY <2>1, <3>1, HandoverFacts DEF HandedOver
    <3> QED
      BY <1>0, <3>2 DEF ClientTypes
  <2>2. CASE ReceiveStage(f)
    BY <1>0, <2>2 DEF ClientTypes, ReceiveStage
  <2>3. CASE \E lost \in SUBSET Message : ReceiveLoss(lost)
    BY <1>2, <2>3 DEF ReceiveLoss
  <2> QED
    BY <1>3, <1>5, <2>1, <2>2, <2>3, ReceiveCases
<1>6. ASSUME NEW a \in Agent, NextMessage(a)
      PROVE  ClientTypes'
  <2>1. UNCHANGED <<client, out, calls, outcome>>
    BY <1>6 DEF NextMessage
  <2>2. CASE inbox[a] # <<>>
    <3>1. inbox' = [inbox EXCEPT ![a] = Tail(inbox[a])] /\ waiters' = waiters
      BY <1>6, <2>2 DEF NextMessage
    <3>2. /\ Tail(inbox[a]) \in Seq(Message) /\ Len(Tail(inbox[a])) = Len(inbox[a]) - 1
          /\ Len(inbox[a]) \in Nat /\ Len(inbox[a]) <= MaxInbox /\ MaxInbox \in Nat
      BY <1>0, <2>2, TailFacts, LenProperties, ClientAssumption DEF ClientTypes
    <3>3. Len(Tail(inbox[a])) <= MaxInbox
      BY <3>2
    <3> QED
      BY <1>0, <2>1, <3>1, <3>2, <3>3 DEF ClientTypes
  <2>3. CASE inbox[a] = <<>>
    <3>1. /\ waiters[a] < MaxPending /\ waiters' = [waiters EXCEPT ![a] = waiters[a] + 1]
          /\ inbox' = inbox
      BY <1>6, <2>3 DEF NextMessage
    <3>2. waiters[a] + 1 \in 0..MaxPending /\ waiters[a] + 1 \in Nat
      BY <1>0, <3>1, BrokerAssumption DEF ClientTypes
    <3> QED
      BY <1>0, <2>1, <3>1, <3>2 DEF ClientTypes
  <2> QED
    BY <2>2, <2>3
<1>7. ASSUME NEW a \in Agent, WaiterTimeout(a)
      PROVE  ClientTypes'
  <2>1. waiters[a] - 1 \in 0..MaxPending /\ waiters[a] - 1 \in Nat
    BY <1>0, <1>7, BrokerAssumption DEF ClientTypes, WaiterTimeout
  <2> QED
    BY <1>0, <1>7, <2>1 DEF ClientTypes, WaiterTimeout
<1>8. ASSUME NEW m \in Message, Post(m)
      PROVE  ClientTypes'
  BY <1>0, <1>8 DEF Post, ClientTypes
<1>9. ASSUME NEW r \in Requests, Request(r)
      PROVE  ClientTypes'
  <2>1. r \in Message /\ UNCHANGED <<client, inbox, waiters>> /\ outcome[r] = "none"
    BY <1>9 DEF Requests, Request
  <2>2. CASE /\ calls' = calls \cup {r} /\ out' = out \cup {r}
             /\ outcome' = [outcome EXCEPT ![r] = "waiting"]
    BY <1>0, <2>1, <2>2 DEF ClientTypes
  <2>3. CASE /\ calls' = calls /\ out' = out
             /\ outcome' = [outcome EXCEPT ![r] = "failed"]
    BY <1>0, <2>1, <2>3 DEF ClientTypes
  <2> QED
    BY <1>9, <2>2, <2>3 DEF Request
<1>10. ASSUME NEW m \in Message, LocalTimeout(m)
       PROVE  ClientTypes'
  BY <1>2, <1>10 DEF LocalTimeout
<1>11. ASSUME NEW a \in Agent, BrokerReads(a) \/ BrokerDisconnect(a)
       PROVE  ClientTypes'
  BY <1>1, <1>11 DEF BrokerReads, BrokerDisconnect
<1>12. ASSUME BrokerAlone
       PROVE  ClientTypes'
  BY <1>1, <1>12, AloneFacts DEF clientVars
<1>13. CASE UNCHANGED messagingVars
  BY <1>1, <1>13 DEF messagingVars, clientVars
<1> QED
  BY <1>3, <1>4, <1>5, <1>6, <1>7, <1>8, <1>9, <1>10, <1>11, <1>12, <1>13, Cases DEF Ends

\* What an application sends for the first time.
Sending(m) ==
  \/ m \in Requests /\ outcome[m] = "none" /\ outcome'[m] = "waiting"
  \/ m.kind # "request" /\ Post(m)

\* Uplinks grow by what the application sends and by acknowledgements of what has
\* arrived; they lose only what the broker reads, and all of it when the connection goes.
UplinkStep(a) ==
  /\ \A f \in Range(uplink'[a]) \ Range(uplink[a]) :
       \/ \E m \in Message : f = ReceivedFrame(m) /\ m \in arrived'
       \/ \E m \in Message : f = SendFrame(m) /\ m.from = a /\ Sending(m)
  /\ \A r \in Requests :
       Once(uplink[a], SendFrame(r))
         /\ (outcome[r] = "none" => SendFrame(r) \notin Range(uplink[a]))
       => Once(uplink'[a], SendFrame(r))
  /\ \A f \in Range(uplink[a]) \ Range(uplink'[a]) :
       \/ Connect(a) \/ BrokerDisconnect(a)
       \/ BrokerReads(a) /\ f = Head(uplink[a])

UplinkSteps == uplink' \in [Agent -> Seq(UpFrame)] /\ \A a \in Agent : UplinkStep(a)

\* A frame is written at the end of one uplink.
LEMMA UplinkWrite ==
  ASSUME MSound, NEW a \in Agent, NEW f \in UpFrame,
         uplink' = [uplink EXCEPT ![a] = Append(@, f)],
         \/ \E m \in Message : f = ReceivedFrame(m) /\ m \in arrived'
         \/ \E m \in Message : f = SendFrame(m) /\ m.from = a /\ Sending(m)
  PROVE  UplinkSteps
<1>0. uplink \in [Agent -> Seq(UpFrame)]
  BY DEF MSound
<1>1. /\ \A b \in Agent : b # a => uplink'[b] = uplink[b]
      /\ uplink'[a] = Append(uplink[a], f)
  BY <1>0
<1>2. /\ uplink'[a] \in Seq(UpFrame)
      /\ Range(uplink'[a]) = Range(uplink[a]) \cup {f}
      /\ \A g : Once(uplink[a], g) /\ (g # f \/ g \notin Range(uplink[a]))
                  => Once(uplink'[a], g)
  BY <1>0, <1>1, AppendFacts
<1>3. ASSUME NEW r \in Requests, SendFrame(r) = f
      PROVE  outcome[r] = "none"
  <2>1. \A m : ReceivedFrame(m) # f
    BY <1>3 DEF SendFrame, ReceivedFrame
  <2>2. \A m : SendFrame(m) = f => m = r
    BY <1>3 DEF SendFrame
  <2> QED
    BY <2>1, <2>2 DEF Sending, Requests
<1>4. UplinkStep(a)
  BY <1>2, <1>3 DEF UplinkStep
<1>5. \A b \in Agent : b # a => UplinkStep(b)
  BY <1>0, <1>1 DEF UplinkStep
<1>6. uplink' \in [Agent -> Seq(UpFrame)]
  BY <1>0, <1>1, <1>2
<1> QED
  BY <1>4, <1>5, <1>6 DEF UplinkSteps

\* Every step moves the uplinks this way.
LEMMA UplinkMoves ==
  ASSUME MSound, [MNext]_messagingVars
  PROVE  UplinkSteps
<1>0. uplink \in [Agent -> Seq(UpFrame)]
  BY DEF MSound
<1>1. ASSUME UNCHANGED uplink
      PROVE  UplinkSteps
  BY <1>0, <1>1 DEF UplinkStep, UplinkSteps
<1>2. ASSUME NEW a \in Agent, Connect(a) \/ BrokerDisconnect(a)
      PROVE  UplinkSteps
  <2>1. uplink' = [uplink EXCEPT ![a] = <<>>]
    BY <1>2 DEF Connect, BrokerDisconnect
  <2>2. <<>> \in Seq(UpFrame) /\ Range(<<>>) = {} /\ \A f : Once(<<>>, f)
    BY DEF Range, Once
  <2>3. UplinkStep(a)
    BY <1>0, <1>2, <2>1, <2>2 DEF UplinkStep
  <2>4. \A b \in Agent : b # a => UplinkStep(b)
    BY <1>0, <2>1 DEF UplinkStep
  <2> QED
    BY <1>0, <2>1, <2>2, <2>3, <2>4 DEF UplinkSteps
<1>3. ASSUME NEW a \in Agent, BrokerReads(a)
      PROVE  UplinkSteps
  <2>1. uplink[a] # <<>> /\ uplink' = [uplink EXCEPT ![a] = Tail(@)]
    BY <1>3 DEF BrokerReads
  <2>2. UplinkStep(a)
    BY <1>0, <1>3, <2>1, UplinkFacts DEF UplinkStep
  <2>3. \A b \in Agent : b # a => UplinkStep(b)
    BY <1>0, <2>1 DEF UplinkStep
  <2> QED
    BY <1>0, <2>1, <2>2, <2>3, UplinkFacts DEF UplinkSteps
<1>4. ASSUME NEW m \in Message, Post(m)
      PROVE  UplinkSteps
  <2>1. /\ uplink' = [uplink EXCEPT ![m.from] = Append(@, SendFrame(m))]
        /\ m.from \in Agent /\ SendFrame(m) \in UpFrame
    BY <1>4, BrokerAssumption DEF Post, WriteUp, SendFrame, UpFrame
  <2>2. Sending(m)
    BY <1>4 DEF Sending, Post
  <2> QED
    BY <2>1, <2>2, UplinkWrite
<1>5. ASSUME NEW r \in Requests, Request(r)
      PROVE  UplinkSteps
  <2>0. r \in Message /\ r.from \in Agent /\ outcome \in [Requests -> {"none", "waiting", "answered", "failed"}]
    BY BrokerAssumption DEF Requests, MSound, MTypeOK
  <2>1. CASE WriteUp(r.from, [type |-> "send", msg |-> r])
             /\ outcome' = [outcome EXCEPT ![r] = "waiting"]
    <3>1. /\ uplink' = [uplink EXCEPT ![r.from] = Append(@, SendFrame(r))]
          /\ SendFrame(r) \in UpFrame
      BY <2>0, <2>1 DEF WriteUp, SendFrame, UpFrame
    <3>2. Sending(r)
      BY <1>5, <2>0, <2>1 DEF Sending, Request
    <3> QED
      BY <2>0, <3>1, <3>2, UplinkWrite
  <2>2. CASE UNCHANGED uplink
    BY <1>1, <2>2
  <2> QED
    BY <1>5, <2>1, <2>2 DEF Request
<1>6. ASSUME NEW a \in Agent, Receive(a)
      PROVE  UplinkSteps
  <2> DEFINE f == Head(net.queue[a])
             m == f.msg
  <2>1. CASE f.type = "message" /\ m \in Message /\ m.to = a /\ ReceiveMessage(a, m)
    <3>1. client[a] = "open"
      BY <1>6 DEF Receive
    <3> HIDE DEF f, m
    <3>2. \/ uplink' = uplink
          \/ m \in arrived' /\ uplink' = [uplink EXCEPT ![a] = Append(@, ReceivedFrame(m))]
      BY <2>1, <3>1, HandoverFacts DEF HandedOver
    <3>3. ReceivedFrame(m) \in UpFrame
      BY <2>1 DEF UpFrame
    <3> QED
      BY <1>1, <2>1, <3>2, <3>3, UplinkWrite
  <2> QED
    BY <1>1, <1>6, <2>1, ReceiveCases DEF ReceiveStage, ReceiveLoss
<1>7. ASSUME BrokerAlone
      PROVE  UplinkSteps
  BY <1>1, <1>7, AloneFacts DEF clientVars
<1>8. CASE UNCHANGED messagingVars
  BY <1>1, <1>8 DEF messagingVars, clientVars
<1>9. CASE MNext
  BY <1>1, <1>2, <1>3, <1>4, <1>5, <1>6, <1>7, <1>9, Cases
     DEF Ends, NextMessage, WaiterTimeout, LocalTimeout
<1> QED
  BY <1>8, <1>9

\* Queues grow by the one envelope the broker accepts, by receipts it has on record and
\* by what settles calls; they lose only what their client reads, or begin anew.
Passing(m) ==
  \E a \in Agent : BrokerReads(a) /\ Head(uplink[a]) = SendFrame(m) /\ RouteAccept(m)

NetSteps ==
  /\ \A b \in Agent :
       /\ \A f \in Range(net'.queue[b]) \ Range(net.queue[b]) :
            /\ f.type = "message" => f.msg.to = b /\ Passing(f.msg)
            /\ f.type = "received" => f.msg \in received'
       /\ \A m \in Message :
            Once(net.queue[b], MessageFrame(m))
              /\ (Passing(m) => b = m.to /\ MessageFrame(m) \notin Range(net.queue[b]))
            => Once(net'.queue[b], MessageFrame(m))
  /\ \A m \in received' \ received : \E a \in Agent : ReceivedFrame(m) \in Range(uplink[a])
  /\ \A r \in Requests :
       Told(r) => \/ Told(r)' \/ Connect(r.from)
                  \/ Receive(r.from) /\ Settles(Head(net.queue[r.from]), r)
  /\ \A r \in pending : r \in pending' \/ Told(r)'

\* What the lemmas about the broker's handlers say of a step.
LEMMA PushedSteps ==
  ASSUME NEW ms, Pushed(ms), \A m \in ms : Passing(m),
         \A m \in ms : MessageFrame(m) \notin Range(net.queue[m.to]) =>
                         Once(net'.queue[m.to], MessageFrame(m)),
         \A m \in received' \ received : \E a \in Agent : ReceivedFrame(m) \in Range(uplink[a])
  PROVE  NetSteps
<1>1. ASSUME NEW b \in Agent, NEW m \in Message, Once(net.queue[b], MessageFrame(m)),
             Passing(m) => b = m.to /\ MessageFrame(m) \notin Range(net.queue[b])
      PROVE  Once(net'.queue[b], MessageFrame(m))
  <2>1. CASE m \in ms
    BY <1>1, <2>1
  <2>2. CASE m \notin ms
    BY <1>1, <2>2 DEF Pushed
  <2> QED
    BY <2>1, <2>2
<1> QED
  BY <1>1 DEF Pushed, NetSteps

\* Every step moves the queues this way.
LEMMA NetMoves ==
  ASSUME MSound, [MNext]_messagingVars
  PROVE  NetSteps
<1>0. TypeOK /\ NetOK(net) /\ ClosedQuiet /\ BrokerInv /\ uplink \in [Agent -> Seq(UpFrame)]
  BY DEF MSound, BrokerInv
<1>1. ASSUME UNCHANGED <<net, online, pending, received>>
      PROVE  NetSteps
  BY <1>0, <1>1, SilentPush, PushedSteps
<1>2. ASSUME NEW a \in Agent, Connect(a)
      PROVE  NetSteps
  <2>1. Hello(a) /\ UNCHANGED <<pending, received>>
    BY <1>2 DEF Connect, Hello
  <2>2. \A f : Once(<<>>, f)
    BY DEF Once
  <2>3. \A r \in Requests : r.from # a \/ Connect(r.from)
    BY <1>2
  <2> QED
    BY <1>0, <2>1, <2>2, <2>3, HelloFacts DEF NetSteps
<1>3. ASSUME NEW a \in Agent, Receive(a)
      PROVE  NetSteps
  <2>1. Read(a) /\ UNCHANGED <<pending, received>>
    BY <1>3 DEF Receive, Read
  <2>2. \A r \in Requests : r.from = a => Receive(r.from)
    BY <1>3
  <2> QED
    BY <1>0, <2>1, <2>2, ReadFacts DEF NetSteps
<1>4. ASSUME NEW a \in Agent, BrokerReads(a)
      PROVE  NetSteps
  <2> DEFINE f == Head(uplink[a])
             m == f.msg
  <2>1. /\ f \in UpFrame /\ f \in Range(uplink[a]) /\ m \in Message
        /\ f.type = "send" => f = SendFrame(m)
    BY <1>0, <1>4, UplinkFacts DEF BrokerReads
  <2>2. f.type = "received" => f = ReceivedFrame(m)
    BY <2>1 DEF UpFrame, ReceivedFrame, SendFrame
  <2>3. CASE f.type = "send" /\ Route(m)
    <3>1. CASE RouteRefuse(m) \/ RouteReplay(m)
      <4>1. received' \subseteq received
        BY <3>1 DEF RouteRefuse, RouteReplay, Keep
      <4>2. Pushed({})
        BY <1>0, <2>1, <3>1, RefusePush, ReplayPush
      <4> QED
        BY <4>1, <4>2, PushedSteps
    <3>2. CASE RouteAccept(m)
      <4>1. received' \subseteq received
        BY <3>2 DEF RouteAccept, Keep
      <4>2. Passing(m)
        BY <1>4, <2>1, <2>3, <3>2 DEF Passing
      <4> HIDE DEF f, m
      <4>3. Pushed({m}) /\ (MessageFrame(m) \notin Range(net.queue[m.to]) =>
              Once(net'.queue[m.to], MessageFrame(m)))
        BY <1>0, <2>1, <3>2, AcceptPush
      <4> QED
        BY <4>1, <4>2, <4>3, PushedSteps
    <3> QED
      BY <2>3, <3>1, <3>2 DEF Route
  <2>4. CASE f.type = "received" /\ Receipt(a, m)
    <3>1. Pushed({}) /\ received' \subseteq received \cup {m}
      BY <1>0, <2>1, <2>4, ReceiptPush
    <3>2. ReceivedFrame(m) \in Range(uplink[a])
      BY <2>1, <2>2, <2>4
    <3> HIDE DEF f, m
    <3> QED
      BY <3>1, <3>2, PushedSteps
  <2> QED
    BY <1>4, <2>3, <2>4 DEF BrokerReads
<1>5. ASSUME NEW a \in Agent, BrokerDisconnect(a)
      PROVE  NetSteps
  <2>1. Disconnect(a) /\ received' = received
    BY <1>5 DEF BrokerDisconnect, Disconnect
  <2> QED
    BY <1>0, <2>1, DisconnectPush, PushedSteps
<1>6. ASSUME BrokerAlone
      PROVE  NetSteps
  BY <1>6, AloneFacts, PushedSteps
<1>7. CASE UNCHANGED messagingVars
  BY <1>1, <1>7 DEF messagingVars, vars
<1>8. CASE MNext
  BY <1>1, <1>2, <1>3, <1>4, <1>5, <1>6, <1>8, Cases
     DEF Ends, NextMessage, WaiterTimeout, Post, LocalTimeout, Request, vars
<1> QED
  BY <1>7, <1>8

\* What arrives was in a queue of messages; what an application takes was in its inbox or
\* arrived; what is confirmed was confirmed by the broker; what is answered was taken.
Carried(m) == \E a \in Agent : MessageFrame(m) \in Range(net.queue[a])

HistorySteps ==
  /\ arrived \subseteq arrived' /\ \A m \in arrived' \ arrived : m \in Message /\ Carried(m)
  /\ taken \subseteq taken'
  /\ \A m \in taken' \ taken :
       m \in Message /\ (Carried(m) \/ \E a \in Agent : m \in Range(inbox[a]))
  /\ \A a \in Agent : \A m \in Range(inbox'[a]) \ Range(inbox[a]) : Carried(m)
  /\ confirmed \subseteq confirmed'
  /\ \A m \in confirmed' \ confirmed :
       m \in Message
         /\ \E a \in Agent : \E f \in Range(net.queue[a]) : f.type = "received" /\ f.msg = m
  /\ answered \subseteq answered'
  /\ \A r \in answered' \ answered :
       \E m \in Message : Post(m) /\ m.kind = "reply" /\ r \in Asked(m)
  /\ \A m \in Message : Post(m) /\ m.kind = "reply" => Asked(m) \subseteq answered'
  /\ \A r \in Requests : outcome[r] # "none" => outcome'[r] # "none"

\* Every step moves inboxes and histories this way.
LEMMA HistoryMoves ==
  ASSUME MSound, [MNext]_messagingVars
  PROVE  HistorySteps
<1> USE DEF HistorySteps
<1>0. MTypeOK /\ ClientTypes /\ NetOK(net) /\ \A r \in Requests : r.kind # "reply"
  BY Sound DEF MSound, Requests
<1>1. ASSUME UNCHANGED <<inbox, outcome, historyVars>>, \A m \in Message : ~Post(m) \/ m.kind # "reply"
      PROVE  HistorySteps
  BY <1>1 DEF historyVars
<1>2. ASSUME NEW ms, Reject(ms)
      PROVE  \A r \in Requests : outcome[r] # "none" => outcome'[r] # "none"
  BY <1>0, <1>2, RejectFacts
<1>3. \A m \in Message : Post(m) => m \notin out /\ m \in out'
  BY DEF Post
<1>4. ASSUME NEW a \in Agent, Ends(a)
      PROVE  HistorySteps
  <2>1. out' \subseteq out
    BY <1>4 DEF Ends, Fail, Reject
  <2> QED
    BY <1>2, <1>3, <1>4, <2>1, FailFacts DEF Ends, historyVars
<1>5. ASSUME NEW a \in Agent, Receive(a)
      PROVE  HistorySteps
  <2> DEFINE f == Head(net.queue[a])
             m == f.msg
  <2>0. f \in Range(net.queue[a])
    BY <1>0, <1>5, ReadFacts DEF Receive
  <2>1. CASE f.type = "message" /\ m \in Message /\ f = MessageFrame(m) /\ m.to = a
             /\ ReceiveMessage(a, m)
    <3>1. client[a] = "open" /\ Carried(m)
      BY <1>5, <2>0, <2>1 DEF Receive, Carried
    <3> HIDE DEF f, m
    <3>2. /\ arrived' = arrived \/ arrived' = arrived \cup {m}
          /\ taken' = taken \/ (m.kind # "reply" /\ taken' = taken \cup {m})
          /\ UNCHANGED <<answered, confirmed>>
          /\ out' \subseteq out
          /\ outcome' = [r \in Requests |-> IF r \notin calls \ calls' THEN outcome[r]
                                            ELSE IF Replies(m, r) THEN "answered" ELSE "failed"]
          /\ \A b \in Agent : Range(inbox'[b]) \subseteq
               Range(inbox[b]) \cup (IF b = a /\ m.kind # "reply" THEN {m} ELSE {})
      <4>1. m \in Message /\ m.to = a /\ ReceiveMessage(a, m) /\ client[a] = "open"
        BY <2>1, <3>1
      <4>2. HandedOver(a, m)
        BY <4>1, HandoverFacts
      <4> QED
        BY <4>2 DEF HandedOver
    <3>3. \A n \in Message : ~Post(n)
      BY <1>3, <3>2
    <3>4. \A r \in Requests : outcome[r] # "none" => outcome'[r] # "none"
      BY <3>2
    <3>5. \A b \in Agent : \A n \in Range(inbox'[b]) \ Range(inbox[b]) : n = m
      BY <3>2
    <3>6. /\ \A n \in arrived' \ arrived : n = m
          /\ \A n \in taken' \ taken : n = m
          /\ arrived \subseteq arrived' /\ taken \subseteq taken'
          /\ confirmed' = confirmed /\ answered' = answered
      BY <3>2
    <3> QED
      BY <2>1, <3>1, <3>3, <3>4, <3>5, <3>6
  <2>2. CASE f.type \in Stage /\ m \in Message /\ ReceiveStage(f)
    <3>1. \A n \in out : SameKey(n, m) => n = m
      BY <1>0, <2>2, ClientAssumption DEF MTypeOK
    <3>2. /\ UNCHANGED <<inbox, outcome, arrived, taken, answered>>
          /\ out' \subseteq out
          /\ \/ UNCHANGED confirmed
             \/ f.type = "received" /\ confirmed' = confirmed \cup {n \in out : SameKey(n, m)}
      BY <2>2 DEF ReceiveStage
    <3> QED
      BY <1>3, <2>0, <2>2, <3>1, <3>2
  <2>3. CASE \E lost \in SUBSET Message : ReceiveLoss(lost)
    <3>1. out' \subseteq out /\ UNCHANGED <<inbox, historyVars>>
      BY <2>3 DEF ReceiveLoss, Reject
    <3> QED
      BY <1>2, <1>3, <2>3, <3>1 DEF ReceiveLoss, historyVars
  <2>4. CASE Fail(a) /\ UNCHANGED <<uplink, historyVars>>
    <3>1. out' \subseteq out
      BY <2>4 DEF Fail, Reject
    <3> QED
      BY <1>2, <1>3, <2>4, <3>1, FailFacts DEF historyVars
  <2> QED
    BY <1>5, <2>1, <2>2, <2>3, <2>4, ReceiveCases
<1>6. ASSUME NEW a \in Agent, NextMessage(a)
      PROVE  HistorySteps
  <2>1. UNCHANGED <<out, outcome, arrived, answered, confirmed>>
    BY <1>6 DEF NextMessage
  <2>2. CASE inbox[a] # <<>>
    <3>1. /\ inbox' = [inbox EXCEPT ![a] = Tail(inbox[a])]
          /\ taken' = taken \cup {Head(inbox[a])}
      BY <1>6, <2>2 DEF NextMessage
    <3>2. /\ Head(inbox[a]) \in Message /\ Head(inbox[a]) \in Range(inbox[a])
          /\ Range(Tail(inbox[a])) \subseteq Range(inbox[a])
      BY <1>0, <2>2, TailFacts DEF ClientTypes
    <3>3. \A b \in Agent : Range(inbox'[b]) \subseteq Range(inbox[b])
      BY <1>0, <3>1, <3>2 DEF ClientTypes
    <3> QED
      BY <1>3, <2>1, <3>1, <3>2, <3>3
  <2>3. CASE inbox[a] = <<>>
    BY <1>3, <1>6, <2>1, <2>3 DEF NextMessage
  <2> QED
    BY <2>2, <2>3
<1>7. ASSUME NEW m \in Message, Post(m)
      PROVE  HistorySteps
  <2>1. UNCHANGED <<inbox, outcome, arrived, taken, confirmed>> /\ out' = out \cup {m}
        /\ answered' = IF m.kind # "reply" THEN answered ELSE answered \cup Asked(m)
    BY <1>7 DEF Post
  <2>2. \A n \in Message : Post(n) => n = m
    BY <1>3, <2>1
  <2> QED
    BY <1>7, <2>1, <2>2
<1>8. ASSUME NEW r \in Requests, Request(r)
      PROVE  HistorySteps
  <2>1. UNCHANGED <<inbox, historyVars>> /\ out' \subseteq out \cup {r}
    BY <1>8 DEF Request
  <2>2. \A n \in Message : Post(n) => n.kind # "reply"
    BY <1>0, <1>3, <2>1
  <2>3. \A q \in Requests : outcome[q] # "none" => outcome'[q] # "none"
    BY <1>0, <1>8 DEF Request, ClientTypes
  <2> QED
    BY <2>1, <2>2, <2>3 DEF historyVars
<1>9. ASSUME NEW m \in Message, LocalTimeout(m)
      PROVE  HistorySteps
  <2>1. out' \subseteq out /\ UNCHANGED <<inbox, historyVars>>
    BY <1>9 DEF LocalTimeout, Reject
  <2> QED
    BY <1>2, <1>3, <1>9, <2>1 DEF LocalTimeout, historyVars
<1>10. ASSUME UNCHANGED <<out, inbox, outcome, historyVars>>
       PROVE  HistorySteps
  BY <1>3, <1>10 DEF historyVars
<1>11. ASSUME BrokerAlone
       PROVE  HistorySteps
  BY <1>10, <1>11, AloneFacts DEF clientVars, historyVars
<1>12. CASE UNCHANGED messagingVars
  BY <1>10, <1>12 DEF messagingVars, clientVars, historyVars
<1>13. CASE MNext
  BY <1>4, <1>5, <1>6, <1>7, <1>8, <1>9, <1>10, <1>11, <1>13, Cases
     DEF Connect, BrokerReads, BrokerDisconnect, WaiterTimeout
<1> QED
  BY <1>12, <1>13

\* The composition begins sound.
LEMMA SoundInit == MInit => MSound
<1> SUFFICES ASSUME MInit PROVE MSound
  OBVIOUS
<1>1. Init /\ MaxInbox \in Nat /\ MaxPending \in Nat /\ MaxQueue \in Nat
  BY BrokerAssumption, ClientAssumption DEF MInit
<1>2. BrokerInv /\ ClosedQuiet
  BY <1>1, BrokerInit DEF Init, ClosedQuiet
<1>3. NetOK(net)
  BY <1>1 DEF NetOK, Init
<1>4. Range(<<>>) = {} /\ Len(<<>>) = 0
  BY DEF Range
<1>5. Addressed
  BY <1>1, <1>4 DEF Addressed, Init, MInit
<1>6. calls = {r \in Requests : outcome[r] = "waiting"}
  BY DEF MInit
<1>7. ClientTypes
  BY <1>1, <1>4, <1>6 DEF ClientTypes, MInit
<1>8. HistoryTypes
  BY DEF HistoryTypes, MInit
<1> QED
  BY <1>2, <1>3, <1>5, <1>7, <1>8, Sound

\* Every step keeps it sound.
LEMMA SoundStep == MSound /\ [MNext]_messagingVars => MSound'
<1> SUFFICES ASSUME MSound, [MNext]_messagingVars PROVE MSound'
  OBVIOUS
<1>1. BrokerInv' /\ ClosedQuiet' /\ NetOK(net)'
  BY BrokerMoves
<1>2. ClientTypes'
  BY ClientMoves
<1>3. UplinkSteps /\ NetSteps /\ HistorySteps
  BY UplinkMoves, NetMoves, HistoryMoves
<1>4. HistoryTypes'
  <2>1. \A m : Asked(m) \subseteq Requests
    BY DEF Asked
  <2> QED
    BY <1>3, <2>1 DEF HistoryTypes, UplinkSteps, HistorySteps, MSound
<1>5. Addressed'
  <2> SUFFICES ASSUME NEW a \in Agent
               PROVE  /\ \A f \in Range(net'.queue[a]) : f.type = "message" => f.msg.to = a
                      /\ \A f \in Range(uplink'[a]) : f.type = "send" => f.msg.from = a
    BY DEF Addressed
  <2>1. \A f \in Range(net'.queue[a]) : f.type = "message" => f.msg.to = a
    BY <1>3 DEF NetSteps, MSound, Addressed
  <2>2. ASSUME NEW f \in Range(uplink'[a]), f.type = "send"
        PROVE  f.msg.from = a
    <3>1. CASE f \in Range(uplink[a])
      BY <2>2, <3>1 DEF MSound, Addressed
    <3>2. CASE f \notin Range(uplink[a])
      <4>1. \/ \E m \in Message : f = ReceivedFrame(m)
            \/ \E m \in Message : f = SendFrame(m) /\ m.from = a
        BY <1>3, <3>2 DEF UplinkSteps, UplinkStep
      <4> QED
        BY <2>2, <4>1 DEF ReceivedFrame, SendFrame
    <3> QED
      BY <3>1, <3>2
  <2> QED
    BY <2>1, <2>2
<1>6. (BrokerInv /\ ClosedQuiet /\ NetOK(net) /\ ClientTypes /\ HistoryTypes /\ Addressed)'
  BY <1>1, <1>2, <1>4, <1>5
<1> QED
  BY <1>6, Sound DEF MSound, MTypeOK, BrokerInv, ClientTypes, HistoryTypes

-----------------------------------------------------------------------------
(* The composition is a broker, and its tables keep their types. *)

\* Soundness is an invariant of the composition.
THEOREM CompositionSound == MSpec => []MSound
BY SoundInit, SoundStep, PTL DEF MSpec

\* The composition implements the broker: whatever the clients, sockets and timers do,
\* the broker takes its own steps and no others, so all that is proved of the broker
\* alone holds with the real client at both ends.
THEOREM ImplementsBroker == MSpec => Spec
<1>1. MInit => Init
  BY DEF MInit
<1>2. MSound /\ [MNext]_messagingVars => [Next]_vars
  BY BrokerMoves
<1> QED
  BY <1>1, <1>2, CompositionSound, PTL DEF MSpec, Spec

\* While a request is open, neither of its ends gets another incarnation.
EndsKept ==
  \A r \in pending \cap pending' : \A a \in {r.from, r.to} : processId'[a] = processId[a]

\* With the real client at both ends, what is open at the broker was asked by the
\* incarnation of its sender that is current, and as long as it is open no step gives
\* either of its ends a new one: a question never outlives the process that asked it, nor
\* the one that it was put to.
THEOREM CurrentInComposition == MSpec => []OpenRequestsCurrent /\ [][EndsKept]_messagingVars
<1>1. MSound => OpenRequestsCurrent
  BY DEF MSound, BrokerInv
<1>2. MSound /\ [MNext]_messagingVars => [EndsKept]_messagingVars
  <2> SUFFICES ASSUME MSound, [MNext]_messagingVars, NEW r \in pending,
                      NEW a \in {r.from, r.to}
               PROVE  processId'[a] = processId[a]
    BY DEF EndsKept
  <2>1. a \in online /\ processId \in [Agent -> Nat]
    BY DEF MSound, MTypeOK, TypeOK, BrokerInv, OpenRequestsConnected
  <2>2. [Next]_vars
    BY BrokerMoves
  <2>3. CASE \E b \in Child : NewIncarnation(b)
    BY <2>1, <2>3 DEF NewIncarnation
  <2>4. CASE ~\E b \in Child : NewIncarnation(b)
    <3>1. UNCHANGED processId
      BY <2>2, <2>4 DEF Next, vars, Hello, Disconnect, Read, Route, RouteRefuse, RouteReplay,
         RouteAccept, RequestTimeout, Expire, Receipt, Takeover, Shutdown, processVars
    <3> QED
      BY <3>1
  <2> QED
    BY <2>3, <2>4
<1> QED
  BY CompositionSound, <1>1, <1>2, PTL DEF MSpec

\* The tables of clients and broker keep their types, inboxes and waiters their bounds, and
\* the calls that wait are exactly the requests made that have no outcome yet.
THEOREM TypesHold == MSpec => []MTypeOK
<1>1. MSound => MTypeOK
  BY DEF MSound
<1> QED
  BY CompositionSound, <1>1, PTL

-----------------------------------------------------------------------------
(* Receipts are the truth. *)

\* An envelope that travels was sent: a request by its caller, a reply by an application
\* that has the request it replies to.
Flown(m) ==
  /\ m \in Requests => outcome[m] # "none"
  /\ m.kind = "reply" => \A r \in Requests : Replies(m, r) => r \in answered

\* What the frames on their way say is so.
Truth ==
  /\ answered \subseteq taken
  /\ received \subseteq arrived
  /\ confirmed \subseteq arrived
  /\ \A m \in taken : Flown(m)
  /\ \A a \in Agent :
       /\ \A m \in Range(inbox[a]) : Flown(m)
       /\ \A f \in Range(uplink[a]) \cup Range(net.queue[a]) :
            /\ f.type \in {"send", "message"} => Flown(f.msg)
            /\ f.type = "received" => f.msg \in arrived

\* An envelope that travels stays one that was sent.
LEMMA FlownStays ==
  ASSUME MSound, [MNext]_messagingVars, NEW m, Flown(m)
  PROVE  Flown(m)'
BY HistoryMoves DEF Flown, HistorySteps, Replies

\* What an application sends was not sent before, or is in reply to what it took.
LEMMA FlownNow ==
  ASSUME MSound, [MNext]_messagingVars, NEW m \in Message, Sending(m)
  PROVE  Flown(m)'
<1>1. m.kind = "reply" => \A r \in Requests : Replies(m, r) => r \in answered'
  <2> SUFFICES ASSUME m.kind = "reply", NEW r \in Requests, Replies(m, r)
               PROVE  r \in answered'
    OBVIOUS
  <2>1. Post(m) /\ Asked(m) # {} /\ Asked(m) \subseteq answered'
    BY HistoryMoves DEF Sending, Requests, Post, HistorySteps
  <2>2. PICK q \in Asked(m) : TRUE
    BY <2>1
  <2>3. q = r
    BY <2>2, ClientAssumption DEF Asked, Replies, SameKey, Requests
  <2> QED
    BY <2>1, <2>2, <2>3
<1>2. m \in Requests => outcome'[m] # "none"
  BY DEF Sending, Requests
<1> QED
  BY <1>1, <1>2 DEF Flown, Replies, Requests

\* Every step keeps the truth.
LEMMA TruthStep == MSound /\ Truth /\ [MNext]_messagingVars => Truth'
<1> SUFFICES ASSUME MSound, Truth, [MNext]_messagingVars PROVE Truth'
  OBVIOUS
<1>1. UplinkSteps /\ NetSteps /\ HistorySteps
  BY UplinkMoves, NetMoves, HistoryMoves
<1>2. \A m : Flown(m) => Flown(m)'
  BY FlownStays
<1>3. \A m : Carried(m) => Flown(m)
  <2> SUFFICES ASSUME NEW m, NEW a \in Agent, MessageFrame(m) \in Range(net.queue[a])
               PROVE  Flown(m)
    BY DEF Carried
  <2>1. MessageFrame(m).type = "message" /\ MessageFrame(m).msg = m
    BY DEF MessageFrame
  <2> QED
    BY <2>1 DEF Truth
<1>4. arrived \subseteq arrived' /\ received' \subseteq arrived' /\ confirmed' \subseteq arrived'
  <2>1. arrived \subseteq arrived'
    BY <1>1 DEF HistorySteps
  <2>2. ASSUME NEW m \in received' \ received
        PROVE  m \in arrived
    <3>1. PICK a \in Agent : ReceivedFrame(m) \in Range(uplink[a])
      BY <1>1, <2>2 DEF NetSteps
    <3>2. ReceivedFrame(m).type = "received" /\ ReceivedFrame(m).msg = m
      BY DEF ReceivedFrame
    <3> QED
      BY <3>1, <3>2 DEF Truth
  <2>3. ASSUME NEW m \in confirmed' \ confirmed
        PROVE  m \in arrived
    BY <1>1, <2>3 DEF HistorySteps, Truth
  <2> QED
    BY <2>1, <2>2, <2>3 DEF Truth
<1>5. answered' \subseteq taken'
  BY <1>1 DEF HistorySteps, Asked, Truth
<1>6. \A m \in taken' : Flown(m)'
  BY <1>1, <1>2, <1>3 DEF HistorySteps, Truth
<1>7. \A a \in Agent : \A m \in Range(inbox'[a]) : Flown(m)'
  BY <1>1, <1>2, <1>3 DEF HistorySteps, Truth
<1>8. ASSUME NEW a \in Agent, NEW f \in Range(uplink'[a])
      PROVE  /\ f.type \in {"send", "message"} => Flown(f.msg)'
             /\ f.type = "received" => f.msg \in arrived'
  <2>1. CASE f \in Range(uplink[a])
    BY <1>2, <1>4, <2>1 DEF Truth
  <2>2. CASE f \notin Range(uplink[a])
    <3>1. \/ \E m \in Message : f = ReceivedFrame(m) /\ m \in arrived'
          \/ \E m \in Message : f = SendFrame(m) /\ Sending(m)
      BY <1>1, <2>2 DEF UplinkSteps, UplinkStep
    <3>2. CASE \E m \in Message : f = ReceivedFrame(m) /\ m \in arrived'
      BY <3>2 DEF ReceivedFrame
    <3>3. CASE \E m \in Message : f = SendFrame(m) /\ Sending(m)
      <4>1. PICK m \in Message : f = SendFrame(m) /\ Sending(m)
        BY <3>3
      <4>2. f.type = "send" /\ f.msg = m
        BY <4>1 DEF SendFrame
      <4> QED
        BY <4>1, <4>2, FlownNow
    <3> QED
      BY <3>1, <3>2, <3>3
  <2> QED
    BY <2>1, <2>2
<1>9. ASSUME NEW a \in Agent, NEW f \in Range(net'.queue[a])
      PROVE  /\ f.type \in {"send", "message"} => Flown(f.msg)'
             /\ f.type = "received" => f.msg \in arrived'
  <2>1. CASE f \in Range(net.queue[a])
    BY <1>2, <1>4, <2>1 DEF Truth
  <2>2. CASE f \notin Range(net.queue[a])
    <3>1. f.type # "send"
      <4>1. NetOK(net')
        BY BrokerMoves
      <4>2. f \in Frame
        BY <1>9, <4>1 DEF NetOK, Range
      <4> QED
        BY <4>2, FrameFacts
    <3>2. f.type = "received" => f.msg \in arrived'
      BY <1>1, <1>4, <2>2 DEF NetSteps
    <3>3. ASSUME f.type = "message"
          PROVE  Flown(f.msg)'
      <4>1. PICK b \in Agent : BrokerReads(b) /\ Head(uplink[b]) = SendFrame(f.msg)
        BY <1>1, <2>2, <3>3 DEF NetSteps, Passing
      <4>2. SendFrame(f.msg) \in Range(uplink[b])
        BY <4>1, UplinkFacts DEF BrokerReads, MSound
      <4>3. SendFrame(f.msg).type = "send" /\ SendFrame(f.msg).msg = f.msg
        BY DEF SendFrame
      <4> QED
        BY <1>2, <4>2, <4>3 DEF Truth
    <3> QED
      BY <3>1, <3>2, <3>3
  <2> QED
    BY <2>1, <2>2
<1> QED
  BY <1>4, <1>5, <1>6, <1>7, <1>8, <1>9 DEF Truth

\* Nothing travels at first.
LEMMA TruthInit == MInit => Truth
<1> SUFFICES ASSUME MInit PROVE Truth
  OBVIOUS
<1>1. Range(<<>>) = {}
  BY DEF Range
<1> QED
  BY <1>1 DEF MInit, Init, Truth

\* Frames, inboxes and histories are true.
THEOREM TruthHolds == MSpec => [](MSound /\ Truth)
BY SoundInit, SoundStep, TruthInit, TruthStep, PTL DEF MSpec

\* A receipt is reported to a sender only for an envelope that the recipient's transport
\* has taken from its socket, however often it was sent.
THEOREM ReceiptsHonest == MSpec => []ReceiptHonest
<1>1. Truth => ReceiptHonest
  BY DEF Truth, ReceiptHonest
<1> QED
  BY TruthHolds, <1>1, PTL

-----------------------------------------------------------------------------
(* No call waits in vain. *)

Recorded == \A m \in deliveries' \ deliveries : Passing(m)

\* A record is made for an envelope that is passed on, and only then.
LEMMA RecordMoves ==
  ASSUME MSound, [MNext]_messagingVars
  PROVE  /\ Recorded
         /\ \A m : Passing(m) => m \in deliveries' /\ (m \in Requests => m \in pending')
<1>1. ASSUME NEW m, Passing(m)
      PROVE  m \in deliveries' /\ (m \in Requests => m \in pending')
  <2>1. RouteAccept(m)
    BY <1>1 DEF Passing
  <2> QED
    BY <2>1 DEF RouteAccept, OpenAfter, Requests
<1>2. ASSUME deliveries' \subseteq deliveries
      PROVE  Recorded
  BY <1>2 DEF Recorded
<1>3. Pruned \subseteq deliveries /\ \A m : Retained(m) \subseteq deliveries
  BY DEF Pruned, Retained
<1>4. ASSUME NEW a \in Agent, BrokerReads(a)
      PROVE  Recorded
  <2> DEFINE f == Head(uplink[a])
             m == f.msg
  <2>1. /\ f \in UpFrame /\ m \in Message
        /\ f.type = "send" => f = SendFrame(m)
    BY <1>4, UplinkFacts DEF BrokerReads, MSound
  <2>2. CASE RouteRefuse(m) \/ RouteReplay(m) \/ Receipt(a, m)
    BY <1>3, <2>2 DEF RouteRefuse, RouteReplay, Receipt, Recorded
  <2>3. CASE f.type = "send" /\ RouteAccept(m)
    <3>1. Passing(m)
      BY <1>4, <2>1, <2>3 DEF Passing
    <3>2. deliveries' = Retained(m) \cup {m}
      BY <2>3 DEF RouteAccept
    <3> HIDE DEF f, m
    <3> QED
      BY <1>3, <3>1, <3>2 DEF Recorded
  <2> QED
    BY <1>4, <2>2, <2>3 DEF BrokerReads, Route
<1>5. CASE UNCHANGED messagingVars
  <2>1. deliveries' \subseteq deliveries
    BY <1>5 DEF messagingVars, vars
  <2> QED
    BY <1>1, <1>2, <2>1
<1>6. CASE MNext
  <2>1. ASSUME BrokerAlone
        PROVE  deliveries' \subseteq deliveries
    BY <2>1, AloneFacts
  <2>2. ASSUME NEW a \in Agent, Connect(a) \/ Ends(a) \/ Receive(a) \/ BrokerDisconnect(a)
                                \/ NextMessage(a) \/ WaiterTimeout(a)
        PROVE  deliveries' \subseteq deliveries
    BY <2>2 DEF Connect, Hello, Ends, Receive, Read, BrokerDisconnect, Disconnect, NextMessage,
                WaiterTimeout, vars
  <2>3. ASSUME NEW m, Post(m) \/ LocalTimeout(m) \/ Request(m)
        PROVE  deliveries' \subseteq deliveries
    BY <2>3 DEF Post, LocalTimeout, Request, vars
  <2>4. CASE \E a \in Agent : BrokerReads(a)
    BY <1>1, <1>4, <2>4
  <2>5. CASE deliveries' \subseteq deliveries
    BY <1>1, <1>2, <2>5
  <2> QED
    BY <1>6, <2>1, <2>2, <2>3, <2>4, <2>5, Cases
<1> QED
  BY <1>5, <1>6

\* A request goes on its way once, before the broker has a record of it.
SentOnce ==
  \A r \in Requests :
    /\ Once(uplink[r.from], SendFrame(r))
    /\ SendFrame(r) \in Range(uplink[r.from]) => r \notin deliveries
    /\ outcome[r] = "none" => r \notin deliveries

\* An envelope that is passed on leaves its sender's uplink.
LEMMA PassingLeaves ==
  ASSUME MSound, Truth, [MNext]_messagingVars, NEW m \in Message, Passing(m)
  PROVE  /\ SendFrame(m) \in Range(uplink[m.from])
         /\ Flown(m)
         /\ Once(uplink[m.from], SendFrame(m)) => SendFrame(m) \notin Range(uplink'[m.from])
<1>1. PICK a \in Agent : BrokerReads(a) /\ Head(uplink[a]) = SendFrame(m)
  BY DEF Passing
<1>2. /\ uplink[a] # <<>> /\ uplink \in [Agent -> Seq(UpFrame)]
      /\ uplink'[a] = Tail(uplink[a])
  BY <1>1 DEF BrokerReads, MSound
<1>3. /\ SendFrame(m) \in Range(uplink[a])
      /\ Once(uplink[a], SendFrame(m)) => SendFrame(m) \notin Range(uplink'[a])
  BY <1>1, <1>2, UplinkFacts
<1>4. SendFrame(m).type = "send" /\ SendFrame(m).msg = m
  BY DEF SendFrame
<1>5. m.from = a /\ Flown(m)
  BY <1>3, <1>4 DEF MSound, Addressed, Truth
<1> QED
  BY <1>3, <1>5

\* Every step keeps it so.
LEMMA SentOnceStep == MSound /\ Truth /\ SentOnce /\ [MNext]_messagingVars => SentOnce'
<1> SUFFICES ASSUME MSound, Truth, SentOnce, [MNext]_messagingVars, NEW r \in Requests
             PROVE  /\ Once(uplink'[r.from], SendFrame(r))
                    /\ SendFrame(r) \in Range(uplink'[r.from]) => r \notin deliveries'
                    /\ outcome'[r] = "none" => r \notin deliveries'
  BY DEF SentOnce
<1>1. r \in Message /\ r.from \in Agent /\ r.kind = "request"
  BY BrokerAssumption DEF Requests
<1>2. UplinkStep(r.from) /\ HistorySteps
  BY <1>1, UplinkMoves, HistoryMoves DEF UplinkSteps
<1>3. SendFrame(r).type = "send" /\ SendFrame(r).msg = r
  BY DEF SendFrame
<1>4. SendFrame(r) \in Range(uplink[r.from]) => outcome[r] # "none"
  BY <1>1, <1>3 DEF Truth, Flown
<1>5. Once(uplink[r.from], SendFrame(r)) /\ Once(uplink'[r.from], SendFrame(r))
  BY <1>2, <1>4 DEF SentOnce, UplinkStep
<1>6. ASSUME r \in deliveries' \ deliveries
      PROVE  outcome[r] # "none" /\ SendFrame(r) \notin Range(uplink'[r.from])
  BY <1>1, <1>5, <1>6, RecordMoves, PassingLeaves DEF Recorded, Flown
<1>7. ASSUME SendFrame(r) \in Range(uplink'[r.from]) \ Range(uplink[r.from])
      PROVE  outcome[r] = "none"
  <2>1. \A m \in Message : SendFrame(r) # ReceivedFrame(m)
                           /\ (SendFrame(r) = SendFrame(m) => r = m)
    BY DEF SendFrame, ReceivedFrame
  <2>2. Sending(r)
    BY <1>2, <1>7, <2>1 DEF UplinkStep
  <2> QED
    BY <1>1, <2>2 DEF Sending
<1>8. SendFrame(r) \in Range(uplink'[r.from]) => r \notin deliveries'
  BY <1>6, <1>7 DEF SentOnce
<1>9. outcome'[r] = "none" => r \notin deliveries'
  BY <1>2, <1>6 DEF SentOnce, HistorySteps
<1> QED
  BY <1>5, <1>8, <1>9

\* Only an open client has calls.
Quiet == \A r \in calls : client[r.from] = "open"

\* A new call puts its request on the way; a client that ends has no call left.
CallSteps ==
  /\ \A r \in calls' \ calls :
       client'[r.from] = "open" /\ SendFrame(r) \in Range(uplink'[r.from])
  /\ \A r \in calls' : client[r.from] = "open" => client'[r.from] = "open"

\* A frame that settles a call is the end of it.
LEMMA SettledEnds ==
  ASSUME MSound, NEW r \in calls, Receive(r.from), Settles(Head(net.queue[r.from]), r)
  PROVE  r \notin calls'
<1> DEFINE a == r.from
           f == Head(net.queue[a])
           m == f.msg
<1>0. ClientTypes /\ MTypeOK /\ r \in Requests /\ r \in Message /\ a \in Agent
      /\ client[a] = "open"
  BY Sound, BrokerAssumption DEF MSound, MTypeOK, Requests, Receive
<1>1. CASE f.type = "message" /\ m \in Message /\ m.to = a /\ ReceiveMessage(a, m)
  <2>1. Replies(m, r)
    BY <1>1 DEF Settles, Replies
  <2>2. HandedOver(a, m)
    BY <1>0, <1>1, HandoverFacts
  <2> HIDE DEF f, m
  <2> QED
    BY <2>1, <2>2 DEF HandedOver
<1>2. CASE f.type \in Stage
  BY <1>2 DEF Settles, Stage
<1>3. CASE \E lost \in SUBSET Message :
             /\ ReceiveLoss(lost)
             /\ \A q \in Requests : q.from = a /\ Settles(f, q) => q \in lost
  BY <1>0, <1>3 DEF ReceiveLoss, Reject
<1>4. CASE Fail(a)
  BY <1>0, <1>4 DEF Fail, Reject, SentBy
<1> QED
  BY <1>0, <1>1, <1>2, <1>3, <1>4, ReceiveCases

\* Every step moves the calls this way.
LEMMA CallMoves ==
  ASSUME MSound, [MNext]_messagingVars
  PROVE  CallSteps
<1>0. ClientTypes /\ MTypeOK /\ uplink \in [Agent -> Seq(UpFrame)]
      /\ \A r \in Requests : r \in Message /\ r.from \in Agent
  BY Sound, BrokerAssumption DEF MSound, Requests
<1>1. ASSUME calls' \subseteq calls, client' = client
      PROVE  CallSteps
  BY <1>1 DEF CallSteps
<1>2. ASSUME NEW a \in Agent, Fail(a)
      PROVE  CallSteps
  <2>1. calls' = {r \in calls : r.from # a} /\ client' = [client EXCEPT ![a] = "ended"]
    BY <1>0, <1>2 DEF Fail, Reject, SentBy, ClientTypes
  <2> QED
    BY <1>0, <2>1 DEF CallSteps, ClientTypes
<1>3. ASSUME NEW r \in Requests, Request(r)
      PROVE  CallSteps
  <2>1. client' = client /\ client[r.from] = "open"
    BY <1>3 DEF Request
  <2>2. CASE calls' = calls
    BY <1>1, <2>1, <2>2
  <2>3. CASE calls' = calls \cup {r} /\ WriteUp(r.from, [type |-> "send", msg |-> r])
    <3>1. uplink'[r.from] = Append(uplink[r.from], SendFrame(r))
      BY <1>0, <2>3 DEF WriteUp, SendFrame
    <3>2. SendFrame(r) \in UpFrame
      BY <1>0 DEF UpFrame
    <3>3. SendFrame(r) \in Range(uplink'[r.from])
      BY <1>0, <3>1, <3>2, AppendFacts
    <3> QED
      BY <2>1, <2>3, <3>3 DEF CallSteps
  <2> QED
    BY <1>3, <2>2, <2>3 DEF Request
<1>4. ASSUME NEW a \in Agent, Receive(a)
      PROVE  CallSteps
  <2> DEFINE f == Head(net.queue[a])
             m == f.msg
  <2>1. CASE f.type = "message" /\ m \in Message /\ m.to = a /\ ReceiveMessage(a, m)
    <3>1. client[a] = "open"
      BY <1>4 DEF Receive
    <3>2. HandedOver(a, m)
      BY <2>1, <3>1, HandoverFacts
    <3> HIDE DEF f, m
    <3>3. calls' \subseteq calls
          /\ (client' = client \/ (client' = [client EXCEPT ![a] = "ended"]
                                    /\ \A r \in calls' : r.from # a))
      BY <3>2 DEF HandedOver
    <3> QED
      BY <1>0, <3>3 DEF CallSteps, ClientTypes
  <2>2. CASE ReceiveStage(f)
    BY <1>1, <2>2 DEF ReceiveStage
  <2>3. CASE \E lost \in SUBSET Message : ReceiveLoss(lost)
    BY <1>1, <2>3 DEF ReceiveLoss, Reject
  <2> QED
    BY <1>2, <1>4, <2>1, <2>2, <2>3, ReceiveCases
<1>5. ASSUME NEW a \in Agent, Connect(a)
      PROVE  CallSteps
  BY <1>0, <1>5 DEF Connect, CallSteps, ClientTypes
<1>6. ASSUME NEW m, LocalTimeout(m)
      PROVE  CallSteps
  BY <1>1, <1>6 DEF LocalTimeout, Reject
<1>7. ASSUME BrokerAlone
      PROVE  CallSteps
  BY <1>1, <1>7, AloneFacts DEF clientVars
<1>8. CASE UNCHANGED messagingVars
  BY <1>1, <1>8 DEF messagingVars, clientVars
<1>9. CASE MNext
  BY <1>1, <1>2, <1>3, <1>4, <1>5, <1>6, <1>7, <1>9, Cases
     DEF Ends, BrokerReads, BrokerDisconnect, NextMessage, WaiterTimeout, Post
<1> QED
  BY <1>8, <1>9

\* A request that leaves the uplink is open at the broker, or its caller is told.
LEMMA RequestRead ==
  ASSUME MSound, SentOnce, [MNext]_messagingVars, NEW r \in Requests,
         SendFrame(r) \in Range(uplink[r.from]), SendFrame(r) \notin Range(uplink'[r.from])
  PROVE  r \in pending' \/ Told(r)' \/ Connect(r.from)
<1>0. r \in Message /\ r.from \in Agent /\ r \notin deliveries /\ TypeOK /\ NetOK(net)
  BY BrokerAssumption DEF Requests, SentOnce, MSound, BrokerInv
<1>1. CASE BrokerDisconnect(r.from)
  BY <1>0, <1>1 DEF BrokerDisconnect, Disconnect, Told
<1>2. CASE BrokerReads(r.from) /\ Head(uplink[r.from]) = SendFrame(r)
  <2>1. SendFrame(r).type = "send" /\ SendFrame(r).msg = r
    BY DEF SendFrame
  <2>2. Route(r)
    BY <1>2, <2>1 DEF BrokerReads
  <2>3. ~RouteReplay(r)
    BY <1>0 DEF RouteReplay, Retained, Pruned
  <2>4. RouteRefuse(r) => Told(r)'
    BY <1>0, RefusePush
  <2>5. RouteAccept(r) => r \in pending'
    BY <1>0 DEF RouteAccept, OpenAfter, Requests
  <2> QED
    BY <2>2, <2>3, <2>4, <2>5 DEF Route
<1> QED
  BY <1>0, <1>1, <1>2, UplinkMoves DEF UplinkSteps, UplinkStep

\* The request of a call is on its way, open, or over.
UnderWay(r) ==
  \/ SendFrame(r) \in Range(uplink[r.from])
  \/ r \in pending
  \/ Told(r)
Justified == \A r \in calls : UnderWay(r)

\* Every step leaves every call justified.
LEMMA JustifiedStep ==
  MSound /\ Truth /\ SentOnce /\ Quiet /\ Justified /\ [MNext]_messagingVars => Quiet' /\ Justified'
<1> SUFFICES ASSUME MSound, SentOnce, Quiet, Justified, [MNext]_messagingVars
             PROVE  Quiet' /\ Justified'
  OBVIOUS
<1>0. \A r \in calls : r \in Requests /\ client[r.from] = "open"
  BY DEF MSound, MTypeOK, Quiet
<1>1. CallSteps /\ NetSteps
  BY CallMoves, NetMoves
<1>2. Quiet'
  BY <1>1 DEF CallSteps, Quiet
<1>3. ASSUME NEW r \in calls', r \in calls
      PROVE  UnderWay(r)'
  <2>1. ~Connect(r.from)
    BY <1>0, <1>3 DEF Connect
  <2>2. CASE SendFrame(r) \in Range(uplink[r.from])
    BY <1>0, <1>3, <2>1, <2>2, RequestRead DEF UnderWay
  <2>3. CASE r \in pending
    BY <1>1, <2>3 DEF NetSteps, UnderWay
  <2>4. CASE Told(r)
    <3>1. ~(Receive(r.from) /\ Settles(Head(net.queue[r.from]), r))
      BY <1>3, SettledEnds
    <3> QED
      BY <1>0, <1>1, <1>3, <2>1, <2>4, <3>1 DEF NetSteps, UnderWay
  <2> QED
    BY <1>3, <2>2, <2>3, <2>4 DEF Justified, UnderWay
<1>4. ASSUME NEW r \in calls', r \notin calls
      PROVE  UnderWay(r)'
  BY <1>1, <1>4 DEF CallSteps, UnderWay
<1> QED
  BY <1>2, <1>3, <1>4 DEF Justified

\* Nobody waits at first.
LEMMA WaitInit == MInit => SentOnce /\ Quiet /\ Justified
<1> SUFFICES ASSUME MInit PROVE SentOnce /\ Quiet /\ Justified
  OBVIOUS
<1>1. \A r \in Requests : r.from \in Agent
  BY BrokerAssumption DEF Requests
<1>2. Range(<<>>) = {} /\ \A f : Once(<<>>, f)
  BY DEF Range, Once
<1> QED
  BY <1>1, <1>2 DEF MInit, Init, SentOnce, Quiet, Justified

\* What keeps every call justified.
THEOREM WaitingHolds == MSpec => [](MSound /\ Truth /\ SentOnce /\ Quiet /\ Justified)
BY SoundInit, SoundStep, TruthInit, TruthStep, WaitInit, SentOnceStep, JustifiedStep, PTL DEF MSpec

\* No call waits in vain, for any limits, losses, timers and reconnects: its request is on
\* the way to the broker or open there, its outcome is on the way back, or the caller's own
\* connection is going down.
THEOREM WaitsJustified == MSpec => []WaitJustified
<1>1. Justified => WaitJustified
  <2> SUFFICES ASSUME Justified, NEW r \in calls
               PROVE  \/ Carries(uplink[r.from], SendFrame(r))
                      \/ r \in pending
                      \/ \E i \in DOMAIN net.queue[r.from] : Settles(net.queue[r.from][i], r)
                      \/ r.from \notin online \ net.broken
    BY DEF WaitJustified, SendFrame
  <2>1. UnderWay(r)
    BY DEF Justified
  <2>2. SendFrame(r) \in Range(uplink[r.from]) => Carries(uplink[r.from], SendFrame(r))
    BY DEF Range, Carries
  <2>3. (\E f \in Range(net.queue[r.from]) : Settles(f, r)) =>
          \E i \in DOMAIN net.queue[r.from] : Settles(net.queue[r.from][i], r)
    BY DEF Range
  <2> QED
    BY <2>1, <2>2, <2>3 DEF UnderWay, Told
<1> QED
  BY WaitingHolds, <1>1, PTL

-----------------------------------------------------------------------------
(* The composition implements the abstract call. *)

\* A step of the composition that only fails calls is a step of the abstract call.
LEMMA FailingImplements ==
  ASSUME MSound, UNCHANGED <<taken, answered>>, calls' \subseteq calls,
         outcome' = [r \in Requests |-> IF r \in calls \ calls' THEN "failed" ELSE outcome[r]]
  PROVE  RR!RRNext
<1> DEFINE call == [r \in Requests |-> IF outcome[r] = "none" THEN "idle" ELSE outcome[r]]
           lost == calls \ calls'
<1>1. /\ outcome \in [Requests -> {"none", "waiting", "answered", "failed"}]
      /\ calls = {r \in Requests : outcome[r] = "waiting"}
  BY DEF MSound, MTypeOK
<1>2. lost \in SUBSET RR!Waiting
  BY <1>1 DEF RR!Waiting
<1>3. call' = RR!Failing(call, lost)
  BY <1>1 DEF RR!Failing
<1> HIDE DEF lost
<1> QED
  BY <1>2, <1>3 DEF RR!RRNext, RR!Fail

\* The hand-over of an envelope is the arrival of a request, the answer of a call, or
\* no more than the failures that come with it.
LEMMA HandoverImplements ==
  ASSUME MSound, Truth, NEW a \in Agent, NEW m \in Message,
         MessageFrame(m) \in Range(net.queue[a]), HandedOver(a, m)
  PROVE  RR!RRNext
<1> DEFINE call == [r \in Requests |-> IF outcome[r] = "none" THEN "idle" ELSE outcome[r]]
           work == [r \in Requests |-> IF r \in answered THEN "replied"
                                       ELSE IF r \in taken THEN "arrived" ELSE "none"]
           over == calls \ calls'
<1>1. /\ outcome \in [Requests -> {"none", "waiting", "answered", "failed"}]
      /\ calls = {r \in Requests : outcome[r] = "waiting"}
  BY DEF MSound, MTypeOK
<1>2. Flown(m)
  BY DEF MessageFrame, Truth
<1>3. /\ outcome' = [r \in Requests |-> IF r \notin over THEN outcome[r]
                                        ELSE IF Replies(m, r) THEN "answered" ELSE "failed"]
      /\ taken' = taken \/ (m.kind # "reply" /\ taken' = taken \cup {m})
      /\ answered' = answered /\ calls' \subseteq calls
      /\ \A r \in calls : Replies(m, r) => r \notin calls'
  BY DEF HandedOver
<1>4. over \in SUBSET RR!Waiting
  BY <1>1 DEF RR!Waiting
<1>5. CASE m.kind = "reply"
  <2>1. taken' = taken
    BY <1>3, <1>5
  <2>2. CASE \E r \in calls : Replies(m, r)
    <3>1. PICK r \in calls : Replies(m, r)
      BY <2>2
    <3>2. r \in Requests /\ r \in answered
      BY <1>1, <1>2, <1>5, <3>1 DEF Flown
    <3>3. \A q \in Requests : Replies(m, q) => q = r
      BY <1>1, <3>1, ClientAssumption DEF Replies, SameKey, Requests
    <3>4. r \in over /\ outcome[r] = "waiting"
      BY <1>1, <1>3, <3>1
    <3>5. call' = RR!Failing([call EXCEPT ![r] = "answered"], over \ {r})
      BY <1>1, <1>3, <3>1, <3>2, <3>3, <3>4 DEF RR!Failing
    <3>6. work[r] = "replied" /\ call[r] = "waiting" /\ work' = work
      BY <1>3, <2>1, <3>2, <3>4
    <3> HIDE DEF over
    <3> QED
      BY <1>4, <3>2, <3>5, <3>6 DEF RR!RRNext, RR!Answer
  <2>3. CASE ~ \E r \in calls : Replies(m, r)
    <3>1. outcome' = [r \in Requests |-> IF r \in over THEN "failed" ELSE outcome[r]]
      BY <1>1, <1>3, <2>3
    <3> QED
      BY <1>3, <2>1, <3>1, FailingImplements
  <2> QED
    BY <2>2, <2>3
<1>6. CASE m.kind # "reply"
  <2>1. outcome' = [r \in Requests |-> IF r \in over THEN "failed" ELSE outcome[r]]
    BY <1>1, <1>3, <1>6 DEF Replies
  <2>2. CASE taken' = taken
    BY <1>3, <2>1, <2>2, FailingImplements
  <2>3. CASE taken' = taken \cup {m} /\ (m \notin Requests \/ m \in answered \/ m \in taken)
    <3>1. work' = work
      BY <1>3, <2>3
    <3>2. call' = RR!Failing(call, over)
      BY <1>1, <2>1 DEF RR!Failing
    <3> QED
      BY <1>4, <3>1, <3>2 DEF RR!RRNext, RR!Fail
  <2>4. CASE taken' = taken \cup {m} /\ m \in Requests /\ m \notin answered /\ m \notin taken
    <3>1. work[m] = "none" /\ work' = [work EXCEPT ![m] = "arrived"]
      BY <1>3, <2>4
    <3>2. call' = RR!Failing(call, over)
      BY <1>1, <2>1 DEF RR!Failing
    <3>3. call[m] # "idle"
      BY <1>1, <1>2, <2>4 DEF Flown
    <3> QED
      BY <1>4, <2>4, <3>1, <3>2, <3>3 DEF RR!RRNext, RR!Arrive
  <2> QED
    BY <1>3, <1>6, <2>2, <2>3, <2>4
<1> QED
  BY <1>5, <1>6

\* Every step of the composition is a step of the abstract call, or none.
LEMMA CallImplements == MSound /\ Truth /\ [MNext]_messagingVars => [RR!RRNext]_(RR!rrVars)
<1> SUFFICES ASSUME MSound, Truth, [MNext]_messagingVars PROVE [RR!RRNext]_(RR!rrVars)
  OBVIOUS
<1> DEFINE call == [r \in Requests |-> IF outcome[r] = "none" THEN "idle" ELSE outcome[r]]
           work == [r \in Requests |-> IF r \in answered THEN "replied"
                                       ELSE IF r \in taken THEN "arrived" ELSE "none"]
<1>0. /\ MTypeOK /\ answered \subseteq taken
      /\ outcome \in [Requests -> {"none", "waiting", "answered", "failed"}]
      /\ calls = {r \in Requests : outcome[r] = "waiting"}
  BY DEF MSound, MTypeOK, Truth
<1>1. ASSUME UNCHANGED <<outcome, taken, answered>>
      PROVE  [RR!RRNext]_(RR!rrVars)
  BY <1>1 DEF RR!rrVars
<1>2. ASSUME NEW ms, Reject(ms), UNCHANGED <<taken, answered>>
      PROVE  [RR!RRNext]_(RR!rrVars)
  BY <1>0, <1>2, RejectFacts, FailingImplements
<1>3. ASSUME NEW a \in Agent, Fail(a), UNCHANGED <<taken, answered>>
      PROVE  [RR!RRNext]_(RR!rrVars)
  BY <1>2, <1>3 DEF Fail
<1>4. ASSUME NEW a \in Agent, Receive(a)
      PROVE  [RR!RRNext]_(RR!rrVars)
  <2> DEFINE f == Head(net.queue[a])
             m == f.msg
  <2>0. f \in Range(net.queue[a]) /\ client[a] = "open"
    BY <1>4, ReadFacts DEF Receive, MSound
  <2>1. CASE f.type = "message" /\ m \in Message /\ f = MessageFrame(m) /\ m.to = a
             /\ ReceiveMessage(a, m)
    <3>1. MessageFrame(m) \in Range(net.queue[a])
      BY <2>0, <2>1
    <3>2. HandedOver(a, m)
      BY <2>0, <2>1, HandoverFacts
    <3> HIDE DEF f, m
    <3> QED
      BY <2>1, <3>1, <3>2, HandoverImplements
  <2>2. CASE ReceiveStage(f)
    BY <1>1, <2>2 DEF ReceiveStage
  <2>3. CASE \E lost \in SUBSET Message : ReceiveLoss(lost)
    BY <1>2, <2>3 DEF ReceiveLoss, historyVars
  <2>4. CASE Fail(a) /\ UNCHANGED <<uplink, historyVars>>
    BY <1>3, <2>4 DEF historyVars
  <2> QED
    BY <1>4, <2>1, <2>2, <2>3, <2>4, ReceiveCases
<1>5. ASSUME NEW a \in Agent, NextMessage(a)
      PROVE  [RR!RRNext]_(RR!rrVars)
  <2>1. UNCHANGED <<outcome, answered>> /\ call' = call
    BY <1>5 DEF NextMessage
  <2>2. CASE inbox[a] = <<>>
    BY <1>1, <1>5, <2>1, <2>2 DEF NextMessage
  <2>3. CASE inbox[a] # <<>>
    <3> DEFINE m == Head(inbox[a])
    <3>1. taken' = taken \cup {m}
      BY <1>5, <2>3 DEF NextMessage
    <3>2. m \in Message /\ Flown(m)
      BY <2>3, TailFacts DEF MSound, Truth
    <3> HIDE DEF m
    <3>3. CASE m \notin Requests \/ m \in taken
      <4>1. work' = work
        BY <2>1, <3>1, <3>3
      <4> QED
        BY <2>1, <4>1 DEF RR!rrVars
    <3>4. CASE m \in Requests /\ m \notin taken
      <4>1. work[m] = "none" /\ work' = [work EXCEPT ![m] = "arrived"]
        BY <1>0, <2>1, <3>1, <3>4
      <4>2. call[m] # "idle"
        BY <1>0, <3>2, <3>4 DEF Flown
      <4>3. {} \in SUBSET RR!Waiting /\ call' = RR!Failing(call, {})
        BY <2>1 DEF RR!Failing
      <4> QED
        BY <3>4, <4>1, <4>2, <4>3 DEF RR!RRNext, RR!Arrive
    <3> QED
      BY <3>3, <3>4
  <2> QED
    BY <2>2, <2>3
<1>6. ASSUME NEW m \in Message, Post(m)
      PROVE  [RR!RRNext]_(RR!rrVars)
  <2>1. /\ UNCHANGED <<outcome, taken>> /\ call' = call
        /\ answered' = IF m.kind # "reply" THEN answered ELSE answered \cup Asked(m)
        /\ (m.kind = "reply" => Asked(m) # {})
    BY <1>6 DEF Post
  <2>2. CASE m.kind # "reply"
    BY <1>1, <2>1, <2>2
  <2>3. CASE m.kind = "reply"
    <3>1. PICK r \in Asked(m) : TRUE
      BY <2>1, <2>3
    <3>2. r \in Requests /\ r \in taken /\ Asked(m) = {r}
      BY <3>1, ClientAssumption DEF Asked, SameKey, Requests
    <3>3. answered' = answered \cup {r}
      BY <2>1, <2>3, <3>2
    <3>4. CASE r \in answered
      BY <1>1, <2>1, <3>3, <3>4
    <3>5. CASE r \notin answered
      <4>1. work[r] = "arrived" /\ work' = [work EXCEPT ![r] = "replied"]
        BY <2>1, <3>2, <3>3, <3>5
      <4> QED
        BY <2>1, <3>2, <4>1 DEF RR!RRNext, RR!Respond
    <3> QED
      BY <3>4, <3>5
  <2> QED
    BY <2>2, <2>3
<1>7. ASSUME NEW r \in Requests, Request(r)
      PROVE  [RR!RRNext]_(RR!rrVars)
  <2>1. UNCHANGED <<taken, answered>> /\ outcome[r] = "none"
        /\ \E s \in {"waiting", "failed"} : outcome' = [outcome EXCEPT ![r] = s]
    BY <1>7 DEF Request, historyVars
  <2>2. work' = work
    BY <2>1
  <2>3. PICK s \in {"waiting", "failed"} : outcome' = [outcome EXCEPT ![r] = s]
    BY <2>1
  <2>4. call[r] = "idle" /\ call' = [call EXCEPT ![r] = s]
    BY <1>0, <2>1, <2>3
  <2> QED
    BY <2>2, <2>4 DEF RR!RRNext, RR!Call
<1>8. ASSUME NEW m, LocalTimeout(m)
      PROVE  [RR!RRNext]_(RR!rrVars)
  BY <1>2, <1>8 DEF LocalTimeout, historyVars
<1>9. ASSUME BrokerAlone
      PROVE  [RR!RRNext]_(RR!rrVars)
  BY <1>1, <1>9, AloneFacts DEF clientVars
<1>10. CASE UNCHANGED messagingVars
  BY <1>1, <1>10 DEF messagingVars, clientVars
<1>11. CASE MNext
  <2>1. ASSUME NEW a \in Agent, Connect(a) \/ BrokerReads(a) \/ BrokerDisconnect(a) \/ WaiterTimeout(a)
        PROVE  [RR!RRNext]_(RR!rrVars)
    BY <1>1, <2>1 DEF Connect, BrokerReads, BrokerDisconnect, WaiterTimeout, historyVars
  <2>2. ASSUME NEW a \in Agent, Ends(a)
        PROVE  [RR!RRNext]_(RR!rrVars)
    BY <1>3, <2>2 DEF Ends, historyVars
  <2> QED
    BY <1>4, <1>5, <1>6, <1>7, <1>8, <1>9, <1>11, <2>1, <2>2, Cases
<1> QED
  BY <1>10, <1>11

\* The composition implements the abstract call: a caller's request is settled once, is
\* answered only with a reply its recipient made to it, and reaches an application only if
\* it was made, whatever the broker, the sockets and the timers do.
THEOREM ImplementsRequestReply == MSpec => RequestReplySpec
<1>1. MInit => RR!RRInit
  BY DEF MInit, RR!RRInit
<1>2. MSound /\ Truth /\ [MNext]_messagingVars => [RR!RRNext]_(RR!rrVars)
  BY CallImplements
<1> QED
  BY <1>1, <1>2, TruthHolds, PTL DEF MSpec, RequestReplySpec, RR!RRSpec

-----------------------------------------------------------------------------
(* Within the retention window nothing is delivered twice. *)

\* Nothing expires; what is in its recipient's queue or has arrived is on record until
\* the broker closes, and is in that queue once and not both.
Fresh ==
  /\ expired = {}
  /\ \A m \in Message :
       /\ Once(net.queue[m.to], MessageFrame(m))
       /\ MessageFrame(m) \in Range(net.queue[m.to]) => m \notin arrived
       /\ MessageFrame(m) \in Range(net.queue[m.to]) \/ m \in arrived => m \in deliveries \/ closed

\* An envelope arrives by being read off its recipient's socket.
LEMMA ArrivalMoves ==
  ASSUME MSound, [MNext]_messagingVars, NEW m \in arrived', m \notin arrived
  PROVE  Receive(m.to) /\ Head(net.queue[m.to]) = MessageFrame(m)
<1>1. PICK a \in Agent : Receive(a)
  <2>1. CASE UNCHANGED messagingVars
    BY <2>1 DEF messagingVars, clientVars
  <2>2. CASE MNext
    <3>1. ~BrokerAlone
      BY AloneFacts DEF clientVars
    <3> QED
      BY <2>2, <3>1, Cases
         DEF Connect, Ends, BrokerReads, BrokerDisconnect, NextMessage, WaiterTimeout, Post,
             LocalTimeout, Request, historyVars
  <2> QED
    BY <2>1, <2>2
<1> DEFINE f == Head(net.queue[a])
           n == f.msg
<1>2. client[a] = "open"
  BY <1>1 DEF Receive
<1>3. CASE n \in Message /\ f = MessageFrame(n) /\ n.to = a /\ ReceiveMessage(a, n)
  <2>1. HandedOver(a, n)
    BY <1>2, <1>3, HandoverFacts
  <2> HIDE DEF f, n
  <2>2. m = n
    BY <2>1 DEF HandedOver
  <2> QED
    BY <1>1, <1>3, <2>2 DEF f
<1>4. CASE arrived' = arrived
  BY <1>4
<1> QED
  BY <1>1, <1>3, <1>4, ReceiveCases DEF ReceiveStage, ReceiveLoss, historyVars

\* Without timers the records stay until the broker closes.
LEMMA RecordsStay ==
  ASSUME MSound, expired = {}, [PromptNext]_messagingVars
  PROVE  /\ expired' = {}
         /\ deliveries \subseteq deliveries' \/ closed'
         /\ closed => closed'
         /\ \A m \in Message : Passing(m) => ~closed /\ m \notin deliveries
<1>1. Pruned = deliveries /\ \A m : Retained(m) = deliveries
  BY DEF Pruned, Retained
<1>2. \A m \in Message : Passing(m) => ~closed /\ m \notin deliveries
  BY <1>1 DEF Passing, RouteAccept, Reads
<1> DEFINE Stays == /\ expired' = {}
                    /\ deliveries \subseteq deliveries' \/ closed'
                    /\ closed => closed'
<1>3. ASSUME NEW a \in Agent, Connect(a) \/ Close(a) \/ Receive(a) \/ SocketClosed(a)
                              \/ BrokerDisconnect(a) \/ NextMessage(a)
      PROVE  Stays
  BY <1>3 DEF Connect, Hello, Close, Receive, Read, SocketClosed, BrokerDisconnect, Disconnect,
              NextMessage, vars
<1>4. ASSUME NEW a \in Agent, BrokerReads(a)
      PROVE  Stays
  <2> DEFINE m == Head(uplink[a]).msg
  <2>1. RouteRefuse(m) \/ RouteReplay(m) \/ RouteAccept(m) \/ Receipt(a, m)
    BY <1>4 DEF BrokerReads, Route
  <2> HIDE DEF m
  <2> QED
    BY <1>1, <2>1 DEF RouteRefuse, RouteReplay, RouteAccept, Receipt, Keep
<1>5. ASSUME NEW m, Post(m) \/ Request(m)
      PROVE  Stays
  BY <1>5 DEF Post, Request, vars
<1>6. ASSUME NEW a \in Child, ProcessControl(a)
      PROVE  Stays
  BY <1>6 DEF ProcessControl, NewIncarnation, Takeover
<1>7. ASSUME BrokerShutdown
      PROVE  Stays
  BY <1>7 DEF BrokerShutdown, Shutdown
<1>8. CASE UNCHANGED messagingVars
  BY <1>2, <1>8 DEF messagingVars, vars
<1>9. CASE PromptNext
  <2>1. Listeners \subseteq Agent
    BY BrokerAssumption DEF Listeners
  <2> HIDE DEF Stays
  <2>2. Stays
    BY <1>3, <1>4, <1>5, <1>6, <1>7, <1>9, <2>1 DEF PromptNext
  <2> QED
    BY <1>2, <2>2 DEF Stays
<1> QED
  BY <1>8, <1>9

\* Every step without timers keeps it so.
LEMMA FreshStep == MSound /\ Fresh /\ [PromptNext]_messagingVars => Fresh'
<1> SUFFICES ASSUME MSound, Fresh, [PromptNext]_messagingVars PROVE Fresh'
  OBVIOUS
<1>0. [MNext]_messagingVars
  BY DEF MNext
<1>1. /\ expired = {} /\ expired' = {}
      /\ deliveries \subseteq deliveries' \/ closed'
      /\ closed => closed'
      /\ \A m \in Message : Passing(m) => ~closed /\ m \notin deliveries
  BY RecordsStay DEF Fresh
<1>2. NetSteps
  BY <1>0, NetMoves
<1> SUFFICES ASSUME NEW m \in Message
             PROVE  /\ Once(net'.queue[m.to], MessageFrame(m))
                    /\ MessageFrame(m) \in Range(net'.queue[m.to]) => m \notin arrived'
                    /\ MessageFrame(m) \in Range(net'.queue[m.to]) \/ m \in arrived'
                         => m \in deliveries' \/ closed'
  BY <1>1 DEF Fresh
<1>3. /\ Once(net.queue[m.to], MessageFrame(m))
      /\ MessageFrame(m) \in Range(net.queue[m.to]) => m \notin arrived
      /\ MessageFrame(m) \in Range(net.queue[m.to]) \/ m \in arrived => m \in deliveries \/ closed
      /\ m.to \in Agent
  BY BrokerAssumption DEF Fresh
<1>4. Passing(m) => /\ MessageFrame(m) \notin Range(net.queue[m.to])
                    /\ m \notin arrived
  BY <1>1, <1>3
<1>5. Once(net'.queue[m.to], MessageFrame(m))
  BY <1>2, <1>3, <1>4 DEF NetSteps
<1>6. ASSUME m \in arrived', m \notin arrived
      PROVE  /\ MessageFrame(m) \in Range(net.queue[m.to])
             /\ MessageFrame(m) \notin Range(net'.queue[m.to])
  <2>1. Receive(m.to) /\ Head(net.queue[m.to]) = MessageFrame(m)
    BY <1>0, <1>6, ArrivalMoves
  <2>2. NetOK(net) /\ Read(m.to)
    BY <2>1 DEF MSound, Receive
  <2> QED
    BY <1>3, <2>1, <2>2, ReadFacts
<1>7. ASSUME MessageFrame(m) \in Range(net'.queue[m.to]),
             MessageFrame(m) \notin Range(net.queue[m.to])
      PROVE  Passing(m)
  <2>1. MessageFrame(m).type = "message" /\ MessageFrame(m).msg = m
    BY DEF MessageFrame
  <2> QED
    BY <1>2, <1>3, <1>7, <2>1 DEF NetSteps
<1>8. Passing(m) => m \in deliveries'
  BY <1>0, RecordMoves
<1>9. MessageFrame(m) \in Range(net'.queue[m.to]) => m \notin arrived'
  BY <1>3, <1>4, <1>6, <1>7
<1>10. MessageFrame(m) \in Range(net'.queue[m.to]) \/ m \in arrived' => m \in deliveries' \/ closed'
  BY <1>1, <1>3, <1>6, <1>7, <1>8
<1> QED
  BY <1>5, <1>9, <1>10

\* Nothing is delivered at first.
LEMMA FreshInit == MInit => Fresh
<1> SUFFICES ASSUME MInit PROVE Fresh
  OBVIOUS
<1>1. \A m \in Message : m.to \in Agent
  BY BrokerAssumption
<1>2. Range(<<>>) = {} /\ \A f : Once(<<>>, f)
  BY DEF Range, Once
<1> QED
  BY <1>1, <1>2 DEF MInit, Init, Fresh

\* While no dedupe time passes, an envelope reaches its recipient at most once, whatever is
\* sent again and whoever reconnects.
THEOREM DeliveriesOnce == PromptSpec => []DeliveredOnce
<1>1. Fresh => DeliveredOnce
  <2> SUFFICES ASSUME Fresh, NEW m \in Message
               PROVE  Cardinality({i \in DOMAIN net.queue[m.to] :
                                     net.queue[m.to][i] = MessageFrame(m)})
                        + (IF m \in arrived THEN 1 ELSE 0) <= 1
    BY DEF DeliveredOnce
  <2> DEFINE q == net.queue[m.to]
             f == MessageFrame(m)
             C == {i \in DOMAIN q : q[i] = f}
  <2>1. Once(q, f) /\ (f \in Range(q) => m \notin arrived)
    BY DEF Fresh
  <2> HIDE DEF q, f
  <2>2. CASE C = {}
    BY <2>2, FS_EmptySet DEF q, f
  <2>3. CASE C # {}
    <3>1. PICK i \in C : TRUE
      BY <2>3
    <3>2. C = {i}
      BY <2>1, <3>1 DEF Once
    <3>3. Cardinality(C) = 1
      BY <3>2, FS_Singleton
    <3>4. m \notin arrived
      BY <2>1, <3>1 DEF Range
    <3> QED
      BY <3>3, <3>4 DEF q, f
  <2> QED
    BY <2>2, <2>3
<1>2. [PromptNext]_messagingVars => [MNext]_messagingVars
  BY DEF MNext
<1> QED
  BY <1>1, <1>2, SoundInit, SoundStep, FreshInit, FreshStep, PTL DEF PromptSpec
=============================================================================
